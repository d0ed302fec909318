------------------------------ MODULE TcgLogOld ------------------------------
(***************************************************************************)
(* The older copy of the reader in src/unnamed/part_000.  Its field reads *)
(* (stream_1_2 lines 66-96, stream_2 lines 119-198) and its open          *)
(* (newLogFromReader, lines 269-322) do what log.go's do, so the actions  *)
(* of TcgLog are reused for them.  It differs in three places, modelled   *)
(* here:                                                                   *)
(*   - the readers decode the event data without classifying separators   *)
(*     (lines 93-106, 195-208);                                            *)
(*   - NextEvent classifies a separator afterwards, from the first entry  *)
(*     of a Go map iteration (classifySeparatorEvent, lines 221-235);     *)
(*   - NextEvent marks the log failed on every error, io.EOF included     *)
(*     (lines 340-343).                                                    *)
(***************************************************************************)
EXTENDS TcgLog

\* part_000 lines 93-106 and 195-208: the event data, read and decoded;
\* nothing is hashed here.
ReadEventOld ==
  /\ rd.pc = "event"
  /\ \/ Remaining < rd.size /\ Fail(WrapLogReadError("eof", TRUE)) /\ pos' = Len(src)
     \/ /\ Remaining >= rd.size
        /\ pos' = pos + rd.size
        /\ rd' = [rd EXCEPT !.pc = "done",
                   !.event = [pcrIndex |-> rd.pcr, eventType |-> rd.eventType,
                              digests |-> rd.digests, index |-> 0,
                              data |-> DecodeEventData(rd.eventType, Words(rd.size), FALSE)]]
  /\ UNCHANGED ReaderVars

ReadStepOld ==
  \/ ReadPCRIndex \/ ReadEventType \/ ReadDigest12 \/ ReadDigestCount
  \/ ReadAlgorithmId \/ ReadDigest2 \/ CheckDigests \/ ReadEventSize \/ ReadEventOld

\* classifySeparatorEvent (lines 221-235): the loop over event.Digests
\* breaks after its first entry, and Go's map iteration order is
\* unspecified, so the verdict is that of any one of the digests; no
\* digest leaves the separator normal.
SeparatorVerdicts(event) ==
  IF DOMAIN event.digests = {} THEN {FALSE}
  ELSE {IsDigestOfSeparatorErrorValue(event.digests[a], a) : a \in DOMAIN event.digests}

\* Mutant of PostProcessOld: the separator left unclassified.
PostProcessOldUnclassified(event, isErr) ==
  IF event.eventType = EventTypeSeparator THEN event
  ELSE [event EXCEPT !.digests = FixupDigests(event)]

\* The switch of NextEvent (lines 353-358): a separator is classified, a
\* Spec ID event gets fixupSpecIdEvent's back-fill (lines 237-253).
PostProcessOld(event, isErr) ==
  IF event.eventType = EventTypeSeparator THEN [event EXCEPT !.data.isError = isErr]
  ELSE [event EXCEPT !.digests = FixupDigests(event)]

\* Mutant of MarksFailedOld: only a truncation marks the log failed.
MarksFailedOldOnTruncation(err) == err = "unexpectedEOF"

\* Lines 340-343: every read error, io.EOF included, marks the log failed.
MarksFailedOld(err) == TRUE

\* NextEvent (lines 339-360) once the stream returned.
NextEventEndOld ==
  /\ phase = "reading"
  /\ rd.pc = "done"
  /\ phase' = "idle"
  /\ \/ /\ rd.err # "none"
        /\ failed' = MarksFailedOld(rd.err)
        /\ lastResult' = rd.err
        /\ UNCHANGED <<indexTracker, emitted>>
     \/ /\ rd.err = "none"
        /\ indexTracker' = TrackIndex(rd.event.pcrIndex)
        /\ \E isErr \in SeparatorVerdicts(rd.event) :
             emitted' = Append(emitted, PostProcessOld([rd.event EXCEPT !.index = EventIndex(rd.event.pcrIndex)],
                                                       isErr))
        /\ lastResult' = "event"
        /\ UNCHANGED failed
  /\ UNCHANGED <<src, pos, start, rd, spec, algorithms, algSizes, stream, readFirstEvent>>

NextOld ==
  \/ OpenLog \/ FinishOpen
  \/ NextEventRefused \/ NextEventBegin \/ NextEventEndOld
  \/ phase \in {"opening", "reading"} /\ ReadStepOld
  \/ Terminated

OldSpec == Init /\ [][NextOld]_vars

=============================================================================
