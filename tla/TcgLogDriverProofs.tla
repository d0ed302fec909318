--------------------------- MODULE TcgLogDriverProofs ---------------------------
(***************************************************************************)
(* Proofs about the Log driver of TcgLog (log.go newLogFromReader and     *)
(* nextEventInternal), for every registry and every source:               *)
(*   - StickyFailure: a failed log never reads or returns again;          *)
(*   - IndicesCountEarlierEvents: the per-PCR index of every returned     *)
(*     event counts the events of its PCR returned before it.             *)
(* Both rest on invariants of the driver's phases; the index proof also   *)
(* rests on type correctness (TypeCorrect of TcgLogProofs).               *)
(***************************************************************************)
EXTENDS TcgLogProofs, TcgLogOld, FiniteSetTheorems

-----------------------------------------------------------------------------
(* The failed flag.                                                        *)

\* A failed log is between calls, and the last result is an error other
\* than io.EOF only after a failed open or on a failed log.
StickyInv ==
  /\ failed => phase = "idle"
  /\ lastResult \in OpenErrors \ {"eof"} => (phase = "openFailed" \/ (phase = "idle" /\ failed))

LEMMA InitStickyInv ==
  ASSUME Init
  PROVE  StickyInv
BY DEF Init, InitLog, StickyInv, OpenErrors, ReadErrors

\* A reader step leaves the driver's flags alone and at most panics.
LEMMA ReadStepFrame ==
  ASSUME phase \in {"opening", "reading"}, ReadStep
  PROVE  /\ UNCHANGED <<failed, lastResult, emitted, indexTracker, src, algorithms>>
         /\ phase' \in {phase, "panicked"}
<1>. USE DEF ReaderVars, logVars
<1>1. CASE ReadPCRIndex    BY <1>1 DEF ReadPCRIndex
<1>2. CASE ReadEventType   BY <1>2 DEF ReadEventType
<1>3. CASE ReadDigest12    BY <1>3 DEF ReadDigest12
<1>4. CASE ReadDigestCount BY <1>4 DEF ReadDigestCount
<1>5. CASE ReadAlgorithmId BY <1>5 DEF ReadAlgorithmId
<1>6. CASE ReadDigest2     BY <1>6 DEF ReadDigest2
<1>7. CASE CheckDigests    BY <1>7 DEF CheckDigests
<1>8. CASE ReadEventSize   BY <1>8 DEF ReadEventSize
<1>9. CASE ReadEvent       BY <1>9 DEF ReadEvent
<1>. QED BY <1>1, <1>2, <1>3, <1>4, <1>5, <1>6, <1>7, <1>8, <1>9 DEF ReadStep

LEMMA StickyInvStep ==
  ASSUME StickyInv, [Next]_vars
  PROVE  StickyInv'
<1>1. CASE OpenLog
  BY <1>1 DEF OpenLog, StickyInv, logVars
<1>2. CASE FinishOpen
  <2>1. phase = "opening" /\ ~failed /\ lastResult \notin OpenErrors \ {"eof"}
    BY <1>2 DEF FinishOpen, StickyInv
  <2>2. \/ phase' = "openFailed" /\ failed' = failed
        \/ phase' = "idle" /\ ~failed' /\ lastResult' = lastResult
    BY <1>2 DEF FinishOpen, logVars
  <2>. QED BY <2>1, <2>2 DEF StickyInv
<1>3. CASE NextEventRefused
  BY <1>3 DEF NextEventRefused, StickyInv, OpenErrors, logVars
<1>4. CASE NextEventBegin
  BY <1>4 DEF NextEventBegin, StickyInv
<1>5. CASE NextEventEnd
  <2>1. phase = "reading" /\ ~failed /\ phase' = "idle"
    BY <1>5 DEF NextEventEnd, StickyInv
  <2>2. \/ failed' = (rd.err # "eof") /\ lastResult' = rd.err
        \/ failed' = failed /\ lastResult' = "event"
    BY <1>5 DEF NextEventEnd, MarksFailed
  <2>. QED BY <2>1, <2>2 DEF StickyInv, OpenErrors, ReadErrors
<1>6. CASE phase \in {"opening", "reading"} /\ ReadStep
  BY <1>6, ReadStepFrame DEF StickyInv
<1>7. CASE Terminated \/ UNCHANGED vars
  BY <1>7 DEF Terminated, StickyInv, vars, logVars
<1>. QED BY <1>1, <1>2, <1>3, <1>4, <1>5, <1>6, <1>7 DEF Next

\* On a failed log only the refusal and the end of the program can run.
LEMMA StickyStep ==
  ASSUME StickyInv, [Next]_vars, failed \/ lastResult \in OpenErrors \ {"eof"}
  PROVE  emitted' = emitted /\ pos' = pos
<1>1. phase = "openFailed" \/ (phase = "idle" /\ failed)
  BY DEF StickyInv
<1>2. ~OpenLog /\ ~FinishOpen /\ ~NextEventBegin /\ ~NextEventEnd
  BY <1>1 DEF OpenLog, FinishOpen, NextEventBegin, NextEventEnd
<1>3. ~(phase \in {"opening", "reading"} /\ ReadStep)
  BY <1>1
<1>4. NextEventRefused \/ Terminated \/ UNCHANGED vars
  BY <1>2, <1>3 DEF Next
<1>. QED BY <1>4 DEF NextEventRefused, Terminated, vars

\* A failed log stays failed (log.go lines 305-315): once a read or the
\* open has failed, no step of the program reads the source again or
\* returns another event, for every registry and every source.
THEOREM StickyFailureHolds == LogSpec => StickyFailure
<1>1. Init => StickyInv
  BY InitStickyInv
<1>2. StickyInv /\ [Next]_vars => StickyInv'
  BY StickyInvStep
<1>3. StickyInv /\ [Next]_vars =>
        [(failed \/ lastResult \in OpenErrors \ {"eof"}) => (emitted' = emitted /\ pos' = pos)]_vars
  BY StickyStep
<1>. QED BY <1>1, <1>2, <1>3, PTL DEF LogSpec, StickyFailure

-----------------------------------------------------------------------------
(* The per-PCR index.                                                      *)

\* Appending an event leaves the counts of the earlier positions alone and
\* adds one to the count of the event's PCR.
LEMMA PCRCountAppend ==
  ASSUME NEW S, NEW s \in Seq(S), NEW e, NEW p
  PROVE  /\ \A m \in 0..Len(s) : PCRCount(Append(s, e), p, m) = PCRCount(s, p, m)
         /\ PCRCount(s, p, Len(s)) \in Nat
         /\ e.pcrIndex = p => PCRCount(Append(s, e), p, Len(s) + 1) = PCRCount(s, p, Len(s)) + 1
         /\ e.pcrIndex # p => PCRCount(Append(s, e), p, Len(s) + 1) = PCRCount(s, p, Len(s))
<1>. DEFINE t == Append(s, e)
            n == Len(s)
            A == {j \in 1..n : s[j].pcrIndex = p}
            B == {j \in 1..(n + 1) : t[j].pcrIndex = p}
<1>1. n \in Nat /\ Len(t) = n + 1 /\ (\A i \in 1..n : t[i] = s[i]) /\ t[n + 1] = e
  BY AppendProperties
<1>2. ASSUME NEW m \in 0..n
      PROVE  {j \in 1..m : t[j].pcrIndex = p} = {j \in 1..m : s[j].pcrIndex = p}
  BY <1>1
<1>3. IsFiniteSet(A) /\ (n + 1) \notin A
  <2>1. IsFiniteSet(1..n)
    BY <1>1, FS_Interval
  <2>. QED BY <2>1, FS_Subset
<1>4. Cardinality(A) \in Nat
  BY <1>3, FS_CardinalityType
<1>5. e.pcrIndex = p => Cardinality(B) = Cardinality(A) + 1
  <2>. HAVE e.pcrIndex = p
  <2>1. B = A \cup {n + 1}
    BY <1>1
  <2>. QED BY <1>3, <2>1, FS_AddElement
<1>6. e.pcrIndex # p => B = A
  BY <1>1
<1>. QED BY <1>2, <1>4, <1>5, <1>6 DEF PCRCount

\* Before the log is open nothing has been returned; the index tracker
\* holds, for every PCR, the number of events of it returned so far; and
\* every returned event's index counts the earlier events of its PCR.
IndexInv ==
  /\ phase \in {"start", "opening"} => emitted = <<>>
  /\ \A p \in 0..MaxPCRIndex : EventIndex(p) = PCRCount(emitted, p, Len(emitted))
  /\ IndicesCountEarlierEvents

LEMMA InitIndexInv ==
  ASSUME Init
  PROVE  IndexInv
<1>1. emitted = <<>> /\ indexTracker = <<>>
  BY DEF Init, InitLog
<1>2. \A p \in 0..MaxPCRIndex : EventIndex(p) = 0 /\ PCRCount(emitted, p, Len(emitted)) = 0
  BY <1>1, FS_EmptySet DEF EventIndex, PCRCount
<1>. QED BY <1>1, <1>2 DEF IndexInv, IndicesCountEarlierEvents

\* A step that touches neither the events nor the tracker, and does not
\* go back to before the open.
LEMMA IndexFrame ==
  ASSUME IndexInv, UNCHANGED <<emitted, indexTracker>>,
         phase' \in {"start", "opening"} => phase \in {"start", "opening"}
  PROVE  IndexInv'
BY DEF IndexInv, IndicesCountEarlierEvents, PCRCount, EventIndex

\* newLogFromReader resets the tracker while nothing has been returned.
LEMMA FinishOpenIndex ==
  ASSUME IndexInv, FinishOpen
  PROVE  IndexInv'
<1>1. emitted = <<>> /\ emitted' = emitted /\ phase' \in {"openFailed", "idle"}
  BY DEF FinishOpen, IndexInv
<1>2. indexTracker' \in {indexTracker, <<>>}
  BY DEF FinishOpen, logVars
<1>3. CASE indexTracker' = indexTracker
  BY <1>1, <1>3, IndexFrame
<1>4. CASE indexTracker' = <<>>
  <2>1. \A p \in 0..MaxPCRIndex : (EventIndex(p))' = 0 /\ PCRCount(emitted', p, Len(emitted')) = 0
    BY <1>1, <1>4, FS_EmptySet DEF EventIndex, PCRCount
  <2>. QED BY <1>1, <2>1 DEF IndexInv, IndicesCountEarlierEvents
<1>. QED BY <1>2, <1>3, <1>4

\* nextEventInternal appends an event whose index is the tracker's count
\* for its PCR, and increments that count.
LEMMA NextEventEndIndex ==
  ASSUME TypeOK, IndexInv, NextEventEnd
  PROVE  IndexInv'
<1>0. phase' = "idle"
  BY DEF NextEventEnd
<1>1. CASE rd.err # "none"
  BY <1>0, <1>1, IndexFrame DEF NextEventEnd
<1>2. CASE rd.err = "none"
  <2>. DEFINE ev == rd.event
              p == ev.pcrIndex
              e == [ev EXCEPT !.index = EventIndex(p), !.digests = FixupDigests(ev)]
              n == Len(emitted)
              Ev == {emitted[k] : k \in DOMAIN emitted}
  <2>1. indexTracker' = TrackIndex(p) /\ emitted' = Append(emitted, e)
    BY <1>2 DEF NextEventEnd
  <2>2. IsEvent(ev, DOMAIN KnownAlgorithms)
    BY <1>2 DEF NextEventEnd, TypeOK, IsReader
  <2>3. p \in 0..MaxPCRIndex /\ e.pcrIndex = p /\ e.index = EventIndex(p)
    <3>1. ev = [pcrIndex |-> ev.pcrIndex, eventType |-> ev.eventType, digests |-> ev.digests,
                index |-> ev.index, data |-> ev.data]
          /\ p \in 0..MaxPCRIndex
      BY <2>2 DEF IsEvent
    <3>. QED BY <3>1, EventExcept
  <2>4. emitted \in Seq(Ev) /\ n \in Nat /\ DOMAIN emitted = 1..n
    BY DEF TypeOK
  <2>5. Len(emitted') = n + 1 /\ DOMAIN emitted' = 1..(n + 1)
        /\ (\A k \in 1..n : emitted'[k] = emitted[k]) /\ emitted'[n + 1] = e
    BY <2>1, <2>4, AppendProperties
  <2>6. ASSUME NEW q
        PROVE  /\ \A m \in 0..n : PCRCount(emitted', q, m) = PCRCount(emitted, q, m)
               /\ p = q => PCRCount(emitted', q, n + 1) = PCRCount(emitted, q, n) + 1
               /\ p # q => PCRCount(emitted', q, n + 1) = PCRCount(emitted, q, n)
    <3>1. /\ \A m \in 0..n : PCRCount(Append(emitted, e), q, m) = PCRCount(emitted, q, m)
          /\ e.pcrIndex = q => PCRCount(Append(emitted, e), q, n + 1) = PCRCount(emitted, q, n) + 1
          /\ e.pcrIndex # q => PCRCount(Append(emitted, e), q, n + 1) = PCRCount(emitted, q, n)
      BY <2>4, PCRCountAppend
    <3>. QED BY <2>1, <2>3, <3>1
  <2>7. EventIndex(p) \in Nat
    BY <2>3, TrackIndexType
  <2>8. ASSUME NEW q \in 0..MaxPCRIndex, q = p
        PROVE  (EventIndex(q))' = EventIndex(q) + 1
    BY <2>1, <2>7, <2>8 DEF EventIndex, TrackIndex
  <2>9. ASSUME NEW q \in 0..MaxPCRIndex, q # p
        PROVE  (EventIndex(q))' = EventIndex(q)
    BY <2>1, <2>9 DEF EventIndex, TrackIndex
  <2>10. ASSUME NEW q \in 0..MaxPCRIndex
         PROVE  (EventIndex(q))' = PCRCount(emitted', q, Len(emitted'))
    <3>1. EventIndex(q) = PCRCount(emitted, q, n)
      BY DEF IndexInv
    <3>2. CASE q = p
      BY <2>5, <2>6, <2>8, <3>1, <3>2
    <3>3. CASE q # p
      BY <2>5, <2>6, <2>9, <3>1, <3>3
    <3>. QED BY <3>2, <3>3
  <2>11. ASSUME NEW k \in DOMAIN emitted'
         PROVE  emitted'[k].index = PCRCount(emitted', emitted'[k].pcrIndex, k - 1)
    <3>1. CASE k \in 1..n
      <4>1. emitted[k].index = PCRCount(emitted, emitted[k].pcrIndex, k - 1)
        BY <2>4, <3>1 DEF IndexInv, IndicesCountEarlierEvents
      <4>2. k - 1 \in 0..n /\ emitted'[k] = emitted[k]
        BY <2>4, <2>5, <3>1
      <4>. QED BY <2>6, <4>1, <4>2
    <3>2. CASE k = n + 1
      <4>1. EventIndex(p) = PCRCount(emitted, p, n)
        BY <2>3 DEF IndexInv
      <4>2. emitted'[k] = e /\ k - 1 = n /\ n \in 0..n
        BY <2>4, <2>5, <3>2
      <4>. QED BY <2>3, <2>6, <4>1, <4>2
    <3>. QED BY <2>5, <3>1, <3>2
  <2>. QED BY <1>0, <2>10, <2>11 DEF IndexInv, IndicesCountEarlierEvents
<1>. QED BY <1>1, <1>2

LEMMA IndexInvStep ==
  ASSUME TypeOK, IndexInv, [Next]_vars
  PROVE  IndexInv'
<1>1. CASE OpenLog
  BY <1>1, IndexFrame DEF OpenLog, logVars
<1>2. CASE FinishOpen
  BY <1>2, FinishOpenIndex
<1>3. CASE NextEventRefused
  BY <1>3, IndexFrame DEF NextEventRefused, logVars
<1>4. CASE NextEventBegin
  BY <1>4, IndexFrame DEF NextEventBegin
<1>5. CASE NextEventEnd
  BY <1>5, NextEventEndIndex
<1>6. CASE phase \in {"opening", "reading"} /\ ReadStep
  BY <1>6, ReadStepFrame, IndexFrame
<1>7. CASE Terminated \/ UNCHANGED vars
  BY <1>7, IndexFrame DEF Terminated, vars, logVars
<1>. QED BY <1>1, <1>2, <1>3, <1>4, <1>5, <1>6, <1>7 DEF Next

\* The index nextEventInternal gives every returned event (log.go lines
\* 318-324) is the number of events of the same PCR returned before it,
\* for every registry and every source: the tracker survives the first
\* record being read twice because newLogFromReader resets it.
THEOREM IndicesCorrect == LogSpec => []IndicesCountEarlierEvents
<1>1. Init => IndexInv
  BY InitIndexInv
<1>2. TypeOK /\ IndexInv /\ [Next]_vars => IndexInv'
  BY IndexInvStep
<1>3. IndexInv => IndicesCountEarlierEvents
  BY DEF IndexInv
<1>. QED BY <1>1, <1>2, <1>3, TypeCorrect, PTL DEF LogSpec

-----------------------------------------------------------------------------
(* The end of the log.                                                     *)

\* io.EOF comes only from the first field of a record read at the end of
\* the source; after it the log is not failed, so the next call starts a
\* read there again.
EofInv ==
  /\ rd.pc # "done" => rd.err = "none"
  /\ phase = "reading" /\ rd.pc = "done" /\ rd.err = "eof" => pos = Len(src)
  /\ lastResult = "eof" =>
       /\ pos = Len(src) /\ ~failed /\ phase \in {"idle", "reading"}
       /\ phase = "reading" => rd.pc \in {"pcrIndex", "done"} /\ (rd.pc = "done" => rd.err = "eof")

LEMMA InitEofInv ==
  ASSUME Init
  PROVE  EofInv
BY DEF Init, InitLog, EofInv, NewReader

\* A step of readNextEvent stops with an error or leaves the error unset,
\* and stops with io.EOF only at the end of the source, without moving.
LEMMA ReadStepEof ==
  ASSUME TypeOK, ReadStep, rd.err = "none"
  PROVE  /\ rd'.pc # "done" => rd'.err = "none"
         /\ rd'.err = "eof" => pos = Len(src) /\ pos' = pos
<1>0. /\ {"kind", "pc", "alg", "digests", "err", "eventType", "size", "event"} \subseteq DOMAIN rd
      /\ Len(src) \in Nat /\ pos \in Nat /\ Remaining \in Nat
  BY ReaderExcept, RemainingType
<1>. USE <1>0 DEF Fail, WrapLogReadError
<1>1. CASE ReadPCRIndex
  <2>1. CASE Remaining = 0
    <3>1. rd' = [rd EXCEPT !.pc = "done", !.err = "eof"] /\ pos' = pos
      BY <1>1, <2>1 DEF ReadPCRIndex
    <3>2. pos = Len(src)
      BY <2>1 DEF Remaining
    <3>. QED BY <3>1, <3>2
  <2>2. CASE Remaining # 0
    BY <1>1, <2>2 DEF ReadPCRIndex
  <2>. QED BY <2>1, <2>2
<1>2. CASE ReadEventType   BY <1>2 DEF ReadEventType
<1>3. CASE ReadDigest12    BY <1>3 DEF ReadDigest12
<1>4. CASE ReadDigestCount BY <1>4 DEF ReadDigestCount
<1>5. CASE ReadAlgorithmId BY <1>5 DEF ReadAlgorithmId
<1>6. CASE ReadDigest2     BY <1>6 DEF ReadDigest2
<1>7. CASE CheckDigests    BY <1>7 DEF CheckDigests
<1>8. CASE ReadEventSize   BY <1>8 DEF ReadEventSize
<1>9. CASE ReadEvent       BY <1>9 DEF ReadEvent
<1>. QED BY <1>1, <1>2, <1>3, <1>4, <1>5, <1>6, <1>7, <1>8, <1>9 DEF ReadStep

\* Only the reader's steps run between NextEvent's begin and end, and none
\* of them starts on a stopped reader.
LEMMA ReadStepRunning ==
  ASSUME ReadStep
  PROVE  rd.pc # "done"
BY DEF ReadStep, ReadPCRIndex, ReadEventType, ReadDigest12, ReadDigestCount, ReadAlgorithmId,
       ReadDigest2, CheckDigests, ReadEventSize, ReadEvent

LEMMA EofInvStep ==
  ASSUME TypeOK, EofInv, [Next]_vars
  PROVE  EofInv'
<1>1. CASE OpenLog
  BY <1>1 DEF OpenLog, EofInv, NewReader, logVars
<1>2. CASE FinishOpen
  <2>1. lastResult # "eof"
    BY <1>2 DEF FinishOpen, EofInv
  <2>2. lastResult' # "eof" /\ phase' # "reading" /\ rd' = rd
    BY <1>2, <2>1 DEF FinishOpen, WrapLogReadError
  <2>. QED BY <2>2 DEF EofInv
<1>3. CASE NextEventRefused
  BY <1>3 DEF NextEventRefused, EofInv
<1>4. CASE NextEventBegin
  BY <1>4 DEF NextEventBegin, EofInv, NewReader
<1>5. CASE NextEventEnd
  <2>1. /\ phase = "reading" /\ rd.pc = "done" /\ phase' = "idle"
        /\ UNCHANGED <<rd, pos, src>>
    BY <1>5 DEF NextEventEnd
  <2>2. lastResult' = "eof" => rd.err = "eof" /\ ~failed'
    BY <1>5 DEF NextEventEnd, MarksFailed
  <2>. QED BY <2>1, <2>2 DEF EofInv
<1>6. CASE phase \in {"opening", "reading"} /\ ReadStep
  <2>1. /\ UNCHANGED <<failed, lastResult, emitted, indexTracker, src>>
        /\ phase' \in {phase, "panicked"}
    BY <1>6, ReadStepFrame
  <2>2. rd.pc # "done" /\ rd.err = "none"
    BY <1>6, ReadStepRunning DEF EofInv
  <2>3. /\ rd'.pc # "done" => rd'.err = "none"
        /\ rd'.err = "eof" => pos = Len(src) /\ pos' = pos
    BY <1>6, <2>2, ReadStepEof
  <2>4. lastResult = "eof" => rd'.pc = "done" /\ rd'.err = "eof" /\ phase' = "reading"
    <3>. SUFFICES ASSUME lastResult = "eof"
                  PROVE  rd'.pc = "done" /\ rd'.err = "eof" /\ phase' = "reading"
      OBVIOUS
    <3>1. phase = "reading" /\ rd.pc = "pcrIndex" /\ pos = Len(src)
      BY <1>6, <2>2 DEF EofInv
    <3>2. ReadPCRIndex /\ Remaining = 0
      BY <1>6, <3>1 DEF ReadStep, ReadEventType, ReadDigest12, ReadDigestCount,
                        ReadAlgorithmId, ReadDigest2, CheckDigests, ReadEventSize, ReadEvent,
                        Remaining
    <3>3. rd' = [rd EXCEPT !.pc = "done", !.err = "eof"] /\ phase' = phase
      BY <3>2 DEF ReadPCRIndex, Fail, WrapLogReadError, ReaderVars
    <3>. QED BY <3>1, <3>3, ReaderExcept
  <2>. QED BY <2>1, <2>3, <2>4 DEF EofInv
<1>7. CASE Terminated \/ UNCHANGED vars
  BY <1>7 DEF Terminated, EofInv, vars, logVars
<1>. QED BY <1>1, <1>2, <1>3, <1>4, <1>5, <1>6, <1>7 DEF Next

\* After io.EOF only the next call's read at the end of the source runs,
\* and it ends in io.EOF again.
LEMMA EofStep ==
  ASSUME EofInv, [Next]_vars, lastResult = "eof"
  PROVE  lastResult' = "eof" /\ emitted' = emitted
<1>1. phase \in {"idle", "reading"} /\ ~failed
  BY DEF EofInv
<1>2. CASE NextEventEnd
  <2>1. rd.pc = "done" /\ phase = "reading"
    BY <1>2 DEF NextEventEnd
  <2>2. rd.err = "eof"
    BY <1>1, <2>1 DEF EofInv
  <2>. QED BY <1>2, <2>2 DEF NextEventEnd
<1>3. CASE phase \in {"opening", "reading"} /\ ReadStep
  BY <1>3, ReadStepFrame
<1>4. CASE ~NextEventEnd /\ ~(phase \in {"opening", "reading"} /\ ReadStep)
  <2>1. ~OpenLog /\ ~FinishOpen /\ ~NextEventRefused
    BY <1>1 DEF OpenLog, FinishOpen, NextEventRefused
  <2>. QED BY <1>4, <2>1 DEF Next, NextEventBegin, Terminated, vars
<1>. QED BY <1>2, <1>3, <1>4

\* The end of the log is final (log.go lines 311-314 leave the log unfailed
\* on io.EOF, and readNextEvent at the end of the source reports io.EOF
\* again, lines 72-79): once NextEvent has returned io.EOF, every later
\* call returns io.EOF again and no further event, for every registry and
\* every source.
THEOREM EndOfLogFinal == LogSpec => EndOfLogIsFinal
<1>1. Init => EofInv
  BY InitEofInv
<1>2. TypeOK /\ EofInv /\ [Next]_vars => EofInv'
  BY EofInvStep
<1>3. EofInv /\ [Next]_vars =>
        [lastResult = "eof" => lastResult' = "eof" /\ emitted' = emitted]_vars
  BY EofStep
<1>4. LogSpec => []TypeOK
  BY TypeCorrect
<1>. QED BY <1>1, <1>2, <1>3, <1>4, PTL DEF LogSpec, EndOfLogIsFinal

-----------------------------------------------------------------------------
(* The failed flag of the older reader (src/unnamed/part_000).             *)

\* The older reader's steps are those of log.go's but for the event data,
\* read without the separator check and so without its panic.
LEMMA ReadEventOldFrame ==
  ASSUME ReadEventOld
  PROVE  UNCHANGED <<failed, lastResult, emitted, indexTracker, src, phase>>
BY DEF ReadEventOld, ReaderVars, logVars

LEMMA StickyInvStepOld ==
  ASSUME StickyInv, [NextOld]_vars
  PROVE  StickyInv'
<1>1. CASE \/ OpenLog \/ FinishOpen \/ NextEventRefused \/ NextEventBegin \/ Terminated
           \/ UNCHANGED vars
           \/ phase \in {"opening", "reading"} /\
                \/ ReadPCRIndex \/ ReadEventType \/ ReadDigest12 \/ ReadDigestCount
                \/ ReadAlgorithmId \/ ReadDigest2 \/ CheckDigests \/ ReadEventSize
  BY <1>1, StickyInvStep DEF Next, ReadStep
<1>2. CASE NextEventEndOld
  <2>1. phase = "reading" /\ ~failed /\ phase' = "idle"
    BY <1>2 DEF NextEventEndOld, StickyInv
  <2>2. \/ failed' /\ lastResult' = rd.err
        \/ failed' = failed /\ lastResult' = "event"
    BY <1>2 DEF NextEventEndOld, MarksFailedOld
  <2>. QED BY <2>1, <2>2 DEF StickyInv, OpenErrors, ReadErrors
<1>3. CASE phase \in {"opening", "reading"} /\ ReadEventOld
  BY <1>3, ReadEventOldFrame DEF StickyInv
<1>. QED BY <1>1, <1>2, <1>3 DEF NextOld, ReadStepOld

\* On a failed log the older reader too only refuses or ends.
LEMMA StickyStepOld ==
  ASSUME StickyInv, [NextOld]_vars, failed \/ lastResult \in OpenErrors \ {"eof"}
  PROVE  emitted' = emitted /\ pos' = pos
<1>1. phase = "openFailed" \/ (phase = "idle" /\ failed)
  BY DEF StickyInv
<1>2. ~OpenLog /\ ~FinishOpen /\ ~NextEventBegin /\ ~NextEventEndOld
  BY <1>1 DEF OpenLog, FinishOpen, NextEventBegin, NextEventEndOld
<1>3. ~(phase \in {"opening", "reading"} /\ ReadStepOld)
  BY <1>1
<1>4. NextEventRefused \/ Terminated \/ UNCHANGED vars
  BY <1>2, <1>3 DEF NextOld
<1>. QED BY <1>4 DEF NextEventRefused, Terminated, vars

\* The older NextEvent marks the log failed on every read error, io.EOF
\* included (part_000 lines 340-343), and refuses a failed log (lines
\* 333-337): once a read or the open has failed, no step of the older
\* program reads the source again or returns another event either.
THEOREM OldStickyFailureHolds == OldSpec => StickyFailure
<1>1. Init => StickyInv
  BY InitStickyInv
<1>2. StickyInv /\ [NextOld]_vars => StickyInv'
  BY StickyInvStepOld
<1>3. StickyInv /\ [NextOld]_vars =>
        [(failed \/ lastResult \in OpenErrors \ {"eof"}) => (emitted' = emitted /\ pos' = pos)]_vars
  BY StickyStepOld
<1>. QED BY <1>1, <1>2, <1>3, PTL DEF OldSpec, StickyFailure

=============================================================================
