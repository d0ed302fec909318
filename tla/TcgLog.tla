------------------------------- MODULE TcgLog -------------------------------
(***************************************************************************)
(* The event-log reader of tcglog-parser (src/log.go): the two stream      *)
(* readers (stream_1_2 for PC Client records, stream_2 for crypto-agile    *)
(* TCG_PCR_EVENT2 records) and the Log driver that bootstraps the format   *)
(* from the first event, rewinds, assigns per-PCR indices and back-fills   *)
(* the Spec ID event's digests.                                            *)
(*                                                                         *)
(* The byte source is abstracted to a sequence of words: every integer    *)
(* field (PCR index, event type, digest count, algorithm id, event size)   *)
(* is one word, a digest of an algorithm is KnownAlgorithms[alg] words (or *)
(* the size the Spec ID event advertises) and the event data is eventSize  *)
(* words.  Reading a record whose layout differs from what the reader      *)
(* expects therefore misframes exactly as the byte-level code does.  Each  *)
(* read of a field is one step; the program is single-threaded, so the     *)
(* steps of one call are never interleaved with anything else.             *)
(***************************************************************************)
EXTENDS Naturals, Sequences, FiniteSets

CONSTANT
  KnownAlgorithms  \* knownAlgorithms: algorithm id -> digest length (words)

\* TPM_ALG_ID values of the registry (src/unnamed/part_000 lines 19-24).
AlgorithmSha1   == 4
AlgorithmSha256 == 11

ASSUME KnownAlgorithmsAssumption ==
  /\ AlgorithmSha1 \in DOMAIN KnownAlgorithms
  /\ DOMAIN KnownAlgorithms \subseteq Nat
  /\ \A a \in DOMAIN KnownAlgorithms : KnownAlgorithms[a] \in Nat \ {0}

\* Event types (TCG PC Client specification values).
EventTypeNoAction  == 3
EventTypeSeparator == 4

\* maxPCRIndex (log.go line 33).
MaxPCRIndex == 31

\* The 16-byte NO_ACTION signatures, one word each.
SigSpecIdEvent00 == 100   \* "Spec ID Event00\0"
SigSpecIdEvent02 == 102   \* "Spec ID Event02\0"
SigSpecIdEvent03 == 103   \* "Spec ID Event03\0"

\* Every word of hash(0x00000001, alg), the digest of the separator error
\* value; every word of a zero digest is 0.
ErrorValueHashWord == 7

Word == Nat
SpecKinds == {"unknown", "pcclient", "efi12", "efi2"}
ReaderPCs == {"pcrIndex", "eventType", "digest12", "digestCount", "algorithmId",
              "digest2", "eventSize", "event", "done"}
\* The errors a read can end in ("none" when it produced an event).
ReadErrors == {"eof", "unexpectedEOF", "pcrIndexOutOfRange", "unrecognizedAlgorithm",
               "duplicateDigest", "missingDigest"}
OpenErrors == ReadErrors \cup {"invalidSpecIdEvent"}
Results    == {"none", "event", "inconsistent"} \cup OpenErrors

VARIABLES
  src,            \* the words of the byte source (never changes)
  pos,            \* the source's read offset
  phase,          \* "start", "opening", "idle", "reading", "openFailed", "panicked"
  start,          \* the offset newLogFromReader records and seeks back to
  rd,             \* the registers of the readNextEvent call in progress
  spec, algorithms, algSizes, stream, readFirstEvent, failed, indexTracker,
  emitted,        \* the events NextEvent has returned, in order
  lastResult      \* what the last call returned

logVars == <<spec, algorithms, algSizes, stream, readFirstEvent, failed, indexTracker>>
vars == <<src, pos, phase, start, rd, logVars, emitted, lastResult>>

CONSTANT Sources  \* the byte sources the reader may be given

ASSUME SourcesAssumption == Sources \subseteq Seq(Word)

-----------------------------------------------------------------------------
(* Helpers for the byte source.                                            *)
Remaining == Len(src) - pos
Peek == src[pos + 1]
Words(k) == SubSeq(src, pos + 1, pos + k)
Zeros(k) == [i \in 1..k |-> 0]

\* zeroDigests[alg] (log.go lines 22-26).
ZeroDigest(alg) == Zeros(KnownAlgorithms[alg])

\* isDigestOfSeparatorErrorValue (log.go lines 42-47): compares a digest with
\* hashSum(0x00000001, alg), for an algorithm of the registry the hash of
\* the error value (spec 4.1).  hashSum is not in the tree: what it does for
\* an algorithm outside the registry is left open (SeparatorCheckResults).
IsDigestOfSeparatorErrorValue(digest, alg) ==
  digest = [i \in 1..KnownAlgorithms[alg] |-> ErrorValueHashWord]

AlgIds(sizes) == {sizes[j][1] : j \in DOMAIN sizes}

\* The digest size the Spec ID event advertises for alg: the first match of
\* the loop of log.go lines 157-164, and digestSize's zero value when there
\* is none.
AdvertisedSize(sizes, alg) ==
  LET first == {j \in DOMAIN sizes : sizes[j][1] = alg /\ \A k \in 1..(j - 1) : sizes[k][1] # alg}
  IN IF first = {} THEN 0 ELSE sizes[CHOOSE j \in first : TRUE][2]

-----------------------------------------------------------------------------
(* Event-data decoding (tcgeventdata.go; decodeEventData and the EFI Spec  *)
(* ID parsers are not in the tree and follow the spec, section 4.2).       *)
(* Only what the driver looks at is kept: whether the data is a Spec ID    *)
(* event, of which Spec and with which algorithm sizes, whether it is a    *)
(* Spec ID event that failed to parse, and a separator's error flag.       *)
NoData == [kind |-> "other", spec |-> "unknown", digestSizes |-> <<>>, isError |-> FALSE]
DataKinds == {"specid", "invalidSpecId", "broken", "separator", "other"}

\* wrapSpecIdEventReadError (tcgeventdata.go lines 87-93): a Spec ID event
\* whose fields run past its data (io.EOF) or cannot be read is an
\* invalidSpecIdEventError, whatever the message.
WrapSpecIdEventReadError == [NoData EXCEPT !.kind = "invalidSpecId"]

\* PC Client / EFI 1.2 Spec ID: vendorInfoSize word, then vendorInfo.
DecodeSpecIdVendorInfo(data, s) ==
  IF Len(data) >= 2 /\ Len(data) >= 2 + data[2]
  THEN [NoData EXCEPT !.kind = "specid", !.spec = s]
  ELSE WrapSpecIdEventReadError

\* EFI 2 Spec ID: numberOfAlgorithms, that many (algorithmId, digestSize),
\* vendorInfoSize, vendorInfo.
DecodeEFI2SpecId(data) ==
  LET n == data[2] IN
  IF Len(data) >= 2 /\ Len(data) >= 3 + 2 * n /\ Len(data) >= 3 + 2 * n + data[3 + 2 * n]
  THEN [NoData EXCEPT !.kind = "specid", !.spec = "efi2",
                      !.digestSizes = [j \in 1..n |-> <<data[2 * j + 1], data[2 * j + 2]>>]]
  ELSE WrapSpecIdEventReadError

DecodeEventDataNoAction(data) ==
  CASE Len(data) = 0 -> [NoData EXCEPT !.kind = "broken"]
    [] data[1] = SigSpecIdEvent00 -> DecodeSpecIdVendorInfo(data, "pcclient")
    [] data[1] = SigSpecIdEvent02 -> DecodeSpecIdVendorInfo(data, "efi12")
    [] data[1] = SigSpecIdEvent03 -> DecodeEFI2SpecId(data)
    [] OTHER -> NoData

\* decodeEventDataSeparator (lines 245-263): the separator's data keeps the
\* classification the stream made from its digest.
DecodeEventDataSeparator(isError) == [NoData EXCEPT !.kind = "separator", !.isError = isError]

DecodeEventData(eventType, data, isSeparatorError) ==
  CASE eventType = EventTypeNoAction  -> DecodeEventDataNoAction(data)
    [] eventType = EventTypeSeparator -> DecodeEventDataSeparator(isSeparatorError)
    [] OTHER -> NoData

-----------------------------------------------------------------------------
(* readNextEvent, one step per field read.                                 *)
Fail(err) == rd' = [rd EXCEPT !.pc = "done", !.err = err]

\* Mutant of WrapLogReadError: the partial flag ignored.
WrapLogReadErrorIgnoresPartial(err, partial) == err

\* wrapLogReadError (log.go lines 49-58): io.EOF stays the clean end of the
\* log unless the read was partial, when it becomes io.ErrUnexpectedEOF.
WrapLogReadError(err, partial) ==
  IF err = "eof" /\ partial THEN "unexpectedEOF" ELSE err
ReaderVars == <<phase, start, logVars, emitted, lastResult, src>>

NewReader(kind) ==
  [kind |-> kind, pc |-> "pcrIndex", pcr |-> 0, eventType |-> 0, count |-> 0, i |-> 0,
   alg |-> 0, digests |-> <<>>, size |-> 0, event |-> <<>>, err |-> "none"]

\* log.go lines 72-79 and 130-137; EOF here is the clean end of the log.
ReadPCRIndex ==
  /\ rd.pc = "pcrIndex"
  /\ \/ Remaining = 0 /\ Fail(WrapLogReadError("eof", FALSE)) /\ UNCHANGED pos
     \/ /\ Remaining > 0
        /\ pos' = pos + 1
        /\ IF Peek <= MaxPCRIndex
           THEN rd' = [rd EXCEPT !.pcr = Peek, !.pc = "eventType"]
           ELSE Fail("pcrIndexOutOfRange")
  /\ UNCHANGED ReaderVars

\* log.go lines 81-84 and 139-142.
ReadEventType ==
  /\ rd.pc = "eventType"
  /\ \/ Remaining = 0 /\ Fail(WrapLogReadError("eof", TRUE)) /\ UNCHANGED pos
     \/ /\ Remaining > 0
        /\ pos' = pos + 1
        /\ rd' = [rd EXCEPT !.eventType = Peek,
                            !.pc = IF rd.kind = "1.2" THEN "digest12" ELSE "digestCount"]
  /\ UNCHANGED ReaderVars

\* log.go lines 86-91: s.r.Read, not io.ReadFull, so a short read that
\* returns some bytes is not an error; the rest of the digest stays zero.
ReadDigest12 ==
  /\ rd.pc = "digest12"
  /\ LET size == KnownAlgorithms[AlgorithmSha1]
         n == IF Remaining < size THEN Remaining ELSE size
     IN \/ Remaining = 0 /\ Fail(WrapLogReadError("eof", TRUE)) /\ UNCHANGED pos
        \/ /\ Remaining > 0
           /\ pos' = pos + n
           /\ rd' = [rd EXCEPT !.digests = [a \in {AlgorithmSha1} |-> Words(n) \o Zeros(size - n)],
                               !.pc = "eventSize"]
  /\ UNCHANGED ReaderVars

\* log.go lines 144-149.
ReadDigestCount ==
  /\ rd.pc = "digestCount"
  /\ \/ Remaining = 0 /\ Fail(WrapLogReadError("eof", TRUE)) /\ UNCHANGED pos
     \/ /\ Remaining > 0
        /\ pos' = pos + 1
        /\ rd' = [rd EXCEPT !.count = Peek, !.i = 0, !.digests = <<>>, !.pc = "algorithmId"]
  /\ UNCHANGED ReaderVars

\* Mutant of IsAdvertised: the registry consulted instead of the Spec ID list.
IsAdvertisedRegistry(alg) == alg \in DOMAIN KnownAlgorithms

\* The lookup of log.go lines 157-169: whether the Spec ID event lists alg.
IsAdvertised(alg) == alg \in AlgIds(algSizes)

\* log.go lines 151-169: one iteration's algorithm id.
ReadAlgorithmId ==
  /\ rd.pc = "algorithmId"
  /\ rd.i < rd.count
  /\ \/ Remaining = 0 /\ Fail(WrapLogReadError("eof", TRUE)) /\ UNCHANGED pos
     \/ /\ Remaining > 0
        /\ pos' = pos + 1
        /\ IF IsAdvertised(Peek)
           THEN rd' = [rd EXCEPT !.alg = Peek, !.pc = "digest2"]
           ELSE Fail("unrecognizedAlgorithm")
  /\ UNCHANGED ReaderVars

\* log.go lines 171-180: the digest, read with the advertised size, then
\* the duplicate check.
ReadDigest2 ==
  /\ rd.pc = "digest2"
  /\ LET size == AdvertisedSize(algSizes, rd.alg) IN
     \/ Remaining < size /\ Fail(WrapLogReadError("eof", TRUE)) /\ pos' = Len(src)
     \/ /\ Remaining >= size
        /\ pos' = pos + size
        /\ IF rd.alg \in DOMAIN rd.digests
           THEN Fail("duplicateDigest")
           ELSE rd' = [rd EXCEPT !.digests = [a \in DOMAIN rd.digests \cup {rd.alg} |->
                                                 IF a = rd.alg THEN Words(size) ELSE rd.digests[a]],
                                 !.i = rd.i + 1, !.pc = "algorithmId"]
  /\ UNCHANGED ReaderVars

\* Mutant of KeepKnown: the digests of unknown algorithms kept.
KeepKnownAll(digests) == digests

\* log.go lines 191-196: the digests of algorithms outside the registry
\* are deleted.
KeepKnown(digests) == [a \in DOMAIN digests \cap DOMAIN KnownAlgorithms |-> digests[a]]

\* log.go lines 183-196: after the loop, every advertised algorithm must
\* have a digest; digests of algorithms outside the registry are dropped.
CheckDigests ==
  /\ rd.pc = "algorithmId"
  /\ rd.i >= rd.count
  /\ IF AlgIds(algSizes) \subseteq DOMAIN rd.digests
     THEN rd' = [rd EXCEPT !.digests = KeepKnown(rd.digests), !.pc = "eventSize"]
     ELSE Fail("missingDigest")
  /\ UNCHANGED <<pos, ReaderVars>>

\* log.go lines 93-96 and 198-201.
ReadEventSize ==
  /\ rd.pc = "eventSize"
  /\ \/ Remaining = 0 /\ Fail(WrapLogReadError("eof", TRUE)) /\ UNCHANGED pos
     \/ /\ Remaining > 0
        /\ pos' = pos + 1
        /\ rd' = [rd EXCEPT !.size = Peek, !.pc = "event"]
  /\ UNCHANGED ReaderVars

\* The algorithm whose digest classifies a separator: SHA-1 for stream_1_2
\* (line 104), the first advertised algorithm for stream_2 (line 209).
SeparatorAlg == IF rd.kind = "1.2" THEN AlgorithmSha1 ELSE algSizes[1][1]

\* stream_2 indexes s.algSizes[0] (log.go line 209): an empty list is an
\* index out of range, which panics.
AlgSizesEmpty == rd.kind = "2" /\ algSizes = <<>>

\* stream_2 calls hashSum with an algorithm outside the registry, whose
\* digest line 196 deleted (digests[alg] is nil).
HashSumUnknownAlg ==
  rd.kind = "2" /\ algSizes # <<>> /\ algSizes[1][1] \notin DOMAIN KnownAlgorithms

\* The check of lines 104 and 209 may panic: certainly on an empty list,
\* possibly inside hashSum for an unknown algorithm.
SeparatorCheckPanics == AlgSizesEmpty \/ HashSumUnknownAlg

\* What the check of lines 104 and 209 can return.  For a registry
\* algorithm, whether the event's digest is the error value's hash.  For
\* an unknown one hashSum, which is not in the tree, may return a value the
\* nil digest equals (an empty one) or not, so either answer is possible.
SeparatorCheckResults ==
  IF AlgSizesEmpty THEN {}
  ELSE IF HashSumUnknownAlg THEN BOOLEAN
  ELSE {IsDigestOfSeparatorErrorValue(rd.digests[SeparatorAlg], SeparatorAlg)}

\* The event readNextEvent returns (log.go lines 103-111 and 208-216), its
\* data decoded with the separator check's answer isErr.
DecodedEvent(isErr) ==
  [pcrIndex |-> rd.pcr, eventType |-> rd.eventType, digests |-> rd.digests, index |-> 0,
   data |-> DecodeEventData(rd.eventType, Words(rd.size), isErr)]

\* log.go lines 98-111 and 203-216: the event data, decoded.
ReadEvent ==
  /\ rd.pc = "event"
  /\ \/ Remaining < rd.size /\ Fail(WrapLogReadError("eof", TRUE)) /\ pos' = Len(src) /\ UNCHANGED ReaderVars
     \/ /\ Remaining >= rd.size
        /\ pos' = pos + rd.size
        /\ \/ /\ SeparatorCheckPanics
              /\ phase' = "panicked"
              /\ UNCHANGED <<rd, start, logVars, emitted, lastResult, src>>
           \/ /\ \E isErr \in SeparatorCheckResults :
                   rd' = [rd EXCEPT !.pc = "done", !.event = DecodedEvent(isErr)]
              /\ UNCHANGED ReaderVars

ReadStep ==
  \/ ReadPCRIndex \/ ReadEventType \/ ReadDigest12 \/ ReadDigestCount
  \/ ReadAlgorithmId \/ ReadDigest2 \/ CheckDigests \/ ReadEventSize \/ ReadEvent

-----------------------------------------------------------------------------
(* The Log driver.                                                         *)

\* newLogFromReader (log.go lines 251-258): record the offset, read the
\* first event with a PC Client reader.
OpenLog ==
  /\ phase = "start"
  /\ start' = pos
  /\ rd' = NewReader("1.2")
  /\ phase' = "opening"
  /\ UNCHANGED <<src, pos, logVars, emitted, lastResult>>

\* log.go lines 259-301: choose the format from the first event, rewind.
FinishOpen ==
  /\ phase = "opening"
  /\ rd.pc = "done"
  /\ LET d == rd.event.data
         s == IF rd.err = "none" /\ d.kind = "specid" THEN d.spec ELSE "unknown"
     IN \/ /\ rd.err # "none"
           /\ phase' = "openFailed"
           /\ lastResult' = WrapLogReadError(rd.err, TRUE)
           /\ UNCHANGED <<pos, logVars>>
        \/ /\ rd.err = "none"
           /\ d.kind = "invalidSpecId"
           /\ phase' = "openFailed"
           /\ lastResult' = "invalidSpecIdEvent"
           /\ UNCHANGED <<pos, logVars>>
        \/ /\ rd.err = "none"
           /\ d.kind # "invalidSpecId"
           /\ spec' = s
           /\ IF s = "efi2"
              THEN /\ algorithms' = AlgIds(d.digestSizes) \cap DOMAIN KnownAlgorithms
                   /\ stream' = "2"
                   /\ algSizes' = d.digestSizes
              ELSE /\ algorithms' = {AlgorithmSha1}
                   /\ stream' = "1.2"
                   /\ algSizes' = <<>>
           /\ readFirstEvent' = FALSE
           /\ failed' = FALSE
           /\ indexTracker' = <<>>
           /\ pos' = start
           /\ phase' = "idle"
           /\ UNCHANGED lastResult
  /\ UNCHANGED <<src, start, rd, emitted>>

\* nextEventInternal on a failed log (log.go lines 305-308): refused
\* without touching the source.
NextEventRefused ==
  /\ phase = "idle"
  /\ failed
  /\ lastResult' = "inconsistent"
  /\ UNCHANGED <<src, pos, phase, start, rd, logVars, emitted>>

\* log.go line 310: the stream reads; stream_2's first call hands the
\* record to a PC Client reader (lines 124-128).
NextEventBegin ==
  /\ phase = "idle"
  /\ ~failed
  /\ rd' = NewReader(IF stream = "2" /\ readFirstEvent THEN "2" ELSE "1.2")
  /\ readFirstEvent' = (stream = "2" \/ readFirstEvent)
  /\ phase' = "reading"
  /\ UNCHANGED <<src, pos, start, spec, algorithms, algSizes, stream, failed, indexTracker,
                 emitted, lastResult>>

\* Mutant of FixupDigests: the Spec ID event left without its back-fill.
FixupDigestsSkipped(event) == event.digests

\* fixupSpecIdEvent (log.go lines 219-235): zero digests for the advertised
\* algorithms the first event does not carry, SHA-1 excepted.
FixupDigests(event) ==
  IF event.data.kind = "specid" /\ event.data.spec = "efi2"
  THEN LET fill == algorithms \ ({AlgorithmSha1} \cup DOMAIN event.digests)
       IN [a \in DOMAIN event.digests \cup fill |->
             IF a \in fill THEN ZeroDigest(a) ELSE event.digests[a]]
  ELSE event.digests

\* Mutant of MarksFailed: io.EOF marks the log failed too.
MarksFailedOnEOF(err) == TRUE

\* Mutant of MarksFailed: only a truncation marks the log failed.
MarksFailedOnTruncation(err) == err = "unexpectedEOF"

\* log.go lines 311-314: every read error but io.EOF marks the log failed.
MarksFailed(err) == err # "eof"

\* The index the next event of PCR p gets (log.go lines 318-324).
EventIndex(p) == IF p \in DOMAIN indexTracker THEN indexTracker[p] ELSE 0

\* Mutant of TrackIndex: a PCR seen for the first time is recorded at 0.
TrackIndexFirstAtZero(p) ==
  [q \in DOMAIN indexTracker \cup {p} |->
     IF q # p THEN indexTracker[q] ELSE IF p \in DOMAIN indexTracker THEN EventIndex(p) + 1 ELSE 0]

\* indexTracker after an event of PCR p (log.go lines 318-324).
TrackIndex(p) ==
  [q \in DOMAIN indexTracker \cup {p} |-> IF q = p THEN EventIndex(p) + 1 ELSE indexTracker[q]]

\* log.go lines 311-330: a read error other than EOF marks the log failed;
\* an event gets its per-PCR index and, if a Spec ID event, its fixup.
NextEventEnd ==
  /\ phase = "reading"
  /\ rd.pc = "done"
  /\ phase' = "idle"
  /\ \/ /\ rd.err # "none"
        /\ failed' = MarksFailed(rd.err)
        /\ lastResult' = rd.err
        /\ UNCHANGED <<indexTracker, emitted>>
     \/ /\ rd.err = "none"
        /\ indexTracker' = TrackIndex(rd.event.pcrIndex)
        /\ emitted' = Append(emitted, [rd.event EXCEPT !.index = EventIndex(rd.event.pcrIndex),
                                                       !.digests = FixupDigests(rd.event)])
        /\ lastResult' = "event"
        /\ UNCHANGED failed
  /\ UNCHANGED <<src, pos, start, rd, spec, algorithms, algSizes, stream, readFirstEvent>>

-----------------------------------------------------------------------------
\* The state of a fresh byte source and of the program before it opens it.
InitLog ==
  /\ pos = 0
  /\ phase = "start"
  /\ start = 0
  /\ rd = NewReader("1.2")
  /\ spec = "unknown"
  /\ algorithms = {}
  /\ algSizes = <<>>
  /\ stream = "1.2"
  /\ readFirstEvent = FALSE
  /\ failed = FALSE
  /\ indexTracker = <<>>
  /\ emitted = <<>>
  /\ lastResult = "none"

Init == src \in Sources /\ InitLog

\* The consumer (ParseAndValidateLog) opens the log and calls NextEvent;
\* a failed open or a panic ends the program.
Terminated ==
  /\ phase \in {"openFailed", "panicked"}
  /\ UNCHANGED vars

Next ==
  \/ OpenLog \/ FinishOpen
  \/ NextEventRefused \/ NextEventBegin \/ NextEventEnd
  \/ phase \in {"opening", "reading"} /\ ReadStep
  \/ Terminated

LogSpec == Init /\ [][Next]_vars

-----------------------------------------------------------------------------
(* Properties that hold for every registry and every source; the proofs   *)
(* are in TcgLogDriverProofs and TcgLogDigestProofs.                       *)

\* A failed log stays failed: once a read has failed (log.go lines 311-314)
\* or the open has failed (lines 259-296), no later step reads the source
\* or returns another event; nextEventInternal refuses (lines 305-308).
StickyFailure == [][(failed \/ lastResult \in OpenErrors \ {"eof"}) =>
                      (emitted' = emitted /\ pos' = pos)]_vars

\* The end of the log is final: io.EOF does not mark the log failed
\* (log.go lines 311-314), so the next NextEvent reads the source again at
\* its end (lines 72-79); once NextEvent has returned io.EOF, every later
\* call returns io.EOF again and no further event.
EndOfLogIsFinal == [][lastResult = "eof" => lastResult' = "eof" /\ emitted' = emitted]_vars

\* The number of events of PCR p among the first n events of s.
PCRCount(s, p, n) == Cardinality({j \in 1..n : s[j].pcrIndex = p})

\* The per-PCR index that nextEventInternal assigns from indexTracker
\* (log.go lines 318-324) is, for every returned event, the number of
\* events of the same PCR returned before it, although the first record
\* is read twice (once by newLogFromReader, once by NextEvent).
IndicesCountEarlierEvents ==
  \A k \in DOMAIN emitted : emitted[k].index = PCRCount(emitted, emitted[k].pcrIndex, k - 1)

\* Spec section 3: the algorithms of every event's digests are the log's
\* algorithms, the ones its Spec ID event advertises and the registry knows
\* (SHA-1 in a legacy log); the first event of a crypto-agile log, read in
\* the PC Client layout, also keeps its SHA-1 digest.  Depends on the
\* algorithm list fixed when the log is opened, the missing-digest check
\* and the deletion of unknown digests of stream_2, and the back-fill of
\* fixupSpecIdEvent.
DigestsMatchLogAlgorithms ==
  \A k \in 1..Len(emitted) :
    DOMAIN emitted[k].digests = algorithms \cup (IF k = 1 THEN {AlgorithmSha1} ELSE {})

\* What NextEvent's caller has been told: io.EOF, an error (a failed open,
\* or a failed log that refuses every call), or nothing final yet.
ApiOutcome ==
  IF lastResult = "eof" THEN "eof"
  ELSE IF failed \/ phase = "openFailed" THEN "error" ELSE "none"

API == INSTANCE LogApi WITH Algorithms <- DOMAIN KnownAlgorithms, Sha1 <- AlgorithmSha1,
                            PCRs <- 0..MaxPCRIndex,
                            opened <- phase \in {"idle", "reading", "panicked"},
                            algs <- algorithms, returned <- emitted, outcome <- ApiOutcome

\* The Log keeps what it promises its caller (spec sections 3, 4.4, 7):
\* newLogFromReader fails or fixes the log's algorithms (log.go lines
\* 259-301); each nextEventInternal returns the next event with its
\* per-PCR index and the log's digests (lines 316-330), or ends the log
\* with io.EOF or an error, and that answer never changes (lines 305-315).
ApiRefined == API!Spec

-----------------------------------------------------------------------------
Digest == Seq(Word)
\* A DigestMap whose algorithms are among algs.
IsDigestMap(d, algs) == DOMAIN d \subseteq algs /\ d \in [DOMAIN d -> Digest]
EventData == [kind : DataKinds, spec : SpecKinds, digestSizes : Seq(Word \X Word), isError : BOOLEAN]
IsEvent(e, algs) ==
  /\ e = [pcrIndex |-> e.pcrIndex, eventType |-> e.eventType, digests |-> e.digests,
          index |-> e.index, data |-> e.data]
  /\ e.pcrIndex \in 0..MaxPCRIndex
  /\ {e.eventType, e.index} \subseteq Nat
  /\ IsDigestMap(e.digests, algs)
  /\ e.data \in EventData

\* The registers of a readNextEvent call; the event once one was read.
IsReader(r) ==
  /\ DOMAIN r = {"kind", "pc", "pcr", "eventType", "count", "i", "alg", "digests", "size",
                 "event", "err"}
  /\ r.kind \in {"1.2", "2"} /\ r.pc \in ReaderPCs
  /\ r.pcr \in 0..MaxPCRIndex
  /\ {r.eventType, r.count, r.i, r.alg, r.size} \subseteq Word
  /\ IsDigestMap(r.digests, Word)
  /\ r.err \in {"none"} \cup ReadErrors
  /\ r.pc = "done" /\ r.err = "none" => IsEvent(r.event, DOMAIN KnownAlgorithms)

\* Type invariant.
TypeOK ==
  /\ src \in Seq(Word)
  /\ pos \in 0..Len(src)
  /\ start \in 0..Len(src)
  /\ phase \in {"start", "opening", "idle", "reading", "openFailed", "panicked"}
  /\ IsReader(rd)
  /\ spec \in SpecKinds
  /\ algorithms \subseteq DOMAIN KnownAlgorithms
  /\ algSizes \in Seq(Word \X Word)
  /\ stream \in {"1.2", "2"}
  /\ readFirstEvent \in BOOLEAN
  /\ failed \in BOOLEAN
  /\ DOMAIN indexTracker \subseteq 0..MaxPCRIndex
  /\ \A p \in DOMAIN indexTracker : indexTracker[p] \in Nat
  /\ emitted \in Seq({emitted[k] : k \in DOMAIN emitted})
  /\ \A k \in DOMAIN emitted : IsEvent(emitted[k], DOMAIN KnownAlgorithms)
  /\ lastResult \in Results

=============================================================================
