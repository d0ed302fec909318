-------------------------- MODULE TcgLogDigestProofs --------------------------
(***************************************************************************)
(* Proof that every event NextEvent returns carries exactly the log's     *)
(* algorithms (DigestsMatchLogAlgorithms), for every registry and every   *)
(* source.  For a crypto-agile log that rests on a replay argument:        *)
(* newLogFromReader reads the first record with a PC Client reader and    *)
(* rewinds (log.go lines 251-301); stream_2's first call reads it again   *)
(* with a PC Client reader (lines 124-127).  A PC Client reader started   *)
(* at the record reads its fields at fixed offsets, so the second read    *)
(* finds the same Spec ID event the first one chose the algorithms from,  *)
(* cannot fail, and fixupSpecIdEvent back-fills the algorithms its SHA-1  *)
(* digest lacks.                                                           *)
(***************************************************************************)
EXTENDS TcgLogProofs

-----------------------------------------------------------------------------
(* The first record, at the offset newLogFromReader recorded: PCR index   *)
(* at start + 1, event type at start + 2, a SHA-1 digest, the event size  *)
(* at FirstSizeAt and the event data after it.                             *)

Sha1Size == KnownAlgorithms[AlgorithmSha1]
FirstSizeAt == start + 3 + Sha1Size
FirstData == DecodeEventDataNoAction(SubSeq(src, FirstSizeAt + 1, FirstSizeAt + src[FirstSizeAt]))

\* The first record is a complete EFI 2 Spec ID event advertising algSizes.
FirstRecordOK ==
  /\ FirstSizeAt <= Len(src)
  /\ FirstSizeAt + src[FirstSizeAt] <= Len(src)
  /\ src[start + 1] <= MaxPCRIndex
  /\ src[start + 2] = EventTypeNoAction
  /\ FirstData.kind = "specid"
  /\ FirstData.spec = "efi2"
  /\ FirstData.digestSizes = algSizes

\* A PC Client reader started at the first record, at each of its fields.
OnFirstRecord ==
  /\ rd.kind = "1.2"
  /\ rd.pc = "pcrIndex" => pos = start
  /\ rd.pc = "eventType" => pos = start + 1 /\ src[start + 1] <= MaxPCRIndex
  /\ rd.pc \in {"digest12", "eventSize", "event"} =>
       /\ src[start + 1] <= MaxPCRIndex
       /\ rd.eventType = src[start + 2]
  /\ rd.pc = "digest12" => pos = start + 2
  /\ rd.pc = "eventSize" => pos = start + 2 + Sha1Size \/ (pos = Len(src) /\ Len(src) < start + 2 + Sha1Size)
  /\ rd.pc = "event" => pos = FirstSizeAt /\ rd.size = src[FirstSizeAt]
  /\ rd.pc = "done" /\ rd.err = "none" =>
       /\ FirstSizeAt <= Len(src)
       /\ pos = FirstSizeAt + src[FirstSizeAt]
       /\ src[start + 1] <= MaxPCRIndex
       /\ rd.event.eventType = src[start + 2]
       /\ rd.event.data.kind \in {"specid", "invalidSpecId"} => src[start + 2] = EventTypeNoAction
       /\ src[start + 2] = EventTypeNoAction =>
            rd.event.data = DecodeEventDataNoAction(SubSeq(src, FirstSizeAt + 1, pos))

\* The digests a reader holds: a PC Client reader a SHA-1 digest; a
\* crypto-agile reader advertised algorithms only, and after its checks
\* exactly the log's algorithms.
ReaderDigests ==
  /\ rd.kind = "1.2" =>
       /\ rd.pc \notin {"digestCount", "algorithmId", "digest2"}
       /\ rd.pc \in {"eventSize", "event"} => DOMAIN rd.digests = {AlgorithmSha1}
       /\ rd.pc = "done" /\ rd.err = "none" => DOMAIN rd.event.digests = {AlgorithmSha1}
  /\ rd.kind = "2" =>
       /\ stream = "2"
       /\ phase \in {"idle", "reading", "panicked"}
       /\ emitted # <<>>
       /\ rd.pc # "digest12"
       /\ DOMAIN rd.digests \subseteq AlgIds(algSizes)
       /\ rd.pc = "digest2" => rd.alg \in AlgIds(algSizes)
       /\ rd.pc \in {"eventSize", "event"} => DOMAIN rd.digests = algorithms
       /\ rd.pc = "done" /\ rd.err = "none" => DOMAIN rd.event.digests = algorithms

\* The PC Client reader of newLogFromReader, and stream_2's first call
\* reading the first record again.
Rereading == phase = "reading" /\ stream = "2" /\ rd.kind = "1.2"
FirstReader == phase = "opening" \/ Rereading

\* stream_2 has not yet returned the re-read first record.
FirstPending == ~readFirstEvent \/ (phase = "reading" /\ rd.kind = "1.2")

DigestInv ==
  /\ phase \in {"start", "opening", "openFailed"} => emitted = <<>>
  /\ phase = "opening" => OnFirstRecord
  /\ phase \in {"idle", "reading", "panicked"} =>
       /\ stream = "2" => algorithms = AlgIds(algSizes) \cap DOMAIN KnownAlgorithms /\ FirstRecordOK
       /\ stream = "1.2" => algorithms = {AlgorithmSha1}
  /\ phase = "reading" /\ stream = "1.2" => rd.kind = "1.2"
  /\ phase \in {"idle", "reading"} /\ stream = "2" =>
       /\ emitted = <<>> <=> FirstPending
       /\ phase = "reading" => readFirstEvent
       /\ phase = "idle" /\ ~readFirstEvent => pos = start /\ ~failed
       /\ phase = "reading" /\ rd.kind = "1.2" =>
            /\ OnFirstRecord
            /\ rd.err = "none"
            /\ rd.pc = "eventSize" => pos = start + 2 + Sha1Size
  /\ ReaderDigests
  /\ DigestsMatchLogAlgorithms

-----------------------------------------------------------------------------
(* Lemmas about the decoders and the back-fill.                            *)

\* A NO_ACTION event's data is decoded by decodeEventDataNoAction.
LEMMA DecodeNoAction ==
  ASSUME NEW w, NEW b
  PROVE  DecodeEventData(EventTypeNoAction, w, b) = DecodeEventDataNoAction(w)
BY DEF DecodeEventData, EventTypeNoAction, EventTypeSeparator

\* Only a NO_ACTION event decodes as a Spec ID event, valid or not.
LEMMA DecodeSpecIdType ==
  ASSUME NEW t, NEW w, NEW b, DecodeEventData(t, w, b).kind \in {"specid", "invalidSpecId"}
  PROVE  t = EventTypeNoAction
<1>1. CASE t = EventTypeSeparator
  BY <1>1 DEF DecodeEventData, DecodeEventDataSeparator, NoData, EventTypeNoAction, EventTypeSeparator
<1>2. CASE t # EventTypeSeparator /\ t # EventTypeNoAction
  BY <1>2 DEF DecodeEventData, NoData
<1>. QED BY <1>1, <1>2

\* fixupSpecIdEvent keeps the event's digests, adds only log algorithms,
\* and to an EFI 2 Spec ID event adds every log algorithm but SHA-1.
LEMMA FixupDomain ==
  ASSUME NEW e
  PROVE  /\ DOMAIN e.digests \subseteq DOMAIN FixupDigests(e)
         /\ DOMAIN FixupDigests(e) \subseteq DOMAIN e.digests \cup algorithms
         /\ e.data.kind = "specid" /\ e.data.spec = "efi2" =>
              algorithms \ {AlgorithmSha1} \subseteq DOMAIN FixupDigests(e)
BY DEF FixupDigests

-----------------------------------------------------------------------------
(* The initial state and the steps of the driver.                          *)

LEMMA InitDigestInv ==
  ASSUME Init
  PROVE  DigestInv
BY DEF Init, InitLog, DigestInv, NewReader, ReaderDigests, DigestsMatchLogAlgorithms

\* A step of readNextEvent that keeps the reader's kind and the driver's
\* variables keeps the invariant when it keeps the reader on the first
\* record, keeps the second read of it free of errors, and keeps the
\* reader's digests.
LEMMA ReaderStepDigest ==
  ASSUME DigestInv, phase \in {"opening", "reading"}, UNCHANGED ReaderVars, rd'.kind = rd.kind,
         FirstReader => OnFirstRecord',
         Rereading => rd'.err = "none" /\ (rd'.pc = "eventSize" => pos' = start + 2 + Sha1Size),
         ReaderDigests'
  PROVE  DigestInv'
<1>1. (phase = "opening" => OnFirstRecord)'
  BY DEF FirstReader, ReaderVars
<1>2. UNCHANGED <<phase, start, src, stream, algorithms, algSizes, readFirstEvent, failed, emitted>>
  BY DEF ReaderVars, logVars
<1>3. FirstPending' = FirstPending
  BY <1>2 DEF FirstPending
<1>4. FirstRecordOK' = FirstRecordOK
  BY <1>2 DEF FirstRecordOK, FirstSizeAt, FirstData, Sha1Size
<1>. QED BY <1>1, <1>2, <1>3, <1>4 DEF DigestInv, Rereading, FirstReader, DigestsMatchLogAlgorithms

LEMMA OpenLogDigest ==
  ASSUME DigestInv, OpenLog
  PROVE  DigestInv'
BY DEF OpenLog, DigestInv, NewReader, OnFirstRecord, ReaderDigests, DigestsMatchLogAlgorithms, logVars

LEMMA NextEventRefusedDigest ==
  ASSUME DigestInv, NextEventRefused
  PROVE  DigestInv'
<1>1. UNCHANGED <<src, pos, phase, start, rd, spec, algorithms, algSizes, stream, readFirstEvent,
                  failed, emitted>>
  BY DEF NextEventRefused, logVars
<1>2. FirstRecordOK' = FirstRecordOK /\ OnFirstRecord' = OnFirstRecord /\ FirstPending' = FirstPending
  BY <1>1 DEF FirstRecordOK, FirstSizeAt, FirstData, Sha1Size, OnFirstRecord, FirstPending
<1>. QED BY <1>1, <1>2 DEF DigestInv, ReaderDigests, DigestsMatchLogAlgorithms

\* newLogFromReader chooses the algorithms from the record it read, which
\* is the first record: an EFI 2 Spec ID event makes it crypto-agile.
LEMMA FinishOpenDigest ==
  ASSUME TypeOK, DigestInv, FinishOpen
  PROVE  DigestInv'
<1>. DEFINE d == rd.event.data
<1>1. /\ phase = "opening" /\ rd.pc = "done" /\ OnFirstRecord /\ emitted = <<>>
      /\ UNCHANGED <<src, start, rd, emitted>>
  BY DEF FinishOpen, DigestInv
<1>2. ReaderDigests'
  <2>1. ReaderDigests /\ rd.kind = "1.2"
    BY <1>1 DEF DigestInv, OnFirstRecord
  <2>. QED BY <1>1, <2>1 DEF ReaderDigests
<1>3. CASE phase' = "openFailed"
  BY <1>1, <1>2, <1>3 DEF DigestInv, DigestsMatchLogAlgorithms
<1>4. CASE phase' # "openFailed"
  <2>1. /\ rd.err = "none" /\ d.kind # "invalidSpecId" /\ phase' = "idle"
        /\ pos' = start /\ ~failed' /\ ~readFirstEvent'
        /\ stream' = "2" <=> (d.kind = "specid" /\ d.spec = "efi2")
        /\ stream' = "2" => algorithms' = AlgIds(d.digestSizes) \cap DOMAIN KnownAlgorithms
                            /\ algSizes' = d.digestSizes
        /\ stream' = "1.2" => algorithms' = {AlgorithmSha1}
    BY <1>4 DEF FinishOpen
  <2>2. stream' \in {"1.2", "2"}
    BY <1>4 DEF FinishOpen
  <2>3. stream' = "2" => FirstRecordOK'
    <3>. SUFFICES ASSUME stream' = "2" PROVE FirstRecordOK'
      OBVIOUS
    <3>1. /\ FirstSizeAt <= Len(src) /\ pos = FirstSizeAt + src[FirstSizeAt]
          /\ src[start + 1] <= MaxPCRIndex /\ rd.event.eventType = src[start + 2]
          /\ d.kind \in {"specid", "invalidSpecId"} => src[start + 2] = EventTypeNoAction
          /\ src[start + 2] = EventTypeNoAction =>
               d = DecodeEventDataNoAction(SubSeq(src, FirstSizeAt + 1, pos))
      BY <1>1, <2>1 DEF OnFirstRecord
    <3>2. src[start + 2] = EventTypeNoAction
      BY <2>1, <3>1
    <3>3. d = FirstData
      BY <3>1, <3>2 DEF FirstData
    <3>4. pos <= Len(src)
      BY DEF TypeOK
    <3>. QED BY <1>1, <2>1, <3>1, <3>2, <3>3, <3>4 DEF FirstRecordOK, FirstData, FirstSizeAt, Sha1Size
  <2>4. emitted' = <<>> /\ FirstPending'
    BY <1>1, <2>1 DEF FirstPending
  <2>. QED BY <1>1, <1>2, <2>1, <2>2, <2>3, <2>4 DEF DigestInv, DigestsMatchLogAlgorithms
<1>. QED BY <1>3, <1>4

\* nextEventInternal starts a read: stream_2's first call re-reads the
\* first record, from the offset newLogFromReader rewound to.
LEMMA NextEventBeginDigest ==
  ASSUME DigestInv, NextEventBegin
  PROVE  DigestInv'
<1>. DEFINE k == IF stream = "2" /\ readFirstEvent THEN "2" ELSE "1.2"
<1>1. /\ phase = "idle" /\ phase' = "reading" /\ ~failed /\ rd' = NewReader(k)
      /\ readFirstEvent' = (stream = "2" \/ readFirstEvent)
      /\ UNCHANGED <<src, pos, start, spec, algorithms, algSizes, stream, failed, emitted>>
  BY DEF NextEventBegin
<1>2. FirstRecordOK' = FirstRecordOK
  BY <1>1 DEF FirstRecordOK, FirstSizeAt, FirstData, Sha1Size
<1>3. rd'.kind = k /\ rd'.pc = "pcrIndex" /\ rd'.err = "none" /\ DOMAIN rd'.digests = {}
  BY <1>1 DEF NewReader
<1>4. CASE stream = "2"
  <2>1. FirstPending' = FirstPending
    BY <1>1, <1>3, <1>4 DEF FirstPending
  <2>2. k = "1.2" => pos = start
    BY <1>1, <1>4 DEF DigestInv
  <2>3. k = "2" => emitted # <<>>
    BY <1>1, <1>4 DEF DigestInv, FirstPending
  <2>4. OnFirstRecord' = (k = "1.2")
    BY <1>1, <1>3, <2>2 DEF OnFirstRecord
  <2>. QED BY <1>1, <1>2, <1>3, <1>4, <2>1, <2>3, <2>4
           DEF DigestInv, ReaderDigests, DigestsMatchLogAlgorithms
<1>5. CASE stream # "2"
  BY <1>1, <1>2, <1>3, <1>5 DEF DigestInv, ReaderDigests, DigestsMatchLogAlgorithms
<1>. QED BY <1>4, <1>5

LEMMA TerminatedDigest ==
  ASSUME DigestInv, Terminated \/ UNCHANGED vars
  PROVE  DigestInv'
<1>1. UNCHANGED vars
  BY DEF Terminated
<1>2. UNCHANGED <<src, pos, phase, start, rd, spec, algorithms, algSizes, stream, readFirstEvent,
                  failed, emitted>>
  BY <1>1 DEF vars, logVars
<1>3. FirstRecordOK' = FirstRecordOK /\ OnFirstRecord' = OnFirstRecord /\ FirstPending' = FirstPending
  BY <1>2 DEF FirstRecordOK, FirstSizeAt, FirstData, Sha1Size, OnFirstRecord, FirstPending
<1>. QED BY <1>2, <1>3 DEF DigestInv, ReaderDigests, DigestsMatchLogAlgorithms

\* The event nextEventInternal returns carries the log's algorithms, and
\* SHA-1 as well when it is the first event: a legacy event its SHA-1
\* digest; the re-read first record of a crypto-agile log its SHA-1 digest
\* and fixupSpecIdEvent's back-fill; a crypto-agile event the digests
\* stream_2 kept.
LEMMA ReturnedDigests ==
  ASSUME TypeOK, DigestInv, phase = "reading", rd.pc = "done", rd.err = "none"
  PROVE  DOMAIN FixupDigests(rd.event) =
           algorithms \cup (IF Len(emitted) + 1 = 1 THEN {AlgorithmSha1} ELSE {})
<1>. DEFINE D == DOMAIN FixupDigests(rd.event)
<1>1. rd.kind \in {"1.2", "2"}
  BY DEF TypeOK, IsReader
<1>2. CASE stream = "1.2"
  <2>1. rd.kind = "1.2" /\ algorithms = {AlgorithmSha1}
    BY <1>2 DEF DigestInv
  <2>2. DOMAIN rd.event.digests = {AlgorithmSha1}
    BY <2>1 DEF DigestInv, ReaderDigests
  <2>. QED BY <2>1, <2>2, FixupDomain
<1>3. CASE stream # "1.2" /\ rd.kind = "1.2"
  <2>1. stream = "2"
    BY <1>3 DEF TypeOK
  <2>2. Rereading /\ OnFirstRecord /\ FirstRecordOK /\ emitted = <<>>
    BY <1>3, <2>1 DEF DigestInv, Rereading, FirstPending
  <2>3. rd.event.data = FirstData
    BY <2>2 DEF OnFirstRecord, FirstRecordOK, FirstData
  <2>4. rd.event.data.kind = "specid" /\ rd.event.data.spec = "efi2"
    BY <2>2, <2>3 DEF FirstRecordOK
  <2>5. DOMAIN rd.event.digests = {AlgorithmSha1}
    BY <1>3 DEF DigestInv, ReaderDigests
  <2>6. algorithms \subseteq D /\ AlgorithmSha1 \in D /\ D \subseteq algorithms \cup {AlgorithmSha1}
    BY <2>4, <2>5, FixupDomain
  <2>7. Len(emitted) = 0
    BY <2>2
  <2>8. D = algorithms \cup {AlgorithmSha1}
    BY <2>6
  <2>. QED BY <2>7, <2>8
<1>4. CASE rd.kind = "2"
  <2>1. DOMAIN rd.event.digests = algorithms /\ emitted # <<>>
    BY <1>4 DEF DigestInv, ReaderDigests
  <2>2. D = algorithms
    BY <2>1, FixupDomain
  <2>3. Len(emitted) # 0
    BY <2>1 DEF TypeOK
  <2>. QED BY <2>2, <2>3 DEF TypeOK
<1>. QED BY <1>1, <1>2, <1>3, <1>4

\* nextEventInternal returns the event or the error the stream read.
LEMMA NextEventEndDigest ==
  ASSUME TypeOK, DigestInv, NextEventEnd
  PROVE  DigestInv'
<1>1. /\ phase = "reading" /\ rd.pc = "done" /\ phase' = "idle"
      /\ UNCHANGED <<src, pos, start, rd, spec, algorithms, algSizes, stream, readFirstEvent>>
  BY DEF NextEventEnd
<1>2. FirstRecordOK' = FirstRecordOK
  BY <1>1 DEF FirstRecordOK, FirstSizeAt, FirstData, Sha1Size
<1>3. stream = "2" => readFirstEvent /\ FirstPending' = FALSE
  BY <1>1 DEF DigestInv, FirstPending
<1>4. CASE rd.err # "none"
  <2>1. emitted' = emitted
    BY <1>4 DEF NextEventEnd
  <2>2. stream = "2" => emitted # <<>>
    <3>. SUFFICES ASSUME stream = "2" PROVE emitted # <<>>
      OBVIOUS
    <3>1. rd.kind = "2"
      BY <1>1, <1>4 DEF DigestInv, TypeOK, IsReader
    <3>. QED BY <3>1 DEF DigestInv, ReaderDigests
  <2>. QED BY <1>1, <1>2, <1>3, <2>1, <2>2 DEF DigestInv, ReaderDigests, DigestsMatchLogAlgorithms
<1>5. CASE rd.err = "none"
  <2>. DEFINE ev == [rd.event EXCEPT !.index = EventIndex(rd.event.pcrIndex),
                                     !.digests = FixupDigests(rd.event)]
  <2>1. emitted' = Append(emitted, ev)
    BY <1>5 DEF NextEventEnd
  <2>2. DOMAIN ev.digests = algorithms \cup (IF Len(emitted) + 1 = 1 THEN {AlgorithmSha1} ELSE {})
    <3>1. IsEvent(rd.event, DOMAIN KnownAlgorithms)
      BY <1>1, <1>5 DEF TypeOK, IsReader
    <3>2. ev.digests = FixupDigests(rd.event)
      BY <3>1 DEF IsEvent
    <3>. QED BY <1>1, <1>5, <3>2, ReturnedDigests
  <2>3. emitted \in Seq({emitted[k] : k \in DOMAIN emitted})
    BY DEF TypeOK
  <2>4. /\ Len(emitted') = Len(emitted) + 1
        /\ \A k \in 1..Len(emitted) : emitted'[k] = emitted[k]
        /\ emitted'[Len(emitted) + 1] = ev
    BY <2>1, <2>3, AppendProperties
  <2>5. DigestsMatchLogAlgorithms'
    <3>. SUFFICES ASSUME NEW k \in 1..Len(emitted')
                  PROVE  DOMAIN emitted'[k].digests =
                           algorithms' \cup (IF k = 1 THEN {AlgorithmSha1} ELSE {})
      BY DEF DigestsMatchLogAlgorithms
    <3>1. CASE k \in 1..Len(emitted)
      BY <1>1, <2>4, <3>1 DEF DigestInv, DigestsMatchLogAlgorithms
    <3>2. CASE k = Len(emitted) + 1
      BY <1>1, <2>2, <2>4, <3>2
    <3>. QED BY <2>3, <2>4, <3>1, <3>2
  <2>6. emitted' # <<>>
    BY <2>1, <2>3
  <2>. QED BY <1>1, <1>2, <1>3, <2>5, <2>6 DEF DigestInv, ReaderDigests
<1>. QED BY <1>4, <1>5

-----------------------------------------------------------------------------
(* The steps of readNextEvent.                                             *)

\* A read that stops with an error, other than the second read of the
\* first record, keeps the invariant.
LEMMA FailDigest ==
  ASSUME TypeOK, DigestInv, phase \in {"opening", "reading"}, UNCHANGED ReaderVars,
         NEW err, err # "none", Fail(err), ~Rereading
  PROVE  DigestInv'
<1>1. /\ rd'.kind = rd.kind /\ rd'.pc = "done" /\ rd'.err = err
      /\ rd'.digests = rd.digests /\ rd'.alg = rd.alg
  BY ReaderExcept DEF Fail
<1>2. FirstReader => OnFirstRecord'
  BY <1>1 DEF FirstReader, DigestInv, OnFirstRecord
<1>3. ReaderDigests'
  BY <1>1 DEF DigestInv, ReaderDigests, ReaderVars, logVars
<1>. QED BY <1>1, <1>2, <1>3, ReaderStepDigest

\* What the invariant says of a reader on the first record.
LEMMA FirstReaderFacts ==
  ASSUME DigestInv, FirstReader
  PROVE  /\ OnFirstRecord
         /\ rd.kind = "1.2"
         /\ Rereading => /\ FirstRecordOK /\ rd.err = "none"
                         /\ rd.pc = "eventSize" => pos = start + 2 + Sha1Size
BY DEF DigestInv, FirstReader, Rereading, OnFirstRecord

\* The numbers the offsets of the first record are made of.
LEMMA FirstOffsets ==
  ASSUME TypeOK
  PROVE  /\ Sha1Size \in Nat \ {0}
         /\ start \in Nat /\ pos \in Nat /\ Len(src) \in Nat
         /\ pos <= Len(src) /\ start <= Len(src)
         /\ FirstSizeAt = start + 3 + Sha1Size
BY KnownAlgorithmsAssumption DEF TypeOK, Sha1Size, FirstSizeAt

LEMMA ReadPCRIndexDigest ==
  ASSUME TypeOK, DigestInv, phase \in {"opening", "reading"}, ReadPCRIndex
  PROVE  DigestInv'
<1>1. rd.pc = "pcrIndex" /\ UNCHANGED ReaderVars
  BY DEF ReadPCRIndex
<1>2. Rereading => /\ pos = start /\ rd.err = "none"
                   /\ Remaining > 0 /\ Peek = src[start + 1] /\ src[start + 1] <= MaxPCRIndex
  <2>. SUFFICES ASSUME Rereading
                PROVE  /\ pos = start /\ rd.err = "none"
                       /\ Remaining > 0 /\ Peek = src[start + 1] /\ src[start + 1] <= MaxPCRIndex
    OBVIOUS
  <2>1. OnFirstRecord /\ FirstRecordOK /\ rd.err = "none"
    BY FirstReaderFacts DEF FirstReader
  <2>. QED BY <1>1, <2>1, FirstOffsets DEF OnFirstRecord, FirstRecordOK, Remaining, Peek
<1>3. CASE Remaining = 0
  <2>1. Fail("eof") /\ ~Rereading
    BY <1>2, <1>3 DEF ReadPCRIndex, WrapLogReadError
  <2>. QED BY <1>1, <2>1, FailDigest
<1>0. Remaining > 0 => Remaining # 0
  BY RemainingType
<1>4. CASE Remaining > 0 /\ Peek <= MaxPCRIndex
  <2>1. rd' = [rd EXCEPT !.pcr = Peek, !.pc = "eventType"] /\ pos' = pos + 1
    BY <1>0, <1>4 DEF ReadPCRIndex
  <2>2. rd'.kind = rd.kind /\ rd'.pc = "eventType" /\ rd'.err = rd.err /\ rd'.digests = rd.digests
    BY <2>1, ReaderExcept
  <2>3. FirstReader => OnFirstRecord'
    <3>. SUFFICES ASSUME FirstReader PROVE OnFirstRecord'
      OBVIOUS
    <3>1. OnFirstRecord
      BY FirstReaderFacts
    <3>. QED BY <1>1, <1>4, <2>1, <2>2, <3>1 DEF OnFirstRecord, Peek, ReaderVars
  <2>4. ReaderDigests'
    BY <1>1, <2>2 DEF DigestInv, ReaderDigests, ReaderVars, logVars
  <2>. QED BY <1>1, <1>2, <2>2, <2>3, <2>4, ReaderStepDigest
<1>5. CASE Remaining > 0 /\ ~(Peek <= MaxPCRIndex)
  <2>1. Fail("pcrIndexOutOfRange") /\ ~Rereading
    BY <1>0, <1>2, <1>5 DEF ReadPCRIndex
  <2>. QED BY <1>1, <2>1, FailDigest
<1>. QED BY <1>3, <1>4, <1>5, RemainingType

LEMMA ReadEventTypeDigest ==
  ASSUME TypeOK, DigestInv, phase \in {"opening", "reading"}, ReadEventType
  PROVE  DigestInv'
<1>1. rd.pc = "eventType" /\ UNCHANGED ReaderVars
  BY DEF ReadEventType
<1>0. Remaining > 0 => Remaining # 0
  BY RemainingType
<1>2. Rereading => Remaining > 0
  <2>. SUFFICES ASSUME Rereading PROVE Remaining > 0
    OBVIOUS
  <2>1. OnFirstRecord /\ FirstRecordOK
    BY FirstReaderFacts DEF FirstReader
  <2>. QED BY <1>1, <2>1, FirstOffsets DEF OnFirstRecord, FirstRecordOK, Remaining
<1>3. CASE Remaining = 0
  <2>1. Fail("unexpectedEOF") /\ ~Rereading
    BY <1>2, <1>3, RemainingType DEF ReadEventType, WrapLogReadError
  <2>. QED BY <1>1, <2>1, FailDigest
<1>4. CASE Remaining > 0
  <2>1. /\ rd' = [rd EXCEPT !.eventType = Peek,
                            !.pc = IF rd.kind = "1.2" THEN "digest12" ELSE "digestCount"]
        /\ pos' = pos + 1
    BY <1>0, <1>4 DEF ReadEventType
  <2>2. /\ rd'.kind = rd.kind /\ rd'.err = rd.err /\ rd'.digests = rd.digests
        /\ rd'.eventType = Peek /\ rd'.pc = IF rd.kind = "1.2" THEN "digest12" ELSE "digestCount"
    BY <2>1, ReaderExcept
  <2>3. FirstReader => OnFirstRecord'
    <3>. SUFFICES ASSUME FirstReader PROVE OnFirstRecord'
      OBVIOUS
    <3>1. OnFirstRecord /\ rd.kind = "1.2"
      BY FirstReaderFacts
    <3>2. pos = start + 1 /\ src[start + 1] <= MaxPCRIndex
      BY <1>1, <3>1 DEF OnFirstRecord
    <3>3. /\ rd'.pc = "digest12" /\ pos' = start + 2 /\ rd'.eventType = src[start + 2]
          /\ rd'.kind = "1.2"
      BY <2>1, <2>2, <3>1, <3>2, FirstOffsets DEF Peek
    <3>. QED BY <1>1, <3>2, <3>3 DEF OnFirstRecord, ReaderVars
  <2>4. Rereading => rd.err = "none"
    BY FirstReaderFacts DEF FirstReader
  <2>5. ReaderDigests'
    BY <1>1, <2>2 DEF DigestInv, ReaderDigests, ReaderVars, logVars
  <2>. QED BY <1>1, <2>2, <2>3, <2>4, <2>5, ReaderStepDigest
<1>. QED BY <1>3, <1>4, RemainingType

\* The SHA-1 digest: s.r.Read may return fewer bytes at the end of the
\* source, and the next field read then finds the end.
LEMMA ReadDigest12Digest ==
  ASSUME TypeOK, DigestInv, phase \in {"opening", "reading"}, ReadDigest12
  PROVE  DigestInv'
<1>. DEFINE n == IF Remaining < Sha1Size THEN Remaining ELSE Sha1Size
<1>1. rd.pc = "digest12" /\ UNCHANGED ReaderVars
  BY DEF ReadDigest12
<1>2. rd.kind = "1.2"
  BY <1>1 DEF TypeOK, IsReader, DigestInv, ReaderDigests
<1>0. Remaining > 0 => Remaining # 0
  BY RemainingType
<1>3. Rereading => Remaining > Sha1Size /\ pos = start + 2 /\ rd.err = "none"
  <2>. SUFFICES ASSUME Rereading PROVE Remaining > Sha1Size /\ pos = start + 2 /\ rd.err = "none"
    OBVIOUS
  <2>1. OnFirstRecord /\ FirstRecordOK /\ rd.err = "none"
    BY FirstReaderFacts DEF FirstReader
  <2>. QED BY <1>1, <2>1, FirstOffsets DEF OnFirstRecord, FirstRecordOK, Remaining
<1>4. CASE Remaining = 0
  <2>1. Fail("unexpectedEOF") /\ ~Rereading
    BY <1>3, <1>4, FirstOffsets, RemainingType DEF ReadDigest12, WrapLogReadError, Sha1Size
  <2>. QED BY <1>1, <2>1, FailDigest
<1>5. CASE Remaining > 0
  <2>1. /\ rd' = [rd EXCEPT !.digests = [a \in {AlgorithmSha1} |-> Words(n) \o Zeros(Sha1Size - n)],
                            !.pc = "eventSize"]
        /\ pos' = pos + n
    BY <1>0, <1>5 DEF ReadDigest12, Sha1Size
  <2>2. /\ rd'.kind = rd.kind /\ rd'.err = rd.err /\ rd'.eventType = rd.eventType
        /\ rd'.pc = "eventSize" /\ DOMAIN rd'.digests = {AlgorithmSha1}
    BY <2>1, ReaderExcept
  <2>3. pos' = start + 2 + Sha1Size \/ (pos' = Len(src) /\ Len(src) < start + 2 + Sha1Size)
        \/ ~FirstReader
    <3>. SUFFICES ASSUME FirstReader
                  PROVE  pos' = start + 2 + Sha1Size \/ (pos' = Len(src) /\ Len(src) < start + 2 + Sha1Size)
      OBVIOUS
    <3>1. pos = start + 2
      BY <1>1, FirstReaderFacts DEF OnFirstRecord
    <3>. QED BY <2>1, <3>1, FirstOffsets, RemainingType DEF Remaining
  <2>4. FirstReader => OnFirstRecord'
    <3>. SUFFICES ASSUME FirstReader PROVE OnFirstRecord'
      OBVIOUS
    <3>1. OnFirstRecord
      BY FirstReaderFacts
    <3>. QED BY <1>1, <2>2, <2>3, <3>1 DEF OnFirstRecord, ReaderVars
  <2>5. Rereading => pos' = start + 2 + Sha1Size
    <3>. SUFFICES ASSUME Rereading PROVE pos' = start + 2 + Sha1Size
      OBVIOUS
    <3>1. n = Sha1Size
      BY <1>3, FirstOffsets, RemainingType
    <3>. QED BY <1>3, <2>1, <3>1, FirstOffsets
  <2>6. ReaderDigests'
    BY <1>1, <1>2, <2>2 DEF DigestInv, ReaderDigests
  <2>. QED BY <1>1, <1>3, <2>2, <2>4, <2>5, <2>6, ReaderStepDigest
<1>. QED BY <1>4, <1>5, RemainingType

\* The word registers of the reader are numbers.
LEMMA ReaderSizeType ==
  ASSUME TypeOK
  PROVE  rd.size \in Nat /\ rd.eventType \in Nat
BY DEF TypeOK, IsReader, Word

LEMMA ReadEventSizeDigest ==
  ASSUME TypeOK, DigestInv, phase \in {"opening", "reading"}, ReadEventSize
  PROVE  DigestInv'
<1>1. rd.pc = "eventSize" /\ UNCHANGED ReaderVars
  BY DEF ReadEventSize
<1>0. Remaining > 0 => Remaining # 0
  BY RemainingType
<1>2. Rereading => Remaining > 0
  <2>. SUFFICES ASSUME Rereading PROVE Remaining > 0
    OBVIOUS
  <2>1. FirstRecordOK /\ pos = start + 2 + Sha1Size
    BY <1>1, FirstReaderFacts DEF FirstReader
  <2>. QED BY <2>1, FirstOffsets DEF FirstRecordOK, Remaining
<1>3. CASE Remaining = 0
  <2>1. Fail("unexpectedEOF") /\ ~Rereading
    BY <1>2, <1>3, RemainingType DEF ReadEventSize, WrapLogReadError
  <2>. QED BY <1>1, <2>1, FailDigest
<1>4. CASE Remaining > 0
  <2>1. rd' = [rd EXCEPT !.size = Peek, !.pc = "event"] /\ pos' = pos + 1
    BY <1>0, <1>4 DEF ReadEventSize
  <2>2. /\ rd'.kind = rd.kind /\ rd'.err = rd.err /\ rd'.eventType = rd.eventType
        /\ rd'.digests = rd.digests /\ rd'.size = Peek /\ rd'.pc = "event"
    BY <2>1, ReaderExcept
  <2>3. FirstReader => OnFirstRecord'
    <3>. SUFFICES ASSUME FirstReader PROVE OnFirstRecord'
      OBVIOUS
    <3>1. OnFirstRecord
      BY FirstReaderFacts
    <3>2. pos = start + 2 + Sha1Size
      BY <1>1, <1>4, <3>1, FirstOffsets DEF OnFirstRecord, Remaining
    <3>3. pos' = FirstSizeAt /\ rd'.size = src[FirstSizeAt]
      BY <2>1, <2>2, <3>2, FirstOffsets DEF Peek
    <3>4. /\ rd.kind = "1.2" /\ src[start + 1] <= MaxPCRIndex /\ rd.eventType = src[start + 2]
      BY <1>1, <3>1, FirstReaderFacts DEF OnFirstRecord
    <3>5. src' = src /\ start' = start
      BY <1>1 DEF ReaderVars
    <3>. QED BY <2>2, <3>3, <3>4, <3>5 DEF OnFirstRecord, FirstSizeAt, Sha1Size
  <2>4. Rereading => rd.err = "none"
    BY FirstReaderFacts DEF FirstReader
  <2>5. ReaderDigests'
    BY <1>1, <2>2 DEF DigestInv, ReaderDigests, ReaderVars, logVars
  <2>. QED BY <1>1, <2>2, <2>3, <2>4, <2>5, ReaderStepDigest
<1>. QED BY <1>3, <1>4, RemainingType

\* stream_2's panic on its separator check leaves the reader as it was.
LEMMA PanicDigest ==
  ASSUME TypeOK, DigestInv, phase \in {"opening", "reading"}, rd.pc = "event",
         SeparatorCheckPanics, phase' = "panicked",
         UNCHANGED <<rd, start, logVars, emitted, lastResult, src>>
  PROVE  DigestInv'
<1>1. rd.kind = "2" /\ phase = "reading" /\ stream = "2"
  BY DEF SeparatorCheckPanics, AlgSizesEmpty, HashSumUnknownAlg, DigestInv, ReaderDigests
<1>2. FirstRecordOK' = FirstRecordOK /\ ReaderDigests' = ReaderDigests
      /\ DigestsMatchLogAlgorithms' = DigestsMatchLogAlgorithms
  BY <1>1 DEF FirstRecordOK, FirstSizeAt, FirstData, Sha1Size, ReaderDigests,
               DigestsMatchLogAlgorithms, logVars
<1>3. ReaderDigests'
  BY <1>1, <1>2 DEF DigestInv, ReaderDigests, logVars
<1>. QED BY <1>1, <1>2, <1>3 DEF DigestInv, logVars

LEMMA ReadEventDigest ==
  ASSUME TypeOK, DigestInv, phase \in {"opening", "reading"}, ReadEvent
  PROVE  DigestInv'
<1>1. rd.pc = "event"
  BY DEF ReadEvent
<1>0. rd.size \in Nat /\ Remaining \in Nat
  BY ReaderSizeType, RemainingType
<1>2. Rereading => Remaining >= rd.size /\ pos = FirstSizeAt /\ rd.size = src[FirstSizeAt]
  <2>. SUFFICES ASSUME Rereading PROVE Remaining >= rd.size /\ pos = FirstSizeAt /\ rd.size = src[FirstSizeAt]
    OBVIOUS
  <2>1. FirstRecordOK /\ OnFirstRecord
    BY FirstReaderFacts DEF FirstReader
  <2>2. pos = FirstSizeAt /\ rd.size = src[FirstSizeAt]
    BY <1>1, <2>1 DEF OnFirstRecord
  <2>. QED BY <1>0, <2>1, <2>2, FirstOffsets DEF FirstRecordOK, Remaining
<1>3. CASE Remaining < rd.size
  <2>0. ~(Remaining >= rd.size)
    BY <1>0, <1>3
  <2>1. Fail(WrapLogReadError("eof", TRUE)) /\ UNCHANGED ReaderVars
    BY <2>0 DEF ReadEvent
  <2>2. Fail("unexpectedEOF") /\ ~Rereading
    BY <1>2, <2>0, <2>1 DEF WrapLogReadError
  <2>. QED BY <2>1, <2>2, FailDigest
<1>4. Remaining >= rd.size =>
        /\ pos' = pos + rd.size
        /\ \/ /\ SeparatorCheckPanics /\ phase' = "panicked"
              /\ UNCHANGED <<rd, start, logVars, emitted, lastResult, src>>
           \/ /\ \E isErr \in SeparatorCheckResults :
                   rd' = [rd EXCEPT !.pc = "done", !.event = DecodedEvent(isErr)]
              /\ UNCHANGED ReaderVars
  <2>. SUFFICES ASSUME Remaining >= rd.size
                PROVE  /\ pos' = pos + rd.size
                       /\ \/ /\ SeparatorCheckPanics /\ phase' = "panicked"
                             /\ UNCHANGED <<rd, start, logVars, emitted, lastResult, src>>
                          \/ /\ \E isErr \in SeparatorCheckResults :
                                  rd' = [rd EXCEPT !.pc = "done", !.event = DecodedEvent(isErr)]
                             /\ UNCHANGED ReaderVars
    OBVIOUS
  <2>0. ~(Remaining < rd.size)
    BY <1>0
  <2>. QED BY <2>0 DEF ReadEvent
<1>5. CASE /\ Remaining >= rd.size /\ SeparatorCheckPanics /\ phase' = "panicked"
           /\ UNCHANGED <<rd, start, logVars, emitted, lastResult, src>>
  BY <1>1, <1>5, PanicDigest
<1>6. CASE /\ Remaining >= rd.size
           /\ \E isErr \in SeparatorCheckResults :
                rd' = [rd EXCEPT !.pc = "done", !.event = DecodedEvent(isErr)]
           /\ UNCHANGED ReaderVars
  <2>0. PICK isErr \in SeparatorCheckResults :
               rd' = [rd EXCEPT !.pc = "done", !.event = DecodedEvent(isErr)]
    BY <1>6
  <2>. DEFINE data == DecodeEventData(rd.eventType, Words(rd.size), isErr)
  <2>1. /\ rd' = [rd EXCEPT !.pc = "done",
                    !.event = [pcrIndex |-> rd.pcr, eventType |-> rd.eventType,
                               digests |-> rd.digests, index |-> 0, data |-> data]]
        /\ pos' = pos + rd.size
        /\ UNCHANGED ReaderVars
    BY <1>4, <1>6, <2>0 DEF DecodedEvent
  <2>2. /\ rd'.kind = rd.kind /\ rd'.err = rd.err /\ rd'.pc = "done"
        /\ rd'.event.eventType = rd.eventType /\ rd'.event.digests = rd.digests
        /\ rd'.event.data = data
    BY <2>1, ReaderExcept
  <2>3. FirstReader => OnFirstRecord'
    <3>. SUFFICES ASSUME FirstReader PROVE OnFirstRecord'
      OBVIOUS
    <3>1. OnFirstRecord /\ rd.kind = "1.2"
      BY FirstReaderFacts
    <3>0. CASE rd.err # "none"
      BY <2>2, <3>0, <3>1 DEF OnFirstRecord
    <3>. SUFFICES ASSUME rd.err = "none" PROVE OnFirstRecord'
      BY <3>0
    <3>2. /\ pos = FirstSizeAt /\ rd.size = src[FirstSizeAt]
          /\ src[start + 1] <= MaxPCRIndex /\ rd.eventType = src[start + 2]
      BY <1>1, <3>1 DEF OnFirstRecord
    <3>3. FirstSizeAt <= Len(src) /\ pos' = FirstSizeAt + src[FirstSizeAt]
      BY <1>0, <2>1, <3>2, FirstOffsets DEF Remaining
    <3>4. data.kind \in {"specid", "invalidSpecId"} => src[start + 2] = EventTypeNoAction
      BY <3>2, DecodeSpecIdType
    <3>5. src[start + 2] = EventTypeNoAction =>
            data = DecodeEventDataNoAction(SubSeq(src, FirstSizeAt + 1, pos'))
      <4>1. Words(rd.size) = SubSeq(src, FirstSizeAt + 1, pos')
        BY <2>1, <3>2 DEF Words
      <4>. QED BY <3>2, <4>1, DecodeNoAction
    <3>6. src' = src /\ start' = start
      BY <2>1 DEF ReaderVars
    <3>. QED BY <2>2, <3>1, <3>2, <3>3, <3>4, <3>5, <3>6 DEF OnFirstRecord, FirstSizeAt, Sha1Size
  <2>4. Rereading => rd.err = "none"
    BY FirstReaderFacts DEF FirstReader
  <2>5. ReaderDigests'
    BY <1>1, <2>1, <2>2 DEF DigestInv, ReaderDigests, ReaderVars, logVars
  <2>. QED BY <2>1, <2>2, <2>3, <2>4, <2>5, ReaderStepDigest
<1>7. Remaining < rd.size \/ Remaining >= rd.size
  BY <1>0
<1>. QED BY <1>3, <1>4, <1>5, <1>6, <1>7

\* Only stream_2's reader loops over digests: it runs after the first event,
\* on a log whose algorithms are the advertised ones the registry knows.
LEMMA CryptoAgileReader ==
  ASSUME TypeOK, DigestInv, phase \in {"opening", "reading"},
         rd.pc \in {"digestCount", "algorithmId", "digest2"} \/ rd.kind = "2"
  PROVE  /\ rd.kind = "2" /\ ~FirstReader /\ ~Rereading
         /\ phase = "reading" /\ stream = "2"
         /\ algorithms = AlgIds(algSizes) \cap DOMAIN KnownAlgorithms
<1>1. rd.kind = "2"
  BY DEF TypeOK, IsReader, DigestInv, ReaderDigests
<1>2. ~FirstReader
  BY <1>1, FirstReaderFacts
<1>3. phase = "reading" /\ stream = "2"
  BY <1>1 DEF DigestInv, ReaderDigests
<1>. QED BY <1>1, <1>2, <1>3 DEF DigestInv, FirstReader

\* The kind-2 part of ReaderDigests, from the registers of the next reader.
LEMMA AgileReaderDigests ==
  ASSUME DigestInv, rd.kind = "2", UNCHANGED ReaderVars, rd'.kind = "2",
         rd'.pc # "digest12", DOMAIN rd'.digests \subseteq AlgIds(algSizes),
         rd'.pc = "digest2" => rd'.alg \in AlgIds(algSizes),
         rd'.pc \in {"eventSize", "event"} => DOMAIN rd'.digests = algorithms,
         rd'.pc = "done" /\ rd'.err = "none" => DOMAIN rd'.event.digests = algorithms
  PROVE  ReaderDigests'
BY DEF DigestInv, ReaderDigests, ReaderVars, logVars

LEMMA ReadDigestCountDigest ==
  ASSUME TypeOK, DigestInv, phase \in {"opening", "reading"}, ReadDigestCount
  PROVE  DigestInv'
<1>1. rd.pc = "digestCount" /\ UNCHANGED ReaderVars
  BY DEF ReadDigestCount
<1>2. rd.kind = "2" /\ ~FirstReader /\ ~Rereading
  BY <1>1, CryptoAgileReader
<1>0. Remaining > 0 => Remaining # 0
  BY RemainingType
<1>3. CASE Remaining = 0
  <2>1. Fail("unexpectedEOF")
    BY <1>3 DEF ReadDigestCount, WrapLogReadError
  <2>. QED BY <1>1, <1>2, <2>1, FailDigest
<1>4. CASE Remaining > 0
  <2>1. rd' = [rd EXCEPT !.count = Peek, !.i = 0, !.digests = <<>>, !.pc = "algorithmId"]
    BY <1>0, <1>4 DEF ReadDigestCount
  <2>2. rd'.kind = rd.kind /\ rd'.pc = "algorithmId" /\ rd'.digests = <<>>
    BY <2>1, ReaderExcept
  <2>3. ReaderDigests'
    BY <1>1, <1>2, <2>2, AgileReaderDigests
  <2>. QED BY <1>1, <1>2, <2>2, <2>3, ReaderStepDigest
<1>. QED BY <1>3, <1>4, RemainingType

LEMMA ReadAlgorithmIdDigest ==
  ASSUME TypeOK, DigestInv, phase \in {"opening", "reading"}, ReadAlgorithmId
  PROVE  DigestInv'
<1>1. rd.pc = "algorithmId" /\ UNCHANGED ReaderVars
  BY DEF ReadAlgorithmId
<1>2. rd.kind = "2" /\ ~FirstReader /\ ~Rereading
  BY <1>1, CryptoAgileReader
<1>0. Remaining > 0 => Remaining # 0
  BY RemainingType
<1>3. CASE Remaining = 0
  <2>1. Fail("unexpectedEOF")
    BY <1>3 DEF ReadAlgorithmId, WrapLogReadError
  <2>. QED BY <1>1, <1>2, <2>1, FailDigest
<1>4. CASE Remaining > 0 /\ ~IsAdvertised(Peek)
  <2>1. Fail("unrecognizedAlgorithm")
    BY <1>0, <1>4 DEF ReadAlgorithmId
  <2>. QED BY <1>1, <1>2, <2>1, FailDigest
<1>5. CASE Remaining > 0 /\ IsAdvertised(Peek)
  <2>1. rd' = [rd EXCEPT !.alg = Peek, !.pc = "digest2"]
    BY <1>0, <1>5 DEF ReadAlgorithmId
  <2>2. /\ rd'.kind = rd.kind /\ rd'.pc = "digest2" /\ rd'.digests = rd.digests
        /\ rd'.alg \in AlgIds(algSizes)
    BY <1>5, <2>1, ReaderExcept DEF IsAdvertised
  <2>3. DOMAIN rd.digests \subseteq AlgIds(algSizes)
    BY <1>2 DEF DigestInv, ReaderDigests
  <2>4. ReaderDigests'
    BY <1>1, <1>2, <2>2, <2>3, AgileReaderDigests
  <2>. QED BY <1>1, <1>2, <2>2, <2>4, ReaderStepDigest
<1>. QED BY <1>3, <1>4, <1>5, RemainingType

LEMMA ReadDigest2Digest ==
  ASSUME TypeOK, DigestInv, phase \in {"opening", "reading"}, ReadDigest2
  PROVE  DigestInv'
<1>. DEFINE size == AdvertisedSize(algSizes, rd.alg)
<1>1. rd.pc = "digest2" /\ UNCHANGED ReaderVars
  BY DEF ReadDigest2
<1>2. rd.kind = "2" /\ ~FirstReader /\ ~Rereading
  BY <1>1, CryptoAgileReader
<1>0. size \in Nat /\ Remaining \in Nat
  BY AdvertisedSizeType, RemainingType DEF TypeOK, Word
<1>3. CASE Remaining < size
  <2>1. Fail("unexpectedEOF")
    BY <1>0, <1>3 DEF ReadDigest2, WrapLogReadError
  <2>. QED BY <1>1, <1>2, <2>1, FailDigest
<1>4. CASE ~(Remaining < size) /\ rd.alg \in DOMAIN rd.digests
  <2>1. Fail("duplicateDigest")
    BY <1>4 DEF ReadDigest2
  <2>. QED BY <1>1, <1>2, <2>1, FailDigest
<1>5. CASE ~(Remaining < size) /\ rd.alg \notin DOMAIN rd.digests
  <2>. DEFINE nd == [a \in DOMAIN rd.digests \cup {rd.alg} |->
                       IF a = rd.alg THEN Words(size) ELSE rd.digests[a]]
  <2>1. rd' = [rd EXCEPT !.digests = nd, !.i = rd.i + 1, !.pc = "algorithmId"]
    BY <1>5 DEF ReadDigest2
  <2>2. rd'.kind = rd.kind /\ rd'.pc = "algorithmId" /\ rd'.digests = nd
    BY <2>1, ReaderExcept
  <2>3. DOMAIN rd.digests \subseteq AlgIds(algSizes) /\ rd.alg \in AlgIds(algSizes)
    BY <1>1, <1>2 DEF DigestInv, ReaderDigests
  <2>4. DOMAIN nd \subseteq AlgIds(algSizes)
    BY <2>3
  <2>5. ReaderDigests'
    BY <1>1, <1>2, <2>2, <2>4, AgileReaderDigests
  <2>. QED BY <1>1, <1>2, <2>2, <2>5, ReaderStepDigest
<1>. QED BY <1>0, <1>3, <1>4, <1>5

\* The check after the loop: the digests kept are exactly those of the
\* advertised algorithms the registry knows, which are the log's.
LEMMA CheckDigestsDigest ==
  ASSUME TypeOK, DigestInv, phase \in {"opening", "reading"}, CheckDigests
  PROVE  DigestInv'
<1>1. rd.pc = "algorithmId" /\ UNCHANGED ReaderVars
  BY DEF CheckDigests
<1>2. /\ rd.kind = "2" /\ ~FirstReader /\ ~Rereading
      /\ algorithms = AlgIds(algSizes) \cap DOMAIN KnownAlgorithms
  BY <1>1, CryptoAgileReader
<1>3. CASE ~(AlgIds(algSizes) \subseteq DOMAIN rd.digests)
  <2>1. Fail("missingDigest")
    BY <1>3 DEF CheckDigests
  <2>. QED BY <1>1, <1>2, <2>1, FailDigest
<1>4. CASE AlgIds(algSizes) \subseteq DOMAIN rd.digests
  <2>1. rd' = [rd EXCEPT !.digests = KeepKnown(rd.digests), !.pc = "eventSize"]
    BY <1>4 DEF CheckDigests
  <2>2. rd'.kind = rd.kind /\ rd'.pc = "eventSize" /\ rd'.digests = KeepKnown(rd.digests)
    BY <2>1, ReaderExcept
  <2>3. DOMAIN rd.digests = AlgIds(algSizes)
    BY <1>2, <1>4 DEF DigestInv, ReaderDigests
  <2>4. DOMAIN KeepKnown(rd.digests) = algorithms
    BY <1>2, <2>3 DEF KeepKnown
  <2>5. algorithms \subseteq AlgIds(algSizes)
    BY <1>2
  <2>6. ReaderDigests'
    BY <1>1, <1>2, <2>2, <2>4, <2>5, AgileReaderDigests
  <2>. QED BY <1>1, <1>2, <2>2, <2>6, ReaderStepDigest
<1>. QED BY <1>3, <1>4

-----------------------------------------------------------------------------
(* The invariant is preserved by every step.                               *)

LEMMA DigestInvStep ==
  ASSUME TypeOK, DigestInv, [Next]_vars
  PROVE  DigestInv'
<1>1. CASE OpenLog
  BY <1>1, OpenLogDigest
<1>2. CASE FinishOpen
  BY <1>2, FinishOpenDigest
<1>3. CASE NextEventRefused
  BY <1>3, NextEventRefusedDigest
<1>4. CASE NextEventBegin
  BY <1>4, NextEventBeginDigest
<1>5. CASE NextEventEnd
  BY <1>5, NextEventEndDigest
<1>6. CASE phase \in {"opening", "reading"} /\ ReadStep
  BY <1>6, ReadPCRIndexDigest, ReadEventTypeDigest, ReadDigest12Digest, ReadDigestCountDigest,
     ReadAlgorithmIdDigest, ReadDigest2Digest, CheckDigestsDigest, ReadEventSizeDigest,
     ReadEventDigest
  DEF ReadStep
<1>7. CASE Terminated \/ UNCHANGED vars
  BY <1>7, TerminatedDigest
<1>. QED BY <1>1, <1>2, <1>3, <1>4, <1>5, <1>6, <1>7 DEF Next

\* Every event NextEvent returns carries a digest for exactly the log's
\* algorithms, and the first also for SHA-1, for every registry and every
\* source: stream_2 keeps only the advertised algorithms the registry knows
\* (log.go lines 183-196), and newLogFromReader's first event, re-read by
\* stream_2 at the same offsets (lines 124-127, 251-301), gets the others
\* from fixupSpecIdEvent (lines 219-235).
THEOREM DigestsMatchAlgorithms == LogSpec => []DigestsMatchLogAlgorithms
<1>1. Init => DigestInv
  BY InitDigestInv
<1>2. TypeOK /\ DigestInv /\ [Next]_vars => DigestInv'
  BY DigestInvStep
<1>3. DigestInv => DigestsMatchLogAlgorithms
  BY DEF DigestInv
<1>4. LogSpec => []TypeOK
  BY TypeCorrect
<1>. QED BY <1>1, <1>2, <1>3, <1>4, PTL DEF LogSpec

=============================================================================
