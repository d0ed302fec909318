---------------------------- MODULE TcgLogProofs ----------------------------
(***************************************************************************)
(* Machine-checked proofs about the log reader of TcgLog, for every        *)
(* registry KnownAlgorithms and every set of byte sources.                 *)
(***************************************************************************)
EXTENDS TcgLog, SequenceTheorems, TLAPS

-----------------------------------------------------------------------------
(* Lemmas about the helpers the reader is built from.                      *)

\* Words(k) of a source with at least k words left is a sequence of words.
LEMMA WordsType ==
  ASSUME src \in Seq(Word), pos \in 0..Len(src), NEW k \in Nat, k <= Len(src) - pos
  PROVE  /\ Words(k) \in Seq(Word)
         /\ Len(Words(k)) = k
<1>1. \A i \in (pos + 1)..(pos + k) : src[i] \in Word
  OBVIOUS
<1>. QED BY <1>1, SubSeqProperties DEF Words

\* A zero digest of k words is a digest.
LEMMA ZerosType ==
  ASSUME NEW k \in Nat
  PROVE  Zeros(k) \in Seq(Word)
BY DEF Zeros, Word

\* The size stream_2 reads a digest with is a number: the first advertised
\* match or the zero value of digestSize.
LEMMA AdvertisedSizeType ==
  ASSUME NEW sizes \in Seq(Word \X Word), NEW alg
  PROVE  AdvertisedSize(sizes, alg) \in Word
<1>. DEFINE first == {j \in DOMAIN sizes : sizes[j][1] = alg /\ \A k \in 1..(j - 1) : sizes[k][1] # alg}
<1>1. CASE first = {}
  BY <1>1 DEF AdvertisedSize, Word
<1>2. CASE first # {}
  <2>1. (CHOOSE j \in first : TRUE) \in DOMAIN sizes
    BY <1>2
  <2>2. sizes[CHOOSE j \in first : TRUE] \in Word \X Word
    BY <2>1
  <2>. QED BY <1>2, <2>2 DEF AdvertisedSize
<1>. QED BY <1>1, <1>2

\* The data of no Spec ID event or separator.
LEMMA NoDataType == NoData \in EventData
BY DEF NoData, EventData, DataKinds, SpecKinds

\* Decoding event data always yields one of the EventData records.
LEMMA DecodeType ==
  ASSUME NEW t \in Word, NEW data \in Seq(Word), NEW b \in BOOLEAN
  PROVE  DecodeEventData(t, data, b) \in EventData
<1>0. WrapSpecIdEventReadError \in EventData
  BY NoDataType DEF WrapSpecIdEventReadError, EventData, DataKinds
<1>1. \A s \in SpecKinds : DecodeSpecIdVendorInfo(data, s) \in EventData
  BY <1>0, NoDataType DEF DecodeSpecIdVendorInfo, EventData, DataKinds
<1>2. DecodeEFI2SpecId(data) \in EventData
  <2>. DEFINE n == data[2]
              ok == Len(data) >= 2 /\ Len(data) >= 3 + 2 * n /\ Len(data) >= 3 + 2 * n + data[3 + 2 * n]
  <2>1. CASE ok
    <3>1. n \in Nat
      BY <2>1 DEF Word
    <3>2. \A j \in 1..n : 2 * j + 1 \in 1..Len(data) /\ 2 * j + 2 \in 1..Len(data)
      BY <2>1, <3>1
    <3>3. [j \in 1..n |-> <<data[2 * j + 1], data[2 * j + 2]>>] \in [1..n -> Word \X Word]
      BY <3>2
    <3>4. [j \in 1..n |-> <<data[2 * j + 1], data[2 * j + 2]>>] \in Seq(Word \X Word)
      <4>1. [1..n -> Word \X Word] \in {[1..m -> Word \X Word] : m \in Nat}
        BY <3>1
      <4>2. [1..n -> Word \X Word] \subseteq Seq(Word \X Word)
        BY <4>1, SeqDef
      <4>. QED BY <3>3, <4>2
    <3>. QED BY <2>1, <3>4, NoDataType DEF DecodeEFI2SpecId, EventData, SpecKinds, DataKinds
  <2>2. CASE ~ok
    BY <1>0, <2>2 DEF DecodeEFI2SpecId
  <2>. QED BY <2>1, <2>2
<1>3. DecodeEventDataNoAction(data) \in EventData
  BY <1>1, <1>2, NoDataType DEF DecodeEventDataNoAction, EventData, DataKinds, SpecKinds
<1>4. DecodeEventDataSeparator(b) \in EventData
  BY NoDataType DEF DecodeEventDataSeparator, EventData, DataKinds
<1>. QED BY <1>3, <1>4, NoDataType DEF DecodeEventData

\* A function on 1..n is a sequence.
LEMMA FunctionIsSeq ==
  ASSUME NEW S, NEW n \in Nat, NEW f \in [1..n -> S]
  PROVE  f \in Seq(S)
<1>1. [1..n -> S] \in {[1..m -> S] : m \in Nat}
  OBVIOUS
<1>. QED BY <1>1, SeqDef

\* wrapLogReadError maps a read error to a read error.
LEMMA WrapType ==
  ASSUME NEW err \in ReadErrors, NEW partial \in BOOLEAN
  PROVE  WrapLogReadError(err, partial) \in ReadErrors
BY DEF WrapLogReadError, ReadErrors

-----------------------------------------------------------------------------
(* The inductive invariant.  TypeOK is not inductive by itself: ReadEvent  *)
(* makes the registers' digests the event's, and the event must carry     *)
(* registry algorithms only.  That holds because the only ways to the     *)
(* eventSize and event steps are ReadDigest12 (a SHA-1 digest) and        *)
(* CheckDigests (after the unknown algorithms are deleted).               *)

ReaderDigestsKnown(r) ==
  r.pc \in {"eventSize", "event"} => DOMAIN r.digests \subseteq DOMAIN KnownAlgorithms

IInv == TypeOK /\ ReaderDigestsKnown(rd)

\* A fresh reader is well typed.
LEMMA NewReaderType ==
  ASSUME NEW kind \in {"1.2", "2"}
  PROVE  IsReader(NewReader(kind)) /\ ReaderDigestsKnown(NewReader(kind))
BY DEF NewReader, IsReader, IsDigestMap, ReaderDigestsKnown, ReaderPCs, Word, MaxPCRIndex

\* A step of readNextEvent keeps the invariant if the registers it leaves
\* and the new offset are well typed.
LEMMA ReaderFrame ==
  ASSUME TypeOK, IsReader(rd'), ReaderDigestsKnown(rd'), pos' \in 0..Len(src),
         UNCHANGED ReaderVars
  PROVE  IInv'
BY DEF IInv, TypeOK, ReaderVars, logVars

-----------------------------------------------------------------------------
(* The reader's steps.                                                     *)

\* A read that stops with an error keeps the invariant.
LEMMA FailStep ==
  ASSUME TypeOK, NEW err \in ReadErrors, Fail(err), pos' \in 0..Len(src), UNCHANGED ReaderVars
  PROVE  IInv'
<1>1. IsReader(rd') /\ ReaderDigestsKnown(rd')
  BY DEF TypeOK, Fail, IsReader, ReaderDigestsKnown, ReaderPCs, ReadErrors
<1>. QED BY <1>1, ReaderFrame

\* The registers a step of readNextEvent leaves alone.
LEMMA ReaderExcept ==
  ASSUME TypeOK
  PROVE  {"kind", "pc", "alg", "digests", "err", "eventType", "size", "event"} \subseteq DOMAIN rd
BY DEF TypeOK, IsReader

\* The offset, the source's length and what is left of it are numbers.
LEMMA RemainingType ==
  ASSUME TypeOK
  PROVE  Len(src) \in Nat /\ pos \in Nat /\ Remaining \in Nat /\ Len(src) \in 0..Len(src)
BY DEF TypeOK, Remaining

\* A read of one word at the offset keeps the offset in the source.
LEMMA PeekType ==
  ASSUME TypeOK, Remaining > 0
  PROVE  Peek \in Word /\ pos + 1 \in 0..Len(src)
BY DEF TypeOK, Remaining, Peek, Word

LEMMA ReadPCRIndexInv ==
  ASSUME IInv, ReadPCRIndex
  PROVE  IInv'
<1>0. UNCHANGED ReaderVars /\ TypeOK /\ IsReader(rd)
  BY DEF ReadPCRIndex, IInv, TypeOK
<1>1. CASE Remaining = 0
  <2>0. ~(Remaining > 0) /\ ~(Remaining < 0)
    BY <1>1
  <2>1. Fail(WrapLogReadError("eof", FALSE)) /\ pos' = pos
    BY <1>1, <2>0 DEF ReadPCRIndex, Fail
  <2>2. WrapLogReadError("eof", FALSE) \in ReadErrors
    BY WrapType DEF ReadErrors
  <2>. QED BY <1>0, <2>1, <2>2, FailStep DEF TypeOK
<1>2. CASE Remaining > 0
  <2>0. pos' = pos + 1
    BY <1>2 DEF ReadPCRIndex, Fail
  <2>1. Peek \in Word /\ pos' \in 0..Len(src)
    BY <1>0, <1>2, <2>0, PeekType
  <2>2. CASE Peek <= MaxPCRIndex
    <3>1. rd' = [rd EXCEPT !.pcr = Peek, !.pc = "eventType"]
      BY <1>2, <2>2 DEF ReadPCRIndex, Fail
    <3>0. Peek \in 0..MaxPCRIndex
      BY <2>1, <2>2 DEF Word, MaxPCRIndex
    <3>2. IsReader(rd') /\ ReaderDigestsKnown(rd')
      BY <1>0, <3>0, <3>1 DEF IsReader, ReaderDigestsKnown, ReaderPCs
    <3>. QED BY <1>0, <2>1, <3>2, ReaderFrame
  <2>3. CASE ~(Peek <= MaxPCRIndex)
    <3>1. Fail("pcrIndexOutOfRange")
      BY <1>2, <2>3 DEF ReadPCRIndex, Fail
    <3>2. "pcrIndexOutOfRange" \in ReadErrors
      BY DEF ReadErrors
    <3>. QED BY <1>0, <2>1, <3>1, <3>2, FailStep
  <2>. QED BY <2>2, <2>3
<1>. QED BY <1>0, <1>1, <1>2 DEF TypeOK, Remaining

LEMMA ReadEventTypeInv ==
  ASSUME IInv, ReadEventType
  PROVE  IInv'
<1>0. UNCHANGED ReaderVars /\ TypeOK /\ IsReader(rd)
  BY DEF ReadEventType, IInv, TypeOK
<1>1. CASE Remaining = 0
  <2>0. ~(Remaining > 0) /\ ~(Remaining < 0)
    BY <1>1
  <2>1. Fail(WrapLogReadError("eof", TRUE)) /\ pos' = pos
    BY <1>1, <2>0 DEF ReadEventType, Fail
  <2>2. WrapLogReadError("eof", TRUE) \in ReadErrors
    BY WrapType DEF ReadErrors
  <2>. QED BY <1>0, <2>1, <2>2, FailStep DEF TypeOK
<1>2. CASE Remaining > 0
  <2>0. pos' = pos + 1 /\ rd' = [rd EXCEPT !.eventType = Peek,
                             !.pc = IF rd.kind = "1.2" THEN "digest12" ELSE "digestCount"]
    BY <1>2 DEF ReadEventType, Fail
  <2>1. Peek \in Word /\ pos' \in 0..Len(src)
    BY <1>0, <1>2, <2>0, PeekType
  <2>2. IsReader(rd') /\ ReaderDigestsKnown(rd')
    BY <1>0, <2>0, <2>1 DEF IsReader, ReaderDigestsKnown, ReaderPCs
  <2>. QED BY <1>0, <2>1, <2>2, ReaderFrame
<1>. QED BY <1>0, <1>1, <1>2 DEF TypeOK, Remaining

LEMMA ReadDigestCountInv ==
  ASSUME IInv, ReadDigestCount
  PROVE  IInv'
<1>0. UNCHANGED ReaderVars /\ TypeOK /\ IsReader(rd)
  BY DEF ReadDigestCount, IInv, TypeOK
<1>1. CASE Remaining = 0
  <2>0. ~(Remaining > 0) /\ ~(Remaining < 0)
    BY <1>1
  <2>1. Fail(WrapLogReadError("eof", TRUE)) /\ pos' = pos
    BY <1>1, <2>0 DEF ReadDigestCount, Fail
  <2>2. WrapLogReadError("eof", TRUE) \in ReadErrors
    BY WrapType DEF ReadErrors
  <2>. QED BY <1>0, <2>1, <2>2, FailStep DEF TypeOK
<1>2. CASE Remaining > 0
  <2>0. pos' = pos + 1 /\ rd' = [rd EXCEPT !.count = Peek, !.i = 0, !.digests = <<>>, !.pc = "algorithmId"]
    BY <1>2 DEF ReadDigestCount, Fail
  <2>1. Peek \in Word /\ pos' \in 0..Len(src)
    BY <1>0, <1>2, <2>0, PeekType
  <2>2. IsReader(rd') /\ ReaderDigestsKnown(rd')
    BY <1>0, <2>0, <2>1 DEF IsReader, ReaderDigestsKnown, ReaderPCs, IsDigestMap, Word
  <2>. QED BY <1>0, <2>1, <2>2, ReaderFrame
<1>. QED BY <1>0, <1>1, <1>2 DEF TypeOK, Remaining

LEMMA ReadDigest12Inv ==
  ASSUME IInv, ReadDigest12
  PROVE  IInv'
<1>0. UNCHANGED ReaderVars /\ TypeOK /\ IsReader(rd)
  BY DEF ReadDigest12, IInv, TypeOK
<1>1. CASE Remaining = 0
  <2>0. ~(Remaining > 0) /\ ~(Remaining < 0)
    BY <1>1
  <2>1. Fail(WrapLogReadError("eof", TRUE)) /\ pos' = pos
    BY <1>1, <2>0 DEF ReadDigest12, Fail
  <2>2. WrapLogReadError("eof", TRUE) \in ReadErrors
    BY WrapType DEF ReadErrors
  <2>. QED BY <1>0, <2>1, <2>2, FailStep DEF TypeOK
<1>2. CASE Remaining > 0
  <2>. DEFINE size == KnownAlgorithms[AlgorithmSha1]
              n == IF Remaining < size THEN Remaining ELSE size
              d == Words(n) \o Zeros(size - n)
  <2>0. pos' = pos + n /\ rd' = [rd EXCEPT !.digests = [a \in {AlgorithmSha1} |-> d], !.pc = "eventSize"]
    BY <1>2 DEF ReadDigest12, Fail
  <2>1. size \in Nat /\ n \in Nat /\ n <= size /\ n <= Len(src) - pos
    BY <1>0, <1>2, KnownAlgorithmsAssumption DEF Remaining, TypeOK, AlgorithmSha1
  <2>2. d \in Seq(Word)
    <3>1. Words(n) \in Seq(Word)
      BY <1>0, <2>1, WordsType DEF TypeOK
    <3>2. Zeros(size - n) \in Seq(Word)
      BY <2>1, ZerosType
    <3>. QED BY <3>1, <3>2, ConcatProperties
  <2>3. AlgorithmSha1 \in DOMAIN KnownAlgorithms /\ AlgorithmSha1 \in Word
    BY KnownAlgorithmsAssumption DEF AlgorithmSha1, Word
  <2>4. pos' \in 0..Len(src)
    BY <1>0, <2>0, <2>1 DEF TypeOK
  <2>5. IsReader(rd') /\ ReaderDigestsKnown(rd')
    BY <1>0, <2>0, <2>2, <2>3 DEF IsReader, IsDigestMap, Digest, ReaderDigestsKnown, ReaderPCs
  <2>. QED BY <1>0, <2>4, <2>5, ReaderFrame
<1>. QED BY <1>0, <1>1, <1>2 DEF TypeOK, Remaining

LEMMA ReadAlgorithmIdInv ==
  ASSUME IInv, ReadAlgorithmId
  PROVE  IInv'
<1>0. UNCHANGED ReaderVars /\ TypeOK /\ IsReader(rd)
  BY DEF ReadAlgorithmId, IInv, TypeOK
<1>1. CASE Remaining = 0
  <2>0. ~(Remaining > 0) /\ ~(Remaining < 0)
    BY <1>1
  <2>1. Fail(WrapLogReadError("eof", TRUE)) /\ pos' = pos
    BY <1>1, <2>0 DEF ReadAlgorithmId, Fail
  <2>2. WrapLogReadError("eof", TRUE) \in ReadErrors
    BY WrapType DEF ReadErrors
  <2>. QED BY <1>0, <2>1, <2>2, FailStep DEF TypeOK
<1>2. CASE Remaining > 0
  <2>0. pos' = pos + 1
    BY <1>2 DEF ReadAlgorithmId, Fail
  <2>1. Peek \in Word /\ pos' \in 0..Len(src)
    BY <1>0, <1>2, <2>0, PeekType
  <2>2. CASE IsAdvertised(Peek)
    <3>1. rd' = [rd EXCEPT !.alg = Peek, !.pc = "digest2"]
      BY <1>2, <2>2 DEF ReadAlgorithmId, Fail
    <3>2. IsReader(rd') /\ ReaderDigestsKnown(rd')
      BY <1>0, <2>1, <3>1 DEF IsReader, ReaderDigestsKnown, ReaderPCs
    <3>. QED BY <1>0, <2>1, <3>2, ReaderFrame
  <2>3. CASE ~IsAdvertised(Peek)
    <3>1. Fail("unrecognizedAlgorithm")
      BY <1>2, <2>3 DEF ReadAlgorithmId, Fail
    <3>2. "unrecognizedAlgorithm" \in ReadErrors
      BY DEF ReadErrors
    <3>. QED BY <1>0, <2>1, <3>1, <3>2, FailStep
  <2>. QED BY <2>2, <2>3
<1>. QED BY <1>0, <1>1, <1>2 DEF TypeOK, Remaining

LEMMA ReadEventSizeInv ==
  ASSUME IInv, ReadEventSize
  PROVE  IInv'
<1>0. UNCHANGED ReaderVars /\ TypeOK /\ IsReader(rd)
      /\ rd.pc = "eventSize" /\ ReaderDigestsKnown(rd)
  BY DEF ReadEventSize, IInv, TypeOK
<1>1. CASE Remaining = 0
  <2>0. ~(Remaining > 0) /\ ~(Remaining < 0)
    BY <1>1
  <2>1. Fail(WrapLogReadError("eof", TRUE)) /\ pos' = pos
    BY <1>1, <2>0 DEF ReadEventSize, Fail
  <2>2. WrapLogReadError("eof", TRUE) \in ReadErrors
    BY WrapType DEF ReadErrors
  <2>. QED BY <1>0, <2>1, <2>2, FailStep DEF TypeOK
<1>2. CASE Remaining > 0
  <2>0. pos' = pos + 1 /\ rd' = [rd EXCEPT !.size = Peek, !.pc = "event"]
    BY <1>2 DEF ReadEventSize, Fail
  <2>1. Peek \in Word /\ pos' \in 0..Len(src)
    BY <1>0, <1>2, <2>0, PeekType
  <2>2. IsReader(rd') /\ ReaderDigestsKnown(rd')
    BY <1>0, <2>0, <2>1 DEF IsReader, ReaderDigestsKnown, ReaderPCs
  <2>. QED BY <1>0, <2>1, <2>2, ReaderFrame
<1>. QED BY <1>0, <1>1, <1>2 DEF TypeOK, Remaining

\* The deletion of unknown digests leaves a digest map of registry
\* algorithms.
LEMMA KeepKnownType ==
  ASSUME NEW d, IsDigestMap(d, Word)
  PROVE  IsDigestMap(KeepKnown(d), Word) /\ DOMAIN KeepKnown(d) \subseteq DOMAIN KnownAlgorithms
BY DEF KeepKnown, IsDigestMap

LEMMA CheckDigestsInv ==
  ASSUME IInv, CheckDigests
  PROVE  IInv'
<1>0. UNCHANGED ReaderVars /\ TypeOK /\ IsReader(rd) /\ pos' = pos
  BY DEF CheckDigests, IInv, TypeOK
<1>1. pos' \in 0..Len(src)
  BY <1>0 DEF TypeOK
<1>2. CASE AlgIds(algSizes) \subseteq DOMAIN rd.digests
  <2>1. rd' = [rd EXCEPT !.digests = KeepKnown(rd.digests), !.pc = "eventSize"]
    BY <1>2 DEF CheckDigests, Fail
  <2>2. IsDigestMap(KeepKnown(rd.digests), Word)
        /\ DOMAIN KeepKnown(rd.digests) \subseteq DOMAIN KnownAlgorithms
    BY <1>0, KeepKnownType DEF IsReader
  <2>3. IsReader(rd') /\ ReaderDigestsKnown(rd')
    BY <1>0, <2>1, <2>2 DEF IsReader, ReaderDigestsKnown, ReaderPCs
  <2>. QED BY <1>0, <1>1, <2>3, ReaderFrame
<1>3. CASE ~(AlgIds(algSizes) \subseteq DOMAIN rd.digests)
  <2>1. Fail("missingDigest")
    BY <1>3 DEF CheckDigests, Fail
  <2>2. "missingDigest" \in ReadErrors
    BY DEF ReadErrors
  <2>. QED BY <1>0, <1>1, <2>1, <2>2, FailStep
<1>. QED BY <1>2, <1>3

LEMMA ReadDigest2Inv ==
  ASSUME IInv, ReadDigest2
  PROVE  IInv'
<1>. DEFINE size == AdvertisedSize(algSizes, rd.alg)
<1>0. UNCHANGED ReaderVars /\ TypeOK /\ IsReader(rd)
  BY DEF ReadDigest2, IInv, TypeOK
<1>1. size \in Word
  BY <1>0, AdvertisedSizeType DEF TypeOK
<1>2. CASE Remaining < size
  <2>0. ~(Remaining >= size)
    BY <1>0, <1>2, RemainingType, <1>1 DEF Word
  <2>1. Fail(WrapLogReadError("eof", TRUE)) /\ pos' = Len(src)
    BY <1>2, <2>0 DEF ReadDigest2, Fail
  <2>2. WrapLogReadError("eof", TRUE) \in ReadErrors
    BY WrapType DEF ReadErrors
  <2>3. pos' \in 0..Len(src)
    BY <1>0, <2>1, RemainingType
  <2>. QED BY <1>0, <2>1, <2>2, <2>3, FailStep
<1>3. CASE ~(Remaining < size)
  <2>0. pos' = pos + size
    BY <1>3 DEF ReadDigest2, Fail
  <2>1. pos' \in 0..Len(src) /\ size <= Len(src) - pos
    BY <1>0, <1>1, <1>3, <2>0 DEF TypeOK, Remaining, Word
  <2>2. CASE rd.alg \in DOMAIN rd.digests
    <3>1. Fail("duplicateDigest")
      BY <1>3, <2>2 DEF ReadDigest2, Fail
    <3>2. "duplicateDigest" \in ReadErrors
      BY DEF ReadErrors
    <3>. QED BY <1>0, <2>1, <3>1, <3>2, FailStep
  <2>3. CASE rd.alg \notin DOMAIN rd.digests
    <3>. DEFINE nd == [a \in DOMAIN rd.digests \cup {rd.alg} |->
                         IF a = rd.alg THEN Words(size) ELSE rd.digests[a]]
    <3>1. rd' = [rd EXCEPT !.digests = nd, !.i = rd.i + 1, !.pc = "algorithmId"]
      BY <1>3, <2>3 DEF ReadDigest2, Fail
    <3>2. Words(size) \in Seq(Word)
      BY <1>0, <1>1, <2>1, WordsType DEF TypeOK, Word
    <3>3. IsDigestMap(nd, Word)
      BY <1>0, <3>2 DEF IsReader, IsDigestMap, Digest
    <3>4. IsReader(rd') /\ ReaderDigestsKnown(rd')
      BY <1>0, <3>1, <3>3 DEF IsReader, ReaderDigestsKnown, ReaderPCs, Word
    <3>. QED BY <1>0, <2>1, <3>4, ReaderFrame
  <2>. QED BY <2>2, <2>3
<1>. QED BY <1>2, <1>3

LEMMA ReadEventInv ==
  ASSUME IInv, ReadEvent
  PROVE  IInv'
<1>0. TypeOK /\ IsReader(rd) /\ rd.pc = "event" /\ ReaderDigestsKnown(rd)
  BY DEF ReadEvent, IInv, TypeOK
<1>1. CASE Remaining < rd.size
  <2>0. ~(Remaining >= rd.size)
    BY <1>0, <1>1, RemainingType DEF IsReader, Word
  <2>1. Fail(WrapLogReadError("eof", TRUE)) /\ pos' = Len(src) /\ UNCHANGED ReaderVars
    BY <1>1, <2>0 DEF ReadEvent, Fail
  <2>2. WrapLogReadError("eof", TRUE) \in ReadErrors
    BY WrapType DEF ReadErrors
  <2>3. pos' \in 0..Len(src)
    BY <1>0, <2>1, RemainingType
  <2>. QED BY <1>0, <2>1, <2>2, <2>3, FailStep
<1>2. CASE ~(Remaining < rd.size)
  <2>0. pos' = pos + rd.size
    BY <1>2 DEF ReadEvent, Fail
  <2>1. pos' \in 0..Len(src) /\ rd.size <= Len(src) - pos /\ rd.size \in Nat
    BY <1>0, <1>2, <2>0 DEF TypeOK, IsReader, Remaining, Word
  <2>2. \/ phase' = "panicked" /\ UNCHANGED <<rd, start, logVars, emitted, lastResult, src>>
        \/ /\ \E isErr \in SeparatorCheckResults :
                rd' = [rd EXCEPT !.pc = "done", !.event = DecodedEvent(isErr)]
           /\ UNCHANGED ReaderVars
    BY <1>2 DEF ReadEvent
  <2>3. CASE phase' = "panicked" /\ UNCHANGED <<rd, start, logVars, emitted, lastResult, src>>
    BY <1>0, <2>1, <2>3 DEF IInv, TypeOK, logVars
  <2>4. CASE /\ \E isErr \in SeparatorCheckResults :
                  rd' = [rd EXCEPT !.pc = "done", !.event = DecodedEvent(isErr)]
             /\ UNCHANGED ReaderVars
    <3>1. PICK isErr \in SeparatorCheckResults :
                 rd' = [rd EXCEPT !.pc = "done", !.event = DecodedEvent(isErr)]
      BY <2>4
    <3>2. DecodeEventData(rd.eventType, Words(rd.size), isErr) \in EventData
      <4>1. Words(rd.size) \in Seq(Word)
        BY <1>0, <2>1, WordsType DEF TypeOK
      <4>2. isErr \in BOOLEAN
        BY DEF SeparatorCheckResults, IsDigestOfSeparatorErrorValue
      <4>3. rd.eventType \in Word
        BY <1>0 DEF IsReader
      <4>. QED BY <4>1, <4>2, <4>3, DecodeType
    <3>3. IsDigestMap(rd.digests, DOMAIN KnownAlgorithms)
      BY <1>0 DEF IsReader, ReaderDigestsKnown, IsDigestMap
    <3>4. IsEvent(DecodedEvent(isErr), DOMAIN KnownAlgorithms)
      BY <1>0, <3>2, <3>3 DEF DecodedEvent, IsEvent, IsReader, Word
    <3>5. IsReader(rd') /\ ReaderDigestsKnown(rd')
      BY <1>0, <3>1, <3>4 DEF IsReader, ReaderDigestsKnown, ReaderPCs
    <3>. QED BY <1>0, <2>1, <2>4, <3>5, ReaderFrame
  <2>. QED BY <2>2, <2>3, <2>4
<1>. QED BY <1>1, <1>2

-----------------------------------------------------------------------------
(* The driver's steps.                                                     *)

\* Appending to a sequence keeps it a sequence over its own range.
LEMMA AppendRange ==
  ASSUME NEW s, s \in Seq({s[k] : k \in DOMAIN s}), NEW e
  PROVE  LET t == Append(s, e)
         IN  /\ t \in Seq({t[k] : k \in DOMAIN t})
             /\ DOMAIN t = DOMAIN s \cup {Len(s) + 1}
             /\ t[Len(s) + 1] = e
             /\ \A k \in DOMAIN s : t[k] = s[k]
<1>. DEFINE R == {s[k] : k \in DOMAIN s}
            t == Append(s, e)
<1>1. s \in Seq(R \cup {e})
  BY SeqMonotonic
<1>2. /\ t \in Seq(R \cup {e})
      /\ Len(t) = Len(s) + 1
      /\ \A i \in 1..Len(s) : t[i] = s[i]
      /\ t[Len(s) + 1] = e
  BY <1>1, AppendProperties
<1>3. DOMAIN s = 1..Len(s) /\ DOMAIN t = 1..(Len(s) + 1) /\ Len(s) \in Nat
  BY <1>1, <1>2, LenProperties
<1>4. {t[k] : k \in DOMAIN t} = R \cup {e}
  BY <1>2, <1>3
<1>. QED BY <1>2, <1>3, <1>4

\* fixupSpecIdEvent leaves a digest map of registry algorithms.
LEMMA FixupType ==
  ASSUME NEW e, IsEvent(e, DOMAIN KnownAlgorithms), algorithms \subseteq DOMAIN KnownAlgorithms
  PROVE  IsDigestMap(FixupDigests(e), DOMAIN KnownAlgorithms)
<1>1. \A a \in DOMAIN KnownAlgorithms : ZeroDigest(a) \in Digest
  BY KnownAlgorithmsAssumption, ZerosType DEF ZeroDigest, Digest
<1>. QED BY <1>1 DEF FixupDigests, IsEvent, IsDigestMap

\* The index tracker stays a map from PCR indices to counts.
LEMMA TrackIndexType ==
  ASSUME TypeOK, NEW p \in 0..MaxPCRIndex
  PROVE  /\ EventIndex(p) \in Nat
         /\ DOMAIN TrackIndex(p) \subseteq 0..MaxPCRIndex
         /\ \A q \in DOMAIN TrackIndex(p) : TrackIndex(p)[q] \in Nat
BY DEF TypeOK, EventIndex, TrackIndex

LEMMA OpenLogInv ==
  ASSUME IInv, OpenLog
  PROVE  IInv'
<1>1. IsReader(rd') /\ ReaderDigestsKnown(rd')
  BY NewReaderType DEF OpenLog
<1>. QED BY <1>1 DEF OpenLog, IInv, TypeOK, logVars

LEMMA NextEventRefusedInv ==
  ASSUME IInv, NextEventRefused
  PROVE  IInv'
BY DEF NextEventRefused, IInv, TypeOK, logVars, Results

LEMMA NextEventBeginInv ==
  ASSUME IInv, NextEventBegin
  PROVE  IInv'
<1>1. IsReader(rd') /\ ReaderDigestsKnown(rd')
  BY NewReaderType DEF NextEventBegin
<1>. QED BY <1>1 DEF NextEventBegin, IInv, TypeOK

\* Opening the log: the format chosen from the first event is well typed.
LEMMA FinishOpenInv ==
  ASSUME IInv, FinishOpen
  PROVE  IInv'
<1>0. /\ TypeOK /\ ReaderDigestsKnown(rd) /\ rd.pc = "done"
      /\ UNCHANGED <<src, start, rd, emitted>>
  BY DEF IInv, FinishOpen
<1>1. rd.err \in {"none"} \cup ReadErrors
  BY <1>0 DEF TypeOK, IsReader
<1>2. rd.err = "none" => rd.event.data \in EventData
  BY <1>0 DEF TypeOK, IsReader, IsEvent
<1>3. CASE rd.err # "none"
  <2>1. lastResult' = WrapLogReadError(rd.err, TRUE) /\ UNCHANGED <<pos, logVars>>
        /\ phase' = "openFailed"
    BY <1>3 DEF FinishOpen
  <2>2. lastResult' \in Results
    BY <1>1, <1>3, <2>1, WrapType DEF Results, OpenErrors
  <2>. QED BY <1>0, <2>1, <2>2 DEF IInv, TypeOK, logVars
<1>4. CASE rd.err = "none" /\ rd.event.data.kind = "invalidSpecId"
  <2>1. lastResult' = "invalidSpecIdEvent" /\ UNCHANGED <<pos, logVars>>
        /\ phase' = "openFailed"
    BY <1>4 DEF FinishOpen
  <2>. QED BY <1>0, <2>1 DEF IInv, TypeOK, logVars, Results, OpenErrors
<1>5. CASE rd.err = "none" /\ rd.event.data.kind # "invalidSpecId"
  <2>. DEFINE d == rd.event.data
  <2>1. d \in EventData
    BY <1>2, <1>5
  <2>2. /\ spec' \in {d.spec, "unknown"}
        /\ \/ algorithms' = AlgIds(d.digestSizes) \cap DOMAIN KnownAlgorithms
              /\ algSizes' = d.digestSizes /\ stream' = "2"
           \/ algorithms' = {AlgorithmSha1} /\ algSizes' = <<>> /\ stream' = "1.2"
        /\ readFirstEvent' = FALSE /\ failed' = FALSE /\ indexTracker' = <<>>
        /\ pos' = start /\ phase' = "idle" /\ UNCHANGED lastResult
    BY <1>5 DEF FinishOpen
  <2>3. spec' \in SpecKinds /\ d.digestSizes \in Seq(Word \X Word)
    BY <2>1, <2>2 DEF EventData, SpecKinds
  <2>4. algorithms' \subseteq DOMAIN KnownAlgorithms
    BY <2>2, KnownAlgorithmsAssumption
  <2>5. algSizes' \in Seq(Word \X Word)
    <3>1. <<>> \in Seq(Word \X Word)
      OBVIOUS
    <3>. QED BY <2>2, <2>3, <3>1
  <2>6. /\ pos' \in 0..Len(src') /\ start' \in 0..Len(src')
        /\ DOMAIN indexTracker' \subseteq 0..MaxPCRIndex
        /\ \A q \in DOMAIN indexTracker' : indexTracker'[q] \in Nat
    BY <1>0, <2>2 DEF TypeOK
  <2>7. IsReader(rd') /\ ReaderDigestsKnown(rd')
    BY <1>0 DEF TypeOK
  <2>8. /\ emitted' \in Seq({emitted'[k] : k \in DOMAIN emitted'})
        /\ \A k \in DOMAIN emitted' : IsEvent(emitted'[k], DOMAIN KnownAlgorithms)
        /\ src' \in Seq(Word) /\ lastResult' \in Results
    BY <1>0, <2>2 DEF TypeOK
  <2>. QED BY <2>2, <2>3, <2>4, <2>5, <2>6, <2>7, <2>8 DEF IInv, TypeOK
<1>. QED BY <1>3, <1>4, <1>5

\* Setting an event's index and digests gives the event record with them.
LEMMA EventExcept ==
  ASSUME NEW ev, NEW x, NEW y,
         ev = [pcrIndex |-> ev.pcrIndex, eventType |-> ev.eventType, digests |-> ev.digests,
               index |-> ev.index, data |-> ev.data]
  PROVE  [ev EXCEPT !.index = x, !.digests = y]
           = [pcrIndex |-> ev.pcrIndex, eventType |-> ev.eventType, digests |-> y,
              index |-> x, data |-> ev.data]
<1>. DEFINE e2 == [ev EXCEPT !.index = x, !.digests = y]
            r == [pcrIndex |-> ev.pcrIndex, eventType |-> ev.eventType, digests |-> y,
                  index |-> x, data |-> ev.data]
<1>0. DOMAIN ev = {"pcrIndex", "eventType", "digests", "index", "data"}
  OBVIOUS
<1>1. DOMAIN e2 = {"pcrIndex", "eventType", "digests", "index", "data"} /\ DOMAIN r = DOMAIN e2
  BY <1>0
<1>2. ASSUME NEW f \in DOMAIN e2 PROVE e2[f] = r[f]
  <2>1. CASE f = "pcrIndex"  BY <1>0, <2>1
  <2>2. CASE f = "eventType" BY <1>0, <2>2
  <2>3. CASE f = "digests"   BY <1>0, <2>3
  <2>4. CASE f = "index"     BY <1>0, <2>4
  <2>5. CASE f = "data"      BY <1>0, <2>5
  <2>. QED BY <1>1, <2>1, <2>2, <2>3, <2>4, <2>5
<1>3. e2 = [f \in DOMAIN e2 |-> e2[f]] /\ r = [f \in DOMAIN r |-> r[f]]
  OBVIOUS
<1>. QED BY <1>1, <1>2, <1>3

\* The event returned by nextEventInternal is well typed.
LEMMA EmittedEventType ==
  ASSUME TypeOK, NEW ev, IsEvent(ev, DOMAIN KnownAlgorithms)
  PROVE  IsEvent([ev EXCEPT !.index = EventIndex(ev.pcrIndex), !.digests = FixupDigests(ev)],
                 DOMAIN KnownAlgorithms)
<1>0. /\ ev = [pcrIndex |-> ev.pcrIndex, eventType |-> ev.eventType, digests |-> ev.digests,
             index |-> ev.index, data |-> ev.data]
      /\ ev.pcrIndex \in 0..MaxPCRIndex /\ ev.eventType \in Nat /\ ev.data \in EventData
  BY DEF IsEvent
<1>1. IsDigestMap(FixupDigests(ev), DOMAIN KnownAlgorithms)
  BY FixupType DEF TypeOK
<1>2. EventIndex(ev.pcrIndex) \in Nat
  BY <1>0, TrackIndexType
<1>. DEFINE x == EventIndex(ev.pcrIndex)
            y == FixupDigests(ev)
<1>3. [ev EXCEPT !.index = x, !.digests = y]
        = [pcrIndex |-> ev.pcrIndex, eventType |-> ev.eventType, digests |-> y,
           index |-> x, data |-> ev.data]
  BY <1>0, EventExcept
<1>4. IsEvent([pcrIndex |-> ev.pcrIndex, eventType |-> ev.eventType, digests |-> y,
               index |-> x, data |-> ev.data], DOMAIN KnownAlgorithms)
  BY <1>0, <1>1, <1>2 DEF IsEvent
<1>. QED BY <1>3, <1>4

\* Ending a read: an error marks the log failed; an event is appended.
LEMMA NextEventEndInv ==
  ASSUME IInv, NextEventEnd
  PROVE  IInv'
<1>0. /\ TypeOK /\ ReaderDigestsKnown(rd) /\ rd.pc = "done" /\ phase' = "idle"
      /\ UNCHANGED <<src, pos, start, rd, spec, algorithms, algSizes, stream, readFirstEvent>>
  BY DEF IInv, NextEventEnd
<1>1. rd.err \in {"none"} \cup ReadErrors
  BY <1>0 DEF TypeOK, IsReader
<1>2. CASE rd.err # "none"
  <2>1. failed' = MarksFailed(rd.err) /\ lastResult' = rd.err /\ UNCHANGED <<indexTracker, emitted>>
    BY <1>2 DEF NextEventEnd
  <2>2. failed' \in BOOLEAN /\ lastResult' \in Results
    BY <1>1, <1>2, <2>1 DEF MarksFailed, Results, OpenErrors
  <2>. QED BY <1>0, <2>1, <2>2 DEF IInv, TypeOK
<1>3. CASE rd.err = "none"
  <2>. DEFINE ev == rd.event
              p == ev.pcrIndex
              e == [ev EXCEPT !.index = EventIndex(p), !.digests = FixupDigests(ev)]
  <2>1. indexTracker' = TrackIndex(p) /\ emitted' = Append(emitted, e)
        /\ lastResult' = "event" /\ UNCHANGED failed
    BY <1>3 DEF NextEventEnd
  <2>2. IsEvent(ev, DOMAIN KnownAlgorithms)
    BY <1>0, <1>3 DEF TypeOK, IsReader
  <2>3. p \in 0..MaxPCRIndex
    BY <2>2 DEF IsEvent
  <2>4. IsEvent(e, DOMAIN KnownAlgorithms)
    BY <1>0, <2>2, EmittedEventType
  <2>5. DOMAIN indexTracker' \subseteq 0..MaxPCRIndex
        /\ \A q \in DOMAIN indexTracker' : indexTracker'[q] \in Nat
    BY <1>0, <2>1, <2>3, TrackIndexType
  <2>6. emitted \in Seq({emitted[k] : k \in DOMAIN emitted})
        /\ \A k \in DOMAIN emitted : IsEvent(emitted[k], DOMAIN KnownAlgorithms)
    BY <1>0 DEF TypeOK
  <2>7. /\ emitted' \in Seq({emitted'[k] : k \in DOMAIN emitted'})
        /\ DOMAIN emitted' = DOMAIN emitted \cup {Len(emitted) + 1}
        /\ emitted'[Len(emitted) + 1] = e
        /\ \A k \in DOMAIN emitted : emitted'[k] = emitted[k]
    BY <2>1, <2>6, AppendRange
  <2>8. \A k \in DOMAIN emitted' : IsEvent(emitted'[k], DOMAIN KnownAlgorithms)
    BY <2>4, <2>6, <2>7
  <2>9. lastResult' \in Results /\ failed' \in BOOLEAN
    BY <1>0, <2>1 DEF Results, TypeOK
  <2>. QED BY <1>0, <2>5, <2>7, <2>8, <2>9 DEF IInv, TypeOK
<1>. QED BY <1>2, <1>3

\* A step that changes nothing (a terminated program, a stutter).
LEMMA StutterInv ==
  ASSUME IInv, UNCHANGED vars
  PROVE  IInv'
BY DEF IInv, TypeOK, ReaderDigestsKnown, vars, logVars

\* The program's initial state satisfies the invariant.
LEMMA InitIInv ==
  ASSUME Init
  PROVE  IInv
<1>1. src \in Seq(Word)
  BY SourcesAssumption DEF Init
<1>2. IsReader(rd) /\ ReaderDigestsKnown(rd)
  BY NewReaderType DEF Init, InitLog
<1>3. InitLog
  BY DEF Init
<1>4. /\ pos \in 0..Len(src) /\ start \in 0..Len(src)
      /\ algSizes \in Seq(Word \X Word)
      /\ DOMAIN indexTracker = {}
      /\ DOMAIN emitted = {} /\ emitted \in Seq({})
  BY <1>1, <1>3 DEF InitLog
<1>5. emitted \in Seq({emitted[k] : k \in DOMAIN emitted})
  BY <1>4
<1>6. /\ phase \in {"start", "opening", "idle", "reading", "openFailed", "panicked"}
      /\ spec \in SpecKinds /\ algorithms \subseteq DOMAIN KnownAlgorithms
      /\ stream \in {"1.2", "2"} /\ readFirstEvent \in BOOLEAN /\ failed \in BOOLEAN
      /\ lastResult \in Results
  BY <1>3 DEF InitLog, SpecKinds, Results
<1>7. /\ DOMAIN indexTracker \subseteq 0..MaxPCRIndex
      /\ \A p \in DOMAIN indexTracker : indexTracker[p] \in Nat
      /\ \A k \in DOMAIN emitted : IsEvent(emitted[k], DOMAIN KnownAlgorithms)
  BY <1>4
<1>. QED BY <1>1, <1>2, <1>4, <1>5, <1>6, <1>7 DEF IInv, TypeOK

-----------------------------------------------------------------------------
\* Type correctness of the reader and the Log driver: in every state the
\* program reaches, for every registry and every source, the reader's
\* registers, the log's format state (algorithms, sizes, index tracker) and
\* every event NextEvent has returned are well typed; in particular every
\* returned event carries digests of registry algorithms only (log.go
\* readNextEvent, newLogFromReader, nextEventInternal).
THEOREM TypeCorrect == LogSpec => []TypeOK
<1>1. Init => IInv
  BY InitIInv
<1>2. IInv /\ [Next]_vars => IInv'
  <2>. SUFFICES ASSUME IInv, [Next]_vars PROVE IInv'
    OBVIOUS
  <2>1. CASE OpenLog
    BY <2>1, OpenLogInv
  <2>2. CASE FinishOpen
    BY <2>2, FinishOpenInv
  <2>3. CASE NextEventRefused
    BY <2>3, NextEventRefusedInv
  <2>4. CASE NextEventBegin
    BY <2>4, NextEventBeginInv
  <2>5. CASE NextEventEnd
    BY <2>5, NextEventEndInv
  <2>6. CASE phase \in {"opening", "reading"} /\ ReadStep
    BY <2>6, ReadPCRIndexInv, ReadEventTypeInv, ReadDigest12Inv, ReadDigestCountInv,
       ReadAlgorithmIdInv, ReadDigest2Inv, CheckDigestsInv, ReadEventSizeInv, ReadEventInv
    DEF ReadStep
  <2>7. CASE Terminated \/ UNCHANGED vars
    BY <2>7, StutterInv DEF Terminated
  <2>. QED BY <2>1, <2>2, <2>3, <2>4, <2>5, <2>6, <2>7 DEF Next
<1>3. IInv => TypeOK
  BY DEF IInv
<1>. QED BY <1>1, <1>2, <1>3, PTL DEF LogSpec

=============================================================================
