---------------------------- MODULE TcgLogApiProofs ----------------------------
(***************************************************************************)
(* The proof that the reader implements LogApi, the promise a Log makes to *)
(* its caller, for every registry and every source.  Each step of TcgLog  *)
(* is a step of LogApi or leaves what the caller sees alone; the argument *)
(* rests on the invariants proved in TcgLogProofs, TcgLogDriverProofs and *)
(* TcgLogDigestProofs, and on one more: nothing is answered before the    *)
(* open ends.                                                              *)
(***************************************************************************)
EXTENDS TcgLogDriverProofs, TcgLogDigestProofs

\* newLogFromReader answers nothing until it returns.
OpenInv == phase \in {"start", "opening"} => lastResult = "none"

LEMMA InitOpenInv ==
  ASSUME Init
  PROVE  OpenInv
BY DEF Init, InitLog, OpenInv

LEMMA OpenInvStep ==
  ASSUME OpenInv, [Next]_vars
  PROVE  OpenInv'
<1>1. CASE phase \in {"opening", "reading"} /\ ReadStep
  <2>1. lastResult' = lastResult /\ phase' \in {phase, "panicked"}
    BY <1>1, ReadStepFrame
  <2>. QED BY <2>1 DEF OpenInv
<1>2. CASE ~(phase \in {"opening", "reading"} /\ ReadStep)
  BY <1>2 DEF Next, OpenInv, OpenLog, FinishOpen, NextEventRefused, NextEventBegin,
              NextEventEnd, Terminated, vars
<1>. QED BY <1>1, <1>2

\* Only stream_2's separator check panics, and stream_2 runs only once the
\* log is open.
LEMMA PanicOnlyWhenOpen ==
  ASSUME DigestInv, phase \in {"opening", "reading"}, ReadStep, phase' # phase
  PROVE  phase = "reading"
<1>1. ReadEvent /\ SeparatorCheckPanics
  BY DEF ReadStep, ReadPCRIndex, ReadEventType, ReadDigest12, ReadDigestCount, ReadAlgorithmId,
         ReadDigest2, CheckDigests, ReadEventSize, ReadEvent, ReaderVars
<1>2. rd.kind = "2"
  BY <1>1 DEF SeparatorCheckPanics, AlgSizesEmpty, HashSumUnknownAlg
<1>. QED BY <1>2 DEF DigestInv, OnFirstRecord

\* The invariants the step of the refinement uses, before and after it.
ApiInv ==
  /\ TypeOK /\ StickyInv /\ EofInv /\ OpenInv /\ DigestInv
  /\ IndicesCountEarlierEvents /\ DigestsMatchLogAlgorithms

\* A returned event is the step Return of LogApi: its index counts the
\* events of its PCR before it, and its digests are the log's.
LEMMA ReturnStep ==
  ASSUME TypeOK', IndicesCountEarlierEvents', DigestsMatchLogAlgorithms', TypeOK,
         NEW x, emitted' = Append(emitted, x), algorithms' = algorithms,
         phase \in {"idle", "reading", "panicked"}, phase' \in {"idle", "reading", "panicked"},
         ApiOutcome = "none", ApiOutcome' = "none"
  PROVE  API!Return
<1>. DEFINE n == Len(emitted)
            e == emitted'[n + 1]
<1>1. emitted \in Seq({emitted[k] : k \in DOMAIN emitted}) /\ n \in Nat
  BY DEF TypeOK
<1>2. Len(emitted') = n + 1 /\ e = x /\ emitted' = Append(emitted, e)
      /\ \A j \in 1..n : emitted'[j] = emitted[j]
  BY <1>1
<1>3. e.pcrIndex \in 0..MaxPCRIndex
  <2>1. n + 1 \in DOMAIN emitted'
    BY <1>1, <1>2
  <2>. QED BY <2>1 DEF TypeOK, IsEvent
<1>4. e.index = Cardinality({j \in 1..n : emitted[j].pcrIndex = e.pcrIndex})
  <2>1. e.index = PCRCount(emitted', e.pcrIndex, n)
    BY <1>2 DEF IndicesCountEarlierEvents
  <2>2. {j \in 1..n : emitted'[j].pcrIndex = e.pcrIndex} = {j \in 1..n : emitted[j].pcrIndex = e.pcrIndex}
    BY <1>2
  <2>. QED BY <2>1, <2>2 DEF PCRCount
<1>5. DOMAIN e.digests = algorithms \cup (IF emitted = <<>> THEN {AlgorithmSha1} ELSE {})
  <2>1. DOMAIN e.digests = algorithms \cup (IF n + 1 = 1 THEN {AlgorithmSha1} ELSE {})
    BY <1>2 DEF DigestsMatchLogAlgorithms
  <2>2. (emitted = <<>>) <=> (n + 1 = 1)
    BY <1>1
  <2>. QED BY <2>1, <2>2
<1>6. /\ (phase \in {"idle", "reading", "panicked"})
      /\ ApiOutcome = "none"
      /\ UNCHANGED <<phase \in {"idle", "reading", "panicked"}, algorithms, ApiOutcome>>
  OBVIOUS
<1>7. e.index = API!EarlierOfPCR(e.pcrIndex)
  <2>1. API!EarlierOfPCR(e.pcrIndex) = Cardinality({j \in 1..n : emitted[j].pcrIndex = e.pcrIndex})
    BY DEF API!EarlierOfPCR, API!Cardinality, Cardinality
  <2>. QED BY <1>4, <2>1
<1>. QED BY <1>2, <1>3, <1>5, <1>6, <1>7 DEF API!Return

\* Each step of the reader is a step of LogApi or changes nothing the
\* caller sees.
LEMMA ApiStep ==
  ASSUME ApiInv, ApiInv', [Next]_vars
  PROVE  [API!Next]_API!vars
<1>. USE DEF ApiInv
<1>0. lastResult = "eof" => ~failed /\ phase \in {"idle", "reading"}
  BY DEF EofInv
<1>1. CASE OpenLog
  BY <1>1 DEF OpenLog, ApiOutcome, API!vars, logVars
<1>2. CASE FinishOpen
  <2>1. phase = "opening" /\ lastResult = "none" /\ ~failed
    BY <1>2 DEF FinishOpen, OpenInv, StickyInv
  <2>2. ApiOutcome = "none" /\ UNCHANGED emitted
    BY <1>2, <2>1 DEF ApiOutcome, FinishOpen
  <2>3. CASE phase' = "openFailed"
    <3>1. lastResult' # "eof" /\ UNCHANGED <<algorithms>>
      BY <1>2, <2>3 DEF FinishOpen, WrapLogReadError, logVars
    <3>. QED BY <2>1, <2>2, <2>3, <3>1 DEF ApiOutcome, API!Next, API!OpenFail
  <2>4. CASE phase' # "openFailed"
    <3>1. phase' = "idle" /\ ~failed' /\ lastResult' = "none"
      BY <1>2, <2>1, <2>4 DEF FinishOpen
    <3>2. algorithms' \subseteq DOMAIN KnownAlgorithms
      BY DEF TypeOK
    <3>. QED BY <2>1, <2>2, <3>1, <3>2 DEF ApiOutcome, API!Next, API!Open
  <2>. QED BY <2>3, <2>4
<1>3. CASE NextEventRefused
  BY <1>0, <1>3 DEF NextEventRefused, ApiOutcome, API!vars, logVars
<1>4. CASE NextEventBegin
  BY <1>4 DEF NextEventBegin, ApiOutcome, API!vars
<1>5. CASE NextEventEnd
  <2>1. /\ phase = "reading" /\ rd.pc = "done" /\ phase' = "idle" /\ ~failed
        /\ UNCHANGED algorithms
    BY <1>5 DEF NextEventEnd, StickyInv
  <2>2. lastResult = "eof" => rd.err = "eof"
    BY <2>1 DEF EofInv
  <2>3. CASE rd.err = "eof"
    <3>1. lastResult' = "eof" /\ UNCHANGED emitted
      BY <1>5, <2>3 DEF NextEventEnd
    <3>2. CASE lastResult = "eof"
      BY <2>1, <3>1, <3>2 DEF ApiOutcome, API!vars
    <3>3. CASE lastResult # "eof"
      BY <2>1, <3>1, <3>3 DEF ApiOutcome, API!Next, API!End
    <3>. QED BY <3>2, <3>3
  <2>4. CASE rd.err # "eof" /\ rd.err # "none"
    <3>1. lastResult' = rd.err /\ failed' /\ UNCHANGED emitted
      BY <1>5, <2>4 DEF NextEventEnd, MarksFailed
    <3>. QED BY <2>1, <2>2, <2>4, <3>1 DEF ApiOutcome, API!Next, API!End
  <2>5. CASE rd.err = "none"
    <3>1. /\ lastResult' = "event" /\ failed' = failed
          /\ \E x : emitted' = Append(emitted, x)
      BY <1>5, <2>5 DEF NextEventEnd
    <3>2. ApiOutcome = "none" /\ ApiOutcome' = "none"
      BY <2>1, <2>2, <2>5, <3>1 DEF ApiOutcome
    <3>3. API!Return
      BY <2>1, <3>1, <3>2, ReturnStep DEF ApiInv
    <3>. QED BY <3>3 DEF API!Next
  <2>. QED BY <2>3, <2>4, <2>5
<1>6. CASE phase \in {"opening", "reading"} /\ ReadStep
  <2>1. /\ UNCHANGED <<failed, lastResult, emitted, algorithms>>
        /\ phase' \in {phase, "panicked"}
    BY <1>6, ReadStepFrame
  <2>2. phase' # phase => phase = "reading"
    BY <1>6, PanicOnlyWhenOpen
  <2>. QED BY <1>6, <2>1, <2>2 DEF ApiOutcome, API!vars
<1>7. CASE Terminated \/ UNCHANGED vars
  BY <1>7 DEF Terminated, vars, ApiOutcome, API!vars, logVars
<1>. QED BY <1>1, <1>2, <1>3, <1>4, <1>5, <1>6, <1>7 DEF Next

\* The Log keeps the promise LogApi states (spec sections 3, 4.4 and 7):
\* newLogFromReader fails or fixes the log's algorithms (log.go lines
\* 251-301); each nextEventInternal returns the next event with its per-PCR
\* index and exactly the log's digests (lines 316-330), or ends the log
\* with io.EOF or an error, and that answer is final (lines 305-315): for
\* every registry and every source, the reader implements LogApi.
THEOREM LogImplementsApi == LogSpec => ApiRefined
<1>1. LogSpec => []TypeOK
  BY TypeCorrect
<1>2. LogSpec => []StickyInv
  BY InitStickyInv, StickyInvStep, PTL DEF LogSpec
<1>3. LogSpec => []EofInv
  <2>1. TypeOK /\ EofInv /\ [Next]_vars => EofInv'
    BY EofInvStep
  <2>. QED BY <1>1, <2>1, InitEofInv, PTL DEF LogSpec
<1>4. LogSpec => []OpenInv
  BY InitOpenInv, OpenInvStep, PTL DEF LogSpec
<1>5. LogSpec => []DigestInv
  <2>1. TypeOK /\ DigestInv /\ [Next]_vars => DigestInv'
    BY DigestInvStep
  <2>. QED BY <1>1, <2>1, InitDigestInv, PTL DEF LogSpec
<1>6. LogSpec => []ApiInv
  BY <1>1, <1>2, <1>3, <1>4, <1>5, IndicesCorrect, DigestsMatchAlgorithms, PTL DEF ApiInv
<1>7. Init => API!Init
  BY DEF Init, InitLog, ApiOutcome, API!Init
<1>8. ApiInv /\ ApiInv' /\ [Next]_vars => [API!Next]_API!vars
  BY ApiStep
<1>. QED BY <1>6, <1>7, <1>8, PTL DEF LogSpec, ApiRefined, API!Spec

=============================================================================
