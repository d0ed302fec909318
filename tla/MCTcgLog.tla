------------------------------ MODULE MCTcgLog ------------------------------
(***************************************************************************)
(* Model checking the log reader against the reference of TcgLogFormat.   *)
(* The input (records, format, truncation) is chosen in the initial state  *)
(* and kept in the variable input as its encoding (the source) and the     *)
(* reference's verdict on it.                                              *)
(***************************************************************************)
EXTENDS TcgLogFormat, TLC

VARIABLE input

\* The registry with digest lengths scaled to words: SHA-1 2, SHA-256 3.
MCKnownAlgorithms == (AlgorithmSha1 :> 2) @@ (AlgorithmSha256 :> 3)

\* TPM_ALG_SM3_256, an algorithm the registry does not know; a log may
\* advertise it with its own digest size (1 word here).
AlgorithmSm3 == 18
\* An algorithm id no Spec ID event advertises.
AlgorithmBogus == 99

MCPCRs == {0, 1}
BadPCR == 32
MaxRest == 2     \* records after the first one

\* Advertised (algorithm, size) lists of the crypto-agile inputs.
ListSha1      == << <<AlgorithmSha1, 2>> >>
ListSha1Sha256 == << <<AlgorithmSha1, 2>>, <<AlgorithmSha256, 3>> >>
ListSha1Sm3   == << <<AlgorithmSha1, 2>>, <<AlgorithmSm3, 1>> >>
ListSm3First  == << <<AlgorithmSm3, 1>>, <<AlgorithmSha1, 2>> >>
ListSha256    == << <<AlgorithmSha256, 3>> >>

Uniform(n, w) == [i \in 1..n |-> w]
DigestList(sizes, w) == [j \in DOMAIN sizes |-> <<sizes[j][1], Uniform(sizes[j][2], w)>>]
Rev(s) == [j \in DOMAIN s |-> s[Len(s) + 1 - j]]

\* Event kinds of the later records: their type, digest word and payload.
Kinds == {[type |-> EventTypeSeparator, w |-> ErrorValueHashWord, payload |-> [kind |-> "separator"]],
          [type |-> EventTypeSeparator, w |-> 9, payload |-> [kind |-> "separator"]],
          [type |-> EventTypeAction,    w |-> 9, payload |-> [kind |-> "action"]]}

RestRecords(sizes) ==
  UNION {{[pcr |-> p, type |-> k.type, payload |-> k.payload, digests |-> d] :
            d \in {DigestList(sizes, k.w), Rev(DigestList(sizes, k.w))}} : p \in MCPCRs, k \in Kinds}

SpecId03(sizes, kind) ==
  [pcr |-> 0, type |-> EventTypeNoAction, digests |-> DigestList(ListSha1, 0),
   payload |-> [kind |-> kind, sizes |-> sizes]]

\* Well-formed bodies: (first record, later records, crypto-agile?).
Bodies ==
  UNION {{[recs |-> <<SpecId03(l, "specid03")>> \o rest, efi2 |-> TRUE, cut |-> 0] :
            rest \in [1..MaxRest -> RestRecords(l)]} : l \in {ListSha1, ListSha1Sha256, ListSha1Sm3, ListSha256}}
  \cup
  {[recs |-> <<first>> \o rest, efi2 |-> FALSE, cut |-> 0] :
     first \in {[pcr |-> 0, type |-> EventTypeNoAction, digests |-> DigestList(ListSha1, 0),
                 payload |-> [kind |-> "specid00"]],
                [pcr |-> 0, type |-> EventTypeAction, digests |-> DigestList(ListSha1, 9),
                 payload |-> [kind |-> "action"]]},
     rest \in [1..MaxRest -> RestRecords(ListSha1)]}

Full(b) == Boundary(b, Len(b.recs))

\* Defects of one later record of a full-length log.
Corrupt(r, efi2) ==
  {[r EXCEPT !.pcr = BadPCR]}
  \cup IF efi2
       THEN {[r EXCEPT !.digests = @ \o <<@[1]>>],
             [r EXCEPT !.digests = SubSeq(@, 1, Len(@) - 1)],
             [r EXCEPT !.digests = << <<AlgorithmBogus, <<0>> >> >> \o @]}
       ELSE {}

\* A Spec ID event missing its last field.
SpecIdBroken == [recs |-> <<SpecId03(ListSha1Sha256, "specid03broken")>>, efi2 |-> TRUE, cut |-> 1000]

\* A Spec ID event listing SM3, an algorithm outside the registry, first.
Sm3FirstLog ==
  [recs |-> <<SpecId03(ListSm3First, "specid03")>> \o
            << [pcr |-> 0, type |-> EventTypeSeparator, payload |-> [kind |-> "separator"],
                digests |-> DigestList(ListSm3First, 9)] >>,
   efi2 |-> TRUE, cut |-> 1000]

\* The bodies with one later record corrupted, and two more defective logs:
\* a broken Spec ID event, and a first algorithm outside the registry.
CorruptBodies ==
  UNION {{[b EXCEPT !.recs = [@ EXCEPT ![k] = r], !.cut = 1000] : r \in Corrupt(b.recs[k], b.efi2)} :
           b \in Bodies, k \in 2..(MaxRest + 1)}
  \cup {SpecIdBroken, Sm3FirstLog}

\* The inputs made of body b cut after each of the given numbers of words,
\* each kept as its source and the reference's verdict on it: its record
\* boundaries, the records wholly present, the good prefix and the events.
\* Boundaries, well-formedness and expected events do not depend on the cut,
\* so they are computed once on the whole body: Present of a cut input is the
\* last boundary within the cut, and its GoodPrefix is the smaller of that
\* and the whole body's GoodPrefix.
Verdicts(b, cuts) ==
  LET n == Len(b.recs)
      whole == [b EXCEPT !.cut = Full(b)]
      enc == SourceOf(whole)
      bounds == [k \in 0..n |-> Boundary(whole, k)]
      goodAll == GoodPrefix(whole)
      events == [k \in 1..goodAll |-> ExpectedEvent(whole, k)]
      PresentAt(c) == CHOOSE k \in 0..n : bounds[k] <= c /\ (k < n => bounds[k + 1] > c)
      Verdict(c) ==
        LET present == PresentAt(c)
            good == IF present < goodAll THEN present ELSE goodAll
        IN [source |-> SubSeq(enc, 1, c), bounds |-> bounds, present |-> present,
            good |-> good, expected |-> [k \in 1..good |-> events[k]]]
  IN {Verdict(c) : c \in cuts}

MCInputs ==
  UNION {Verdicts(b, 0..Full(b)) : b \in Bodies}
  \cup UNION {Verdicts(b, {Full(b)}) : b \in CorruptBodies}
MCSources == {i.source : i \in MCInputs}

\* The inputs without the SM3-first log.  On it stream_2 calls hashSum with
\* SM3, which the registry does not know; hashSum is not in the tree, so the
\* reader may panic or classify the separator either way there.
MCLiveInputs ==
  UNION {Verdicts(b, 0..Full(b)) : b \in Bodies}
  \cup UNION {Verdicts(b, {Full(b)}) : b \in CorruptBodies \ {Sm3FirstLog}}

\* Two crypto-agile logs on which the code and the spec part: a separator
\* whose SHA-256 digest (the second advertised bank) is the error value's
\* hash and whose SHA-1 digest is not, and a Spec ID event advertising a
\* SHA-256 digest size shorter than the registry's.
ListSha1Sha256Short == << <<AlgorithmSha1, 2>>, <<AlgorithmSha256, 2>> >>
DivergentInputs ==
  {[recs |-> <<SpecId03(ListSha1Sha256, "specid03"),
               [pcr |-> 0, type |-> EventTypeSeparator, payload |-> [kind |-> "separator"],
                digests |-> << <<AlgorithmSha1, Uniform(2, 9)>>,
                               <<AlgorithmSha256, Uniform(3, ErrorValueHashWord)>> >>]>>,
    efi2 |-> TRUE, cut |-> 1000],
   [recs |-> <<SpecId03(ListSha1Sha256Short, "specid03")>> \o
             << [pcr |-> 0, type |-> EventTypeAction, payload |-> [kind |-> "action"],
                 digests |-> DigestList(ListSha1Sha256Short, 9)] >>,
    efi2 |-> TRUE, cut |-> 1000]}

MCInitFrom(inputs) == input \in inputs /\ src = input.source /\ InitLog
MCNext == Next /\ UNCHANGED input
MCSpec == MCInitFrom(MCInputs) /\ [][MCNext]_<<vars, input>>
\* The same without the SM3-first log, for the comparisons with the reference.
MCKnownHashSpec == MCInitFrom(MCLiveInputs) /\ [][MCNext]_<<vars, input>>
\* The consumer (ParseAndValidateLog) calls NextEvent until it returns
\* io.EOF or an error, and a running call is never abandoned: every step
\* the program can take is eventually taken.
MCFairSpec == MCInitFrom(MCLiveInputs) /\ [][MCNext]_<<vars, input>> /\ WF_<<vars, input>>(MCNext)
MCDivergentSpec == MCInitFrom(UNION {Verdicts(b, {Full(b)}) : b \in DivergentInputs}) /\ [][MCNext]_<<vars, input>>

-----------------------------------------------------------------------------
(* Properties.                                                             *)

\* Round trip: every event NextEvent returns is, in order, the event the
\* spec defines for the next record of the log (per-PCR index, digests of
\* the registry's algorithms, Spec ID back-fill, separator classification),
\* and no event is returned for a record past the first defective or
\* truncated one (log.go readNextEvent, nextEventInternal, newLogFromReader).
EventsFaithful ==
  /\ Len(emitted) <= input.good
  /\ \A k \in 1..Len(emitted) : emitted[k] = input.expected[k]

\* A clean end of log (io.EOF from NextEvent) is reported only when every
\* record was returned and the source ends exactly at a record boundary:
\* a log truncated inside a record never looks complete (wrapLogReadError's
\* partial flag, log.go lines 49-58).
EndOfLogOnlyAtEnd ==
  lastResult = "eof" =>
    /\ Len(emitted) = input.good
    /\ input.good = input.present
    /\ Len(src) = input.bounds[input.present]

\* An error from NextEvent or from opening the log is reported only for a
\* log that is empty or has a defective or truncated record, and only once
\* every record before that one was returned.
ErrorsOnlyAtDefects ==
  (lastResult \in OpenErrors \ {"eof"}) =>
    /\ Len(emitted) = input.good
    /\ Len(src) > input.bounds[input.good] \/ input.present = 0

\* Spec section 4.2: a separator is an error separator iff its digest in
\* some algorithm present in the event is the hash of the error value
\* (stream_2 only hashes with the first advertised algorithm, log.go 209).
SeparatorClassification ==
  \A k \in 1..Len(emitted) :
    emitted[k].data.kind = "separator" =>
      (emitted[k].data.isError <=>
         \E a \in DOMAIN emitted[k].digests : IsDigestOfSeparatorErrorValue(emitted[k].digests[a], a))

\* Spec section 3: every digest of an event has its algorithm's length
\* (stream_2 reads the length the Spec ID event advertises, log.go 157-171).
DigestLengthsMatchRegistry ==
  \A k \in 1..Len(emitted) :
    \A a \in DOMAIN emitted[k].digests : Len(emitted[k].digests[a]) = KnownAlgorithms[a]

\* The abstract log of an input: the events of its well-formed prefix, and
\* whether it ends cleanly (at a record boundary, with no defective record
\* and at least one record).
AbstractLogOf(i) ==
  [events |-> i.expected,
   clean |-> i.present > 0 /\ i.good = i.present /\ Len(i.source) = i.bounds[i.present]]
MCLogs == {AbstractLogOf(i) : i \in MCLiveInputs}

\* What the last call told the consumer: nothing final yet, io.EOF, or an
\* error (of the open, of a read, or the refusal of a failed log).
Outcome ==
  CASE lastResult = "eof" -> "eof"
    [] lastResult \in (OpenErrors \ {"eof"}) \cup {"inconsistent"} -> "error"
    [] OTHER -> "none"

EL == INSTANCE EventLog WITH Logs <- MCLogs, log <- AbstractLogOf(input),
                             returned <- emitted, outcome <- Outcome

\* The reader implements the event-log abstraction under fair scheduling:
\* the events returned (log.go nextEventInternal) are the log's, in order,
\* the end is io.EOF exactly for a clean log, nothing follows the end, and
\* a consumer that keeps calling NextEvent gets every event and the end.
EventLogRefined == EL!FairSpec

=============================================================================
