------------------------------- MODULE LogApi -------------------------------
(***************************************************************************)
(* What a Log promises the code that calls it (spec sections 3, 4.4 and   *)
(* 7), whatever bytes it reads: opening either fails or fixes the log's   *)
(* algorithms among the known ones; then each NextEvent returns the next  *)
(* event, numbered within its PCR and carrying a digest for exactly the   *)
(* log's algorithms (the first event also for SHA-1, which a PC Client   *)
(* record always carries), until the log ends with io.EOF or an error.   *)
(* That answer is final: every later call gives it again.                 *)
(***************************************************************************)
EXTENDS Naturals, Sequences, FiniteSets

CONSTANTS
  Algorithms,  \* the algorithms the registry knows
  Sha1,        \* SHA-1
  PCRs         \* the PCR indices an event may name

VARIABLES
  opened,      \* the log was opened successfully
  algs,        \* the log's algorithms, fixed when it was opened
  returned,    \* the events returned so far, in order
  outcome      \* "none" while events may come, then "eof" or "error"

vars == <<opened, algs, returned, outcome>>

Init ==
  /\ opened = FALSE
  /\ algs = {}
  /\ returned = <<>>
  /\ outcome = "none"

\* Opening succeeds and fixes the log's algorithms.
Open ==
  /\ ~opened /\ outcome = "none"
  /\ opened' = TRUE
  /\ algs' \subseteq Algorithms
  /\ UNCHANGED <<returned, outcome>>

\* Opening fails; the error is the log's only answer.
OpenFail ==
  /\ ~opened /\ outcome = "none"
  /\ outcome' = "error"
  /\ UNCHANGED <<opened, algs, returned>>

\* The number of events of PCR p returned so far.
EarlierOfPCR(p) == Cardinality({j \in 1..Len(returned) : returned[j].pcrIndex = p})

\* NextEvent returns the next event, the one now last in returned'.
Return ==
  LET e == returned'[Len(returned) + 1] IN
  /\ opened /\ outcome = "none"
  /\ Len(returned') = Len(returned) + 1
  /\ returned' = Append(returned, e)
  /\ e.pcrIndex \in PCRs
  /\ e.index = EarlierOfPCR(e.pcrIndex)
  /\ DOMAIN e.digests = algs \cup (IF returned = <<>> THEN {Sha1} ELSE {})
  /\ UNCHANGED <<opened, algs, outcome>>

\* NextEvent reports the end of the log, cleanly or with an error.
End ==
  /\ opened /\ outcome = "none"
  /\ outcome' \in {"eof", "error"}
  /\ UNCHANGED <<opened, algs, returned>>

Next == Open \/ OpenFail \/ Return \/ End

Spec == Init /\ [][Next]_vars

=============================================================================
