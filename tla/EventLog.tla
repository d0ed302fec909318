------------------------------ MODULE EventLog ------------------------------
(***************************************************************************)
(* What a TCG event-log reader promises the code that consumes it, with   *)
(* the byte layout, the formats and the per-field reads abstracted away.   *)
(* A log is the sequence of events of its well-formed prefix, and whether *)
(* the log ends cleanly after it: at a record boundary, with no defective  *)
(* record and at least one record.  Each call of NextEvent returns the    *)
(* next event; once all have been returned the reader reports io.EOF for  *)
(* a clean log and an error otherwise, and nothing changes after that.    *)
(* A failed open is the error reported before any event.                  *)
(***************************************************************************)
EXTENDS Naturals, Sequences

CONSTANT Logs   \* the logs: records [events |-> <<...>>, clean |-> BOOLEAN]

VARIABLES
  log,       \* the log being read (never changes)
  returned,  \* the events returned so far, in order
  outcome    \* "none" while events remain, then "eof" or "error"

vars == <<log, returned, outcome>>

Init ==
  /\ log \in Logs
  /\ returned = <<>>
  /\ outcome = "none"

\* A call of NextEvent returns the next event of the log.
Return ==
  /\ outcome = "none"
  /\ Len(returned) < Len(log.events)
  /\ returned' = Append(returned, log.events[Len(returned) + 1])
  /\ UNCHANGED <<log, outcome>>

\* With every event returned, the reader reports the end of the log.
End ==
  /\ outcome = "none"
  /\ Len(returned) = Len(log.events)
  /\ outcome' = IF log.clean THEN "eof" ELSE "error"
  /\ UNCHANGED <<log, returned>>

Next == Return \/ End

Spec == Init /\ [][Next]_vars

\* A consumer that keeps calling NextEvent until it gets io.EOF or an error
\* receives every event of the log and then the end.
FairSpec == Spec /\ WF_vars(Next)

=============================================================================
