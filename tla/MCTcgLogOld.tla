----------------------------- MODULE MCTcgLogOld -----------------------------
(***************************************************************************)
(* TLC instance of the older reader of src/unnamed/part_000, run on the   *)
(* inputs of MCTcgLog and judged by its properties and by the abstract    *)
(* specification EventLog.                                                *)
(***************************************************************************)
EXTENDS MCTcgLog, TcgLogOld

MCOldNext == NextOld /\ UNCHANGED input
MCOldSpec == MCInitFrom(MCInputs) /\ [][MCOldNext]_<<vars, input>>
\* The consumer calls NextEvent until it returns io.EOF or an error, as for
\* the current reader.
MCOldFairSpec ==
  MCInitFrom(MCLiveInputs) /\ [][MCOldNext]_<<vars, input>> /\ WF_<<vars, input>>(MCOldNext)
MCOldDivergentSpec ==
  MCInitFrom(UNION {Verdicts(b, {Full(b)}) : b \in DivergentInputs}) /\ [][MCOldNext]_<<vars, input>>

=============================================================================
