------------------------------ MODULE MCRunner ------------------------------
(***************************************************************************)
(* Instances of the runner for TLC.  A SECOND of 10 and frequencies 3 and  *)
(* 12 give an interval of three units, truncated, and one of none at all.  *)
(***************************************************************************)
EXTENDS Runner

\* What one-shot and periodic functions themselves may sleep to.
MixedTimes == {NilTime, 3, 4}
NoTasks == {}
=============================================================================
