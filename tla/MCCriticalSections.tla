-------------------------- MODULE MCCriticalSections --------------------------
(***************************************************************************)
(* Instances of the handlers' critical sections for TLC.                   *)
(***************************************************************************)
EXTENDS CriticalSections

\* As in MCKernel: nil_time, a time that may be over or due when the call is
\* made, two different times, and the end of the modelled time.
MixedTimes == {NilTime, 3, 4, MAX_TIME}
LaterTimes == MixedTimes \ {NilTime}

AllTasks == 1 .. MAX_TASKS - 1
UserTasks == AllTasks \ {SpinPid}
NoTasks == {}
=============================================================================
