------------------------------ MODULE MCKernel ------------------------------
(***************************************************************************)
(* Instances of the scheduler for TLC.  Pid 1 is the spin task, so a       *)
(* MAX_TASKS of 4 gives two tasks of the program and 5 gives three.        *)
(***************************************************************************)
EXTENDS KernelProps

\* nil_time, a time that may already be over or due when the call is made,
\* two different times, and the end of the modelled time.
MixedTimes == {NilTime, 3, 4, MAX_TIME}

\* The same without nil_time: tasks that really sleep.
LaterTimes == MixedTimes \ {NilTime}

AllTasks == 1 .. MAX_TASKS - 1
UserTasks == AllTasks \ {SpinPid}
NoTasks == {}
=============================================================================
