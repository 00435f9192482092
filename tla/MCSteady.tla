------------------------------ MODULE MCSteady ------------------------------
(***************************************************************************)
(* Instances of the scheduler that runs for ever.  A time OFFSET + d is d  *)
(* units ahead of the clock at the moment of the call.                     *)
(***************************************************************************)
EXTENDS Steady

\* No time at all, a time that is over or due when the call is made, and times
\* one or two ticks ahead.
MixedTimes == {NilTime, OFFSET - 1, OFFSET + 1, OFFSET + 3, OFFSET + 4}

\* Times a whole period ahead at least.
FarTimes == {OFFSET + PERIOD, OFFSET + 3}

AllTimes == MixedTimes \union FarTimes

\* A time that is due before the next tick.
DueTimes == {OFFSET + 1}

\* The first task sleeps to one set of times, the second to another, the rest
\* only compute, yield and create tasks.
Pair(first, second) ==
  [p \in Pids |-> CASE p = 2 -> first [] p = 3 -> second [] OTHER -> {}]

PairsOfSleepers ==
  {Pair(first, second) : first, second \in {{}, FarTimes, MixedTimes}}

DueSleeper == {Pair(DueTimes, {})}

NoTasks == {}
=============================================================================
