------------------------------ MODULE Lifecycle ------------------------------
(***************************************************************************)
(* What the scheduler promises its tasks, without queues, interrupts or    *)
(* handlers: a task is born once, alternates between ready and asleep by   *)
(* its own calls and by its alarm, dies by its own call and stays dead;    *)
(* only ready tasks get the core.  Kernel.tla is checked against it.       *)
(***************************************************************************)
EXTENDS Naturals

CONSTANTS
  Tasks,    \* every task there may be
  Nobody,   \* what has the core before tasking starts
  Times,    \* the times that tasks sleep to
  Horizon   \* how long before its time a sleeper may be woken

VARIABLES
  phase,    \* of every task: "unborn", "ready", "asleep" or "dead"
  alarm,    \* the time of every sleeping task, 0 for the others
  core,     \* the task that has the core
  clock

vars == <<phase, alarm, core, clock>>

Init ==
  /\ phase \in [Tasks -> {"unborn", "ready"}] /\ alarm = [t \in Tasks |-> 0]
  /\ core = Nobody /\ clock \in Nat

\* After what a call does to its caller, it may wake one sleeper that is due.
WakeOne(ph, al) ==
  \/ phase' = ph /\ alarm' = al
  \/ \E t \in Tasks :
       /\ ph[t] = "asleep" /\ al[t] < clock + Horizon
       /\ phase' = [ph EXCEPT ![t] = "ready"]
       /\ alarm' = [al EXCEPT ![t] = 0]

\* yield, and SysTick
Reschedule == WakeOne(phase, alarm) /\ UNCHANGED <<core, clock>>

\* Only the task that has the core can go to sleep or die.
Sleep(t, at) ==
  /\ core = t /\ phase[t] = "ready"
  /\ WakeOne([phase EXCEPT ![t] = "asleep"], [alarm EXCEPT ![t] = at])
  /\ UNCHANGED <<core, clock>>

Die(t) ==
  /\ core = t /\ phase[t] = "ready"
  /\ WakeOne([phase EXCEPT ![t] = "dead"], alarm)
  /\ UNCHANGED <<core, clock>>

Create(t) ==
  /\ phase[t] = "unborn" /\ phase' = [phase EXCEPT ![t] = "ready"]
  /\ UNCHANGED <<alarm, core, clock>>

Dispatch(t) ==
  /\ phase[t] = "ready" /\ core' = t
  /\ UNCHANGED <<phase, alarm, clock>>

Pass == clock' = clock + 1 /\ UNCHANGED <<phase, alarm, core>>

Next ==
  \/ Reschedule \/ Pass
  \/ \E t \in Tasks : Die(t) \/ Create(t) \/ Dispatch(t)
  \/ \E t \in Tasks, at \in Times : Sleep(t, at)

Spec == Init /\ [][Next]_vars
=============================================================================
