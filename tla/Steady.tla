------------------------------- MODULE Steady -------------------------------
(***************************************************************************)
(* The scheduler of Kernel.tla running for ever.  The code looks at times   *)
(* only to compare them with each other and with the clock, so the clock   *)
(* may stand still, at OFFSET, while every stored time moves into the past *)
(* instead.  All handlers are Kernel's; only the passing of time is new.   *)
(* It is finite because time since a switch matters only up to SLICE and   *)
(* sleepers are never late without bound (LatenessBounded).  Time passes,  *)
(* and ticks fall, wherever the core is, in the handlers too.              *)
(***************************************************************************)
EXTENDS KernelProps

CONSTANTS
  PROGRAMS, \* what the tasks may ask for: the times each gives to sleep_until
  OFFSET,   \* the fixed value of the clock
  LATENCY,  \* how long a SysTick may stay pending while interrupts are enabled:
            \* the longest system call
  LATE      \* how long after its time a sleeper may still be asleep

ASSUME SteadyAssumption == /\ PROGRAMS \subseteq [Pids -> SUBSET SLEEP_TIMES]
                           /\ OFFSET \in Nat /\ LATE \in Nat
                           /\ LATE < OFFSET /\ SLICE < OFFSET
                           /\ LATENCY \in Nat /\ LATENCY < PERIOD

VARIABLES
  phase,    \* time_us_64() modulo the period of SysTick
  program   \* the member of PROGRAMS that the tasks follow

steadyVars == <<vars, phase, program>>

SteadyInit == now = OFFSET /\ phase = 0 /\ program \in PROGRAMS /\ BootState

\* A stored time, one unit later.  Nothing older than floor is told apart.
Older(t, floor) == IF t > floor THEN t - 1 ELSE t

\* Time passes; SysTick becomes pending at every period.  It is taken before
\* LATENCY is over, or never again if interrupts are disabled for good.
Pass ==
  /\ cpu \in {"thread", "pendsv_entry", "pendsv_exit"}
  /\ systick /\ ~primask => phase < LATENCY
  /\ phase' = (phase + 1) % PERIOD
  /\ systick' = (systick \/ phase' = 0)
  /\ queues' = [queues EXCEPT !.wake = [p \in Pids |-> Older(@[p], NilTime + 1)]]
  /\ switchedAt' = Older(switchedAt, OFFSET - SLICE - 1)
  /\ UNCHANGED <<now, nextPid, status, running, queued, pendsv, primask, cpu,
                 program>>

\* What programs do here: their tasks never end and none kills another.
TaskStep ==
  /\ \/ MainCreatesTask \/ SyscallYield \/ SyscallCreateTask \/ SyscallEscalates
     \/ \E t \in SLEEP_TIMES :
          UserTraps /\ t \in program[running] /\ SyscallSleepUntil(t)
  /\ UNCHANGED <<phase, program>>

\* What the core does by itself.
CoreStep ==
  /\ Start \/ SysTick \/ PendSVEntry \/ PendSVSwitch \/ PendSVReturn
  /\ UNCHANGED <<phase, program>>

SteadyNext == Pass \/ TaskStep \/ CoreStep

SteadySpec == SteadyInit /\ [][SteadyNext]_steadyVars

\* What the hardware guarantees: handlers are taken and finish, and the clock
\* goes on, although it stands still while a SysTick has been pending for
\* LATENCY.  main calls gkrtos_start.  The tasks guarantee nothing: one may keep
\* the core or make system calls for ever, and the spin task need not yield.
Fairness == SF_steadyVars(Pass) /\ WF_steadyVars(CoreStep)

FairSpec == SteadySpec /\ Fairness

-----------------------------------------------------------------------------
(* Properties                                                              *)

\* While interrupts are enabled no sleeper is late by more than LATE, so no time
\* is rounded that is looked at again: with interrupts disabled no task can make
\* a call and no SysTick is taken.
LatenessBounded == primask \/ \A p \in Sleeping : queues.wake[p] + LATE >= now

\* A SysTick falls between the selection of a task and the switch to it.
TickOnTheWay == systick /\ (pendsv \/ cpu # "thread")

\* Every task of the program, ready or asleep, executes again and again, even if
\* no SysTick ever falls between a selection and its switch.
NobodyStarves ==
  []~TickOnTheWay =>
    \A p \in Pids \ {SpinPid} : p \in Created ~> (TaskRuns /\ running = p)

\* ... and it does, whatever the others do and whether or not they ever give
\* the core away, if no more than one OTHER task sleeps, and that one never to
\* a time that is due at the next tick, and if there are no ticks without end
\* that each find a switch on its way (they may pass over a task every time).
Sleepers(p) == {q \in Pids \ {p} : program[q] # {}}
FarSleeper(q) == \A t \in program[q] : t >= now + PERIOD
StarvesOnlyBySleepers ==
  <>[]~TickOnTheWay =>
    \A p \in Pids \ {SpinPid} :
      /\ p \in Created
      /\ Cardinality(Sleepers(p)) <= 1 /\ (\A q \in Sleepers(p) : FarSleeper(q))
      ~> primask \/ (TaskRuns /\ running = p)
=============================================================================
