------------------------------- MODULE Runner -------------------------------
(***************************************************************************)
(* src/gkrtos/tasking/runner.c: what executes in a task.  A task that was  *)
(* created with run_frequency 0 calls its function once; with a frequency  *)
(* f the function is called every SECOND / f and the task sleeps in        *)
(* between.  The function itself may make any system call.  Kernel.tla     *)
(* serves the calls and Accounting.tla charges the time.  Functions of      *)
(* frequency 0 do not return here: the die that follows is SyscallDie.     *)
(***************************************************************************)
EXTENDS Accounting

CONSTANTS
  SECOND,       \* 1000000 microseconds, in clock units
  FREQUENCIES   \* the values programs give to run_frequency

ASSUME RunnerAssumption == SECOND \in Nat /\ FREQUENCIES \subseteq Nat

VARIABLES
  frequency,   \* run_frequency of every task
  at,          \* where every task is in gkrtos_internal_task_runner
  nextRun      \* its local variable next_run, 0 before it has a value

runnerVars == <<frequency, at, nextRun>>
systemVars == <<vars, runTicks, runnerVars>>

Places == {"entry", "function", "sleep", "woken"}

RunnerInit ==
  /\ AccountingInit
  /\ frequency = [p \in Pids |-> 0] /\ nextRun = [p \in Pids |-> 0]
  /\ at = [p \in Pids |-> "entry"]

\* The integer division truncates, and is 0 for more than SECOND a second.
Interval(p) == SECOND \div frequency[p]

\* The running task executes its own instructions and stays where it is in the
\* kernel's eyes.
TaskAt(place) ==
  TaskRuns /\ running # SpinPid /\ at[running] = place
Local == UNCHANGED <<vars, runTicks, frequency>>
GoTo(place) == at' = [at EXCEPT ![running] = place]

\* delayed_by_us(next_run, 1000000 / run_frequency)
Postpone(base) == nextRun' = [nextRun EXCEPT ![running] = base + Interval(running)]

\* The runner is entered when the task first runs.  A one-shot function is called
\* at once; its return, which dies, is left to Kernel.tla.
EnterOnce ==
  /\ TaskAt("entry") /\ frequency[running] = 0
  /\ GoTo("function") /\ Local /\ UNCHANGED nextRun

\* A periodic function is called with its next run an interval from now.
EnterPeriodic ==
  /\ TaskAt("entry") /\ frequency[running] # 0
  /\ GoTo("function") /\ Local /\ Postpone(now)

\* Seeded fault: the comparison of the clock with next_run is the other way.
FunctionReturnsTooLateSleeps ==
  /\ TaskAt("function") /\ frequency[running] # 0 /\ Local
  /\ \/ now >= nextRun[running] /\ GoTo("sleep") /\ UNCHANGED nextRun
     \/ now < nextRun[running] /\ Postpone(nextRun[running]) /\ UNCHANGED at

\* The periodic function returns.  The task sleeps if next_run is not over yet
\* and calls the function again at once if it is.
FunctionReturns ==
  /\ TaskAt("function") /\ frequency[running] # 0 /\ Local
  /\ \/ now <= nextRun[running] /\ GoTo("sleep") /\ UNCHANGED nextRun
     \/ now > nextRun[running] /\ Postpone(nextRun[running]) /\ UNCHANGED at

\* The system call of the sleep, and what follows when it returns.
Sleep ==
  /\ TaskAt("sleep") /\ SyscallSleepUntil(nextRun[running])
  /\ GoTo("woken") /\ UNCHANGED <<nextRun, frequency>> /\ AccountingStep

Woken ==
  /\ TaskAt("woken") /\ GoTo("function") /\ Local
  /\ Postpone(nextRun[running])

\* A task is created with some frequency ...
Create ==
  /\ MainCreatesTask \/ (TaskAt("function") /\ SyscallCreateTask)
  /\ \E f \in FREQUENCIES : frequency' = [frequency EXCEPT ![nextPid] = f]
  /\ UNCHANGED <<at, nextRun>> /\ AccountingStep

\* ... and its function makes the other system calls, die excepted.
FunctionCalls ==
  /\ TaskAt("function")
  /\ SyscallYield \/ \E t \in SLEEP_TIMES : SyscallSleepUntil(t)
  /\ UNCHANGED runnerVars /\ AccountingStep

\* The spin task, the core and the clock.
SpinYields == running = SpinPid /\ SyscallYield
CoreRuns ==
  /\ \/ Start \/ Advance \/ SpinYields \/ SyscallEscalates
     \/ SysTick \/ PendSVEntry \/ PendSVSwitch \/ PendSVReturn
  /\ UNCHANGED runnerVars /\ AccountingStep

RunnerNext ==
  \/ EnterOnce \/ EnterPeriodic \/ FunctionReturns \/ Sleep \/ Woken
  \/ Create \/ FunctionCalls \/ CoreRuns

RunnerSpec == RunnerInit /\ [][RunnerNext]_systemVars

-----------------------------------------------------------------------------

\* A periodic task is never more than one SysTick period ahead of its schedule:
\* its function is called for the k-th time no earlier than that before k
\* intervals have passed, however often it was late and caught up, and whatever
\* its function and the other tasks call.
NeverAhead ==
  \A p \in Created : at[p] = "function" /\ frequency[p] # 0 =>
    nextRun[p] < now + PERIOD + Interval(p)
=============================================================================
