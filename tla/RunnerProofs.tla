---------------------------- MODULE RunnerProofs ----------------------------
(***************************************************************************)
(* Proofs about Runner.tla: the runner is a program of Kernel.tla, and its *)
(* periodic tasks do not run ahead of the clock.  What the runner needs to *)
(* know of the scheduler is taken from Lifecycle.tla, which the scheduler  *)
(* implements.                                                             *)
(***************************************************************************)
EXTENDS Runner, LifecycleProofs, FiniteSetTheorems

\* The invariant of the scheduler, for tasks that never end.
KernelInv == FullInv /\ MarkInv /\ UnbornHaveNoTime

\* A task that is not created has not entered the runner, and only a periodic
\* one gets beyond its function.
RunnerTypes ==
  /\ frequency \in [Pids -> Nat] /\ nextRun \in [Pids -> Nat]
  /\ at \in [Pids -> Places]
  /\ \A p \in Pids \ Created : at[p] = "entry"
  /\ \A p \in Pids : at[p] \in {"sleep", "woken"} => frequency[p] # 0

\* NeverAhead alone is not inductive: a task that is about to call its function
\* again sleeps, and next_run is its alarm, or the alarm has gone off.
Schedule ==
  \A p \in Pids :
    /\ at[p] = "function" /\ frequency[p] # 0 =>
         nextRun[p] < now + PERIOD + Interval(p)
    /\ at[p] = "woken" => \/ nextRun[p] = queues.wake[p]
                          \/ nextRun[p] < now + PERIOD
                          \/ cpu \in Faults

RunnerInv == KernelInv /\ RunnerTypes /\ Schedule

LEMMA IntervalFacts ==
  ASSUME RunnerTypes, NEW p \in Pids, frequency[p] # 0
  PROVE  Interval(p) \in Nat
<1> DEFINE f == frequency[p]
<1>1. f \in Nat /\ f # 0
  BY DEF RunnerTypes
<1> HIDE DEF f
<1>2. SECOND \div f \in Nat
  BY <1>1, RunnerAssumption
<1> QED BY <1>2 DEF Interval, f

LEMMA InitKernelInv == Init => KernelInv
<1> SUFFICES ASSUME Init PROVE KernelInv
  OBVIOUS
<1>1. UnbornHaveNoTime
  BY DEF Init, BootState, UnbornHaveNoTime, NilTime
<1> QED BY <1>1, InitIInv, BootTaskInv, BootMarkInv DEF Init, KernelInv, FullInv

LEMMA NextKernelInv ==
  ASSUME KILLABLE = {}, MORTAL = {}, KernelInv, [Next]_vars
  PROVE  KernelInv'
BY NextIInv, NextTaskInv, NextMarkInv, NextUnborn DEF KernelInv, FullInv

-----------------------------------------------------------------------------
(* What the runner relies on                                               *)

\* The clock does not go back, no task disappears, and a stop is final.
LEMMA KernelGoesOn ==
  ASSUME KernelInv, [Next]_vars
  PROVE  /\ now \in Nat /\ now' \in Nat /\ now <= now' /\ Created \subseteq Created'
         /\ cpu \in Faults => cpu' \in Faults
<1>1. now \in Nat /\ nextPid \in Nat
  BY KernelAssumption DEF KernelInv, FullInv, IInv, TypeOK
<1>2. now' \in {now, now + 1} /\ nextPid' \in {nextPid, nextPid + 1}
  <2>1. CASE CreateTask
    BY <2>1 DEF CreateTask, Fault, taskVars
  <2>2. CASE \E t \in SLEEP_TIMES : SyscallSleepUntil(t)
    BY <2>2 DEF SyscallSleepUntil, Fault, taskVars
  <2>3. CASE SyscallYield \/ SysTick \/ SyscallEscalates
    BY <2>3 DEF SyscallYield, SysTick, SyscallEscalates, Fault, taskVars
  <2>4. CASE SyscallDie \/ \E v \in KILLABLE : SyscallKill(v)
    BY <2>4 DEF SyscallDie, SyscallKill, Kill, Fault, taskVars
  <2>5. CASE \/ Start \/ Advance \/ PendSVEntry \/ PendSVSwitch \/ PendSVReturn
             \/ UNCHANGED vars
    BY <2>5 DEF Start, Advance, PendSVEntry, PendSVSwitch, PendSVReturn,
                ContextSwitch, taskVars, vars
  <2> QED BY <2>1, <2>2, <2>3, <2>4, <2>5 DEF Next, MainCreatesTask, SyscallCreateTask
<1>3. cpu \in Faults => cpu' \in Faults
  <2> SUFFICES ASSUME cpu \in Faults PROVE cpu' \in Faults
    OBVIOUS
  <2>1. cpu \notin {"boot", "thread", "pendsv_entry", "pendsv_exit"} /\ ~TaskRuns
    BY DEF Faults, TaskRuns
  <2>2. UNCHANGED vars
    BY <2>1 DEF Next, MainCreatesTask, Start, Advance, SyscallYield, SyscallDie,
         SyscallCreateTask, SyscallSleepUntil, SyscallKill,
         SyscallEscalates, SysTick, PendSVEntry, PendSVSwitch, PendSVReturn,
         UserTraps, Traps
  <2> QED BY <2>2 DEF vars
<1>4. now' \in Nat /\ now <= now'
  BY <1>1, <1>2
<1>5. Created \subseteq Created'
  <2>1. CASE nextPid' = nextPid
    BY <2>1 DEF Created
  <2>2. CASE nextPid' = nextPid + 1
    <3>1. Created' = 1 .. nextPid
      BY <1>1, <2>2 DEF Created
    <3>2. 1 .. (nextPid - 1) \subseteq 1 .. nextPid
      BY <1>1
    <3> QED BY <3>1, <3>2 DEF Created
  <2> QED BY <1>2, <2>1, <2>2
<1> QED BY <1>1, <1>3, <1>4, <1>5

\* The alarm of a task stays until it goes off.
LEMMA AlarmsKept ==
  ASSUME KILLABLE = {}, KernelInv, [Next]_vars, NEW p \in Pids
  PROVE  queues'.wake[p] = queues.wake[p] \/ queues.wake[p] < now + PERIOD
<1>1. [Promise!Next]_(Promise!vars)
  BY NextIsLifecycle DEF KernelInv
<1>2. queues.wake \in [Pids -> Nat] /\ now \in Nat
  BY QueueParts DEF KernelInv, QueueType
<1>3. ASSUME NEW ph, NEW al, Promise!WakeOne(ph, al), al \in [Pids -> Nat],
             al[p] = queues.wake[p]
      PROVE  queues'.wake[p] = queues.wake[p] \/ queues.wake[p] < now + PERIOD
  <2>1. CASE queues'.wake = al
    BY <1>3, <2>1
  <2>2. ASSUME NEW t \in Pids, al[t] < now + PERIOD,
               queues'.wake = [al EXCEPT ![t] = 0]
        PROVE  queues'.wake[p] = queues.wake[p] \/ queues.wake[p] < now + PERIOD
    BY <1>3, <2>2
  <2> QED BY <1>3, <2>1, <2>2 DEF Promise!WakeOne
<1>4. CASE UNCHANGED queues.wake
  BY <1>4
<1>5. CASE Promise!Reschedule
  BY <1>2, <1>3, <1>5 DEF Promise!Reschedule
<1>6. ASSUME NEW t \in Pids, Promise!Die(t)
      PROVE  queues'.wake[p] = queues.wake[p] \/ queues.wake[p] < now + PERIOD
  BY <1>2, <1>3, <1>6 DEF Promise!Die
<1>7. ASSUME NEW t \in Pids, NEW time \in SLEEP_TIMES, Promise!Sleep(t, time)
      PROVE  queues'.wake[p] = queues.wake[p] \/ queues.wake[p] < now + PERIOD
  <2>1. CASE p # t
    <3> DEFINE al == [queues.wake EXCEPT ![t] = time]
    <3>1. al \in [Pids -> Nat] /\ al[p] = queues.wake[p]
      BY <1>2, <2>1, KernelAssumption
    <3> QED BY <1>3, <1>7, <3>1 DEF Promise!Sleep
  <2>2. CASE p = t
    <3>1. Phase[p] = "ready"
      BY <1>7, <2>2 DEF Promise!Sleep
    <3>2. p \in Created /\ status[p] # "COMPLETE" /\ p \notin Sleeping
      BY <3>1 DEF Phase
    <3>3. p \in Range(queues.unsched)
      BY <3>2 DEF KernelInv, FullInv, TaskInv, LiveTasksQueued, Members, Sleeping
    <3>4. queues.wake[p] = 0
      BY <3>3, QueueParts DEF KernelInv, Consistent, IsScheduled, NilTime
    <3>5. 0 < now + PERIOD
      BY <1>2, PeriodAssumption
    <3> QED BY <3>4, <3>5
  <2> QED BY <2>1, <2>2
<1> QED BY <1>1, <1>4, <1>5, <1>6, <1>7
     DEF Promise!Next, Promise!vars, Promise!Create, Promise!Dispatch, Promise!Pass

\* sleep_until sets the caller's alarm, unless the time is due.
LEMMA SleepSetsAlarm ==
  ASSUME KernelInv, NEW t \in SLEEP_TIMES, SyscallSleepUntil(t)
  PROVE  queues'.wake[running] = t \/ t < now + PERIOD \/ cpu' \in Faults
<1>1. CASE Fault("listfault")
  BY <1>1 DEF Fault, Faults
<1>2. CASE ~Fault("listfault")
  <2>1. PICK fits \in BOOLEAN :
          LET q == QueuesAfterSleep(t, fits) IN
          /\ QueuesOK(q) /\ ~PickFaults(q, now)
          /\ q.wake = [queues.wake EXCEPT ![running] = t]
          /\ queues' = QueuesAfterPick(q, now)
    BY <1>2, SleepParts DEF KernelInv
  <2> DEFINE q == QueuesAfterSleep(t, fits)
  <2> HIDE DEF q
  <2>2. running \in Pids /\ queues.wake \in [Pids -> Nat] /\ now \in Nat
    BY TrapFacts, QueueParts DEF KernelInv, SyscallSleepUntil, UserTraps, QueueType
  <2>3. q.wake[running] = t /\ q.wake \in [Pids -> Nat]
    BY <2>1, <2>2, KernelAssumption DEF q
  <2>4. \/ queues'.wake = q.wake
        \/ \E p \in Range(q.sched) : /\ q.wake[p] < now + PERIOD
                                     /\ queues'.wake = [q.wake EXCEPT ![p] = NilTime]
    BY <2>1, <2>2, PickFacts DEF QueuesOK, q
  <2> QED BY <2>2, <2>3, <2>4
<1> QED BY <1>1, <1>2

-----------------------------------------------------------------------------
(* The runner's steps                                                      *)

\* What the task that executes is.
LEMMA AtFacts ==
  ASSUME KernelInv, TaskRuns
  PROVE  running \in Pids /\ running \in Created /\ now \in Nat
BY RunningParts, QueueParts DEF KernelInv, FullInv, IInv, CorePidsCreated

\* Every step of the composed system is one of the scheduler, or none.
LEMMA RunnerStepIsKernelStep ==
  ASSUME SLEEP_TIMES = Nat, KernelInv, RunnerTypes, [RunnerNext]_systemVars
  PROVE  [Next]_vars
<1>1. CASE EnterOnce \/ EnterPeriodic \/ FunctionReturns \/ Woken
  BY <1>1 DEF EnterOnce, EnterPeriodic, FunctionReturns, Woken, Local
<1>2. CASE Sleep
  <2>1. running \in Pids
    BY <1>2, AtFacts DEF Sleep, TaskAt
  <2>2. nextRun[running] \in SLEEP_TIMES
    BY <2>1 DEF RunnerTypes
  <2> QED BY <1>2, <2>2 DEF Sleep, Next
<1>3. CASE Create
  BY <1>3 DEF Create, Next
<1>4. CASE FunctionCalls
  BY <1>4 DEF FunctionCalls, Next
<1>5. CASE CoreRuns
  BY <1>5 DEF CoreRuns, SpinYields, Next
<1>6. CASE UNCHANGED systemVars
  BY <1>6 DEF systemVars
<1> QED BY <1>1, <1>2, <1>3, <1>4, <1>5, <1>6 DEF RunnerNext

\* A task that does not move keeps its place in the schedule.
LEMMA PlaceKept ==
  ASSUME KILLABLE = {}, RunnerInv, [Next]_vars, NEW p \in Pids,
         at'[p] = at[p], nextRun'[p] = nextRun[p],
         frequency'[p] = frequency[p] \/ at[p] = "entry"
  PROVE  /\ at'[p] = "function" /\ frequency'[p] # 0 =>
              nextRun'[p] < now' + PERIOD + Interval(p)'
         /\ at'[p] = "woken" => \/ nextRun'[p] = queues'.wake[p]
                                \/ nextRun'[p] < now' + PERIOD
                                \/ cpu' \in Faults
<1>1. /\ now \in Nat /\ now' \in Nat /\ now <= now' /\ PERIOD \in Nat
      /\ cpu \in Faults => cpu' \in Faults
  BY KernelGoesOn, PeriodAssumption DEF RunnerInv
<1>2. queues'.wake[p] = queues.wake[p] \/ queues.wake[p] < now + PERIOD
  BY AlarmsKept DEF RunnerInv
<1>3. nextRun[p] \in Nat
  BY DEF RunnerInv, RunnerTypes
<1>4. ASSUME at'[p] = "function", frequency'[p] # 0
      PROVE  nextRun'[p] < now' + PERIOD + Interval(p)'
  <2>1. at[p] = "function" /\ frequency'[p] = frequency[p]
    BY <1>4
  <2>2. nextRun[p] < now + PERIOD + Interval(p) /\ Interval(p) \in Nat
    BY <1>4, <2>1, IntervalFacts DEF RunnerInv, Schedule
  <2>3. Interval(p)' = Interval(p)
    BY <2>1 DEF Interval
  <2> QED BY <1>1, <1>3, <2>2, <2>3
<1>5. ASSUME at'[p] = "woken"
      PROVE  \/ nextRun'[p] = queues'.wake[p]
             \/ nextRun'[p] < now' + PERIOD
             \/ cpu' \in Faults
  <2>1. \/ nextRun[p] = queues.wake[p]
        \/ nextRun[p] < now + PERIOD
        \/ cpu \in Faults
    BY <1>5 DEF RunnerInv, Schedule
  <2> QED BY <1>1, <1>2, <1>3, <2>1
<1> QED BY <1>4, <1>5

\* No step but its own moves a task.
LEMMA RunnerRests ==
  ASSUME KILLABLE = {}, RunnerInv, [Next]_vars, UNCHANGED runnerVars
  PROVE  RunnerTypes' /\ Schedule'
<1>1. /\ at' = at /\ nextRun' = nextRun /\ frequency' = frequency
      /\ Created \subseteq Created' /\ Pids' = Pids
  BY KernelGoesOn DEF runnerVars, RunnerInv, Pids
<1>2. RunnerTypes'
  BY <1>1 DEF RunnerInv, RunnerTypes
<1>3. Schedule'
  BY <1>1, PlaceKept DEF Schedule
<1> QED BY <1>2, <1>3

\* Where the running task is after a step of its own, the others being where
\* they were.
LEMMA RunnerMoves ==
  ASSUME KILLABLE = {}, RunnerInv, [Next]_vars, running \in Created, running \in Pids,
         UNCHANGED frequency, NEW place \in Places, GoTo(place),
         NEW time \in Nat, nextRun' = [nextRun EXCEPT ![running] = time],
         place \in {"sleep", "woken"} => frequency[running] # 0,
         place = "function" /\ frequency[running] # 0 =>
           time < now' + PERIOD + Interval(running),
         place = "woken" => \/ time = queues'.wake[running]
                            \/ time < now' + PERIOD
                            \/ cpu' \in Faults
  PROVE  RunnerTypes' /\ Schedule'
<1>1. /\ Created \subseteq Created' /\ Pids' = Pids /\ frequency' = frequency
      /\ at \in [Pids -> Places] /\ nextRun \in [Pids -> Nat]
      /\ frequency \in [Pids -> Nat]
  BY KernelGoesOn DEF Pids, RunnerInv, RunnerTypes
<1>2. /\ at' \in [Pids -> Places] /\ nextRun' \in [Pids -> Nat]
      /\ at'[running] = place /\ nextRun'[running] = time
      /\ \A p \in Pids \ {running} : at'[p] = at[p] /\ nextRun'[p] = nextRun[p]
  BY <1>1 DEF GoTo
<1>3. RunnerTypes'
  <2>1. \A p \in Pids \ Created' : at'[p] = "entry"
    BY <1>1, <1>2 DEF RunnerInv, RunnerTypes
  <2>2. \A p \in Pids : at'[p] \in {"sleep", "woken"} => frequency'[p] # 0
    BY <1>1, <1>2 DEF RunnerInv, RunnerTypes
  <2> QED BY <1>1, <1>2, <2>1, <2>2 DEF RunnerTypes
<1>4. ASSUME NEW p \in Pids
      PROVE  /\ at'[p] = "function" /\ frequency'[p] # 0 =>
                  nextRun'[p] < now' + PERIOD + Interval(p)'
             /\ at'[p] = "woken" => \/ nextRun'[p] = queues'.wake[p]
                                    \/ nextRun'[p] < now' + PERIOD
                                    \/ cpu' \in Faults
  <2>1. CASE p # running
    BY <1>1, <1>2, <2>1, PlaceKept
  <2>2. CASE p = running
    <3>1. Interval(p)' = Interval(p)
      BY <1>1 DEF Interval
    <3> QED BY <1>1, <1>2, <2>2, <3>1
  <2> QED BY <2>1, <2>2
<1>5. Schedule'
  BY <1>1, <1>4 DEF Schedule
<1> QED BY <1>3, <1>5

\* A task is created with a frequency; it has not entered the runner.
LEMMA CreateMoves ==
  ASSUME KILLABLE = {}, RunnerInv, [Next]_vars, Create
  PROVE  RunnerTypes' /\ Schedule'
<1>1. PICK f \in Nat : frequency' = [frequency EXCEPT ![nextPid] = f]
  BY RunnerAssumption DEF Create
<1>2. /\ at' = at /\ nextRun' = nextRun /\ Created \subseteq Created' /\ Pids' = Pids
      /\ frequency \in [Pids -> Nat] /\ at \in [Pids -> Places]
      /\ nextRun \in [Pids -> Nat]
  BY KernelGoesOn DEF Create, Pids, RunnerInv, RunnerTypes
<1>3. \A p \in Pids : frequency'[p] = frequency[p] \/ at[p] = "entry"
  <2>1. nextPid \in Pids => at[nextPid] = "entry"
    BY PidFacts DEF RunnerInv, RunnerTypes, KernelInv, FullInv, IInv
  <2> QED BY <1>1, <1>2, <2>1
<1>4. RunnerTypes'
  <2>1. frequency' \in [Pids -> Nat]
    BY <1>1, <1>2
  <2>2. \A p \in Pids \ Created' : at'[p] = "entry"
    BY <1>2 DEF RunnerInv, RunnerTypes
  <2>3. \A p \in Pids : at'[p] \in {"sleep", "woken"} => frequency'[p] # 0
    BY <1>2, <1>3 DEF RunnerInv, RunnerTypes
  <2> QED BY <1>2, <2>1, <2>2, <2>3 DEF RunnerTypes
<1>5. Schedule'
  BY <1>2, <1>3, PlaceKept DEF Schedule
<1> QED BY <1>4, <1>5

\* The steps of a task in gkrtos_internal_task_runner.
LEMMA OwnMoves ==
  ASSUME KILLABLE = {}, RunnerInv, [Next]_vars, SLEEP_TIMES = Nat,
         EnterOnce \/ EnterPeriodic \/ FunctionReturns \/ Sleep \/ Woken
  PROVE  RunnerTypes' /\ Schedule'
<1>1. /\ running \in Pids /\ running \in Created /\ now \in Nat
      /\ TaskRuns /\ UNCHANGED frequency
  BY AtFacts
     DEF RunnerInv, EnterOnce, EnterPeriodic, FunctionReturns, Sleep, Woken, TaskAt, Local
<1>2. /\ nextRun \in [Pids -> Nat] /\ nextRun[running] \in Nat
      /\ nextRun = [nextRun EXCEPT ![running] = nextRun[running]]
      /\ PERIOD \in Nat /\ PERIOD > 0
  BY <1>1, PeriodAssumption DEF RunnerInv, RunnerTypes
<1>3. frequency[running] # 0 => Interval(running) \in Nat
  BY <1>1, IntervalFacts DEF RunnerInv
<1>4. CASE EnterOnce \/ EnterPeriodic
  <2>1. GoTo("function") /\ now' = now
    BY <1>4 DEF EnterOnce, EnterPeriodic, Local, vars
  <2>2. CASE frequency[running] = 0
    <3>1. nextRun' = nextRun
      BY <1>4, <2>2 DEF EnterOnce, EnterPeriodic
    <3> QED BY <1>1, <1>2, <2>1, <2>2, <3>1, RunnerMoves DEF Places
  <2>3. CASE frequency[running] # 0
    <3> DEFINE time == now + Interval(running)
    <3>1. nextRun' = [nextRun EXCEPT ![running] = time]
      BY <1>4, <2>3 DEF EnterOnce, EnterPeriodic, Postpone
    <3>2. time \in Nat /\ time < now' + PERIOD + Interval(running)
      BY <1>1, <1>2, <1>3, <2>1, <2>3
    <3> HIDE DEF time
    <3> QED BY <1>1, <2>1, <3>1, <3>2, RunnerMoves DEF Places
  <2> QED BY <2>2, <2>3
<1>5. CASE FunctionReturns
  <2>1. now' = now /\ frequency[running] # 0
    BY <1>5 DEF FunctionReturns, Local, vars
  <2>2. CASE GoTo("sleep") /\ UNCHANGED nextRun
    BY <1>1, <1>2, <2>1, <2>2, RunnerMoves DEF Places
  <2>3. CASE now > nextRun[running] /\ Postpone(nextRun[running]) /\ UNCHANGED at
    <3> DEFINE time == nextRun[running] + Interval(running)
    <3>1. nextRun' = [nextRun EXCEPT ![running] = time]
      BY <2>3 DEF Postpone
    <3>2. time \in Nat /\ time < now' + PERIOD + Interval(running)
      BY <1>1, <1>2, <1>3, <2>1, <2>3
    <3>3. GoTo("function")
      BY <1>1, <1>5, <2>3 DEF GoTo, FunctionReturns, TaskAt, RunnerInv, RunnerTypes
    <3> HIDE DEF time
    <3> QED BY <1>1, <3>1, <3>2, <3>3, RunnerMoves DEF Places
  <2> QED BY <1>5, <2>2, <2>3 DEF FunctionReturns
<1>6. CASE Sleep
  <2>1. /\ SyscallSleepUntil(nextRun[running]) /\ nextRun[running] \in SLEEP_TIMES
        /\ GoTo("woken") /\ nextRun' = nextRun /\ at[running] = "sleep"
    BY <1>2, <1>6 DEF Sleep, TaskAt
  <2>2. \/ queues'.wake[running] = nextRun[running]
        \/ nextRun[running] < now + PERIOD
        \/ cpu' \in Faults
    BY <2>1, SleepSetsAlarm DEF RunnerInv
  <2>3. now' \in Nat /\ now <= now'
    BY KernelGoesOn DEF RunnerInv
  <2>4. \/ nextRun[running] = queues'.wake[running]
        \/ nextRun[running] < now' + PERIOD
        \/ cpu' \in Faults
    BY <1>1, <1>2, <2>2, <2>3
  <2>5. frequency[running] # 0
    BY <1>1, <2>1 DEF RunnerInv, RunnerTypes
  <2> QED BY <1>1, <1>2, <2>1, <2>4, <2>5, RunnerMoves DEF Places
<1>7. CASE Woken
  <2>1. GoTo("function") /\ now' = now /\ at[running] = "woken"
    BY <1>7 DEF Woken, Local, vars, TaskAt
  <2>2. frequency[running] # 0
    BY <1>1, <2>1 DEF RunnerInv, RunnerTypes
  <2>3. nextRun[running] < now + PERIOD
    <3>1. cpu = "thread" /\ running \in Range(queues.unsched)
      BY <1>1, RunningParts DEF RunnerInv, KernelInv, Ready
    <3>2. queues.wake[running] = 0
      BY <3>1, QueueParts DEF RunnerInv, KernelInv, Consistent, IsScheduled, NilTime
    <3>3. nextRun[running] = 0 \/ nextRun[running] < now + PERIOD
      BY <1>1, <2>1, <3>1, <3>2 DEF RunnerInv, Schedule, Faults
    <3> QED BY <1>1, <1>2, <3>3
  <2> DEFINE time == nextRun[running] + Interval(running)
  <2>4. nextRun' = [nextRun EXCEPT ![running] = time]
    BY <1>7 DEF Woken, Postpone
  <2>5. time \in Nat /\ time < now' + PERIOD + Interval(running)
    BY <1>1, <1>2, <1>3, <2>1, <2>2, <2>3
  <2> HIDE DEF time
  <2> QED BY <1>1, <2>1, <2>4, <2>5, RunnerMoves DEF Places
<1> QED BY <1>4, <1>5, <1>6, <1>7

-----------------------------------------------------------------------------
(* The theorems                                                            *)

LEMMA InitRunnerInv == RunnerInit => Init /\ RunnerInv
<1> SUFFICES ASSUME RunnerInit PROVE Init /\ RunnerInv
  OBVIOUS
<1>1. Init
  BY DEF RunnerInit, AccountingInit
<1>2. RunnerTypes /\ Schedule
  BY DEF RunnerInit, RunnerTypes, Schedule, Places
<1> QED BY <1>1, <1>2, InitKernelInv DEF RunnerInv

LEMMA NextRunnerInv ==
  ASSUME KILLABLE = {}, MORTAL = {}, SLEEP_TIMES = Nat,
         RunnerInv, [RunnerNext]_systemVars
  PROVE  RunnerInv' /\ [Next]_vars
<1>1. [Next]_vars
  BY RunnerStepIsKernelStep DEF RunnerInv
<1>2. KernelInv'
  BY <1>1, NextKernelInv DEF RunnerInv
<1>3. CASE EnterOnce \/ EnterPeriodic \/ FunctionReturns \/ Sleep \/ Woken
  BY <1>1, <1>2, <1>3, OwnMoves DEF RunnerInv
<1>4. CASE Create
  BY <1>1, <1>2, <1>4, CreateMoves DEF RunnerInv
<1>5. CASE UNCHANGED runnerVars
  BY <1>1, <1>2, <1>5, RunnerRests DEF RunnerInv
<1> QED BY <1>1, <1>3, <1>4, <1>5 DEF RunnerNext, FunctionCalls, CoreRuns, systemVars

\* The runner and the functions it calls make a program of the scheduler: what
\* is proved of Kernel holds of the system in which tasks are what runner.c
\* makes of them.
THEOREM RunnerIsAProgram ==
  ASSUME KILLABLE = {}, MORTAL = {}, SLEEP_TIMES = Nat
  PROVE  RunnerSpec => Spec
<1>1. RunnerInv /\ [RunnerNext]_systemVars => RunnerInv' /\ [Next]_vars
  BY NextRunnerInv
<1> QED BY <1>1, InitRunnerInv, PTL DEF RunnerSpec, Spec

\* No periodic task runs ahead of its schedule by a SysTick period, for any
\* frequencies, periods and number of tasks, and whatever their functions call.
THEOREM PeriodicNotEarly ==
  ASSUME KILLABLE = {}, MORTAL = {}, SLEEP_TIMES = Nat
  PROVE  RunnerSpec => []NeverAhead
<1>1. RunnerInv /\ [RunnerNext]_systemVars => RunnerInv'
  BY NextRunnerInv
<1>2. RunnerInv => NeverAhead
  BY QueueParts DEF RunnerInv, KernelInv, Schedule, NeverAhead
<1> QED BY <1>1, <1>2, InitRunnerInv, PTL DEF RunnerSpec

-----------------------------------------------------------------------------
(* The sum over the tasks                                                  *)

\* What a task with these ticks has been charged.
Cost(ticks, p) == ticks[p] * MILLI

\* The sums over the sets in T, each made of the sum without one member; T is
\* closed under taking members away.
IsSum(sum, ticks, T) ==
  sum = [s \in T |-> IF s = {} THEN 0
                     ELSE Cost(ticks, CHOOSE x \in s : TRUE)
                            + sum[s \ {CHOOSE x \in s : TRUE}]]

\* The sum that NeverOvercharged is about.
Charged(ticks) == (CHOOSE sum : IsSum(sum, ticks, SUBSET Pids))[Pids]

\* The subsets of the pids that have at most n members.
UpTo(n) == {s \in SUBSET Pids : Cardinality(s) <= n}

LEMMA PidsFinite ==
  /\ IsFiniteSet(Pids) /\ Cardinality(Pids) \in Nat
  /\ UpTo(Cardinality(Pids)) = SUBSET Pids
<1>1. IsFiniteSet(Pids)
  BY FS_Interval, KernelAssumption DEF Pids
<1>2. \A s \in SUBSET Pids : Cardinality(s) <= Cardinality(Pids)
  BY <1>1, FS_Subset
<1> QED BY <1>1, <1>2, FS_CardinalityType DEF UpTo

\* Among sets of pids there is a smallest one.
LEMMA SmallestSet ==
  ASSUME NEW F \in SUBSET (SUBSET Pids), F # {}
  PROVE  \E s \in F : \A t \in F : Cardinality(s) <= Cardinality(t)
<1> DEFINE sizes == {Cardinality(s) : s \in F}
<1>1. \A s \in SUBSET Pids : Cardinality(s) \in Nat
  BY PidsFinite, FS_Subset, FS_CardinalityType
<1>2. sizes \in SUBSET Nat /\ sizes # {}
  BY <1>1
<1> HIDE DEF sizes
<1>3. PICK n \in sizes : \A m \in sizes : n <= m
  BY <1>2, LeastNumber
<1> QED BY <1>3 DEF sizes

\* Taking the chosen member away.
LEMMA OneLess ==
  ASSUME NEW s \in SUBSET Pids, s # {}
  PROVE  LET x == CHOOSE x \in s : TRUE IN
         /\ x \in s /\ x \in Pids /\ s \ {x} \in SUBSET Pids
         /\ Cardinality(s) \in Nat /\ Cardinality(s \ {x}) \in Nat
         /\ Cardinality(s \ {x}) = Cardinality(s) - 1
<1> DEFINE x == CHOOSE x \in s : TRUE
<1>1. x \in s
  OBVIOUS
<1> HIDE DEF x
<1>2. IsFiniteSet(s)
  BY PidsFinite, FS_Subset
<1>3. Cardinality(s) \in Nat
  BY <1>2, FS_CardinalityType
<1>4. IsFiniteSet(s \ {x}) /\ Cardinality(s \ {x}) = Cardinality(s) - 1
  BY <1>1, <1>2, FS_RemoveElement
<1>5. Cardinality(s \ {x}) \in Nat
  BY <1>4, FS_CardinalityType
<1> QED BY <1>1, <1>3, <1>4, <1>5 DEF x

\* The sums over sets of every size exist: the first that does not could be
\* made from the one before it.
LEMMA SumExists ==
  ASSUME NEW ticks, NEW n \in Nat
  PROVE  \E sum : IsSum(sum, ticks, UpTo(n))
<1> DEFINE missing == {c \in Nat : ~\E sum : IsSum(sum, ticks, UpTo(c))}
<1>1. SUFFICES ASSUME missing # {} PROVE FALSE
  OBVIOUS
<1>2. PICK c \in missing : \A d \in missing : c <= d
  <2>1. missing \in SUBSET Nat
    OBVIOUS
  <2> HIDE DEF missing
  <2> QED BY <1>1, <2>1, LeastNumber
<1>3. c \in Nat /\ ~\E sum : IsSum(sum, ticks, UpTo(c))
  OBVIOUS
<1>4. c # 0
  <2>1. SUFFICES ASSUME c = 0 PROVE FALSE
    OBVIOUS
  <2> DEFINE none == [s \in UpTo(0) |-> 0]
  <2>2. ASSUME NEW s \in UpTo(0) PROVE s = {}
    <3>1. s \in SUBSET Pids /\ Cardinality(s) <= 0
      BY <2>2 DEF UpTo
    <3>2. CASE s # {}
      <4> DEFINE less == s \ {CHOOSE x \in s : TRUE}
      <4>1. /\ Cardinality(s) \in Nat /\ Cardinality(less) \in Nat
            /\ Cardinality(less) = Cardinality(s) - 1
        BY <3>1, <3>2, OneLess
      <4> HIDE DEF less
      <4> QED BY <3>1, <4>1
    <3> QED BY <3>2
  <2>3. IsSum(none, ticks, UpTo(0))
    BY <2>2 DEF IsSum
  <2> QED BY <1>3, <2>1, <2>3
<1>5. c - 1 \in Nat /\ c - 1 \notin missing
  <2> HIDE DEF missing
  <2>1. c - 1 \in Nat /\ ~(c <= c - 1)
    BY <1>3, <1>4
  <2> QED BY <1>2, <2>1
<1>6. PICK g : IsSum(g, ticks, UpTo(c - 1))
  BY <1>5
<1> DEFINE body(f, s) == IF s = {} THEN 0
                         ELSE Cost(ticks, CHOOSE x \in s : TRUE)
                                + f[s \ {CHOOSE x \in s : TRUE}]
           sum == [s \in UpTo(c) |-> body(g, s)]
<1>7. ASSUME NEW s \in UpTo(c - 1) PROVE s \in UpTo(c) /\ g[s] = body(g, s)
  <2>1. s \in SUBSET Pids /\ Cardinality(s) <= c - 1
    BY <1>7 DEF UpTo
  <2>2. Cardinality(s) \in Nat
    BY <2>1, PidsFinite, FS_Subset, FS_CardinalityType
  <2>3. Cardinality(s) <= c
    BY <1>3, <2>1, <2>2
  <2> QED BY <1>6, <2>1, <2>3 DEF IsSum, UpTo
<1>8. ASSUME NEW s \in UpTo(c), s # {}
      PROVE  s \ {CHOOSE x \in s : TRUE} \in UpTo(c - 1)
  <2> DEFINE less == s \ {CHOOSE x \in s : TRUE}
  <2>1. s \in SUBSET Pids /\ Cardinality(s) <= c
    BY <1>8 DEF UpTo
  <2>2. /\ less \in SUBSET Pids /\ Cardinality(s) \in Nat
        /\ Cardinality(less) = Cardinality(s) - 1
    BY <1>8, <2>1, OneLess
  <2> HIDE DEF less
  <2>3. Cardinality(less) <= c - 1
    BY <1>3, <2>1, <2>2
  <2>4. less \in UpTo(c - 1)
    BY <2>2, <2>3 DEF UpTo
  <2> QED BY <2>4 DEF less
<1>9. ASSUME NEW s \in UpTo(c) PROVE body(g, s) = body(sum, s)
  <2>1. CASE s = {}
    BY <2>1
  <2>2. CASE s # {}
    <3> DEFINE less == s \ {CHOOSE x \in s : TRUE}
    <3>1. less \in UpTo(c - 1)
      BY <1>9, <1>8, <2>2
    <3>2. g[less] = body(g, less) /\ less \in UpTo(c)
      BY <1>7, <3>1
    <3>3. sum[less] = g[less]
      BY <3>2
    <3> QED BY <2>2, <3>3
  <2> QED BY <2>1, <2>2
<1>10. sum = [s \in UpTo(c) |-> body(sum, s)]
  <2> HIDE DEF body
  <2> QED BY <1>9
<1>11. IsSum(sum, ticks, UpTo(c))
  BY <1>10 DEF IsSum
<1> QED BY <1>3, <1>11

\* What MapThenSumSet of FiniteSetsExt returns satisfies the equation of its
\* fold.
LEMMA ChargedIsSum ==
  ASSUME NEW ticks
  PROVE  \E sum : IsSum(sum, ticks, SUBSET Pids) /\ Charged(ticks) = sum[Pids]
<1>1. \E sum : IsSum(sum, ticks, SUBSET Pids)
  <2>1. \E sum : IsSum(sum, ticks, UpTo(Cardinality(Pids)))
    BY PidsFinite, SumExists
  <2> QED BY <2>1, PidsFinite
<1>2. IsSum(CHOOSE sum : IsSum(sum, ticks, SUBSET Pids), ticks, SUBSET Pids)
  BY <1>1
<1> QED BY <1>2 DEF Charged

LEMMA SumIsCharged ==
  MapThenSumSet(LAMBDA p : runTicks[p] * MILLI, Pids) = Charged(runTicks)
BY Zenon DEF MapThenSumSet, MapThenFoldSet, Charged, IsSum, Cost

\* One task is charged more, the others are not: the sum over every set that
\* holds it grows by as much.  The smallest set of which this were not so would
\* not be the smallest.
LEMMA ChargeAddsUp ==
  ASSUME NEW a \in [Pids -> Nat], NEW b \in [Pids -> Nat], NEW r \in Pids,
         NEW d \in Nat, Cost(b, r) = Cost(a, r) + d,
         \A p \in Pids \ {r} : b[p] = a[p]
  PROVE  Charged(a) \in Nat /\ Charged(b) = Charged(a) + d
<1>1. PICK f : IsSum(f, a, SUBSET Pids) /\ Charged(a) = f[Pids]
  BY ChargedIsSum
<1>2. PICK g : IsSum(g, b, SUBSET Pids) /\ Charged(b) = g[Pids]
  BY ChargedIsSum
<1>3. \A p \in Pids : /\ Cost(a, p) \in Nat /\ Cost(b, p) \in Nat
                      /\ p # r => Cost(b, p) = Cost(a, p)
  BY MilliAssumption DEF Cost
<1> DEFINE Right(s) == /\ f[s] \in Nat
                       /\ g[s] = f[s] + (IF r \in s THEN d ELSE 0)
           wrong == {s \in SUBSET Pids : ~Right(s)}
<1>4. wrong = {}
  <2>1. SUFFICES ASSUME wrong # {} PROVE FALSE
    OBVIOUS
  <2>2. PICK s \in wrong : \A t \in wrong : Cardinality(s) <= Cardinality(t)
    <3>1. wrong \in SUBSET (SUBSET Pids)
      OBVIOUS
    <3> HIDE DEF wrong
    <3> QED BY <2>1, <3>1, SmallestSet
  <2>3. s \in SUBSET Pids /\ ~Right(s)
    OBVIOUS
  <2>4. CASE s = {}
    <3>1. f[s] = 0 /\ g[s] = 0
      BY <1>1, <1>2, <2>3, <2>4 DEF IsSum
    <3> QED BY <2>3, <2>4, <3>1
  <2>5. CASE s # {}
    <3> DEFINE x == CHOOSE x \in s : TRUE
               less == s \ {x}
    <3>1. /\ x \in s /\ x \in Pids /\ less \in SUBSET Pids
          /\ Cardinality(s) \in Nat /\ Cardinality(less) = Cardinality(s) - 1
      BY <2>3, <2>5, OneLess
    <3>2. f[s] = Cost(a, x) + f[less] /\ g[s] = Cost(b, x) + g[less]
      BY <1>1, <1>2, <2>3, <2>5 DEF IsSum
    <3> HIDE DEF x
    <3>3. r \in s <=> r = x \/ r \in less
      BY <3>1
    <3>4. x \notin less
      OBVIOUS
    <3> HIDE DEF less
    <3>5. less \notin wrong
      <4>1. ~(Cardinality(s) <= Cardinality(less))
        BY <3>1
      <4> HIDE DEF wrong
      <4> QED BY <2>2, <4>1
    <3>6. Right(less)
      BY <3>1, <3>5
    <3>7. Cost(a, x) \in Nat /\ Cost(b, x) = Cost(a, x) + (IF x = r THEN d ELSE 0)
      BY <1>3, <3>1
    <3>8. Right(s)
      BY <3>2, <3>3, <3>4, <3>6, <3>7
    <3> QED BY <2>3, <3>8
  <2> QED BY <2>4, <2>5
<1>5. Right(Pids)
  BY <1>4
<1> QED BY <1>1, <1>2, <1>5

-----------------------------------------------------------------------------
(* No overcharge                                                           *)

\* The time that is left over when slices are charged in whole milliseconds is
\* never charged.  Before tasking starts nothing has been charged and the clock
\* stands at StartTime.
ChargeInv ==
  /\ runTicks \in [Pids -> Nat]
  /\ switchedAt \in Nat /\ switchedAt <= now
  /\ Charged(runTicks) \in Nat
  /\ cpu = "boot" => running = BootPid
  /\ running = BootPid => now = StartTime /\ Charged(runTicks) = 0
  /\ running # BootPid =>
       Charged(runTicks) + (now - switchedAt) <= now - StartTime

\* Nothing charged yet.
LEMMA NothingCharged == Charged([p \in Pids |-> 0]) = 0
<1> DEFINE a == [p \in Pids |-> 0]
<1>1. PICK f : IsSum(f, a, SUBSET Pids) /\ Charged(a) = f[Pids]
  BY ChargedIsSum
<1>2. \A p \in Pids : Cost(a, p) = 0
  BY MilliAssumption DEF Cost
<1> HIDE DEF a
<1> DEFINE wrong == {s \in SUBSET Pids : f[s] # 0}
<1>3. wrong = {}
  <2>1. SUFFICES ASSUME wrong # {} PROVE FALSE
    OBVIOUS
  <2>2. PICK s \in wrong : \A t \in wrong : Cardinality(s) <= Cardinality(t)
    <3>1. wrong \in SUBSET (SUBSET Pids)
      OBVIOUS
    <3> HIDE DEF wrong
    <3> QED BY <2>1, <3>1, SmallestSet
  <2>3. s \in SUBSET Pids /\ f[s] # 0
    OBVIOUS
  <2>4. s # {}
    BY <1>1, <2>3 DEF IsSum
  <2> DEFINE x == CHOOSE x \in s : TRUE
             less == s \ {x}
  <2>5. /\ x \in s /\ x \in Pids /\ less \in SUBSET Pids
        /\ Cardinality(s) \in Nat /\ Cardinality(less) = Cardinality(s) - 1
    BY <2>3, <2>4, OneLess
  <2>6. f[s] = Cost(a, x) + f[less]
    BY <1>1, <2>3, <2>4 DEF IsSum
  <2> HIDE DEF x, less
  <2>7. less \notin wrong
    <3>1. ~(Cardinality(s) <= Cardinality(less))
      BY <2>5
    <3> HIDE DEF wrong
    <3> QED BY <2>2, <3>1
  <2>8. f[less] = 0
    BY <2>5, <2>7
  <2> QED BY <1>2, <2>3, <2>5, <2>6, <2>8
<1>4. f[Pids] = 0
  BY <1>3
<1> QED BY <1>1, <1>4 DEF a

\* A slice is charged rounded down to milliseconds.
LEMMA Rounding ==
  ASSUME NEW t \in Nat
  PROVE  t \div MILLI \in Nat /\ (t \div MILLI) * MILLI <= t
BY MilliAssumption

\* What a context switch charges.
LEMMA ChargeStep ==
  ASSUME ChargeInv, now \in Nat, running \in Pids
  PROVE  /\ Charge \in [Pids -> Nat]
         /\ Charged(Charge) \in Nat
         /\ Charged(Charge) <= Charged(runTicks) + (now - switchedAt)
<1> DEFINE t == now - switchedAt
           n == t \div MILLI
           d == n * MILLI
<1>1. t \in Nat
  BY DEF ChargeInv
<1>2. n \in Nat /\ d \in Nat /\ d <= t
  BY <1>1, Rounding, MilliAssumption
<1>3. runTicks \in [Pids -> Nat] /\ Charged(runTicks) \in Nat
  BY DEF ChargeInv
<1>4. CASE status[running] # "RUNNING"
  BY <1>1, <1>3, <1>4 DEF Charge
<1>5. CASE status[running] = "RUNNING"
  <2>1. Charge = [runTicks EXCEPT ![running] = @ + n]
    BY <1>5 DEF Charge
  <2> HIDE DEF t, n
  <2>2. /\ Charge \in [Pids -> Nat] /\ Charge[running] = runTicks[running] + n
        /\ \A p \in Pids \ {running} : Charge[p] = runTicks[p]
    BY <1>2, <1>3, <2>1
  <2>3. Cost(Charge, running) = Cost(runTicks, running) + d
    BY <1>2, <1>3, <2>2, MilliAssumption DEF Cost
  <2> HIDE DEF d
  <2>4. Charged(Charge) = Charged(runTicks) + d
    BY <1>2, <1>3, <2>2, <2>3, ChargeAddsUp
  <2>5. Charged(Charge) \in Nat /\ Charged(Charge) <= Charged(runTicks) + t
    BY <1>1, <1>2, <1>3, <2>4
  <2> QED BY <2>2, <2>5 DEF t
<1> QED BY <1>4, <1>5

\* How a step of the scheduler changes what is charged by: the clock goes on
\* while tasking does, a task is dispatched, or neither happens.
LEMMA StepTimes ==
  ASSUME IInv, [Next]_vars
  PROVE  \/ /\ UNCHANGED <<now, running, switchedAt>>
            /\ cpu' = "boot" => cpu = "boot"
         \/ /\ now' = now + 1 /\ UNCHANGED <<running, switchedAt, cpu>>
            /\ running # BootPid
         \/ /\ cpu \in {"boot", "pendsv_entry"} /\ cpu' # "boot"
            /\ cpu = "boot" => running' = SpinPid
            /\ cpu = "pendsv_entry" => running' # running /\ running' # BootPid
            /\ now' = now /\ switchedAt' = now
<1>1. CASE CreateTask
  BY <1>1 DEF CreateTask, Fault, taskVars, coreVars
<1>2. CASE \E t \in SLEEP_TIMES : SyscallSleepUntil(t)
  BY <1>2 DEF SyscallSleepUntil, Fault, coreVars
<1>3. CASE SyscallYield \/ SysTick \/ SyscallEscalates
  BY <1>3 DEF SyscallYield, SysTick, SyscallEscalates,
              Fault, coreVars
<1>4. CASE SyscallDie \/ \E v \in KILLABLE : SyscallKill(v)
  BY <1>4 DEF SyscallDie, SyscallKill, Kill, Fault, coreVars
<1>5. CASE PendSVEntry \/ PendSVReturn \/ UNCHANGED vars
  BY <1>5 DEF PendSVEntry, PendSVReturn, coreVars, vars
<1>6. CASE Advance
  <2>1. running \in Created
    BY <1>6 DEF Advance, IInv, CorePidsCreated
  <2>2. running # BootPid
    BY <2>1, PidFacts DEF IInv, TypeOK, Created, BootPid
  <2> QED BY <1>6, <2>2 DEF Advance, coreVars
<1>7. CASE PendSVSwitch
  <2>1. queued \in Created
    BY <1>7 DEF PendSVSwitch, IInv, CorePidsCreated
  <2>2. queued # BootPid
    BY <2>1, PidFacts DEF IInv, TypeOK, Created, BootPid
  <2> QED BY <1>7, <2>2 DEF PendSVSwitch, ContextSwitch
<1>8. CASE Start
  BY <1>8 DEF Start
<1> QED BY <1>1, <1>2, <1>3, <1>4, <1>5, <1>6, <1>7, <1>8
     DEF Next, MainCreatesTask, SyscallCreateTask

LEMMA NextChargeInv ==
  ASSUME IInv, ChargeInv, [Next]_vars,
         AccountingStep \/ UNCHANGED <<running, runTicks>>
  PROVE  ChargeInv'
<1>1. now \in Nat /\ SpinPid # BootPid /\ Pids' = Pids
  BY DEF IInv, TypeOK, SpinPid, BootPid, Pids
<1>2. Charged(runTicks)' = Charged(runTicks')
  BY DEF Charged, IsSum, Cost, Pids
<1>3. ASSUME UNCHANGED runTicks,
             \/ /\ UNCHANGED <<now, running, switchedAt>>
                /\ cpu' = "boot" => cpu = "boot"
             \/ /\ now' = now + 1 /\ UNCHANGED <<running, switchedAt, cpu>>
                /\ running # BootPid
      PROVE  ChargeInv'
  BY <1>1, <1>2, <1>3 DEF ChargeInv, StartTime
<1>4. ASSUME cpu = "boot", cpu' # "boot", running' = SpinPid, UNCHANGED runTicks,
             now' = now, switchedAt' = now
      PROVE  ChargeInv'
  BY <1>1, <1>2, <1>4 DEF ChargeInv, StartTime
<1>5. ASSUME cpu = "pendsv_entry", cpu' # "boot", running' # running,
             running' # BootPid, runTicks' = Charge, now' = now, switchedAt' = now
      PROVE  ChargeInv'
  <2>1. running \in Created
    BY <1>5 DEF IInv, CorePidsCreated
  <2>2. running \in Pids /\ running # BootPid
    BY <2>1, PidFacts DEF IInv, TypeOK, Created, BootPid
  <2>3. /\ runTicks' \in [Pids -> Nat]
        /\ Charged(runTicks') \in Nat
        /\ Charged(runTicks') <= Charged(runTicks) + (now - switchedAt)
    BY <1>1, <1>5, <2>2, ChargeStep
  <2>4. Charged(runTicks) + (now - switchedAt) <= now - StartTime
    BY <2>2 DEF ChargeInv
  <2>5. Charged(runTicks') + (now' - switchedAt') <= now' - StartTime
    BY <1>1, <1>5, <2>3, <2>4 DEF ChargeInv, StartTime
  <2> QED BY <1>1, <1>2, <1>5, <2>3, <2>5 DEF ChargeInv
<1>6. CASE UNCHANGED <<running, runTicks>>
  BY <1>1, <1>3, <1>4, <1>6, StepTimes DEF ChargeInv
<1>7. CASE AccountingStep
  <2>1. CASE cpu = "pendsv_entry" /\ running' # running
    BY <1>5, <1>7, <2>1, StepTimes DEF AccountingStep
  <2>2. CASE ~(cpu = "pendsv_entry" /\ running' # running)
    <3>1. UNCHANGED runTicks
      BY <1>7, <2>2 DEF AccountingStep
    <3> QED BY <1>3, <1>4, <2>2, <3>1, StepTimes
  <2> QED BY <2>1, <2>2
<1> QED BY <1>6, <1>7

LEMMA InitChargeInv == AccountingInit => ChargeInv
<1> SUFFICES ASSUME AccountingInit PROVE ChargeInv
  OBVIOUS
<1>1. Charged(runTicks) = 0
  BY NothingCharged DEF AccountingInit
<1> QED BY <1>1 DEF AccountingInit, Init, BootState, ChargeInv, StartTime, BootPid

\* Tasks are never charged more time than has passed since tasking started: no
\* slice twice, nor to two tasks, for any number of tasks and any programs.
THEOREM NothingOvercharged ==
  ASSUME KILLABLE = {}, MORTAL = {}, SLEEP_TIMES = Nat
  PROVE  RunnerSpec => []NeverOvercharged
<1> DEFINE Inv == RunnerInv /\ ChargeInv
<1>1. RunnerInit => Inv
  BY InitRunnerInv, InitChargeInv DEF RunnerInit
<1>2. Inv /\ [RunnerNext]_systemVars => Inv'
  <2> SUFFICES ASSUME Inv, [RunnerNext]_systemVars PROVE Inv'
    OBVIOUS
  <2>1. RunnerInv' /\ [Next]_vars
    BY NextRunnerInv
  <2>2. IInv
    BY DEF RunnerInv, KernelInv, FullInv
  <2>3. AccountingStep \/ UNCHANGED <<running, runTicks>>
    BY DEF RunnerNext, EnterOnce, EnterPeriodic, FunctionReturns, Woken, Local,
           Sleep, Create, FunctionCalls, CoreRuns, systemVars, vars
  <2> QED BY <2>1, <2>2, <2>3, NextChargeInv
<1>3. Inv => NeverOvercharged
  BY SumIsCharged DEF ChargeInv, NeverOvercharged
<1> QED BY <1>1, <1>2, <1>3, PTL DEF RunnerSpec
=============================================================================
