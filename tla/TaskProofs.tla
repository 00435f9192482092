----------------------------- MODULE TaskProofs -----------------------------
(***************************************************************************)
(* What tasks can rely on when no task is killed by another (KILLABLE is   *)
(* empty): no live task is lost, no task that died is brought back, no     *)
(* sleeper is woken early.  kill selects the next task before it takes its *)
(* victim out of the queues: a victim that is next in the ring runs again, *)
(* and the pid of a task that is not queued dereferences a NULL item.      *)
(***************************************************************************)
EXTENDS KernelProofs
\* The spin task never leaves the ring.
SpinInRing == SpinPid \in Ready

\* The queued task is in the ring, or it died when it was the one that die
\* selected; then it is the running one and its time is nil, so that its next
\* sleep or die dereferences a NULL item rather than queue it again.
QueuedInRing ==
  cpu \in {"thread", "pendsv_entry", "pendsv_exit"} =>
    \/ queued \in Ready
    \/ /\ queued = running
       /\ status[queued] = "COMPLETE" /\ queues.wake[queued] = NilTime

\* Without a PendSV on its way the task that executes is the queued one.
NoneOnTheWay ==
  /\ cpu \in {"thread", "pendsv_exit"} /\ ~pendsv => queued = running
  /\ primask => queued = running

\* LiveTasksQueued needs the others: die dequeues the RUNNING task but has
\* selected the QUEUED one, and a context switch marks whatever is queued.
TaskInv ==
  /\ LiveTasksQueued /\ SpinInRing /\ QueuedInRing /\ NoneOnTheWay
FullInv == IInv /\ TaskInv

\* What FullInv says of the queues, in the form the lemmas on queues take.
LEMMA QueueParts ==
  ASSUME FullInv
  PROVE  /\ QueuesOK(queues)
         /\ queues \in QueueType(Pids) /\ Consistent(queues)
         /\ Members(queues) \subseteq Created
         /\ SpinPid \in Range(queues.unsched)
         /\ now \in Nat
         /\ Created \subseteq Pids
BY PidFacts DEF FullInv, IInv, TypeOK, QueueMembership, QueuesOK, TaskInv,
                SpinInRing, Ready

\* The initial state satisfies the invariant.
LEMMA BootTaskInv == BootState => TaskInv
<1> SUFFICES ASSUME BootState PROVE TaskInv
  OBVIOUS
<1>1. SpinPid \in Pids /\ Created = {SpinPid}
  BY KernelAssumption DEF BootState, Pids, SpinPid, Created
<1>2. Ready = {SpinPid} /\ Sleeping = {}
  <2> DEFINE u == <<SpinPid>>
  <2>1. u \in Seq(Pids) /\ Range(u) = {SpinPid}
    BY <1>1, SingletonFacts
  <2>2. queues.unsched = u /\ queues.sched = << >>
    BY DEF BootState
  <2> QED BY <2>1, <2>2 DEF Ready, Sleeping, Range
<1>3. Members(queues) = {SpinPid}
  BY <1>2 DEF Members, Ready, Sleeping
<1>4. status[SpinPid] = "SLEEPING"
  BY <1>1 DEF BootState
<1>5. LiveTasksQueued
  BY <1>1, <1>3, <1>4 DEF LiveTasksQueued
<1>6. SpinInRing
  BY <1>2 DEF SpinInRing
<1>7. QueuedInRing /\ NoneOnTheWay
  BY DEF BootState, QueuedInRing, NoneOnTheWay
<1> QED BY <1>5, <1>6, <1>7 DEF TaskInv

\* Selecting the next task from queues with the same tasks in them.
LEMMA SelectTaskInv ==
  ASSUME FullInv, NEW q, QueuesOK(q), Members(q) = Members(queues),
         SpinPid \in Range(q.unsched), ~PickFaults(q, now), ~primask,
         queues' = QueuesAfterPick(q, now),
         QueueContextSwitch(PickedTask(q, now)),
         UNCHANGED <<nextPid, status, running, primask>>
  PROVE  TaskInv'
<1>1. q \in QueueType(Pids) /\ Consistent(q) /\ now \in Nat
  BY QueueParts DEF QueuesOK
<1>2. /\ Members(queues') = Members(q)
      /\ Range(q.unsched) \subseteq Range(queues'.unsched)
      /\ PickedTask(q, now) \in Range(queues'.unsched)
  BY <1>1, PickFacts
<1>3. LiveTasksQueued'
  BY <1>2 DEF FullInv, TaskInv, LiveTasksQueued, Created
<1>4. SpinInRing'
  BY <1>2 DEF SpinInRing, Ready
<1>5. QueuedInRing'
  BY <1>2 DEF QueuedInRing, QueueContextSwitch, Ready
<1>6. NoneOnTheWay'
  BY DEF NoneOnTheWay, QueueContextSwitch
<1> QED BY <1>3, <1>4, <1>5, <1>6 DEF TaskInv

\* A step that leaves the queues and the choice of task alone.
LEMMA FrameTaskInv ==
  ASSUME FullInv, UNCHANGED <<nextPid, queues, status, running, queued, primask>>,
         \/ UNCHANGED pendsv /\ cpu' \in Faults \union {cpu}
         \/ UNCHANGED pendsv /\ cpu = "pendsv_exit" /\ cpu' = "thread"
         \/ cpu = "thread" /\ cpu' = "pendsv_entry"
  PROVE  TaskInv'
<1>1. LiveTasksQueued' /\ SpinInRing'
  BY DEF FullInv, TaskInv, LiveTasksQueued, SpinInRing, Ready, Created
<1>2. QueuedInRing'
  BY DEF FullInv, TaskInv, QueuedInRing, Ready, Faults
<1>3. NoneOnTheWay'
  BY DEF FullInv, TaskInv, NoneOnTheWay, Faults
<1> QED BY <1>1, <1>2, <1>3 DEF TaskInv

\* The model's stops keep it.
LEMMA FaultTaskInv ==
  ASSUME FullInv, NEW kind \in Faults, Fault(kind)
  PROVE  TaskInv'
BY FrameTaskInv DEF Fault, taskVars, coreVars

\* A new task is alive and queued.
LEMMA CreateTaskInv ==
  ASSUME FullInv, CreateTask
  PROVE  TaskInv'
<1>1. CASE Fault("overrun")
  BY <1>1, FaultTaskInv DEF Faults
<1>2. CASE /\ nextPid < MAX_TASKS
           /\ nextPid' = nextPid + 1
           /\ status' = [status EXCEPT ![nextPid] = "SLEEPING"]
           /\ queues' = QueueTask(queues, nextPid, TRUE)
           /\ UNCHANGED <<now, systick, coreVars, pendsv, primask, cpu>>
  <2>1. /\ nextPid \in Pids /\ nextPid \notin Created
        /\ Created' = Created \union {nextPid}
    BY <1>2, PidFacts DEF FullInv, IInv, Created
  <2>2. /\ Members(queues') = Members(queues) \union {nextPid}
        /\ Range(queues.unsched) \subseteq Range(queues'.unsched)
        /\ queues'.wake = queues.wake
    <3>1. nextPid \notin Members(queues)
      BY <2>1, QueueParts
    <3>2. PICK fits \in BOOLEAN : queues' = QueueTask(queues, nextPid, fits)
      BY <1>2
    <3> QED BY <2>1, <3>1, <3>2, QueueParts, QueueFacts
  <2>3. \A p \in Pids : status'[p] = IF p = nextPid THEN "SLEEPING" ELSE status[p]
    BY <1>2 DEF FullInv, IInv, TypeOK
  <2>4. LiveTasksQueued'
    BY <2>1, <2>2, <2>3, QueueParts DEF FullInv, TaskInv, LiveTasksQueued
  <2>5. SpinInRing'
    BY <2>2, QueueParts DEF SpinInRing, Ready
  <2>6. QueuedInRing'
    <3>1. SUFFICES ASSUME cpu \in {"thread", "pendsv_entry", "pendsv_exit"}
                   PROVE  \/ queued \in Range(queues'.unsched)
                          \/ /\ queued = running
                             /\ status'[queued] = "COMPLETE"
                             /\ queues'.wake[queued] = NilTime
      BY <1>2 DEF QueuedInRing, Ready, coreVars
    <3>2. queued \in Created /\ queued \in Pids /\ queued # nextPid
      BY <2>1, <3>1, QueueParts DEF FullInv, IInv, CorePidsCreated
    <3> QED BY <2>2, <2>3, <3>1, <3>2 DEF FullInv, TaskInv, QueuedInRing, Ready
  <2>7. NoneOnTheWay'
    BY <1>2 DEF FullInv, TaskInv, NoneOnTheWay, coreVars
  <2> QED BY <2>4, <2>5, <2>6, <2>7 DEF TaskInv
<1> QED BY <1>1, <1>2 DEF CreateTask

\* A task that makes a system call is the queued one.
LEMMA TrapFacts ==
  ASSUME FullInv, Traps
  PROVE  /\ cpu = "thread" /\ ~pendsv /\ ~primask /\ queued = running
         /\ running \in Created /\ running \in Pids
BY QueueParts DEF FullInv, IInv, TaskInv, Traps, TaskRuns, NoneOnTheWay,
                  CorePidsCreated

\* die: the selected task stays in the ring unless it is the dying one.
LEMMA DieTaskInv ==
  ASSUME FullInv, SyscallDie
  PROVE  TaskInv'
<1>1. /\ Traps /\ running # SpinPid /\ Kill(running)
      /\ cpu = "thread" /\ ~pendsv /\ ~primask /\ queued = running
      /\ running \in Created /\ running \in Pids
  BY TrapFacts DEF SyscallDie, UserTraps
<1>2. CASE Fault("listfault")
  BY <1>2, FaultTaskInv DEF Faults
<1>3. CASE /\ ~PickFaults(queues, now)
           /\ status' = [status EXCEPT ![running] = "COMPLETE"]
           /\ queues' = DequeueTask(QueuesAfterPick(queues, now), running)
           /\ QueueContextSwitch(PickedTask(queues, now))
           /\ UNCHANGED <<now, systick, nextPid, running, switchedAt, primask, cpu>>
  <2> DEFINE q == QueuesAfterPick(queues, now)
             n == PickedTask(queues, now)
  <2>1. /\ q \in QueueType(Pids) /\ Consistent(q) /\ Members(q) = Members(queues)
        /\ Range(queues.unsched) \subseteq Range(q.unsched)
        /\ n \in Range(q.unsched)
    BY <1>3, QueueParts, PickFacts
  <2>2. queues' = DequeueTask(q, running) /\ queued' = n
    BY <1>3 DEF QueueContextSwitch
  <2> HIDE DEF q, n
  <2>3. /\ Members(queues') = Members(q) \ {running}
        /\ Range(q.unsched) \ {running} \subseteq Range(queues'.unsched)
        /\ queues'.wake = q.wake
    BY <1>1, <2>1, <2>2, DequeueFacts
  <2>4. /\ status'[running] = "COMPLETE"
        /\ \A p \in Pids \ {running} : status'[p] = status[p]
        /\ Created' = Created /\ running' = running
    BY <1>1, <1>3 DEF FullInv, IInv, TypeOK, Created
  <2>5. LiveTasksQueued'
    BY <2>1, <2>3, <2>4, QueueParts DEF FullInv, TaskInv, LiveTasksQueued
  <2>6. SpinInRing'
    BY <1>1, <2>1, <2>3, QueueParts DEF SpinInRing, Ready
  <2>7. QueuedInRing'
    <3>1. CASE n = running
      <4>1. q.wake[running] = NilTime
        BY <2>1, <3>1 DEF Consistent, IsScheduled
      <4> QED BY <2>2, <2>3, <2>4, <3>1, <4>1 DEF QueuedInRing
    <3>2. CASE n # running
      BY <2>1, <2>2, <2>3, <3>2 DEF QueuedInRing, Ready
    <3> QED BY <3>1, <3>2
  <2>8. NoneOnTheWay'
    BY <1>1, <1>3 DEF NoneOnTheWay, QueueContextSwitch
  <2> QED BY <2>5, <2>6, <2>7, <2>8 DEF TaskInv
<1> QED BY <1>1, <1>2, <1>3 DEF Kill

\* A task that gets through dequeue_task is in the ring.
LEMMA SleeperInRing ==
  ASSUME FullInv, Traps, ~DequeueFaults(queues, running)
  PROVE  running \in Ready
<1>1. CASE queued \in Ready
  BY <1>1, TrapFacts
<1>2. CASE queued = running /\ queues.wake[queued] = NilTime
  <2>1. ~ListRemoveFaults(queues.unsched, running)
    BY <1>2 DEF DequeueFaults, IsScheduled
  <2>2. queues.unsched # <<>>
    BY QueueParts DEF Range
  <2> QED BY <2>1, <2>2 DEF ListRemoveFaults, Ready
<1> QED BY <1>1, <1>2, TrapFacts DEF FullInv, TaskInv, QueuedInRing

\* What sleep_until hands to get_next_task.
LEMMA SleepParts ==
  ASSUME FullInv, NEW t \in SLEEP_TIMES, SyscallSleepUntil(t)
  PROVE  \/ Fault("listfault")
         \/ \E fits \in BOOLEAN :
              LET q == QueuesAfterSleep(t, fits) IN
              /\ QueuesOK(q) /\ Members(q) = Members(queues)
              /\ SpinPid \in Range(q.unsched)
              /\ Sleeping \subseteq Range(q.sched)
              /\ \A p \in Sleeping : q.wake[p] = queues.wake[p]
              /\ running \in Ready
              /\ Range(q.sched) = IF t = NilTime THEN Sleeping
                                  ELSE Sleeping \union {running}
              /\ q.wake = [queues.wake EXCEPT ![running] = t]
              /\ ~PickFaults(q, now) /\ queues' = QueuesAfterPick(q, now)
              /\ QueueContextSwitch(PickedTask(q, now))
              /\ UNCHANGED <<now, systick, nextPid, status, running, switchedAt,
                             primask, cpu>>
<1>1. Traps /\ running # SpinPid /\ running \in Pids /\ running \in Created
  BY TrapFacts DEF SyscallSleepUntil, UserTraps
<1>2. PICK fits \in QueueSort(t) :
        \/ Fault("listfault")
        \/ /\ ~DequeueFaults(queues, running)
           /\ ~PickFaults(QueuesAfterSleep(t, fits), now)
           /\ queues' = QueuesAfterPick(QueuesAfterSleep(t, fits), now)
           /\ QueueContextSwitch(PickedTask(QueuesAfterSleep(t, fits), now))
           /\ UNCHANGED <<now, systick, nextPid, status, running, switchedAt,
                          primask, cpu>>
  BY DEF SyscallSleepUntil
<1>3. SUFFICES ASSUME ~Fault("listfault")
               PROVE  LET q == QueuesAfterSleep(t, fits) IN
                      /\ QueuesOK(q) /\ Members(q) = Members(queues)
                      /\ SpinPid \in Range(q.unsched)
                      /\ Sleeping \subseteq Range(q.sched)
                      /\ \A p \in Sleeping : q.wake[p] = queues.wake[p]
                      /\ running \in Ready
                      /\ Range(q.sched) = IF t = NilTime THEN Sleeping
                                          ELSE Sleeping \union {running}
                      /\ q.wake = [queues.wake EXCEPT ![running] = t]
  <2>1. fits \in BOOLEAN
    BY DEF QueueSort
  <2> QED BY <1>2, <2>1
<1>4. t \in Nat /\ fits \in BOOLEAN
  BY KernelAssumption DEF QueueSort
<1> DEFINE q == QueuesAfterSleep(t, fits)
<1>5. /\ QueuesOK(q)
      /\ Members(q) = Members(queues) \union {running}
      /\ Range(queues.unsched) \ {running} \subseteq Range(q.unsched)
      /\ Range(q.sched) = IF t = NilTime THEN Range(queues.sched) \ {running}
                          ELSE Range(queues.sched) \union {running}
      /\ q.wake = [queues.wake EXCEPT ![running] = t]
  BY <1>1, <1>4, QueueParts, SleepKeepsQueues
<1> HIDE DEF q
<1>6. running \in Range(queues.unsched)
  BY <1>1, <1>2, <1>3, SleeperInRing DEF Ready
<1>7. running \notin Sleeping /\ Sleeping \subseteq Pids
  BY <1>6, QueueParts, QueuesDisjoint DEF Sleeping, Members
<1>8. queues.wake \in [Pids -> Nat]
  BY QueueParts DEF QueueType
<1>9. Range(q.sched) = IF t = NilTime THEN Sleeping ELSE Sleeping \union {running}
  BY <1>5, <1>7 DEF Sleeping
<1>10. Sleeping \subseteq Range(q.sched)
  BY <1>9
<1>11. \A p \in Sleeping : q.wake[p] = queues.wake[p]
  BY <1>5, <1>7, <1>8
<1>12. Members(q) = Members(queues) /\ SpinPid \in Range(q.unsched)
  BY <1>1, <1>5, <1>6, QueueParts DEF Members
<1> QED BY <1>5, <1>6, <1>9, <1>10, <1>11, <1>12 DEF q, Ready

\* A context switch marks the task that was queued.
LEMMA SwitchTaskInv ==
  ASSUME FullInv, PendSVSwitch
  PROVE  TaskInv'
<1>1. /\ UNCHANGED <<nextPid, queues, queued, pendsv>>
      /\ cpu = "pendsv_entry" /\ cpu' = "pendsv_exit" /\ running' = queued
      /\ Created' = Created
  BY DEF PendSVSwitch, ContextSwitch, Created
<1>2. SpinInRing' /\ NoneOnTheWay'
  BY <1>1 DEF FullInv, TaskInv, SpinInRing, Ready, NoneOnTheWay
<1>3. CASE queued = running /\ UNCHANGED status
  BY <1>1, <1>2, <1>3
     DEF FullInv, TaskInv, LiveTasksQueued, QueuedInRing, Ready
<1>4. CASE queued # running /\ ContextSwitch
  <2>1. queued \in Ready
    BY <1>1, <1>4 DEF FullInv, TaskInv, QueuedInRing
  <2>2. \A p \in Pids : status'[p] = "COMPLETE" <=> p # queued /\ status[p] = "COMPLETE"
    BY <1>4 DEF ContextSwitch
  <2>3. LiveTasksQueued'
    BY <1>1, <2>1, <2>2, QueueParts
       DEF FullInv, TaskInv, LiveTasksQueued, Members, Ready
  <2>4. QueuedInRing'
    BY <1>1, <2>1 DEF QueuedInRing, Ready
  <2> QED BY <1>2, <2>3, <2>4 DEF TaskInv
<1> QED BY <1>2, <1>3, <1>4 DEF PendSVSwitch

\* gkrtos_start marks the spin task, which is in the ring.
LEMMA StartTaskInv ==
  ASSUME FullInv, Start
  PROVE  TaskInv'
<1>1. /\ UNCHANGED <<nextPid, queues, pendsv, primask>> /\ Created' = Created
      /\ queued' = SpinPid /\ running' = SpinPid
  BY DEF Start, Created
<1>2. SpinPid \in Ready /\ SpinPid \in Pids /\ SpinPid \in Created
  BY PidFacts DEF FullInv, IInv, TaskInv, SpinInRing, Pids
<1>3. \A p \in Pids : status'[p] = "COMPLETE" <=> p # SpinPid /\ status[p] = "COMPLETE"
  BY <1>2 DEF Start, FullInv, IInv, TypeOK
<1>4. LiveTasksQueued'
  BY <1>1, <1>2, <1>3, QueueParts
     DEF FullInv, TaskInv, LiveTasksQueued, Members, Ready
<1>5. SpinInRing' /\ QueuedInRing' /\ NoneOnTheWay'
  BY <1>1, <1>2 DEF SpinInRing, QueuedInRing, NoneOnTheWay, Ready
<1> QED BY <1>4, <1>5 DEF TaskInv

\* Without kills every step keeps the invariant.
LEMMA NextTaskInv ==
  ASSUME KILLABLE = {}, FullInv, [Next]_vars
  PROVE  TaskInv'
<1>1. CASE MainCreatesTask \/ SyscallCreateTask
  BY <1>1, CreateTaskInv DEF MainCreatesTask, SyscallCreateTask
<1>2. CASE Start
  BY <1>2, StartTaskInv
<1>3. CASE Advance
  BY <1>3, FrameTaskInv DEF Advance, taskVars, coreVars
<1>4. CASE SyscallYield
  <2>1. CASE Fault("listfault")
    BY <2>1, FaultTaskInv DEF Faults
  <2>2. CASE /\ ~PickFaults(queues, now)
             /\ queues' = QueuesAfterPick(queues, now)
             /\ QueueContextSwitch(PickedTask(queues, now))
             /\ UNCHANGED <<now, systick, nextPid, status, running, switchedAt,
                            primask, cpu>>
    <3>1. ~primask
      BY <1>4 DEF SyscallYield, Traps
    <3> QED BY <2>2, <3>1, QueueParts, SelectTaskInv
  <2> QED BY <1>4, <2>1, <2>2 DEF SyscallYield
<1>5. CASE SyscallDie
  BY <1>5, DieTaskInv
<1>6. ASSUME NEW t \in SLEEP_TIMES, SyscallSleepUntil(t) PROVE TaskInv'
  <2>1. CASE Fault("listfault")
    BY <2>1, FaultTaskInv DEF Faults
  <2>2. CASE ~Fault("listfault")
    <3>1. ~primask
      BY <1>6 DEF SyscallSleepUntil, UserTraps, Traps
    <3> QED BY <1>6, <2>2, <3>1, SleepParts, SelectTaskInv
  <2> QED BY <2>1, <2>2
<1>7. CASE SyscallEscalates
  BY <1>7, FaultTaskInv DEF SyscallEscalates, Faults
<1>8. CASE SysTick
  <2>1. CASE UNCHANGED <<now, taskVars, coreVars, pendsv, primask, cpu>>
    BY <2>1, FrameTaskInv DEF taskVars, coreVars
  <2>2. CASE Fault("listfault")
    BY <2>2, FaultTaskInv DEF Faults
  <2>3. CASE /\ ~PickFaults(queues, now)
             /\ queues' = QueuesAfterPick(queues, now)
             /\ QueueContextSwitch(PickedTask(queues, now))
             /\ UNCHANGED <<now, nextPid, status, running, switchedAt, primask, cpu>>
    <3>1. ~primask
      BY <1>8 DEF SysTick
    <3> QED BY <2>3, <3>1, QueueParts, SelectTaskInv
  <2> QED BY <1>8, <2>1, <2>2, <2>3 DEF SysTick
<1>9. CASE PendSVEntry
  BY <1>9, FrameTaskInv DEF PendSVEntry, taskVars, coreVars
<1>10. CASE PendSVSwitch
  BY <1>10, SwitchTaskInv
<1>11. CASE PendSVReturn
  BY <1>11, FrameTaskInv DEF PendSVReturn, taskVars, coreVars
<1>12. CASE UNCHANGED vars
  BY <1>12, FrameTaskInv DEF vars
<1> QED BY <1>1, <1>2, <1>3, <1>4, <1>5, <1>6, <1>7, <1>8, <1>9, <1>10, <1>11,
           <1>12 DEF Next

\* The whole invariant holds in every reachable state, without kills.
LEMMA TaskInvariantHolds ==
  ASSUME KILLABLE = {}
  PROVE  Spec => []FullInv
<1>1. Init => FullInv
  BY InitIInv, BootTaskInv DEF Init, FullInv
<1>2. FullInv /\ [Next]_vars => FullInv'
  BY NextIInv, NextTaskInv DEF FullInv
<1> QED BY <1>1, <1>2, PTL DEF Spec

\* Without kills no live task is lost by the queues and no dead one is left in
\* them, whatever the tasks call and whenever SysTick preempts them.
THEOREM NoTaskLost ==
  ASSUME KILLABLE = {}
  PROVE  Spec => []LiveTasksQueued
<1>1. FullInv => LiveTasksQueued
  BY DEF FullInv, TaskInv
<1> QED BY <1>1, TaskInvariantHolds, PTL

\* Without kills no step marks a dead task RUNNING or SLEEPING again: the task
\* a context switch marks is in the ring, and the ring holds no dead task.
THEOREM DeadNotRevived ==
  ASSUME KILLABLE = {}
  PROVE  Spec => DeadStaysDead
<1>1. FullInv /\ [Next]_vars =>
        [\A p \in Created : status[p] = "COMPLETE" => status'[p] = "COMPLETE"]_vars
  <2> SUFFICES ASSUME FullInv, Next, NEW p \in Created, status[p] = "COMPLETE"
               PROVE  status'[p] = "COMPLETE"
    BY DEF vars
  <2>1. p \in Pids /\ status \in [Pids -> Statuses] /\ p \notin Members(queues)
    BY QueueParts DEF FullInv, IInv, TypeOK, TaskInv, LiveTasksQueued
  <2>2. CASE UNCHANGED status
    BY <2>2
  <2>3. CASE CreateTask
    <3>1. p # nextPid
      BY PidFacts DEF FullInv, IInv
    <3> QED BY <2>1, <2>3, <3>1 DEF CreateTask, Fault, taskVars
  <2>4. CASE Start
    <3>1. p # SpinPid
      BY <2>1, QueueParts DEF Members
    <3> QED BY <2>1, <2>4, <3>1 DEF Start
  <2>5. ASSUME NEW v, Kill(v) PROVE status'[p] = "COMPLETE"
    BY <2>1, <2>5 DEF Kill, Fault, taskVars
  <2>6. CASE PendSVSwitch
    <3>1. CASE UNCHANGED status
      BY <3>1
    <3>2. CASE queued # running /\ ContextSwitch
      <4>1. queued \in Ready
        BY <2>6, <3>2 DEF FullInv, TaskInv, QueuedInRing, PendSVSwitch
      <4>2. p # queued
        BY <2>1, <4>1 DEF Members, Ready
      <4> QED BY <2>1, <3>2, <4>2 DEF ContextSwitch
    <3> QED BY <2>6, <3>1, <3>2 DEF PendSVSwitch
  <2>7. CASE Advance \/ PendSVEntry \/ PendSVReturn
    BY <2>2, <2>7 DEF Advance, PendSVEntry, PendSVReturn, taskVars
  <2>8. ASSUME NEW t, SyscallSleepUntil(t) PROVE status'[p] = "COMPLETE"
    BY <2>2, <2>8 DEF SyscallSleepUntil, Fault, taskVars
  <2>9. CASE SyscallYield \/ SysTick \/ SyscallEscalates
    BY <2>2, <2>9 DEF SyscallYield, SysTick, SyscallEscalates, Fault, taskVars
  <2> QED BY <2>3, <2>4, <2>5, <2>6, <2>7, <2>8, <2>9
       DEF Next, MainCreatesTask, SyscallCreateTask, SyscallDie, SyscallKill
<1> QED BY <1>1, TaskInvariantHolds, PTL DEF Spec, DeadStaysDead

\* get_next_task takes from the scheduled queue nothing but a due head.
LEMMA PickIsNotEarly ==
  ASSUME FullInv, NEW q, QueuesOK(q), ~PickFaults(q, now),
         Sleeping \subseteq Range(q.sched),
         \A p \in Sleeping : q.wake[p] = queues.wake[p],
         NEW p \in Sleeping
  PROVE  \/ p \in Range(QueuesAfterPick(q, now).sched)
         \/ queues.wake[p] < now + PERIOD
<1>1. q \in QueueType(Pids) /\ Consistent(q) /\ now \in Nat
  BY QueueParts DEF QueuesOK
<1> DEFINE r == QueuesAfterPick(q, now)
<1>2. \/ Range(r.sched) = Range(q.sched) /\ r.wake = q.wake
      \/ \E x \in Range(q.sched) :
           /\ q.wake[x] < now + PERIOD
           /\ Range(r.sched) = Range(q.sched) \ {x}
           /\ r.wake = [q.wake EXCEPT ![x] = NilTime]
  BY <1>1, PickFacts
<1> HIDE DEF r
<1> QED BY <1>2 DEF r

\* Without kills a sleeping task leaves the scheduled queue within a period of
\* its time at the earliest, in whatever order that queue is.
THEOREM SleepersNotEarly ==
  ASSUME KILLABLE = {}
  PROVE  Spec => NeverEarly
<1>1. FullInv /\ [Next]_vars =>
        [\A p \in Sleeping :
           \/ p \in Range(queues'.sched)
           \/ queues.wake[p] < now + PERIOD
           \/ status'[p] = "COMPLETE"]_vars
  <2> SUFFICES ASSUME FullInv, Next, NEW p \in Sleeping
               PROVE  \/ p \in Range(queues'.sched)
                      \/ queues.wake[p] < now + PERIOD
                      \/ status'[p] = "COMPLETE"
    BY DEF vars
  <2> DEFINE Goal == \/ p \in Range(queues'.sched)
                     \/ queues.wake[p] < now + PERIOD
                     \/ status'[p] = "COMPLETE"
  <2>1. CASE UNCHANGED queues
    BY <2>1 DEF Sleeping
  <2>2. ASSUME ~PickFaults(queues, now)
        PROVE  \/ p \in Range(QueuesAfterPick(queues, now).sched)
               \/ queues.wake[p] < now + PERIOD
    BY <2>2, QueueParts, PickIsNotEarly DEF Sleeping
  <2>3. CASE CreateTask
    <3>1. CASE Fault("overrun")
      BY <2>1, <3>1 DEF Fault, taskVars
    <3>2. CASE nextPid < MAX_TASKS /\ queues' = QueueTask(queues, nextPid, TRUE)
      <4>1. nextPid \in Pids /\ nextPid \notin Members(queues)
        BY <3>2, PidFacts, QueueParts DEF FullInv, IInv
      <4>2. PICK fits \in BOOLEAN : queues' = QueueTask(queues, nextPid, fits)
        BY <3>2
      <4>3. Range(queues.sched) \subseteq Range(queues'.sched)
        BY <4>1, <4>2, QueueParts, QueueFacts
      <4> QED BY <4>3 DEF Sleeping
    <3> QED BY <2>3, <3>1, <3>2 DEF CreateTask
  <2>4. CASE SyscallYield
    BY <2>1, <2>2, <2>4 DEF SyscallYield, Fault, taskVars
  <2>5. CASE SysTick
    BY <2>1, <2>2, <2>5 DEF SysTick, Fault, taskVars
  <2>6. ASSUME NEW t \in SLEEP_TIMES, SyscallSleepUntil(t) PROVE Goal
    <3>1. CASE Fault("listfault")
      BY <2>1, <3>1 DEF Fault, taskVars
    <3>2. CASE ~Fault("listfault")
      BY <2>6, <3>2, SleepParts, PickIsNotEarly
    <3> QED BY <3>1, <3>2
  <2>7. CASE SyscallDie
    <3>1. running \in Pids /\ Kill(running)
      BY <2>7, TrapFacts DEF SyscallDie, UserTraps
    <3>2. CASE Fault("listfault")
      BY <2>1, <3>2 DEF Fault, taskVars
    <3>3. CASE /\ ~PickFaults(queues, now)
               /\ status' = [status EXCEPT ![running] = "COMPLETE"]
               /\ queues' = DequeueTask(QueuesAfterPick(queues, now), running)
      <4>1. p = running => status'[p] = "COMPLETE"
        BY <3>1, <3>3 DEF FullInv, IInv, TypeOK
      <4> DEFINE q == QueuesAfterPick(queues, now)
      <4>2. q \in QueueType(Pids) /\ Consistent(q)
        BY <3>3, QueueParts, PickFacts
      <4> HIDE DEF q
      <4>3. Range(q.sched) \ {running} \subseteq Range(queues'.sched)
        BY <3>1, <3>3, <4>2, DequeueFacts DEF q
      <4> QED BY <2>2, <3>3, <4>1, <4>3 DEF q
    <3> QED BY <3>1, <3>2, <3>3 DEF Kill
  <2>8. CASE \/ Start \/ Advance \/ SyscallEscalates
             \/ PendSVEntry \/ PendSVSwitch \/ PendSVReturn
    BY <2>1, <2>8 DEF Start, Advance, SyscallEscalates, PendSVEntry, PendSVSwitch,
                      PendSVReturn, Fault, taskVars
  <2> QED BY <2>3, <2>4, <2>5, <2>6, <2>7, <2>8
       DEF Next, MainCreatesTask, SyscallCreateTask
<1> QED BY <1>1, TaskInvariantHolds, PTL DEF Spec, NeverEarly

-----------------------------------------------------------------------------
(* Tasks that never end                                                    *)

\* No task is dead, none is marked RUNNING before tasking starts, and then
\* exactly the running one is.
MarkInv ==
  /\ \A p \in Created : status[p] # "COMPLETE"
  /\ cpu = "boot" => \A p \in Created : status[p] = "SLEEPING"
  /\ cpu \in {"thread", "pendsv_entry", "pendsv_exit"} =>
       \A p \in Created : status[p] = "RUNNING" <=> p = running

\* Steps that mark no task.
LEMMA FrameMarkInv ==
  ASSUME MarkInv, UNCHANGED <<nextPid, status, running>>,
         \/ cpu' \in Faults \union {cpu}
         \/ /\ cpu \in {"thread", "pendsv_entry", "pendsv_exit"}
            /\ cpu' # "boot"
  PROVE  MarkInv'
BY DEF MarkInv, Created, Faults

\* A new task is marked SLEEPING.
LEMMA CreateMarkInv ==
  ASSUME FullInv, MarkInv, CreateTask
  PROVE  MarkInv'
<1>1. CASE Fault("overrun")
  BY <1>1, FrameMarkInv DEF Fault, taskVars, coreVars, Faults
<1>2. CASE /\ nextPid < MAX_TASKS
           /\ nextPid' = nextPid + 1
           /\ status' = [status EXCEPT ![nextPid] = "SLEEPING"]
           /\ UNCHANGED <<coreVars, cpu>>
  <2>1. /\ nextPid \in Pids /\ nextPid \notin Created
        /\ Created' = Created \union {nextPid}
    BY <1>2, PidFacts DEF FullInv, IInv, Created
  <2>2. \A p \in Pids : status'[p] = IF p = nextPid THEN "SLEEPING" ELSE status[p]
    BY <1>2 DEF FullInv, IInv, TypeOK
  <2>3. cpu \in {"thread", "pendsv_entry", "pendsv_exit"} => running # nextPid
    BY <2>1 DEF FullInv, IInv, CorePidsCreated
  <2> QED BY <1>2, <2>1, <2>2, <2>3, QueueParts DEF MarkInv, coreVars
<1> QED BY <1>1, <1>2 DEF CreateTask

LEMMA BootMarkInv == BootState => MarkInv
<1>1. BootState => Created = {SpinPid} /\ SpinPid \in Pids
  BY KernelAssumption DEF BootState, Pids, SpinPid, Created
<1> QED BY <1>1 DEF BootState, MarkInv

\* MarkInv is inductive: only a context switch and the start mark a task RUNNING.
LEMMA NextMarkInv ==
  ASSUME KILLABLE = {}, MORTAL = {}, FullInv, MarkInv, [Next]_vars
  PROVE  MarkInv'
<1>1. CASE MainCreatesTask \/ SyscallCreateTask
  BY <1>1, CreateMarkInv DEF MainCreatesTask, SyscallCreateTask
<1>2. CASE Start
  <2>1. \A p \in Pids : status'[p] = IF p = SpinPid THEN "RUNNING" ELSE status[p]
    BY <1>2 DEF Start, FullInv, IInv, TypeOK
  <2>2. Created' = Created /\ running' = SpinPid /\ cpu' = "thread"
    BY <1>2 DEF Start, Created
  <2>3. \A p \in Created : status[p] = "SLEEPING"
    BY <1>2 DEF Start, MarkInv
  <2> QED BY <2>1, <2>2, <2>3, QueueParts DEF MarkInv
<1>3. CASE PendSVSwitch
  <2>1. CASE UNCHANGED <<status, running>>
    BY <1>3, <2>1, FrameMarkInv DEF PendSVSwitch
  <2>2. CASE ContextSwitch
    <3>1. /\ Created' = Created /\ running' = queued
          /\ cpu = "pendsv_entry" /\ cpu' = "pendsv_exit"
      BY <1>3, <2>2 DEF PendSVSwitch, ContextSwitch, Created
    <3>2. \A p \in Created : status'[p] =
            IF p = queued THEN "RUNNING"
            ELSE IF p = running /\ status[p] = "RUNNING" THEN "SLEEPING"
            ELSE status[p]
      BY <2>2, QueueParts DEF ContextSwitch
    <3> QED BY <3>1, <3>2 DEF MarkInv
  <2> QED BY <1>3, <2>1, <2>2 DEF PendSVSwitch
<1>4. CASE SyscallDie
  BY <1>4 DEF SyscallDie
<1>5. ASSUME NEW v \in KILLABLE, SyscallKill(v) PROVE MarkInv'
  BY <1>5
<1>6. ASSUME NEW t \in SLEEP_TIMES, SyscallSleepUntil(t) PROVE MarkInv'
  BY <1>6, FrameMarkInv DEF SyscallSleepUntil, Fault, taskVars, coreVars, Faults
<1>7. CASE SyscallYield \/ SysTick \/ SyscallEscalates
  BY <1>7, FrameMarkInv DEF SyscallYield, SysTick, SyscallEscalates, Fault,
     taskVars, coreVars, Faults
<1>8. CASE Advance \/ PendSVEntry \/ PendSVReturn \/ UNCHANGED vars
  BY <1>8, FrameMarkInv
     DEF Advance, PendSVEntry, PendSVReturn, taskVars, coreVars, vars
<1> QED BY <1>1, <1>2, <1>3, <1>4, <1>5, <1>6, <1>7, <1>8 DEF Next

LEMMA MarkInvariantHolds ==
  ASSUME KILLABLE = {}, MORTAL = {}
  PROVE  Spec => [](FullInv /\ MarkInv)
<1>1. FullInv /\ MarkInv /\ [Next]_vars => MarkInv'
  BY NextMarkInv
<1> QED BY <1>1, BootMarkInv, TaskInvariantHolds, PTL DEF Init, Spec

\* What they say of the task that executes.
LEMMA RunningParts ==
  ASSUME FullInv, MarkInv, TaskRuns
  PROVE  /\ cpu = "thread" /\ queued = running /\ running \in Ready
         /\ status[running] = "RUNNING"
         /\ \A p \in Created : status[p] = "RUNNING" => p = running
<1>1. cpu = "thread" /\ queued = running /\ running \in Created
  BY DEF TaskRuns, FullInv, IInv, CorePidsCreated, TaskInv, NoneOnTheWay
<1>2. running \in Ready
  BY <1>1 DEF FullInv, TaskInv, QueuedInRing, MarkInv
<1> QED BY <1>1, <1>2 DEF MarkInv

\* If no task dies or is killed, the task whose instructions execute is the one
\* last selected, is in the ring, and is the only one marked RUNNING.  The run
\* die shows that tasks must not die; that they must not be killed, see above.
THEOREM RunningIsReady ==
  ASSUME KILLABLE = {}, MORTAL = {}
  PROVE  Spec => []RunningTaskReady
<1>1. FullInv /\ MarkInv => RunningTaskReady
  BY RunningParts DEF RunningTaskReady
<1> QED BY <1>1, MarkInvariantHolds, PTL

-----------------------------------------------------------------------------
(* Looking up items                                                        *)

\* While the spin task is in the ring there is something to pick.
LEMMA PickFindsTask ==
  ASSUME NEW q, SpinPid \in Range(q.unsched)
  PROVE  ~PickFaults(q, now)
<1>1. q.unsched # <<>>
  BY DEF Range
<1> QED BY <1>1 DEF PickFaults

\* A task that executes and has not died is in the ring.
LEMMA CallerInRing ==
  ASSUME FullInv, Traps, status[running] # "COMPLETE"
  PROVE  running \in Range(queues.unsched) /\ running \in Pids
<1>1. /\ queued = running /\ cpu = "thread" /\ running \in Pids
  BY TrapFacts
<1>2. queued \in Ready
  BY <1>1 DEF FullInv, TaskInv, QueuedInRing
<1> QED BY <1>1, <1>2 DEF Ready

\* A task in the ring is found by dequeue_task.
LEMMA DequeueFinds ==
  ASSUME NEW q, Consistent(q), NEW p \in Range(q.unsched)
  PROVE  ~DequeueFaults(q, p)
BY DEF Consistent, DequeueFaults, ListRemoveFaults

\* After the executing task has gone to sleep the spin task is still there.
LEMMA SleepLeavesSpin ==
  ASSUME FullInv, NEW t \in SLEEP_TIMES, UserTraps, NEW fits \in QueueSort(t)
  PROVE  SpinPid \in Range(QueuesAfterSleep(t, fits).unsched)
<1>1. /\ running \in Pids /\ running \in Created /\ running # SpinPid
      /\ t \in Nat /\ fits \in BOOLEAN
  BY TrapFacts, KernelAssumption DEF UserTraps, QueueSort
<1>2. Range(queues.unsched) \ {running} \subseteq Range(QueuesAfterSleep(t, fits).unsched)
  BY <1>1, QueueParts, SleepKeepsQueues
<1> QED BY <1>1, <1>2, QueueParts

\* Without kills, wherever ticks fall and whatever tasks call: SysTick, and the
\* calls of a task that has not died, never look up an item that is not there.
THEOREM ListFaultsOnlyAfterDeath ==
  ASSUME KILLABLE = {}
  PROVE  Spec => []ListFaultsOnlyOfDead
<1>1. Init => ListFaultsOnlyOfDead
  BY DEF Init, BootState, ListFaultsOnlyOfDead
<1>2. FullInv /\ ListFaultsOnlyOfDead /\ [Next]_vars => ListFaultsOnlyOfDead'
  <2> SUFFICES ASSUME FullInv, ListFaultsOnlyOfDead, [Next]_vars,
                      cpu' = "listfault", UNCHANGED <<status, running>> => cpu # "listfault"
               PROVE  status'[running'] = "COMPLETE"
    BY DEF ListFaultsOnlyOfDead
  <2>pick. ~PickFaults(queues, now)
    BY PickFindsTask, QueueParts
  <2>1. CASE MainCreatesTask \/ SyscallCreateTask
    BY <2>1 DEF MainCreatesTask, SyscallCreateTask, CreateTask, Fault, UserTraps,
       Traps, TaskRuns
  <2>2. CASE SyscallYield
    BY <2>2, <2>pick DEF SyscallYield, Traps, TaskRuns
  <2>3. CASE SyscallDie
    <3>1. Traps /\ Kill(running)
      BY <2>3 DEF SyscallDie, UserTraps
    <3>2. /\ DequeueFaults(QueuesAfterPick(queues, now), running)
          /\ UNCHANGED <<status, running>>
      BY <2>pick, <3>1 DEF Kill, Fault, taskVars, coreVars, Traps, TaskRuns
    <3>3. CASE status[running] = "COMPLETE"
      BY <3>2, <3>3
    <3>4. CASE status[running] # "COMPLETE"
      <4> DEFINE q == QueuesAfterPick(queues, now)
      <4>1. running \in Range(queues.unsched)
        BY <3>1, <3>4, CallerInRing
      <4>2. Consistent(q) /\ Range(queues.unsched) \subseteq Range(q.unsched)
        BY <2>pick, QueueParts, PickFacts
      <4> HIDE DEF q
      <4>3. ~DequeueFaults(q, running)
        BY <4>1, <4>2, DequeueFinds
      <4> QED BY <3>2, <4>3 DEF q
    <3> QED BY <3>3, <3>4
  <2>4. ASSUME NEW t \in SLEEP_TIMES, SyscallSleepUntil(t)
        PROVE  status'[running'] = "COMPLETE"
    <3>1. UserTraps /\ Traps
      BY <2>4 DEF SyscallSleepUntil, UserTraps
    <3>2. \A fits \in QueueSort(t) : ~PickFaults(QueuesAfterSleep(t, fits), now)
      BY <3>1, SleepLeavesSpin, PickFindsTask
    <3>3. DequeueFaults(queues, running) /\ UNCHANGED <<status, running>>
      BY <2>4, <3>1, <3>2 DEF SyscallSleepUntil, Fault, taskVars, coreVars, Traps,
         TaskRuns
    <3>4. status[running] = "COMPLETE"
      BY <3>1, <3>3, CallerInRing, DequeueFinds, QueueParts
    <3> QED BY <3>3, <3>4
  <2>5. ASSUME NEW v \in KILLABLE, SyscallKill(v) PROVE status'[running'] = "COMPLETE"
    BY <2>5
  <2>6. CASE SyscallEscalates
    BY <2>6 DEF SyscallEscalates, Fault
  <2>7. CASE SysTick
    BY <2>7, <2>pick DEF SysTick
  <2>8. CASE Start \/ Advance \/ PendSVEntry \/ PendSVSwitch \/ PendSVReturn
    BY <2>8 DEF Start, Advance, PendSVEntry, PendSVSwitch, PendSVReturn
  <2>9. CASE UNCHANGED vars
    BY <2>9 DEF vars
  <2> QED BY <2>1, <2>2, <2>3, <2>4, <2>5, <2>6, <2>7, <2>8, <2>9 DEF Next
<1> QED BY <1>1, <1>2, TaskInvariantHolds, PTL DEF Spec

-----------------------------------------------------------------------------
(* The order of the scheduled queue.  gkrtos_list_insert_sorted compares    *)
(* the new task with the first two items at most, and from what it reads   *)
(* beyond them.  A task that joins two sleepers or more, and is not first, *)
(* may therefore go to the wrong place (the run sort shows it); everything *)
(* else that happens to the queue keeps it in order.                       *)

SortedQueue(q) ==
  \A i, j \in 1 .. Len(q.sched) : i < j => q.wake[q.sched[i]] <= q.wake[q.sched[j]]

\* A list without repetitions of one task, or of two, is no longer than that.
LEMMA ShortLists ==
  ASSUME NEW S, NEW s \in Seq(S), IsInjective(s), NEW a, NEW b,
         Range(s) \subseteq {a, b}
  PROVE  Len(s) <= 2 /\ (a = b => Len(s) <= 1)
<1>1. Len(s) \in Nat /\ DOMAIN s = 1 .. Len(s)
  BY LenProperties
<1>2. \A i \in 1 .. Len(s) : s[i] = a \/ s[i] = b
  BY <1>1 DEF Range
<1>3. \A i, j \in 1 .. Len(s) : s[i] = s[j] => i = j
  BY <1>1 DEF IsInjective
<1> QED BY <1>1, <1>2, <1>3

\* Nobody can be out of order in a list of one.
LEMMA OneIsSorted ==
  ASSUME NEW q \in QueueType(Pids), Len(q.sched) <= 1
  PROVE  SortedQueue(q)
<1>1. Len(q.sched) \in Nat
  BY LenProperties DEF QueueType
<1> QED BY <1>1 DEF SortedQueue

\* Removing the head moves every other item one place to the front.
LEMMA RemoveHeadIndex ==
  ASSUME NEW S, NEW s \in Seq(S), IsInjective(s), s # <<>>
  PROVE  LET r == ListRemove(s, Head(s)) IN
         /\ Len(r) = Len(s) - 1
         /\ \A i \in 1 .. Len(s) - 1 : r[i] = s[i + 1]
<1>1. /\ Len(s) \in Nat \ {0} /\ DOMAIN s = 1 .. Len(s) /\ Head(s) = s[1]
  BY LenProperties, EmptySeq
<1>2. {k \in 1 .. Len(s) : s[k] = Head(s)} = {1}
  BY <1>1 DEF IsInjective
<1>3. Min({1}) = 1
  BY DEF Min
<1>4. SelectInSeq(s, LAMBDA v : v = Head(s)) = 1
  BY <1>1, <1>2, <1>3 DEF SelectInSeq
<1>5. ListRemove(s, Head(s)) = RemoveAt(s, 1)
  BY <1>1, <1>4 DEF ListRemove, RemoveFirst
<1>6. 1 \in 1 .. Len(s)
  BY <1>1
<1>7. /\ Len(RemoveAt(s, 1)) = Len(s) - 1
      /\ \A i \in 1 .. Len(s) - 1 :
           RemoveAt(s, 1)[i] = IF i < 1 THEN s[i] ELSE s[i + 1]
  BY <1>6, RemoveAtIndex
<1> DEFINE r == ListRemove(s, Head(s))
<1>8. /\ Len(r) = Len(s) - 1
      /\ \A i \in 1 .. Len(s) - 1 : r[i] = IF i < 1 THEN s[i] ELSE s[i + 1]
  BY <1>5, <1>7
<1> HIDE DEF r
<1>9. \A i \in 1 .. Len(s) - 1 : r[i] = s[i + 1]
  BY <1>1, <1>8
<1> QED BY <1>8, <1>9 DEF r

\* Waking the first sleeper leaves the others in order.
LEMMA PickKeepsSorted ==
  ASSUME NEW q \in QueueType(Pids), Consistent(q), SortedQueue(q)
  PROVE  SortedQueue(QueuesAfterPick(q, now))
<1> DEFINE r == QueuesAfterPick(q, now)
           s == q.sched
           w == q.wake
<1>1. s \in Seq(Pids) /\ IsInjective(s) /\ Len(s) \in Nat /\ w \in [Pids -> Nat]
  BY LenProperties DEF QueueType, Consistent
<1>2. CASE ~HeadIsDue(q, now)
  <2>1. r.sched = q.sched /\ r.wake = q.wake
    BY <1>2 DEF QueuesAfterPick, QueueType
  <2> QED BY <2>1 DEF SortedQueue
<1>3. CASE HeadIsDue(q, now)
  <2>1. /\ s # <<>> /\ r.sched = ListRemove(s, Head(s))
        /\ r.wake = [w EXCEPT ![Head(s)] = NilTime]
    BY <1>3 DEF HeadIsDue, QueuesAfterPick, QueuesAfterWake, QueueType
  <2> HIDE DEF r, s, w
  <2>2. /\ Len(r.sched) = Len(s) - 1
        /\ \A i \in 1 .. Len(s) - 1 : r.sched[i] = s[i + 1]
    BY <1>1, <2>1, RemoveHeadIndex
  <2>3. /\ DOMAIN s = 1 .. Len(s) /\ Head(s) = s[1]
        /\ \A i \in 1 .. Len(s) : s[i] \in Pids
    BY <1>1, <2>1, LenProperties, HeadTailProperties
  <2>4. \A i \in 1 .. Len(s) - 1 : r.wake[r.sched[i]] = w[s[i + 1]]
    <3> SUFFICES ASSUME NEW i \in 1 .. Len(s) - 1
                 PROVE  r.wake[r.sched[i]] = w[s[i + 1]]
      OBVIOUS
    <3>1. i + 1 \in 1 .. Len(s) /\ 1 \in 1 .. Len(s) /\ i + 1 # 1
      BY <1>1
    <3>2. s[i + 1] # Head(s) /\ s[i + 1] \in Pids
      BY <1>1, <2>3, <3>1 DEF IsInjective
    <3> QED BY <1>1, <2>1, <2>2, <3>2
  <2> SUFFICES ASSUME NEW i \in 1 .. Len(r.sched), NEW j \in 1 .. Len(r.sched), i < j
               PROVE  r.wake[r.sched[i]] <= r.wake[r.sched[j]]
    BY DEF SortedQueue, r
  <2>5. /\ i \in 1 .. Len(s) - 1 /\ j \in 1 .. Len(s) - 1
        /\ i + 1 \in 1 .. Len(s) /\ j + 1 \in 1 .. Len(s) /\ i + 1 < j + 1
    BY <1>1, <2>2
  <2>6. w[s[i + 1]] <= w[s[j + 1]]
    BY <2>5 DEF SortedQueue, s, w
  <2> QED BY <2>4, <2>5, <2>6
<1> QED BY <1>2, <1>3

\* A task that joins an ordered queue leaves it in order, or it joins two
\* sleepers or more and does not become the first.
LEMMA QueueKeepsSorted ==
  ASSUME NEW q \in QueueType(Pids), SortedQueue(q), NEW p \in Pids, NEW fits \in BOOLEAN
  PROVE  LET r == QueueTask(q, p, fits) IN
         \/ SortedQueue(r)
         \/ Len(q.sched) >= 2 /\ IsScheduled(q, p) /\ Head(r.sched) = Head(q.sched)
<1> DEFINE r == QueueTask(q, p, fits)
           s == q.sched
           w == q.wake
<1>1. /\ s \in Seq(Pids) /\ w \in [Pids -> Nat] /\ Len(s) \in Nat
      /\ \A i \in 1 .. Len(s) : s[i] \in Pids /\ w[s[i]] \in Nat
      /\ s = <<>> <=> Len(s) = 0
  BY LenProperties, EmptySeq DEF QueueType
<1>2. r.wake = w
  BY DEF QueueTask, QueueType
<1>3. \/ r.sched = s
      \/ s # <<>> /\ w[p] < w[Head(s)] /\ r.sched = <<p>> \o s
      \/ /\ s # <<>> => ~(w[p] < w[Head(s)])
         /\ Len(s) <= 1 /\ r.sched = Append(s, p)
      \/ /\ IsScheduled(q, p) /\ ~(Len(s) <= 1)
         /\ r.sched = InsertAt(s, IF fits THEN 2 ELSE 3, p)
  BY <1>1 DEF QueueTask, ListInsertHead, ListInsertSorted, ListAppend, QueueType
<1>4. \A i, j \in 1 .. Len(s) : i < j => w[s[i]] <= w[s[j]]
  BY DEF SortedQueue
<1>5. SortedQueue(r) <=> \A i, j \in 1 .. Len(r.sched) :
                           i < j => w[r.sched[i]] <= w[r.sched[j]]
  BY <1>2 DEF SortedQueue
<1> SUFFICES \/ SortedQueue(r)
             \/ Len(s) >= 2 /\ IsScheduled(q, p) /\ Head(r.sched) = Head(s)
  OBVIOUS
<1> HIDE DEF r, s, w
<1>6. CASE r.sched = s
  BY <1>4, <1>5, <1>6
<1>7. CASE s # <<>> /\ w[p] < w[Head(s)] /\ r.sched = <<p>> \o s
  <2>1. 1 \in 1 .. Len(s) /\ Head(s) = s[1] /\ Len(s) + 1 \in Nat
    BY <1>1, <1>7
  <2>2. r.sched = InsertAt(s, 1, p)
    BY <1>1, <1>7, EndsAreInsertions
  <2>3. /\ Len(r.sched) = Len(s) + 1
        /\ \A i \in 1 .. Len(s) + 1 :
             r.sched[i] = IF i < 1 THEN s[i] ELSE IF i = 1 THEN p ELSE s[i - 1]
    <3> DEFINE k == 1
    <3>1. k \in 1 .. Len(s) + 1
      BY <1>1
    <3> HIDE DEF k
    <3>2. /\ Len(InsertAt(s, k, p)) = Len(s) + 1
          /\ \A i \in 1 .. Len(s) + 1 :
               InsertAt(s, k, p)[i] = IF i < k THEN s[i]
                                      ELSE IF i = k THEN p ELSE s[i - 1]
      BY <1>1, <3>1, InsertAtIndex
    <3> QED BY <2>2, <3>2 DEF k
  <2>4. \A i \in 1 .. Len(s) : w[s[1]] <= w[s[i]]
    BY <1>1, <1>4, <2>1
  <2>5. ASSUME NEW i \in 1 .. Len(s) + 1, NEW j \in 1 .. Len(s) + 1, i < j
        PROVE  w[r.sched[i]] <= w[r.sched[j]]
    <3>1. j - 1 \in 1 .. Len(s) /\ r.sched[j] = s[j - 1]
      BY <1>1, <2>3, <2>5
    <3>2. CASE i = 1
      <4>1. r.sched[i] = p
        BY <2>3, <3>2
      <4>2. w[p] \in Nat /\ w[s[1]] \in Nat /\ w[s[j - 1]] \in Nat
        BY <1>1, <2>1, <3>1
      <4>3. w[p] < w[s[1]] /\ w[s[1]] <= w[s[j - 1]]
        BY <1>7, <2>1, <2>4, <3>1
      <4>4. w[p] <= w[s[j - 1]]
        BY <4>2, <4>3
      <4> QED BY <3>1, <4>1, <4>4
    <3>3. CASE i # 1
      <4>1. i - 1 \in 1 .. Len(s) /\ r.sched[i] = s[i - 1] /\ i - 1 < j - 1
        BY <1>1, <2>3, <2>5, <3>3
      <4> QED BY <1>4, <3>1, <4>1
    <3> QED BY <3>2, <3>3
  <2> QED BY <1>5, <2>3, <2>5
<1>8. CASE /\ s # <<>> => ~(w[p] < w[Head(s)])
           /\ Len(s) <= 1 /\ r.sched = Append(s, p)
  <2>1. /\ Len(r.sched) = Len(s) + 1 /\ r.sched[Len(s) + 1] = p
        /\ \A i \in 1 .. Len(s) : r.sched[i] = s[i]
    BY <1>1, <1>8, AppendProperties
  <2>2. CASE Len(s) = 0
    BY <1>5, <2>1, <2>2
  <2>3. CASE Len(s) = 1
    <3>1. r.sched[1] = s[1] /\ r.sched[2] = p /\ Len(r.sched) = 2
      BY <2>1, <2>3
    <3>2. w[s[1]] \in Nat /\ w[p] \in Nat /\ ~(w[p] < w[s[1]])
      BY <1>1, <1>8, <2>3
    <3>3. w[s[1]] <= w[p]
      BY <3>2
    <3> QED BY <1>5, <3>1, <3>3
  <2>4. Len(s) = 0 \/ Len(s) = 1
    <3>1. Len(s) \in Nat /\ Len(s) <= 1
      BY <1>1, <1>8
    <3> QED BY <3>1
  <2> QED BY <2>2, <2>3, <2>4
<1>9. CASE /\ IsScheduled(q, p) /\ ~(Len(s) <= 1)
           /\ r.sched = InsertAt(s, IF fits THEN 2 ELSE 3, p)
  <2> DEFINE k == IF fits THEN 2 ELSE 3
  <2>1. k \in 1 .. Len(s) + 1 /\ 1 < k /\ 1 \in 1 .. Len(s) + 1 /\ Len(s) >= 2
    BY <1>1, <1>9
  <2>2. r.sched = InsertAt(s, k, p)
    BY <1>9
  <2> HIDE DEF k
  <2>3. /\ r.sched \in Seq(Pids) /\ Len(r.sched) = Len(s) + 1
        /\ \A i \in 1 .. Len(s) + 1 :
             r.sched[i] = IF i < k THEN s[i] ELSE IF i = k THEN p ELSE s[i - 1]
    BY <1>1, <2>1, <2>2, InsertAtIndex
  <2>4. r.sched[1] = s[1]
    BY <2>1, <2>3
  <2>5. r.sched # <<>> /\ s # <<>>
    BY <1>1, <2>1, <2>3, EmptySeq
  <2>6. Head(r.sched) = Head(s)
    BY <1>1, <2>3, <2>4, <2>5, HeadTailProperties
  <2> QED BY <1>9, <2>1, <2>6
<1> QED BY <1>3, <1>6, <1>7, <1>8, <1>9

\* What the invariant says of the scheduled queue.
LEMMA SleeperFacts ==
  ASSUME FullInv
  PROVE  /\ queues.sched \in Seq(Pids) /\ IsInjective(queues.sched)
         /\ Sleeping = Range(queues.sched) /\ Sleeping \subseteq Pids
         /\ SpinPid \notin Sleeping
<1>1. /\ queues.sched \in Seq(Pids) /\ IsInjective(queues.sched)
      /\ Sleeping = Range(queues.sched)
  BY QueueParts DEF QueueType, Consistent, Sleeping
<1>2. SpinPid \notin Sleeping /\ Sleeping \subseteq Pids
  BY QueueParts, QueuesDisjoint DEF Sleeping, Members
<1> QED BY <1>1, <1>2

\* A task that makes a system call does not sleep.
LEMMA CallerAwake ==
  ASSUME FullInv, UserTraps
  PROVE  running \in Pids \ {SpinPid} /\ running \notin Sleeping
<1>1. /\ queued = running /\ running \in Created /\ running \in Pids
      /\ running # SpinPid /\ cpu = "thread"
  BY TrapFacts DEF UserTraps
<1>2. CASE running \in Ready
  BY <1>1, <1>2, QueueParts, QueuesDisjoint DEF Ready, Sleeping
<1>3. CASE status[running] = "COMPLETE"
  BY <1>1, <1>3 DEF FullInv, TaskInv, LiveTasksQueued, Members, Sleeping
<1> QED BY <1>1, <1>2, <1>3 DEF FullInv, TaskInv, QueuedInRing

\* If one of two is awake at most one sleeps.
LEMMA OneSleeper ==
  ASSUME FullInv, NEW a, NEW b, Sleeping \subseteq {a, b},
         NEW p \in {a, b}, p \notin Sleeping
  PROVE  Len(queues.sched) <= 1
<1>1. PICK c : Sleeping \subseteq {c}
  OBVIOUS
<1>2. Range(queues.sched) \subseteq {c, c}
  BY <1>1, SleeperFacts
<1> QED BY <1>2, SleeperFacts, ShortLists

\* A ready task that goes to sleep is put in order, or joins two others and does
\* not become the first.
LEMMA SleepOrder ==
  ASSUME FullInv, SortedQueue(queues), UserTraps, running \in Ready,
         NEW t \in SLEEP_TIMES, NEW fits \in BOOLEAN
  PROVE  LET q == QueuesAfterSleep(t, fits) IN
         \/ SortedQueue(q)
         \/ /\ Len(queues.sched) >= 2 /\ t # NilTime
            /\ Head(q.sched) = Head(queues.sched)
<1> DEFINE d == DequeueTask(queues, running)
           e == [d EXCEPT !.wake[running] = t]
           q == QueuesAfterSleep(t, fits)
<1>1. q = QueueTask(e, running, fits)
  BY DEF QueuesAfterSleep
<1>2. running \in Pids /\ t \in Nat /\ running \notin Range(queues.sched)
  BY TrapFacts, CallerAwake, KernelAssumption DEF UserTraps, Sleeping
<1>3. /\ running \notin Members(d) /\ d \in QueueType(Pids) /\ Consistent(d)
      /\ d.wake = queues.wake
  BY <1>2, QueueParts, DequeueFacts
<1>4. d.sched = queues.sched
  <2>1. ~IsScheduled(queues, running)
    BY QueueParts DEF Consistent, Ready
  <2> QED BY <2>1, QueueParts DEF DequeueTask, QueueType
<1> HIDE DEF d
<1>5. /\ e \in QueueType(Pids) /\ e.sched = queues.sched
      /\ e.wake = [queues.wake EXCEPT ![running] = t]
  BY <1>2, <1>3, <1>4, SetTimeFacts
<1> HIDE DEF e, q
<1>6. /\ queues.sched \in Seq(Pids) /\ queues.wake \in [Pids -> Nat]
      /\ Len(queues.sched) \in Nat
      /\ \A i \in 1 .. Len(queues.sched) :
           queues.sched[i] \in Pids /\ queues.sched[i] # running
  BY <1>2, QueueParts, LenProperties DEF QueueType, Range
<1>7. /\ \A i \in 1 .. Len(queues.sched) :
           e.wake[e.sched[i]] = queues.wake[queues.sched[i]]
      /\ e.wake[running] = t
  BY <1>2, <1>5, <1>6
<1>8. SortedQueue(e)
  BY <1>5, <1>7 DEF SortedQueue
<1>9. \/ SortedQueue(q)
      \/ /\ Len(e.sched) >= 2 /\ IsScheduled(e, running)
         /\ Head(q.sched) = Head(e.sched)
  BY <1>1, <1>2, <1>5, <1>8, QueueKeepsSorted
<1> QED BY <1>5, <1>7, <1>9 DEF q, IsScheduled

\* The queue that sleep_until leaves, after its selection.
LEMMA SleepOrderLostByThird ==
  ASSUME FullInv, SortedQueue(queues), NEW t \in SLEEP_TIMES, SyscallSleepUntil(t)
  PROVE  SortedQueue(queues') \/ ThirdSleeps
<1>1. CASE Fault("listfault")
  BY <1>1 DEF Fault, taskVars
<1>2. CASE ~Fault("listfault")
  <2>1. PICK fits \in BOOLEAN :
          LET q == QueuesAfterSleep(t, fits) IN
          /\ ~PickFaults(q, now) /\ QueuesOK(q) /\ running \in Ready
          /\ Range(q.sched) = IF t = NilTime THEN Sleeping
                              ELSE Sleeping \union {running}
          /\ queues' = QueuesAfterPick(q, now)
    BY <1>2, SleepParts
  <2> DEFINE q == QueuesAfterSleep(t, fits)
  <2>2. UserTraps
    BY DEF SyscallSleepUntil
  <2>3. /\ q \in QueueType(Pids) /\ Consistent(q) /\ now \in Nat
        /\ ~PickFaults(q, now) /\ queues' = QueuesAfterPick(q, now)
        /\ t # NilTime => running \in Range(q.sched)
    BY <2>1, QueueParts DEF QueuesOK
  <2>4. \/ SortedQueue(q)
        \/ /\ Len(queues.sched) >= 2 /\ t # NilTime
           /\ Head(q.sched) = Head(queues.sched)
    BY <2>1, <2>2, SleepOrder
  <2> HIDE DEF q
  <2>5. CASE SortedQueue(q)
    BY <2>3, <2>5, PickKeepsSorted
  <2>6. CASE /\ Len(queues.sched) >= 2 /\ t # NilTime
             /\ Head(q.sched) = Head(queues.sched)
    <3>1. running \notin Sleeping /\ Sleeping = Range(queues.sched)
      BY <2>2, CallerAwake, SleeperFacts
    <3>2. Head(q.sched) # running
      <4>1. queues.sched \in Seq(Pids) /\ queues.sched # <<>>
        BY <2>6, SleeperFacts, EmptySeq
      <4>2. Head(queues.sched) \in Range(queues.sched)
        BY <4>1, HeadInRange
      <4> QED BY <2>6, <3>1, <4>2
    <3>3. \/ queues'.sched = q.sched
          \/ queues'.sched = ListRemove(q.sched, Head(q.sched))
      BY <2>3 DEF QueuesAfterPick, QueuesAfterWake, QueueType
    <3>4. q.sched \in Seq(Pids) /\ IsInjective(q.sched)
      BY <2>3 DEF QueueType, Consistent
    <3>5. running \in Range(queues'.sched)
      BY <2>3, <2>6, <3>2, <3>3, <3>4, RemoveFacts
    <3> QED BY <2>6, <3>1, <3>5 DEF ThirdSleeps
  <2> QED BY <2>4, <2>5, <2>6
<1> QED BY <1>1, <1>2

\* die takes its caller out of the ring, if it takes it out of anything.
LEMMA DieKeepsOrder ==
  ASSUME FullInv, SortedQueue(queues), SyscallDie
  PROVE  SortedQueue(queues')
<1>1. /\ Kill(running) /\ running \in Pids /\ running \notin Sleeping
      /\ Sleeping = Range(queues.sched)
  BY CallerAwake, SleeperFacts DEF SyscallDie
<1>2. CASE Fault("listfault")
  BY <1>2 DEF Fault, taskVars
<1>3. CASE /\ ~PickFaults(queues, now)
           /\ ~DequeueFaults(QueuesAfterPick(queues, now), running)
           /\ queues' = DequeueTask(QueuesAfterPick(queues, now), running)
  <2> DEFINE q == QueuesAfterPick(queues, now)
  <2>1. SortedQueue(q)
    BY QueueParts, PickKeepsSorted
  <2>2. /\ q \in QueueType(Pids) /\ Consistent(q)
        /\ Range(q.sched) \subseteq Range(queues.sched)
    <3>0. ~PickFaults(queues, now)
      BY <1>3
    <3>1. q \in QueueType(Pids) /\ Consistent(q)
      BY <3>0, QueueParts, PickFacts
    <3>2. \/ Range(q.sched) = Range(queues.sched) /\ q.wake = queues.wake
          \/ \E p \in Range(queues.sched) :
               /\ queues.wake[p] < now + PERIOD
               /\ Range(q.sched) = Range(queues.sched) \ {p}
               /\ q.wake = [queues.wake EXCEPT ![p] = NilTime]
      BY <3>0, QueueParts, PickFacts
    <3> HIDE DEF q
    <3> QED BY <3>1, <3>2
  <2> HIDE DEF q
  <2>3. ~DequeueFaults(q, running) /\ queues' = DequeueTask(q, running)
    BY <1>3 DEF q
  <2>4. running \notin Range(q.sched)
    BY <1>1, <2>2
  <2>5. queues' \in QueueType(Pids) /\ queues'.wake = q.wake
    BY <1>1, <2>2, <2>3, DequeueFacts
  <2>6. CASE ~IsScheduled(q, running)
    <3>1. queues'.sched = q.sched
      BY <2>2, <2>3, <2>6 DEF DequeueTask, QueueType
    <3> QED BY <2>1, <2>5, <3>1 DEF SortedQueue
  <2>7. CASE IsScheduled(q, running)
    <3>1. q.sched = <<>>
      BY <2>3, <2>4, <2>7 DEF DequeueFaults, ListRemoveFaults
    <3>2. queues'.sched = ListRemove(q.sched, running)
      BY <2>2, <2>3, <2>7 DEF DequeueTask, QueueType
    <3>3. queues'.sched = q.sched
      <4>1. Len(q.sched) = 0
        BY <3>1
      <4> QED BY <3>2, <4>1 DEF ListRemove, RemoveFirst
    <3> QED BY <2>1, <2>5, <3>3 DEF SortedQueue
  <2> QED BY <2>6, <2>7
<1> QED BY <1>1, <1>2, <1>3 DEF Kill

\* A new task has no time; if it had one, it would be a sleeper like any other.
LEMMA CreateOrderLostByThird ==
  ASSUME FullInv, SortedQueue(queues), CreateTask
  PROVE  SortedQueue(queues') \/ ThirdSleeps
<1>1. CASE Fault("overrun")
  BY <1>1 DEF Fault, taskVars
<1>2. CASE nextPid < MAX_TASKS /\ queues' = QueueTask(queues, nextPid, TRUE)
  <2>1. nextPid \in Pids /\ nextPid \notin Members(queues)
    BY <1>2, PidFacts, QueueParts DEF FullInv, IInv
  <2>2. PICK fits \in BOOLEAN : queues' = QueueTask(queues, nextPid, fits)
    BY <1>2
  <2>3. \/ SortedQueue(queues')
        \/ Len(queues.sched) >= 2 /\ IsScheduled(queues, nextPid)
    BY <2>1, <2>2, QueueParts, QueueKeepsSorted
  <2>4. IsScheduled(queues, nextPid) =>
          /\ nextPid \in Range(queues'.sched) /\ nextPid \notin Range(queues.sched)
    BY <2>1, <2>2, QueueParts, QueueFacts DEF Members
  <2> QED BY <2>3, <2>4 DEF ThirdSleeps
<1> QED BY <1>1, <1>2 DEF CreateTask

\* No step but that of a third sleeper puts the queue out of order.
LEMMA NextOrder ==
  ASSUME KILLABLE = {}, FullInv, SortedQueue(queues), [Next]_vars
  PROVE  SortedQueue(queues') \/ ThirdSleeps
<1>same. ASSUME UNCHANGED queues PROVE SortedQueue(queues')
  BY <1>same
<1>1. CASE MainCreatesTask \/ SyscallCreateTask
  BY <1>1, CreateOrderLostByThird DEF MainCreatesTask, SyscallCreateTask
<1>2. CASE SyscallYield \/ SysTick
  <2>1. SortedQueue(QueuesAfterPick(queues, now))
    BY QueueParts, PickKeepsSorted
  <2> QED BY <1>2, <1>same, <2>1 DEF SyscallYield, SysTick, Fault, taskVars
<1>3. CASE SyscallDie
  BY <1>3, DieKeepsOrder
<1>4. ASSUME NEW t \in SLEEP_TIMES, SyscallSleepUntil(t)
      PROVE  SortedQueue(queues') \/ ThirdSleeps
  BY <1>4, SleepOrderLostByThird
<1>5. ASSUME NEW v \in KILLABLE, SyscallKill(v)
      PROVE  SortedQueue(queues') \/ ThirdSleeps
  BY <1>5
<1>6. CASE \/ Start \/ Advance \/ SyscallEscalates
           \/ PendSVEntry \/ PendSVSwitch \/ PendSVReturn \/ UNCHANGED vars
  BY <1>6, <1>same DEF Start, Advance, SyscallEscalates, PendSVEntry,
     PendSVSwitch, PendSVReturn, Fault, taskVars, vars
<1> QED BY <1>1, <1>2, <1>3, <1>4, <1>5, <1>6 DEF Next

\* For any number of tasks, wherever ticks fall and whatever queue_sort reads:
\* the scheduled queue goes out of order only when a task joins two sleepers or
\* more.  Wake-ups, deaths, and a task that goes to sleep first or second, or
\* ahead of all others, keep it in order.
THEOREM OrderKeptButForThird ==
  ASSUME KILLABLE = {}
  PROVE  Spec => OrderLostOnlyByThird
<1>1. ScheduledSorted <=> SortedQueue(queues)
  BY DEF ScheduledSorted, IsSorted, SortedQueue
<1>2. ScheduledSorted' <=> SortedQueue(queues')
  BY DEF ScheduledSorted, IsSorted, SortedQueue
<1>3. FullInv /\ [Next]_vars =>
        [ScheduledSorted /\ ~ScheduledSorted' => ThirdSleeps]_vars
  BY <1>1, <1>2, NextOrder
<1> QED BY <1>3, TaskInvariantHolds, PTL DEF Spec, OrderLostOnlyByThird

\* Whenever the queue is in order, a SysTick that finds tasks due serves the
\* earliest.
LEMMA OrderServesDue ==
  ASSUME TypeOK, ScheduledSorted, Next, systick, ~systick',
         NEW p \in Created, Due(p)
  PROVE  /\ Due(queued')
         /\ \A s \in Sleeping : queues.wake[queued'] <= queues.wake[s]
<1> DEFINE h == Head(queues.sched)
           w == queues.wake
<1>1. /\ queues.sched \in Seq(Pids) /\ w \in [Pids -> Nat] /\ now \in Nat
      /\ PERIOD \in Nat
  BY PeriodAssumption DEF TypeOK, QueueType
<1>2. p \in Range(queues.sched) /\ w[p] < now + PERIOD
  BY DEF Due, Sleeping
<1>3. queues.sched # <<>> /\ h = queues.sched[1] /\ h \in Pids /\ h \in Sleeping
  <2>1. queues.sched # <<>>
    BY <1>2 DEF Range
  <2> QED BY <1>1, <2>1, HeadInRange, HeadTailProperties DEF Sleeping
<1>4. \A s \in Sleeping : s \in Pids /\ w[h] <= w[s]
  <2> SUFFICES ASSUME NEW s \in Sleeping PROVE s \in Pids /\ w[h] <= w[s]
    OBVIOUS
  <2>1. PICK i \in 1 .. Len(queues.sched) : s = queues.sched[i]
    BY <1>1 DEF Sleeping, Range
  <2>2. s \in Pids /\ Len(queues.sched) \in Nat
    BY <1>1, <2>1, LenProperties
  <2>3. CASE i = 1
    BY <1>1, <1>3, <2>1, <2>2, <2>3
  <2>4. CASE i # 1
    BY <1>3, <2>1, <2>2, <2>4 DEF ScheduledSorted, IsSorted
  <2> QED BY <2>2, <2>3, <2>4
<1>5. HeadIsDue(queues, now) /\ w[h] < now + PERIOD
  <2>1. p \in Sleeping /\ p \in Pids
    BY <1>2, <1>4 DEF Sleeping
  <2>2. w[h] <= w[p] /\ w[h] \in Nat /\ w[p] \in Nat
    BY <1>1, <1>3, <1>4, <2>1
  <2>3. w[h] < now + PERIOD
    BY <1>1, <1>2, <2>2
  <2> QED BY <1>3, <2>3 DEF HeadIsDue
<1>6. queued' = h
  <2>1. PickedTask(queues, now) = h /\ RescheduleRequired
    BY <1>5 DEF PickedTask, RescheduleRequired
  <2>2. SysTick
    BY DEF Next, MainCreatesTask, Start, Advance, SyscallYield, SyscallDie, Kill,
           SyscallCreateTask, CreateTask, SyscallSleepUntil, SyscallKill,
           SyscallEscalates, PendSVEntry, PendSVSwitch, PendSVReturn, Fault
  <2> QED BY <2>1, <2>2 DEF SysTick, Fault, QueueContextSwitch
<1> QED BY <1>3, <1>4, <1>5, <1>6 DEF Due

\* In a behaviour in which no task joins two sleepers or more, the queue stays
\* in order and a SysTick that finds tasks due before the next one always queues
\* a switch to the one that is due first.  The run sort shows that the condition
\* is needed.
THEOREM DueServedFirst ==
  ASSUME KILLABLE = {}
  PROVE  Spec /\ [][~ThirdSleeps]_vars => SystickServesDue
<1>1. Init => ScheduledSorted
  BY DEF Init, BootState, ScheduledSorted, IsSorted
<1>2. /\ ScheduledSorted /\ [ScheduledSorted /\ ~ScheduledSorted' => ThirdSleeps]_vars
      /\ [~ThirdSleeps]_vars
      => ScheduledSorted'
  BY DEF vars, ScheduledSorted, IsSorted
<1>3. FullInv /\ ScheduledSorted /\ [Next]_vars =>
      [systick /\ ~systick' /\ (\E p \in Created : Due(p)) =>
         /\ Due(queued')
         /\ \A p \in Sleeping : queues.wake[queued'] <= queues.wake[p]]_vars
  BY OrderServesDue DEF FullInv, IInv
<1> QED BY <1>1, <1>2, <1>3, OrderKeptButForThird, TaskInvariantHolds, PTL
       DEF Spec, OrderLostOnlyByThird, SystickServesDue
=============================================================================
