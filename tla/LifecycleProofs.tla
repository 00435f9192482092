-------------------------- MODULE LifecycleProofs ---------------------------
(***************************************************************************)
(* Kernel.tla implements Lifecycle.tla while no task is killed by another. *)
(***************************************************************************)
EXTENDS TaskProofs

\* A task that does not exist yet has no time: gkrtos_tasking_task_new does
\* not set one and relies on the task list being zero.
UnbornHaveNoTime == \A p \in Pids \ Created : queues.wake[p] = NilTime

\* What Phase is when the scheduled queue and the statuses are these.
PhaseIn(sched, st) == [p \in Pids |->
  IF p \notin Created THEN "unborn"
  ELSE IF st[p] = "COMPLETE" THEN "dead"
  ELSE IF p \in Range(sched) THEN "asleep"
  ELSE "ready"]

\* The step from q to r wakes no task, or one that is due.
WakesOne(q, r, st) ==
  \/ PhaseIn(r.sched, st) = PhaseIn(q.sched, st) /\ r.wake = q.wake
  \/ \E p \in Pids :
       /\ PhaseIn(q.sched, st)[p] = "asleep" /\ q.wake[p] < now + PERIOD
       /\ PhaseIn(r.sched, st) = [PhaseIn(q.sched, st) EXCEPT ![p] = "ready"]
       /\ r.wake = [q.wake EXCEPT ![p] = 0]

\* Selecting a task wakes at most one sleeper, which is due.
LEMMA PickWakesOne ==
  ASSUME FullInv, NEW q, QueuesOK(q), ~PickFaults(q, now), NEW st,
         \A p \in Range(q.sched) : st[p] # "COMPLETE"
  PROVE  WakesOne(q, QueuesAfterPick(q, now), st)
<1> DEFINE r == QueuesAfterPick(q, now)
<1>1. q \in QueueType(Pids) /\ Consistent(q) /\ now \in Nat
      /\ Range(q.sched) \subseteq Created /\ Created \subseteq Pids
  BY QueueParts DEF QueuesOK, Members
<1>2. \/ Range(r.sched) = Range(q.sched) /\ r.wake = q.wake
      \/ \E p \in Range(q.sched) :
           /\ q.wake[p] < now + PERIOD
           /\ Range(r.sched) = Range(q.sched) \ {p}
           /\ r.wake = [q.wake EXCEPT ![p] = NilTime]
  BY <1>1, PickFacts
<1> HIDE DEF r
<1>3. CASE Range(r.sched) = Range(q.sched) /\ r.wake = q.wake
  <2>1. PhaseIn(r.sched, st) = PhaseIn(q.sched, st)
    BY <1>3 DEF PhaseIn
  <2>2. WakesOne(q, r, st)
    BY <1>3, <2>1 DEF WakesOne
  <2> QED BY <2>2 DEF r
<1>4. ASSUME NEW p \in Range(q.sched),
             q.wake[p] < now + PERIOD,
             Range(r.sched) = Range(q.sched) \ {p},
             r.wake = [q.wake EXCEPT ![p] = NilTime]
      PROVE  WakesOne(q, r, st)
  <2>1. p \in Pids /\ p \in Created /\ st[p] # "COMPLETE"
    BY <1>1, <1>4
  <2>2. PhaseIn(q.sched, st)[p] = "asleep"
    BY <1>4, <2>1 DEF PhaseIn
  <2>3. PhaseIn(r.sched, st) = [PhaseIn(q.sched, st) EXCEPT ![p] = "ready"]
    BY <1>4, <2>1 DEF PhaseIn
  <2> QED BY <1>4, <2>1, <2>2, <2>3 DEF NilTime, WakesOne
<1>5. CASE \E p \in Range(q.sched) :
             /\ q.wake[p] < now + PERIOD
             /\ Range(r.sched) = Range(q.sched) \ {p}
             /\ r.wake = [q.wake EXCEPT ![p] = NilTime]
  BY <1>4, <1>5 DEF r
<1> QED BY <1>2, <1>3, <1>5

\* So it is what Lifecycle allows after a call has changed the caller's phase.
LEMMA SelectWakesOne ==
  ASSUME FullInv, NEW q, QueuesOK(q), ~PickFaults(q, now), NEW st,
         \A p \in Range(q.sched) : st[p] # "COMPLETE",
         Phase' = PhaseIn(QueuesAfterPick(q, now).sched, st),
         queues'.wake = QueuesAfterPick(q, now).wake
  PROVE  Promise!WakeOne(PhaseIn(q.sched, st), q.wake)
<1> DEFINE r == QueuesAfterPick(q, now)
           before == PhaseIn(q.sched, st)
           after == PhaseIn(r.sched, st)
<1>1. WakesOne(q, r, st)
  BY PickWakesOne
<1>2. Phase' = after /\ queues'.wake = r.wake
  OBVIOUS
<1> HIDE DEF r, before, after
<1>3. Promise!WakeOne(before, q.wake)
  <2>1. CASE after = before /\ r.wake = q.wake
    BY <1>2, <2>1 DEF Promise!WakeOne
  <2>2. ASSUME NEW p \in Pids,
               before[p] = "asleep", q.wake[p] < now + PERIOD,
               after = [before EXCEPT ![p] = "ready"],
               r.wake = [q.wake EXCEPT ![p] = 0]
        PROVE  Promise!WakeOne(before, q.wake)
    BY <1>2, <2>2 DEF Promise!WakeOne
  <2> QED BY <1>1, <2>1, <2>2 DEF WakesOne, before, after
<1> QED BY <1>3 DEF before

\* Tasks in the scheduled queue are alive.
LEMMA SleepersAlive ==
  ASSUME FullInv
  PROVE  /\ \A p \in Range(queues.sched) : status[p] # "COMPLETE"
         /\ Phase = PhaseIn(queues.sched, status)
BY QueueParts DEF FullInv, TaskInv, LiveTasksQueued, Members, Sleeping, Phase,
                  PhaseIn

\* PhaseIn of the next state, when no task is created.
LEMMA PhaseNext ==
  ASSUME UNCHANGED nextPid
  PROVE  Phase' = PhaseIn(queues'.sched, status')
BY DEF Phase, PhaseIn, Sleeping, Created

\* yield and SysTick, once they know which task is next, are Reschedules.
LEMMA SelectIsReschedule ==
  ASSUME FullInv, ~PickFaults(queues, now),
         queues' = QueuesAfterPick(queues, now),
         UNCHANGED <<nextPid, status, running, now>>
  PROVE  Promise!Reschedule
<1>1. Phase' = PhaseIn(queues'.sched, status)
  BY PhaseNext
<1>2. Promise!WakeOne(PhaseIn(queues.sched, status), queues.wake)
  BY <1>1, QueueParts, SleepersAlive, SelectWakesOne
<1> QED BY <1>2, SleepersAlive DEF Promise!Reschedule

-----------------------------------------------------------------------------
(* The tasks that do not exist yet                                         *)

\* Steps that give no task a time.
LEMMA PickKeepsUnborn ==
  ASSUME FullInv, NEW q, QueuesOK(q), ~PickFaults(q, now),
         \A p \in Pids \ Created : q.wake[p] = NilTime
  PROVE  \A p \in Pids \ Created : QueuesAfterPick(q, now).wake[p] = NilTime
<1> DEFINE r == QueuesAfterPick(q, now)
<1>1. q \in QueueType(Pids) /\ Consistent(q) /\ now \in Nat
      /\ q.wake \in [Pids -> Nat]
  BY QueueParts DEF QueuesOK, QueueType
<1>2. \/ r.wake = q.wake
      \/ \E p \in Range(q.sched) : r.wake = [q.wake EXCEPT ![p] = NilTime]
  BY <1>1, PickFacts
<1> HIDE DEF r
<1>3. \A p \in Pids \ Created : r.wake[p] = NilTime
  BY <1>1, <1>2
<1> QED BY <1>3 DEF r

\* Only a task that exists sets a time, its own.
LEMMA NextUnborn ==
  ASSUME KILLABLE = {}, FullInv, UnbornHaveNoTime, [Next]_vars
  PROVE  UnbornHaveNoTime'
<1>1. CASE UNCHANGED <<nextPid, queues>>
  BY <1>1 DEF UnbornHaveNoTime, Created
<1>2. ASSUME NEW kind, Fault(kind) PROVE UnbornHaveNoTime'
  BY <1>1, <1>2 DEF Fault, taskVars
<1>3. ASSUME ~PickFaults(queues, now), UNCHANGED nextPid,
             queues' = QueuesAfterPick(queues, now)
      PROVE  UnbornHaveNoTime'
  BY <1>3, QueueParts, PickKeepsUnborn DEF UnbornHaveNoTime, Created
<1>4. CASE CreateTask
  <2>1. CASE nextPid < MAX_TASKS /\ nextPid' = nextPid + 1
             /\ queues' = QueueTask(queues, nextPid, TRUE)
    <3>1. nextPid \in Pids /\ nextPid \notin Members(queues)
          /\ Created' = Created \union {nextPid}
      BY <2>1, PidFacts, QueueParts DEF FullInv, IInv, Created
    <3>2. PICK fits \in BOOLEAN : queues' = QueueTask(queues, nextPid, fits)
      BY <2>1
    <3>3. queues'.wake = queues.wake
      BY <3>1, <3>2, QueueParts, QueueFacts
    <3> QED BY <3>1, <3>3 DEF UnbornHaveNoTime
  <2> QED BY <1>2, <1>4, <2>1 DEF CreateTask
<1>5. CASE SyscallYield \/ SysTick
  BY <1>1, <1>2, <1>3, <1>5 DEF SyscallYield, SysTick, taskVars
<1>6. ASSUME NEW t \in SLEEP_TIMES, SyscallSleepUntil(t)
      PROVE  UnbornHaveNoTime'
  <2>1. CASE ~Fault("listfault")
    <3>1. PICK fits \in BOOLEAN :
            LET q == QueuesAfterSleep(t, fits) IN
            /\ QueuesOK(q) /\ ~PickFaults(q, now)
            /\ q.wake = [queues.wake EXCEPT ![running] = t]
            /\ queues' = QueuesAfterPick(q, now) /\ UNCHANGED nextPid
      BY <1>6, <2>1, SleepParts
    <3> DEFINE q == QueuesAfterSleep(t, fits)
    <3> HIDE DEF q
    <3>2. running \in Created /\ queues.wake \in [Pids -> Nat]
      BY <1>6, TrapFacts, QueueParts DEF SyscallSleepUntil, UserTraps, QueueType
    <3>3. \A p \in Pids \ Created : q.wake[p] = NilTime
      BY <3>1, <3>2 DEF UnbornHaveNoTime, q
    <3>4. \A p \in Pids \ Created : QueuesAfterPick(q, now).wake[p] = NilTime
      BY <3>1, <3>3, PickKeepsUnborn DEF q
    <3> QED BY <3>1, <3>4 DEF UnbornHaveNoTime, Created, q
  <2> QED BY <1>2, <2>1
<1>7. CASE SyscallDie
  <2>1. CASE /\ ~PickFaults(queues, now) /\ UNCHANGED nextPid
             /\ queues' = DequeueTask(QueuesAfterPick(queues, now), running)
    <3> DEFINE q == QueuesAfterPick(queues, now)
    <3>1. q \in QueueType(Pids) /\ Consistent(q) /\ running \in Pids
      BY <1>7, <2>1, QueueParts, PickFacts, TrapFacts DEF SyscallDie, UserTraps
    <3>2. \A p \in Pids \ Created : q.wake[p] = NilTime
      BY <2>1, QueueParts, PickKeepsUnborn DEF UnbornHaveNoTime
    <3> HIDE DEF q
    <3>3. queues'.wake = q.wake
      BY <2>1, <3>1, DequeueFacts DEF q
    <3> QED BY <2>1, <3>2, <3>3 DEF UnbornHaveNoTime, Created
  <2> QED BY <1>2, <1>7, <2>1 DEF SyscallDie, Kill
<1>8. CASE SyscallEscalates
  BY <1>2, <1>8 DEF SyscallEscalates
<1>9. CASE Start \/ Advance \/ PendSVEntry \/ PendSVSwitch \/ PendSVReturn
  BY <1>1, <1>9 DEF Start, Advance, PendSVEntry, PendSVSwitch, PendSVReturn,
                    taskVars
<1> QED BY <1>1, <1>4, <1>5, <1>6, <1>7, <1>8, <1>9
     DEF Next, vars, MainCreatesTask, SyscallCreateTask

-----------------------------------------------------------------------------
(* Every step is one of Lifecycle or changes nothing it can see            *)

\* Phases of the tasks in the ring, and the domain of Phase.
LEMMA ReadyPhase ==
  ASSUME FullInv, NEW p \in Ready
  PROVE  /\ p \in Pids /\ p \in Created /\ status[p] # "COMPLETE"
         /\ p \notin Range(queues.sched) /\ queues.wake[p] = NilTime
         /\ Phase[p] = "ready"
<1>1. /\ p \in Pids /\ p \in Created /\ p \in Members(queues)
      /\ p \notin Range(queues.sched)
  BY QueueParts, QueuesDisjoint DEF Ready, Members
<1>2. status[p] # "COMPLETE"
  BY <1>1 DEF FullInv, TaskInv, LiveTasksQueued
<1>3. queues.wake[p] = NilTime
  BY QueueParts DEF Ready, Consistent, IsScheduled
<1> QED BY <1>1, <1>2, <1>3 DEF Phase, Sleeping

\* What Lifecycle cannot see.
LEMMA Unseen ==
  ASSUME UNCHANGED <<nextPid, status, queues, running, now>>
  PROVE  UNCHANGED Promise!vars
BY DEF Promise!vars, Phase, Created, Sleeping

\* The model's stops change nothing a task can see.
LEMMA FaultUnseen ==
  ASSUME NEW kind, Fault(kind)
  PROVE  UNCHANGED Promise!vars
BY Unseen DEF Fault, taskVars, coreVars

\* create_task
LEMMA CreateIsCreate ==
  ASSUME FullInv, UnbornHaveNoTime, CreateTask
  PROVE  [Promise!Next]_(Promise!vars)
<1>1. CASE nextPid < MAX_TASKS /\ nextPid' = nextPid + 1
           /\ status' = [status EXCEPT ![nextPid] = "SLEEPING"]
           /\ queues' = QueueTask(queues, nextPid, TRUE)
           /\ UNCHANGED <<now, running>>
  <2>1. /\ nextPid \in Pids /\ nextPid \notin Members(queues)
        /\ nextPid \notin Created /\ Created' = Created \union {nextPid}
    BY <1>1, PidFacts, QueueParts DEF FullInv, IInv, Created
  <2>2. PICK fits \in BOOLEAN : queues' = QueueTask(queues, nextPid, fits)
    BY <1>1
  <2>3. queues'.wake = queues.wake /\ Range(queues'.sched) = Range(queues.sched)
    <3>1. ~IsScheduled(queues, nextPid)
      BY <2>1 DEF UnbornHaveNoTime, IsScheduled
    <3>2. /\ queues'.wake = queues.wake
          /\ Range(queues'.sched) = Range(queues.sched)
               \union {x \in {nextPid} : IsScheduled(queues, x)}
      BY <2>1, <2>2, QueueParts, QueueFacts
    <3> QED BY <3>1, <3>2
  <2>4. \A p \in Pids : status'[p] = IF p = nextPid THEN "SLEEPING" ELSE status[p]
    BY <1>1 DEF FullInv, IInv, TypeOK
  <2>5. nextPid \notin Range(queues.sched)
    BY <2>1 DEF Members
  <2>6. Phase' = [Phase EXCEPT ![nextPid] = "ready"]
    BY <2>1, <2>3, <2>4, <2>5 DEF Phase, Sleeping
  <2>7. Phase[nextPid] = "unborn"
    BY <2>1 DEF Phase
  <2> QED BY <1>1, <2>1, <2>3, <2>6, <2>7 DEF Promise!Next, Promise!Create
<1> QED BY <1>1, FaultUnseen DEF CreateTask, coreVars

\* die: the caller's phase becomes "dead", and at most one sleeper wakes.  A
\* task that died already and has not been switched from yet only reschedules.
LEMMA DieIsDie ==
  ASSUME FullInv, SyscallDie
  PROVE  [Promise!Next]_(Promise!vars)
<1>1. CASE /\ ~PickFaults(queues, now)
           /\ status' = [status EXCEPT ![running] = "COMPLETE"]
           /\ queues' = DequeueTask(QueuesAfterPick(queues, now), running)
           /\ UNCHANGED <<now, nextPid, running>>
  <2> DEFINE r == QueuesAfterPick(queues, now)
  <2>1. queued = running /\ running \in Created /\ running \in Pids
        /\ cpu = "thread"
    BY TrapFacts DEF SyscallDie, UserTraps
  <2>2. r \in QueueType(Pids) /\ Consistent(r)
    BY <1>1, QueueParts, PickFacts
  <2> HIDE DEF r
  <2>3. queues'.wake = r.wake /\ Range(queues'.sched) = Range(r.sched) \ {running}
    BY <1>1, <2>1, <2>2, DequeueFacts DEF r
  <2>4. \A p \in Pids : status'[p] = IF p = running THEN "COMPLETE" ELSE status[p]
    BY <1>1 DEF FullInv, IInv, TypeOK
  <2>5. Phase' = PhaseIn(r.sched, status')
    BY <1>1, <2>3, <2>4 DEF Phase, PhaseIn, Sleeping, Created
  <2>6. \A p \in Range(queues.sched) : status'[p] # "COMPLETE"
    <3>1. running \notin Range(queues.sched)
      <4>1. CASE running \in Ready
        BY <4>1, ReadyPhase
      <4>2. CASE status[running] = "COMPLETE"
        BY <4>2, SleepersAlive
      <4> QED BY <2>1, <4>1, <4>2 DEF FullInv, TaskInv, QueuedInRing
    <3> QED BY <2>4, <3>1, SleepersAlive, QueueParts DEF Members
  <2>7. Promise!WakeOne(PhaseIn(queues.sched, status'), queues.wake)
    BY <1>1, <2>3, <2>5, <2>6, QueueParts, SelectWakesOne DEF r
  <2>8. CASE status[running] = "COMPLETE"
    <3>1. PhaseIn(queues.sched, status') = Phase
      BY <2>4, <2>8 DEF Phase, PhaseIn, Sleeping
    <3> QED BY <1>1, <2>7, <3>1 DEF Promise!Next, Promise!Reschedule
  <2>9. CASE running \in Ready
    <3>1. PhaseIn(queues.sched, status') = [Phase EXCEPT ![running] = "dead"]
      BY <2>1, <2>4 DEF Phase, PhaseIn, Sleeping
    <3>2. Phase[running] = "ready"
      BY <2>9, ReadyPhase
    <3> QED BY <1>1, <2>1, <2>7, <3>1, <3>2 DEF Promise!Next, Promise!Die
  <2> QED BY <2>1, <2>8, <2>9 DEF FullInv, TaskInv, QueuedInRing
<1> QED BY <1>1, FaultUnseen DEF SyscallDie, Kill

\* sleep_until: the caller's phase becomes "asleep", and at most one sleeper
\* wakes, the caller included.  With a nil time it is a yield.
LEMMA SleepIsSleep ==
  ASSUME FullInv, NEW t \in SLEEP_TIMES, SyscallSleepUntil(t)
  PROVE  [Promise!Next]_(Promise!vars)
<1>1. CASE ~Fault("listfault")
  <2>1. PICK fits \in BOOLEAN :
          LET q == QueuesAfterSleep(t, fits) IN
          /\ QueuesOK(q) /\ ~PickFaults(q, now) /\ running \in Ready
          /\ Range(q.sched) = IF t = NilTime THEN Sleeping
                              ELSE Sleeping \union {running}
          /\ q.wake = [queues.wake EXCEPT ![running] = t]
          /\ queues' = QueuesAfterPick(q, now)
          /\ UNCHANGED <<now, nextPid, status, running>>
    BY <1>1, SleepParts
  <2> DEFINE q == QueuesAfterSleep(t, fits)
  <2> HIDE DEF q
  <2>2. /\ running \in Pids /\ running \in Created /\ Phase[running] = "ready"
        /\ status[running] # "COMPLETE" /\ queues.wake[running] = NilTime
    BY <2>1, ReadyPhase
  <2>3. Phase' = PhaseIn(QueuesAfterPick(q, now).sched, status)
    BY <2>1, PhaseNext DEF q
  <2>4. \A p \in Range(q.sched) : status[p] # "COMPLETE"
    BY <2>1, <2>2, SleepersAlive DEF Sleeping, q
  <2>5. Promise!WakeOne(PhaseIn(q.sched, status), q.wake)
    BY <2>1, <2>3, <2>4, SelectWakesOne DEF q
  <2>6. queues.wake \in [Pids -> Nat]
    BY QueueParts DEF QueueType
  <2>7. CASE t = NilTime
    <3>1. q.wake = queues.wake
      BY <2>1, <2>2, <2>6, <2>7 DEF q
    <3>2. PhaseIn(q.sched, status) = Phase
      BY <2>1, <2>7 DEF Phase, PhaseIn, q
    <3> QED BY <2>1, <2>5, <3>1, <3>2 DEF Promise!Next, Promise!Reschedule
  <2>8. CASE t # NilTime
    <3>1. PhaseIn(q.sched, status) = [Phase EXCEPT ![running] = "asleep"]
      <4>1. Range(q.sched) = Sleeping \union {running}
        BY <2>1, <2>8 DEF q
      <4> QED BY <2>2, <4>1 DEF Phase, PhaseIn
    <3>2. q.wake = [queues.wake EXCEPT ![running] = t]
      BY <2>1 DEF q
    <3>3. Promise!Sleep(running, t)
      BY <2>1, <2>2, <2>5, <3>1, <3>2 DEF Promise!Sleep
    <3> QED BY <2>2, <3>3 DEF Promise!Next
  <2> QED BY <2>7, <2>8
<1> QED BY <1>1, FaultUnseen

\* A context switch gives the core to a task of the ring.
LEMMA SwitchIsDispatch ==
  ASSUME FullInv, Start \/ PendSVSwitch
  PROVE  [Promise!Next]_(Promise!vars)
<1>1. CASE UNCHANGED <<nextPid, status, queues, running, now>>
  BY <1>1, Unseen
<1>2. ASSUME NEW p \in Ready, running' = p, UNCHANGED <<nextPid, queues, now>>,
             \A x \in Pids : status'[x] = "COMPLETE" <=> status[x] = "COMPLETE"
      PROVE  [Promise!Next]_(Promise!vars)
  <2>1. Phase' = Phase
    BY <1>2 DEF Phase, Created, Sleeping
  <2>2. Promise!Dispatch(p)
    BY <1>2, <2>1, ReadyPhase DEF Promise!Dispatch
  <2> QED BY <2>2, ReadyPhase DEF Promise!Next
<1>3. CASE Start
  <2>1. SpinPid \in Ready /\ status \in [Pids -> Statuses]
    BY DEF FullInv, IInv, TypeOK, TaskInv, SpinInRing
  <2>2. status[SpinPid] # "COMPLETE"
    BY <2>1, ReadyPhase
  <2>3. \A x \in Pids : status'[x] = "COMPLETE" <=> status[x] = "COMPLETE"
    BY <1>3, <2>1, <2>2 DEF Start
  <2> QED BY <1>2, <1>3, <2>1, <2>3 DEF Start
<1>4. CASE PendSVSwitch /\ queued # running /\ ContextSwitch
  <2>1. queued \in Ready
    BY <1>4 DEF PendSVSwitch, FullInv, TaskInv, QueuedInRing
  <2>2. status[queued] # "COMPLETE"
    BY <2>1, ReadyPhase
  <2>3. \A x \in Pids : status'[x] = "COMPLETE" <=> status[x] = "COMPLETE"
    BY <1>4, <2>2 DEF ContextSwitch
  <2> QED BY <1>2, <1>4, <2>1, <2>3 DEF PendSVSwitch, ContextSwitch
<1> QED BY <1>1, <1>3, <1>4 DEF PendSVSwitch

\* yield, and SysTick
LEMMA SelectStep ==
  ASSUME FullInv, SyscallYield \/ SysTick
  PROVE  [Promise!Next]_(Promise!vars)
<1>1. CASE /\ ~PickFaults(queues, now)
           /\ queues' = QueuesAfterPick(queues, now)
           /\ UNCHANGED <<nextPid, status, running, now>>
  BY <1>1, SelectIsReschedule DEF Promise!Next
<1>2. CASE UNCHANGED <<nextPid, status, queues, running, now>>
  BY <1>2, Unseen
<1> QED BY <1>1, <1>2, FaultUnseen DEF SyscallYield, SysTick, taskVars, coreVars

\* Any step of the scheduler.
LEMMA NextIsLifecycle ==
  ASSUME KILLABLE = {}, FullInv, UnbornHaveNoTime, [Next]_vars
  PROVE  [Promise!Next]_(Promise!vars)
<1>1. CASE CreateTask
  BY <1>1, CreateIsCreate
<1>2. CASE SyscallDie
  BY <1>2, DieIsDie
<1>3. ASSUME NEW t \in SLEEP_TIMES, SyscallSleepUntil(t)
      PROVE  [Promise!Next]_(Promise!vars)
  BY <1>3, SleepIsSleep
<1>4. CASE SyscallYield \/ SysTick
  BY <1>4, SelectStep
<1>5. CASE Start \/ PendSVSwitch
  BY <1>5, SwitchIsDispatch
<1>6. CASE Advance
  <2>1. Phase' = Phase
    BY <1>6 DEF Advance, taskVars, Phase, Created, Sleeping
  <2> QED BY <1>6, <2>1 DEF Advance, taskVars, coreVars, Promise!Next,
                            Promise!Pass
<1>7. CASE SyscallEscalates
  BY <1>7, FaultUnseen DEF SyscallEscalates
<1>8. CASE PendSVEntry \/ PendSVReturn \/ UNCHANGED vars
  BY <1>8, Unseen DEF PendSVEntry, PendSVReturn, vars, taskVars, coreVars
<1> QED BY <1>1, <1>2, <1>3, <1>4, <1>5, <1>6, <1>7, <1>8
     DEF Next, MainCreatesTask, SyscallCreateTask

\* Without kills the scheduler keeps every promise of Lifecycle, for any number
\* of tasks and any times: tasks go to sleep and die by their own calls only,
\* wake by their alarm only and one at a time, and only a ready task is given
\* the core.
THEOREM KernelImplementsLifecycle ==
  ASSUME KILLABLE = {}
  PROVE  Spec => ImplementsLifecycle
<1>1. Init => UnbornHaveNoTime /\ Promise!Init
  <2> SUFFICES ASSUME Init PROVE UnbornHaveNoTime /\ Promise!Init
    OBVIOUS
  <2>1. SpinPid \in Pids /\ Created = {SpinPid}
    BY KernelAssumption DEF Init, BootState, Pids, SpinPid, Created
  <2>2. Sleeping = {}
    BY DEF Init, BootState, Sleeping, Range
  <2>3. Phase = [p \in Pids |-> IF p = SpinPid THEN "ready" ELSE "unborn"]
    BY <2>1, <2>2 DEF Init, BootState, Phase
  <2> QED BY <2>3 DEF Init, BootState, UnbornHaveNoTime, NilTime, Promise!Init
<1>2. FullInv /\ UnbornHaveNoTime /\ [Next]_vars => UnbornHaveNoTime'
  BY NextUnborn
<1>3. FullInv /\ UnbornHaveNoTime /\ [Next]_vars => [Promise!Next]_(Promise!vars)
  BY NextIsLifecycle
<1> QED BY <1>1, <1>2, <1>3, TaskInvariantHolds, PTL
     DEF Spec, ImplementsLifecycle, Promise!Spec
=============================================================================
