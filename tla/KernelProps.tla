----------------------------- MODULE KernelProps -----------------------------
(***************************************************************************)
(* What the scheduler of Kernel.tla must and must not do.                  *)
(***************************************************************************)
EXTENDS Kernel

Ready == Range(queues.unsched)
Sleeping == Range(queues.sched)

\* Every variable stays in its range: pids within the task list, one wake-up
\* time per task, a processor state that the code can put the core in.
TypeOK ==
  /\ now \in Nat /\ systick \in BOOLEAN
  /\ nextPid \in 2 .. MAX_TASKS
  /\ status \in [Pids -> Statuses]
  /\ queues \in QueueType(Pids)
  /\ running \in Pids \union {BootPid} /\ queued \in Pids \union {BootPid}
  /\ switchedAt \in Nat
  /\ pendsv \in BOOLEAN /\ primask \in BOOLEAN
  /\ cpu \in CpuStates

\* A task is never twice in a queue nor in both, next_run_time always names the
\* queue that holds it (dequeue_task trusts it to find the item), and only
\* created tasks are queued.
QueueMembership == Consistent(queues) /\ Members(queues) \subseteq Created

\* A created task is in one of the queues until it dies, and never after: no
\* sequence of system calls, wake-ups and preemptions loses a task.
LiveTasksQueued ==
  \A p \in Created : p \in Members(queues) <=> status[p] # "COMPLETE"

\* The task whose instructions execute is the one that was last selected, is
\* the only one marked RUNNING, and is neither asleep nor dead, whatever
\* SysTick did between the system call and the context switch.
RunningTaskReady ==
  TaskRuns =>
    /\ queued = running
    /\ running \in Ready
    /\ status[running] = "RUNNING"
    /\ \A p \in Created : status[p] = "RUNNING" => p = running

\* Interrupts are enabled whenever a task executes: what PendSV disables for
\* its critical region it restores.
InterruptsRestored == cpu = "thread" => ~primask

\* A switch is on its way: PendSV is pending, or it saves registers.
OnItsWay == pendsv \/ cpu = "pendsv_entry"

\* PendSV will find, or has found, that it has nothing to switch to, and leaves
\* interrupts disabled.  That comes of selecting the running task after all, or
\* of triggering PendSV again in its own prologue.
Upset ==
  \/ primask
  \/ OnItsWay /\ queued = running
  \/ cpu = "pendsv_entry" /\ pendsv

\* Interrupts get lost in one way only: SysTick is taken while a switch is on
\* its way.  No sequence of calls, creations, kills and deaths, and no tick at
\* any other moment, leads PendSV into its early return.
SwitchUpsetOnlyByTick ==
  [][Upset' => Upset \/ (OnItsWay /\ systick /\ ~systick')]_vars

\* An item that is not there is looked up in one situation only, if no task is
\* killed by another: in a call of a task that has died and still executes.
\* SysTick, and the calls of all other tasks, find what next_run_time promises.
ListFaultsOnlyOfDead == cpu = "listfault" => status[running] = "COMPLETE"

\* A task that called die, or was killed, executes no further instruction.
DeadNeverRuns == TaskRuns => status[running] # "COMPLETE"

\* The scheduled queue is in order of next_run_time; get_next_task and
\* rescheduling_required look at its head only.
ScheduledSorted == IsSorted(queues.sched, LAMBDA p, q :
                              queues.wake[p] <= queues.wake[q])

\* A task goes to sleep while two others sleep already.
ThirdSleeps ==
  Len(queues.sched) >= 2 /\ Range(queues'.sched) \ Range(queues.sched) # {}

\* The order gets lost in one way only: one more task is put into a queue of two
\* or more.  Wake-ups, deaths, a second sleeper and a new head keep it.
OrderLostOnlyByThird ==
  [][ScheduledSorted /\ ~ScheduledSorted' => ThirdSleeps]_vars

\* A task that died is never marked RUNNING again.
DeadStaysDead ==
  [][\A p \in Created : status[p] = "COMPLETE" => status'[p] = "COMPLETE"]_vars

\* A sleeping task leaves the scheduled queue alive only within a period of
\* its next_run_time, whoever else runs, dies or is preempted meanwhile.
NeverEarly ==
  [][\A p \in Sleeping :
       \/ p \in Range(queues'.sched)
       \/ queues.wake[p] < now + PERIOD
       \/ status'[p] = "COMPLETE"]_vars

\* When SysTick finds tasks due before the next tick, it queues a switch to
\* one whose next_run_time is the earliest (tasking.h: "on the systick before
\* this time is reached, the task will be context switched to").
Due(p) == p \in Sleeping /\ queues.wake[p] < now + PERIOD
SystickServesDue ==
  [][systick /\ ~systick' /\ (\E p \in Created : Due(p)) =>
       /\ Due(queued')
       /\ \A p \in Sleeping : queues.wake[queued'] <= queues.wake[p]]_vars

-----------------------------------------------------------------------------
(* The abstract specification                                              *)

\* What a task is to a program, read from the task list and the queues.
Phase == [p \in Pids |->
  IF p \notin Created THEN "unborn"
  ELSE IF status[p] = "COMPLETE" THEN "dead"
  ELSE IF p \in Sleeping THEN "asleep"
  ELSE "ready"]

Promise == INSTANCE Lifecycle WITH
  Tasks <- Pids, Nobody <- BootPid, Times <- SLEEP_TIMES, Horizon <- PERIOD,
  phase <- Phase, alarm <- queues.wake, core <- running, clock <- now

\* While no task is killed by another, every step of the kernel is one that a
\* program expects: tasks go to sleep and die by their own calls only, wake by
\* their alarm only, one at a time, and only a ready task is given the core.
ImplementsLifecycle == Promise!Spec
=============================================================================
