--------------------------- MODULE CriticalSections ---------------------------
(***************************************************************************)
(* The handlers of Kernel.tla taken apart into what they do one after the  *)
(* other: entering and leaving the critical section of the data structures *)
(* (a spinlock of the SDK that does not know its owner), and the work in   *)
(* and between the sections.  Time passes and SysTick becomes pending      *)
(* between any two steps.  task_next_tick is here too.                     *)
(***************************************************************************)
EXTENDS KernelProps

CONSTANT NEXT_TICKS   \* pids that programs give to task_next_tick, among Pids

VARIABLES
  lock,  \* critical_section_os_data_structures is entered
  todo,  \* the steps left to the handler that executes, none if none does
  next   \* its next_task, once it is selected

sectionVars == <<vars, lock, todo, next>>

SectionsInit == Init /\ lock = FALSE /\ todo = <<>> /\ next = BootPid

-----------------------------------------------------------------------------
(* The functions, as the steps they make                                   *)

Clock == -1   \* stands for get_absolute_time() in a step that stores a time

\* gkrtos_critical_section_data_structures_enter_blocking and _exit around steps
Locked(steps) == <<<<"enter">>>> \o steps \o <<<<"exit">>>>

TaskNew == Locked(<<<<"new">>>>)
GetNextTask == Locked(<<<<"select">>>>)
QueueSwitch == Locked(<<<<"switch">>>>)
TaskingDequeueTask(p) == Locked(<<<<"dequeue", p>>>>)
TaskingQueueTask(p) == Locked(<<<<"queue", p>>>>)
SleepUntil(p, t) ==
  Locked(<<<<"dequeue", p>>, <<"time", p, t>>, <<"queue", p>>, <<"select">>>>)
ScheduleNextTickTask(p) ==
  Locked(TaskingDequeueTask(p) \o <<<<"time", p, Clock>>>> \o TaskingQueueTask(p))
RescheduleRequiredCall == Locked(<<<<"check">>>>)

-----------------------------------------------------------------------------
(* The handlers begin                                                      *)

Begin(steps) == todo = <<>> /\ todo' = steps /\ UNCHANGED <<lock, next>>

CallYield == Traps /\ Begin(GetNextTask \o QueueSwitch) /\ UNCHANGED vars

CallSleepUntil(t) ==
  UserTraps /\ Begin(SleepUntil(running, t) \o QueueSwitch) /\ UNCHANGED vars

\* gkrtos_internal_syscall_kill, of another task or by die.
CallKill(v) ==
  /\ UserTraps /\ (v \in KILLABLE \/ (v = running /\ v \in MORTAL))
  /\ Begin(<<<<"complete", v>>>> \o GetNextTask \o TaskingDequeueTask(v) \o QueueSwitch)
  /\ UNCHANGED vars

\* By a task or, as a plain call, by main.
CallCreateTask ==
  /\ UserTraps \/ cpu = "boot"
  /\ nextPid < MAX_TASKS \/ OVERCREATE
  /\ Begin(TaskNew \o TaskingQueueTask(nextPid)) /\ UNCHANGED vars

CallTaskNextTick ==
  /\ UserTraps /\ \E p \in NEXT_TICKS : Begin(ScheduleNextTickTask(p))
  /\ UNCHANGED vars

TickTaken ==
  /\ systick /\ ~primask /\ cpu \in {"thread", "pendsv_entry", "pendsv_exit"}
  /\ systick' = FALSE /\ Begin(RescheduleRequiredCall)
  /\ UNCHANGED <<now, taskVars, coreVars, pendsv, primask, cpu>>

-----------------------------------------------------------------------------
(* ... and proceed                                                         *)

Doing(step) == todo # <<>> /\ cpu \notin Faults /\ Head(todo)[1] = step
Of == Head(todo)[2]
Done == todo' = Tail(todo)

\* The core goes on when the lock is free, and waits otherwise.
Enter == Doing("enter") /\ ~lock /\ lock' = TRUE /\ Done /\ UNCHANGED <<vars, next>>
Exit == Doing("exit") /\ lock' = FALSE /\ Done /\ UNCHANGED <<vars, next>>

\* A step that dereferences what is not there is the last one.
Stop(kind) == Fault(kind) /\ UNCHANGED <<todo, next>>

Works(after) ==
  /\ Done /\ queues' = after
  /\ UNCHANGED <<now, systick, nextPid, status, coreVars, pendsv, primask, cpu>>

Select ==
  /\ Doing("select") /\ UNCHANGED lock
  /\ \/ PickFaults(queues, now) /\ Stop("listfault")
     \/ /\ ~PickFaults(queues, now)
        /\ Works(QueuesAfterPick(queues, now)) /\ next' = PickedTask(queues, now)

Dequeue ==
  /\ Doing("dequeue") /\ UNCHANGED lock
  /\ \/ DequeueFaults(queues, Of) /\ Stop("listfault")
     \/ /\ ~DequeueFaults(queues, Of)
        /\ Works(DequeueTask(queues, Of)) /\ UNCHANGED next

Queue ==
  /\ Doing("queue") /\ UNCHANGED <<lock, next>>
  /\ \E fits \in QueueSort(queues.wake[Of]) : Works(QueueTask(queues, Of, fits))

StoreTime ==
  /\ Doing("time") /\ UNCHANGED <<lock, next>>
  /\ LET t == Head(todo)[3] IN
     Works([queues EXCEPT !.wake[Of] = IF t = Clock THEN now ELSE t])

New ==
  /\ Doing("new") /\ UNCHANGED lock
  /\ \/ nextPid = MAX_TASKS /\ Stop("overrun")
     \/ /\ nextPid < MAX_TASKS /\ Done /\ UNCHANGED next
        /\ nextPid' = nextPid + 1
        /\ status' = [status EXCEPT ![nextPid] = "SLEEPING"]
        /\ UNCHANGED <<now, systick, queues, coreVars, pendsv, primask, cpu>>

Complete ==
  /\ Doing("complete") /\ Done /\ status' = [status EXCEPT ![Of] = "COMPLETE"]
  /\ UNCHANGED <<now, systick, nextPid, queues, coreVars, pendsv, primask, cpu,
                 lock, next>>

Switch ==
  /\ Doing("switch") /\ Done /\ QueueContextSwitch(next) /\ next' = BootPid
  /\ UNCHANGED <<now, systick, taskVars, running, switchedAt, primask, cpu, lock>>

\* gkrtos_systick_handler goes on if rescheduling is required.
Check ==
  /\ Doing("check")
  /\ todo' = Tail(todo) \o (IF RescheduleRequired THEN GetNextTask \o QueueSwitch
                            ELSE <<>>)
  /\ UNCHANGED <<vars, lock, next>>

-----------------------------------------------------------------------------

\* What neither enters a critical section nor happens while a handler executes.
Elsewhere ==
  /\ todo = <<>> /\ (Start \/ SyscallEscalates \/ PendSVEntry \/ PendSVSwitch \/ PendSVReturn)
  /\ UNCHANGED <<lock, todo, next>>

TimePasses == Advance /\ UNCHANGED <<lock, todo, next>>

SectionsNext ==
  \/ CallYield \/ CallCreateTask \/ CallTaskNextTick
  \/ \E t \in SLEEP_TIMES : CallSleepUntil(t)
  \/ \E v \in Pids : CallKill(v)
  \/ TickTaken
  \/ Enter \/ Exit \/ Select \/ Dequeue \/ Queue \/ StoreTime \/ New \/ Complete
  \/ Switch \/ Check
  \/ Elsewhere \/ TimePasses

SectionsSpec == SectionsInit /\ [][SectionsNext]_sectionVars

-----------------------------------------------------------------------------
(* Properties                                                              *)

\* The core never waits for the critical section that it is in itself.
NoSelfDeadlock == ~(lock /\ todo # <<>> /\ Head(todo) = <<"enter">>)
=============================================================================
