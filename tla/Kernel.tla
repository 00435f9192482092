------------------------------- MODULE Kernel -------------------------------
(***************************************************************************)
(* The scheduler of GKRTOS as it runs on core 0 of the RP2040 (the second  *)
(* core is never started): system calls made by the running task, the      *)
(* SysTick handler that preempts it, and the PendSV handler that switches  *)
(* contexts.  SVCall and SysTick have the same exception priority and so   *)
(* never preempt each other; PendSV has the lowest priority and SysTick    *)
(* preempts it while interrupts are enabled.  A system call and a SysTick  *)
(* are therefore one step each, PendSV is three: entry (registers being    *)
(* saved), the C handler with interrupts off, and the return.  The call    *)
(* task_next_tick, which never returns, and the critical sections within   *)
(* the handlers are in CriticalSections.tla.                               *)
(***************************************************************************)
EXTENDS RunQueue

CONSTANTS
  MAX_TASKS,       \* GKRTOS_CONFIG_MAX_TASKS: pids 1 .. MAX_TASKS - 1 exist
  SLICE,           \* GKRTOS_TASKING_TASK_ELAPSED_TIME_US, in clock units
  MAX_TIME,        \* bound on the clock
  SLEEP_TIMES,     \* arguments that programs give to sleep_until
  MORTAL,          \* pids of the tasks whose function returns, or that die
  KILLABLE,        \* pids that programs give to kill
  OVERCREATE,      \* whether programs create more tasks than the list holds
  TICK_IN_HANDLER  \* whether the clock, and so SysTick, can advance while a
                   \* handler runs or a context switch is pending

ASSUME KernelAssumption ==
  /\ MAX_TASKS \in Nat /\ MAX_TASKS >= 2
  /\ SLICE \in Nat /\ MAX_TIME \in Nat
  /\ SLEEP_TIMES \subseteq Nat
  /\ MORTAL \subseteq Nat /\ KILLABLE \subseteq 1 .. MAX_TASKS - 1
  /\ {OVERCREATE, TICK_IN_HANDLER} \subseteq BOOLEAN

Pids == 1 .. (MAX_TASKS - 1)
SpinPid == 1       \* gkrtos_internal_spin_task, created first by gkrtos_init
BootPid == 0       \* currently_running_pid and queued_task before the start

VARIABLES
  now,        \* time_us_64()
  systick,    \* SysTick exception pending
  nextPid,    \* current_max_pid of gkrtos_tasking_task_new
  status,     \* task_status of every task
  queues,     \* the run queues and next_run_time, see RunQueue
  running,    \* cores[0].currently_running_pid
  queued,     \* cores[0].queued_task
  switchedAt, \* accounting.ctx_switch_time of the running task, the only one read
  pendsv,     \* PendSV exception pending
  primask,    \* interrupts disabled on the core
  cpu         \* what the core executes, see CpuStates

vars == <<now, systick, nextPid, status, queues, running, queued, switchedAt,
          pendsv, primask, cpu>>
\* struct gkrtos_tasking_task of every task; the queues hold the same tasks.
taskVars == <<nextPid, status, queues>>
\* struct gkrtos_tasking_core of core 0
coreVars == <<running, queued, switchedAt>>

\* The pids that task_new has given out.
Created == 1 .. (nextPid - 1)
Statuses == {"NOT_READY", "SLEEPING", "RUNNING", "COMPLETE"}

\* Where the model stops: the code's behaviour is undefined, or a HardFault.
Faults == {"listfault",   \* a NULL or freed list item was dereferenced
           "overrun",     \* a task was written beyond gkrtos_task_list
           "svcfault"}    \* SVC with interrupts disabled: HardFault
CpuStates == {"boot", "thread", "pendsv_entry", "pendsv_exit"} \union Faults

\* What gkrtos_init leaves, at whatever time.
BootState ==
  /\ systick = FALSE
  /\ nextPid = 2
  /\ status = [p \in Pids |-> IF p = SpinPid THEN "SLEEPING" ELSE "RUNNING"]
  /\ queues = [unsched |-> <<SpinPid>>, sched |-> <<>>,
               wake |-> [p \in Pids |-> NilTime]]
  /\ running = BootPid /\ queued = BootPid /\ switchedAt = 0
  /\ pendsv = FALSE /\ primask = FALSE /\ cpu = "boot"

Init == now = 1 /\ BootState

-----------------------------------------------------------------------------
(* Time and the tasks' programs                                            *)

\* The clock advances; SysTick becomes pending at every period.
Advance ==
  /\ now < MAX_TIME
  /\ cpu \in {"thread", "pendsv_entry", "pendsv_exit"}
  /\ TICK_IN_HANDLER \/ (cpu = "thread" /\ ~pendsv /\ ~systick)
  /\ now' = now + 1
  /\ systick' = (systick \/ now' % PERIOD = 0)
  /\ UNCHANGED <<taskVars, coreVars, pendsv, primask, cpu>>

\* A task executes an instruction only while no exception is due.
TaskRuns == cpu = "thread" /\ (primask \/ (~systick /\ ~pendsv))

\* The running task makes a system call that reaches the SVC handler.  The
\* spin task makes no other call than yield.
Traps == TaskRuns /\ ~primask
UserTraps == Traps /\ running # SpinPid

Fault(kind) ==
  /\ cpu' = kind
  /\ UNCHANGED <<now, systick, taskVars, coreVars, pendsv, primask>>

\* Seeded fault: PendSV is triggered even if the task is running already.
QueueContextSwitchAlways(p) == queued' = p /\ pendsv' = TRUE

\* gkrtos_internal_queue_context_switch
QueueContextSwitch(p) ==
  /\ queued' = p
  /\ pendsv' = (pendsv \/ running # p)

-----------------------------------------------------------------------------
(* System calls (syscalls_impl.c), dispatched by gkrtos_internal_syscall   *)

\* gkrtos_internal_syscall_yield
SyscallYield ==
  /\ Traps
  /\ \/ PickFaults(queues, now) /\ Fault("listfault")
     \/ /\ ~PickFaults(queues, now)
        /\ queues' = QueuesAfterPick(queues, now)
        /\ QueueContextSwitch(PickedTask(queues, now))
        /\ UNCHANGED <<now, systick, nextPid, status, running, switchedAt,
                       primask, cpu>>

\* Seeded fault: the task is taken off its queue and put on none.
QueuesAfterSleepLosesTask(t, fits) ==
  [DequeueTask(queues, running) EXCEPT !.wake[running] = t]

\* gkrtos_internal_tasking_sleep_until, its dequeue, assignment and queueing
QueuesAfterSleep(t, fits) ==
  QueueTask([DequeueTask(queues, running) EXCEPT !.wake[running] = t],
            running, fits)

\* Seeded fault: the next task is selected before the caller goes to sleep.
SyscallSleepUntilPicksFirst(t) ==
  /\ UserTraps /\ ~PickFaults(queues, now) /\ ~DequeueFaults(queues, running)
  /\ \E fits \in QueueSort(t) :
       queues' = QueueTask(
         [DequeueTask(QueuesAfterPick(queues, now), running) EXCEPT
            !.wake[running] = t], running, fits)
  /\ QueueContextSwitch(PickedTask(queues, now))
  /\ UNCHANGED <<now, systick, nextPid, status, running, switchedAt, primask, cpu>>

\* gkrtos_internal_syscall_sleep_until
SyscallSleepUntil(t) ==
  /\ UserTraps
  /\ \E fits \in QueueSort(t) :
       LET q == QueuesAfterSleep(t, fits)
           bad == DequeueFaults(queues, running) \/ PickFaults(q, now) IN
       \/ bad /\ Fault("listfault")
       \/ /\ ~bad
          /\ queues' = QueuesAfterPick(q, now)
          /\ QueueContextSwitch(PickedTask(q, now))
          /\ UNCHANGED <<now, systick, nextPid, status, running, switchedAt,
                         primask, cpu>>

\* Seeded fault: the dead task is left in its queue.
KillKeepsQueued(v) ==
  /\ ~PickFaults(queues, now)
  /\ status' = [status EXCEPT ![v] = "COMPLETE"]
  /\ queues' = QueuesAfterPick(queues, now)
  /\ QueueContextSwitch(PickedTask(queues, now))
  /\ UNCHANGED <<now, systick, nextPid, running, switchedAt, primask, cpu>>

\* gkrtos_internal_syscall_kill: the next task is picked BEFORE the dying one
\* leaves its queue.
Kill(v) ==
  LET q == QueuesAfterPick(queues, now)
      bad == PickFaults(queues, now) \/ DequeueFaults(q, v) IN
  \/ bad /\ Fault("listfault")
  \/ /\ ~bad
     /\ status' = [status EXCEPT ![v] = "COMPLETE"]
     /\ queues' = DequeueTask(q, v)
     /\ QueueContextSwitch(PickedTask(queues, now))
     /\ UNCHANGED <<now, systick, nextPid, running, switchedAt, primask, cpu>>

SyscallDie == UserTraps /\ running \in MORTAL /\ Kill(running)
SyscallKill(v) == UserTraps /\ Kill(v)

\* gkrtos_tasking_task_new and gkrtos_internal_syscall_create_task.  The code
\* never compares current_max_pid with the size of the task list.
CreateTask ==
  \/ nextPid = MAX_TASKS /\ OVERCREATE /\ Fault("overrun")
  \/ /\ nextPid < MAX_TASKS
     /\ nextPid' = nextPid + 1
     /\ status' = [status EXCEPT ![nextPid] = "SLEEPING"]
     /\ queues' = QueueTask(queues, nextPid, TRUE)
     /\ UNCHANGED <<now, systick, coreVars, pendsv, primask, cpu>>

SyscallCreateTask == UserTraps /\ CreateTask

\* With PRIMASK set an SVC cannot be taken and escalates to HardFault.
SyscallEscalates == TaskRuns /\ primask /\ Fault("svcfault")

-----------------------------------------------------------------------------
(* Exception handlers                                                      *)

\* Seeded fault: SysTick looks at the time slice only.
RescheduleRequiredIgnoresDue == now - switchedAt > SLICE

\* Seeded fault: SysTick looks for due sleepers only.
RescheduleRequiredIgnoresSlice == HeadIsDue(queues, now)

\* gkrtos_internal_tasking_rescheduling_required_locked
RescheduleRequired == now - switchedAt > SLICE \/ HeadIsDue(queues, now)

\* gkrtos_systick_handler
SysTick ==
  /\ systick /\ ~primask /\ cpu \in {"thread", "pendsv_entry", "pendsv_exit"}
  /\ \/ /\ ~RescheduleRequired
        /\ systick' = FALSE
        /\ UNCHANGED <<now, taskVars, coreVars, pendsv, primask, cpu>>
     \/ /\ RescheduleRequired /\ PickFaults(queues, now)
        /\ Fault("listfault")
     \/ /\ RescheduleRequired /\ ~PickFaults(queues, now)
        /\ systick' = FALSE
        /\ queues' = QueuesAfterPick(queues, now)
        /\ QueueContextSwitch(PickedTask(queues, now))
        /\ UNCHANGED <<now, nextPid, status, running, switchedAt, primask, cpu>>

\* isr_pendsv up to the call of the C handler; SysTick still preempts it.
PendSVEntry ==
  /\ cpu = "thread" /\ pendsv /\ ~systick /\ ~primask
  /\ pendsv' = FALSE /\ cpu' = "pendsv_entry"
  /\ UNCHANGED <<now, systick, taskVars, coreVars, primask>>

\* Seeded faults: the old task stays marked RUNNING; a difference is stored
\* where the time of the switch belongs; that time is not stored.
ContextSwitchKeepsRunning ==
  /\ status' = [status EXCEPT ![queued] = "RUNNING"]
  /\ running' = queued
  /\ switchedAt' = now
ContextSwitchStoresElapsed ==
  /\ status' = [status EXCEPT ![running] = "SLEEPING", ![queued] = "RUNNING"]
  /\ running' = queued
  /\ switchedAt' = switchedAt - now

ContextSwitchKeepsTime ==
  /\ status' = [status EXCEPT ![running] = "SLEEPING", ![queued] = "RUNNING"]
  /\ running' = queued
  /\ UNCHANGED switchedAt

\* gkrtos_internal_context_switch from the running to the queued task
ContextSwitch ==
  /\ status' = [p \in Pids |->
       IF p = queued THEN "RUNNING"
       ELSE IF p = running /\ status[p] = "RUNNING" THEN "SLEEPING"
       ELSE status[p]]
  /\ running' = queued
  /\ switchedAt' = now

\* gkrtos_pendsv_handler_c.  It disables interrupts first; the early return,
\* when the queued task is the running one, does not restore them.
PendSVSwitch ==
  /\ cpu = "pendsv_entry" /\ ~systick
  /\ cpu' = "pendsv_exit"
  /\ \/ /\ queued = running
        /\ primask' = TRUE
        /\ UNCHANGED <<status, running, switchedAt>>
     \/ /\ queued # running
        /\ ContextSwitch
        /\ UNCHANGED primask
  /\ UNCHANGED <<now, systick, nextPid, queues, queued, pendsv>>

\* The rest of isr_pendsv: registers of the selected stack are restored.
PendSVReturn ==
  /\ cpu = "pendsv_exit" /\ (primask \/ ~systick)
  /\ cpu' = "thread"
  /\ UNCHANGED <<now, systick, taskVars, coreVars, pendsv, primask>>

-----------------------------------------------------------------------------
(* main and gkrtos_start, then tasking                                     *)

\* Before tasking starts a system call is a plain call: main creates tasks.
MainCreatesTask == cpu = "boot" /\ CreateTask

\* gkrtos_start: the spin task is made the running one by hand.
Start ==
  /\ cpu = "boot"
  /\ queued' = SpinPid /\ running' = SpinPid
  /\ status' = [status EXCEPT ![SpinPid] = "RUNNING"]
  /\ switchedAt' = now
  /\ cpu' = "thread"
  /\ UNCHANGED <<now, systick, nextPid, queues, pendsv, primask>>

Next ==
  \/ MainCreatesTask \/ Start \/ Advance
  \/ SyscallYield \/ SyscallDie \/ SyscallCreateTask
  \/ \E t \in SLEEP_TIMES : SyscallSleepUntil(t)
  \/ \E v \in KILLABLE : SyscallKill(v)
  \/ SyscallEscalates
  \/ SysTick \/ PendSVEntry \/ PendSVSwitch \/ PendSVReturn

Spec == Init /\ [][Next]_vars
=============================================================================
