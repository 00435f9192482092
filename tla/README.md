# GKRTOS in TLA+

A verification project for GKRTOS, the small preemptive real-time operating
system for the RP2040 in `src/`. It models the scheduler as it runs on core 0
(core 1 is never started by this code): the run queues, the system calls, the
SysTick tick that preempts tasks, the PendSV handler that switches contexts, the
registers and stacks it switches, the periodic tasks that run on top, and the
linked lists all of it stands on. Paths below are relative to
`src/src/gkrtos/`.

## 1. Inventory

| component | source | state | operations |
|---|---|---|---|
| Run queues and selection | `tasking/tasking.c`, `tasking.h` | task list, pid counter, unscheduled ring, scheduled queue, `next_run_time`, running and queued pid per core | create, queue, dequeue, `get_next_task`, `sleep_until`, `schedule_next_tick_task`, `reschedule_required`, `queue_context_switch`, `context_switch` |
| System calls | `syscalls/` | none of its own | die, kill, yield, sleep_until, create_task, task_next_tick |
| Handlers | `interrupts/` | pending bits, priorities, PRIMASK, `gkrtos_svcall_stackptr` | SVCall, SysTick, PendSV |
| Linked lists | `structures/list.c` | head, length, items on the heap | append, prepend, insert_head, insert_sorted, remove, rotate, search |
| Boot | `gkrtos.c` | `gkrtos_tasking_started` | `gkrtos_init`, `gkrtos_start` |
| Context switch in assembly | `asm.S` | registers, psp, task stacks | save, restore, stack initialisation, entry into tasking |
| Runner | `tasking/runner.c` | `next_run` of a periodic task | one-shot and periodic tasks, spin task |
| Critical sections | `concurrency/` | two spinlocks | enter, exit |
| Hardware access | `hardware/`, `misc/`, `arch/` | system control registers | set a bit field, reload value, core id |

How they interact. A task traps into SVCall; the handler changes the run queues
and writes the pid of the next task into `queued_task`, setting PendSV pending if
that is not the running task. SVCall and SysTick have the same exception priority
(2), so they never preempt each other. PendSV has the lowest priority (3): it runs
once no other handler is left, saves the running task's registers and switches to
whatever `queued_task` holds *by then*. Between the system call and that moment,
and while PendSV saves registers with interrupts still enabled, SysTick may come
in and select another task. The data structure lock disables interrupts for each
short critical region; on the one core that runs it is never contended.

What makes each component correct:

- run queues: no live task is lost or queued twice, `next_run_time` names the
  queue that holds the task, the scheduled queue is in order, the ring takes turns;
- system calls: a dead task never runs, a sleeper is not woken early nor passed
  over, no call stops the core;
- handlers: the task that executes is the one selected last, and interrupts are
  enabled whenever a task executes;
- lists: rings are well formed, nothing leaks or is used after it is freed, each
  function does to the sequence what its caller expects;
- critical sections: nobody waits for a section that it is in itself;
- boot, assembly, runner: a task resumes with the registers it had; a periodic
  task keeps its period.

The hard behaviours are the interleaving of a tick with a pending switch, the
delayed use of `queued_task`, the two-queue protocol driven by `next_run_time`,
and pointer code without tests. The repository has no tests at all.
`PROJECT.json` lists each hazard at its line.

## 2. Modules

| module | models | role |
|---|---|---|
| `ListOps` | each list function as an operator on sequences, element 1 being the head | used by `RunQueue`, `AbstractLists` |
| `RunQueue` | the `*_locked` functions of `tasking.c` as operators on a record of both queues and `next_run_time` | used by `Kernel` |
| `Kernel` | the scheduler: system calls, SysTick, PendSV, start | state machine |
| `KernelProps` | its properties; `Kernel` as a `Lifecycle` | |
| `Lifecycle` | what a task is promised: born, ready, asleep, dead, and who may have the core | abstract specification |
| `CriticalSections` | the handlers of `Kernel` taken apart: entering and leaving the data structure section, and the work between; `task_next_tick` | extends `KernelProps` |
| `Steady` | the same handlers running for ever, with fairness | extends `KernelProps` |
| `Accounting` | `run_ticks`, charged at every switch | extends `KernelProps` |
| `Runner` | `runner.c`: one-shot and periodic tasks that make the system calls | extends `Accounting` |
| `Context` | `asm.S`, stack set-up, exception priorities: registers, stack pointers, stack cells | state machine |
| `ContextProps` | its properties; `Context` as `TaskRegisters` | |
| `TaskRegisters` | every task has registers and a stack of its own | abstract specification |
| `LinkedList` | `list.c` with heap, pointers and freed items | state machine |
| `AbstractLists` | lists as sequences, one operation per step | abstract specification |
| `MCKernel`, `MCCriticalSections`, `MCSteady`, `MCRunner`, `MCContext`, `MCLinkedList` | instances for TLC | |
| `ListTheorems` | lemmas on the operators of `ListOps`; the least-number principle | proofs |
| `KernelProofs`, `TaskProofs`, `LifecycleProofs` | on `RunQueue` and `Kernel` | proofs |
| `RunnerProofs` | on `Runner` and `Accounting` | proofs |
| `SteadyProofs` | on `Steady` | proofs |
| `ContextProofs`, `LinkedListProofs` | on `Context` and on `LinkedList` | proofs |

**Kernel.** `queues.unsched` and `queues.sched` are the two lists, `queues.wake`
is `next_run_time`; `running` and `queued` are the two pids of `cores[0]`;
`nextPid` is `current_max_pid`; `pendsv`, `systick` and `primask` are the
processor's bits; `cpu` says whether a task executes, PendSV is in its prologue
or epilogue, or the code has run into undefined behaviour. A system call and a
SysTick are one step each, because nothing can preempt either. PendSV is three
steps, because SysTick can fall between them. The clock is an action of its own;
the time a handler reads is the value at its step, and `HeadIsDue` and the slice
test read the same clock, as they do in the code up to a few instructions.
`status`, `queues` and the rest are changed by whole handlers: `SyscallSleepUntil`
is the dequeue, the assignment of the time, the sorted insertion, the selection
and the queued switch.

Where the code's behaviour is undefined, the model stops in a state of `Faults`
(a NULL or freed list item dereferenced, a write beyond the task list) and
properties say whether such a state can be reached. One further fault is SVC with
PRIMASK set, which ARMv6-M escalates to HardFault. `task_next_tick` is not an action
here but in `CriticalSections`: it cannot return. `queue_sort` takes list items for tasks and compares bytes beyond
their end; its answer is therefore any boolean (`QueueSort`).

**CriticalSections.** In `Kernel` a handler is one step, so the lock its functions
take does not show. Here a call puts the steps it is going to make into `todo`, and
they are made one by one: `Enter` and `Exit` of the section (`lock`), and `Select`,
`Dequeue`, `Queue`, `StoreTime`, `New`, `Switch` and `Check` between them, with
`Kernel`'s operators. Each C function is the sequence of its steps, and one that
calls another contains the other's steps: `ScheduleNextTickTask` contains those of
`TaskingDequeueTask`, whose first is to enter the section. The SDK's section is a
spinlock without an owner: `Enter` waits until it is free. SysTick becomes pending
between any two steps, and is taken when the handler is done.

**Lifecycle.** Four variables instead of eleven: the phase of every task, the time
of every sleeper, the task that has the core, the clock. A task sleeps and dies by
its own call and only while it has the core; each call may also wake one sleeper
that is due; only a ready task is dispatched. `KernelProps` instantiates it with
`Phase` computed from the pid counter, the statuses and the scheduled queue,
`alarm` from `next_run_time`, `core` from the running pid. Ring order, the queued
pid, pending bits and PendSV's three steps are invisible to it. A task that died
and is still executing (run `die`) is allowed: it has the core but can no longer
sleep, die or be dispatched.

**Steady.** A clock that counts up has no infinite behaviour TLC could examine.
The code only ever compares times with each other and with the clock, so `Steady`
holds the clock at `OFFSET` and, when time passes, moves every stored time one
unit into the past. Two of them are cut off: a time since the last switch beyond
`SLICE`, which the slice test cannot tell apart, and a wake-up time that would
fall to nil. That the second never happens while interrupts are enabled is itself
checked (`LatenessBounded`) and, when no more than two tasks sleep, proved; once
they are disabled no task can make a call and no SysTick is taken, so nothing reads
the rounded times. `Pass` is hardware, and happens wherever the core is, in PendSV's
prologue and epilogue too. A SysTick that is pending and enabled is taken
within `LATENCY`, which stands for the longest system call; a call is still one step.
It starts as `Kernel` does (`BootState`), at another time; everything but the
passing of time is an action of `Kernel`. `program`, chosen
once, says to which times each task sleeps; section 3 explains the fairness.

**Accounting and Runner.** `Accounting` adds `run_ticks`: the whole milliseconds
of the slice that ends, charged in the switch itself, to a task that is still
marked RUNNING. `Runner` adds, per task, `run_frequency`, the local variable
`next_run` and the place in `gkrtos_internal_task_runner` where the task is. Its
local steps (`EnterOnce`, `EnterPeriodic`, `FunctionReturns`, `Woken`) leave the scheduler alone;
`Sleep`, `Create` and `FunctionCalls` are `Kernel`'s system calls, issued from the
right place and only there. `Interval` truncates as the division in the code does,
to nothing above one call a microsecond. A function may itself sleep, yield and
create tasks. One-shot functions do not return in this module (`EnterOnce` is
`runner.c:26-27`): the `die` that follows their return, lines 28 and 29, is `SyscallDie`, whose effects the `Kernel` runs examine.

**Context.** Registers that are always moved together are one group (`r0`; `scratch`
for r1-r3 and r12; `low` for r4-r7; `high` for r8-r11; `lr`; `pc`), and a group takes
one cell of a stack, so that a frame is six cells: four the hardware stacks, two
`CONTEXT_SAVE` does. Values carry the task and group they belong to, so that any
mix-up between groups or tasks shows as a wrong value. Which actions correspond to
what:

| action | code |
|---|---|
| `InitHandlers`, `Start` | the three priority fields in SHPR2 and SHPR3, `gkrtos_start`, `gkrtos_internal_begin_tasking` |
| `CreateTask` (inside `MainCreatesTask` and `SVCallHandler`) | `gkrtos_internal_syscall_create_task` with `gkrtos_internal_stack_init`, which leaves psp on the new stack |
| `Compute`, `Push`, `Pop` | the task's own instructions |
| `CallTrigger`, `TriggerReturns` | `gkrtos_trigger_svcall` on both sides of its `svc` |
| `SVCallEntry`, `SVCallHandler`, `SVCallReturn` | exception entry and save; the C handler; the answer, restore and exception return |
| `PendSVEntry`, `PendSVSwitch`, `PendSVReturn` | the same for PendSV, the switch exchanging the stack pointers |
| `SysTick` | a C function on the main stack, which can only queue another task |

Which task is selected, and how long an exception stays pending, is left open
here: any created task, any moment. `Kernel` decides both, so `Context` allows all that
`Kernel` does and its properties do not depend on the scheduler being right; for
the same reason a task that keeps executing with PRIMASK set is no special case.
Cells that were popped are cleared: nothing below a stack pointer is read again.
Alignment of the stack pointer, flags and the
EXC_RETURN value are not modelled. `SetRegister` is arithmetic on the register's
upper bits, because three functions write their fields into two shared registers.

**TaskRegisters.** Each task has a file of registers and a stack; its own
instructions change them one push or pop at a time. A call, made at the `svc` and
nowhere else, moves pc behind it and changes nothing else; its return changes `r0`
only, to the answer for this very task. A preemption, the dispatch of another task and
the resumption change nothing at all, so a task that PendSV interrupted goes on with
every register, `r0` and pc included, as it was. `ContextProps` reads a task's
registers from the core while it executes and from its frame otherwise, and `trap`
from the exception that is active.

**LinkedList.** Two lists draw items from one heap. Freed items are overwritten
with NULL, so following one stops TLC; an emptied list keeps its dangling head.
`Contents` reads each list from its head and is the refinement mapping.

Definitions introduced as *seeded faults* are not part of the model: each is a
plausible bug in the definition that follows it, and shows which property
notices it.

## 3. Runs

| run | question | bounds | result |
|---|---|---|---|
| `mortal` | are tasks ever lost, duplicated, resurrected or woken early, is the queue's order lost but by a third sleeper, does a list access fault but under a dead task, and does `Kernel` implement `Lifecycle`? | 3 user tasks that may die, times 0, 3, 4, 6, ticks anywhere | holds |
| `immortal` | does the right task execute, are due tasks served in order, are time and periods accounted for? | 2 user tasks, one-shot or periodic, intervals 3 and 0, ticks anywhere, time to 6 | holds |
| `prompt` | are sleepers on time and others not starved, for ever? | 3 user tasks, up to two sleepers, ticks anywhere | holds |
| `anycall` | do the queues stay consistent, and is PendSV's early return reached by a tick alone, under every call? | 2 user tasks, kill of any pid, unbounded creation, ticks anywhere | holds |
| `context` | does every task keep its registers and its stack through calls and preemptions? | 2 tasks, stacks of 8 cells, one local each | holds |
| `lists` | is the pointer code right? | 2 lists, 4 items, 2 data | holds |
| `primask` | interrupts restored if a tick may fall anywhere? | 2 user tasks | violated |
| `sort` | due tasks served with three sleepers? | 3 user tasks | violated |
| `die` | does die end a task? | 2 user tasks | violated |
| `starve` | does round robin give everybody a turn? | 2 user tasks, one sleeping to due times | violated |
| `retval` | does a system call return its answer? | as `context` | violated |
| `nexttick` | does the core ever wait for the section it is in? | 2 user tasks, every call but kill and die | violated |

The violated runs are disagreements between the code and what its comments or
its API say; `PROJECT.json` quotes them under `findings`. Two relatives have no run
of their own. A task that kills the one that would run next revives it: `kill`
selects before it dequeues, which is the cause `die` shows, and the switch then
marks the dead task RUNNING. A kill of a pid that was never created, or that is
already dead, dereferences a NULL list item (`anycall` reaches this fault and
stops there), although `syscalls.h:47` declares an errno for it. The passing
runs leave out as little of this as their question allows: `immortal` death and a
third sleeper, `mortal` kills by others; ticks fall anywhere in all of them.
`SwitchUpsetOnlyByTick`, `OrderLostOnlyByThird` and `ListFaultsOnlyOfDead` say, in runs
that do reach the violations of `primask`, `sort` and `die`, that what those
runs show is the only way there. `sort` and `die` keep ticks out of handlers
(`TICK_IN_HANDLER = FALSE`) so that their counterexamples owe nothing to `primask`'s,
and `starve` states its property of behaviours without such ticks.

Late by design. `tasking.h:82-84` says a task is switched to on the systick *before*
its time. One selection serves one sleeper, so of two that are due together the
second is served at the next selection: `LatenessBounded` allows a period and
`LATENCY` *after* the time, and the bound is exact. The comment is therefore not met to the
letter even with two sleepers; what holds is `SystickServesDue` (the systick serves the
earliest) and this bound.

Bounds. `PERIOD` is 2 so that times fall on and between ticks; `SLICE` is 1 so
that a slice ends at nearly every tick (in `prompt` it is 3, longer than a period,
so that a slice spans ticks). Four pids let two tasks of the program
and the spin task meet in every order in the ring and two sleepers in every order
in the queue; five add the third sleeper, or a third task that wants its turn
besides two sleepers. `MAX_TIME` allows two to three ticks after each wake-up time; `Steady`
needs no such bound. `SLEEP_TIMES` has `nil_time`, equal and different times, past
and future ones. `MORTAL` and `KILLABLE` say which tasks die or are killed;
`MAX_TASKS` bounds creation unless `OVERCREATE` is set. In `immortal` a `SECOND` of
10 and frequencies 0, 3 and 12 give a one-shot task, a truncated interval of 3, longer than
a tick, and one of no length; `MILLI` is 2, so that slices lose half a millisecond.
`context` has two tasks: values are tagged with their owner, no step involves more
than the task that leaves and the task that comes, and `SVCallHandler` creates the
second while the first is in a call; its stacks hold exactly one local, one return
address and one frame, so that a single leaked cell leaves the stack. Section 4
proves its properties for every size. Deadlock is not checked in the Kernel
runs because a fault, or the bound on time, stops the model; it is checked in
`context` and `lists`.

In `Steady` `PERIOD` is 2 and `LATENCY` 1, the most it can be below a period; `LATE` is
their sum.

Fairness is assumed in `Steady` only, and only of hardware and kernel. `WF` on
`CoreStep`: a pending handler is taken and finishes, as hardware and loop-free
handlers do, and `main` calls `gkrtos_start`. `SF` on `Pass`: time goes on. It is strong because
the model stops the clock when a SysTick has been pending for `LATENCY`, and inside a
handler, which is one step; a program that makes calls without end disables and
enables `Pass` over and over, and the clock of the hardware would not stop for that.
Tasks are assumed nothing of: each may compute for ever, or make calls for ever,
and the spin task need not yield. Under this fairness `prompt` shows that every
task executes again and again, or interrupts are lost, provided that at most one other
task sleeps and never to a time due at the next tick, and that ticks do not without end
find a switch on its way (`<>[]~TickOnTheWay`): such a tick selects once more
and may pass over a task every time, and TLC finds that behaviour when the
condition is dropped. Each part of the proviso was needed: a task that sleeps
to a due time and then yields starves the task behind it (run `starve`); so do two
others that alternately sleep far ahead, since each wake-up starts a new slice and
skips a turn; so does sleeping to `nil_time`, which goes through the same selection.
With three sleepers the queue loses its order and no bound on lateness holds.

## 4. Proofs

All theorems hold for every value of the constants that satisfies the assumptions
of the modules: `PeriodAssumption` (the tick has a period), `KernelAssumption` (the
constants have their types, and programs kill only pids inside the task list: any
other pid indexes beyond it), `MilliAssumption`, `RunnerAssumption`, `SteadyAssumption`
(the clock is held further from nil than lateness and slices reach, and `LATENCY` is
less than a period: a call takes less than a tick); for the
`Context` theorems only `ContextAssumption` (a stack has room for a task's own cells,
one return address and one frame; the code sizes stacks by hand and checks nothing),
and for the lists only `LinkedListAssumption` (the heap is finite and NULL is
neither an address nor data).

| theorem | property | further assumption |
|---|---|---|
| `KernelProofs!TypeCorrect` | `TypeOK` | none |
| `KernelProofs!QueuesStayConsistent` | `QueueMembership` | none |
| `KernelProofs!InterruptsLostOnlyByTick` | `SwitchUpsetOnlyByTick` | none |
| `KernelProofs!InterruptsKeptWithoutTick` | `InterruptsRestored` | behaviours in which no SysTick is taken while a switch is on its way |
| `TaskProofs!NoTaskLost` | `LiveTasksQueued` | no kills |
| `TaskProofs!DeadNotRevived` | `DeadStaysDead` | no kills |
| `TaskProofs!SleepersNotEarly` | `NeverEarly` | no kills |
| `TaskProofs!RunningIsReady` | `RunningTaskReady` | no kills, no deaths |
| `TaskProofs!ListFaultsOnlyAfterDeath` | `ListFaultsOnlyOfDead` | no kills |
| `LifecycleProofs!KernelImplementsLifecycle` | `ImplementsLifecycle` | no kills |
| `TaskProofs!OrderKeptButForThird` | `OrderLostOnlyByThird` | no kills |
| `TaskProofs!DueServedFirst` | `SystickServesDue` | no kills, behaviours in which no task goes to sleep while two sleep |
| `RunnerProofs!RunnerIsAProgram` | `RunnerSpec => Spec` | no kills, no deaths, programs may sleep to any time |
| `RunnerProofs!PeriodicNotEarly` | `NeverAhead` | the same |
| `RunnerProofs!NothingOvercharged` | `NeverOvercharged` | the same |
| `SteadyProofs!LatenessStaysBounded` | `LatenessBounded` | no kills, at most two tasks ever sleep, `PERIOD + LATENCY <= LATE` |
| `ContextProofs!TypesHold` | `TypeOK` | none |
| `ContextProofs!OneHandlerAtATime` | `HandlersDoNotNest` | none |
| `ContextProofs!StacksStayApart` | `OnOwnStack` | none |
| `ContextProofs!ContextImplementsTaskRegisters` | `ImplementsTaskRegisters` | none |
| `LinkedListProofs!RingsStayWellFormed` | `RingWellFormed` | none |
| `LinkedListProofs!HeapStaysPartitioned` | `HeapPartitioned` | none |
| `LinkedListProofs!ListsImplementSequences` | `ImplementsAbstractLists` | none |
| `LinkedListProofs!FunctionsImplementOperations` | `EachFunctionImplementsItsOperation` | none |

"No kills" is `KILLABLE = {}`, "no deaths" `MORTAL = {}`; `Runner` and `Steady` have
neither action, so that for them the two say nothing of their own. No theorem assumes
that ticks stay out of handlers through a constant. Two are stated of behaviours in which a
certain step does not happen, although the code may take it: `InterruptsKeptWithoutTick` (run
`primask` shows what happens otherwise) and `DueServedFirst` (run `sort`); each comes with
a theorem without that condition which says that this step is the only way to lose
the property. `LatenessBounded` is violated on the instance of `prompt` with a third
sleeper, or with `LATE` one less than `PERIOD + LATENCY`: the bound is exact.

The argument on the scheduler goes up in layers.

1. `ListTheorems`: each list function adds or removes one element, or reorders,
   and keeps a list free of repetitions. Insertions are cut as
   `SubSeq \o <<e>> \o SubSeq`; none of it depends on the order of the list, so
   the results hold whatever `queue_sort` answers.
2. `KernelProofs`, first half: on consistent queues, `DequeueTask` takes out exactly its
   task, `QueueTask` adds exactly its task, and `QueuesAfterPick` keeps the
   members, leaves the selected task in the ring and takes only a due head from
   the scheduled queue.
3. `KernelProofs`, second half: `IInv` is `TypeOK`, `QueueMembership` and `CorePidsCreated`.
   The last is what makes it inductive: `sleep_until` queues the *running* task,
   and the queues stay within the created tasks only if that pid is one.
   Interrupts need no invariant of the queues: `Upset` says that PendSV will return
   early or has, and every step but one keeps it false. A call is made by the executing task,
   with no switch on its way, so its selection triggers PendSV only if the tasks
   differ; only SysTick can select again before PendSV has switched. `BootInv` adds that
   nothing is pending at the start.
4. `TaskProofs`: `TaskInv` strengthens `LiveTasksQueued` with three facts.
   `SpinInRing`: the spin task never sleeps or dies, so the ring is never empty.
   `NoneOnTheWay`: without a pending PendSV the executing task is the queued one.
   `QueuedInRing`: the queued task is in the ring, or it is a task that selected
   itself while dying; its time is then nil, so its next sleep or die reaches
   the NULL dereference and cannot put it back into a queue. A context switch
   happens only to a queued task in the ring, and that is why no dead task is
   revived. `MarkInv` adds, for tasks that never end, that exactly the running
   task is marked RUNNING. `ListFaultsOnlyAfterDeath` follows from `TaskInv`: the spin
   task is in the ring, so a selection always finds a task; a caller that has
   not died is in the ring too, even after its own selection has woken a sleeper.
5. `LifecycleProofs`: each kernel step maps to one step of `Lifecycle` or to none.
   The core of it is `SelectWakesOne`: `get_next_task`, run on the queues that a
   call has left, is exactly `WakeOne` of the phases that call has left. One more
   invariant is needed, `UnbornHaveNoTime`: `task_new` never sets `next_run_time`
   and relies on the zeroed task list, or a new task would be born asleep.
6. `TaskProofs`, last part: `queue_task` compares the new task with the head and puts it in
   front if it is earlier; behind a single item `insert_sorted` appends, and only behind
   two or more does it ask `queue_sort`, which answers from garbage. So joining none or one,
   or going in front of all, keeps the order, and so does every removal (`QueueKeepsSorted`,
   `PickKeepsSorted`, `DieKeepsOrder`). What remains is one more task behind the first
   of two or more. In an ordered queue a SysTick serves the earliest due task.
7. `RunnerProofs`: `RunnerInv` adds to the above where each task is in the runner.
   `NeverAhead` speaks of tasks in their function; what makes it inductive is
   `Schedule`, which says of a task that sleeps that `next_run` is its alarm, or
   that the alarm has gone off within a period of it. That the alarm survives every
   step of the other tasks is not shown again: it is what `Lifecycle` promises
   (lemma `AlarmsKept`).
8. `RunnerProofs`, last part: `NeverOvercharged` alone is not inductive, for what
   the next switch charges depends on when the slice began. `ChargeInv` says that
   the charges so far are covered by the time up to the last switch. The sum over
   the tasks is defined by recursion on sets; that it exists, and grows by exactly what
   one task is charged, is shown by taking a smallest set for which it fails.
9. `SteadyProofs`: a sleeper that is late was passed over by the last SysTick, for
   another one; then it sleeps alone, and if the other goes to sleep again the
   earlier of the two is woken in that same call. `Served` says that nobody is
   later than the time since the last tick that was served (`SinceTick`), `Rested`
   that whenever two tasks sleep neither is due at the next one; together, and with the
   order of the queue, they are inductive as long as interrupts are enabled. `ClockInv`
   bounds `SinceTick`: a tick stays pending for `LATENCY` at most.
   `Pass`, the one step that is not `Kernel`'s, moves all times alike.

`LinkedListProofs` stands alone too. `ListInv` says that *some* sequence of addresses per
list is what the heap and the pointers lay out: linked forwards and backwards into a
ring, disjoint from the other lists, all live items in one of them. Every function
changes one such sequence in one place (`RingInsert`, `RingRemove`, `RingRotate`), and
that a walk from the head visits it (`WalkFollowsRing`) carries the result over
to the walks that the properties are stated with. Then reading the data along
the sequence gives the operators of `ListOps`, and with them the refinement, of the
whole specification and of each function. The proof of `gkrtos_list_remove` is the
longest: of three or more items it unlinks one, of two it leaves a ring of
one, of one it leaves nothing but a dangling head. The guarded
writes of that function (`list.c:139`, `149`, `152`) come to nothing: what is
written before them already leaves the ring.

`ContextProofs` stands apart from these. Its invariant `CInv` has, besides types, three parts.
`PriorityInv` computes the priority registers at each stage of the boot, from which SVCall cannot
interrupt PendSV or the reverse; `HandlerInv` adds that
`gkrtos_svcall_stackptr` is the frame the active call came with, although
`create_task` moves psp to another stack meanwhile; `AllPlaced` says of every
created task where its stack pointer is, by the code it is in: at its own code it
has its locals only, inside `gkrtos_trigger_svcall` one return address more. All four theorems follow,
the refinement by one lemma per step that says what the step does to the register file and the stack
read through the mapping.

Where a proof needs induction (over the subsets that are summed, over the steps
of a walk) it argues from a smallest counterexample, lemma `LeastNumber` of
`ListTheorems`: the library's induction theorems take an operator as
parameter, which the provers do not instantiate.

Left to TLC: `StarvesOnlyBySleepers`, since fairness and `ENABLED` are out of the
prover's reach, and the six violations. Every other property of the
passing runs is stated by a theorem.

## 5. Not modelled

- A tick inside `gkrtos_start` (`gkrtos.c:48`): the counter is enabled before the
  rest is set up, but must count a whole period first; start is one step.
- Clock frequencies and the reload value, which is set to the clock cycles of a
  millisecond and not one less, so that a real period is a cycle longer than the
  constant the slice test uses. `PERIOD` is the real one.
- Undercharging: slices shorter than a millisecond are charged nothing.
  `NeverOvercharged` checks the other direction only.
- A failed `malloc` (`list.c:21`): the heap of `LinkedList` is bounded and
  operations that would exceed it are not offered; what the code does is undefined.
- What follows after one handler has interrupted another: `HandlersDoNotNest`
  excludes it.
- The SDK's critical sections themselves, an empty submodule here: they are modelled as
  the spinlocks without owner that the SDK documents. The second one, `os1`, is
  initialised and never entered.
- What `task_next_tick` would do if it returned: `CriticalSections` has its steps behind the
  second enter, and no behaviour reaches them.
- Core 1, which is never started, and the core and priority fields of a task, which are
  stored and never read.
- List functions that only read and have no caller (`list_get_tail` and its like),
  the pins of the example program, register addresses, build files, scripts and CI.

What could still be added: liveness proved rather than checked; a second core,
once the code starts it.
