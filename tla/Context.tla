------------------------------- MODULE Context -------------------------------
(***************************************************************************)
(* Registers, stacks and exception priorities: src/gkrtos/asm.S and the C  *)
(* functions that handle stack pointers.  What the scheduler selects is    *)
(* left open here (any created task, at any selection), and so is how long  *)
(* an exception stays pending: a task may go on executing, as it does with *)
(* PRIMASK set.  Registers that are always moved together are one group,   *)
(* and a group takes one cell of a stack:                                  *)
(*   r0, scratch (r1-r3, r12), lr, pc    stacked by the hardware           *)
(*   low (r4-r7), high (r8-r11)          stacked by CONTEXT_SAVE           *)
(* Stacks grow downwards; task p owns the cells Bottom(p) .. Top(p) - 1.   *)
(***************************************************************************)
EXTENDS Integers, Sequences, FiniteSets

CONSTANTS
  TASKS,   \* how many tasks there may be
  DEPTH,   \* cells of a stack
  LOCALS,  \* how many of them each task uses for itself, at most
  DRAFTS   \* what tells the values apart that a task puts into a register

ASSUME ContextAssumption ==
  /\ TASKS \in Nat \ {0} /\ DEPTH \in Nat
  /\ LOCALS \in [1 .. TASKS -> Nat]
  /\ \A p \in 1 .. TASKS : DEPTH >= LOCALS[p] + 7

Pids == 1 .. TASKS
SpinPid == 1
BootPid == 0

Bottom(p) == (p - 1) * DEPTH + 1
Top(p) == p * DEPTH + 1
Cells == 1 .. TASKS * DEPTH

VARIABLES
  regs,         \* the core's registers
  psp,          \* process stack pointer
  mem,          \* the stacks
  stackptr,     \* stackptr of every task
  svcStackptr,  \* gkrtos_svcall_stackptr
  frame,        \* the frame the running handler was entered with, its r0
  handler,      \* the active exceptions, innermost first, and their progress
  nextPid, running, queued, pendsv,   \* as in Kernel.tla
  shpr2, shpr3, \* system handler priority registers, bits 22 and above
  stage         \* of main: "reset", then "init", then "started"

vars == <<regs, psp, mem, stackptr, svcStackptr, frame, handler, nextPid,
          running, queued, pendsv, shpr2, shpr3, stage>>
machine == <<regs, psp, mem, frame>>
scheduler == <<nextPid, running, queued>>
boot == <<shpr2, shpr3, stage>>

Created == 1 .. (nextPid - 1)
Groups == {"r0", "scratch", "low", "high", "lr", "pc"}
Data == {"r0", "scratch", "low", "high"}

\* Values are named after who put them where, so that a mix-up shows.
Own(p, group, draft) == <<"own", p, group, draft>>
ReturnAddress(p) == <<"return to", p>>
Answer(p) == <<"answer to", p>>
Junk == <<"junk">>
Zero == <<"zero">>
\* Places in a task's code: its own, and in gkrtos_trigger_svcall before and
\* behind the svc instruction.
Code == <<"code">>
AtSvc == <<"at svc">>
PastSvc == <<"past svc">>

-----------------------------------------------------------------------------
(* Exception priorities                                                    *)

\* The lowest bit of each field, which has two.
PRI_14 == 1      \* PendSV in SHPR3: bits 22 and 23
PRI_15 == 256    \* SysTick in SHPR3: bits 30 and 31
PRI_11 == 256    \* SVCall in SHPR2: bits 30 and 31

Field(word, unit) == (word \div unit) % 4

\* Seeded fault: the other fields of the register are lost.
SetRegisterClears(word, unit, value) == value * unit

\* gkrtos_set_register
SetRegister(word, unit, value) == word - Field(word, unit) * unit + value * unit

Priority(exception) ==
  CASE exception = "svcall" -> Field(shpr2, PRI_11)
    [] exception = "pendsv" -> Field(shpr3, PRI_14)
    [] exception = "systick" -> Field(shpr3, PRI_15)

\* A task has a priority below every exception's.  An exception is taken if
\* its number is lower than that of what executes.
TaskPriority == 4
ActivePriority ==
  IF handler = <<>> THEN TaskPriority ELSE Priority(Head(handler).exception)
Preempts(exception) ==
  stage = "started" /\ Priority(exception) < ActivePriority

\* The innermost handler, if it interrupted a task.  What happens after one
\* has interrupted another is not modelled: HandlersDoNotNest excludes it.
In(exception, progress) == handler = <<[exception |-> exception, progress |-> progress]>>
Enter(exception) ==
  handler' = <<[exception |-> exception, progress |-> "entered"]>> \o handler
Proceed(exception) ==
  handler' = <<[exception |-> exception, progress |-> "decided"]>>

-----------------------------------------------------------------------------
(* Frames                                                                  *)

FrameSize == 6

\* What is in a frame: CONTEXT_SAVE's cells below those of the hardware.
ContextAt(m, f) == [high |-> m[f], low |-> m[f + 1], r0 |-> m[f + 2],
                    scratch |-> m[f + 3], lr |-> m[f + 4], pc |-> m[f + 5]]

\* The stacks m with a frame written into them that ends below sp.
WithFrame(m, sp, r) ==
  [m EXCEPT ![sp - 6] = r.high, ![sp - 5] = r.low, ![sp - 4] = r.r0,
            ![sp - 3] = r.scratch, ![sp - 2] = r.lr, ![sp - 1] = r.pc]

\* Exception entry, which leaves psp at the hardware's frame, and CONTEXT_SAVE,
\* which stores below it without moving psp and leaves r8-r11 in r4-r7.
SaveContext(pc) ==
  /\ mem' = WithFrame(mem, psp, [regs EXCEPT !.pc = pc])
  /\ psp' = psp - 4 /\ frame' = psp - FrameSize
  /\ regs' = [g \in Groups |-> IF g \in {"low", "high"} THEN regs.high ELSE Junk]

\* Cells that were popped hold leftovers that nobody reads; they are cleared.
Popped(m, f, size) == [c \in Cells |-> IF c \in f .. f + size - 1 THEN Zero ELSE m[c]]

\* Seeded fault: the hardware's frame stays on the stack.
RestoreContextLeavesFrame(m, f) ==
  /\ regs' = ContextAt(m, f) /\ psp' = f + 2
  /\ mem' = Popped(m, f, 2) /\ frame' = 0

\* CONTEXT_RESTORE and the exception return, with m on the stacks.
RestoreContext(m, f) ==
  /\ regs' = ContextAt(m, f) /\ psp' = f + FrameSize
  /\ mem' = Popped(m, f, FrameSize) /\ frame' = 0

\* gkrtos_internal_stack_init: the hardware frame of a task that is at its
\* entry, and what the registers hold by chance for CONTEXT_SAVE.
NewContext == [r0 |-> Zero, scratch |-> Zero, lr |-> Junk, pc |-> Code,
               low |-> Junk, high |-> Junk]

\* gkrtos_internal_syscall_create_task, its stack; psp is left at the new one.
CreateTask ==
  /\ nextPid \in Pids /\ nextPid' = nextPid + 1
  /\ mem' = WithFrame(mem, Top(nextPid), NewContext)
  /\ stackptr' = [stackptr EXCEPT ![nextPid] = Top(nextPid) - FrameSize]
  /\ psp' = Top(nextPid) - 4

-----------------------------------------------------------------------------
(* gkrtos_init, main and gkrtos_start                                      *)

Init ==
  /\ regs = [g \in Groups |-> Junk] /\ psp = 0
  /\ mem = [c \in Cells |-> Zero]
  /\ stackptr = [p \in Pids |-> 0] /\ svcStackptr = 0 /\ frame = 0
  /\ handler = <<>>
  /\ nextPid = 1 /\ running = BootPid /\ queued = BootPid /\ pendsv = FALSE
  /\ shpr2 = 0 /\ shpr3 = 0 /\ stage = "reset"

\* The priorities that gkrtos_init_pendsv_handler, gkrtos_init_svcall_handler
\* and gkrtos_init_systick_handler set.
InitPendSVPriority == shpr3' = SetRegister(shpr3, PRI_14, 3)
InitSVCallPriority == shpr2' = SetRegister(shpr2, PRI_11, 2)
InitSysTickPriority == shpr3' = SetRegister(shpr3, PRI_15, 2)

\* gkrtos_init
InitHandlers ==
  /\ stage = "reset" /\ stage' = "init"
  /\ InitPendSVPriority /\ InitSVCallPriority
  /\ UNCHANGED <<machine, scheduler, stackptr, svcStackptr, handler, pendsv>>

MainCreatesTask ==
  /\ stage = "init" /\ CreateTask
  /\ UNCHANGED <<regs, frame, svcStackptr, handler, running, queued, pendsv, boot>>

\* gkrtos_start, and gkrtos_internal_begin_tasking, which takes the
\* hardware's frame off the stack itself: r4-r7 hold r12, lr, pc and xPSR,
\* as they did when the stack was initialised.
Start ==
  /\ stage = "init" /\ SpinPid \in Created /\ stage' = "started"
  /\ InitSysTickPriority
  /\ running' = SpinPid /\ queued' = SpinPid
  /\ regs' = [ContextAt(mem, stackptr[SpinPid]) EXCEPT !.low = Junk]
  /\ psp' = stackptr[SpinPid] + FrameSize
  /\ mem' = Popped(mem, stackptr[SpinPid], FrameSize)
  /\ UNCHANGED <<frame, stackptr, svcStackptr, handler, nextPid, pendsv, shpr2>>

-----------------------------------------------------------------------------
(* Tasks                                                                   *)

Thread(pc) == stage = "started" /\ handler = <<>> /\ regs.pc = pc
Local == UNCHANGED <<frame, stackptr, svcStackptr, handler, scheduler, pendsv, boot>>

\* The task computes: every register it can use gets a value of its own.
Compute(draft) ==
  /\ Thread(Code)
  /\ regs' = [g \in Groups |-> IF g \in Data THEN Own(running, g, draft) ELSE regs[g]]
  /\ UNCHANGED <<psp, mem>> /\ Local

Push ==
  /\ Thread(Code) /\ psp > Top(running) - LOCALS[running]
  /\ psp' = psp - 1 /\ mem' = [mem EXCEPT ![psp - 1] = regs.low]
  /\ UNCHANGED regs /\ Local

Pop ==
  /\ Thread(Code) /\ psp < Top(running)
  /\ psp' = psp + 1 /\ regs' = [regs EXCEPT !.low = mem[psp]]
  /\ mem' = Popped(mem, psp, 1) /\ Local

\* gkrtos_trigger_svcall is called and pushes lr ...
CallTrigger ==
  /\ Thread(Code)
  /\ regs' = [regs EXCEPT !.lr = ReturnAddress(running), !.pc = AtSvc]
  /\ psp' = psp - 1 /\ mem' = [mem EXCEPT ![psp - 1] = ReturnAddress(running)]
  /\ Local

\* ... and when the svc is over pops it, into r0.
TriggerReturns ==
  /\ Thread(PastSvc)
  /\ regs' = [regs EXCEPT !.r0 = mem[psp], !.lr = mem[psp], !.pc = Code]
  /\ psp' = psp + 1 /\ mem' = Popped(mem, psp, 1)
  /\ Local

-----------------------------------------------------------------------------
(* Exception handlers                                                      *)

\* gkrtos_internal_queue_context_switch, to any task.
QueueContextSwitch ==
  /\ queued' \in Created
  /\ pendsv' = (pendsv \/ queued' # running)

\* The svc instruction, and isr_svcall up to the call of the C handler.
SVCallEntry ==
  /\ Thread(AtSvc) /\ Enter("svcall") /\ SaveContext(PastSvc)
  /\ UNCHANGED <<stackptr, svcStackptr, scheduler, pendsv, boot>>

\* gkrtos_svcall_handler: a call that creates a task, or one that selects the
\* next task, or one that does neither.
SVCallHandler ==
  /\ In("svcall", "entered") /\ Proceed("svcall")
  /\ svcStackptr' = frame
  /\ \/ CreateTask /\ UNCHANGED <<queued, pendsv>>
     \/ QueueContextSwitch /\ UNCHANGED <<mem, stackptr, psp, nextPid>>
     \/ UNCHANGED <<mem, stackptr, psp, nextPid, queued, pendsv>>
  /\ UNCHANGED <<regs, frame, running, boot>>

\* Seeded fault: the context is restored from psp, not from svcStackptr.
SVCallReturnTrustsPsp ==
  /\ In("svcall", "decided") /\ handler' = <<>>
  /\ RestoreContext([mem EXCEPT ![psp] = Answer(running)], psp - 2)
  /\ UNCHANGED <<stackptr, svcStackptr, scheduler, pendsv, boot>>

\* The rest of isr_svcall: the answer goes to the r0 that the hardware stacked.
SVCallReturn ==
  /\ In("svcall", "decided") /\ handler' = <<>>
  /\ RestoreContext([mem EXCEPT ![svcStackptr + 2] = Answer(running)], svcStackptr)
  /\ UNCHANGED <<stackptr, svcStackptr, scheduler, pendsv, boot>>

\* isr_systick, a C function that uses no process stack.
SysTick ==
  /\ Preempts("systick") /\ QueueContextSwitch
  /\ UNCHANGED <<machine, stackptr, svcStackptr, handler, nextPid, running, boot>>

\* isr_pendsv up to the call of the C handler
PendSVEntry ==
  /\ pendsv /\ Preempts("pendsv") /\ pendsv' = FALSE
  /\ Enter("pendsv") /\ SaveContext(regs.pc)
  /\ UNCHANGED <<stackptr, svcStackptr, scheduler, boot>>

\* Seeded fault: the stack pointer of the task that leaves is not kept.
PendSVSwitchForgets ==
  /\ In("pendsv", "entered") /\ Proceed("pendsv")
  /\ \/ queued = running /\ UNCHANGED <<running, stackptr, frame>>
     \/ queued # running /\ running' = queued /\ frame' = stackptr[queued]
        /\ UNCHANGED stackptr
  /\ UNCHANGED <<regs, psp, mem, svcStackptr, nextPid, queued, pendsv, boot>>

\* gkrtos_pendsv_handler_c: the stack pointers are exchanged.
PendSVSwitch ==
  /\ In("pendsv", "entered") /\ Proceed("pendsv")
  /\ \/ queued = running /\ UNCHANGED <<running, stackptr, frame>>
     \/ /\ queued # running /\ running' = queued
        /\ stackptr' = [stackptr EXCEPT ![running] = frame]
        /\ frame' = stackptr[queued]
  /\ UNCHANGED <<regs, psp, mem, svcStackptr, nextPid, queued, pendsv, boot>>

\* Seeded fault: isr_pendsv stores an answer in r0, as isr_svcall does.
PendSVReturnAnswers ==
  /\ In("pendsv", "decided") /\ handler' = <<>>
  /\ RestoreContext([mem EXCEPT ![frame + 2] = Answer(running)], frame)
  /\ UNCHANGED <<stackptr, svcStackptr, scheduler, pendsv, boot>>

\* The rest of isr_pendsv
PendSVReturn ==
  /\ In("pendsv", "decided") /\ handler' = <<>>
  /\ RestoreContext(mem, frame)
  /\ UNCHANGED <<stackptr, svcStackptr, scheduler, pendsv, boot>>

Next ==
  \/ InitHandlers \/ MainCreatesTask \/ Start
  \/ \E draft \in DRAFTS : Compute(draft)
  \/ Push \/ Pop \/ CallTrigger \/ TriggerReturns
  \/ SVCallEntry \/ SVCallHandler \/ SVCallReturn
  \/ SysTick \/ PendSVEntry \/ PendSVSwitch \/ PendSVReturn

Spec == Init /\ [][Next]_vars
=============================================================================
