---------------------------- MODULE ContextProps ----------------------------
(***************************************************************************)
(* What the context switch of Context.tla must and must not do.            *)
(***************************************************************************)
EXTENDS Context

Handlers == {"svcall", "pendsv"}
Values ==
  {Own(p, g, d) : p \in Pids, g \in Data, d \in DRAFTS}
  \union {ReturnAddress(p) : p \in Pids} \union {Answer(p) : p \in Pids}
  \union {Junk, Zero, Code, AtSvc, PastSvc}

\* Every variable stays in its range.
TypeOK ==
  /\ regs \in [Groups -> Values] /\ mem \in [Cells -> Values]
  /\ psp \in 0 .. TASKS * DEPTH + 1
  /\ stackptr \in [Pids -> Cells \union {0}]
  /\ svcStackptr \in Cells \union {0} /\ frame \in Cells \union {0}
  /\ handler \in Seq([exception : Handlers, progress : {"entered", "decided"}])
  /\ nextPid \in 1 .. TASKS + 1
  /\ running \in Pids \union {BootPid} /\ queued \in Pids \union {BootPid}
  /\ pendsv \in BOOLEAN
  /\ shpr2 \in Nat /\ shpr3 \in Nat
  /\ stage \in {"reset", "init", "started"}

\* The handlers that use the process stack never interrupt each other: psp and
\* the globals they pass stack pointers in belong to one of them at a time.
HandlersDoNotNest == Len(handler) <= 1

\* Every task that is not executing has one whole frame on its own stack, and
\* only its own cells above it; the executing task's stack pointer is on its
\* own stack.  However many calls, creations and switches there are, no frame is
\* left behind and none reaches into the stack of another task.
FrameOf(p) == IF p = running THEN frame ELSE stackptr[p]
OnOwnStack ==
  /\ \A p \in Created :
       p # running \/ handler # <<>> =>
         FrameOf(p) >= Bottom(p) /\ FrameOf(p) + FrameSize <= Top(p)
  /\ stage = "started" /\ handler = <<>> =>
       psp >= Bottom(running) + FrameSize /\ psp <= Top(running)

\* A system call returns to the task with the answer that the handler has left
\* for it (syscalls.h: "It will be placed in r0 on returning from syscalls").
AnswerInR0 ==
  [][regs.pc = PastSvc /\ regs'.pc = Code /\ running' = running
     => regs'.r0 = regs.r0]_vars

-----------------------------------------------------------------------------
(* The abstract specification                                              *)

Unborn == [g \in Groups |-> Zero]   \* no pc is ever zero
InThread(p) == p = running /\ handler = <<>>

\* The registers of a task: the core's while it executes, and otherwise what
\* its frame holds.
FileOf(p) ==
  IF p \notin Created THEN Unborn
  ELSE IF InThread(p) THEN regs
  ELSE ContextAt(mem, FrameOf(p))

\* Its stack pointer, and what it has pushed: the cells above its registers.
SpOf(p) == IF InThread(p) THEN psp ELSE FrameOf(p) + FrameSize
StackOf(p) ==
  IF p \notin Created THEN <<>>
  ELSE [i \in 1 .. Top(p) - SpOf(p) |-> mem[SpOf(p) + i - 1]]

\* What the handler that executes was entered for.
TrapOf ==
  IF handler = <<>> THEN "none"
  ELSE IF Head(handler).exception = "svcall" THEN "call"
  ELSE "preemption"

Promise == INSTANCE TaskRegisters WITH
  Tasks <- Pids, Nobody <- BootPid, Entry <- Code, AtCall <- AtSvc,
  PastCall <- PastSvc, Result <- [p \in Pids |-> Answer(p)],
  file <- [p \in Pids |-> FileOf(p)], stack <- [p \in Pids |-> StackOf(p)],
  core <- running, trap <- TrapOf

\* Every task keeps its registers and its stack through every creation, tick
\* and context switch, and resumes from PendSV with r0 and pc as they were; a
\* system call changes nothing but r0, which becomes the handler's answer to
\* this task, and returns behind the svc.
ImplementsTaskRegisters == Promise!Spec
=============================================================================
