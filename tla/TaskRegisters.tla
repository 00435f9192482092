---------------------------- MODULE TaskRegisters ----------------------------
(***************************************************************************)
(* What a context switch promises: every task has registers and a stack of *)
(* its own.  Only its own instructions change them, except that the kernel *)
(* answers a system call in r0.  A task that is preempted, by which the    *)
(* core may go to any task there is, resumes later with every register as  *)
(* it was, pc included.  Context.tla is checked against it.                *)
(***************************************************************************)
EXTENDS Sequences

CONSTANTS
  Tasks,
  Nobody,   \* who has the core before tasking starts
  Unborn,   \* the registers of a task that was not created yet
  Entry,    \* the value of pc at which a task starts
  AtCall,   \* ... with which it is at the instruction that calls the kernel
  PastCall, \* ... and behind that instruction
  Result    \* what the kernel answers to each task

VARIABLES
  file,     \* the registers of every task, a record
  stack,    \* what every task has on its stack, last pushed first
  core,     \* the task that has the core
  trap      \* why the kernel runs instead of that task: see Traps

vars == <<file, stack, core, trap>>

\* It does not; it was called; it preempted the task.
Traps == {"none", "call", "preemption"}

Init ==
  /\ file = [t \in Tasks |-> Unborn] /\ stack = [t \in Tasks |-> <<>>]
  /\ core = Nobody /\ trap = "none"

\* Every other task keeps its registers and its stack.
OnlyMine(t) ==
  \A u \in Tasks \ {t} : file'[u] = file[u] /\ stack'[u] = stack[u]

\* The task changes its registers, or exchanges one of them with its stack.
Instruction ==
  /\ trap = "none" /\ core \in Tasks /\ file[core].pc # AtCall /\ OnlyMine(core)
  /\ \/ stack'[core] = stack[core]
     \/ \E r \in DOMAIN file[core] : stack'[core] = <<file'[core][r]>> \o stack[core]
     \/ stack[core] # <<>> /\ stack'[core] = Tail(stack[core])
  /\ UNCHANGED <<core, trap>>

\* The kernel is called, by the one instruction there is for it.
Call ==
  /\ trap = "none" /\ core \in Tasks /\ file[core].pc = AtCall
  /\ trap' = "call" /\ file' = [file EXCEPT ![core].pc = PastCall]
  /\ UNCHANGED <<stack, core>>

\* The call returns, with its answer in r0.
Return ==
  /\ trap = "call" /\ trap' = "none"
  /\ file' = [file EXCEPT ![core].r0 = Result[core]]
  /\ UNCHANGED <<stack, core>>

\* The task is preempted between two instructions, a call among them.
Preempt ==
  /\ trap = "none" /\ core \in Tasks /\ trap' = "preemption"
  /\ UNCHANGED <<file, stack, core>>

\* The core changes hands.
Dispatch ==
  /\ trap = "preemption" /\ core' \in {t \in Tasks : file[t] # Unborn}
  /\ UNCHANGED <<file, stack, trap>>

\* The task that has the core goes on where it was preempted.
Resume ==
  /\ trap = "preemption" /\ trap' = "none"
  /\ UNCHANGED <<file, stack, core>>

\* A task is created, by main or by a system call.
Birth(t) ==
  /\ core = Nobody \/ trap = "call"
  /\ file[t] = Unborn /\ file'[t] # Unborn /\ file'[t].pc = Entry
  /\ OnlyMine(t) /\ stack'[t] = <<>>
  /\ UNCHANGED <<core, trap>>

\* Tasking starts in a task that was created before.
Begin ==
  /\ core = Nobody /\ core' \in {t \in Tasks : file[t] # Unborn}
  /\ UNCHANGED <<file, stack, trap>>

Next ==
  \/ Instruction \/ Call \/ Return \/ Preempt \/ Dispatch \/ Resume \/ Begin
  \/ \E t \in Tasks : Birth(t)

Spec == Init /\ [][Next]_vars
=============================================================================
