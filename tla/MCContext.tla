------------------------------ MODULE MCContext ------------------------------
(***************************************************************************)
(* Instances of the context switch for TLC.                                *)
(***************************************************************************)
EXTENDS ContextProps

\* Every task may keep one value on its stack.
OneEach == [p \in Pids |-> 1]
=============================================================================
