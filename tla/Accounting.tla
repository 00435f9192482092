----------------------------- MODULE Accounting -----------------------------
(***************************************************************************)
(* The run time that gkrtos_internal_context_switch charges to tasks: whole *)
(* milliseconds of the slice that ends, on top of the scheduler.           *)
(***************************************************************************)
EXTENDS KernelProps, FiniteSetsExt

CONSTANT MILLI   \* 1000 microseconds, in clock units

ASSUME MilliAssumption == MILLI \in Nat \ {0}

VARIABLE runTicks   \* accounting.run_ticks of every task

AccountingInit == Init /\ runTicks = [p \in Pids |-> 0]

\* What the task that leaves the core has been charged when it is gone.
Charge ==
  IF status[running] = "RUNNING"
  THEN [runTicks EXCEPT ![running] = @ + (now - switchedAt) \div MILLI]
  ELSE runTicks

\* A context switch charges the old task; the early return of PendSV does not.
AccountingStep ==
  runTicks' = IF cpu = "pendsv_entry" /\ running' # running THEN Charge
                                                            ELSE runTicks

\* Tasks are never charged more than the time that has passed since tasking
\* started, the slice that is not yet over included: no slice is charged twice,
\* to two tasks, or after PendSV found nothing to switch to.
StartTime == 1
NeverOvercharged ==
  running # BootPid =>
    MapThenSumSet(LAMBDA p : runTicks[p] * MILLI, Pids) + (now - switchedAt)
      <= now - StartTime
=============================================================================
