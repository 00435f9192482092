---------------------------- MODULE SteadyProofs ----------------------------
(***************************************************************************)
(* Proofs about Steady.tla, the scheduler on a clock that never ends.      *)
(* Every step but Pass is one of Kernel.tla's handlers, whose lemmas are   *)
(* used here again; Pass moves every stored time and nothing else.         *)
(***************************************************************************)
EXTENDS Steady, LifecycleProofs

\* How long ago the last tick fell that was served; one that is pending was not.
SinceTick == IF systick THEN PERIOD + phase ELSE phase

\* The tasks that the program lets sleep.
Dozers == {p \in Pids : program[p] # {}}

\* LatenessBounded is not inductive.  A sleeper that is late was not woken by
\* the last SysTick, so another one was; then it is the only one now, and when
\* the other goes to sleep again before the next tick the earlier of the two is
\* woken.  So whenever two tasks sleep, neither is due at the next tick.
Served(q, since) == \A p \in Range(q.sched) : q.wake[p] + since >= now
Rested(q, since) ==
  \A p, r \in Range(q.sched) : p # r => q.wake[p] + since >= now + PERIOD

\* A pending SysTick is served within LATENCY.
ClockInv ==
  /\ phase \in Nat /\ phase < PERIOD
  /\ systick => phase <= LATENCY

SleepInv ==
  /\ program \in PROGRAMS /\ Sleeping \subseteq Dozers
  /\ SortedQueue(queues)
  /\ Served(queues, SinceTick) /\ Rested(queues, SinceTick)

\* Once interrupts are lost nothing can be said of the sleepers.
SteadyInv ==
  /\ FullInv /\ UnbornHaveNoTime
  /\ primask \/ (ClockInv /\ SleepInv)

\* What the theorems assume of the programs: no more than two tasks sleep.  With
\* three the scheduled queue may be out of order, and a sleeper late for ever.
AtMostTwoSleep == \A pr \in PROGRAMS : \E a, b : {p \in Pids : pr[p] # {}} \subseteq {a, b}

-----------------------------------------------------------------------------
(* Time passes                                                             *)

LEMMA OlderFacts ==
  ASSUME NEW t \in Nat
  PROVE  LET o == Older(t, NilTime + 1) IN
         /\ o \in Nat /\ (o = NilTime <=> t = NilTime)
         /\ o + 1 >= t
         /\ \A u \in Nat : t <= u => o <= Older(u, NilTime + 1)
BY DEF Older, NilTime

\* Every stored time moves, and no task moves.
LEMMA PassParts ==
  ASSUME IInv, Pass
  PROVE  /\ queues'.unsched = queues.unsched /\ queues'.sched = queues.sched
         /\ queues'.wake = [p \in Pids |-> Older(queues.wake[p], NilTime + 1)]
         /\ queues.wake \in [Pids -> Nat] /\ queues'.wake \in [Pids -> Nat]
         /\ queues' \in QueueType(Pids)
         /\ switchedAt' \in Nat
<1>1. /\ queues = [unsched |-> queues.unsched, sched |-> queues.sched,
                   wake |-> queues.wake]
      /\ queues.unsched \in Seq(Pids) /\ queues.sched \in Seq(Pids)
      /\ queues.wake \in [Pids -> Nat] /\ switchedAt \in Nat
  BY DEF IInv, TypeOK, QueueType
<1> DEFINE w == [p \in Pids |-> Older(queues.wake[p], NilTime + 1)]
<1>2. w \in [Pids -> Nat]
  BY <1>1, OlderFacts
<1>3. queues' = [queues EXCEPT !.wake = w]
  BY DEF Pass
<1> HIDE DEF w
<1>4. queues' = [unsched |-> queues.unsched, sched |-> queues.sched, wake |-> w]
  BY <1>1, <1>3
<1>5. switchedAt' \in Nat
  <2>1. OFFSET - SLICE - 1 \in Nat
    BY SteadyAssumption, KernelAssumption
  <2> QED BY <1>1, <2>1 DEF Pass, Older
<1>6. queues' \in QueueType(Pids)
  BY <1>1, <1>2, <1>4 DEF QueueType
<1> QED BY <1>1, <1>2, <1>4, <1>5, <1>6 DEF w

\* What the scheduler relies on does not depend on the time.
LEMMA PassFullInv ==
  ASSUME FullInv, UnbornHaveNoTime, Pass
  PROVE  FullInv' /\ UnbornHaveNoTime'
<1>1. IInv /\ TaskInv
  BY DEF FullInv
<1>2. /\ UNCHANGED <<now, nextPid, status, running, queued, pendsv, primask, cpu>>
      /\ systick' \in BOOLEAN /\ cpu \in {"thread", "pendsv_entry", "pendsv_exit"}
  BY <1>1 DEF Pass, IInv, TypeOK
<1>3. /\ queues'.unsched = queues.unsched /\ queues'.sched = queues.sched
      /\ queues' \in QueueType(Pids) /\ switchedAt' \in Nat
      /\ \A p \in Pids : queues'.wake[p] = NilTime <=> queues.wake[p] = NilTime
  <2>1. \A p \in Pids : queues'.wake[p] = NilTime <=> queues.wake[p] = NilTime
    BY <1>1, PassParts, OlderFacts
  <2> QED BY <1>1, <2>1, PassParts
<1>4. Created' = Created /\ Pids' = Pids /\ Ready' = Ready
      /\ Members(queues)' = Members(queues)
  BY <1>2, <1>3 DEF Created, Pids, Ready, Members
<1>5. /\ Range(queues.unsched) \subseteq Pids /\ Range(queues.sched) \subseteq Pids
      /\ Created \subseteq Pids
  BY <1>1, PidFacts DEF IInv, QueueMembership, Members
<1>6. IInv'
  <2>1. TypeOK'
    BY <1>1, <1>2, <1>3, <1>4 DEF IInv, TypeOK
  <2>2. QueueMembership'
    BY <1>1, <1>3, <1>4, <1>5 DEF IInv, QueueMembership, Consistent, IsScheduled
  <2>3. CorePidsCreated'
    BY <1>1, <1>2, <1>4 DEF IInv, CorePidsCreated
  <2> QED BY <2>1, <2>2, <2>3 DEF IInv
<1>7. TaskInv'
  <2>1. queued \in Pids
    BY <1>1, <1>2, <1>5 DEF IInv, CorePidsCreated
  <2>2. LiveTasksQueued' /\ SpinInRing' /\ NoneOnTheWay'
    BY <1>1, <1>2, <1>4 DEF TaskInv, LiveTasksQueued, SpinInRing, NoneOnTheWay
  <2>3. QueuedInRing'
    BY <1>1, <1>2, <1>3, <1>4, <2>1 DEF TaskInv, QueuedInRing
  <2> QED BY <2>2, <2>3 DEF TaskInv
<1>8. UnbornHaveNoTime'
  BY <1>1, <1>2, <1>3, <1>4 DEF UnbornHaveNoTime
<1> QED BY <1>6, <1>7, <1>8 DEF FullInv

\* The phase counts to the period; a tick that stays pending is counted on.
LEMMA PassClock ==
  ASSUME ClockInv, ~primask, Pass
  PROVE  ClockInv' /\ SinceTick \in Nat /\ SinceTick' = SinceTick + 1
<1>1. /\ phase \in Nat /\ phase < PERIOD /\ PERIOD \in Nat
      /\ LATENCY \in Nat /\ LATENCY < PERIOD
      /\ phase' = (phase + 1) % PERIOD /\ (systick' <=> systick \/ phase' = 0)
      /\ systick => phase < LATENCY
  BY PeriodAssumption, SteadyAssumption DEF ClockInv, Pass
<1>2. CASE phase + 1 = PERIOD
  <2>1. phase' = 0
    BY <1>1, <1>2
  <2>2. ~systick /\ systick'
    BY <1>1, <1>2, <2>1
  <2>3. SinceTick = phase /\ SinceTick' = PERIOD
    BY <1>1, <2>1, <2>2 DEF SinceTick
  <2>4. ClockInv'
    BY <1>1, <2>1 DEF ClockInv
  <2> QED BY <1>1, <1>2, <2>3, <2>4
<1>3. CASE phase + 1 # PERIOD
  <2>1. phase + 1 \in Nat /\ phase + 1 < PERIOD
    BY <1>1, <1>3
  <2>2. phase' = phase + 1
    BY <1>1, <2>1
  <2>3. systick' <=> systick
    <3>1. phase' # 0
      BY <1>1, <2>2
    <3> QED BY <1>1, <3>1
  <2>4. SinceTick \in Nat /\ SinceTick' = SinceTick + 1
    BY <1>1, <2>2, <2>3 DEF SinceTick
  <2>5. ClockInv'
    BY <1>1, <2>1, <2>2, <2>3 DEF ClockInv
  <2> QED BY <2>4, <2>5
<1> QED BY <1>2, <1>3

\* Each sleeper is late by one unit more, if at all, and none overtakes another.
LEMMA PassSleepInv ==
  ASSUME IInv, ClockInv, SleepInv, ~primask, Pass
  PROVE  SleepInv'
<1>1. /\ queues'.sched = queues.sched
      /\ queues'.wake = [p \in Pids |-> Older(queues.wake[p], NilTime + 1)]
      /\ queues.wake \in [Pids -> Nat]
      /\ queues.sched \in Seq(Pids) /\ now \in Nat /\ PERIOD \in Nat
  BY PassParts, PeriodAssumption DEF IInv, TypeOK, QueueType
<1>2. SinceTick \in Nat /\ SinceTick' = SinceTick + 1
  BY PassClock
<1>3. now' = now /\ program' = program /\ Pids' = Pids
  BY DEF Pass, Pids
<1>4. Range(queues.sched) \subseteq Pids
  BY <1>1, RangeOfSeq
<1>5. ASSUME NEW p \in Pids
      PROVE  /\ queues'.wake[p] \in Nat /\ queues'.wake[p] + 1 >= queues.wake[p]
             /\ \A r \in Pids : queues.wake[p] <= queues.wake[r] =>
                                  queues'.wake[p] <= queues'.wake[r]
  <2>1. queues.wake[p] \in Nat /\ queues'.wake[p] = Older(queues.wake[p], NilTime + 1)
    BY <1>1
  <2>2. queues'.wake[p] \in Nat /\ queues'.wake[p] + 1 >= queues.wake[p]
    BY <2>1, OlderFacts
  <2>3. ASSUME NEW r \in Pids, queues.wake[p] <= queues.wake[r]
        PROVE  queues'.wake[p] <= queues'.wake[r]
    <3>1. /\ queues.wake[r] \in Nat
          /\ queues'.wake[r] = Older(queues.wake[r], NilTime + 1)
      BY <1>1
    <3> QED BY <2>1, <2>3, <3>1, OlderFacts
  <2> QED BY <2>2, <2>3
<1>6. program' \in PROGRAMS /\ Sleeping' \subseteq Dozers'
  BY <1>1, <1>3 DEF SleepInv, Sleeping, Dozers
<1>7. SortedQueue(queues')
  <2>1. \A i \in 1 .. Len(queues.sched) : queues.sched[i] \in Pids
    BY <1>1
  <2> QED BY <1>1, <1>5, <2>1 DEF SleepInv, SortedQueue
<1>8. Served(queues, SinceTick)'
  <2> SUFFICES ASSUME NEW p \in Range(queues.sched)
               PROVE  queues'.wake[p] + SinceTick' >= now
    BY <1>1, <1>3 DEF Served
  <2>1. queues.wake[p] + SinceTick >= now /\ queues.wake[p] \in Nat
    BY <1>1, <1>4 DEF SleepInv, Served
  <2> QED BY <1>1, <1>2, <1>4, <1>5, <2>1
<1>9. Rested(queues, SinceTick)'
  <2> SUFFICES ASSUME NEW p \in Range(queues.sched), NEW r \in Range(queues.sched),
                      p # r
               PROVE  queues'.wake[p] + SinceTick' >= now + PERIOD
    BY <1>1, <1>3 DEF Rested
  <2>1. queues.wake[p] + SinceTick >= now + PERIOD /\ queues.wake[p] \in Nat
    BY <1>1, <1>4 DEF SleepInv, Rested
  <2> QED BY <1>1, <1>2, <1>4, <1>5, <2>1
<1> QED BY <1>6, <1>7, <1>8, <1>9 DEF SleepInv

-----------------------------------------------------------------------------
(* A task is selected                                                      *)

\* Nobody but the first sleeper may be late; the first one is woken.
LaterServed(q, since) ==
  \A p, h \in Range(q.sched) :
    p # h /\ q.wake[h] <= q.wake[p] => q.wake[p] + since >= now

\* In a sorted queue the head has the earliest time.
LEMMA HeadIsFirst ==
  ASSUME NEW q \in QueueType(Pids), SortedQueue(q), NEW p \in Range(q.sched)
  PROVE  /\ q.sched # <<>> /\ Head(q.sched) \in Range(q.sched)
         /\ q.wake[Head(q.sched)] <= q.wake[p]
         /\ q.wake[p] \in Nat /\ q.wake[Head(q.sched)] \in Nat
<1> DEFINE s == q.sched
           n == Len(s)
<1>1. s \in Seq(Pids) /\ q.wake \in [Pids -> Nat] /\ n \in Nat /\ DOMAIN s = 1 .. n
  BY LenProperties DEF QueueType
<1>2. PICK i \in 1 .. n : p = s[i]
  BY <1>1 DEF Range
<1>3. s # <<>> /\ Head(s) = s[1] /\ Head(s) \in Range(s)
  <2>1. s # <<>>
    BY <1>1 DEF Range
  <2> QED BY <1>1, <2>1, HeadInRange, HeadTailProperties
<1>4. Range(s) \subseteq Pids
  BY <1>1, RangeOfSeq
<1>5. q.wake[p] \in Nat /\ q.wake[Head(s)] \in Nat
  BY <1>1, <1>3, <1>4
<1>6. q.wake[s[1]] <= q.wake[s[i]]
  <2>1. CASE i = 1
    BY <1>2, <1>3, <1>5, <2>1
  <2>2. CASE i # 1
    <3> HIDE DEF n
    <3>1. i \in 1 .. n /\ 1 \in 1 .. n /\ 1 < i
      BY <1>1, <1>2, <2>2
    <3> QED BY <3>1 DEF SortedQueue, n
  <2> QED BY <2>1, <2>2
<1> QED BY <1>2, <1>3, <1>5, <1>6

\* What get_next_task does for two sleepers: it wakes the first if that one is
\* due before the next tick, and then there is one at most; if it does not,
\* none is due.
LEMMA PickServes ==
  ASSUME NEW q \in QueueType(Pids), Consistent(q), now \in Nat, SortedQueue(q),
         ~PickFaults(q, now), NEW a, NEW b, Range(q.sched) \subseteq {a, b},
         NEW since \in Nat, LaterServed(q, since)
  PROVE  LET r == QueuesAfterPick(q, now) IN
         /\ SortedQueue(r) /\ Range(r.sched) \subseteq Range(q.sched)
         /\ Served(r, since) /\ Rested(r, 0)
         /\ \A late \in Nat : Rested(q, PERIOD + late) => Served(r, late)
<1> DEFINE r == QueuesAfterPick(q, now)
           h == Head(q.sched)
<1>1. /\ q.sched \in Seq(Pids) /\ IsInjective(q.sched) /\ q.wake \in [Pids -> Nat]
      /\ Range(q.sched) \subseteq Pids /\ PERIOD \in Nat
  BY PeriodAssumption, RangeOfSeq DEF QueueType, Consistent
<1>2. SortedQueue(r)
  BY <1>1, ShortLists, PickKeepsSorted
<1>3. \A p \in Range(q.sched) :
        /\ q.sched # <<>> /\ h \in Range(q.sched)
        /\ q.wake[h] <= q.wake[p] /\ q.wake[p] \in Nat /\ q.wake[h] \in Nat
  BY HeadIsFirst
<1>4. CASE ~HeadIsDue(q, now)
  <2>1. r.sched = q.sched /\ r.wake = q.wake
    BY <1>4 DEF QueuesAfterPick, QueueType
  <2> HIDE DEF r
  <2>2. ASSUME NEW p \in Range(q.sched)
        PROVE  q.wake[p] \in Nat /\ q.wake[p] >= now + PERIOD
    <3>1. ~(q.wake[h] < now + PERIOD)
      BY <1>3, <1>4, <2>2 DEF HeadIsDue
    <3> QED BY <1>1, <1>3, <2>2, <3>1
  <2>3. Served(r, since) /\ Rested(r, 0) /\ \A late \in Nat : Served(r, late)
    BY <1>1, <2>1, <2>2 DEF Served, Rested
  <2> QED BY <1>2, <2>1, <2>3 DEF r
<1>5. CASE HeadIsDue(q, now)
  <2>1. r.sched = ListRemove(q.sched, h) /\ r.wake = [q.wake EXCEPT ![h] = NilTime]
    BY <1>1, <1>5 DEF QueuesAfterPick, QueuesAfterWake, QueueType
  <2>2. h \in Range(q.sched)
    BY <1>1, <1>5, HeadInRange DEF HeadIsDue
  <2> HIDE DEF r, h
  <2>3. Range(r.sched) = Range(q.sched) \ {h}
    BY <1>1, <2>1, RemoveFacts
  <2>4. \A p \in Range(r.sched) : /\ p # h /\ p \in Range(q.sched)
                                  /\ r.wake[p] = q.wake[p]
    BY <1>1, <2>1, <2>3
  <2>5. Served(r, since)
    BY <1>3, <2>2, <2>4 DEF LaterServed, Served
  <2>6. Rested(r, 0)
    BY <2>2, <2>3 DEF Rested
  <2>7. ASSUME NEW late \in Nat, Rested(q, PERIOD + late) PROVE Served(r, late)
    <3> SUFFICES ASSUME NEW p \in Range(r.sched) PROVE r.wake[p] + late >= now
      BY DEF Served
    <3>1. q.wake[p] + (PERIOD + late) >= now + PERIOD
      BY <2>2, <2>4, <2>7 DEF Rested
    <3>2. q.wake[p] \in Nat
      BY <1>3, <2>4
    <3> QED BY <1>1, <2>4, <3>1, <3>2
  <2> QED BY <1>2, <2>3, <2>5, <2>6, <2>7 DEF r
<1> QED BY <1>4, <1>5

-----------------------------------------------------------------------------
(* The handlers                                                            *)

\* What the invariants say of the queues and of the last tick.
LEMMA SteadyParts ==
  ASSUME AtMostTwoSleep, SteadyInv, ~primask
  PROVE  /\ FullInv /\ UnbornHaveNoTime /\ ClockInv /\ SleepInv
         /\ queues \in QueueType(Pids) /\ Consistent(queues)
         /\ now \in Nat /\ SinceTick \in Nat /\ SinceTick <= PERIOD + LATENCY
         /\ Sleeping = Range(queues.sched)
         /\ SortedQueue(queues)
         /\ Served(queues, SinceTick) /\ Rested(queues, SinceTick)
         /\ \E a, b : Dozers \subseteq {a, b} /\ Sleeping \subseteq {a, b}
<1>1. FullInv /\ UnbornHaveNoTime /\ ClockInv /\ SleepInv
  BY DEF SteadyInv
<1>2. SinceTick \in Nat /\ SinceTick <= PERIOD + LATENCY
  BY <1>1, PeriodAssumption, SteadyAssumption DEF ClockInv, SinceTick
<1>3. \E a, b : Dozers \subseteq {a, b}
  BY <1>1 DEF SleepInv, AtMostTwoSleep, Dozers
<1>4. \E a, b : Dozers \subseteq {a, b} /\ Sleeping \subseteq {a, b}
  BY <1>1, <1>3 DEF SleepInv
<1> QED BY <1>1, <1>2, <1>4, QueueParts DEF SleepInv, Sleeping

\* A step that lets everyone sleep on.
LEMMA FrameSleepInv ==
  ASSUME SleepInv, UNCHANGED <<now, systick, phase, program>>,
         queues'.sched = queues.sched, queues'.wake = queues.wake
  PROVE  SleepInv'
BY DEF SleepInv, Sleeping, Dozers, Pids, SortedQueue, Served, Rested, SinceTick

\* A selection with no tick in it.
LEMMA SelectSleepInv ==
  ASSUME AtMostTwoSleep, SteadyInv, ~primask,
         UNCHANGED <<now, systick, phase, program>>,
         NEW q \in QueueType(Pids), Consistent(q), SortedQueue(q),
         ~PickFaults(q, now), Range(q.sched) \subseteq Dozers,
         LaterServed(q, SinceTick), queues' = QueuesAfterPick(q, now)
  PROVE  SleepInv'
<1>1. PICK a, b : Dozers \subseteq {a, b}
  BY SteadyParts
<1>2. /\ SortedQueue(queues') /\ Range(queues'.sched) \subseteq Range(q.sched)
      /\ Served(queues', SinceTick) /\ Rested(queues', 0)
  <2>1. Range(q.sched) \subseteq {a, b}
    BY <1>1
  <2> QED BY <2>1, SteadyParts, PickServes
<1>3. queues' \in QueueType(Pids)
  BY SteadyParts, PickFacts
<1>4. /\ queues'.wake \in [Pids -> Nat] /\ Range(queues'.sched) \subseteq Pids
      /\ SinceTick \in Nat /\ now \in Nat /\ PERIOD \in Nat
  BY <1>3, RangeOfSeq, SteadyParts, PeriodAssumption DEF QueueType
<1>5. Rested(queues', SinceTick)
  <2> SUFFICES ASSUME NEW p \in Range(queues'.sched), NEW r \in Range(queues'.sched),
                      p # r
               PROVE  queues'.wake[p] + SinceTick >= now + PERIOD
    BY DEF Rested
  <2>1. queues'.wake[p] + 0 >= now + PERIOD
    BY <1>2 DEF Rested
  <2>2. queues'.wake[p] \in Nat
    BY <1>4
  <2> QED BY <1>4, <2>1, <2>2
<1>6. SinceTick' = SinceTick /\ Dozers' = Dozers /\ program' \in PROGRAMS
  BY SteadyParts DEF SinceTick, Dozers, Pids, SleepInv
<1>7. Sleeping' \subseteq Dozers'
  BY <1>2, <1>6 DEF Sleeping
<1>8. Served(queues, SinceTick)' /\ Rested(queues, SinceTick)' /\ SortedQueue(queues)'
  BY <1>2, <1>5, <1>6 DEF Served, Rested, SortedQueue
<1> QED BY <1>6, <1>7, <1>8 DEF SleepInv

\* SysTick wakes the first sleeper if it is due, so that the other is not late.
LEMMA TickSleepInv ==
  ASSUME AtMostTwoSleep, SteadyInv, ~primask, UNCHANGED <<now, phase, program>>,
         systick, ~systick',
         \/ queues' = QueuesAfterPick(queues, now) /\ ~PickFaults(queues, now)
         \/ queues' = queues /\ ~HeadIsDue(queues, now)
  PROVE  SleepInv'
<1>1. PICK a, b : Dozers \subseteq {a, b} /\ Sleeping \subseteq {a, b}
  BY SteadyParts
<1>2. /\ SinceTick = PERIOD + phase /\ SinceTick' = phase
      /\ PERIOD \in Nat /\ phase \in Nat
  BY SteadyParts, PeriodAssumption DEF SinceTick, ClockInv
<1>3. /\ queues \in QueueType(Pids) /\ Consistent(queues) /\ now \in Nat
      /\ SortedQueue(queues) /\ Sleeping = Range(queues.sched)
      /\ Served(queues, PERIOD + phase) /\ Rested(queues, PERIOD + phase)
      /\ Range(queues.sched) \subseteq {a, b}
  BY <1>1, <1>2, SteadyParts
<1>4. /\ SortedQueue(queues') /\ Range(queues'.sched) \subseteq Range(queues.sched)
      /\ Served(queues', phase) /\ Rested(queues', 0)
  <2>1. CASE queues' = QueuesAfterPick(queues, now) /\ ~PickFaults(queues, now)
    <3>1. LaterServed(queues, PERIOD + phase) /\ PERIOD + phase \in Nat
      BY <1>2, <1>3 DEF Served, LaterServed
    <3> QED BY <1>2, <1>3, <2>1, <3>1, PickServes
  <2>2. CASE queues' = queues /\ ~HeadIsDue(queues, now)
    <3>1. ASSUME NEW p \in Range(queues.sched)
          PROVE  queues.wake[p] \in Nat /\ queues.wake[p] >= now + PERIOD
      <4>1. /\ queues.sched # <<>>
            /\ queues.wake[Head(queues.sched)] <= queues.wake[p]
            /\ queues.wake[p] \in Nat /\ queues.wake[Head(queues.sched)] \in Nat
        BY <1>3, <3>1, HeadIsFirst
      <4>2. ~(queues.wake[Head(queues.sched)] < now + PERIOD)
        BY <2>2, <4>1 DEF HeadIsDue
      <4> QED BY <1>2, <1>3, <4>1, <4>2
    <3>2. Served(queues, phase) /\ Rested(queues, 0)
      BY <1>2, <1>3, <3>1 DEF Served, Rested
    <3> QED BY <1>3, <2>2, <3>2
  <2> QED BY <2>1, <2>2
<1>5. Dozers' = Dozers /\ program' \in PROGRAMS
  BY SteadyParts DEF Dozers, Pids, SleepInv
<1>6. Sleeping' \subseteq Dozers'
  BY <1>3, <1>4, <1>5, SteadyParts DEF Sleeping, SleepInv
<1>7. /\ queues'.wake \in [Pids -> Nat] /\ Range(queues'.sched) \subseteq Pids
      /\ now' = now
  <2>1. queues' \in QueueType(Pids)
    BY <1>3, PickFacts
  <2> QED BY <2>1, RangeOfSeq DEF QueueType
<1>8. Rested(queues', phase)
  <2> SUFFICES ASSUME NEW p \in Range(queues'.sched), NEW r \in Range(queues'.sched),
                      p # r
               PROVE  queues'.wake[p] + phase >= now + PERIOD
    BY DEF Rested
  <2>1. queues'.wake[p] + 0 >= now + PERIOD /\ queues'.wake[p] \in Nat
    BY <1>4, <1>7 DEF Rested
  <2> QED BY <1>2, <1>3, <2>1
<1>9. Served(queues, SinceTick)' /\ Rested(queues, SinceTick)' /\ SortedQueue(queues)'
  BY <1>2, <1>4, <1>7, <1>8 DEF Served, Rested, SortedQueue
<1> QED BY <1>5, <1>6, <1>9 DEF SleepInv

\* A task that goes to sleep may be late at once, but then it is the first.
LEMMA SleepStepInv ==
  ASSUME AtMostTwoSleep, SteadyInv, ~primask, UNCHANGED <<phase, program>>,
         NEW t \in SLEEP_TIMES, t \in program[running], SyscallSleepUntil(t)
  PROVE  SleepInv'
<1>1. CASE Fault("listfault")
  BY <1>1, SteadyParts, FrameSleepInv DEF Fault, taskVars
<1>2. CASE ~Fault("listfault")
  <2>0. FullInv /\ SleepInv /\ Sleeping = Range(queues.sched)
    BY SteadyParts
  <2>1. PICK fits \in BOOLEAN :
          LET q == QueuesAfterSleep(t, fits) IN
          /\ QueuesOK(q) /\ running \in Ready
          /\ \A p \in Sleeping : q.wake[p] = queues.wake[p]
          /\ Range(q.sched) \subseteq Sleeping \union {running}
          /\ ~PickFaults(q, now) /\ queues' = QueuesAfterPick(q, now)
          /\ UNCHANGED <<now, systick>>
    BY <1>2, <2>0, SleepParts
  <2> DEFINE q == QueuesAfterSleep(t, fits)
  <2>2. UserTraps /\ running \in Pids /\ running \notin Sleeping
    BY <2>0, CallerAwake DEF SyscallSleepUntil
  <2>3. running \in Dozers
    BY <2>2 DEF Dozers
  <2>4. PICK a, b : Dozers \subseteq {a, b} /\ Sleeping \subseteq {a, b}
    BY SteadyParts
  <2>5. q \in QueueType(Pids) /\ Consistent(q) /\ SortedQueue(q)
    <3>1. running \in {a, b}
      BY <2>3, <2>4
    <3>2. Len(queues.sched) <= 1
      BY <2>0, <2>2, <2>4, <3>1, OneSleeper
    <3>3. Len(queues.sched) \in Nat
      BY <2>0, SleeperFacts, LenProperties
    <3>4. SortedQueue(q)
      BY <2>0, <2>1, <2>2, <3>2, <3>3, SleepOrder, SteadyParts
    <3> QED BY <2>1, <3>4 DEF QueuesOK
  <2> HIDE DEF q
  <2>6. /\ ~PickFaults(q, now) /\ queues' = QueuesAfterPick(q, now)
        /\ Range(q.sched) \subseteq Sleeping \union {running}
        /\ \A p \in Sleeping : q.wake[p] = queues.wake[p]
        /\ UNCHANGED <<now, systick>>
    BY <2>1 DEF q
  <2>7. Range(q.sched) \subseteq Dozers
    BY <2>0, <2>3, <2>6 DEF SleepInv
  <2>8. LaterServed(q, SinceTick)
    <3>1. \A p \in Sleeping : q.wake[p] + SinceTick >= now
      BY <2>0, <2>6, SteadyParts DEF Served
    <3>2. now \in Nat /\ SinceTick \in Nat /\ q.wake \in [Pids -> Nat]
          /\ Range(q.sched) \subseteq Pids
      BY <2>5, RangeOfSeq, SteadyParts DEF QueueType
    <3> SUFFICES ASSUME NEW p \in Range(q.sched), NEW h \in Range(q.sched),
                        p # h, q.wake[h] <= q.wake[p]
                 PROVE  q.wake[p] + SinceTick >= now
      BY DEF LaterServed
    <3>3. CASE p \in Sleeping
      BY <3>1, <3>3
    <3>4. CASE h \in Sleeping
      <4>1. q.wake[h] + SinceTick >= now /\ q.wake[h] \in Nat /\ q.wake[p] \in Nat
        BY <3>1, <3>2, <3>4
      <4> QED BY <3>2, <4>1
    <3> QED BY <2>6, <3>3, <3>4
  <2> QED BY <2>5, <2>6, <2>7, <2>8, SelectSleepInv
<1> QED BY <1>1, <1>2

LEMMA NextSleepInv ==
  ASSUME AtMostTwoSleep, SteadyInv, ~primask, TaskStep \/ CoreStep
  PROVE  SleepInv'
<1>parts. /\ FullInv /\ queues \in QueueType(Pids) /\ Consistent(queues)
          /\ SortedQueue(queues) /\ Sleeping = Range(queues.sched)
          /\ Served(queues, SinceTick) /\ UNCHANGED <<phase, program>>
          /\ SleepInv /\ UnbornHaveNoTime
  BY SteadyParts DEF TaskStep, CoreStep
<1>1. CASE MainCreatesTask \/ SyscallCreateTask
  <2>1. CASE Fault("overrun")
    BY <1>parts, <2>1, FrameSleepInv DEF Fault, taskVars
  <2>2. CASE /\ nextPid < MAX_TASKS /\ queues' = QueueTask(queues, nextPid, TRUE)
             /\ UNCHANGED <<now, systick>>
    <3>1. nextPid \in Pids /\ nextPid \notin Created
      BY <1>parts, <2>2, PidFacts DEF FullInv, IInv
    <3>2. queues.wake[nextPid] = NilTime
      BY <1>parts, <3>1 DEF UnbornHaveNoTime
    <3>3. ~IsScheduled(queues, nextPid)
      BY <3>2 DEF IsScheduled
    <3>4. queues'.sched = queues.sched /\ queues'.wake = queues.wake
      BY <1>parts, <2>2, <3>3 DEF QueueTask, QueueType
    <3> QED BY <1>parts, <2>2, <3>4, FrameSleepInv
  <2> QED BY <1>1, <2>1, <2>2
       DEF MainCreatesTask, SyscallCreateTask, CreateTask
<1>2. CASE SyscallYield
  <2>1. CASE Fault("listfault")
    BY <1>parts, <2>1, FrameSleepInv DEF Fault, taskVars
  <2>2. CASE /\ ~PickFaults(queues, now) /\ queues' = QueuesAfterPick(queues, now)
             /\ UNCHANGED <<now, systick>>
    <3>1. LaterServed(queues, SinceTick)
      BY <1>parts DEF Served, LaterServed
    <3>2. Range(queues.sched) \subseteq Dozers
      BY <1>parts DEF SleepInv
    <3> QED BY <1>parts, <2>2, <3>1, <3>2, SelectSleepInv
  <2> QED BY <1>2, <2>1, <2>2 DEF SyscallYield
<1>3. ASSUME NEW t \in SLEEP_TIMES, UserTraps /\ t \in program[running],
             SyscallSleepUntil(t)
      PROVE  SleepInv'
  BY <1>parts, <1>3, SleepStepInv
<1>4. CASE SysTick
  <2>1. CASE Fault("listfault")
    BY <1>parts, <2>1, FrameSleepInv DEF Fault, taskVars
  <2>2. CASE ~RescheduleRequired /\ systick' = FALSE /\ UNCHANGED <<now, taskVars>>
    BY <1>4, <1>parts, <2>2, TickSleepInv DEF SysTick, RescheduleRequired, taskVars
  <2>3. CASE /\ ~PickFaults(queues, now) /\ systick' = FALSE /\ now' = now
             /\ queues' = QueuesAfterPick(queues, now)
    BY <1>4, <1>parts, <2>3, TickSleepInv DEF SysTick
  <2> QED BY <1>4, <2>1, <2>2, <2>3 DEF SysTick
<1>5. CASE SyscallEscalates \/ Start \/ PendSVEntry \/ PendSVSwitch \/ PendSVReturn
  BY <1>parts, <1>5, FrameSleepInv
     DEF SyscallEscalates, Fault, Start, PendSVEntry, PendSVSwitch, PendSVReturn,
         taskVars
<1> QED BY <1>1, <1>2, <1>3, <1>4, <1>5 DEF TaskStep, CoreStep

-----------------------------------------------------------------------------
(* The theorems                                                            *)

LEMMA InitSteadyInv == SteadyInit => SteadyInv
<1> SUFFICES ASSUME SteadyInit PROVE SteadyInv
  OBVIOUS
<1>1. BootState /\ now \in Nat /\ phase = 0 /\ program \in PROGRAMS
  BY SteadyAssumption DEF SteadyInit
<1>2. FullInv
  BY <1>1, BootIInv, BootTaskInv DEF FullInv
<1>3. UnbornHaveNoTime
  BY <1>1 DEF BootState, UnbornHaveNoTime
<1>4. ClockInv
  BY <1>1, PeriodAssumption, SteadyAssumption DEF ClockInv
<1>5. SleepInv
  <2>1. queues.sched = << >>
    BY <1>1 DEF BootState
  <2>2. Range(queues.sched) = {}
    BY <2>1 DEF Range
  <2>3. SortedQueue(queues)
    BY <2>1 DEF SortedQueue
  <2> QED BY <1>1, <2>2, <2>3 DEF SleepInv, Sleeping, Served, Rested
<1> QED BY <1>2, <1>3, <1>4, <1>5 DEF SteadyInv

\* The handlers and the tasks leave the clock; a SysTick is served or pending.
LEMMA HandlerClock ==
  ASSUME TaskStep \/ CoreStep
  PROVE  /\ Next /\ UNCHANGED <<now, phase>>
         /\ ClockInv => ClockInv'
         /\ primask => primask'
<1>1. now' = now /\ (systick' => systick) /\ (primask => primask')
  <2>1. CASE CreateTask
    <3>1. UNCHANGED <<now, systick, primask>>
      BY <2>1 DEF CreateTask, Fault
    <3> QED BY <3>1
  <2>2. CASE \E t \in SLEEP_TIMES : SyscallSleepUntil(t)
    <3>1. UNCHANGED <<now, systick, primask>>
      BY <2>2 DEF SyscallSleepUntil, Fault
    <3> QED BY <3>1
  <2>3. CASE SyscallYield \/ SyscallEscalates
    <3>1. UNCHANGED <<now, systick, primask>>
      BY <2>3 DEF SyscallYield, SyscallEscalates, Fault
    <3> QED BY <3>1
  <2>4. CASE SysTick
    BY <2>4 DEF SysTick, Fault
  <2>5. CASE Start \/ PendSVEntry \/ PendSVReturn
    <3>1. UNCHANGED <<now, systick, primask>>
      BY <2>5 DEF Start, PendSVEntry, PendSVReturn
    <3> QED BY <3>1
  <2>6. CASE PendSVSwitch
    <3>1. UNCHANGED <<now, systick>>
      BY <2>6 DEF PendSVSwitch
    <3>2. primask' = TRUE \/ primask' = primask
      BY <2>6 DEF PendSVSwitch
    <3> QED BY <3>1, <3>2
  <2> QED BY <2>1, <2>2, <2>3, <2>4, <2>5, <2>6
       DEF TaskStep, CoreStep, MainCreatesTask, SyscallCreateTask
<1>2. phase' = phase
  BY DEF TaskStep, CoreStep
<1>3. Next
  BY DEF TaskStep, CoreStep, Next
<1>4. ASSUME ClockInv PROVE ClockInv'
  <2>1. systick' => systick
    BY <1>1
  <2> QED BY <1>2, <1>4, <2>1 DEF ClockInv
<1> QED BY <1>1, <1>2, <1>3, <1>4

LEMMA NextSteadyInv ==
  ASSUME KILLABLE = {}, AtMostTwoSleep, SteadyInv, [SteadyNext]_steadyVars
  PROVE  SteadyInv'
<1>1. CASE Pass
  <2>1. FullInv' /\ UnbornHaveNoTime' /\ primask' = primask
    BY <1>1, PassFullInv DEF SteadyInv, Pass
  <2>2. CASE primask
    BY <2>1, <2>2 DEF SteadyInv
  <2>3. CASE ~primask
    <3>1. IInv /\ ClockInv /\ SleepInv
      BY <2>3 DEF SteadyInv, FullInv
    <3>2. ClockInv' /\ SleepInv'
      BY <1>1, <2>3, <3>1, PassClock, PassSleepInv
    <3> QED BY <2>1, <3>2 DEF SteadyInv
  <2> QED BY <2>2, <2>3
<1>2. CASE TaskStep \/ CoreStep
  <2>1. Next /\ now' = now /\ (ClockInv => ClockInv') /\ (primask => primask')
    BY <1>2, HandlerClock
  <2>2. FullInv /\ UnbornHaveNoTime /\ now \in Nat
    BY QueueParts DEF SteadyInv
  <2>3. ~Advance
    BY <2>1, <2>2 DEF Advance
  <2>4. FullInv'
    BY <2>1, <2>2, NextIInv, NextTaskInv DEF FullInv
  <2>5. UnbornHaveNoTime'
    BY <2>1, <2>2, NextUnborn
  <2>6. CASE primask
    BY <2>1, <2>4, <2>5, <2>6 DEF SteadyInv
  <2>7. CASE ~primask
    <3>1. ClockInv' /\ SleepInv'
      BY <1>2, <2>1, <2>7, NextSleepInv DEF SteadyInv
    <3> QED BY <2>4, <2>5, <3>1 DEF SteadyInv
  <2> QED BY <2>6, <2>7
<1>3. CASE UNCHANGED steadyVars
  <2>1. UNCHANGED vars /\ UNCHANGED <<phase, program>>
    BY <1>3 DEF steadyVars
  <2>2. FullInv /\ UnbornHaveNoTime
    BY DEF SteadyInv
  <2>3. FullInv' /\ UnbornHaveNoTime'
    BY <2>1, <2>2, NextIInv, NextTaskInv, NextUnborn DEF FullInv
  <2>4. primask \/ (ClockInv /\ SleepInv) => primask' \/ (ClockInv' /\ SleepInv')
    BY <2>1, FrameSleepInv DEF ClockInv, vars
  <2> QED BY <2>3, <2>4 DEF SteadyInv
<1> QED BY <1>1, <1>2, <1>3 DEF SteadyNext

LEMMA SteadyInvariantHolds ==
  ASSUME KILLABLE = {}, AtMostTwoSleep
  PROVE  SteadySpec => []SteadyInv
<1>1. SteadyInv /\ [SteadyNext]_steadyVars => SteadyInv'
  BY NextSteadyInv
<1> QED BY <1>1, InitSteadyInv, PTL DEF SteadySpec

\* While the scheduler runs for ever no sleeper is woken later than one period
\* of SysTick after its time, and as long again as a SysTick may stay pending:
\* for any number of tasks, any times they ask for and any periods, wherever
\* ticks fall and however often tasks yield, if at most two tasks sleep, and
\* until interrupts are lost.
THEOREM LatenessStaysBounded ==
  ASSUME KILLABLE = {}, AtMostTwoSleep, PERIOD + LATENCY <= LATE
  PROVE  SteadySpec => []LatenessBounded
<1>1. SteadyInv => LatenessBounded
  <2> SUFFICES ASSUME SteadyInv, ~primask, NEW p \in Sleeping
               PROVE  queues.wake[p] + LATE >= now
    BY DEF LatenessBounded
  <2>1. /\ queues.wake[p] + SinceTick >= now /\ SinceTick \in Nat
        /\ SinceTick <= PERIOD + LATENCY /\ now \in Nat
    BY SteadyParts DEF Served
  <2>2. queues.wake[p] \in Nat
    <3>1. p \in Pids /\ queues.wake \in [Pids -> Nat]
      BY SteadyParts, SleeperFacts DEF QueueType
    <3> QED BY <3>1
  <2> QED BY <2>1, <2>2, SteadyAssumption, PeriodAssumption
<1> QED BY <1>1, SteadyInvariantHolds, PTL
=============================================================================
