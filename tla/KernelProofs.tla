---------------------------- MODULE KernelProofs ----------------------------
(***************************************************************************)
(* Proofs about Kernel.tla, for every value of its constants: what each    *)
(* operation of RunQueue.tla does to consistent queues, that the run       *)
(* queues therefore stay consistent, and what interrupt masking relies on. *)
(***************************************************************************)
EXTENDS KernelProps, ListTheorems

-----------------------------------------------------------------------------
(* The operations of the run queues, over any set P of tasks               *)

\* A consistent pair of queues holds each task in one of them.
LEMMA QueuesDisjoint ==
  ASSUME NEW q, Consistent(q)
  PROVE  Range(q.unsched) \cap Range(q.sched) = {}
BY DEF Consistent

\* dequeue_task takes out the task, whichever queue it is in.
LEMMA DequeueFacts ==
  ASSUME NEW P, NEW q \in QueueType(P), Consistent(q), NEW p \in P
  PROVE  LET r == DequeueTask(q, p) IN
         /\ r \in QueueType(P) /\ Consistent(r)
         /\ Members(r) = Members(q) \ {p}
         /\ Range(q.unsched) \ {p} \subseteq Range(r.unsched)
         /\ Range(r.sched) = Range(q.sched) \ {p}
         /\ r.wake = q.wake
<1> DEFINE r == DequeueTask(q, p)
<1>1. /\ q.unsched \in Seq(P) /\ q.sched \in Seq(P) /\ q.wake \in [P -> Nat]
      /\ q = [unsched |-> q.unsched, sched |-> q.sched, wake |-> q.wake]
      /\ IsInjective(q.unsched) /\ IsInjective(q.sched)
  BY DEF QueueType, Consistent
<1>2. Range(q.unsched) \cap Range(q.sched) = {}
  BY QueuesDisjoint
<1>3. CASE IsScheduled(q, p)
  <2>1. /\ r.unsched = q.unsched /\ r.wake = q.wake
        /\ r.sched = ListRemove(q.sched, p)
        /\ r = [unsched |-> r.unsched, sched |-> r.sched, wake |-> r.wake]
    BY <1>1, <1>3 DEF DequeueTask
  <2> DEFINE t == ListRemove(q.sched, p)
  <2>2. /\ t \in Seq(P) /\ IsInjective(t)
        /\ Range(t) = Range(q.sched) \ {p}
    BY <1>1, RemoveFacts
  <2>3. p \notin Range(q.unsched)
    BY <1>3 DEF Consistent
  <2> HIDE DEF r, t
  <2>4. r \in QueueType(P)
    BY <1>1, <2>1, <2>2 DEF QueueType, t
  <2>5. Consistent(r)
    BY <1>1, <2>1, <2>2 DEF Consistent, IsScheduled, t
  <2>6. Members(r) = Members(q) \ {p}
    BY <2>1, <2>2, <2>3 DEF Members, t
  <2> QED BY <2>1, <2>2, <2>4, <2>5, <2>6 DEF r, t
<1>4. CASE ~IsScheduled(q, p)
  <2>1. /\ r.sched = q.sched /\ r.wake = q.wake
        /\ r.unsched = ListRemove(q.unsched, p)
        /\ r = [unsched |-> r.unsched, sched |-> r.sched, wake |-> r.wake]
    BY <1>1, <1>4 DEF DequeueTask
  <2> DEFINE t == ListRemove(q.unsched, p)
  <2>2. /\ t \in Seq(P) /\ IsInjective(t)
        /\ Range(t) = Range(q.unsched) \ {p}
    BY <1>1, RemoveFacts
  <2>3. p \notin Range(q.sched)
    BY <1>4 DEF Consistent
  <2> HIDE DEF r, t
  <2>4. r \in QueueType(P)
    BY <1>1, <2>1, <2>2 DEF QueueType, t
  <2>5. Consistent(r)
    BY <1>1, <2>1, <2>2 DEF Consistent, IsScheduled, t
  <2>6. Members(r) = Members(q) \ {p}
    BY <2>1, <2>2, <2>3 DEF Members, t
  <2> QED BY <2>1, <2>2, <2>3, <2>4, <2>5, <2>6 DEF r, t
<1> QED BY <1>3, <1>4

\* queue_task adds a task that is in no queue, to the one its time names.
LEMMA QueueFacts ==
  ASSUME NEW P, NEW q \in QueueType(P), Consistent(q), NEW p \in P,
         p \notin Members(q), NEW fits \in BOOLEAN
  PROVE  LET r == QueueTask(q, p, fits) IN
         /\ r \in QueueType(P) /\ Consistent(r)
         /\ Members(r) = Members(q) \union {p}
         /\ Range(q.unsched) \subseteq Range(r.unsched)
         /\ Range(r.sched) = Range(q.sched) \union {x \in {p} : IsScheduled(q, x)}
         /\ r.wake = q.wake
<1> DEFINE r == QueueTask(q, p, fits)
<1>1. /\ q.unsched \in Seq(P) /\ q.sched \in Seq(P) /\ q.wake \in [P -> Nat]
      /\ q = [unsched |-> q.unsched, sched |-> q.sched, wake |-> q.wake]
      /\ IsInjective(q.unsched) /\ IsInjective(q.sched)
      /\ p \notin Range(q.unsched) /\ p \notin Range(q.sched)
  BY DEF QueueType, Consistent, Members
<1>2. CASE IsScheduled(q, p)
  <2> DEFINE t == r.sched
  <2>1. /\ r.unsched = q.unsched /\ r.wake = q.wake
        /\ r = [unsched |-> r.unsched, sched |-> r.sched, wake |-> r.wake]
        /\ t \in {ListInsertHead(q.sched, p), ListInsertSorted(q.sched, p, fits)}
    BY <1>1, <1>2 DEF QueueTask
  <2> HIDE DEF r, t
  <2>2. /\ t \in Seq(P) /\ IsInjective(t)
        /\ Range(t) = Range(q.sched) \union {p}
    <3>1. /\ Adds(P, q.sched, p, ListInsertHead(q.sched, p))
          /\ Adds(P, q.sched, p, ListInsertSorted(q.sched, p, fits))
      BY <1>1, InsertFacts
    <3>2. Adds(P, q.sched, p, t)
      BY <2>1, <3>1
    <3> QED BY <1>1, <3>2 DEF Adds
  <2>3. r \in QueueType(P)
    BY <1>1, <2>1, <2>2 DEF QueueType, t
  <2>4. Consistent(r)
    BY <1>1, <1>2, <2>1, <2>2 DEF Consistent, IsScheduled, t
  <2>5. Members(r) = Members(q) \union {p}
    BY <2>1, <2>2 DEF Members, t
  <2> QED BY <1>2, <2>1, <2>2, <2>3, <2>4, <2>5 DEF r, t
<1>3. CASE ~IsScheduled(q, p)
  <2> DEFINE t == r.unsched
  <2>1. /\ r.sched = q.sched /\ r.wake = q.wake
        /\ r = [unsched |-> r.unsched, sched |-> r.sched, wake |-> r.wake]
        /\ t = ListPrepend(q.unsched, p)
    BY <1>1, <1>3 DEF QueueTask
  <2> HIDE DEF r, t
  <2>2. /\ t \in Seq(P) /\ IsInjective(t)
        /\ Range(t) = Range(q.unsched) \union {p}
    <3>1. Adds(P, q.unsched, p, ListPrepend(q.unsched, p))
      BY <1>1, InsertFacts
    <3>2. Adds(P, q.unsched, p, t)
      BY <2>1, <3>1
    <3> QED BY <1>1, <3>2 DEF Adds
  <2>3. r \in QueueType(P)
    BY <1>1, <2>1, <2>2 DEF QueueType, t
  <2>4. Consistent(r)
    BY <1>1, <1>3, <2>1, <2>2 DEF Consistent, IsScheduled, t
  <2>5. Members(r) = Members(q) \union {p}
    BY <2>1, <2>2 DEF Members, t
  <2> QED BY <1>3, <2>1, <2>2, <2>3, <2>4, <2>5 DEF r, t
<1> QED BY <1>2, <1>3

\* A task that is in no queue may be given any time.
LEMMA SetTimeFacts ==
  ASSUME NEW P, NEW q \in QueueType(P), Consistent(q), NEW p \in P,
         p \notin Members(q), NEW time \in Nat
  PROVE  LET r == [q EXCEPT !.wake[p] = time] IN
         /\ r \in QueueType(P) /\ Consistent(r)
         /\ Members(r) = Members(q)
         /\ r.unsched = q.unsched /\ r.sched = q.sched
         /\ r.wake = [q.wake EXCEPT ![p] = time]
<1> DEFINE r == [q EXCEPT !.wake[p] = time]
<1>1. /\ q.unsched \in Seq(P) /\ q.sched \in Seq(P) /\ q.wake \in [P -> Nat]
      /\ q = [unsched |-> q.unsched, sched |-> q.sched, wake |-> q.wake]
      /\ IsInjective(q.unsched) /\ IsInjective(q.sched)
      /\ p \notin Range(q.unsched) /\ p \notin Range(q.sched)
  BY DEF QueueType, Consistent, Members
<1>2. /\ r = [unsched |-> q.unsched, sched |-> q.sched, wake |-> r.wake]
      /\ r.unsched = q.unsched /\ r.sched = q.sched
      /\ r.wake = [q.wake EXCEPT ![p] = time]
  <2> DEFINE w == [q.wake EXCEPT ![p] = time]
  <2>1. r = [q EXCEPT !.wake = w]
    BY Zenon
  <2> HIDE DEF w
  <2>2. [q EXCEPT !.wake = w]
          = [unsched |-> q.unsched, sched |-> q.sched, wake |-> w]
    BY <1>1
  <2> HIDE DEF r
  <2> QED BY <2>1, <2>2 DEF w
<1>3. Range(q.unsched) \subseteq P /\ Range(q.sched) \subseteq P
  BY <1>1, RangeOfSeq
<1> HIDE DEF r
<1>4. r \in QueueType(P)
  BY <1>1, <1>2 DEF QueueType
<1>5. \A x \in P : x # p => r.wake[x] = q.wake[x]
  BY <1>1, <1>2
<1>6. Consistent(r)
  BY <1>1, <1>2, <1>3, <1>5 DEF Consistent, IsScheduled
<1> QED BY <1>2, <1>4, <1>6 DEF r, Members

\* get_next_task moves tasks between the queues but neither adds nor drops one,
\* and the task it returns is in the ring it leaves.
LEMMA PickFacts ==
  ASSUME NEW P, NEW q \in QueueType(P), Consistent(q), NEW time \in Nat,
         ~PickFaults(q, time)
  PROVE  LET r == QueuesAfterPick(q, time) IN
         /\ r \in QueueType(P) /\ Consistent(r)
         /\ Members(r) = Members(q)
         /\ Range(q.unsched) \subseteq Range(r.unsched)
         /\ PickedTask(q, time) \in Range(r.unsched)
         /\ \/ Range(r.sched) = Range(q.sched) /\ r.wake = q.wake
            \/ \E p \in Range(q.sched) :
                 /\ q.wake[p] < time + PERIOD
                 /\ Range(r.sched) = Range(q.sched) \ {p}
                 /\ r.wake = [q.wake EXCEPT ![p] = NilTime]
<1> DEFINE r == QueuesAfterPick(q, time)
<1>1. /\ q.unsched \in Seq(P) /\ q.sched \in Seq(P) /\ q.wake \in [P -> Nat]
      /\ q = [unsched |-> q.unsched, sched |-> q.sched, wake |-> q.wake]
      /\ IsInjective(q.unsched) /\ IsInjective(q.sched)
  BY DEF QueueType, Consistent
<1>2. Range(q.unsched) \cap Range(q.sched) = {}
  BY QueuesDisjoint
<1>3. CASE HeadIsDue(q, time)
  <2> DEFINE h == Head(q.sched)
             u == ListAppend(q.unsched, h)
             t == ListRemove(q.sched, h)
  <2>1. h \in P /\ h \in Range(q.sched)
    BY <1>1, <1>3, HeadInRange DEF HeadIsDue
  <2>2. h \notin Range(q.unsched)
    BY <1>2, <2>1
  <2>3. /\ r = [unsched |-> u, sched |-> t, wake |-> r.wake]
        /\ r.unsched = u /\ r.sched = t
        /\ r.wake = [q.wake EXCEPT ![h] = NilTime]
    BY <1>1, <1>3 DEF QueuesAfterPick, QueuesAfterWake
  <2>4. PickedTask(q, time) = h
    BY <1>3 DEF PickedTask
  <2> HIDE DEF r, h
  <2>5. /\ u \in Seq(P) /\ IsInjective(u)
        /\ Range(u) = Range(q.unsched) \union {h}
    BY <1>1, <2>1, <2>2, InsertFacts DEF Adds
  <2>6. /\ t \in Seq(P) /\ IsInjective(t)
        /\ Range(t) = Range(q.sched) \ {h}
    BY <1>1, RemoveFacts
  <2> HIDE DEF u, t
  <2>7. r \in QueueType(P)
    <3>1. r.wake \in [P -> Nat]
      <4>1. q.wake \in [P -> Nat] /\ NilTime \in Nat
        BY <1>1 DEF NilTime
      <4> QED BY <2>3, <4>1
    <3> QED BY <2>3, <2>5, <2>6, <3>1 DEF QueueType
  <2>8. Consistent(r)
    <3>1. Range(q.unsched) \subseteq P /\ Range(q.sched) \subseteq P
      BY <1>1, RangeOfSeq
    <3>2. \A x \in P : r.wake[x] = IF x = h THEN NilTime ELSE q.wake[x]
      BY <1>1, <2>3
    <3> QED BY <2>1, <2>3, <2>5, <2>6, <3>1, <3>2 DEF Consistent, IsScheduled
  <2>9. Members(r) = Members(q)
    BY <2>1, <2>3, <2>5, <2>6 DEF Members
  <2>10. q.wake[h] < time + PERIOD
    BY <1>3 DEF HeadIsDue, h
  <2> QED BY <2>1, <2>3, <2>4, <2>5, <2>6, <2>7, <2>8, <2>9, <2>10 DEF r
<1>4. CASE ~HeadIsDue(q, time)
  <2> DEFINE u == ListRotate(q.unsched)
  <2>1. /\ r = [unsched |-> u, sched |-> q.sched, wake |-> q.wake]
        /\ r.unsched = u /\ r.sched = q.sched /\ r.wake = q.wake
    BY <1>1, <1>4 DEF QueuesAfterPick
  <2>2. PickedTask(q, time) = Head(u) /\ q.unsched # <<>>
    BY <1>4 DEF PickedTask, PickFaults
  <2>3. /\ u \in Seq(P) /\ IsInjective(u) /\ Range(u) = Range(q.unsched)
        /\ u # <<>>
    BY <1>1, <2>2, RotateFacts
  <2> HIDE DEF r, u
  <2>4. Head(u) \in Range(u)
    BY <2>3, HeadInRange
  <2>5. r \in QueueType(P)
    BY <1>1, <2>1, <2>3 DEF QueueType
  <2>6. Consistent(r)
    BY <1>1, <2>1, <2>3 DEF Consistent, IsScheduled
  <2>7. Members(r) = Members(q)
    BY <2>1, <2>3 DEF Members
  <2> QED BY <2>1, <2>2, <2>3, <2>4, <2>5, <2>6, <2>7 DEF r
<1> QED BY <1>3, <1>4

-----------------------------------------------------------------------------
(* Type correctness and queue membership                                   *)

\* Once tasking has started, the core's two pids are those of created tasks.
CorePidsCreated ==
  cpu \in {"thread", "pendsv_entry", "pendsv_exit"} =>
    running \in Created /\ queued \in Created

\* TypeOK alone is not inductive: a pid must name a created task for its
\* queueing to keep the queues within the task list, and the queues must be
\* consistent for dequeue_task to find the item it removes.
IInv == TypeOK /\ QueueMembership /\ CorePidsCreated

\* Facts about the constants and the pids that every step needs.
LEMMA PidFacts ==
  ASSUME TypeOK
  PROVE  /\ Created \subseteq Pids /\ SpinPid \in Created
         /\ nextPid \notin Created
         /\ nextPid < MAX_TASKS => /\ nextPid \in Pids
                                   /\ nextPid + 1 \in 2 .. MAX_TASKS
                                   /\ 1 .. (nextPid + 1 - 1) = Created \union {nextPid}
BY KernelAssumption DEF TypeOK, Created, Pids, SpinPid

\* The queues hold created tasks only.
QueuesOK(q) == q \in QueueType(Pids) /\ Consistent(q) /\ Members(q) \subseteq Created

\* get_next_task keeps the queues in order and answers a created task.
LEMMA PickKeepsQueues ==
  ASSUME TypeOK, NEW q, QueuesOK(q), ~PickFaults(q, now)
  PROVE  QueuesOK(QueuesAfterPick(q, now)) /\ PickedTask(q, now) \in Created
<1>1. q \in QueueType(Pids) /\ Consistent(q) /\ now \in Nat
  BY DEF QueuesOK, TypeOK
<1> DEFINE r == QueuesAfterPick(q, now)
<1>2. /\ r \in QueueType(Pids) /\ Consistent(r) /\ Members(r) = Members(q)
      /\ PickedTask(q, now) \in Range(r.unsched)
  BY <1>1, PickFacts
<1> QED BY <1>2 DEF QueuesOK, Members

\* Queueing the running task again under any time disturbs no other task.
LEMMA SleepKeepsQueues ==
  ASSUME QueuesOK(queues), running \in Pids, running \in Created,
         NEW t \in Nat, NEW fits \in BOOLEAN
  PROVE  LET r == QueuesAfterSleep(t, fits) IN
         /\ QueuesOK(r)
         /\ Members(r) = Members(queues) \union {running}
         /\ Range(queues.unsched) \ {running} \subseteq Range(r.unsched)
         /\ Range(r.sched) = IF t = NilTime THEN Range(queues.sched) \ {running}
                             ELSE Range(queues.sched) \union {running}
         /\ r.wake = [queues.wake EXCEPT ![running] = t]
<1>1. queues \in QueueType(Pids) /\ Consistent(queues)
  BY DEF QueuesOK
<1> DEFINE d == DequeueTask(queues, running)
<1>2. /\ d \in QueueType(Pids) /\ Consistent(d)
      /\ Members(d) = Members(queues) \ {running}
      /\ Range(queues.unsched) \ {running} \subseteq Range(d.unsched)
      /\ Range(d.sched) = Range(queues.sched) \ {running}
      /\ d.wake = queues.wake
  BY <1>1, DequeueFacts
<1> DEFINE e == [d EXCEPT !.wake[running] = t]
<1> HIDE DEF d
<1>3. /\ e \in QueueType(Pids) /\ Consistent(e) /\ Members(e) = Members(d)
      /\ e.unsched = d.unsched /\ e.sched = d.sched
      /\ e.wake = [d.wake EXCEPT ![running] = t]
  BY <1>1, <1>2, SetTimeFacts
<1> HIDE DEF e
<1> DEFINE r == QueueTask(e, running, fits)
<1>4. /\ r \in QueueType(Pids) /\ Consistent(r)
      /\ Members(r) = Members(e) \union {running}
      /\ Range(e.unsched) \subseteq Range(r.unsched)
      /\ Range(r.sched) = Range(e.sched) \union {x \in {running} : IsScheduled(e, x)}
      /\ r.wake = e.wake
  BY <1>1, <1>2, <1>3, QueueFacts
<1> HIDE DEF r
<1>5. QueuesOK(r) /\ Members(r) = Members(queues) \union {running}
  BY <1>2, <1>3, <1>4 DEF QueuesOK
<1>6. IsScheduled(e, running) <=> t # NilTime
  <2>1. queues.wake \in [Pids -> Nat]
    BY <1>1 DEF QueueType
  <2> QED BY <1>2, <1>3, <2>1 DEF IsScheduled
<1>7. QueuesAfterSleep(t, fits) = r
  BY DEF QueuesAfterSleep, r, e, d
<1> QED BY <1>2, <1>3, <1>4, <1>5, <1>6, <1>7

\* Taking any task out of its queue.
LEMMA DequeueKeepsQueues ==
  ASSUME NEW q, QueuesOK(q), NEW p \in Pids
  PROVE  QueuesOK(DequeueTask(q, p))
BY DequeueFacts DEF QueuesOK

\* The initial state satisfies the invariant.
LEMMA BootIInv == now \in Nat /\ BootState => IInv
<1> SUFFICES ASSUME now \in Nat, BootState PROVE IInv
  OBVIOUS
<1>1. SpinPid \in Pids /\ 2 \in 2 .. MAX_TASKS /\ Created = {SpinPid}
  BY KernelAssumption DEF BootState, Pids, SpinPid, Created
<1> DEFINE u == <<SpinPid>>
<1>2. u \in Seq(Pids) /\ Range(u) = {SpinPid} /\ IsInjective(u)
  BY <1>1, SingletonFacts
<1> DEFINE e == << >>
<1>3. e \in Seq(Pids) /\ Range(e) = {} /\ IsInjective(e)
  BY DEF Range, IsInjective
<1> HIDE DEF u, e
<1>4. queues = [unsched |-> u, sched |-> e, wake |-> [p \in Pids |-> NilTime]]
  BY DEF BootState, u, e
<1>5. queues \in QueueType(Pids) /\ Consistent(queues)
      /\ Members(queues) = {SpinPid}
  BY <1>1, <1>2, <1>3, <1>4 DEF QueueType, Consistent, Members, IsScheduled, NilTime
<1>6. TypeOK
  <2>1. status \in [Pids -> Statuses]
    BY DEF BootState, Statuses
  <2>2. /\ now \in Nat /\ systick \in BOOLEAN /\ nextPid \in 2 .. MAX_TASKS
        /\ running = BootPid /\ queued = BootPid /\ switchedAt \in Nat
        /\ pendsv \in BOOLEAN /\ primask \in BOOLEAN /\ cpu \in CpuStates
    BY <1>1 DEF BootState, CpuStates
  <2> QED BY <1>5, <2>1, <2>2 DEF TypeOK
<1>7. QueueMembership
  BY <1>1, <1>5 DEF QueueMembership
<1>8. CorePidsCreated
  BY DEF BootState, CorePidsCreated
<1> QED BY <1>6, <1>7, <1>8 DEF IInv

LEMMA InitIInv == Init => IInv
BY BootIInv DEF Init

\* A system call or SysTick that only selects the next task.
LEMMA SelectIInv ==
  ASSUME IInv, NEW q, QueuesOK(q), ~PickFaults(q, now),
         queues' \in {QueuesAfterPick(q, now)}
                       \union {DequeueTask(QueuesAfterPick(q, now), p) : p \in Pids},
         QueueContextSwitch(PickedTask(q, now)),
         systick' \in BOOLEAN, status' \in [Pids -> Statuses],
         UNCHANGED <<now, nextPid, running, switchedAt, primask, cpu>>
  PROVE  IInv'
<1>1. /\ QueuesOK(QueuesAfterPick(q, now)) /\ PickedTask(q, now) \in Created
      /\ Created \subseteq Pids
  BY PickKeepsQueues, PidFacts DEF IInv
<1>2. QueuesOK(queues')
  BY <1>1, DequeueKeepsQueues
<1>3. queued' \in Created /\ queued' \in Pids /\ Created' = Created
  BY <1>1 DEF QueueContextSwitch, Created
<1>4. pendsv' \in BOOLEAN
  BY DEF IInv, TypeOK, QueueContextSwitch
<1>5. TypeOK'
  <2>1. queues' \in QueueType(Pids)
    BY <1>2 DEF QueuesOK
  <2> QED BY <1>3, <1>4, <2>1 DEF IInv, TypeOK
<1>6. QueueMembership'
  BY <1>2, <1>3 DEF QueueMembership, QueuesOK
<1>7. CorePidsCreated'
  BY <1>3 DEF IInv, CorePidsCreated
<1> QED BY <1>5, <1>6, <1>7 DEF IInv

\* A step that changes neither the queues nor what they range over.
LEMMA FrameIInv ==
  ASSUME IInv, UNCHANGED <<nextPid, queues>>, status' \in [Pids -> Statuses],
         now' \in Nat, systick' \in BOOLEAN, switchedAt' \in Nat,
         pendsv' \in BOOLEAN, primask' \in BOOLEAN, cpu' \in CpuStates,
         \/ /\ UNCHANGED <<running, queued>>
            /\ cpu \in Faults \union {"boot"} => cpu' \in Faults \union {cpu}
         \/ running' \in Created /\ queued' \in Created
  PROVE  IInv'
<1>1. Created' = Created /\ Created \subseteq Pids
  BY PidFacts DEF IInv, Created
<1>2. TypeOK'
  BY <1>1 DEF IInv, TypeOK
<1>3. QueueMembership'
  BY <1>1 DEF IInv, QueueMembership
<1>4. CorePidsCreated'
  BY <1>1 DEF IInv, TypeOK, CorePidsCreated, CpuStates, Faults
<1> QED BY <1>2, <1>3, <1>4 DEF IInv

\* The model's stops disturb nothing.
LEMMA FaultIInv ==
  ASSUME IInv, NEW kind \in Faults, Fault(kind)
  PROVE  IInv'
<1>1. /\ UNCHANGED <<nextPid, queues, running, queued>>
      /\ cpu' \in CpuStates /\ cpu' \in Faults
  BY DEF Fault, taskVars, coreVars, CpuStates
<1>2. /\ status' \in [Pids -> Statuses] /\ now' \in Nat
      /\ systick' \in BOOLEAN /\ switchedAt' \in Nat
      /\ pendsv' \in BOOLEAN /\ primask' \in BOOLEAN
  BY DEF Fault, taskVars, coreVars, IInv, TypeOK
<1> QED BY <1>1, <1>2, FrameIInv

\* gkrtos_tasking_task_new puts a task in a queue that held no such task.
LEMMA CreateIInv ==
  ASSUME IInv, CreateTask
  PROVE  IInv'
<1>1. CASE Fault("overrun")
  BY <1>1, FaultIInv DEF Faults
<1>2. CASE /\ nextPid < MAX_TASKS
           /\ nextPid' = nextPid + 1
           /\ status' = [status EXCEPT ![nextPid] = "SLEEPING"]
           /\ queues' = QueueTask(queues, nextPid, TRUE)
           /\ UNCHANGED <<now, systick, coreVars, pendsv, primask, cpu>>
  <2>1. /\ nextPid \in Pids /\ nextPid \notin Created
        /\ nextPid' \in 2 .. MAX_TASKS
        /\ Created' = Created \union {nextPid}
    BY <1>2, PidFacts DEF IInv, Created
  <2>2. /\ queues \in QueueType(Pids) /\ Consistent(queues)
        /\ Members(queues) \subseteq Created
    BY DEF IInv, TypeOK, QueueMembership
  <2>3. /\ queues' \in QueueType(Pids) /\ Consistent(queues')
        /\ Members(queues') = Members(queues) \union {nextPid}
    <3>1. nextPid \notin Members(queues)
      BY <2>1, <2>2
    <3>2. PICK fits \in BOOLEAN : queues' = QueueTask(queues, nextPid, fits)
      BY <1>2
    <3> QED BY <2>1, <2>2, <3>1, <3>2, QueueFacts
  <2>4. TypeOK'
    <3>1. status' \in [Pids -> Statuses]
      BY <1>2 DEF IInv, TypeOK, Statuses
    <3> QED BY <1>2, <2>1, <2>3, <3>1 DEF IInv, TypeOK, coreVars
  <2>5. QueueMembership'
    BY <2>1, <2>2, <2>3 DEF QueueMembership
  <2>6. CorePidsCreated'
    BY <1>2, <2>1 DEF IInv, CorePidsCreated, coreVars
  <2> QED BY <2>4, <2>5, <2>6 DEF IInv
<1> QED BY <1>1, <1>2 DEF CreateTask

\* kill picks the next task, then takes the victim out of its queue.
LEMMA KillIInv ==
  ASSUME IInv, NEW v \in Pids, Kill(v)
  PROVE  IInv'
<1>1. CASE Fault("listfault")
  BY <1>1, FaultIInv DEF Faults
<1>2. CASE /\ ~PickFaults(queues, now)
           /\ status' = [status EXCEPT ![v] = "COMPLETE"]
           /\ queues' = DequeueTask(QueuesAfterPick(queues, now), v)
           /\ QueueContextSwitch(PickedTask(queues, now))
           /\ UNCHANGED <<now, systick, nextPid, running, switchedAt, primask, cpu>>
  <2>1. QueuesOK(queues)
    BY DEF IInv, TypeOK, QueueMembership, QueuesOK
  <2>2. status' \in [Pids -> Statuses]
    BY <1>2 DEF IInv, TypeOK, Statuses
  <2>3. systick' \in BOOLEAN
    BY <1>2 DEF IInv, TypeOK
  <2> QED BY <1>2, <2>1, <2>2, <2>3, SelectIInv
<1> QED BY <1>1, <1>2 DEF Kill

\* Every step keeps the invariant.
LEMMA NextIInv == IInv /\ [Next]_vars => IInv'
<1> SUFFICES ASSUME IInv, [Next]_vars PROVE IInv'
  OBVIOUS
<1>queues. QueuesOK(queues)
  BY DEF IInv, TypeOK, QueueMembership, QueuesOK
<1>1. CASE MainCreatesTask
  BY <1>1, CreateIInv DEF MainCreatesTask
<1>2. CASE Start
  <2>1. running' \in Created /\ queued' \in Created
    BY <1>2, PidFacts DEF IInv, Start
  <2>2. status' \in [Pids -> Statuses]
    BY <1>2 DEF IInv, TypeOK, Start, Statuses
  <2>3. /\ UNCHANGED <<nextPid, queues, now, systick, pendsv, primask>>
        /\ switchedAt' = now /\ cpu' \in CpuStates
    BY <1>2 DEF Start, CpuStates
  <2> QED BY <2>1, <2>2, <2>3, FrameIInv DEF IInv, TypeOK
<1>3. CASE Advance
  <2>1. /\ UNCHANGED <<nextPid, queues, running, queued, status, switchedAt>>
        /\ UNCHANGED <<pendsv, primask, cpu>>
        /\ now' = now + 1 /\ systick' \in BOOLEAN
    BY <1>3 DEF Advance, taskVars, coreVars
  <2>2. now' \in Nat
    BY <2>1 DEF IInv, TypeOK
  <2> QED BY <2>1, <2>2, FrameIInv DEF IInv, TypeOK
<1>4. CASE SyscallYield
  <2>1. CASE Fault("listfault")
    BY <2>1, FaultIInv DEF Faults
  <2>2. CASE /\ ~PickFaults(queues, now)
             /\ queues' = QueuesAfterPick(queues, now)
             /\ QueueContextSwitch(PickedTask(queues, now))
             /\ UNCHANGED <<now, systick, nextPid, status, running, switchedAt,
                            primask, cpu>>
    <3>1. systick' \in BOOLEAN /\ status' \in [Pids -> Statuses]
      BY <2>2 DEF IInv, TypeOK
    <3> QED BY <1>queues, <2>2, <3>1, SelectIInv
  <2> QED BY <1>4, <2>1, <2>2 DEF SyscallYield
<1>5. CASE SyscallDie
  <2>1. running \in Pids
    BY <1>5, PidFacts DEF IInv, CorePidsCreated, SyscallDie, UserTraps, Traps, TaskRuns
  <2> QED BY <1>5, <2>1, KillIInv DEF SyscallDie
<1>6. CASE SyscallCreateTask
  BY <1>6, CreateIInv DEF SyscallCreateTask
<1>7. ASSUME NEW t \in SLEEP_TIMES, SyscallSleepUntil(t)
      PROVE  IInv'
  <2>1. running \in Created
    BY <1>7 DEF IInv, CorePidsCreated, SyscallSleepUntil, UserTraps, Traps, TaskRuns
  <2>2. PICK fits \in QueueSort(t) :
          \/ Fault("listfault")
          \/ /\ ~PickFaults(QueuesAfterSleep(t, fits), now)
             /\ queues' = QueuesAfterPick(QueuesAfterSleep(t, fits), now)
             /\ QueueContextSwitch(PickedTask(QueuesAfterSleep(t, fits), now))
             /\ UNCHANGED <<now, systick, nextPid, status, running, switchedAt,
                            primask, cpu>>
    BY <1>7 DEF SyscallSleepUntil
  <2>3. CASE Fault("listfault")
    BY <2>3, FaultIInv DEF Faults
  <2>4. CASE ~Fault("listfault")
    <3> DEFINE q == QueuesAfterSleep(t, fits)
    <3>1. QueuesOK(q)
      <4>1. t \in Nat /\ fits \in BOOLEAN
        BY <1>7, <2>2, KernelAssumption DEF QueueSort
      <4>2. running \in Pids
        BY <2>1, PidFacts DEF IInv
      <4> QED BY <1>queues, <2>1, <4>1, <4>2, SleepKeepsQueues
    <3>2. /\ ~PickFaults(q, now) /\ queues' = QueuesAfterPick(q, now)
          /\ QueueContextSwitch(PickedTask(q, now))
          /\ UNCHANGED <<now, systick, nextPid, status, running, switchedAt,
                         primask, cpu>>
      BY <2>2, <2>4
    <3> HIDE DEF q
    <3>3. systick' \in BOOLEAN /\ status' \in [Pids -> Statuses]
      BY <3>2 DEF IInv, TypeOK
    <3> QED BY <3>1, <3>2, <3>3, SelectIInv
  <2> QED BY <2>3, <2>4
<1>8. ASSUME NEW v \in KILLABLE, SyscallKill(v)
      PROVE  IInv'
  BY <1>8, KillIInv, KernelAssumption DEF SyscallKill, Pids
<1>10. CASE SyscallEscalates
  BY <1>10, FaultIInv DEF SyscallEscalates, Faults
<1>11. CASE SysTick
  <2>1. CASE /\ systick' = FALSE
             /\ UNCHANGED <<now, taskVars, coreVars, pendsv, primask, cpu>>
    <3>1. /\ UNCHANGED <<now, nextPid, status, queues, running, queued, switchedAt>>
          /\ UNCHANGED <<pendsv, primask, cpu>> /\ systick' \in BOOLEAN
      BY <2>1 DEF taskVars, coreVars
    <3> QED BY <3>1, FrameIInv DEF IInv, TypeOK
  <2>2. CASE Fault("listfault")
    BY <2>2, FaultIInv DEF Faults
  <2>3. CASE /\ ~PickFaults(queues, now) /\ systick' = FALSE
             /\ queues' = QueuesAfterPick(queues, now)
             /\ QueueContextSwitch(PickedTask(queues, now))
             /\ UNCHANGED <<now, nextPid, status, running, switchedAt, primask, cpu>>
    <3>1. systick' \in BOOLEAN /\ status' \in [Pids -> Statuses]
      BY <2>3 DEF IInv, TypeOK
    <3> QED BY <1>queues, <2>3, <3>1, SelectIInv
  <2> QED BY <1>11, <2>1, <2>2, <2>3 DEF SysTick
<1>12. CASE PendSVEntry
  <2>1. /\ UNCHANGED <<now, nextPid, status, queues, running, queued, switchedAt>>
        /\ UNCHANGED <<systick, primask>> /\ pendsv' \in BOOLEAN
        /\ cpu = "thread" /\ cpu' = "pendsv_entry"
    BY <1>12 DEF PendSVEntry, taskVars, coreVars
  <2>2. cpu' \in CpuStates /\ cpu \notin Faults \union {"boot"}
    BY <2>1 DEF CpuStates, Faults
  <2> QED BY <2>1, <2>2, FrameIInv DEF IInv, TypeOK
<1>13. CASE PendSVSwitch
  <2>1. /\ UNCHANGED <<now, systick, nextPid, queues, queued, pendsv>>
        /\ cpu = "pendsv_entry" /\ cpu' = "pendsv_exit"
        /\ running' = queued /\ switchedAt' \in {switchedAt, now}
        /\ primask' \in BOOLEAN
    BY <1>13 DEF PendSVSwitch, ContextSwitch, IInv, TypeOK
  <2>2. status' \in [Pids -> Statuses]
    <3>1. CASE UNCHANGED status
      BY <3>1 DEF IInv, TypeOK
    <3>2. CASE ContextSwitch
      BY <3>2 DEF ContextSwitch, IInv, TypeOK, Statuses
    <3> QED BY <1>13, <3>1, <3>2 DEF PendSVSwitch
  <2>3. running' \in Created /\ queued' \in Created
    BY <2>1 DEF IInv, CorePidsCreated
  <2>4. cpu' \in CpuStates /\ switchedAt' \in Nat
    BY <2>1 DEF CpuStates, IInv, TypeOK
  <2> QED BY <2>1, <2>2, <2>3, <2>4, FrameIInv DEF IInv, TypeOK
<1>14. CASE PendSVReturn
  <2>1. /\ UNCHANGED <<now, nextPid, status, queues, running, queued, switchedAt>>
        /\ UNCHANGED <<systick, pendsv, primask>>
        /\ cpu = "pendsv_exit" /\ cpu' = "thread"
    BY <1>14 DEF PendSVReturn, taskVars, coreVars
  <2>2. cpu' \in CpuStates /\ cpu \notin Faults \union {"boot"}
    BY <2>1 DEF CpuStates, Faults
  <2> QED BY <2>1, <2>2, FrameIInv DEF IInv, TypeOK
<1>15. CASE UNCHANGED vars
  <2>1. /\ UNCHANGED <<now, nextPid, status, queues, running, queued, switchedAt>>
        /\ UNCHANGED <<systick, pendsv, primask, cpu>>
    BY <1>15 DEF vars
  <2> QED BY <2>1, FrameIInv DEF IInv, TypeOK
<1> QED BY <1>1, <1>2, <1>3, <1>4, <1>5, <1>6, <1>7, <1>8, <1>10, <1>11,
           <1>12, <1>13, <1>14, <1>15 DEF Next

\* The strengthened invariant holds in every reachable state.
LEMMA InvariantHolds == Spec => []IInv
BY InitIInv, NextIInv, PTL DEF Spec

\* Pids stay within the task list, wake-up times are times: every variable
\* keeps its type, for any number of tasks, times, kills and preemptions.
THEOREM TypeCorrect == Spec => []TypeOK
<1>1. IInv => TypeOK
  BY DEF IInv
<1> QED BY <1>1, InvariantHolds, PTL

\* No sequence of system calls, wake-ups, kills and preemptions puts a task
\* twice in a queue, in both queues, in the queue that next_run_time does not
\* name, or queues a task that was never created.
THEOREM QueuesStayConsistent == Spec => []QueueMembership
<1>1. IInv => QueueMembership
  BY DEF IInv
<1> QED BY <1>1, InvariantHolds, PTL

-----------------------------------------------------------------------------
(* Interrupt masking                                                       *)

\* Nothing is pending before tasking starts.
BootInv == cpu = "boot" => ~systick /\ ~pendsv

LEMMA NextBootInv == BootInv /\ [Next]_vars => BootInv'
<1> SUFFICES ASSUME BootInv, [Next]_vars PROVE BootInv'
  OBVIOUS
<1>1. CASE UNCHANGED <<systick, pendsv, cpu>>
  BY <1>1 DEF BootInv
<1>2. CASE cpu' # "boot"
  BY <1>2 DEF BootInv
<1>3. CASE MainCreatesTask
  BY <1>1, <1>2, <1>3 DEF MainCreatesTask, CreateTask, Fault
<1>4. CASE Start \/ Advance \/ SysTick
  BY <1>2, <1>4 DEF Start, Advance, SysTick, Fault
<1>5. CASE SyscallYield \/ SyscallDie \/ SyscallCreateTask \/ SyscallEscalates
  BY <1>2, <1>5 DEF SyscallYield, SyscallDie, SyscallCreateTask, SyscallEscalates,
     Kill, CreateTask, Fault, UserTraps, Traps, TaskRuns
<1>6. ASSUME NEW t \in SLEEP_TIMES, SyscallSleepUntil(t) PROVE BootInv'
  BY <1>2, <1>6 DEF SyscallSleepUntil, Fault, UserTraps, Traps, TaskRuns
<1>7. ASSUME NEW v \in KILLABLE, SyscallKill(v) PROVE BootInv'
  BY <1>2, <1>7 DEF SyscallKill, Kill, Fault, UserTraps, Traps, TaskRuns
<1>8. CASE PendSVEntry \/ PendSVSwitch \/ PendSVReturn
  BY <1>2, <1>8 DEF PendSVEntry, PendSVSwitch, PendSVReturn
<1>9. CASE UNCHANGED vars
  BY <1>1, <1>9 DEF vars
<1> QED BY <1>3, <1>4, <1>5, <1>6, <1>7, <1>8, <1>9 DEF Next

LEMMA BootInvHolds == Spec => []BootInv
<1>1. Init => BootInv
  BY DEF Init, BootState, BootInv
<1> QED BY <1>1, NextBootInv, PTL DEF Spec

\* What leaves the switch in order: a fault, and a selection while no switch is
\* on its way, which triggers PendSV only if the tasks differ.
LEMMA FaultUpsetsNothing ==
  ASSUME NEW kind \in Faults, Fault(kind) PROVE Upset' => Upset
BY DEF Fault, Faults, Upset, OnItsWay, coreVars

LEMMA SelectUpsetsNothing ==
  ASSUME NEW p, QueueContextSwitch(p), ~OnItsWay, UNCHANGED <<running, primask, cpu>>
  PROVE  Upset' => Upset
BY DEF QueueContextSwitch, Upset, OnItsWay

LEMMA KillUpsetsNothing ==
  ASSUME NEW v, Kill(v), Traps PROVE Upset' => Upset
<1>1. CASE Fault("listfault")
  BY <1>1, FaultUpsetsNothing DEF Faults
<1>2. CASE ~Fault("listfault")
  <2>1. /\ QueueContextSwitch(PickedTask(queues, now)) /\ ~OnItsWay
        /\ UNCHANGED <<running, primask, cpu>>
    BY <1>2 DEF Kill, Traps, TaskRuns, OnItsWay
  <2> QED BY <2>1, SelectUpsetsNothing
<1> QED BY <1>1, <1>2

\* Only SysTick, and only with a switch on its way, upsets it.
LEMMA NextUpset ==
  ASSUME BootInv, [Next]_vars, Upset'
  PROVE  Upset \/ (OnItsWay /\ systick /\ ~systick')
<1>create. ASSUME CreateTask PROVE Upset
  <2>1. CASE Fault("overrun")
    BY <2>1, FaultUpsetsNothing DEF Faults
  <2>2. CASE UNCHANGED <<coreVars, pendsv, primask, cpu>>
    BY <2>2 DEF Upset, OnItsWay, coreVars
  <2> QED BY <1>create, <2>1, <2>2 DEF CreateTask
<1>1. CASE MainCreatesTask \/ SyscallCreateTask
  BY <1>1, <1>create DEF MainCreatesTask, SyscallCreateTask
<1>2. CASE Start
  BY <1>2 DEF Start, BootInv, Upset, OnItsWay
<1>3. CASE Advance \/ PendSVReturn
  BY <1>3 DEF Advance, PendSVReturn, coreVars, Upset, OnItsWay
<1>4. CASE SyscallYield
  <2>1. CASE Fault("listfault")
    BY <2>1, FaultUpsetsNothing DEF Faults
  <2>2. CASE ~Fault("listfault")
    <3>1. /\ QueueContextSwitch(PickedTask(queues, now)) /\ ~OnItsWay
          /\ UNCHANGED <<running, primask, cpu>>
      BY <1>4, <2>2 DEF SyscallYield, Traps, TaskRuns, OnItsWay
    <3> QED BY <3>1, SelectUpsetsNothing
  <2> QED BY <2>1, <2>2
<1>5. CASE SyscallDie
  BY <1>5, KillUpsetsNothing DEF SyscallDie, UserTraps
<1>6. ASSUME NEW t \in SLEEP_TIMES, SyscallSleepUntil(t) PROVE Upset
  <2>1. CASE Fault("listfault")
    BY <2>1, FaultUpsetsNothing DEF Faults
  <2>2. CASE ~Fault("listfault")
    <3>1. PICK fits \in QueueSort(t) :
            /\ QueueContextSwitch(PickedTask(QueuesAfterSleep(t, fits), now))
            /\ UNCHANGED <<running, primask, cpu>>
      BY <1>6, <2>2 DEF SyscallSleepUntil
    <3>2. ~OnItsWay
      BY <1>6 DEF SyscallSleepUntil, UserTraps, Traps, TaskRuns, OnItsWay
    <3> QED BY <3>1, <3>2, SelectUpsetsNothing
  <2> QED BY <2>1, <2>2
<1>7. ASSUME NEW v \in KILLABLE, SyscallKill(v) PROVE Upset
  BY <1>7, KillUpsetsNothing DEF SyscallKill, UserTraps
<1>8. CASE SyscallEscalates
  BY <1>8, FaultUpsetsNothing DEF SyscallEscalates, Faults
<1>9. CASE SysTick
  <2>1. CASE Fault("listfault")
    BY <2>1, FaultUpsetsNothing DEF Faults
  <2>2. CASE UNCHANGED <<coreVars, pendsv, primask, cpu>>
    BY <2>2 DEF Upset, OnItsWay, coreVars
  <2>3. CASE /\ systick' = FALSE /\ QueueContextSwitch(PickedTask(queues, now))
             /\ UNCHANGED <<running, primask, cpu>>
    <3>1. CASE ~OnItsWay
      BY <2>3, <3>1, SelectUpsetsNothing
    <3>2. CASE OnItsWay
      BY <1>9, <2>3, <3>2 DEF SysTick
    <3> QED BY <3>1, <3>2
  <2> QED BY <1>9, <2>1, <2>2, <2>3 DEF SysTick
<1>10. CASE PendSVEntry
  BY <1>10 DEF PendSVEntry, coreVars, Upset, OnItsWay
<1>11. CASE PendSVSwitch
  BY <1>11 DEF PendSVSwitch, ContextSwitch, Upset, OnItsWay
<1>12. CASE UNCHANGED vars
  BY <1>12 DEF vars, Upset, OnItsWay
<1> QED BY <1>1, <1>2, <1>3, <1>4, <1>5, <1>6, <1>7, <1>8, <1>9, <1>10, <1>11,
           <1>12 DEF Next

\* PendSV's early return, which leaves interrupts disabled, is reached through
\* one situation only, whatever programs call, create, kill and sleep to: a
\* SysTick taken while a switch is on its way.
THEOREM InterruptsLostOnlyByTick == Spec => SwitchUpsetOnlyByTick
<1>1. BootInv /\ [Next]_vars =>
        [Upset' => Upset \/ (OnItsWay /\ systick /\ ~systick')]_vars
  BY NextUpset
<1> QED BY <1>1, BootInvHolds, PTL DEF Spec, SwitchUpsetOnlyByTick

\* In a behaviour in which that never happens interrupts are always restored.
COROLLARY InterruptsKeptWithoutTick ==
  Spec /\ [][~(OnItsWay /\ systick /\ ~systick')]_vars => []InterruptsRestored
<1>1. Init => ~Upset
  BY DEF Init, BootState, Upset, OnItsWay
<1>2. ~Upset /\ [Upset' => Upset \/ (OnItsWay /\ systick /\ ~systick')]_vars
             /\ [~(OnItsWay /\ systick /\ ~systick')]_vars => ~Upset'
  BY DEF vars, Upset, OnItsWay
<1>3. ~Upset => InterruptsRestored
  BY DEF Upset, InterruptsRestored
<1> QED BY <1>1, <1>2, <1>3, InterruptsLostOnlyByTick, PTL DEF Spec, SwitchUpsetOnlyByTick
=============================================================================
