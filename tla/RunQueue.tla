------------------------------ MODULE RunQueue ------------------------------
(***************************************************************************)
(* The two run queues of src/gkrtos/tasking/tasking.c and the functions    *)
(* that change them while the data structure lock is held (the *_locked    *)
(* functions).  A queue state q is a record:                               *)
(*   q.unsched  gkrtos_tasking_unscheduled_queue, the round robin ring     *)
(*   q.sched    gkrtos_tasking_scheduled_queue, tasks waiting for a time   *)
(*   q.wake     next_run_time of every task, NilTime when it has none      *)
(* Times are microseconds since boot in the code; only their order and     *)
(* their distance from the clock matter, so here they are any naturals.    *)
(***************************************************************************)
EXTENDS ListOps, Functions

CONSTANT PERIOD   \* gkrtos_get_systick_period(), in units of the clock

ASSUME PeriodAssumption == PERIOD \in Nat \ {0}

NilTime == 0      \* nil_time of the SDK

\* gkrtos_internal_tasking_is_scheduled_task
IsScheduled(q, p) == q.wake[p] # NilTime

\* The answers queue_sort may give about a task with this next_run_time.  It
\* takes its second and third argument for tasks, but gkrtos_list_insert_sorted
\* calls it with the first two list ITEMS: the times it compares are read
\* beyond the end of an item, from whatever is next to it on the heap.
QueueSort(time) == IF time = NilTime THEN {TRUE} ELSE BOOLEAN

\* Seeded fault: the scheduled queue's head is never replaced.
QueueTaskKeepsHead(q, p, fits) ==
  IF ~IsScheduled(q, p)
  THEN [q EXCEPT !.unsched = ListPrepend(@, p)]
  ELSE [q EXCEPT !.sched = ListInsertSorted(@, p, fits)]

\* gkrtos_internal_tasking_queue_task_locked; fits is queue_sort's answer.
QueueTask(q, p, fits) ==
  IF ~IsScheduled(q, p)
  THEN [q EXCEPT !.unsched = ListPrepend(@, p)]
  ELSE IF q.sched # <<>> /\ q.wake[p] < q.wake[Head(q.sched)]
  THEN [q EXCEPT !.sched = ListInsertHead(@, p)]
  ELSE [q EXCEPT !.sched = ListInsertSorted(@, p, fits)]

\* gkrtos_internal_tasking_dequeue_task_locked: next_run_time selects the queue.
DequeueTask(q, p) ==
  IF IsScheduled(q, p)
  THEN [q EXCEPT !.sched = ListRemove(@, p)]
  ELSE [q EXCEPT !.unsched = ListRemove(@, p)]

DequeueFaults(q, p) ==
  ListRemoveFaults(IF IsScheduled(q, p) THEN q.sched ELSE q.unsched, p)

\* Seeded fault: tasks are woken a period too soon.
HeadIsDueTooSoon(q, now) ==
  q.sched # <<>> /\ q.wake[Head(q.sched)] < now + 2 * PERIOD

\* Is the head of the scheduled queue to run within the next systick period?
HeadIsDue(q, now) == q.sched # <<>> /\ q.wake[Head(q.sched)] < now + PERIOD

\* Seeded faults: the woken task stays in the scheduled queue, or keeps its
\* time.
QueuesAfterWakeKeepsItem(q) ==
  [q EXCEPT !.unsched = ListAppend(@, Head(q.sched)),
            !.wake[Head(q.sched)] = NilTime]
QueuesAfterWakeKeepsTime(q) ==
  [q EXCEPT !.unsched = ListAppend(@, Head(q.sched)),
            !.sched = ListRemove(@, Head(q.sched))]

\* The head of the scheduled queue moves to the end of the ring.
QueuesAfterWake(q) ==
  [q EXCEPT !.unsched = ListAppend(@, Head(q.sched)),
            !.sched = ListRemove(@, Head(q.sched)),
            !.wake[Head(q.sched)] = NilTime]

\* gkrtos_internal_tasking_get_next_task_locked: the queues it leaves ...
QueuesAfterPick(q, now) ==
  IF HeadIsDue(q, now)
  THEN QueuesAfterWake(q)
  ELSE [q EXCEPT !.unsched = ListRotate(@)]

\* ... and the task it returns.
PickedTask(q, now) ==
  IF HeadIsDue(q, now) THEN Head(q.sched) ELSE Head(ListRotate(q.unsched))

\* With nothing due and an empty ring, get_head reads through the head pointer
\* that the last removal left behind, to a freed item.
PickFaults(q, now) == ~HeadIsDue(q, now) /\ q.unsched = <<>>

-----------------------------------------------------------------------------
(* What the functions above rely on                                        *)

QueueType(P) == [unsched : Seq(P), sched : Seq(P), wake : [P -> Nat]]

Members(q) == Range(q.unsched) \union Range(q.sched)

\* No task is twice in a queue, and next_run_time names the queue of a task:
\* DequeueTask has nothing else to go by.
Consistent(q) ==
  /\ IsInjective(q.unsched) /\ IsInjective(q.sched)
  /\ \A p \in Range(q.unsched) : ~IsScheduled(q, p)
  /\ \A p \in Range(q.sched) : IsScheduled(q, p)
=============================================================================
