----------------------------- MODULE LinkedList -----------------------------
(***************************************************************************)
(* src/gkrtos/structures/list.c at the level of its nodes: circular doubly *)
(* linked lists whose items come from one heap.  What a freed item holds   *)
(* is undefined; NULL stands for it, so that TLC stops wherever it is      *)
(* followed.  A list that becomes empty keeps its head pointer, as the     *)
(* code does.                                                              *)
(***************************************************************************)
EXTENDS Naturals, Sequences, FiniteSets, FiniteSetsExt

CONSTANTS
  LISTS,   \* the lists, two in the scheduler
  ADDRS,   \* addresses malloc may return: the bound on live items
  DATA,    \* what raw_item may point to
  NULL     \* the NULL pointer

ASSUME LinkedListAssumption == IsFiniteSet(ADDRS) /\ NULL \notin ADDRS \union DATA

VARIABLES
  head, length,      \* struct gkrtos_list, for every list
  next, prev, data,  \* struct gkrtos_list_item, at every address
  live               \* addresses that are allocated

\* The fields of both structs, and the heap.
vars == <<head, length, next, prev, data, live>>

\* gkrtos_list_new, for every list
Init ==
  /\ head = [l \in LISTS |-> NULL] /\ length = [l \in LISTS |-> 0]
  /\ next = [a \in ADDRS |-> NULL] /\ prev = [a \in ADDRS |-> NULL]
  /\ data = [a \in ADDRS |-> NULL]
  /\ live = {}

-----------------------------------------------------------------------------
(* Insertion                                                               *)

\* The four pointer writes that put item a between two linked items.
LinkBetween(a, p, n) ==
  /\ next' = [next EXCEPT ![p] = a, ![a] = n]
  /\ prev' = [prev EXCEPT ![a] = p, ![n] = a]

\* gkrtos_list_item_new, and the data and length every insertion sets.
NewItem(l, a, x) ==
  /\ a \notin live
  /\ live' = live \union {a}
  /\ data' = [data EXCEPT ![a] = x]
  /\ length' = [length EXCEPT ![l] = @ + 1]

\* The first item of a list is linked to itself; every insertion but
\* insert_sorted, which calls append, has this branch.
First(l, a, x) ==
  /\ length[l] = 0
  /\ NewItem(l, a, x) /\ LinkBetween(a, a, a)
  /\ head' = [head EXCEPT ![l] = a]

\* gkrtos_list_append, of a list that has a head
AppendItem(l, a, x) ==
  /\ length[l] > 0
  /\ NewItem(l, a, x) /\ LinkBetween(a, prev[head[l]], head[l])
  /\ UNCHANGED head

\* Seeded fault: the item goes before the head instead of behind it.
PrependItemBeforeHead(l, a, x) ==
  /\ length[l] > 0
  /\ NewItem(l, a, x) /\ LinkBetween(a, prev[head[l]], head[l])
  /\ UNCHANGED head

\* gkrtos_list_prepend
PrependItem(l, a, x) ==
  /\ length[l] > 0
  /\ NewItem(l, a, x) /\ LinkBetween(a, head[l], next[head[l]])
  /\ UNCHANGED head

\* gkrtos_list_insert_head
InsertHeadItem(l, a, x) ==
  /\ length[l] > 0
  /\ NewItem(l, a, x) /\ LinkBetween(a, prev[head[l]], head[l])
  /\ head' = [head EXCEPT ![l] = a]

\* gkrtos_list_insert_sorted, fits being sort_fn's answer; a shorter list is
\* appended to.
InsertSortedItem(l, a, x, fits) ==
  /\ length[l] > 1
  /\ LET previous == IF fits THEN head[l] ELSE next[head[l]] IN
     NewItem(l, a, x) /\ LinkBetween(a, previous, next[previous])
  /\ UNCHANGED head

-----------------------------------------------------------------------------
(* Search, removal and rotation                                            *)

\* The item reached from the head after i - 1 steps along next.
Walk(l) ==
  LET item[i \in 1 .. Cardinality(ADDRS)] ==
        IF i = 1 THEN head[l] ELSE next[item[i - 1]]
  IN  item

\* gkrtos_list_get_item_with_data: walk until the data or the head is found.
GetItemWithData(l, x) ==
  LET item == Walk(l)
      hits == {i \in 1 .. Cardinality(ADDRS) :
                 /\ data[item[i]] = x
                 /\ \A j \in 2 .. i : item[j] # head[l]}
  IN  IF length[l] = 0 \/ hits = {} THEN NULL ELSE item[Min(hits)]

\* Seeded faults: prev still points to the removed item; it is not freed.
PrevWithoutKeepsItem(l, item) == [prev EXCEPT ![item] = NULL]
LiveWithoutLeaks(item) == live

\* gkrtos_list_remove takes the item out of both directions of the ring ...
NextWithout(item) ==
  LET p == prev[item]
      n == next[item] IN
  [[next EXCEPT ![p] = n] EXCEPT ![n] = IF @ = item THEN n ELSE @,
                                 ![item] = NULL]
PrevWithout(l, item) ==
  LET p == prev[item]
      n == next[item] IN
  [[prev EXCEPT ![n] = p] EXCEPT ![p] = IF item # head[l] /\ @ = item THEN p ELSE @,
                                 ![item] = NULL]

\* ... and frees it.
LiveWithout(item) == live \ {item}

RemoveItem(l, item) ==
  /\ length[l] > 0
  /\ next' = NextWithout(item)
  /\ prev' = PrevWithout(l, item)
  /\ data' = [data EXCEPT ![item] = NULL]
  /\ head' = [head EXCEPT ![l] = IF @ = item THEN next[item] ELSE @]
  /\ length' = [length EXCEPT ![l] = @ - 1]
  /\ live' = LiveWithout(item)

\* How the scheduler removes: it searches first.  The data it gives is in the
\* list (Kernel.tla: DequeueFaults).
RemoveData(l, x) ==
  LET item == GetItemWithData(l, x) IN item # NULL /\ RemoveItem(l, item)

\* Seeded fault: the list rotates the other way.
RotateBackwards(l) ==
  /\ length[l] > 0
  /\ head' = [head EXCEPT ![l] = prev[@]]
  /\ UNCHANGED <<length, next, prev, data, live>>

\* gkrtos_list_rotate
Rotate(l) ==
  /\ length[l] > 0
  /\ head' = [head EXCEPT ![l] = next[@]]
  /\ UNCHANGED <<length, next, prev, data, live>>

Insert(l, a, x) ==
  \/ First(l, a, x)
  \/ AppendItem(l, a, x) \/ PrependItem(l, a, x) \/ InsertHeadItem(l, a, x)
  \/ \E fits \in BOOLEAN : InsertSortedItem(l, a, x, fits)

Next ==
  \E l \in LISTS :
    \/ Rotate(l)
    \/ \E x \in DATA : RemoveData(l, x) \/ \E a \in ADDRS : Insert(l, a, x)

Spec == Init /\ [][Next]_vars

-----------------------------------------------------------------------------
(* Properties                                                              *)

ItemsOf(l) == {Walk(l)[i] : i \in 1 .. length[l]}

\* Every list is a ring of exactly length allocated items, prev undoes next all
\* the way round, including at the head, and the tail is head->prev.
RingWellFormed ==
  \A l \in LISTS : length[l] > 0 =>
    /\ Cardinality(ItemsOf(l)) = length[l] /\ ItemsOf(l) \subseteq live
    /\ next[Walk(l)[length[l]]] = head[l]
    /\ \A a \in ItemsOf(l) : prev[next[a]] = a /\ next[prev[a]] = a

\* The lists share no item although they share the heap and reuse what was
\* freed, and an item that is in no list has been freed: nothing leaks.
HeapPartitioned ==
  /\ \A l, m \in LISTS : l # m => ItemsOf(l) \cap ItemsOf(m) = {}
  /\ live = UNION {ItemsOf(l) : l \in LISTS}

\* The lists read as sequences from their heads.
Contents == [l \in LISTS |-> [i \in 1 .. length[l] |-> data[Walk(l)[i]]]]

Abstract == INSTANCE AbstractLists WITH lists <- Contents

\* Whatever the pointers do, the lists change as sequences would, one
\* operation of the abstract lists at a time.
ImplementsAbstractLists == Abstract!Spec

\* And each function does the operation it is named for: what the scheduler's
\* model takes from ListOps is what the pointer writes achieve.
EachFunctionImplementsItsOperation ==
  [][\A l \in LISTS, a \in ADDRS, x \in DATA :
       /\ First(l, a, x) \/ AppendItem(l, a, x) => Abstract!AppendData(l, x)
       /\ First(l, a, x) \/ PrependItem(l, a, x) => Abstract!PrependData(l, x)
       /\ First(l, a, x) \/ InsertHeadItem(l, a, x)
            => Abstract!InsertHeadData(l, x)
       /\ \A fits \in BOOLEAN : InsertSortedItem(l, a, x, fits)
            => Abstract!InsertSortedData(l, x, fits)
       /\ RemoveData(l, x) => Abstract!RemoveData(l, x)
       /\ Rotate(l) => Abstract!Rotate(l)]_vars
=============================================================================
