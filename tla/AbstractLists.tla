--------------------------- MODULE AbstractLists ---------------------------
(***************************************************************************)
(* What src/gkrtos/structures/list.c promises the scheduler: some lists,   *)
(* each a sequence of data pointers, changed one operation at a time.      *)
(***************************************************************************)
EXTENDS ListOps

CONSTANTS LISTS, DATA

VARIABLE lists   \* the contents of every list, read from its head

Change(l, contents) == lists' = [lists EXCEPT ![l] = contents]

Init == lists = [l \in LISTS |-> <<>>]

AppendData(l, x) == Change(l, ListAppend(lists[l], x))
PrependData(l, x) == Change(l, ListPrepend(lists[l], x))
InsertHeadData(l, x) == Change(l, ListInsertHead(lists[l], x))
InsertSortedData(l, x, fits) == Change(l, ListInsertSorted(lists[l], x, fits))
RemoveData(l, x) ==
  ~ListRemoveFaults(lists[l], x) /\ Change(l, ListRemove(lists[l], x))
Rotate(l) == Change(l, ListRotate(lists[l]))

Next ==
  \E l \in LISTS :
    \/ Rotate(l)
    \/ \E x \in DATA :
         \/ AppendData(l, x) \/ PrependData(l, x) \/ InsertHeadData(l, x)
         \/ \E fits \in BOOLEAN : InsertSortedData(l, x, fits)
         \/ RemoveData(l, x)

Spec == Init /\ [][Next]_lists
=============================================================================
