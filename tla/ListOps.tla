------------------------------ MODULE ListOps ------------------------------
(***************************************************************************)
(* What each operation of src/gkrtos/structures/list.c does to the list    *)
(* it is given.  A gkrtos_list is a circular list with a head pointer, so  *)
(* its value is the sequence of the data pointers read from the head round *)
(* the ring: element 1 is the head and the last element is head->prev, the *)
(* tail.  LinkedList.tla holds the same operations at the level of nodes   *)
(* and pointers and is checked against these.                              *)
(***************************************************************************)
EXTENDS Naturals, Sequences, SequencesExt

\* gkrtos_list_append: the new item goes between the tail and the head.
ListAppend(list, item) == Append(list, item)

\* gkrtos_list_insert_head: the new item becomes the head.
ListInsertHead(list, item) == <<item>> \o list

\* gkrtos_list_prepend: despite its name the new item goes right BEHIND the
\* head, which stays the head unless the list was empty.
ListPrepend(list, item) ==
  IF list = <<>> THEN <<item>> ELSE InsertAt(list, 2, item)

\* gkrtos_list_insert_sorted: sort_fn is called at most once, on the first two
\* items, and "fits" is its answer; there is no loop, so an item that does not
\* fit between the first two goes third, whatever follows.
ListInsertSorted(list, item, fits) ==
  IF Len(list) <= 1
  THEN ListAppend(list, item)
  ELSE InsertAt(list, IF fits THEN 2 ELSE 3, item)

\* gkrtos_list_get_item_with_data followed by gkrtos_list_remove: the first
\* item that holds the data is unlinked and freed.
ListRemove(list, data) == RemoveFirst(list, data)

\* When no item holds the data get_item_with_data answers NULL, and remove,
\* which only checks for an empty list, dereferences it.
ListRemoveFaults(list, data) == list # <<>> /\ data \notin Range(list)

\* gkrtos_list_rotate: the head pointer moves on to the second item.
ListRotate(list) ==
  IF list = <<>> THEN list ELSE Append(Tail(list), Head(list))
=============================================================================
