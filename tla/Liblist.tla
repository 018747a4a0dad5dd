------------------------------ MODULE Liblist ------------------------------
(***************************************************************************)
(* The doubly linked list library (liblist 2.4) the tools link against.    *)
(* Only its binary is in the tree, so it is modelled from how              *)
(* sockets_common.c uses it.  A list keeps a current position: new         *)
(* elements are inserted after it and list_remove_curr removes the element *)
(* AT it.  Traversals from the front (list_traverse with options 0) save   *)
(* and restore the position: finding an element does not select it.        *)
(*                                                                         *)
(* A list is a record [elems, curr]; curr = 0 iff the list is empty.       *)
(***************************************************************************)
EXTENDS Naturals, Sequences

list_init == [elems |-> <<>>, curr |-> 0]

list_empty(l) == l.elems = <<>>

\* The new element becomes the current one.
list_insert_after(l, e) ==
  [elems |-> SubSeq(l.elems, 1, l.curr) \o <<e>>
               \o SubSeq(l.elems, l.curr + 1, Len(l.elems)),
   curr  |-> l.curr + 1]

\* Mutant: removing the rear leaves the position at the front.
list_remove_curr_ToFront(l) ==
  [elems |-> SubSeq(l.elems, 1, l.curr - 1)
               \o SubSeq(l.elems, l.curr + 1, Len(l.elems)),
   curr  |-> IF l.curr = Len(l.elems) THEN 1 ELSE l.curr]

\* The position moves to the next element, or to the previous one when the
\* rear is removed.
list_remove_curr(l) ==
  [elems |-> SubSeq(l.elems, 1, l.curr - 1)
               \o SubSeq(l.elems, l.curr + 1, Len(l.elems)),
   curr  |-> IF l.curr = Len(l.elems) THEN l.curr - 1 ELSE l.curr]
=============================================================================
