----------------------------- MODULE SocketList -----------------------------
(***************************************************************************)
(* The socket list of sockets_common.c: the event loop's registrations,    *)
(* each a descriptor, its handler and a heap copy of the handler's         *)
(* context.  Deletion only marks an entry (and frees its context);         *)
(* the loop removes marked entries before its next select.                 *)
(***************************************************************************)
EXTENDS Liblist

\* The context of an entry is readable until the entry is marked: deleted
\* stands for both "marked" and "context freed".
SOCKET_ENTRY(Fds, Contexts) ==
  [socket : Fds, handler : {"listen", "bridge"}, context : Contexts,
   deleted : BOOLEAN]

socket_list_init == list_init

socket_list_insert(l, socket, handler, context) ==
  list_insert_after(l, [socket |-> socket, handler |-> handler,
                        context |-> context, deleted |-> FALSE])

\* Marks the first entry, marked or not, whose descriptor is socket.
IsFirst(l, socket, i) ==
  /\ l.elems[i].socket = socket
  /\ \A j \in 1..(i - 1) : l.elems[j].socket # socket

socket_list_delete(l, socket) ==
  [elems |-> [i \in DOMAIN l.elems |->
                [l.elems[i] EXCEPT !.deleted = @ \/ IsFirst(l, socket, i)]],
   curr  |-> l.curr]

\* The traversal that looks for an entry to remove finds one.
HasMarked(l) == \E i \in DOMAIN l.elems : l.elems[i].deleted

\* Mutant: the traversal that sets the mask starts after the front.
socket_list2fd_set_NoFront(l) ==
  {l.elems[i].socket : i \in {j \in DOMAIN l.elems : j > 1 /\ ~l.elems[j].deleted}}

\* The descriptors FD_SET before select.
socket_list2fd_set(l) ==
  {l.elems[i].socket : i \in {j \in DOMAIN l.elems : ~l.elems[j].deleted}}
=============================================================================
