--------------------------- MODULE InteractiveInv ---------------------------
(***************************************************************************)
(* The inductive invariant of Interactive.  TLC checks it;                 *)
(* InteractiveProofs proves it for every value of the constants.           *)
(***************************************************************************)
EXTENDS Interactive

Elems == sockets.elems

\* Insertions and removals both happen at the rear.
CurrAtRear == sockets.curr = Len(Elems)

\* The three kinds of entries.  A connection's two are neighbours, and stay so
\* because the list loses entries at the rear only.
ListenEntry(i) ==
  /\ i = 1 /\ Mode = "listen"
  /\ Elems[i].handler = "listen" /\ Elems[i].socket \in Fd /\ ~Elems[i].deleted
  /\ fdt[Elems[i].socket] = Listener

SocketEntry(i) ==
  /\ Mode = "listen" => i # 1
  /\ Elems[i].handler = "bridge" /\ Elems[i].socket \in Fd /\ Elems[i].context = Stdin
  /\ ~Elems[i].deleted => fdt[Elems[i].socket] \in Conns

StdinEntry(i) ==
  /\ i # 1
  /\ Elems[i].handler = "bridge" /\ Elems[i].socket = Stdin
  /\ Elems[i].context = Elems[i - 1].socket
  /\ Elems[i - 1].handler = "bridge" /\ Elems[i - 1].socket \in Fd

EntriesKnown ==
  /\ Mode = "listen" => Len(Elems) >= 1 /\ ListenEntry(1)
  /\ \A i \in 1..Len(Elems) : ListenEntry(i) \/ SocketEntry(i) \/ StdinEntry(i)

SocketsDistinct ==
  \A i, j \in 1..Len(Elems) :
    Elems[i].socket \in Fd /\ Elems[i].socket = Elems[j].socket => i = j

OneFdPerConn ==
  \A f, g \in Fd : fdt[f] \in Conns /\ fdt[f] = fdt[g] => f = g

\* A client is queued once, and has no descriptor while it is.
QueueDistinct ==
  \A i, j \in 1..Len(backlog) : backlog[i] = backlog[j] => i = j

Lifecycle ==
  \A c \in Conns : /\ peer[c] = "none" => ~Queued(c) /\ ~Held(c)
                   /\ Queued(c) => ~Held(c)

NoneMarked == \A i \in 1..Len(Elems) : ~Elems[i].deleted

\* Until the traversal has passed the first entry nothing is marked, and what
\* is in the mask is in the list.
MaskListed ==
  pc = "select" \/ (pc = "handle" /\ pos = 1) =>
    /\ NoneMarked
    /\ \A f \in socket_mask : \E i \in 1..Len(Elems) : Elems[i].socket = f

\* On Windows select fails on an empty set.
MaskFilled == pc = "select" => socket_mask # {}

\* What the traversal has still to visit can be read as the mask says, where
\* select writes the mask.
Ahead(i) == (pc = "handle" /\ i >= pos) \/ (pc = "write" /\ i > pos)

MaskRight ==
  \A i \in 1..Len(Elems) :
    /\ Ahead(i) /\ ~Elems[i].deleted
    /\ Elems[i].socket \in Fd /\ Elems[i].socket \in socket_mask
    /\ Elems[i].socket < SelectWord
    => Readable(Elems[i].socket)

Wiring == CurrAtRear /\ EntriesKnown /\ SocketsDistinct

IInv ==
  /\ StateTypes
  /\ Wiring
  /\ OneFdPerConn /\ QueueDistinct /\ Lifecycle
  /\ MaskListed /\ MaskFilled /\ MaskRight

\* The connections whose registrations were counted.
Registered(c) == Mode = "client" \/ (peer[c] # "none" /\ ~Queued(c))

CountBounded ==
  n_special_descriptors <= Cardinality({c \in Conns : Registered(c)})

\* Until a peer or, on Linux, the standard input ends nothing is marked, and the
\* list is not empty.
SomeEnd == (eof /\ platform = "linux") \/ \E c \in Conns : Finished(c)
Unended == ~SomeEnd => NoneMarked /\ ~list_empty(sockets)

\* A server that leaks nothing uses its table for connections.
TableRight ==
  /\ pc = "dump" => leak
  /\ Mode = "listen" /\ ~leak => \A f \in 4..(MaxFd - 1) : fdt[f] \in Conns \cup {Free}

\* select is given every descriptor it can watch, and a timeout while there is
\* one that it cannot.
AllWatched ==
  /\ pc = "select" => \A i \in 1..Len(Elems) :
       ~is_special_descriptor(Elems[i].socket) => Elems[i].socket \in socket_mask
  /\ \A i \in 1..Len(Elems) :
       is_special_descriptor(Elems[i].socket) => n_special_descriptors > 0

\* A client's two entries are marked together; half of them is left only while
\* the removal loop still finds a marked entry.
ClientPair ==
  Mode = "client" =>
    /\ Len(Elems) <= 2
    /\ Len(Elems) = 1 => Elems[1].deleted
    /\ Len(Elems) = 2 => /\ Elems[2].socket = Stdin
                         /\ Elems[1].deleted <=> Elems[2].deleted

-----------------------------------------------------------------------------
(* What the streams of one connection rest on, besides IInv. *)

Typed     == {Stdin} \X (1..MaxTyped)
SentBy(c) == {c} \X (1..MaxSend)

\* What is about to be written came from the entry's own descriptor.
BufferRead ==
  pc = "write" =>
    /\ pos \in 1..Len(Elems) /\ Elems[pos].handler = "bridge" /\ buffer # <<>>
    /\ IF In = Stdin THEN buffer \in Seq(Typed)
       ELSE In \in Fd /\ fdt[In] \in Conns /\ buffer \in Seq(SentBy(fdt[In]))

Sources ==
  /\ stdin \in Seq(Typed) /\ console \in Seq(Typed) /\ read_buffer \in Seq(Typed)
  /\ \A c \in Conns : rx[c] \in Seq(SentBy(c))
  /\ BufferRead

\* The thread holds a chunk only until it is written, and runs on Windows only.
ThreadHolds ==
  /\ tpc # "write" => read_buffer = <<>>
  /\ platform = "linux" => tpc = "none" /\ console = <<>>

\* Nothing of a connection was thrown away yet.
Unclosed(c) == Alive /\ (Held(c) \/ Queued(c) \/ peer[c] = "none")

\* What a connection's peer sent and is not shown, and what was typed and not
\* written to any connection, in the order in which it will be.
ToShow(c) == InFlight(c) \o rx[c]
ToSend    == InFlight(Stdin) \o stdin \o read_buffer \o console

WholeStreams(c) ==
  Unclosed(c) => /\ terminal \o ToShow(c) = Stream(c, sent[c])
                 /\ peer[c] # "gone" => wrote[c] \o ToSend = Stream(Stdin, typed)

Shown(c) ==
  /\ wrote[c] = Stream(Stdin, Len(wrote[c])) /\ Len(wrote[c]) <= typed
  /\ terminal = Stream(c, Len(terminal)) /\ Len(terminal) <= sent[c]

StreamInv == Sources /\ ThreadHolds /\ \A c \in Conns : WholeStreams(c) /\ Shown(c)

-----------------------------------------------------------------------------
(* The same for connections that share the standard input and the terminal. *)

\* The items of s in q are the first m, in order.
Lists(q, s, m) ==
  /\ \A i \in 1..Len(q) : q[i][1] = s => q[i][2] <= m
  /\ \A n \in 1..m : \E i \in 1..Len(q) : q[i] = <<s, n>>
  /\ InOrder(q, s)

\* What follows the first m items of s up to the n-th.
Follows(q, s, m, n) == Stream(s, m) \o q = Stream(s, n)

TerminalLists ==
  \A c \in Conns : \E m \in 0..sent[c] :
    Lists(terminal, c, m) /\ (Unclosed(c) => Follows(ToShow(c), c, m, sent[c]))

TypedDealt ==
  \E m \in 0..typed :
    /\ Alive => Follows(ToSend, Stdin, m, typed)
    /\ \A c \in Conns : \A i \in 1..Len(wrote[c]) : wrote[c][i][2] <= m

SharedInv ==
  Sources /\ ThreadHolds /\ TerminalLists /\ TypedDealt
    /\ \A c \in Conns : Dealt(c)
=============================================================================
