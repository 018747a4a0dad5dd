----------------------------- MODULE TunnelInv -----------------------------
(***************************************************************************)
(* The inductive invariant of Tunnel.  TLC checks it; TunnelProofs proves  *)
(* it for every value of the constants.                                    *)
(***************************************************************************)
EXTENDS Tunnel

Elems == sockets.elems

\* Insertions and removals both happen at the rear.
CurrAtRear == sockets.curr = Len(Elems)

ListenerFirst ==
  /\ Len(Elems) >= 1
  /\ Elems[1].socket = ListenFd
  /\ Elems[1].handler = "listen"
  /\ ~Elems[1].deleted
  /\ fdt[ListenFd] = Listener

\* A marked entry's descriptor is free: nothing is allocated between the
\* mark and the removal.
BridgeWired(x) ==
  /\ x.handler = "bridge"
  /\ x.context \in Fd
  /\ x.deleted => fdt[x.socket] = Free
  /\ ~x.deleted => fdt[x.socket] \in End /\ fdt[x.context] = Mate(fdt[x.socket])

BridgesWired == \A i \in 2..Len(Elems) : BridgeWired(Elems[i])

SocketsDistinct ==
  \A i, j \in 1..Len(Elems) : Elems[i].socket = Elems[j].socket => i = j

OneFdPerEnd ==
  \A f, g \in Fd : fdt[f] \in End /\ fdt[f] = fdt[g] => f = g

QueueDistinct ==
  \A i, j \in 1..Len(backlog) : backlog[i] = backlog[j] => i = j

\* A client is queued before it has a descriptor, and has one before its
\* remote end is reached.
ClientUnseen(c) == ~Queued(c) /\ ~Held(<<c, "in">>)
RemoteUnseen(c) == peer[<<c, "out">>] = "none" /\ ~Held(<<c, "out">>)

Lifecycle ==
  \A c \in Conns :
    /\ peer[<<c, "in">>] = "none" => ClientUnseen(c) /\ RemoteUnseen(c)
    /\ Queued(c) => ~Held(<<c, "in">>) /\ RemoteUnseen(c)

NoneMarked == \A i \in 1..Len(Elems) : ~Elems[i].deleted

\* The listening socket comes first, so a handler that allocates descriptors
\* runs before any that frees them.
Connecting ==
  pc = "connect" =>
    /\ pos = 1 /\ new_sock \in Fd
    /\ \E c \in Conns : fdt[new_sock] = <<c, "in">> /\ RemoteUnseen(c)
    /\ \A i \in 1..Len(Elems) : Elems[i].socket # new_sock

MarksRemoved ==
  pc \in {"select", "connect"} \/ (pc = "handle" /\ pos = 1) => NoneMarked

Writing ==
  pc = "write" =>
    pos \in 2..Len(Elems) /\ ~Elems[pos].deleted

IInv ==
  /\ TypeOK
  /\ CurrAtRear
  /\ ListenerFirst
  /\ BridgesWired
  /\ SocketsDistinct
  /\ OneFdPerEnd
  /\ QueueDistinct
  /\ Lifecycle
  /\ Connecting
  /\ MarksRemoved
  /\ Writing

\* Behind the listening socket the entries come in pairs, one for each
\* direction, marked together.  Half a pair is left only while the removal
\* loop still finds a marked entry.
PairAt(i) ==
  /\ Elems[i + 1].socket = Elems[i].context
  /\ Elems[i + 1].context = Elems[i].socket
  /\ Elems[i + 1].deleted <=> Elems[i].deleted

Paired ==
  /\ \A i \in 2..(Len(Elems) - 1) : i % 2 = 0 => PairAt(i)
  /\ Len(Elems) % 2 = 0 => pc = "cleanup" /\ \E i \in 1..Len(Elems) : Elems[i].deleted

\* Until the handling traversal has passed the listening socket, every
\* descriptor in the mask is one of an entry: the descriptors that its handler
\* allocates are not in the mask.
MaskListed ==
  pc \in {"select", "connect"} \/ (pc = "handle" /\ pos = 1) =>
    \A f \in socket_mask : \E i \in 1..Len(Elems) : Elems[i].socket = f

\* select is given the descriptor of every entry.
AllWatched ==
  pc = "select" => \A i \in 1..Len(Elems) : Elems[i].socket \in socket_mask

\* It gets no closed descriptor, and does not sleep while a client waits to be
\* accepted or an entry's socket has something to read or an end.
Awake ==
  pc = "select" =>
    /\ ~BadFd
    /\ backlog # <<>> \/ (\E i \in 1..Len(Elems) : Readable(Elems[i].socket))
         => Ready # {}

\* Only the client being connected to the remote service has no remote end.
RemoteHeld ==
  Alive => \A c \in Conns :
    Held(<<c, "in">>) =>
      Held(<<c, "out">>) \/ (pc = "connect" /\ ClientEnd = <<c, "in">>)

\* What the program did with the items of e that have reached it, in order:
\* written, in the buffer, not read yet.
Whole(e) == wrote[Mate(e)] \o InFlight(e) \o rx[e]

\* The items of a sequence are the peer's of e, up to the n-th, in order.
OrderedUpTo(s, e, n) ==
  /\ \A i \in 1..Len(s) : s[i][1] = e /\ s[i][2] <= n
  /\ \A i, j \in 1..Len(s) : i < j => s[i][2] < s[j][2]

InOrder == \A e \in End : OrderedUpTo(Whole(e), e, sent[e])

\* Nothing is sent or written on an end before it exists.
Untouched ==
  \A e \in End : peer[e] = "none" =>
    sent[e] = 0 /\ rx[e] = <<>> /\ wrote[Mate(e)] = <<>> /\ ~Held(e)

\* What a client in the accept queue sends waits for it to be accepted.
QueuedWhole ==
  \A c \in Conns : Queued(c) =>
    /\ rx[<<c, "in">>] = Stream(<<c, "in">>, sent[<<c, "in">>])
    /\ wrote[<<c, "out">>] = <<>>

Prefixes ==
  \A e \in End :
    /\ Len(wrote[Mate(e)]) <= sent[e]
    /\ wrote[Mate(e)] = Stream(e, Len(wrote[Mate(e)]))

NothingMissing ==
  Alive => \A e \in End :
    Held(e) /\ peer[Mate(e)] # "gone" => Whole(e) = Stream(e, sent[e])

StreamInv == Untouched /\ QueuedWhole /\ Prefixes /\ NothingMissing

\* The remote end of a client is not held without the client's.
OutWithIn == \A c \in Conns : Held(<<c, "out">>) => Held(<<c, "in">>)

\* Entries are marked because a peer finished.
MarksExplained ==
  (\E i \in 1..Len(Elems) : Elems[i].deleted) =>
    \E e \in End : peer[e] \in {"fin", "gone"}

\* The descriptors beyond the listening socket that leaked devices take, and
\* the clients for which the address family was asked.
Devices  == {f \in Fd : f > ListenFd /\ fdt[f] = AfDevice}
Tried(c) == /\ peer[<<c, "in">>] # "none" /\ ~Queued(c)
            /\ ~(pc = "connect" /\ ClientEnd = <<c, "in">>)

\* One device leaks for each client at most.
LeaksBounded ==
  /\ \A f \in Fd : fdt[f] = Listener => f = ListenFd
  /\ ~AfLeak => Devices = {}
  /\ Cardinality(Devices) <= Cardinality({c \in Conns : Tried(c)})

RelayInv == OutWithIn /\ MarksExplained /\ LeaksBounded
=============================================================================
