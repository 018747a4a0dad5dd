------------------------------- MODULE Tunnel -------------------------------
(***************************************************************************)
(* vsockets_nc in tunnel mode (-t with -l or -i) on Linux: one process,    *)
(* one thread, one event loop.  The loop accepts clients from the          *)
(* listening socket, connects each to the remote service, registers the    *)
(* two sockets in the socket list, and moves bytes between them with       *)
(* blocking reads and writes.  The peers of both sockets are the           *)
(* environment: they send, stop sending (shutdown), close, and read what   *)
(* arrives.                                                                *)
(*                                                                         *)
(* The kernel's part (descriptor table, accept queue, receive and send     *)
(* queues, select) is modelled as far as the program sees it.              *)
(***************************************************************************)
EXTENDS Naturals, Sequences, FiniteSets, SocketList

CONSTANTS
  Conns,         \* the connections clients may make
  MaxFd,         \* RLIMIT_NOFILE: descriptors are 3..MaxFd-1
  SelectNfds,    \* the first argument of select
  SelectWord,    \* select copies whole words: bits from here on stay as set
  BufSize,       \* BRIDGE_BUF_SIZE
  SndCap,        \* what a socket's send queue holds
  MaxSend,       \* bound: items a peer sends
  AllSend,       \* bound: items all peers send together
  Env,           \* what the environment may do besides connect, send, read
  AfLeak,        \* VMCISock_GetAFValue leaves the VMCI device open
  StartupLeaks,  \* how many times it did before the listening socket
  Free, Listener, AfDevice, NoFd

Moves == {"fin", "gone", "refuse", "bind", "abort", "short", "selfail"}

ASSUME EnvAssumption == Env \subseteq Moves

\* FD_SETSIZE is 1024: FD_SET of a larger descriptor is undefined.
ASSUME NumbersAssumption ==
  /\ MaxFd \in 0..1024
  /\ SelectNfds \in Nat /\ SelectWord \in Nat /\ SelectNfds <= SelectWord
  /\ BufSize \in Nat \ {0} /\ SndCap \in Nat \ {0}
  /\ MaxSend \in Nat /\ AllSend \in Nat

ASSUME StartupAssumption ==
  /\ AfLeak \in BOOLEAN
  /\ StartupLeaks \in {0, 1, 2}
  /\ AfLeak <=> StartupLeaks # 0
  /\ 3 + StartupLeaks < MaxFd

Fd       == 3..(MaxFd - 1)
ListenFd == 3 + StartupLeaks
End      == Conns \X {"in", "out"}

\* "in" is the accepted socket of a connection, "out" the connected one.
Mate(e) == <<e[1], IF e[2] = "in" THEN "out" ELSE "in">>

ASSUME DescriptorAssumption ==
  /\ Free # Listener /\ Free # AfDevice /\ Listener # AfDevice
  /\ {Free, Listener, AfDevice} \cap End = {}
  /\ NoFd \notin Fd

\* The k-th item the peer of e sends.
Item        == End \X (1..MaxSend)
Stream(e,n) == [k \in 1..n |-> <<e, k>>]

MinOf(a, b)    == IF a < b THEN a ELSE b
Take(s, n)     == SubSeq(s, 1, n)
DropFirst(s,n) == SubSeq(s, n + 1, Len(s))

VARIABLES
  sockets,      \* the socket list
  pc,           \* where the process is
  pos,          \* the entry the handling traversal is at
  socket_mask,  \* what select returned
  new_sock,     \* the accepted socket, while try_connection runs
  buffer,       \* what is still to be written of the chunk just read
  copied,       \* part of the chunk is already in the send queue
  fdt,          \* the descriptor table
  backlog,      \* completed connections not accepted yet
  peer,         \* the peer of each end
  sent, rx,     \* items sent by the peer; those not read by the process yet
  wrote, nread  \* items written towards the peer; how many the peer has read

local  == <<sockets, pc, pos, socket_mask, new_sock, buffer, copied>>
kernel == <<fdt, backlog, rx, wrote>>
remote == <<peer, sent, nread>>
vars   == <<local, kernel, remote>>

TypeOK ==
  /\ sockets \in [elems : Seq(SOCKET_ENTRY(Fd, Fd \cup {NoFd})), curr : Nat]
  /\ pc \in {"cleanup", "select", "handle", "connect", "write",
             "exited", "aborted"}
  /\ pos \in Nat \ {0}
  /\ socket_mask \subseteq Fd
  /\ new_sock \in Fd \cup {NoFd}
  /\ buffer \in Seq(Item)
  /\ copied \in BOOLEAN
  /\ fdt \in [Fd -> End \cup {Free, Listener, AfDevice}]
  /\ backlog \in Seq(Conns)
  /\ peer \in [End -> {"none", "open", "fin", "gone"}]
  /\ sent \in [End -> 0..MaxSend]
  /\ rx \in [End -> Seq(Item)]
  /\ wrote \in [End -> Seq(Item)]
  /\ nread \in [End -> Nat]

-----------------------------------------------------------------------------
(* The kernel, as the process and its peers see it. *)

Alive      == pc \notin {"exited", "aborted"}
Held(e)    == \E f \in Fd : fdt[f] = e
Queued(c)  == \E i \in DOMAIN backlog : backlog[i] = c

\* Descriptors are allocated lowest first; empty when the table is full.
LowestFree(t) ==
  {f \in Fd : t[f] = Free /\ \A g \in Fd : g < f => t[g] # Free}

\* The table after VMCISock_GetAFValue; no table when it cannot open.
VMCISock_GetAFValue(t) ==
  IF AfLeak THEN {[t EXCEPT ![f] = AfDevice] : f \in LowestFree(t)} ELSE {t}

Readable(f) ==
  \/ fdt[f] = Listener /\ backlog # <<>>
  \/ fdt[f] \in End /\ (rx[fdt[f]] # <<>> \/ peer[fdt[f]] \in {"fin", "gone"})

Closed(t, fds) == [f \in Fd |-> IF f \in fds THEN Free ELSE t[f]]

\* Closing a socket drops what was received and never read.
Dropped(fds) == [e \in End |-> IF \E f \in fds : fdt[f] = e THEN <<>> ELSE rx[e]]

-----------------------------------------------------------------------------
(* The clients and the remote service. *)

ClientConnect(c) ==
  /\ Alive /\ peer[<<c, "in">>] = "none"
  /\ peer' = [peer EXCEPT ![<<c, "in">>] = "open"]
  /\ backlog' = Append(backlog, c)
  /\ UNCHANGED <<local, fdt, rx, wrote, sent, nread>>

AllSent == Cardinality({i \in Item : i[2] <= sent[i[1]]})

\* A peer can send to a queued connection as well as to an accepted one.
PeerSend(e) ==
  /\ Alive /\ peer[e] = "open" /\ sent[e] < MaxSend /\ AllSent < AllSend
  /\ Held(e) \/ (e[2] = "in" /\ Queued(e[1]))
  /\ sent' = [sent EXCEPT ![e] = @ + 1]
  /\ rx' = [rx EXCEPT ![e] = Append(@, <<e, sent[e] + 1>>)]
  /\ UNCHANGED <<local, fdt, backlog, wrote, peer, nread>>

PeerShutdown(e) ==
  /\ Alive /\ "fin" \in Env /\ peer[e] = "open"
  /\ peer' = [peer EXCEPT ![e] = "fin"]
  /\ UNCHANGED <<local, kernel, sent, nread>>

PeerClose(e) ==
  /\ Alive /\ "gone" \in Env /\ peer[e] \in {"open", "fin"}
  /\ peer' = [peer EXCEPT ![e] = "gone"]
  /\ UNCHANGED <<local, kernel, sent, nread>>

\* The peer reads everything that has arrived.
PeerRead(e) ==
  /\ peer[e] \in {"open", "fin"} /\ nread[e] < Len(wrote[e])
  /\ nread' = [nread EXCEPT ![e] = Len(wrote[e])]
  /\ UNCHANGED <<local, kernel, peer, sent>>

-----------------------------------------------------------------------------
(* socket_list_select_and_handle_events, called by listening_mode forever. *)

\* One iteration of the removal loop: the traversal finds a marked entry,
\* then the list's current element is removed.
RemoveMarked ==
  /\ pc = "cleanup" /\ HasMarked(sockets)
  /\ sockets' = list_remove_curr(sockets)
  /\ UNCHANGED <<pc, pos, socket_mask, new_sock, buffer, copied, kernel, remote>>

EnterSelect ==
  /\ pc = "cleanup" /\ ~HasMarked(sockets)
  /\ socket_mask' = socket_list2fd_set(sockets)
  /\ pc' = "select"
  /\ UNCHANGED <<sockets, pos, new_sock, buffer, copied, kernel, remote>>

\* select looks at the descriptors below SelectNfds, blocks until one of
\* them is readable, and clears the others up to the next whole word.
BadFd == \E f \in socket_mask : f < SelectNfds /\ fdt[f] = Free
Ready == {f \in socket_mask : f < SelectNfds /\ Readable(f)}

\* Mutant: the handlers see the mask that was passed to select.
SelectReturns_MaskKept ==
  /\ pc = "select" /\ ~BadFd /\ Ready # {}
  /\ pos' = 1
  /\ pc' = "handle"
  /\ UNCHANGED <<sockets, socket_mask, new_sock, buffer, copied, kernel, remote>>

SelectReturns ==
  /\ pc = "select" /\ ~BadFd /\ Ready # {}
  /\ socket_mask' = Ready \cup {f \in socket_mask : f >= SelectWord}
  /\ pos' = 1
  /\ pc' = "handle"
  /\ UNCHANGED <<sockets, new_sock, buffer, copied, kernel, remote>>

\* The mask and the traversal are local to the call.
ReturnToLoop == pc' = "cleanup" /\ pos' = 1 /\ socket_mask' = {}

\* EBADF, or a signal: the failure is printed and the loop goes round.
SelectFails ==
  /\ pc = "select" /\ (BadFd \/ "selfail" \in Env)
  /\ ReturnToLoop
  /\ UNCHANGED <<sockets, new_sock, buffer, copied, kernel, remote>>

\* The handling traversal.  It reads the next element after the handler
\* returns, so it also visits the entries the handlers insert.
Entry   == sockets.elems[pos]
Visited == pc = "handle" /\ pos \in DOMAIN sockets.elems
Fired   == Visited /\ Entry.socket \in socket_mask

Continue == pos' = pos + 1 /\ pc' = "handle"

\* exit() and abort() leave the rest of the state to the kernel.
Stop(how) == /\ pc' = how
             /\ UNCHANGED <<sockets, pos, socket_mask, new_sock, buffer, copied,
                            kernel, remote>>

\* Mutant: the traversal advances twice past an entry that is not ready.
SkipEntry_Twice ==
  /\ Visited /\ Entry.socket \notin socket_mask
  /\ pos' = pos + 2 /\ pc' = "handle"
  /\ UNCHANGED <<sockets, socket_mask, new_sock, buffer, copied, kernel, remote>>

SkipEntry ==
  /\ Visited /\ Entry.socket \notin socket_mask
  /\ Continue
  /\ UNCHANGED <<sockets, socket_mask, new_sock, buffer, copied, kernel, remote>>

PassDone ==
  /\ pc = "handle" /\ pos \notin DOMAIN sockets.elems
  /\ ReturnToLoop
  /\ UNCHANGED <<sockets, new_sock, buffer, copied, kernel, remote>>

-----------------------------------------------------------------------------
(* vsocket_listen_event_handler with -t. *)

SocketAccept ==
  /\ Fired /\ Entry.handler = "listen" /\ backlog # <<>>
  /\ \E f \in LowestFree(fdt) :
       /\ fdt' = [fdt EXCEPT ![f] = <<Head(backlog), "in">>]
       /\ new_sock' = f
  /\ backlog' = Tail(backlog)
  /\ pc' = "connect"
  /\ UNCHANGED <<sockets, pos, socket_mask, buffer, copied, rx, wrote, remote>>

\* No descriptor is left, or the client aborted while it was queued.
AcceptFails ==
  /\ Fired /\ Entry.handler = "listen" /\ backlog # <<>>
  /\ \/ LowestFree(fdt) = {}
     \/ "abort" \in Env /\ peer[<<Head(backlog), "in">>] = "gone"
  /\ Stop("exited")

\* try_connection: the address family, a socket, bind, connect.
ClientEnd == fdt[new_sock]
RemoteEnd == Mate(ClientEnd)

\* Mutant: each entry's context is its own descriptor.
TryConnectionOk_OwnContext ==
  /\ pc = "connect"
  /\ \E t \in VMCISock_GetAFValue(fdt) : \E f \in LowestFree(t) :
       /\ fdt' = [t EXCEPT ![f] = RemoteEnd]
       /\ sockets' = socket_list_insert(
                       socket_list_insert(sockets, new_sock, "bridge", new_sock),
                       f, "bridge", f)
  /\ peer' = [peer EXCEPT ![RemoteEnd] = "open"]
  /\ new_sock' = NoFd
  /\ Continue
  /\ UNCHANGED <<socket_mask, buffer, copied, backlog, rx, wrote, sent, nread>>

\* Mutant: the second socket_list_insert is missing.
TryConnectionOk_OneWay ==
  /\ pc = "connect"
  /\ \E t \in VMCISock_GetAFValue(fdt) : \E f \in LowestFree(t) :
       /\ fdt' = [t EXCEPT ![f] = RemoteEnd]
       /\ sockets' = socket_list_insert(sockets, new_sock, "bridge", f)
  /\ peer' = [peer EXCEPT ![RemoteEnd] = "open"]
  /\ new_sock' = NoFd
  /\ Continue
  /\ UNCHANGED <<socket_mask, buffer, copied, backlog, rx, wrote, sent, nread>>

TryConnectionOk ==
  /\ pc = "connect"
  /\ \E t \in VMCISock_GetAFValue(fdt) : \E f \in LowestFree(t) :
       /\ fdt' = [t EXCEPT ![f] = RemoteEnd]
       /\ sockets' = socket_list_insert(
                       socket_list_insert(sockets, new_sock, "bridge", f),
                       f, "bridge", new_sock)
  /\ peer' = [peer EXCEPT ![RemoteEnd] = "open"]
  /\ new_sock' = NoFd
  /\ Continue
  /\ UNCHANGED <<socket_mask, buffer, copied, backlog, rx, wrote, sent, nread>>

\* Mutant: the return value of try_connection is not checked.
TryConnectionRefused_Unchecked ==
  /\ pc = "connect" /\ "refuse" \in Env
  /\ sockets' = socket_list_insert(
                   socket_list_insert(sockets, new_sock, "bridge", NoFd),
                   NoFd, "bridge", new_sock)
  /\ new_sock' = NoFd
  /\ Continue
  /\ UNCHANGED <<socket_mask, buffer, copied, kernel, remote>>

\* connect fails: its socket is closed, the accepted one is not.
TryConnectionRefused ==
  /\ pc = "connect" /\ "refuse" \in Env
  /\ \E t \in VMCISock_GetAFValue(fdt) : LowestFree(t) # {} /\ fdt' = t
  /\ new_sock' = NoFd
  /\ Continue
  /\ UNCHANGED <<sockets, socket_mask, buffer, copied, backlog, rx, wrote, remote>>

\* Mutant: without a descriptor try_connection returns -1 instead of exiting.
TryConnectionExits_Returns ==
  /\ pc = "connect"
  /\ \/ \A t \in VMCISock_GetAFValue(fdt) : LowestFree(t) = {}
     \/ "bind" \in Env
  /\ new_sock' = NoFd
  /\ Continue
  /\ UNCHANGED <<sockets, socket_mask, buffer, copied, kernel, remote>>

\* socket() or bind() fails.
TryConnectionExits ==
  /\ pc = "connect"
  /\ \/ \A t \in VMCISock_GetAFValue(fdt) : LowestFree(t) = {}
     \/ "bind" \in Env
  /\ Stop("exited")

-----------------------------------------------------------------------------
(* bridged_socket_event_handler. *)

FiredBridge == Fired /\ Entry.handler = "bridge" /\ ~Entry.deleted
SocketIn    == fdt[Entry.socket]
SocketOut   == fdt[Entry.context]

\* read returns data.  (With none and the peer still there, it blocks.)
BridgedRead ==
  /\ FiredBridge /\ rx[SocketIn] # <<>>
  /\ LET len == MinOf(BufSize, Len(rx[SocketIn])) IN
       /\ buffer' = Take(rx[SocketIn], len)
       /\ rx' = [rx EXCEPT ![SocketIn] = DropFirst(@, len)]
  /\ copied' = FALSE
  /\ pc' = "write"
  /\ UNCHANGED <<sockets, pos, socket_mask, new_sock, fdt, backlog, wrote, remote>>

\* Mutant: the socket is given up while received data is unread.
BridgedEof_Early ==
  /\ FiredBridge /\ peer[SocketIn] \in {"fin", "gone"}
  /\ sockets' = socket_list_delete(socket_list_delete(sockets, Entry.socket),
                                   Entry.context)
  /\ fdt' = Closed(fdt, {Entry.socket, Entry.context})
  /\ rx' = Dropped({Entry.socket, Entry.context})
  /\ Continue
  /\ UNCHANGED <<socket_mask, new_sock, buffer, copied, backlog, wrote, remote>>

\* Mutant: socket_list_delete(socket_out) is missing.
BridgedEof_OneEntry ==
  /\ FiredBridge /\ rx[SocketIn] = <<>> /\ peer[SocketIn] \in {"fin", "gone"}
  /\ sockets' = socket_list_delete(sockets, Entry.socket)
  /\ fdt' = Closed(fdt, {Entry.socket, Entry.context})
  /\ rx' = Dropped({Entry.socket, Entry.context})
  /\ Continue
  /\ UNCHANGED <<socket_mask, new_sock, buffer, copied, backlog, wrote, remote>>

\* Mutant: socket_close(socket_out) is missing.
BridgedEof_OneClose ==
  /\ FiredBridge /\ rx[SocketIn] = <<>> /\ peer[SocketIn] \in {"fin", "gone"}
  /\ sockets' = socket_list_delete(socket_list_delete(sockets, Entry.socket),
                                   Entry.context)
  /\ fdt' = Closed(fdt, {Entry.socket})
  /\ rx' = Dropped({Entry.socket})
  /\ Continue
  /\ UNCHANGED <<socket_mask, new_sock, buffer, copied, backlog, wrote, remote>>

\* read returns 0: both entries are marked and both sockets closed.
BridgedEof ==
  /\ FiredBridge /\ rx[SocketIn] = <<>> /\ peer[SocketIn] \in {"fin", "gone"}
  /\ sockets' = socket_list_delete(socket_list_delete(sockets, Entry.socket),
                                   Entry.context)
  /\ fdt' = Closed(fdt, {Entry.socket, Entry.context})
  /\ rx' = Dropped({Entry.socket, Entry.context})
  /\ Continue
  /\ UNCHANGED <<socket_mask, new_sock, buffer, copied, backlog, wrote, remote>>

\* The traversal does not look at the mark: the handler of an entry marked
\* earlier in this pass runs with a freed context and a closed descriptor.
\* read fails, and socket_list_delete frees the context again: the C library
\* aborts, or the second free goes unnoticed.
StaleHandler ==
  /\ Fired /\ Entry.deleted
  /\ \/ Stop("aborted")
     \/ /\ Continue
        /\ UNCHANGED <<sockets, socket_mask, new_sock, buffer, copied, kernel, remote>>

\* write copies what fits into the send queue and sleeps until the rest does.
Room == SndCap - (Len(wrote[SocketOut]) - nread[SocketOut])

\* Mutant: the part that did not fit is written from its start again.
BridgedWrite_Again ==
  /\ pc = "write" /\ peer[SocketOut] \in {"open", "fin"} /\ Room > 0
  /\ LET len == MinOf(Room, Len(buffer)) IN
       /\ wrote' = [wrote EXCEPT ![SocketOut] = @ \o Take(buffer, len)]
       /\ IF len = Len(buffer) THEN Continue /\ copied' = FALSE /\ buffer' = <<>>
                               ELSE UNCHANGED <<pos, pc, buffer>> /\ copied' = TRUE
  /\ UNCHANGED <<sockets, socket_mask, new_sock, fdt, backlog, rx, remote>>

\* Mutant: a partial write is taken for a complete one.
BridgedWrite_Partial ==
  /\ pc = "write" /\ peer[SocketOut] \in {"open", "fin"} /\ Room > 0
  /\ wrote' = [wrote EXCEPT ![SocketOut] = @ \o Take(buffer, MinOf(Room, Len(buffer)))]
  /\ buffer' = <<>>
  /\ copied' = FALSE
  /\ Continue
  /\ UNCHANGED <<sockets, socket_mask, new_sock, fdt, backlog, rx, remote>>

BridgedWrite ==
  /\ pc = "write" /\ peer[SocketOut] \in {"open", "fin"} /\ Room > 0
  /\ LET len == MinOf(Room, Len(buffer)) IN
       /\ wrote' = [wrote EXCEPT ![SocketOut] = @ \o Take(buffer, len)]
       /\ buffer' = DropFirst(buffer, len)
       /\ IF len = Len(buffer) THEN Continue /\ copied' = FALSE
                               ELSE UNCHANGED <<pos, pc>> /\ copied' = TRUE
  /\ UNCHANGED <<sockets, socket_mask, new_sock, fdt, backlog, rx, remote>>

\* write returns a positive count and the rest of the buffer is forgotten: a
\* signal interrupted it half way, or the peer is gone.
BridgedWriteLoses ==
  /\ pc = "write"
  /\ \/ "short" \in Env /\ copied
     \/ peer[SocketOut] = "gone"
  /\ buffer' = <<>>
  /\ copied' = FALSE
  /\ Continue
  /\ UNCHANGED <<sockets, socket_mask, new_sock, kernel, remote>>

\* EPIPE (or SIGPIPE, which nothing handles), or a signal while write sleeps
\* and nothing is copied yet.
BridgedWriteFails ==
  /\ pc = "write" /\ ~copied
  /\ peer[SocketOut] = "gone" \/ ("short" \in Env /\ Room <= 0)
  /\ Stop("exited")

-----------------------------------------------------------------------------
Init ==
  /\ sockets = socket_list_insert(socket_list_init, ListenFd, "listen", NoFd)
  /\ pc = "cleanup" /\ pos = 1 /\ socket_mask = {} /\ new_sock = NoFd
  /\ buffer = <<>> /\ copied = FALSE
  /\ fdt = [f \in Fd |-> IF f < ListenFd THEN AfDevice
                         ELSE IF f = ListenFd THEN Listener ELSE Free]
  /\ backlog = <<>>
  /\ peer = [e \in End |-> "none"]
  /\ sent = [e \in End |-> 0] /\ nread = [e \in End |-> 0]
  /\ rx = [e \in End |-> <<>>] /\ wrote = [e \in End |-> <<>>]

Process ==
  \/ RemoveMarked \/ EnterSelect \/ SelectReturns \/ SelectFails
  \/ SkipEntry \/ PassDone
  \/ SocketAccept \/ AcceptFails
  \/ TryConnectionOk \/ TryConnectionRefused \/ TryConnectionExits
  \/ BridgedRead \/ BridgedEof \/ StaleHandler
  \/ BridgedWrite \/ BridgedWriteLoses \/ BridgedWriteFails

Peers ==
  \/ \E c \in Conns : ClientConnect(c)
  \/ \E e \in End : PeerSend(e) \/ PeerShutdown(e) \/ PeerClose(e) \/ PeerRead(e)

Next == Process \/ Peers

Spec == Init /\ [][Next]_vars

\* The scheduler runs the process, and peers read what they are sent.  Nobody
\* is obliged to connect, to send or to close.
Fairness == WF_vars(Process) /\ \A e \in End : WF_vars(PeerRead(e))

FairSpec == Spec /\ Fairness
-----------------------------------------------------------------------------
(* What must hold. *)

\* The items of e that read returned and write has not taken yet.
InFlight(e) == IF pc = "write" /\ SocketIn = e THEN buffer ELSE <<>>

\* What the process writes towards a peer is a prefix of what the mate's peer
\* sent: chunking, partial writes, descriptor reuse and stale handlers never
\* reorder, duplicate, drop or cross streams (bridged_socket_event_handler).
\* While both sockets are open nothing is missing either, unless the reader
\* is gone.
StreamIntegrity ==
  \A e \in End :
    /\ Len(wrote[Mate(e)]) <= sent[e]
    /\ wrote[Mate(e)] = Stream(e, Len(wrote[Mate(e)]))
    /\ Alive /\ Held(e) /\ peer[Mate(e)] # "gone" =>
         wrote[Mate(e)] \o InFlight(e) \o rx[e] = Stream(e, sent[e])

\* Where a signal cuts writes short, what arrives is still in order, without
\* duplicates and from the right connection: items can only be missing.
StreamOrdered ==
  \A e \in End :
    /\ \A i \in DOMAIN wrote[e] : wrote[e][i][1] = Mate(e)
    /\ \A i, j \in DOMAIN wrote[e] : i < j => wrote[e][i][2] < wrote[e][j][2]

\* Every entry not marked watches an open socket, and its context is the
\* descriptor of the other socket of the same connection, although contexts
\* are copies made at insertion and descriptors are reused
\* (bridge_descriptors, socket_list_delete, socket_close).
EntriesWired ==
  \A i \in DOMAIN sockets.elems : LET x == sockets.elems[i] IN
    ~x.deleted =>
      \/ x.handler = "listen" /\ fdt[x.socket] = Listener
      \/ /\ x.handler = "bridge" /\ x.context \in Fd
         /\ fdt[x.socket] \in End
         /\ fdt[x.context] = Mate(fdt[x.socket])

\* Entries the traversal has still to reach in this pass.
Ahead(i) == \/ pc \in {"handle", "connect", "write"} /\ i > pos
            \/ pc = "handle" /\ i = pos

\* A handler that is going to be called can read (or accept) without
\* blocking: the mask is still right for every entry ahead, whatever the
\* handlers before it accepted, closed, inserted or drained.  A descriptor
\* freed in a pass cannot be given to a new tunnel in the same pass, because
\* the listening socket is handled first.
HandlersNeverBlock ==
  \A i \in DOMAIN sockets.elems : LET x == sockets.elems[i] IN
    Ahead(i) /\ x.socket \in socket_mask /\ ~x.deleted => Readable(x.socket)

\* Between passes a tunnel is registered in both directions or in none: when
\* select is called, every bridge entry has the reverse entry in the list.
TunnelsWhole ==
  pc = "select" =>
    \A i \in DOMAIN sockets.elems : LET x == sockets.elems[i] IN
      x.handler = "bridge" =>
        \E j \in DOMAIN sockets.elems :
          /\ sockets.elems[j].socket = x.context
          /\ sockets.elems[j].context = x.socket
          /\ ~sockets.elems[j].deleted

\* Unless the remote service refuses, a client whose socket is open when
\* select is called has a remote end: running out of descriptors half way
\* through vsocket_listen_event_handler leaves no half of a tunnel behind.
NoHalfTunnel ==
  pc = "select" => \A c \in Conns : Held(<<c, "in">>) => Held(<<c, "out">>)

\* A step never removes, replaces or moves an entry that no marked entry
\* precedes: the listening socket and the tunnels accepted before the first
\* one that ended stay registered, though the removal loop removes the rear.
EarlierTunnelsKept ==
  [][\A i \in DOMAIN sockets.elems :
       (\A j \in 1..i : ~sockets.elems[j].deleted) =>
         /\ i \in DOMAIN sockets'.elems
         /\ sockets'.elems[i].socket = sockets.elems[i].socket
         /\ sockets'.elems[i].context = sockets.elems[i].context]_vars

\* "Remove marked items" (comment of the removal loop): a step never removes
\* an entry that is not marked.
OnlyMarkedRemoved ==
  [][\A i \in DOMAIN sockets.elems :
       ~sockets.elems[i].deleted =>
         \E j \in DOMAIN sockets'.elems :
           sockets'.elems[j].socket = sockets.elems[i].socket]_vars

\* "tunnel persistency for multiple connections" (README): the process stays
\* up whatever a tunnel's peers do.
TunnelPersists == Alive

\* Everything a peer sends reaches the other peer, in every connection.
Forwarded ==
  \A e \in End : \A k \in 1..MaxSend : sent[e] >= k ~> nread[Mate(e)] >= k

\* When a peer of a tunnel stops sending, both sockets of the tunnel are closed.
EndPropagated ==
  \A e \in End :
    Held(e) /\ Held(Mate(e)) /\ peer[e] \in {"fin", "gone"}
      ~> ~Alive \/ ~(Held(e) \/ Held(Mate(e)))

\* A client in the accept queue is accepted.
ClientsAccepted == \A c \in Conns : Queued(c) ~> ~Queued(c) \/ ~Alive
=============================================================================
