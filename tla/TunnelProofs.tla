---------------------------- MODULE TunnelProofs ----------------------------
(***************************************************************************)
(* Proofs that the event loop keeps TypeOK and EntriesWired, through the   *)
(* inductive invariant IInv of TunnelInv.                                  *)
(***************************************************************************)
EXTENDS TunnelInv, SocketListProofs

FdEntry == SOCKET_ENTRY(Fd, Fd \cup {NoFd})
AnyFd   == End \cup {Free, Listener, AfDevice}

LEMMA Descriptors ==
  /\ Fd \subseteq Nat /\ ListenFd \in Fd /\ NoFd \notin Fd
  /\ Listener \notin End /\ Free \notin End /\ AfDevice \notin End
  /\ Listener # Free /\ AfDevice # Free /\ Listener # AfDevice
BY NumbersAssumption, StartupAssumption, DescriptorAssumption DEF Fd, ListenFd

LEMMA Mates ==
  \A e \in End : Mate(e) \in End /\ Mate(e) # e /\ Mate(Mate(e)) = e
BY DEF End, Mate

\* Allocation gives descriptors that were free.
LEMMA Allocation ==
  ASSUME NEW t \in [Fd -> AnyFd]
  PROVE  /\ LowestFree(t) \subseteq {f \in Fd : t[f] = Free}
         /\ \A u \in VMCISock_GetAFValue(t) :
              /\ u \in [Fd -> AnyFd]
              /\ \A f \in Fd : u[f] = t[f] \/ (t[f] = Free /\ u[f] = AfDevice)
BY DEF LowestFree, VMCISock_GetAFValue, AnyFd

\* The parts of the invariant about the list and the table, and about
\* connections, hold after a step that changes neither.
Wiring == /\ CurrAtRear /\ ListenerFirst /\ BridgesWired
          /\ SocketsDistinct /\ OneFdPerEnd

Queueing == QueueDistinct /\ Lifecycle

LEMMA WiringFrame == Wiring /\ UNCHANGED <<sockets, fdt>> => Wiring'
BY DEF Wiring, CurrAtRear, ListenerFirst, BridgesWired, BridgeWired,
       SocketsDistinct, OneFdPerEnd, Elems

SamePeers == \A e \in End : peer'[e] = "none" <=> peer[e] = "none"

LEMMA QueueingFrame ==
  Queueing /\ UNCHANGED <<fdt, backlog>> /\ SamePeers => Queueing'
BY DEF Queueing, QueueDistinct, Lifecycle, ClientUnseen, RemoteUnseen,
       Queued, Held, SamePeers, End

LEMMA InvParts ==
  IInv <=> /\ TypeOK /\ Wiring /\ Queueing
           /\ Connecting /\ MarksRemoved /\ Writing
BY DEF IInv, Wiring, Queueing

LEMMA ListTypes ==
  TypeOK => /\ Elems \in Seq(FdEntry)
            /\ Len(Elems) \in Nat /\ DOMAIN Elems = 1..Len(Elems)
            /\ \A i \in 1..Len(Elems) : Elems[i] \in FdEntry
            /\ CurrAtRear => sockets = AtRear(Elems)
<1> SUFFICES ASSUME TypeOK
             PROVE  /\ Elems \in Seq(FdEntry)
                    /\ CurrAtRear => sockets = AtRear(Elems)
  BY LenProperties, ElementOfSeq
<1> QED
  BY DEF TypeOK, Elems, FdEntry, CurrAtRear, AtRear

LEMMA InitInv == Init => IInv
<1> SUFFICES ASSUME Init PROVE IInv
  OBVIOUS
<1> DEFINE l == [socket |-> ListenFd, handler |-> "listen",
                 context |-> NoFd, deleted |-> FALSE]
<1>1. sockets = [elems |-> <<l>>, curr |-> 1]
  <2>1. l \in FdEntry
    BY Descriptors DEF FdEntry, SOCKET_ENTRY
  <2>2. socket_list_init = AtRear(<<>>)
    BY DEF socket_list_init, list_init, AtRear
  <2>3. sockets = list_insert_after(AtRear(<<>>), l)
    BY <2>2 DEF Init, socket_list_insert
  <2>4. sockets = AtRear(Append(<<>>, l))
    BY <2>1, <2>3, InsertAtRear, EmptySeq
  <2> QED
    BY <2>4 DEF AtRear
<1>2. Elems = <<l>> /\ Len(Elems) = 1 /\ Elems[1] = l
  BY <1>1 DEF Elems
<1>3. fdt[ListenFd] = Listener /\ \A f \in Fd : fdt[f] \notin End
  BY Descriptors DEF Init
<1>4. TypeOK
  <2>1. sockets \in [elems : Seq(FdEntry), curr : Nat]
    BY <1>1, Descriptors DEF FdEntry, SOCKET_ENTRY
  <2>2. fdt \in [Fd -> AnyFd]
    BY DEF Init, AnyFd
  <2>3. /\ sent \in [End -> 0..MaxSend] /\ nread \in [End -> Nat]
        /\ rx \in [End -> Seq(Item)] /\ wrote \in [End -> Seq(Item)]
        /\ peer \in [End -> {"none", "open", "fin", "gone"}]
    BY NumbersAssumption DEF Init
  <2>4. pc = "cleanup" /\ pos \in Nat \ {0} /\ socket_mask \subseteq Fd
        /\ new_sock \in Fd \cup {NoFd} /\ buffer \in Seq(Item)
        /\ backlog \in Seq(Conns)
    BY DEF Init
  <2>5. copied \in BOOLEAN
    BY Zenon DEF Init
  <2> QED
    BY <2>1, <2>2, <2>3, <2>4, <2>5 DEF TypeOK, FdEntry, AnyFd
<1>5. Wiring
  BY <1>1, <1>2, <1>3 DEF Wiring, CurrAtRear, ListenerFirst, BridgesWired,
                          SocketsDistinct, OneFdPerEnd
<1>6. Queueing
  BY <1>3 DEF Init, Queueing, QueueDistinct, Lifecycle, ClientUnseen,
              RemoteUnseen, Queued, Held, End
<1> QED
  BY <1>4, <1>5, <1>6, InvParts DEF Init, Connecting, MarksRemoved, Writing

-----------------------------------------------------------------------------
(* Steps of the environment and of the process that leave the list and the  *)
(* descriptor table alone.                                                   *)

LEMMA SubSeqType ==
  ASSUME NEW S, NEW s \in Seq(S), NEW n \in Nat, n <= Len(s)
  PROVE  Take(s, n) \in Seq(S) /\ DropFirst(s, n) \in Seq(S)
<1>1. /\ Len(s) \in Nat
      /\ \A i \in 1..n : s[i] \in S
      /\ \A i \in (n + 1)..Len(s) : s[i] \in S
  BY LenProperties, ElementOfSeq
<1> DEFINE m == n + 1
           k == Len(s)
<1>2. m \in Int /\ k \in Int /\ \A i \in m..k : s[i] \in S
  BY <1>1
<1> HIDE DEF m, k
<1>3. SubSeq(s, 1, n) \in Seq(S) /\ SubSeq(s, m, k) \in Seq(S)
  BY <1>1, <1>2, SubSeqProperties
<1> QED
  BY <1>3 DEF Take, DropFirst, m, k

LEMMA WatchedFds == IInv => socket_list2fd_set(sockets) \subseteq Fd
BY ListTypes DEF IInv, socket_list2fd_set, FdEntry, SOCKET_ENTRY, Elems

\* A fired bridge entry watches an open end; so does a writing one.
LEMMA FiredEnd ==
  ASSUME IInv, FiredBridge \/ pc = "write"
  PROVE  /\ pos \in 2..Len(Elems) /\ ~Elems[pos].deleted
         /\ SocketIn \in End /\ SocketOut = Mate(SocketIn)
         /\ Entry.socket \in Fd /\ Entry.context \in Fd
<1>1. pos \in 2..Len(Elems) /\ ~Elems[pos].deleted
  <2>1. CASE pc = "write"
    BY <2>1 DEF IInv, Writing
  <2>2. CASE FiredBridge
    BY <2>2, ListTypes DEF IInv, FiredBridge, Fired, Visited, Entry, Elems,
                           ListenerFirst
  <2> QED
    BY <2>1, <2>2
<1>2. BridgeWired(Elems[pos])
  BY <1>1 DEF IInv, BridgesWired
<1>3. Elems[pos] \in FdEntry
  BY <1>1, ListTypes DEF IInv
<1> QED
  BY <1>1, <1>2, <1>3 DEF BridgeWired, FdEntry, SOCKET_ENTRY, SocketIn, SocketOut,
                          Entry, Elems

LEMMA PeerTypes ==
  ASSUME IInv, NEW e \in End,
         PeerSend(e) \/ PeerShutdown(e) \/ PeerClose(e) \/ PeerRead(e)
  PROVE  TypeOK'
<1>1. CASE PeerSend(e)
  <2>0. sent[e] \in 0..MaxSend /\ sent[e] < MaxSend /\ MaxSend \in Nat
    BY <1>1, NumbersAssumption DEF IInv, TypeOK, PeerSend
  <2>1. sent[e] + 1 \in 1..MaxSend /\ sent' \in [End -> 0..MaxSend]
    BY <1>1, <2>0 DEF IInv, TypeOK, PeerSend
  <2>2. Append(rx[e], <<e, sent[e] + 1>>) \in Seq(Item)
    BY <2>1, AppendProperties DEF IInv, TypeOK, Item
  <2>3. rx' \in [End -> Seq(Item)]
    BY <1>1, <2>2 DEF IInv, TypeOK, PeerSend
  <2> QED
    BY <1>1, <2>1, <2>3 DEF IInv, TypeOK, PeerSend, local
<1>2. CASE PeerShutdown(e)
  BY <1>2 DEF IInv, TypeOK, PeerShutdown, local, kernel
<1>3. CASE PeerClose(e)
  BY <1>3 DEF IInv, TypeOK, PeerClose, local, kernel
<1>4. CASE PeerRead(e)
  <2>1. Len(wrote[e]) \in Nat
    BY LenProperties DEF IInv, TypeOK
  <2>2. nread' \in [End -> Nat]
    BY <1>4, <2>1 DEF IInv, TypeOK, PeerRead
  <2> QED
    BY <1>4, <2>2 DEF IInv, TypeOK, PeerRead, local, kernel
<1> QED
  BY <1>1, <1>2, <1>3, <1>4

LEMMA LoopTypes ==
  ASSUME IInv,
         \/ EnterSelect \/ SelectReturns \/ SelectFails \/ SkipEntry \/ PassDone
         \/ AcceptFails \/ TryConnectionExits \/ StaleHandler
         \/ BridgedWriteLoses \/ BridgedWriteFails \/ UNCHANGED vars
  PROVE  TypeOK'
<1> USE DEF kernel, remote
<1>1. CASE EnterSelect
  BY <1>1, WatchedFds DEF IInv, TypeOK, EnterSelect
<1>2. CASE SelectReturns
  BY <1>2 DEF IInv, TypeOK, SelectReturns, Ready
<1>3. CASE SelectFails
  BY <1>3 DEF IInv, TypeOK, SelectFails, ReturnToLoop
<1>4. CASE SkipEntry
  BY <1>4 DEF IInv, TypeOK, SkipEntry, Continue
<1>5. CASE PassDone
  BY <1>5 DEF IInv, TypeOK, PassDone, ReturnToLoop
<1>6. CASE AcceptFails
  BY <1>6 DEF IInv, TypeOK, AcceptFails, Stop
<1>7. CASE TryConnectionExits
  BY <1>7 DEF IInv, TypeOK, TryConnectionExits, Stop
<1>8. CASE StaleHandler
  BY <1>8 DEF IInv, TypeOK, StaleHandler, Stop, Continue
<1>9. CASE BridgedWriteLoses
  <2>1. buffer' \in Seq(Item)
    BY <1>9 DEF BridgedWriteLoses
  <2>2. copied' \in BOOLEAN
    BY <1>9, Zenon DEF BridgedWriteLoses
  <2> QED
    BY <1>9, <2>1, <2>2 DEF IInv, TypeOK, BridgedWriteLoses, Continue
<1>10. CASE BridgedWriteFails
  BY <1>10 DEF IInv, TypeOK, BridgedWriteFails, Stop
<1>11. CASE UNCHANGED vars
  BY <1>11 DEF IInv, TypeOK, vars, local
<1> QED
  BY <1>1, <1>2, <1>3, <1>4, <1>5, <1>6, <1>7, <1>8, <1>9, <1>10, <1>11

LEMMA ReadTypes == ASSUME IInv, BridgedRead PROVE TypeOK'
<1>1. SocketIn \in End
  BY FiredEnd DEF BridgedRead
<1> DEFINE q == rx[SocketIn]
           n == MinOf(BufSize, Len(q))
<1>2. q \in Seq(Item) /\ Len(q) \in Nat
  BY <1>1, LenProperties DEF IInv, TypeOK
<1>3. n \in Nat /\ n <= Len(q)
  BY <1>2, NumbersAssumption DEF MinOf
<1>4. Take(q, n) \in Seq(Item) /\ DropFirst(q, n) \in Seq(Item)
  <2> HIDE DEF n, q
  <2> QED
    BY <1>2, <1>3, SubSeqType
<1>5. buffer' = Take(q, n) /\ rx' = [rx EXCEPT ![SocketIn] = DropFirst(q, n)]
  BY DEF BridgedRead
<1>6. rx' \in [End -> Seq(Item)]
  <2> HIDE DEF n, q
  <2> QED
    BY <1>4, <1>5 DEF IInv, TypeOK
<1>7. buffer' \in Seq(Item)
  BY <1>4, <1>5
<1>8. copied' \in BOOLEAN
  BY Zenon DEF BridgedRead
<1> QED
  BY <1>6, <1>7, <1>8 DEF IInv, TypeOK, BridgedRead, remote

LEMMA WriteTypes == ASSUME IInv, BridgedWrite PROVE TypeOK'
<1>1. SocketOut \in End
  BY FiredEnd, Mates DEF BridgedWrite
<1> DEFINE o == SocketOut
           n == MinOf(Room, Len(buffer))
<1>2. /\ buffer \in Seq(Item) /\ Len(buffer) \in Nat
      /\ wrote[o] \in Seq(Item) /\ Len(wrote[o]) \in Nat /\ nread[o] \in Nat
  BY <1>1, LenProperties DEF IInv, TypeOK
<1>3. n \in Nat /\ n <= Len(buffer)
  BY <1>2, NumbersAssumption DEF MinOf, Room, BridgedWrite
<1>4. /\ Take(buffer, n) \in Seq(Item) /\ DropFirst(buffer, n) \in Seq(Item)
      /\ wrote[o] \o Take(buffer, n) \in Seq(Item)
  <2> HIDE DEF n, o
  <2>1. Take(buffer, n) \in Seq(Item) /\ DropFirst(buffer, n) \in Seq(Item)
    BY <1>2, <1>3, SubSeqType
  <2> QED
    BY <1>2, <2>1, ConcatProperties
<1>5. /\ buffer' = DropFirst(buffer, n)
      /\ wrote' = [wrote EXCEPT ![o] = wrote[o] \o Take(buffer, n)]
  BY DEF BridgedWrite
<1>6. wrote' \in [End -> Seq(Item)] /\ buffer' \in Seq(Item)
  <2> HIDE DEF n, o
  <2> QED
    BY <1>1, <1>4, <1>5 DEF IInv, TypeOK
<1>7. copied' \in BOOLEAN
  BY Zenon DEF BridgedWrite
<1>8. /\ pc' \in {"write", "handle"} /\ pos' \in Nat \ {0}
  BY DEF BridgedWrite, Continue, IInv, TypeOK
<1> QED
  BY <1>6, <1>7, <1>8 DEF IInv, TypeOK, BridgedWrite, remote

LEMMA PeerInv ==
  ASSUME IInv, NEW e \in End,
         PeerSend(e) \/ PeerShutdown(e) \/ PeerClose(e) \/ PeerRead(e)
  PROVE  IInv'
<1>1. UNCHANGED local /\ UNCHANGED <<fdt, backlog>>
  BY DEF PeerSend, PeerShutdown, PeerClose, PeerRead, kernel
<1>2. SamePeers
  BY DEF PeerSend, PeerShutdown, PeerClose, PeerRead, SamePeers, IInv, TypeOK
<1>3. Wiring' /\ Queueing'
  BY <1>1, <1>2, WiringFrame, QueueingFrame, InvParts DEF local
<1>4. Connecting'
  BY <1>1, <1>2 DEF IInv, Connecting, RemoteUnseen, Held, SamePeers, End, local, Elems
<1>5. MarksRemoved' /\ Writing'
  BY <1>1 DEF IInv, MarksRemoved, NoneMarked, Writing, local, Elems
<1> QED
  BY <1>3, <1>4, <1>5, PeerTypes DEF IInv, Wiring, Queueing

\* The process steps that leave the list, the table, the queue and the peers
\* alone.
LoopStep ==
  \/ EnterSelect \/ SelectReturns \/ SelectFails \/ SkipEntry \/ PassDone
  \/ AcceptFails \/ TryConnectionExits \/ StaleHandler
  \/ BridgedRead \/ BridgedWrite \/ BridgedWriteLoses \/ BridgedWriteFails
  \/ UNCHANGED vars

LEMMA LoopControl ==
  ASSUME IInv, LoopStep
  PROVE  Connecting' /\ MarksRemoved' /\ Writing'
<1> USE DEF IInv, Connecting, MarksRemoved, Writing, NoneMarked, Elems, kernel, remote
<1>1. CASE EnterSelect
  BY <1>1, ListTypes DEF EnterSelect, HasMarked
<1>2. CASE SelectReturns
  BY <1>2 DEF SelectReturns
<1>3. CASE SelectFails
  BY <1>3 DEF SelectFails, ReturnToLoop
<1>4. CASE SkipEntry
  BY <1>4 DEF SkipEntry, Continue, TypeOK
<1>5. CASE PassDone
  BY <1>5 DEF PassDone, ReturnToLoop
<1>6. CASE AcceptFails \/ TryConnectionExits \/ BridgedWriteFails
  BY <1>6 DEF AcceptFails, TryConnectionExits, BridgedWriteFails, Stop
<1>7. CASE StaleHandler
  BY <1>7 DEF StaleHandler, Stop, Continue, TypeOK
<1>8. CASE BridgedRead
  <2>1. pos \in 2..Len(Elems) /\ ~Elems[pos].deleted
    BY <1>8, FiredEnd DEF BridgedRead
  <2> QED
    BY <1>8, <2>1 DEF BridgedRead
<1>9. CASE BridgedWrite
  BY <1>9 DEF BridgedWrite, Continue, TypeOK
<1>10. CASE BridgedWriteLoses
  BY <1>10 DEF BridgedWriteLoses, Continue, TypeOK
<1>11. CASE UNCHANGED vars
  BY <1>11 DEF vars, local, RemoteUnseen, Held
<1> QED
  BY <1>1, <1>2, <1>3, <1>4, <1>5, <1>6, <1>7, <1>8, <1>9, <1>10, <1>11
     DEF LoopStep

LEMMA LoopInv == ASSUME IInv, LoopStep PROVE IInv'
<1>1. UNCHANGED <<sockets, fdt, backlog, peer>>
  BY DEF LoopStep, EnterSelect, SelectReturns, SelectFails, SkipEntry, PassDone,
         AcceptFails, TryConnectionExits, StaleHandler, BridgedRead,
         BridgedWrite, BridgedWriteLoses, BridgedWriteFails, Stop, vars,
         local, kernel, remote
<1>2. Wiring' /\ Queueing'
  BY <1>1, WiringFrame, QueueingFrame, InvParts DEF SamePeers
<1>3. TypeOK'
  BY LoopTypes, ReadTypes, WriteTypes DEF LoopStep
<1> QED
  BY <1>2, <1>3, LoopControl DEF IInv, Wiring, Queueing

-----------------------------------------------------------------------------
(* Steps that change the queue, the list or the descriptor table.            *)

LEMMA ConnectInv ==
  ASSUME IInv, NEW c \in Conns, ClientConnect(c)
  PROVE  IInv'
<1>1. /\ UNCHANGED local /\ fdt' = fdt
      /\ backlog' = Append(backlog, c)
      /\ peer' = [peer EXCEPT ![<<c, "in">>] = "open"]
      /\ peer[<<c, "in">>] = "none"
  BY DEF ClientConnect
<1>2. ClientUnseen(c) /\ RemoteUnseen(c)
  BY <1>1 DEF IInv, Lifecycle
<1>3. /\ backlog' \in Seq(Conns) /\ Len(backlog') = Len(backlog) + 1
      /\ backlog'[Len(backlog) + 1] = c
      /\ \A i \in 1..Len(backlog) : backlog'[i] = backlog[i]
      /\ Len(backlog) \in Nat
      /\ DOMAIN backlog = 1..Len(backlog)
      /\ DOMAIN backlog' = 1..(Len(backlog) + 1)
  BY <1>1, AppendProperties, LenProperties DEF IInv, TypeOK
<1>4. \A d \in Conns : Queued(d)' <=> Queued(d) \/ d = c
  BY <1>3 DEF Queued
<1>5. /\ \A d \in Conns : peer'[<<d, "out">>] = peer[<<d, "out">>]
      /\ \A d \in Conns : d # c => peer'[<<d, "in">>] = peer[<<d, "in">>]
      /\ peer'[<<c, "in">>] = "open"
      /\ peer' \in [End -> {"none", "open", "fin", "gone"}]
  BY <1>1 DEF IInv, TypeOK, End
<1>6. TypeOK'
  BY <1>1, <1>3, <1>5 DEF IInv, TypeOK, ClientConnect, local
<1>7. Wiring'
  BY <1>1, WiringFrame, InvParts DEF local
<1>8. QueueDistinct'
  BY <1>2, <1>3 DEF IInv, QueueDistinct, ClientUnseen, Queued
<1>9. Lifecycle'
  <2> SUFFICES ASSUME NEW d \in Conns
      PROVE  /\ (peer[<<d, "in">>] = "none" => ClientUnseen(d) /\ RemoteUnseen(d))'
             /\ (Queued(d) => ~Held(<<d, "in">>) /\ RemoteUnseen(d))'
    BY DEF Lifecycle
  <2>1. \A e \in End : Held(e)' <=> Held(e)
    BY <1>1 DEF Held
  <2>2. /\ peer[<<d, "in">>] = "none" => ClientUnseen(d) /\ RemoteUnseen(d)
        /\ Queued(d) => ~Held(<<d, "in">>) /\ RemoteUnseen(d)
    BY DEF IInv, Lifecycle
  <2>3. RemoteUnseen(d)' <=> RemoteUnseen(d)
    BY <1>5, <2>1 DEF RemoteUnseen, End
  <2>4. Held(<<d, "in">>)' <=> Held(<<d, "in">>)
    BY <2>1 DEF End
  <2>5. CASE d = c
    BY <1>2, <1>4, <1>5, <2>2, <2>3, <2>4, <2>5 DEF ClientUnseen
  <2>6. CASE d # c
    BY <1>4, <1>5, <2>2, <2>3, <2>4, <2>6 DEF ClientUnseen
  <2> QED
    BY <2>5, <2>6
<1>10. Connecting' /\ MarksRemoved' /\ Writing'
  BY <1>1, <1>5 DEF IInv, Connecting, MarksRemoved, Writing, NoneMarked,
                    RemoteUnseen, Held, Elems, local
<1> QED
  BY <1>6, <1>7, <1>8, <1>9, <1>10 DEF IInv, Wiring

\* The removal loop drops the rear; the listening socket is never the rear
\* while an entry is marked.
LEMMA RemoveList ==
  ASSUME IInv, RemoveMarked
  PROVE  /\ Len(Elems) \in Nat /\ Len(Elems) > 1
         /\ sockets' = AtRear(Elems') /\ Elems' \in Seq(FdEntry)
         /\ Len(Elems') = Len(Elems) - 1
         /\ \A i \in 1..(Len(Elems) - 1) : Elems'[i] = Elems[i]
<1> DEFINE n == Len(Elems) - 1
<1>1. /\ Elems \in Seq(FdEntry) /\ Len(Elems) \in Nat /\ n \in Nat /\ n >= 1
      /\ sockets = AtRear(Elems)
  <2>1. \E i \in 1..Len(Elems) : Elems[i].deleted
    BY ListTypes DEF RemoveMarked, HasMarked, Elems, IInv
  <2> QED
    BY <2>1, ListTypes DEF IInv, ListenerFirst
<1>2. sockets' = AtRear(SubSeq(Elems, 1, n))
  BY <1>1, RemoveAtRear DEF RemoveMarked
<1>3. Elems' = SubSeq(Elems, 1, n) /\ sockets' = AtRear(Elems')
  BY <1>2 DEF AtRear, Elems
<1>4. /\ Elems' \in Seq(FdEntry) /\ Len(Elems') = n
      /\ \A i \in 1..n : Elems'[i] = Elems[i]
  <2>1. \A i \in 1..n : Elems[i] \in FdEntry
    BY <1>1, ListTypes DEF IInv
  <2> HIDE DEF n
  <2> QED
    BY <1>1, <1>3, <2>1, SubSeqProperties
<1> QED
  BY <1>1, <1>3, <1>4

LEMMA RemoveInv == ASSUME IInv, RemoveMarked PROVE IInv'
<1> DEFINE n == Len(Elems) - 1
<1>1. /\ Len(Elems) \in Nat /\ n \in Nat /\ n >= 1
      /\ sockets' = AtRear(Elems')
  BY RemoveList
<1>2. /\ Elems' \in Seq(FdEntry) /\ Len(Elems') = n
      /\ \A i \in 1..n : Elems'[i] = Elems[i]
  BY RemoveList
<1>3. /\ pc = "cleanup" /\ pc' = "cleanup"
      /\ UNCHANGED <<pos, socket_mask, new_sock, buffer, copied, kernel, remote>>
  BY DEF RemoveMarked
<1>4. TypeOK'
  <2>1. sockets' \in [elems : Seq(FdEntry), curr : Nat]
    BY <1>1, <1>2 DEF AtRear
  <2> QED
    BY <1>3, <2>1 DEF IInv, TypeOK, FdEntry, kernel, remote
<1>5. Wiring'
  <2>1. fdt' = fdt /\ n \in Nat /\ n >= 1 /\ n < Len(Elems) /\ Len(Elems) \in Nat
    BY <1>1, <1>3 DEF kernel
  <2> HIDE DEF n
  <2>2. CurrAtRear'
    BY <1>1 DEF CurrAtRear, AtRear
  <2>3. ListenerFirst'
    BY <1>2, <2>1 DEF IInv, ListenerFirst
  <2>4. BridgesWired'
    BY <1>2, <2>1 DEF IInv, BridgesWired, BridgeWired
  <2>5. SocketsDistinct' /\ OneFdPerEnd'
    BY <1>2, <2>1 DEF IInv, SocketsDistinct, OneFdPerEnd
  <2> QED
    BY <2>2, <2>3, <2>4, <2>5 DEF Wiring
<1>6. Queueing'
  BY <1>3, QueueingFrame, InvParts DEF kernel, remote, SamePeers
<1> QED
  BY <1>3, <1>4, <1>5, <1>6
     DEF IInv, Wiring, Queueing, Connecting, MarksRemoved, Writing

\* An end of file marks the entries of both sockets and nothing else.
LEMMA EofList ==
  ASSUME IInv, BridgedEof
  PROVE  /\ sockets' = AtRear(Elems') /\ Elems' \in Seq(FdEntry)
         /\ Len(Elems') = Len(Elems)
         /\ \A i \in 1..Len(Elems) :
              /\ Elems'[i].socket = Elems[i].socket
              /\ Elems'[i].handler = Elems[i].handler
              /\ Elems'[i].context = Elems[i].context
              /\ Elems'[i].deleted <=>
                   (Elems[i].deleted \/ Elems[i].socket \in {Entry.socket, Entry.context})
<1> DEFINE s == Entry.socket
           o == Entry.context
           d1 == socket_list_delete(sockets, s)
           d2 == socket_list_delete(d1, o)
<1>1. /\ pos \in 2..Len(Elems) /\ ~Elems[pos].deleted
      /\ SocketIn \in End /\ SocketOut = Mate(SocketIn)
      /\ s \in Fd /\ o \in Fd
  BY FiredEnd DEF BridgedEof
<1>2. /\ Elems \in Seq(FdEntry) /\ sockets = AtRear(Elems)
      /\ Len(Elems) \in Nat /\ \A i \in 1..Len(Elems) : Elems[i] \in FdEntry
  BY ListTypes DEF IInv
<1>3. /\ d1 = AtRear(d1.elems) /\ d1.elems \in Seq(FdEntry)
      /\ Len(d1.elems) = Len(Elems)
      /\ \A i \in 1..Len(Elems) :
           /\ d1.elems[i].socket = Elems[i].socket
           /\ d1.elems[i].handler = Elems[i].handler
           /\ d1.elems[i].context = Elems[i].context
           /\ d1.elems[i].deleted <=>
                (Elems[i].deleted \/ IsFirst(AtRear(Elems), s, i))
  BY <1>2, DeleteOnlyMarks DEF FdEntry
<1>4. /\ d2 = AtRear(d2.elems) /\ d2.elems \in Seq(FdEntry)
      /\ Len(d2.elems) = Len(Elems)
      /\ \A i \in 1..Len(Elems) :
           /\ d2.elems[i].socket = d1.elems[i].socket
           /\ d2.elems[i].handler = d1.elems[i].handler
           /\ d2.elems[i].context = d1.elems[i].context
           /\ d2.elems[i].deleted <=>
                (d1.elems[i].deleted \/ IsFirst(AtRear(d1.elems), o, i))
  <2> HIDE DEF d1
  <2> QED
    BY <1>3, DeleteOnlyMarks DEF FdEntry
<1>5. /\ sockets' = d2 /\ Elems' = d2.elems
  BY DEF BridgedEof, Elems
\* Descriptors are registered once, so the first match is the only one.
<1>6. \A i \in 1..Len(Elems) :
        /\ IsFirst(AtRear(Elems), s, i) <=> Elems[i].socket = s
        /\ IsFirst(AtRear(d1.elems), o, i) <=> Elems[i].socket = o
  BY <1>2, <1>3 DEF IInv, SocketsDistinct, IsFirst, AtRear
<1>7. /\ Len(Elems') = Len(Elems) /\ Elems' \in Seq(FdEntry)
      /\ sockets' = AtRear(Elems')
      /\ \A i \in 1..Len(Elems) :
           /\ Elems'[i].socket = Elems[i].socket
           /\ Elems'[i].handler = Elems[i].handler
           /\ Elems'[i].context = Elems[i].context
           /\ Elems'[i].deleted <=> (Elems[i].deleted \/ Elems[i].socket \in {s, o})
  <2> HIDE DEF d1, d2, s, o
  <2> QED
    BY <1>3, <1>4, <1>5, <1>6
<1> QED
  BY <1>7

LEMMA EofInv == ASSUME IInv, BridgedEof PROVE IInv'
<1> DEFINE s == Entry.socket
           o == Entry.context
<1>1. /\ pos \in 2..Len(Elems) /\ ~Elems[pos].deleted
      /\ SocketIn \in End /\ SocketOut = Mate(SocketIn)
      /\ s \in Fd /\ o \in Fd
  BY FiredEnd DEF BridgedEof
<1>2. /\ Elems \in Seq(FdEntry) /\ sockets = AtRear(Elems)
      /\ Len(Elems) \in Nat /\ \A i \in 1..Len(Elems) : Elems[i] \in FdEntry
  BY ListTypes DEF IInv
<1>5. /\ fdt' = Closed(fdt, {s, o})
      /\ UNCHANGED <<backlog, peer>>
      /\ pc' = "handle" /\ pos' = pos + 1
  BY DEF BridgedEof, Continue, remote
<1>7. /\ Len(Elems') = Len(Elems) /\ Elems' \in Seq(FdEntry)
      /\ sockets' = AtRear(Elems')
      /\ \A i \in 1..Len(Elems) :
           /\ Elems'[i].socket = Elems[i].socket
           /\ Elems'[i].handler = Elems[i].handler
           /\ Elems'[i].context = Elems[i].context
           /\ Elems'[i].deleted <=> (Elems[i].deleted \/ Elems[i].socket \in {s, o})
  BY EofList
<1>8. /\ fdt[s] = SocketIn /\ fdt[o] = Mate(SocketIn)
      /\ fdt[s] \in End /\ fdt[o] \in End
      /\ ListenFd \notin {s, o}
  BY <1>1, Mates, Descriptors DEF SocketIn, SocketOut, IInv, ListenerFirst
<1>9. /\ fdt' \in [Fd -> AnyFd]
      /\ \A f \in Fd : fdt'[f] = IF f \in {s, o} THEN Free ELSE fdt[f]
  BY <1>5 DEF IInv, TypeOK, AnyFd, Closed
<1> HIDE DEF s, o
<1>10. rx' \in [End -> Seq(Item)]
  BY DEF BridgedEof, Dropped, IInv, TypeOK
<1>11. TypeOK'
  <2>1. sockets' \in [elems : Seq(FdEntry), curr : Nat]
    BY <1>7, <1>2 DEF AtRear
  <2>2. pos' \in Nat \ {0}
    BY <1>1, <1>2, <1>5
  <2>3. UNCHANGED <<socket_mask, new_sock, buffer, copied, backlog, wrote, remote>>
    BY DEF BridgedEof
  <2> QED
    BY <1>5, <1>9, <1>10, <2>1, <2>2, <2>3
       DEF IInv, TypeOK, FdEntry, AnyFd, remote
<1>12. BridgesWired'
  <2> SUFFICES ASSUME NEW i \in 2..Len(Elems)
               PROVE  BridgeWired(Elems[i])'
    BY <1>7 DEF BridgesWired
  <2>1. Elems[i] \in FdEntry /\ BridgeWired(Elems[i])
    BY <1>2 DEF IInv, BridgesWired
  <2>2. Elems[i].socket \in Fd /\ Elems[i].context \in Fd
    BY <2>1 DEF BridgeWired, FdEntry, SOCKET_ENTRY
  <2> DEFINE x == Elems'[i]
  <2>5. /\ x.socket = Elems[i].socket /\ x.handler = Elems[i].handler
        /\ x.context = Elems[i].context
        /\ x.deleted <=> Elems[i].deleted \/ Elems[i].socket \in {s, o}
    BY <1>2, <1>7
  <2> SUFFICES /\ x.deleted => fdt'[x.socket] = Free
               /\ ~x.deleted => /\ fdt'[x.socket] \in End
                                /\ fdt'[x.context] = Mate(fdt'[x.socket])
    BY <2>1, <2>5 DEF BridgeWired
  <2> HIDE DEF x
  <2>3. CASE Elems[i].deleted \/ Elems[i].socket \in {s, o}
    BY <1>9, <2>1, <2>2, <2>3, <2>5 DEF BridgeWired
  <2>4. CASE ~Elems[i].deleted /\ Elems[i].socket \notin {s, o}
    <3>1. fdt[Elems[i].socket] \in End
          /\ fdt[Elems[i].context] = Mate(fdt[Elems[i].socket])
      BY <2>1, <2>4 DEF BridgeWired
    <3>2. fdt[Elems[i].socket] # fdt[s] /\ fdt[Elems[i].socket] # fdt[o]
      BY <1>1, <1>8, <2>2, <2>4, <3>1 DEF IInv, OneFdPerEnd
    <3>3. Elems[i].context \notin {s, o}
      BY <1>1, <1>8, <3>1, <3>2, Mates
    <3> QED
      BY <1>9, <2>2, <2>4, <2>5, <3>1, <3>3
  <2> QED
    BY <2>3, <2>4
<1>13. /\ CurrAtRear' /\ SocketsDistinct'
  BY <1>2, <1>7 DEF IInv, CurrAtRear, SocketsDistinct, AtRear
<1>14. ListenerFirst'
  <2>1. /\ 1 \in 1..Len(Elems) /\ Elems[1].socket = ListenFd
        /\ Elems[1].handler = "listen" /\ ~Elems[1].deleted
        /\ fdt[ListenFd] = Listener
    BY <1>2 DEF IInv, ListenerFirst
  <2>2. fdt'[ListenFd] = Listener
    BY <1>8, <1>9, <2>1, Descriptors
  <2>3. /\ Elems'[1].socket = ListenFd /\ Elems'[1].handler = "listen"
        /\ ~Elems'[1].deleted
    BY <1>7, <1>8, <2>1
  <2> QED
    BY <1>7, <2>1, <2>2, <2>3 DEF ListenerFirst
<1>15. OneFdPerEnd'
  BY <1>9, Descriptors DEF IInv, OneFdPerEnd
<1>16. \A e \in End : Held(e)' => Held(e)
  BY <1>9, Descriptors DEF Held
<1>17. Queueing'
  BY <1>5, <1>16 DEF IInv, Queueing, QueueDistinct, Lifecycle, ClientUnseen,
                     RemoteUnseen, Queued, End
<1>18. Connecting' /\ MarksRemoved' /\ Writing'
  BY <1>1, <1>5 DEF Connecting, MarksRemoved, Writing
<1> QED
  BY <1>11, <1>12, <1>13, <1>14, <1>15, <1>17, <1>18 DEF IInv, Queueing

\* The handler of the listening socket runs first, with no entry marked.
LEMMA ListenFirst ==
  ASSUME IInv, Fired, Entry.handler = "listen"
  PROVE  pos = 1 /\ NoneMarked
<1>1. pos \in 1..Len(Elems)
  BY ListTypes DEF Fired, Visited, Elems, IInv
<1>2. pos \notin 2..Len(Elems)
  BY DEF IInv, BridgesWired, BridgeWired, Entry, Elems
<1>3. pos = 1
  BY <1>1, <1>2, ListTypes DEF IInv
<1> QED
  BY <1>3 DEF IInv, MarksRemoved, Fired, Visited

\* While no entry is marked, no entry watches a free descriptor.
LEMMA FreshNotListed ==
  ASSUME IInv, NoneMarked, NEW f \in Fd, fdt[f] = Free
  PROVE  \A i \in 1..Len(Elems) : Elems[i].socket # f
<1>1. Elems[1].socket # f
  BY Descriptors DEF IInv, ListenerFirst
<1>2. \A i \in 2..Len(Elems) : Elems[i].socket # f
  BY ListTypes, Descriptors DEF IInv, BridgesWired, BridgeWired, NoneMarked
<1> QED
  BY <1>1, <1>2, ListTypes DEF IInv

LEMMA AcceptInv == ASSUME IInv, SocketAccept PROVE IInv'
<1>0. PICK c \in Conns : c = Head(backlog)
  BY HeadTailProperties DEF SocketAccept, IInv, TypeOK
<1> DEFINE e == <<c, "in">>
<1>1. PICK f \in LowestFree(fdt) :
        fdt' = [fdt EXCEPT ![f] = e] /\ new_sock' = f
  BY <1>0 DEF SocketAccept
<1>2. /\ pc = "handle" /\ pc' = "connect" /\ backlog # <<>>
      /\ backlog' = Tail(backlog)
      /\ UNCHANGED <<sockets, pos, socket_mask, buffer, copied, rx, wrote, remote>>
  BY DEF SocketAccept, Fired, Visited
<1>3. pos = 1 /\ NoneMarked
  BY ListenFirst DEF SocketAccept
<1>4. f \in Fd /\ fdt[f] = Free /\ fdt \in [Fd -> AnyFd]
  BY <1>1, Allocation DEF IInv, TypeOK, AnyFd
<1>5. /\ c \in Conns /\ e \in End /\ backlog' \in Seq(Conns)
      /\ Len(backlog) \in Nat \ {0} /\ Len(backlog') = Len(backlog) - 1
      /\ c = backlog[1]
      /\ \A i \in 1..Len(backlog') : backlog'[i] = backlog[i + 1]
      /\ DOMAIN backlog = 1..Len(backlog) /\ DOMAIN backlog' = 1..Len(backlog')
  BY <1>0, <1>2, HeadTailProperties, LenProperties, EmptySeq DEF IInv, TypeOK, End
<1>6. /\ Queued(c) /\ ~Queued(c)'
      /\ \A d \in Conns : Queued(d)' => Queued(d)
  <2>1. Queued(c)
    BY <1>5 DEF Queued
  <2>2. \A i \in 1..Len(backlog') : /\ i + 1 \in 1..Len(backlog)
                                    /\ backlog'[i] = backlog[i + 1]
                                    /\ i + 1 # 1
    BY <1>5
  <2>3. 1 \in 1..Len(backlog)
    BY <1>5
  <2>4. \A i \in 1..Len(backlog') : backlog'[i] # c
    BY <1>5, <2>2, <2>3 DEF IInv, QueueDistinct
  <2>5. ~Queued(c)'
    BY <1>5, <2>4 DEF Queued
  <2>6. \A d \in Conns : Queued(d)' => Queued(d)
    BY <1>5, <2>2 DEF Queued
  <2> QED
    BY <2>1, <2>5, <2>6
<1>7. ~Held(e) /\ RemoteUnseen(c) /\ peer[e] # "none"
  BY <1>5, <1>6 DEF IInv, Lifecycle, ClientUnseen
<1>8. /\ fdt' \in [Fd -> AnyFd] /\ fdt'[f] = e
      /\ \A g \in Fd : g # f => fdt'[g] = fdt[g]
  BY <1>1, <1>4, <1>5 DEF AnyFd
<1>9. \A x \in End : Held(x)' <=> Held(x) \/ x = e
  BY <1>4, <1>5, <1>8, Descriptors DEF Held
<1>10. TypeOK'
  BY <1>1, <1>2, <1>4, <1>5, <1>8 DEF IInv, TypeOK, AnyFd, remote
<1>11. BridgesWired'
  <2> SUFFICES ASSUME NEW i \in 2..Len(Elems) PROVE BridgeWired(Elems[i])'
    BY <1>2 DEF BridgesWired, Elems
  <2>1. Elems' = Elems /\ i \in 1..Len(Elems)
    BY <1>2, ListTypes DEF Elems, IInv
  <2>2. /\ BridgeWired(Elems[i]) /\ ~Elems[i].deleted /\ Elems[i].socket \in Fd
    BY <1>3, <2>1, ListTypes DEF IInv, BridgesWired, NoneMarked, FdEntry, SOCKET_ENTRY
  <2>3. Elems[i].socket # f /\ Elems[i].context # f
    BY <1>4, <2>2, Descriptors, Mates DEF BridgeWired
  <2> QED
    BY <1>8, <2>1, <2>2, <2>3 DEF BridgeWired
<1>12. CurrAtRear' /\ SocketsDistinct'
  BY <1>2 DEF IInv, CurrAtRear, SocketsDistinct, Elems
<1>13. ListenerFirst'
  BY <1>2, <1>4, <1>8, Descriptors DEF IInv, ListenerFirst, Elems
<1>14. OneFdPerEnd'
  BY <1>4, <1>7, <1>8, Descriptors DEF IInv, OneFdPerEnd, Held
<1>15. QueueDistinct'
  BY <1>5 DEF IInv, QueueDistinct
<1>16. Lifecycle'
  <2>1. \A d \in Conns : <<d, "in">> \in End /\ <<d, "out">> \in End
                         /\ <<d, "out">> # e /\ (<<d, "in">> = e => d = c)
    BY DEF End
  <2>2. peer' = peer
    BY <1>2 DEF remote
  <2>3. \A d \in Conns : RemoteUnseen(d) => RemoteUnseen(d)'
    BY <1>9, <2>1, <2>2 DEF RemoteUnseen
  <2>4. \A d \in Conns : d # c => (Held(<<d, "in">>)' <=> Held(<<d, "in">>))
    BY <1>9, <2>1
  <2> SUFFICES ASSUME NEW d \in Conns
               PROVE  /\ peer[<<d, "in">>] = "none" =>
                           ClientUnseen(d)' /\ RemoteUnseen(d)'
                      /\ Queued(d)' => ~Held(<<d, "in">>)' /\ RemoteUnseen(d)'
    BY <2>2 DEF Lifecycle
  <2>5. CASE d = c
    BY <1>6, <1>7, <2>5
  <2>6. CASE d # c
    BY <1>6, <2>3, <2>4, <2>6 DEF IInv, Lifecycle, ClientUnseen
  <2> QED
    BY <2>5, <2>6
<1>17. Connecting'
  <2>1. RemoteUnseen(c)'
    <3>1. <<c, "out">> \in End /\ <<c, "out">> # e /\ peer' = peer
      BY <1>2, <1>5 DEF End, remote
    <3> QED
      BY <1>7, <1>9, <3>1 DEF RemoteUnseen
  <2>2. \A i \in 1..Len(Elems) : Elems[i].socket # f
    BY <1>3, <1>4, FreshNotListed
  <2> QED
    BY <1>1, <1>2, <1>3, <1>4, <1>5, <1>8, <2>1, <2>2 DEF Connecting, Elems
<1>18. MarksRemoved' /\ Writing'
  BY <1>2, <1>3 DEF MarksRemoved, Writing, NoneMarked, Elems
<1> QED
  BY <1>10, <1>11, <1>12, <1>13, <1>14, <1>15, <1>16, <1>17, <1>18 DEF IInv

\* Leaking the VMCI device takes free descriptors only, so it disturbs neither
\* the wiring nor the life of a connection.
LEMMA LeakInv ==
  ASSUME IInv, NEW t \in VMCISock_GetAFValue(fdt)
  PROVE  /\ t \in [Fd -> AnyFd]
         /\ \A f \in Fd : fdt[f] # Free => t[f] = fdt[f]
         /\ \A f \in Fd : t[f] = Free => fdt[f] = Free
         /\ \A f \in Fd, e \in End : t[f] = e <=> fdt[f] = e
<1>1. fdt \in [Fd -> AnyFd]
  BY DEF IInv, TypeOK, AnyFd
<1> QED
  BY <1>1, Allocation, Descriptors

LEMMA RefusedInv == ASSUME IInv, TryConnectionRefused PROVE IInv'
<1>1. PICK t \in VMCISock_GetAFValue(fdt) : fdt' = t
  BY DEF TryConnectionRefused
<1>2. /\ pc = "connect" /\ pos = 1 /\ NoneMarked
      /\ pc' = "handle" /\ pos' = 2 /\ new_sock' = NoFd
      /\ UNCHANGED <<sockets, socket_mask, buffer, copied, backlog, rx, wrote, remote>>
  BY DEF TryConnectionRefused, Continue, IInv, Connecting, MarksRemoved
<1>3. /\ fdt' \in [Fd -> AnyFd]
      /\ \A f \in Fd : fdt[f] # Free => fdt'[f] = fdt[f]
      /\ \A f \in Fd, e \in End : fdt'[f] = e <=> fdt[f] = e
  BY <1>1, LeakInv
<1>4. Elems' = Elems /\ peer' = peer /\ backlog' = backlog
  BY <1>2 DEF Elems, remote
<1>5. \A e \in End : Held(e)' <=> Held(e)
  BY <1>3 DEF Held
<1>6. TypeOK'
  BY <1>2, <1>3 DEF IInv, TypeOK, AnyFd, remote
<1>7. BridgesWired'
  <2> SUFFICES ASSUME NEW i \in 2..Len(Elems) PROVE BridgeWired(Elems[i])'
    BY <1>4 DEF BridgesWired
  <2>1. /\ BridgeWired(Elems[i]) /\ ~Elems[i].deleted /\ Elems[i].socket \in Fd
    BY <1>2, ListTypes DEF IInv, BridgesWired, NoneMarked, FdEntry, SOCKET_ENTRY
  <2> QED
    BY <1>3, <1>4, <2>1, Descriptors, Mates DEF BridgeWired
<1>8. CurrAtRear' /\ SocketsDistinct' /\ QueueDistinct'
  BY <1>2, <1>4 DEF IInv, CurrAtRear, SocketsDistinct, QueueDistinct
<1>9. ListenerFirst'
  BY <1>3, <1>4, Descriptors DEF IInv, ListenerFirst
<1>10. OneFdPerEnd'
  BY <1>3 DEF IInv, OneFdPerEnd
<1>11. Lifecycle'
  BY <1>4, <1>5 DEF IInv, Lifecycle, ClientUnseen, RemoteUnseen, Queued, End
<1>12. Connecting' /\ MarksRemoved' /\ Writing'
  BY <1>2 DEF Connecting, MarksRemoved, Writing
<1> QED
  BY <1>6, <1>7, <1>8, <1>9, <1>10, <1>11, <1>12 DEF IInv

\* A new tunnel's two entries go last, each with the other's descriptor.
LEMMA ConnectedList ==
  ASSUME IInv, NEW f \in Fd, new_sock \in Fd,
         sockets' = socket_list_insert(
                      socket_list_insert(sockets, new_sock, "bridge", f),
                      f, "bridge", new_sock)
  PROVE  /\ sockets' = AtRear(Elems') /\ Elems' \in Seq(FdEntry)
         /\ Len(Elems) \in Nat /\ Len(Elems') = Len(Elems) + 2
         /\ \A i \in 1..Len(Elems) : Elems'[i] = Elems[i]
         /\ Elems'[Len(Elems) + 1] = [socket |-> new_sock, handler |-> "bridge",
                                      context |-> f, deleted |-> FALSE]
         /\ Elems'[Len(Elems) + 2] = [socket |-> f, handler |-> "bridge",
                                      context |-> new_sock, deleted |-> FALSE]
<1> DEFINE x1 == [socket |-> new_sock, handler |-> "bridge",
                  context |-> f, deleted |-> FALSE]
           x2 == [socket |-> f, handler |-> "bridge",
                  context |-> new_sock, deleted |-> FALSE]
           L  == Len(Elems)
<1>1. x1 \in FdEntry /\ x2 \in FdEntry
  BY DEF FdEntry, SOCKET_ENTRY
<1>2. /\ sockets' = AtRear(Elems') /\ Elems' \in Seq(FdEntry)
      /\ L \in Nat /\ Len(Elems') = L + 2
      /\ \A i \in 1..L : Elems'[i] = Elems[i]
      /\ Elems'[L + 1] = x1 /\ Elems'[L + 2] = x2
  <2> HIDE DEF x1, x2
  <2>1. Elems \in Seq(FdEntry) /\ sockets = AtRear(Elems) /\ L \in Nat
    BY ListTypes DEF IInv
  <2>2. /\ Append(Elems, x1) \in Seq(FdEntry)
        /\ Len(Append(Elems, x1)) = L + 1
        /\ \A i \in 1..L : Append(Elems, x1)[i] = Elems[i]
        /\ Append(Elems, x1)[L + 1] = x1
    BY <1>1, <2>1, AppendProperties
  <2> DEFINE m == Append(Elems, x1)
  <2>3. sockets' = list_insert_after(list_insert_after(sockets, x1), x2)
    BY DEF socket_list_insert, x1, x2
  <2>4. list_insert_after(sockets, x1) = AtRear(m)
    BY <1>1, <2>1, InsertAtRear
  <2> HIDE DEF m
  <2>5. m \in Seq(FdEntry) /\ Len(m) = L + 1
        /\ (\A i \in 1..L : m[i] = Elems[i]) /\ m[L + 1] = x1
    BY <2>2 DEF m
  <2>6. sockets' = AtRear(Append(m, x2))
    BY <1>1, <2>3, <2>4, <2>5, InsertAtRear
  <2>7. Elems' = Append(m, x2)
    BY <2>6 DEF AtRear, Elems
  <2>8. /\ Append(m, x2) \in Seq(FdEntry)
        /\ Len(Append(m, x2)) = L + 2
        /\ \A i \in 1..(L + 1) : Append(m, x2)[i] = m[i]
        /\ Append(m, x2)[L + 2] = x2
    BY <1>1, <2>1, <2>5, AppendProperties
  <2> QED
    BY <2>1, <2>5, <2>6, <2>7, <2>8
<1> QED
  BY <1>2

LEMMA ConnectedInv == ASSUME IInv, TryConnectionOk PROVE IInv'
<1> DEFINE n == new_sock
<1>1. PICK c \in Conns : fdt[new_sock] = <<c, "in">> /\ RemoteUnseen(c)
  BY DEF TryConnectionOk, IInv, Connecting
<1> DEFINE i0 == <<c, "in">>
           r  == <<c, "out">>
<1>2. i0 \in End /\ r \in End /\ Mate(i0) = r /\ Mate(r) = i0 /\ RemoteEnd = r
  BY <1>1 DEF End, Mate, RemoteEnd, ClientEnd
<1>3. PICK t \in VMCISock_GetAFValue(fdt) : \E f \in LowestFree(t) :
        /\ fdt' = [t EXCEPT ![f] = r]
        /\ sockets' = socket_list_insert(
                        socket_list_insert(sockets, new_sock, "bridge", f),
                        f, "bridge", new_sock)
  BY <1>2 DEF TryConnectionOk
<1>4. PICK f \in LowestFree(t) :
        /\ fdt' = [t EXCEPT ![f] = r]
        /\ sockets' = socket_list_insert(
                        socket_list_insert(sockets, new_sock, "bridge", f),
                        f, "bridge", new_sock)
  BY <1>3
<1>5. /\ pc = "connect" /\ pos = 1 /\ NoneMarked
      /\ new_sock \in Fd
      /\ \A i \in 1..Len(Elems) : Elems[i].socket # new_sock
      /\ pc' = "handle" /\ pos' = 2 /\ new_sock' = NoFd
      /\ peer' = [peer EXCEPT ![r] = "open"]
      /\ UNCHANGED <<socket_mask, buffer, copied, backlog, rx, wrote, sent, nread>>
  BY <1>2 DEF TryConnectionOk, Continue, IInv, Connecting, MarksRemoved
<1>6. f \in Fd /\ t[f] = Free /\ fdt[f] = Free /\ f # new_sock
  <2>1. f \in Fd /\ t[f] = Free
    BY <1>4 DEF LowestFree
  <2>2. fdt[f] = Free
    BY <2>1, LeakInv
  <2>3. fdt[new_sock] # Free
    BY <1>1, <1>2, Descriptors
  <2> QED
    BY <2>1, <2>2, <2>3
<1>7. /\ fdt' \in [Fd -> AnyFd] /\ fdt'[f] = r
      /\ \A g \in Fd : fdt[g] # Free => fdt'[g] = fdt[g]
      /\ \A g \in Fd, e \in End : g # f => (fdt'[g] = e <=> fdt[g] = e)
  BY <1>2, <1>4, <1>6, LeakInv DEF AnyFd
<1> DEFINE x1 == [socket |-> new_sock, handler |-> "bridge",
                  context |-> f, deleted |-> FALSE]
           x2 == [socket |-> f, handler |-> "bridge",
                  context |-> new_sock, deleted |-> FALSE]
           L  == Len(Elems)
<1>8. x1 \in FdEntry /\ x2 \in FdEntry
  BY <1>5, <1>6 DEF FdEntry, SOCKET_ENTRY
<1>9. /\ sockets' = AtRear(Elems') /\ Elems' \in Seq(FdEntry)
      /\ L \in Nat /\ Len(Elems') = L + 2
      /\ \A i \in 1..L : Elems'[i] = Elems[i]
      /\ Elems'[L + 1] = x1 /\ Elems'[L + 2] = x2
  BY <1>4, <1>5, <1>6, ConnectedList
<1> HIDE DEF L
<1>10. TypeOK'
  <2>1. sockets' \in [elems : Seq(FdEntry), curr : Nat]
    BY <1>9 DEF AtRear
  <2>2. peer' \in [End -> {"none", "open", "fin", "gone"}]
    BY <1>5 DEF IInv, TypeOK
  <2> QED
    BY <1>5, <1>7, <2>1, <2>2 DEF IInv, TypeOK, FdEntry, AnyFd
\* The new entries go last, so the old ones keep their places.
<1>11. \A i \in 1..(L + 2) :
         \/ i \in 1..L /\ Elems'[i] = Elems[i]
         \/ i = L + 1 /\ Elems'[i] = x1
         \/ i = L + 2 /\ Elems'[i] = x2
  BY <1>9
<1>12. fdt'[new_sock] = i0 /\ fdt'[f] = r
  BY <1>1, <1>2, <1>5, <1>6, <1>7, Descriptors
<1>13. BridgesWired'
  <2> SUFFICES ASSUME NEW i \in 2..(L + 2) PROVE BridgeWired(Elems[i])'
    BY <1>9 DEF BridgesWired
  <2>1. CASE i \in 1..L /\ Elems'[i] = Elems[i]
    <3>1. i \in 2..Len(Elems)
      BY <1>9, <2>1 DEF L
    <3>2. BridgeWired(Elems[i]) /\ ~Elems[i].deleted /\ Elems[i].socket \in Fd
      BY <1>5, <3>1, ListTypes DEF IInv, BridgesWired, NoneMarked, FdEntry, SOCKET_ENTRY
    <3>3. /\ fdt[Elems[i].socket] \in End
          /\ fdt[Elems[i].context] = Mate(fdt[Elems[i].socket])
          /\ Elems[i].context \in Fd
      BY <3>2 DEF BridgeWired
    <3>4. fdt[Elems[i].socket] # Free /\ fdt[Elems[i].context] # Free
      BY <3>3, Descriptors, Mates
    <3>5. /\ fdt'[Elems[i].socket] = fdt[Elems[i].socket]
          /\ fdt'[Elems[i].context] = fdt[Elems[i].context]
      BY <1>7, <3>2, <3>3, <3>4
    <3> QED
      BY <2>1, <3>2, <3>3, <3>5 DEF BridgeWired
  <2>2. CASE i = L + 1 /\ Elems'[i] = x1
    BY <1>2, <1>6, <1>12, <2>2 DEF BridgeWired
  <2>3. CASE i = L + 2 /\ Elems'[i] = x2
    BY <1>2, <1>5, <1>12, <2>3 DEF BridgeWired
  <2> QED
    BY <1>9, <1>11, <2>1, <2>2, <2>3
<1>14. SocketsDistinct'
  <2>1. \A i \in 1..L : Elems[i].socket # f /\ Elems[i].socket # new_sock
    BY <1>5, <1>6, FreshNotListed DEF L
  <2>2. \A i, j \in 1..L : Elems[i].socket = Elems[j].socket => i = j
    BY DEF IInv, SocketsDistinct, L
  <2>3. x1.socket = new_sock /\ x2.socket = f
    OBVIOUS
  <2> HIDE DEF x1, x2
  <2>4. \A i, j \in 1..(L + 2) : Elems'[i].socket = Elems'[j].socket => i = j
    BY <1>6, <1>9, <1>11, <2>1, <2>2, <2>3
  <2> QED
    BY <1>9, <2>4 DEF SocketsDistinct
<1>15. CurrAtRear'
  BY <1>9 DEF CurrAtRear, AtRear
<1>16. ListenerFirst'
  <2>1. L >= 1 /\ Elems[1].socket = ListenFd /\ Elems[1].handler = "listen"
        /\ ~Elems[1].deleted /\ fdt[ListenFd] = Listener
    BY DEF IInv, ListenerFirst, L
  <2>2. Elems'[1] = Elems[1] /\ fdt'[ListenFd] = Listener
    BY <1>7, <1>9, <2>1, Descriptors
  <2> QED
    BY <1>9, <2>1, <2>2 DEF ListenerFirst
<1>17. OneFdPerEnd'
  <2>1. \A g \in Fd : fdt[g] # r
    BY <1>1 DEF RemoteUnseen, Held
  <2>2. \A g, h \in Fd : fdt[g] \in End /\ fdt[g] = fdt[h] => g = h
    BY DEF IInv, OneFdPerEnd
  <2> QED
    BY <1>2, <1>6, <1>7, <2>1, <2>2 DEF OneFdPerEnd
<1>18. \A e \in End : Held(e)' <=> Held(e) \/ e = r
  BY <1>6, <1>7, Descriptors DEF Held
<1>19. QueueDistinct'
  BY <1>5 DEF IInv, QueueDistinct
<1>20. Lifecycle'
  <2> SUFFICES ASSUME NEW d \in Conns
               PROVE  /\ peer'[<<d, "in">>] = "none" =>
                           ClientUnseen(d)' /\ RemoteUnseen(d)'
                      /\ Queued(d)' => ~Held(<<d, "in">>)' /\ RemoteUnseen(d)'
    BY DEF Lifecycle
  <2>1. /\ <<d, "in">> \in End /\ <<d, "out">> \in End
        /\ <<d, "in">> # r /\ (<<d, "out">> = r => d = c)
        /\ peer'[<<d, "in">>] = peer[<<d, "in">>]
        /\ d # c => peer'[<<d, "out">>] = peer[<<d, "out">>]
        /\ Queued(d)' <=> Queued(d)
        /\ Held(<<d, "in">>)' <=> Held(<<d, "in">>)
        /\ d # c => (Held(<<d, "out">>)' <=> Held(<<d, "out">>))
    BY <1>5, <1>18 DEF End, IInv, TypeOK, Queued
  <2>2. CASE d = c
    <3>1. Held(<<d, "in">>)
      BY <1>1, <1>5, <2>2 DEF Held
    <3> QED
      BY <2>1, <3>1 DEF IInv, Lifecycle, ClientUnseen
  <2>3. CASE d # c
    BY <2>1, <2>3 DEF IInv, Lifecycle, ClientUnseen, RemoteUnseen
  <2> QED
    BY <2>2, <2>3
<1>21. Connecting' /\ MarksRemoved' /\ Writing'
  BY <1>5 DEF Connecting, MarksRemoved, Writing
<1> QED
  BY <1>10, <1>13, <1>14, <1>15, <1>16, <1>17, <1>19, <1>20, <1>21 DEF IInv

-----------------------------------------------------------------------------
(* The theorems.                                                             *)

LEMMA Inductive == IInv /\ [Next]_vars => IInv'
<1> SUFFICES ASSUME IInv, [Next]_vars PROVE IInv'
  OBVIOUS
<1>1. CASE \E c \in Conns : ClientConnect(c)
  BY <1>1, ConnectInv
<1>2. CASE \E e \in End : PeerSend(e) \/ PeerShutdown(e) \/ PeerClose(e) \/ PeerRead(e)
  BY <1>2, PeerInv
<1>3. CASE LoopStep
  BY <1>3, LoopInv
<1>4. CASE RemoveMarked
  BY <1>4, RemoveInv
<1>5. CASE SocketAccept
  BY <1>5, AcceptInv
<1>6. CASE TryConnectionOk
  BY <1>6, ConnectedInv
<1>7. CASE TryConnectionRefused
  BY <1>7, RefusedInv
<1>8. CASE BridgedEof
  BY <1>8, EofInv
<1> QED
  BY <1>1, <1>2, <1>3, <1>4, <1>5, <1>6, <1>7, <1>8
     DEF Next, Process, Peers, LoopStep

\* Every reachable state of the event loop satisfies the inductive invariant.
THEOREM Invariance == Spec => []IInv
<1>1. Init => IInv
  BY InitInv
<1>2. IInv /\ [Next]_vars => IInv'
  BY Inductive
<1> QED
  BY <1>1, <1>2, PTL DEF Spec

\* The event loop's variables keep their types: in particular every
\* descriptor in the list, in the mask and in a context is one the process
\* may hold.
THEOREM TypeCorrect == Spec => []TypeOK
<1>1. IInv => TypeOK
  BY DEF IInv
<1> QED
  BY <1>1, Invariance, PTL

\* However many tunnels come and go, and whatever descriptors they get, every
\* entry not marked watches an open socket and its context is the descriptor
\* of the other socket of the same connection: select never sees a closed
\* descriptor, and no tunnel writes into or closes another's.
THEOREM AlwaysWired == Spec => []EntriesWired
<1>1. IInv => EntriesWired
  <2> SUFFICES ASSUME IInv, NEW i \in 1..Len(Elems), ~Elems[i].deleted
               PROVE  \/ Elems[i].handler = "listen" /\ fdt[Elems[i].socket] = Listener
                      \/ /\ Elems[i].handler = "bridge" /\ Elems[i].context \in Fd
                         /\ fdt[Elems[i].socket] \in End
                         /\ fdt[Elems[i].context] = Mate(fdt[Elems[i].socket])
    BY ListTypes DEF EntriesWired, Elems, IInv
  <2>1. CASE i = 1
    BY <2>1 DEF IInv, ListenerFirst
  <2>2. CASE i # 1
    <3>1. i \in 2..Len(Elems)
      BY <2>2, ListTypes DEF IInv
    <3> QED
      BY <3>1 DEF IInv, BridgesWired, BridgeWired
  <2> QED
    BY <2>1, <2>2
<1> QED
  BY <1>1, Invariance, PTL
=============================================================================
