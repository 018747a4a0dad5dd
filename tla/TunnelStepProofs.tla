-------------------------- MODULE TunnelStepProofs --------------------------
(***************************************************************************)
(* What a step of the tunnel's event loop may never do to the list of      *)
(* registrations, what holds of the list between passes, and that the mask *)
(* of a pass stays right for the handlers that are still to be called.     *)
(***************************************************************************)
EXTENDS TunnelProofs

\* An entry that no marked entry precedes keeps its place.
Keeps ==
  \A i \in 1..Len(Elems) :
    (\A j \in 1..i : ~Elems[j].deleted) =>
      /\ i \in 1..Len(Elems')
      /\ Elems'[i].socket = Elems[i].socket
      /\ Elems'[i].context = Elems[i].context

LEMMA KeepsFrame ==
  ASSUME IInv, UNCHANGED sockets
  PROVE  Keeps
BY DEF Keeps, Elems

\* The steps that change the list.
ListStep == RemoveMarked \/ SocketAccept \/ TryConnectionOk \/ BridgedEof

LEMMA OtherSteps ==
  ASSUME [Next]_vars, ~ListStep
  PROVE  /\ UNCHANGED sockets
         /\ pc = "cleanup" /\ HasMarked(sockets) => pc' = "cleanup"
BY DEF ListStep, Next, Process, Peers, vars, local, kernel, remote, Stop,
       ClientConnect, PeerSend, PeerShutdown, PeerClose, PeerRead,
       EnterSelect, SelectReturns, SelectFails, SkipEntry, PassDone,
       AcceptFails, TryConnectionRefused, TryConnectionExits, BridgedRead,
       StaleHandler, BridgedWrite, BridgedWriteLoses, BridgedWriteFails,
       Fired, FiredBridge, Visited, ReturnToLoop, Continue

\* A new tunnel's descriptor and what becomes of the list.
LEMMA Connected ==
  ASSUME IInv, TryConnectionOk
  PROVE  \E f \in Fd :
           /\ sockets' = AtRear(Elems') /\ Elems' \in Seq(FdEntry)
           /\ Len(Elems) \in Nat /\ Len(Elems') = Len(Elems) + 2
           /\ \A i \in 1..Len(Elems) : Elems'[i] = Elems[i]
           /\ Elems'[Len(Elems) + 1] = [socket |-> new_sock, handler |-> "bridge",
                                        context |-> f, deleted |-> FALSE]
           /\ Elems'[Len(Elems) + 2] = [socket |-> f, handler |-> "bridge",
                                        context |-> new_sock, deleted |-> FALSE]
<1>1. new_sock \in Fd
  BY DEF TryConnectionOk, IInv, Connecting
<1>2. PICK t \in VMCISock_GetAFValue(fdt) : \E f \in LowestFree(t) :
        sockets' = socket_list_insert(
                     socket_list_insert(sockets, new_sock, "bridge", f),
                     f, "bridge", new_sock)
  BY DEF TryConnectionOk
<1>3. PICK f \in LowestFree(t) :
        sockets' = socket_list_insert(
                     socket_list_insert(sockets, new_sock, "bridge", f),
                     f, "bridge", new_sock)
  BY <1>2
<1>4. f \in Fd
  BY <1>3 DEF LowestFree
<1> QED
  BY <1>1, <1>3, <1>4, ConnectedList

LEMMA StepKeeps ==
  ASSUME IInv, [Next]_vars
  PROVE  Keeps
<1>1. CASE RemoveMarked
  <2>1. PICK k \in 1..Len(Elems) : Elems[k].deleted
    BY <1>1, ListTypes DEF RemoveMarked, HasMarked, Elems, IInv
  <2>2. SUFFICES ASSUME NEW i \in 1..Len(Elems), \A j \in 1..i : ~Elems[j].deleted
                 PROVE  /\ i \in 1..Len(Elems')
                        /\ Elems'[i] = Elems[i]
    BY DEF Keeps
  <2>3. /\ Len(Elems) \in Nat /\ Len(Elems') = Len(Elems) - 1
        /\ \A j \in 1..(Len(Elems) - 1) : Elems'[j] = Elems[j]
    BY <1>1, RemoveList
  <2>4. i < k
    BY <2>1, <2>2, <2>3
  <2> QED
    BY <2>3, <2>4
<1>2. CASE SocketAccept
  BY <1>2, KeepsFrame DEF SocketAccept
<1>3. CASE TryConnectionOk
  <2>1. /\ Len(Elems) \in Nat /\ Len(Elems') = Len(Elems) + 2
        /\ \A i \in 1..Len(Elems) : Elems'[i] = Elems[i]
    BY <1>3, Connected
  <2> QED
    BY <2>1 DEF Keeps
<1>4. CASE BridgedEof
  BY <1>4, EofList DEF Keeps
<1> QED
  BY <1>1, <1>2, <1>3, <1>4, OtherSteps, KeepsFrame DEF ListStep

\* However the removal loop proceeds, the listening socket and the tunnels
\* accepted before the first one that ended stay registered at their places
\* (socket_list_select_and_handle_events, socket_list_delete).
THEOREM EarlierKept == Spec => EarlierTunnelsKept
<1>1. IInv /\ IInv' /\ [Next]_vars =>
        [\A i \in DOMAIN sockets.elems :
           (\A j \in 1..i : ~sockets.elems[j].deleted) =>
             /\ i \in DOMAIN sockets'.elems
             /\ sockets'.elems[i].socket = sockets.elems[i].socket
             /\ sockets'.elems[i].context = sockets.elems[i].context]_vars
  <2> SUFFICES ASSUME IInv, IInv', [Next]_vars
               PROVE  \A i \in DOMAIN sockets.elems :
                        (\A j \in 1..i : ~sockets.elems[j].deleted) =>
                          /\ i \in DOMAIN sockets'.elems
                          /\ sockets'.elems[i].socket = sockets.elems[i].socket
                          /\ sockets'.elems[i].context = sockets.elems[i].context
    OBVIOUS
  <2>1. Keeps
    BY StepKeeps
  <2>2. /\ DOMAIN sockets.elems = 1..Len(Elems)
        /\ DOMAIN sockets'.elems = 1..Len(Elems')
    <3>1. TypeOK /\ TypeOK'
      BY DEF IInv
    <3>2. DOMAIN Elems = 1..Len(Elems)
      BY <3>1, ListTypes
    <3>3. (DOMAIN Elems = 1..Len(Elems))'
      BY <3>1, ListTypes, PTL
    <3> QED
      BY <3>2, <3>3 DEF Elems
  <2> QED
    BY <2>1, <2>2 DEF Keeps, Elems
<1> QED
  BY <1>1, Invariance, PTL DEF Spec, EarlierTunnelsKept

-----------------------------------------------------------------------------
(* Tunnels are whole between passes. *)

LEMMA PairedInit == Init => Paired
<1> SUFFICES ASSUME Init PROVE Paired
  OBVIOUS
<1>1. Len(Elems) = 1
  BY DEF Init, Elems, socket_list_init, socket_list_insert, list_init, list_insert_after
<1> QED
  BY <1>1 DEF Paired

\* Outside the removal loop no pair is broken.
LEMMA OddOutside ==
  ASSUME IInv, Paired, pc # "cleanup" \/ ~HasMarked(sockets)
  PROVE  Len(Elems) \in Nat /\ Len(Elems) % 2 # 0
BY ListTypes DEF Paired, HasMarked, Elems, IInv

LEMMA PairedFrame ==
  ASSUME IInv, Paired, UNCHANGED sockets,
         pc = "cleanup" /\ HasMarked(sockets) => pc' = "cleanup"
  PROVE  Paired'
<1>1. Elems' = Elems
  BY DEF Elems
<1>2. (\E i \in 1..Len(Elems) : Elems[i].deleted) => HasMarked(sockets)
  BY ListTypes DEF HasMarked, Elems, IInv
<1> QED
  BY <1>1, <1>2 DEF Paired, PairAt

LEMMA PairedRemove == ASSUME IInv, Paired, RemoveMarked PROVE Paired'
<1>1. /\ Len(Elems) \in Nat /\ Len(Elems) > 1
      /\ Len(Elems') = Len(Elems) - 1
      /\ \A i \in 1..(Len(Elems) - 1) : Elems'[i] = Elems[i]
  BY RemoveList
<1>2. PICK k \in 1..Len(Elems) : Elems[k].deleted
  BY ListTypes DEF RemoveMarked, HasMarked, Elems, IInv
<1>3. \A i \in 2..(Len(Elems') - 1) : i % 2 = 0 => PairAt(i)'
  BY <1>1 DEF Paired, PairAt
<1>4. ASSUME Len(Elems') % 2 = 0
      PROVE  pc' = "cleanup" /\ \E i \in 1..Len(Elems') : Elems'[i].deleted
  <2> DEFINE n == Len(Elems) - 1
  <2>1. n \in 2..(Len(Elems) - 1) /\ n % 2 = 0
    BY <1>1, <1>4
  <2>2. Elems[n + 1].deleted <=> Elems[n].deleted
    BY <2>1 DEF Paired, PairAt
  <2>3. \E i \in 1..n : Elems[i].deleted
    BY <1>1, <1>2, <2>1, <2>2
  <2> QED
    BY <1>1, <2>3 DEF RemoveMarked
<1> QED
  BY <1>3, <1>4 DEF Paired

LEMMA PairedConnected == ASSUME IInv, Paired, TryConnectionOk PROVE Paired'
<1>1. PICK f \in Fd :
        /\ Len(Elems) \in Nat /\ Len(Elems') = Len(Elems) + 2
        /\ \A i \in 1..Len(Elems) : Elems'[i] = Elems[i]
        /\ Elems'[Len(Elems) + 1] = [socket |-> new_sock, handler |-> "bridge",
                                     context |-> f, deleted |-> FALSE]
        /\ Elems'[Len(Elems) + 2] = [socket |-> f, handler |-> "bridge",
                                     context |-> new_sock, deleted |-> FALSE]
  BY Connected
<1>2. Len(Elems) % 2 # 0
  BY OddOutside DEF TryConnectionOk
<1>3. ASSUME NEW i \in 2..(Len(Elems') - 1), i % 2 = 0
      PROVE  PairAt(i)'
  <2>1. CASE i < Len(Elems)
    <3>1. i \in 2..(Len(Elems) - 1) /\ i \in 1..Len(Elems) /\ i + 1 \in 1..Len(Elems)
      BY <1>1, <1>3, <2>1
    <3>2. PairAt(i)
      BY <1>3, <3>1 DEF Paired
    <3>3. Elems'[i] = Elems[i] /\ Elems'[i + 1] = Elems[i + 1]
      BY <1>1, <3>1
    <3> QED
      BY <3>2, <3>3 DEF PairAt
  <2>2. CASE i = Len(Elems) + 1
    BY <1>1, <2>2 DEF PairAt
  <2> QED
    BY <1>1, <1>2, <1>3, <2>1, <2>2
<1>4. Len(Elems') % 2 # 0
  BY <1>1, <1>2
<1> QED
  BY <1>3, <1>4 DEF Paired

LEMMA PairedEof == ASSUME IInv, Paired, BridgedEof PROVE Paired'
<1> DEFINE s == Entry.socket
           o == Entry.context
<1>1. /\ Len(Elems') = Len(Elems)
      /\ \A i \in 1..Len(Elems) :
           /\ Elems'[i].socket = Elems[i].socket
           /\ Elems'[i].context = Elems[i].context
           /\ Elems'[i].deleted <=> (Elems[i].deleted \/ Elems[i].socket \in {s, o})
  BY EofList
<1>2. pos \in 2..Len(Elems) /\ s = Elems[pos].socket /\ o = Elems[pos].context
  BY FiredEnd DEF BridgedEof, Entry, Elems
<1>3. Len(Elems) \in Nat /\ Len(Elems) % 2 # 0
  BY OddOutside DEF BridgedEof, FiredBridge, Fired, Visited
<1>4. \A i, j \in 1..Len(Elems) : Elems[i].socket = Elems[j].socket => i = j
  BY DEF IInv, SocketsDistinct
\* The entry of the other direction is the neighbour.
<1>5. ASSUME NEW i \in 2..(Len(Elems) - 1), i % 2 = 0
      PROVE  Elems[i + 1].socket \in {s, o} <=> Elems[i].socket \in {s, o}
  <2> HIDE DEF s, o
  <2>1. /\ Elems[i + 1].socket = Elems[i].context
        /\ Elems[i + 1].context = Elems[i].socket
    BY <1>5 DEF Paired, PairAt
  <2>2. i \in 1..Len(Elems) /\ i + 1 \in 1..Len(Elems)
    BY <1>3
  <2>3. CASE pos \in {i, i + 1}
    BY <1>2, <2>1, <2>3
  <2>4. CASE pos \notin {i, i + 1}
    <3>1. PICK p \in 1..Len(Elems) : p \notin {i, i + 1} /\ Elems[p].socket = o
      <4>1. CASE pos % 2 = 0
        <5>1. pos \in 2..(Len(Elems) - 1)
          BY <1>2, <1>3, <4>1
        <5>2. Elems[pos + 1].socket = Elems[pos].context
          BY <4>1, <5>1 DEF Paired, PairAt
        <5>3. pos + 1 \in 1..Len(Elems) /\ pos + 1 \notin {i, i + 1}
          BY <1>3, <1>5, <2>4, <4>1, <5>1
        <5> QED
          BY <1>2, <5>2, <5>3
      <4>2. CASE pos % 2 # 0
        <5> DEFINE q == pos - 1
        <5>1. q \in 2..(Len(Elems) - 1) /\ q % 2 = 0 /\ q + 1 = pos
          BY <1>2, <1>3, <4>2
        <5>2. q \in 1..Len(Elems) /\ q \notin {i, i + 1}
          BY <1>3, <1>5, <2>4, <4>2, <5>1
        <5> HIDE DEF q
        <5>3. Elems[q + 1].context = Elems[q].socket
          BY <5>1 DEF Paired, PairAt
        <5> QED
          BY <1>2, <5>1, <5>2, <5>3
      <4> QED
        BY <4>1, <4>2
    <3>2. Elems[i].socket \notin {s, o} /\ Elems[i + 1].socket \notin {s, o}
      BY <1>2, <1>4, <2>2, <2>4, <3>1
    <3> QED
      BY <3>2
  <2> QED
    BY <2>3, <2>4
<1>6. \A i \in 2..(Len(Elems') - 1) : i % 2 = 0 => PairAt(i)'
  <2> HIDE DEF s, o
  <2>1. SUFFICES ASSUME NEW i \in 2..(Len(Elems) - 1), i % 2 = 0
                 PROVE  PairAt(i)'
    BY <1>1
  <2>2. PairAt(i) /\ i \in 1..Len(Elems) /\ i + 1 \in 1..Len(Elems)
    BY <1>3, <2>1 DEF Paired
  <2> QED
    BY <1>1, <1>5, <2>1, <2>2 DEF PairAt
<1> QED
  BY <1>1, <1>3, <1>6 DEF Paired

LEMMA PairedStep == ASSUME IInv, Paired, [Next]_vars PROVE Paired'
<1>1. CASE RemoveMarked
  BY <1>1, PairedRemove
<1>2. CASE SocketAccept
  BY <1>2, PairedFrame DEF SocketAccept, Fired, Visited
<1>3. CASE TryConnectionOk
  BY <1>3, PairedConnected
<1>4. CASE BridgedEof
  BY <1>4, PairedEof
<1> QED
  BY <1>1, <1>2, <1>3, <1>4, OtherSteps, PairedFrame DEF ListStep

\* Whenever select is called, every tunnel is registered in both directions or
\* in none, although the removal loop takes single entries, marked or not, and
\* the two entries of a tunnel are inserted and marked one after the other
\* (bridge_descriptors, socket_list_delete, the removal loop).
THEOREM AlwaysWhole == Spec => []TunnelsWhole
<1>1. IInv /\ Paired => TunnelsWhole
  <2> SUFFICES ASSUME IInv, Paired, pc = "select",
                      NEW i \in 1..Len(Elems), Elems[i].handler = "bridge"
               PROVE  \E j \in 1..Len(Elems) :
                        /\ Elems[j].socket = Elems[i].context
                        /\ Elems[j].context = Elems[i].socket
                        /\ ~Elems[j].deleted
    BY ListTypes DEF TunnelsWhole, Elems, IInv
  <2>1. \A j \in 1..Len(Elems) : ~Elems[j].deleted
    BY DEF IInv, MarksRemoved, NoneMarked
  <2>2. Len(Elems) \in Nat /\ Len(Elems) % 2 # 0
    BY OddOutside
  <2>3. i # 1
    BY DEF IInv, ListenerFirst
  <2>4. CASE i % 2 = 0
    <3>1. i \in 2..(Len(Elems) - 1) /\ i + 1 \in 1..Len(Elems)
      BY <2>2, <2>3, <2>4
    <3>2. PairAt(i)
      BY <2>4, <3>1 DEF Paired
    <3> QED
      BY <2>1, <3>1, <3>2 DEF PairAt
  <2>5. CASE i % 2 # 0
    <3> DEFINE k == i - 1
    <3>1. k \in 2..(Len(Elems) - 1) /\ k % 2 = 0 /\ k + 1 = i /\ k \in 1..Len(Elems)
      BY <2>2, <2>3, <2>5
    <3> HIDE DEF k
    <3>2. PairAt(k)
      BY <3>1 DEF Paired
    <3> QED
      BY <2>1, <3>1, <3>2 DEF PairAt
  <2> QED
    BY <2>4, <2>5
<1>2. Init => Paired
  BY PairedInit
<1>3. IInv /\ Paired /\ [Next]_vars => Paired'
  BY PairedStep
<1> QED
  BY <1>1, <1>2, <1>3, Invariance, PTL DEF Spec

-----------------------------------------------------------------------------
(***************************************************************************)
(* The handlers of one pass do not invalidate the mask for the entries     *)
(* after them, and no half of a tunnel is left between passes.             *)
(***************************************************************************)

\* HandlersNeverBlock over the positions of the list.
MaskRight ==
  \A i \in 1..Len(Elems) :
    Ahead(i) /\ Elems[i].socket \in socket_mask /\ ~Elems[i].deleted =>
      Readable(Elems[i].socket)

LEMMA MaskRightStates == IInv => (HandlersNeverBlock <=> MaskRight)
BY ListTypes DEF IInv, HandlersNeverBlock, MaskRight, Elems

-----------------------------------------------------------------------------
(* The mask names listed descriptors until the listening socket is passed. *)

LEMMA MaskListedStep == ASSUME IInv, MaskListed, [Next]_vars PROVE MaskListed'
<1> USE DEF MaskListed
<1>1. CASE EnterSelect
  BY <1>1, ListTypes DEF EnterSelect, socket_list2fd_set, Elems, IInv
<1>2. CASE SelectReturns
  BY <1>2 DEF SelectReturns, Ready, Elems
<1>3. CASE SocketAccept
  BY <1>3, ListTypes DEF SocketAccept, Fired, Visited, IInv, BridgesWired,
                         BridgeWired, ListenerFirst, Entry, Elems
<1>4. CASE RemoveMarked
  BY <1>4 DEF RemoveMarked
<1>5. CASE TryConnectionOk \/ TryConnectionRefused
  BY <1>5 DEF TryConnectionOk, TryConnectionRefused, Continue, IInv, Connecting
<1>6. CASE SelectFails \/ PassDone
  BY <1>6 DEF SelectFails, PassDone, ReturnToLoop
<1>7. CASE SkipEntry \/ BridgedEof \/ BridgedWrite \/ BridgedWriteLoses \/ StaleHandler
  BY <1>7 DEF SkipEntry, BridgedEof, BridgedWrite, BridgedWriteLoses,
              StaleHandler, Stop, Continue, Fired, FiredBridge, Visited, IInv, TypeOK
<1>8. CASE AcceptFails \/ TryConnectionExits \/ BridgedWriteFails \/ BridgedRead
  BY <1>8 DEF AcceptFails, TryConnectionExits, BridgedWriteFails, BridgedRead, Stop
<1>9. CASE Peers \/ UNCHANGED vars
  <2>1. UNCHANGED local
    BY <1>9 DEF Peers, ClientConnect, PeerSend, PeerShutdown, PeerClose, PeerRead, vars
  <2> QED
    BY <2>1 DEF local, Elems
<1> QED
  BY <1>1, <1>2, <1>3, <1>4, <1>5, <1>6, <1>7, <1>8, <1>9 DEF Next, Process

-----------------------------------------------------------------------------
(* What is readable stays readable until its own handler runs. *)

\* Descriptors whose socket a step leaves readable.
Undisturbed(f) ==
  /\ fdt'[f] = fdt[f]
  /\ fdt[f] = Listener /\ backlog # <<>> => backlog' # <<>>
  /\ fdt[f] \in End =>
       /\ rx[fdt[f]] # <<>> => rx'[fdt[f]] # <<>>
       /\ peer[fdt[f]] \in {"fin", "gone"} => peer'[fdt[f]] \in {"fin", "gone"}

LEMMA StaysReadable ==
  \A f \in Fd : Readable(f) /\ Undisturbed(f) => Readable(f)'
BY DEF Readable, Undisturbed

\* A step that keeps the list's unmarked entries ahead and disturbs none of them.
LEMMA AheadKept ==
  ASSUME IInv, MaskRight,
         Len(Elems') = Len(Elems),
         socket_mask' = socket_mask,
         \A i \in 1..Len(Elems) : Ahead(i)' /\ ~Elems'[i].deleted =>
           /\ Ahead(i) /\ ~Elems[i].deleted
           /\ Elems'[i].socket = Elems[i].socket
           /\ Undisturbed(Elems[i].socket)
  PROVE  MaskRight'
<1> SUFFICES ASSUME NEW i \in 1..Len(Elems), (Ahead(i) /\ ~Elems[i].deleted)',
                    (Elems[i].socket \in socket_mask)'
             PROVE  Readable(Elems[i].socket)'
  BY DEF MaskRight
<1>1. PICK g \in Fd : g = Elems[i].socket
  BY ListTypes DEF IInv, FdEntry, SOCKET_ENTRY
<1>2. /\ Ahead(i) /\ ~Elems[i].deleted
      /\ Elems'[i].socket = g /\ Undisturbed(g)
  BY <1>1
<1>3. Readable(g)
  BY <1>1, <1>2 DEF MaskRight
<1>4. Readable(g)'
  BY <1>2, <1>3, StaysReadable
<1> QED
  BY <1>2, <1>4 DEF Readable

LEMMA PeersUndisturbing ==
  ASSUME IInv, Peers \/ UNCHANGED vars
  PROVE  \A f \in Fd : Undisturbed(f)
<1> SUFFICES ASSUME NEW f \in Fd PROVE Undisturbed(f)
  OBVIOUS
<1>1. CASE UNCHANGED vars
  BY <1>1 DEF vars, kernel, remote, Undisturbed
<1>2. ASSUME NEW c \in Conns, ClientConnect(c) PROVE Undisturbed(f)
  <2>1. Append(backlog, c) # <<>>
    <3>1. backlog \in Seq(Conns)
      BY DEF IInv, TypeOK
    <3>2. Len(Append(backlog, c)) = Len(backlog) + 1 /\ Len(backlog) \in Nat
      BY <3>1, AppendProperties, LenProperties
    <3> QED
      BY <3>2, EmptySeq
  <2> QED
    BY <1>2, <2>1 DEF ClientConnect, Undisturbed, IInv, TypeOK, End
<1>3. ASSUME NEW e \in End, PeerSend(e) PROVE Undisturbed(f)
  <2>1. Append(rx[e], <<e, sent[e] + 1>>) # <<>>
    <3>1. rx[e] \in Seq(Item) /\ <<e, sent[e] + 1>> \in End \X (1..MaxSend)
      BY <1>3, NumbersAssumption DEF IInv, TypeOK, PeerSend
    <3>2. Len(Append(rx[e], <<e, sent[e] + 1>>)) = Len(rx[e]) + 1 /\ Len(rx[e]) \in Nat
      BY <3>1, AppendProperties, LenProperties DEF Item
    <3> QED
      BY <3>2, EmptySeq
  <2> QED
    BY <1>3, <2>1 DEF PeerSend, Undisturbed, IInv, TypeOK
<1>4. ASSUME NEW e \in End, PeerShutdown(e) \/ PeerClose(e) \/ PeerRead(e)
      PROVE Undisturbed(f)
  BY <1>4 DEF PeerShutdown, PeerClose, PeerRead, kernel, Undisturbed, IInv, TypeOK
<1> QED
  BY <1>1, <1>2, <1>3, <1>4 DEF Peers

\* The end of an entry is not the end of another entry.
LEMMA OtherEntry ==
  ASSUME IInv, NEW i \in 1..Len(Elems), NEW j \in 1..Len(Elems), i # j,
         ~Elems[i].deleted, ~Elems[j].deleted
  PROVE  /\ Elems[i].socket # Elems[j].socket
         /\ fdt[Elems[i].socket] # fdt[Elems[j].socket]
<1>1. Elems[i].socket \in Fd /\ Elems[j].socket \in Fd
  BY ListTypes DEF IInv, FdEntry, SOCKET_ENTRY
<1>2. Elems[i].socket # Elems[j].socket
  BY DEF IInv, SocketsDistinct
<1>3. \A k \in 1..Len(Elems) : ~Elems[k].deleted =>
        IF k = 1 THEN fdt[Elems[k].socket] = Listener ELSE fdt[Elems[k].socket] \in End
  BY ListTypes DEF IInv, ListenerFirst, BridgesWired, BridgeWired
<1> QED
  BY <1>1, <1>2, <1>3, Descriptors DEF IInv, OneFdPerEnd

LEMMA ReadyRead == ASSUME IInv, MaskRight, BridgedRead PROVE MaskRight'
<1>1. pos \in 2..Len(Elems) /\ ~Elems[pos].deleted /\ SocketIn = fdt[Elems[pos].socket]
  BY FiredEnd DEF BridgedRead, SocketIn, Entry, Elems
<1>2. /\ pc = "handle" /\ pc' = "write" /\ pos' = pos /\ UNCHANGED <<sockets, socket_mask, fdt, backlog, peer>>
      /\ \A e \in End : e # SocketIn => rx'[e] = rx[e]
  BY DEF BridgedRead, FiredBridge, Fired, Visited, remote, IInv, TypeOK
<1>3. ASSUME NEW i \in 1..Len(Elems), Ahead(i)', ~Elems'[i].deleted
      PROVE  /\ Ahead(i) /\ ~Elems[i].deleted
             /\ Elems'[i].socket = Elems[i].socket
             /\ Undisturbed(Elems[i].socket)
  <2>1. Ahead(i) /\ ~Elems[i].deleted /\ i # pos
    BY <1>2, <1>3 DEF Ahead, Elems, IInv, TypeOK
  <2>2. fdt[Elems[i].socket] # SocketIn
    BY <1>1, <2>1, OtherEntry
  <2> QED
    BY <1>2, <2>1, <2>2 DEF Undisturbed, Elems
<1> QED
  BY <1>2, <1>3, AheadKept DEF Elems

LEMMA ReadyEof == ASSUME IInv, MaskRight, BridgedEof PROVE MaskRight'
<1> DEFINE s == Entry.socket
           o == Entry.context
<1>1. /\ Len(Elems') = Len(Elems)
      /\ \A i \in 1..Len(Elems) :
           /\ Elems'[i].socket = Elems[i].socket
           /\ Elems'[i].deleted <=> (Elems[i].deleted \/ Elems[i].socket \in {s, o})
  BY EofList
<1>2. /\ s \in Fd /\ o \in Fd /\ fdt[s] \in End /\ fdt[o] \in End
  BY FiredEnd, Mates DEF BridgedEof, SocketIn, SocketOut
<1>3. /\ pc = "handle" /\ pc' = "handle" /\ pos' = pos + 1
      /\ UNCHANGED <<socket_mask, backlog, peer>>
      /\ fdt' = Closed(fdt, {s, o}) /\ rx' = Dropped({s, o})
  BY DEF BridgedEof, FiredBridge, Fired, Visited, Continue, remote
<1> HIDE DEF s, o
<1>4. ASSUME NEW i \in 1..Len(Elems), Ahead(i)', ~Elems'[i].deleted
      PROVE  /\ Ahead(i) /\ ~Elems[i].deleted
             /\ Elems'[i].socket = Elems[i].socket
             /\ Undisturbed(Elems[i].socket)
  <2>1. Ahead(i) /\ ~Elems[i].deleted /\ Elems[i].socket \notin {s, o}
    BY <1>1, <1>3, <1>4 DEF Ahead, IInv, TypeOK
  <2>2. Elems[i].socket \in Fd
    BY ListTypes DEF IInv, FdEntry, SOCKET_ENTRY
  <2>3. fdt[Elems[i].socket] \in End =>
          fdt[s] # fdt[Elems[i].socket] /\ fdt[o] # fdt[Elems[i].socket]
    BY <1>2, <2>1, <2>2 DEF IInv, OneFdPerEnd
  <2> QED
    BY <1>1, <1>3, <2>1, <2>2, <2>3 DEF Undisturbed, Closed, Dropped
<1> QED
  BY <1>1, <1>3, <1>4, AheadKept

\* The listening socket's handler allocates free descriptors, so it leaves the
\* tunnels' alone.
LEMMA ReadyAccept == ASSUME IInv, MaskRight, SocketAccept PROVE MaskRight'
<1>1. /\ pc = "handle" /\ pc' = "connect" /\ pos' = pos
      /\ UNCHANGED <<sockets, socket_mask, rx, peer>>
      /\ Entry.handler = "listen" /\ pos \in 1..Len(Elems)
  BY ListTypes DEF SocketAccept, Fired, Visited, remote, IInv, Elems
<1>2. pos = 1
  BY <1>1 DEF IInv, BridgesWired, BridgeWired, Entry, Elems
<1>3. \A f \in Fd : fdt[f] # Free => fdt'[f] = fdt[f]
  BY DEF SocketAccept, LowestFree, IInv, TypeOK
<1>4. ASSUME NEW i \in 1..Len(Elems), Ahead(i)', ~Elems'[i].deleted
      PROVE  /\ Ahead(i) /\ ~Elems[i].deleted
             /\ Elems'[i].socket = Elems[i].socket
             /\ Undisturbed(Elems[i].socket)
  <2>1. Ahead(i) /\ ~Elems[i].deleted /\ i \in 2..Len(Elems)
    BY <1>1, <1>2, <1>4 DEF Ahead, Elems, IInv, TypeOK
  <2>2. fdt[Elems[i].socket] \in End /\ Elems[i].socket \in Fd
    BY <2>1, ListTypes DEF IInv, BridgesWired, BridgeWired, FdEntry, SOCKET_ENTRY
  <2> QED
    BY <1>1, <1>3, <2>1, <2>2, Descriptors DEF Undisturbed, Elems
<1> QED
  BY <1>1, <1>4, AheadKept DEF Elems

LEMMA ReadyRefused == ASSUME IInv, MaskRight, TryConnectionRefused PROVE MaskRight'
<1>1. /\ pc = "connect" /\ pos = 1 /\ pc' = "handle" /\ pos' = 2
      /\ UNCHANGED <<sockets, socket_mask, backlog, rx, peer>>
      /\ \A f \in Fd : fdt[f] # Free => fdt'[f] = fdt[f]
  BY LeakInv DEF TryConnectionRefused, Continue, IInv, Connecting, remote
<1>2. ASSUME NEW i \in 1..Len(Elems), Ahead(i)', ~Elems'[i].deleted
      PROVE  /\ Ahead(i) /\ ~Elems[i].deleted
             /\ Elems'[i].socket = Elems[i].socket
             /\ Undisturbed(Elems[i].socket)
  <2>1. Ahead(i) /\ ~Elems[i].deleted /\ i \in 2..Len(Elems)
    BY <1>1, <1>2 DEF Ahead, Elems
  <2>2. fdt[Elems[i].socket] \in End /\ Elems[i].socket \in Fd
    BY <2>1, ListTypes DEF IInv, BridgesWired, BridgeWired, FdEntry, SOCKET_ENTRY
  <2> QED
    BY <1>1, <2>1, <2>2, Descriptors DEF Undisturbed, Elems
<1> QED
  BY <1>1, <1>2, AheadKept DEF Elems

\* The new tunnel's descriptors were free or just accepted when the mask was
\* made, so its entries, which the traversal will visit, are not in the mask.
LEMMA ReadyConnected ==
  ASSUME IInv, MaskListed, MaskRight, TryConnectionOk
  PROVE  MaskRight'
<1>1. PICK c \in Conns : fdt[new_sock] = <<c, "in">> /\ RemoteUnseen(c)
  BY DEF TryConnectionOk, IInv, Connecting
<1>2. /\ RemoteEnd = <<c, "out">> /\ RemoteEnd \in End
      /\ \A g \in Fd : fdt[g] # RemoteEnd
  BY <1>1 DEF RemoteEnd, ClientEnd, Mate, End, RemoteUnseen, Held
<1>3. PICK t \in VMCISock_GetAFValue(fdt) : \E f \in LowestFree(t) :
        /\ fdt' = [t EXCEPT ![f] = RemoteEnd]
        /\ sockets' = socket_list_insert(
                        socket_list_insert(sockets, new_sock, "bridge", f),
                        f, "bridge", new_sock)
  BY DEF TryConnectionOk
<1>4. PICK f \in LowestFree(t) :
        /\ fdt' = [t EXCEPT ![f] = RemoteEnd]
        /\ sockets' = socket_list_insert(
                        socket_list_insert(sockets, new_sock, "bridge", f),
                        f, "bridge", new_sock)
  BY <1>3
<1>5. f \in Fd /\ t[f] = Free /\ fdt[f] = Free
  BY <1>4, LeakInv DEF LowestFree
<1>6. /\ pc = "connect" /\ pos = 1 /\ pc' = "handle" /\ pos' = 2 /\ new_sock \in Fd
      /\ socket_mask' = socket_mask /\ rx' = rx /\ backlog' = backlog
      /\ \A e \in End : e # RemoteEnd => peer'[e] = peer[e]
      /\ \A i \in 1..Len(Elems) : Elems[i].socket # new_sock
      /\ NoneMarked
  BY <1>2 DEF TryConnectionOk, Continue, IInv, Connecting, MarksRemoved, TypeOK
<1>7. \A g \in Fd : fdt[g] # Free => fdt'[g] = fdt[g]
  BY <1>4, <1>5, LeakInv
<1>8. /\ Len(Elems) \in Nat /\ Len(Elems') = Len(Elems) + 2
      /\ \A i \in 1..Len(Elems) : Elems'[i] = Elems[i]
      /\ Elems'[Len(Elems) + 1].socket = new_sock
      /\ Elems'[Len(Elems) + 2].socket = f
  <2>1. /\ Len(Elems) \in Nat /\ Len(Elems') = Len(Elems) + 2
        /\ \A i \in 1..Len(Elems) : Elems'[i] = Elems[i]
        /\ Elems'[Len(Elems) + 1] = [socket |-> new_sock, handler |-> "bridge",
                                     context |-> f, deleted |-> FALSE]
        /\ Elems'[Len(Elems) + 2] = [socket |-> f, handler |-> "bridge",
                                     context |-> new_sock, deleted |-> FALSE]
    BY <1>4, <1>5, <1>6, ConnectedList
  <2> QED
    BY <2>1
<1>9. \A i \in 2..Len(Elems) :
        /\ Elems[i].socket \in Fd /\ fdt[Elems[i].socket] \in End
  BY <1>6, ListTypes DEF IInv, BridgesWired, BridgeWired, FdEntry, SOCKET_ENTRY, NoneMarked
<1>10. new_sock \notin socket_mask /\ f \notin socket_mask
  <2>1. \A i \in 1..Len(Elems) : Elems[i].socket # f
    BY <1>5, <1>9, Descriptors DEF IInv, ListenerFirst
  <2> QED
    BY <1>6, <2>1 DEF MaskListed
<1> SUFFICES ASSUME NEW i \in 1..(Len(Elems) + 2), (Ahead(i) /\ ~Elems[i].deleted)',
                    (Elems[i].socket \in socket_mask)'
             PROVE  Readable(Elems[i].socket)'
  BY <1>6, <1>8 DEF MaskRight
<1>11. i \in 2..Len(Elems) /\ Elems'[i] = Elems[i] /\ Ahead(i)
  BY <1>6, <1>8, <1>10 DEF Ahead
<1>12. PICK g \in Fd : g = Elems[i].socket /\ fdt[g] \in End
  BY <1>9, <1>11
<1>13. Readable(g)
  BY <1>6, <1>11, <1>12 DEF MaskRight, NoneMarked
<1>14. Undisturbed(g)
  <2>1. fdt[g] # Listener /\ fdt[g] # RemoteEnd /\ fdt[g] # Free
    BY <1>2, <1>12, Descriptors
  <2> QED
    BY <1>6, <1>7, <1>12, <2>1 DEF Undisturbed
<1>15. Readable(g)'
  BY <1>13, <1>14, StaysReadable
<1> QED
  BY <1>11, <1>12, <1>15 DEF Readable

LEMMA MaskRightStep ==
  ASSUME MaxFd <= SelectWord, IInv, MaskListed, MaskRight, [Next]_vars
  PROVE  MaskRight'
<1>1. CASE Peers \/ UNCHANGED vars
  <2>1. UNCHANGED local
    BY <1>1 DEF Peers, ClientConnect, PeerSend, PeerShutdown, PeerClose, PeerRead, vars
  <2>2. \A i \in 1..Len(Elems) : Elems[i].socket \in Fd
    BY ListTypes DEF IInv, FdEntry, SOCKET_ENTRY
  <2>3. \A f \in Fd : Undisturbed(f)
    BY <1>1, PeersUndisturbing
  <2> QED
    BY <2>1, <2>2, <2>3, AheadKept DEF local, Elems, Ahead
<1>2. CASE RemoveMarked \/ EnterSelect \/ SelectFails \/ PassDone
           \/ AcceptFails \/ TryConnectionExits \/ BridgedWriteFails
  BY <1>2 DEF RemoveMarked, EnterSelect, SelectFails, PassDone, ReturnToLoop,
              AcceptFails, TryConnectionExits, BridgedWriteFails, Stop,
              MaskRight, Ahead
\* No descriptor is beyond the words select writes back.
<1>3. CASE SelectReturns
  <2>1. /\ socket_mask' = Ready
        /\ UNCHANGED <<sockets, fdt, backlog, rx, peer>>
    <3>1. \A f \in Fd : ~(f >= SelectWord)
      BY NumbersAssumption DEF Fd
    <3>2. socket_mask \subseteq Fd
      BY DEF IInv, TypeOK
    <3> QED
      BY <1>3, <3>1, <3>2 DEF SelectReturns, kernel, remote
  <2> QED
    BY <2>1 DEF MaskRight, Ready, Elems, Readable
<1>4. CASE SocketAccept
  BY <1>4, ReadyAccept
<1>5. CASE TryConnectionOk
  BY <1>5, ReadyConnected
<1>6. CASE TryConnectionRefused
  BY <1>6, ReadyRefused
<1>7. CASE BridgedRead
  BY <1>7, ReadyRead
<1>8. CASE BridgedEof
  BY <1>8, ReadyEof
<1>9. CASE SkipEntry \/ StaleHandler \/ BridgedWrite \/ BridgedWriteLoses
  <2>1. /\ UNCHANGED <<sockets, socket_mask, fdt, backlog, rx, peer>>
        /\ pc \in {"handle", "write"}
        /\ \/ pc' = "handle" /\ pos' = pos + 1
           \/ pc' = pc /\ pos' = pos
           \/ pc' = "aborted"
    BY <1>9 DEF SkipEntry, StaleHandler, BridgedWrite, BridgedWriteLoses, Stop,
                Continue, Fired, Visited, kernel, remote
  <2>2. \A i \in 1..Len(Elems) : Ahead(i)' => Ahead(i)
    BY <2>1 DEF Ahead, IInv, TypeOK
  <2>3. \A f \in Fd : Undisturbed(f)
    BY <2>1 DEF Undisturbed
  <2>4. \A i \in 1..Len(Elems) : Elems[i].socket \in Fd
    BY ListTypes DEF IInv, FdEntry, SOCKET_ENTRY
  <2> QED
    BY <2>1, <2>2, <2>3, <2>4, AheadKept DEF Elems
<1> QED
  BY <1>1, <1>2, <1>3, <1>4, <1>5, <1>6, <1>7, <1>8, <1>9 DEF Next, Process

\* A handler that is going to be called can read or accept without blocking,
\* whatever the handlers before it in the pass accepted, closed, inserted or
\* drained, when every descriptor fits in the words that select writes back
\* (socket_list_select_and_handle_events; select is called with 500, so with
\* at most 512 descriptors).
THEOREM NeverBlock ==
  ASSUME MaxFd <= SelectWord
  PROVE  Spec => []HandlersNeverBlock
<1>1. Init => MaskListed /\ MaskRight
  BY DEF Init, MaskListed, MaskRight, Ahead
<1>2. IInv /\ MaskListed /\ MaskRight /\ [Next]_vars => MaskListed' /\ MaskRight'
  BY MaskListedStep, MaskRightStep
<1>3. IInv /\ MaskRight => HandlersNeverBlock
  BY MaskRightStates
<1> QED
  BY <1>1, <1>2, <1>3, Invariance, PTL DEF Spec

-----------------------------------------------------------------------------
(* select watches every entry, so nothing that waits is slept over. *)

LEMMA AllWatchedStep == ASSUME IInv, AllWatched, [Next]_vars PROVE AllWatched'
<1>1. CASE EnterSelect
  <2>1. DOMAIN Elems = 1..Len(Elems) /\ ~HasMarked(sockets) /\ Elems' = Elems
    BY <1>1, ListTypes DEF EnterSelect, IInv, Elems
  <2> QED
    BY <1>1, <2>1 DEF EnterSelect, socket_list2fd_set, HasMarked, AllWatched, Elems
<1>2. CASE Peers \/ UNCHANGED vars
  <2>1. UNCHANGED local
    BY <1>2 DEF Peers, ClientConnect, PeerSend, PeerShutdown, PeerClose, PeerRead, vars
  <2> QED
    BY <2>1 DEF local, Elems, AllWatched
<1>3. CASE Process /\ ~EnterSelect
  <2>1. pc' # "select"
    BY <1>3 DEF Process, RemoveMarked, SelectReturns, SelectFails, ReturnToLoop,
                SkipEntry, PassDone, SocketAccept, AcceptFails, TryConnectionOk,
                TryConnectionRefused, TryConnectionExits, BridgedRead, BridgedEof,
                StaleHandler, BridgedWrite, BridgedWriteLoses, BridgedWriteFails,
                Continue, Stop
  <2> QED
    BY <2>1 DEF AllWatched
<1> QED
  BY <1>1, <1>2, <1>3 DEF Next

\* No wake-up is missed: select is given no closed descriptor, and returns if a
\* client waits to be accepted or any entry's socket has data or an end, when
\* every descriptor is below the number select is called with
\* (socket_list_select_and_handle_events).
THEOREM NeverAsleep ==
  ASSUME MaxFd <= SelectNfds
  PROVE  Spec => []Awake
<1>1. Init => MaskListed /\ AllWatched
  BY DEF Init, MaskListed, AllWatched
<1>2. IInv /\ MaskListed /\ AllWatched /\ [Next]_vars => MaskListed' /\ AllWatched'
  BY MaskListedStep, AllWatchedStep
<1>3. IInv /\ MaskListed /\ AllWatched => Awake
  <2> SUFFICES ASSUME IInv, MaskListed, AllWatched, pc = "select"
               PROVE  /\ ~BadFd
                      /\ backlog # <<>> => Ready # {}
                      /\ \A i \in 1..Len(Elems) :
                           Readable(Elems[i].socket) => Ready # {}
    BY DEF Awake
  <2>1. /\ \A f \in socket_mask : \E i \in 1..Len(Elems) : Elems[i].socket = f
        /\ \A i \in 1..Len(Elems) : Elems[i].socket \in socket_mask
        /\ \A i \in 1..Len(Elems) : ~Elems[i].deleted
    BY DEF MaskListed, AllWatched, IInv, MarksRemoved, NoneMarked
  <2>2. \A i \in 1..Len(Elems) : Elems[i].socket \in Fd
    BY ListTypes DEF IInv, FdEntry, SOCKET_ENTRY
  <2>3. \A f \in Fd : f < SelectNfds
    BY NumbersAssumption DEF Fd
  <2>4. 1 \in 1..Len(Elems) /\ Elems[1].socket = ListenFd /\ fdt[ListenFd] = Listener
    BY ListTypes DEF IInv, ListenerFirst
  <2>5. \A i \in 2..Len(Elems) : fdt[Elems[i].socket] \in End
    BY <2>1, ListTypes DEF IInv, BridgesWired, BridgeWired
  <2>6. \A i \in 1..Len(Elems) : fdt[Elems[i].socket] # Free
    <3>1. \A i \in 1..Len(Elems) : i = 1 \/ i \in 2..Len(Elems)
      BY ListTypes DEF IInv
    <3> QED
      BY <2>4, <2>5, <3>1, Descriptors
  <2>7. ~BadFd
    BY <2>1, <2>6 DEF BadFd
  <2>8. \A i \in 1..Len(Elems) : Readable(Elems[i].socket) => Ready # {}
    BY <2>1, <2>2, <2>3 DEF Ready
  <2>9. backlog # <<>> => Readable(Elems[1].socket)
    BY <2>4 DEF Readable
  <2> QED
    BY <2>4, <2>7, <2>8, <2>9
<1> QED
  BY <1>1, <1>2, <1>3, Invariance, PTL DEF Spec

-----------------------------------------------------------------------------
(* Every client has a remote end, but the one being connected. *)

\* A step that leaves the descriptor table and the connecting state alone.
LEMMA RemoteFrame ==
  ASSUME RemoteHeld, fdt' = fdt, Alive' => Alive,
         pc' = "connect" \/ pc # "connect" \/ ~Alive',
         pc = "connect" => new_sock' = new_sock
  PROVE  RemoteHeld'
BY DEF RemoteHeld, Held, ClientEnd

LEMMA RemoteAccept == ASSUME IInv, RemoteHeld, SocketAccept PROVE RemoteHeld'
<1>1. PICK f \in LowestFree(fdt) :
        /\ fdt' = [fdt EXCEPT ![f] = <<Head(backlog), "in">>]
        /\ new_sock' = f
  BY DEF SocketAccept
<1>2. f \in Fd /\ fdt[f] = Free /\ fdt'[f] = <<Head(backlog), "in">>
      /\ \A g \in Fd : g # f => fdt'[g] = fdt[g]
  BY <1>1 DEF LowestFree, IInv, TypeOK
<1>3. pc = "handle" /\ pc' = "connect"
  BY DEF SocketAccept, Fired, Visited
<1>4. \A e \in End : e # <<Head(backlog), "in">> => (Held(e)' <=> Held(e))
  BY <1>2, Descriptors DEF Held
<1> SUFFICES ASSUME NEW c \in Conns, Held(<<c, "in">>)', c # Head(backlog)
             PROVE  Held(<<c, "out">>)'
  BY <1>1, <1>2, <1>3 DEF RemoteHeld, ClientEnd
<1>5. <<c, "in">> \in End /\ <<c, "out">> \in End
      /\ <<c, "out">> # <<Head(backlog), "in">> /\ <<c, "in">> # <<Head(backlog), "in">>
  BY DEF End
<1> QED
  BY <1>3, <1>4, <1>5 DEF RemoteHeld, Alive

LEMMA RemoteConnected == ASSUME IInv, RemoteHeld, TryConnectionOk PROVE RemoteHeld'
<1>1. PICK c \in Conns : fdt[new_sock] = <<c, "in">>
  BY DEF TryConnectionOk, IInv, Connecting
<1>2. pc = "connect" /\ ClientEnd = <<c, "in">> /\ RemoteEnd = <<c, "out">>
      /\ <<c, "out">> \in End
  BY <1>1 DEF RemoteEnd, ClientEnd, Mate, End, TryConnectionOk
<1>3. PICK t \in VMCISock_GetAFValue(fdt) : \E f \in LowestFree(t) :
        fdt' = [t EXCEPT ![f] = <<c, "out">>]
  BY <1>2 DEF TryConnectionOk
<1>4. PICK f \in LowestFree(t) : fdt' = [t EXCEPT ![f] = <<c, "out">>]
  BY <1>3
<1>5. f \in Fd /\ fdt[f] = Free /\ fdt'[f] = <<c, "out">>
      /\ \A g \in Fd, e \in End : g # f => (fdt'[g] = e <=> fdt[g] = e)
  BY <1>4, LeakInv DEF LowestFree
<1>6. \A e \in End : Held(e)' <=> Held(e) \/ e = <<c, "out">>
  BY <1>2, <1>5, Descriptors DEF Held
<1>7. \A d \in Conns : <<d, "in">> \in End /\ <<d, "out">> \in End
        /\ <<d, "in">> # <<c, "out">> /\ (<<d, "in">> = <<c, "in">> => d = c)
  BY DEF End
<1> QED
  BY <1>2, <1>6, <1>7 DEF RemoteHeld, Alive

LEMMA RemoteEof == ASSUME IInv, RemoteHeld, BridgedEof PROVE RemoteHeld'
<1> DEFINE s == Entry.socket
           o == Entry.context
<1>1. /\ s \in Fd /\ o \in Fd /\ fdt[s] \in End /\ fdt[o] = Mate(fdt[s])
  BY FiredEnd DEF BridgedEof, SocketIn, SocketOut
<1>2. pc = "handle" /\ fdt' = Closed(fdt, {s, o})
  BY DEF BridgedEof, FiredBridge, Fired, Visited
<1> HIDE DEF s, o
<1> SUFFICES ASSUME NEW c \in Conns, Held(<<c, "in">>)'
             PROVE  Held(<<c, "out">>)'
  BY DEF RemoteHeld
<1>3. /\ <<c, "in">> \in End /\ <<c, "out">> \in End
      /\ Mate(<<c, "in">>) = <<c, "out">> /\ Mate(<<c, "out">>) = <<c, "in">>
  BY DEF End, Mate
<1>4. PICK f \in Fd : fdt[f] = <<c, "in">> /\ f \notin {s, o}
  BY <1>2, <1>3, Descriptors DEF Held, Closed
<1>5. PICK g \in Fd : fdt[g] = <<c, "out">>
  BY <1>2, <1>4 DEF RemoteHeld, Held, Alive
<1>6. g \notin {s, o}
  BY <1>1, <1>3, <1>4, <1>5, Mates DEF IInv, OneFdPerEnd
<1> QED
  BY <1>2, <1>5, <1>6 DEF Held, Closed

LEMMA RemoteHeldStep ==
  ASSUME "refuse" \notin Env, IInv, RemoteHeld, [Next]_vars
  PROVE  RemoteHeld'
<1>1. CASE Peers \/ UNCHANGED vars
  BY <1>1, RemoteFrame
     DEF Peers, ClientConnect, PeerSend, PeerShutdown, PeerClose, PeerRead, vars,
         local, kernel, Alive
<1>2. CASE RemoveMarked \/ LoopStep
  BY <1>2, RemoteFrame
     DEF LoopStep, RemoveMarked, EnterSelect, SelectReturns, SelectFails,
         ReturnToLoop, SkipEntry, PassDone, AcceptFails, TryConnectionExits,
         StaleHandler, BridgedRead, BridgedWrite, BridgedWriteLoses,
         BridgedWriteFails, Fired, FiredBridge, Visited, Continue, Stop, Alive,
         vars, local, kernel
<1>3. CASE SocketAccept
  BY <1>3, RemoteAccept
<1>4. CASE TryConnectionOk
  BY <1>4, RemoteConnected
<1>5. CASE TryConnectionRefused
  BY <1>5 DEF TryConnectionRefused
<1>6. CASE BridgedEof
  BY <1>6, RemoteEof
<1> QED
  BY <1>1, <1>2, <1>3, <1>4, <1>5, <1>6 DEF Next, Process, LoopStep

\* Unless the remote service refuses, a client whose socket is open when
\* select is called has a remote end: vsocket_listen_event_handler leaves no
\* half of a tunnel behind when descriptors run out or bind fails, and the end
\* of a tunnel closes both of its sockets and no other's.
THEOREM NeverHalf ==
  ASSUME "refuse" \notin Env
  PROVE  Spec => []NoHalfTunnel
<1>1. Init => RemoteHeld
  <2>1. Init => \A f \in Fd : fdt[f] \notin End
    BY Descriptors DEF Init
  <2>2. \A c \in Conns : <<c, "in">> \in End
    BY DEF End
  <2> QED
    BY <2>1, <2>2 DEF RemoteHeld, Held
<1>2. IInv /\ RemoteHeld /\ [Next]_vars => RemoteHeld'
  BY RemoteHeldStep
<1>3. RemoteHeld => NoHalfTunnel
  BY DEF RemoteHeld, NoHalfTunnel, Alive
<1> QED
  BY <1>1, <1>2, <1>3, Invariance, PTL DEF Spec
=============================================================================
