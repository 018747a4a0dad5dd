-------------------------- MODULE InteractiveProofs --------------------------
(***************************************************************************)
(* Proofs about client and listening mode, for every number of connections *)
(* that share the standard input, on Linux and Windows: the invariant of   *)
(* InteractiveInv and what follows from it, when a Windows client ends,    *)
(* and what the streams carry, of one connection and of many.              *)
(***************************************************************************)
EXTENDS InteractiveInv, SocketListProofs, FiniteSetTheorems

Watched == Fd \cup {Stdin}
FdEntry == SOCKET_ENTRY(Watched, Watched \cup {NoFd})
Inhabitants == Conns \cup {Free, Beyond, Listener, AfDevice}

LEMMA Descriptors ==
  /\ Fd \subseteq Nat /\ Stdin \notin Fd /\ NoFd \notin Fd /\ NoFd # Stdin
  /\ Listener \notin Conns /\ Free \notin Conns /\ AfDevice \notin Conns
  /\ Beyond \notin Conns /\ Stdin \notin Conns
  /\ Listener # Free /\ Listener # AfDevice /\ Listener # Beyond
  /\ AfDevice # Free /\ Beyond # Free
BY InteractiveAssumption, DescriptorAssumption DEF Fd, Stdin

LEMMA FdBelow ==
  ASSUME NEW n \in Nat, MaxFd + MoreFds <= n
  PROVE  \A f \in Fd \cup {Stdin} : f < n
BY InteractiveAssumption DEF Fd, Stdin

LEMMA Bounds ==
  /\ Mode \in {"client", "listen"}
  /\ BufSize \in Nat \ {0} /\ ThreadBuf \in Nat \ {0} /\ PipeCap \in Nat \ {0}
  /\ MaxSend \in Nat /\ MaxTyped \in Nat
BY InteractiveAssumption

\* The type invariant in parts.
ListTypes  == sockets \in [elems : Seq(FdEntry), curr : Nat]
QueueTypes == /\ buffer \in Seq(Item) /\ stdin \in Seq(Item) /\ terminal \in Seq(Item)
              /\ console \in Seq(Item) /\ read_buffer \in Seq(Item)
              /\ rx \in [Conns -> Seq(Item)] /\ wrote \in [Conns -> Seq(Item)]
NetTypes   == /\ fdt \in [Fd -> Inhabitants] /\ backlog \in Seq(Conns)
              /\ peer \in [Conns -> {"none", "open", "fin", "gone"}]
              /\ sent \in [Conns -> 0..MaxSend] /\ typed \in 0..MaxTyped
PcTypes    == /\ pc \in {"dump", "cleanup", "select", "handle", "write", "exited", "aborted"}
              /\ pos \in Nat \ {0} /\ socket_mask \subseteq Watched
              /\ n_special_descriptors \in Nat
              /\ tpc \in {"none", "start", "read", "write", "ended"}
FlagTypes  == eof \in BOOLEAN /\ tty \in BOOLEAN /\ platform \in Platforms /\ leak \in Debug

LEMMA TypeParts ==
  StateTypes <=> ListTypes /\ QueueTypes /\ NetTypes /\ PcTypes /\ FlagTypes
BY DEF StateTypes, ListTypes, QueueTypes, NetTypes, PcTypes, FlagTypes, FdEntry,
       Watched, Inhabitants

LEMMA ListElems ==
  ASSUME ListTypes
  PROVE  /\ Elems \in Seq(FdEntry)
         /\ Len(Elems) \in Nat /\ DOMAIN Elems = 1..Len(Elems)
         /\ \A i \in 1..Len(Elems) : Elems[i] \in FdEntry
         /\ CurrAtRear => sockets = AtRear(Elems)
<1>1. Elems \in Seq(FdEntry) /\ (CurrAtRear => sockets = AtRear(Elems))
  BY DEF ListTypes, Elems, CurrAtRear, AtRear
<1> QED
  BY <1>1, LenProperties, ElementOfSeq

-----------------------------------------------------------------------------
(* The list. *)

SocketOf(f) == [socket |-> f, handler |-> "bridge", context |-> Stdin, deleted |-> FALSE]
StdinOf(f)  == [socket |-> Stdin, handler |-> "bridge", context |-> f, deleted |-> FALSE]

\* bridge_sockets_and_descriptors appends two entries.
LEMMA BridgedList ==
  ASSUME NEW s \in Seq(FdEntry), NEW f \in Fd
  PROVE  \E t \in Seq(FdEntry) :
           /\ Bridged(AtRear(s), f) = AtRear(t)
           /\ Len(s) \in Nat /\ Len(t) = Len(s) + 2
           /\ \A i \in 1..Len(s) : t[i] = s[i]
           /\ t[Len(s) + 1] = SocketOf(f) /\ t[Len(s) + 2] = StdinOf(f)
<1> DEFINE x1 == SocketOf(f)
           x2 == StdinOf(f)
           L  == Len(s)
<1>1. x1 \in FdEntry /\ x2 \in FdEntry
  BY DEF SocketOf, StdinOf, FdEntry, SOCKET_ENTRY, Watched
<1>2. Bridged(AtRear(s), f) = list_insert_after(list_insert_after(AtRear(s), x1), x2)
  BY DEF Bridged, socket_list_insert, SocketOf, StdinOf
<1> HIDE DEF x1, x2
<1>3. /\ Append(s, x1) \in Seq(FdEntry) /\ Len(Append(s, x1)) = L + 1 /\ L \in Nat
      /\ \A i \in 1..L : Append(s, x1)[i] = s[i]
      /\ Append(s, x1)[L + 1] = x1
  BY <1>1, AppendProperties, LenProperties
<1> DEFINE m == Append(s, x1)
<1>4. list_insert_after(AtRear(s), x1) = AtRear(m)
  BY <1>1, InsertAtRear
<1> HIDE DEF m
<1>5. m \in Seq(FdEntry) /\ Len(m) = L + 1
      /\ (\A i \in 1..L : m[i] = s[i]) /\ m[L + 1] = x1
  BY <1>3 DEF m
<1>6. /\ Append(m, x2) \in Seq(FdEntry) /\ Len(Append(m, x2)) = L + 2
      /\ \A i \in 1..(L + 1) : Append(m, x2)[i] = m[i]
      /\ Append(m, x2)[L + 2] = x2
  BY <1>1, <1>3, <1>5, AppendProperties
<1>7. Bridged(AtRear(s), f) = AtRear(Append(m, x2))
  BY <1>1, <1>2, <1>4, <1>5, InsertAtRear
<1> DEFINE t == Append(m, x2)
<1>8. /\ t \in Seq(FdEntry) /\ Bridged(AtRear(s), f) = AtRear(t)
      /\ L \in Nat /\ Len(t) = L + 2
      /\ \A i \in 1..L : t[i] = s[i]
      /\ t[L + 1] = SocketOf(f) /\ t[L + 2] = StdinOf(f)
  <2>1. L \in Nat /\ \A i \in 1..L : i \in 1..(L + 1)
    BY <1>3
  <2>2. \A i \in 1..L : t[i] = s[i]
    BY <2>1, <1>5, <1>6
  <2>3. t[L + 1] = x1
    BY <2>1, <1>5, <1>6
  <2> QED
    BY <2>1, <2>2, <2>3, <1>6, <1>7 DEF x1, x2
<1> HIDE DEF t
<1> QED
  BY <1>8

LEMMA RemoveList ==
  ASSUME ListTypes, Wiring, RemoveMarked
  PROVE  /\ Len(Elems) \in Nat /\ Len(Elems) >= 1
         /\ sockets' = AtRear(Elems') /\ Elems' \in Seq(FdEntry)
         /\ Len(Elems') = Len(Elems) - 1
         /\ \A i \in 1..(Len(Elems) - 1) : Elems'[i] = Elems[i]
         /\ Mode = "listen" => Len(Elems) > 1
<1> DEFINE n == Len(Elems) - 1
<1>1. /\ Elems \in Seq(FdEntry) /\ Len(Elems) \in Nat /\ n \in Nat /\ Len(Elems) >= 1
      /\ sockets = AtRear(Elems) /\ (Mode = "listen" => Len(Elems) > 1)
  <2>1. PICK i \in 1..Len(Elems) : Elems[i].deleted
    BY ListElems DEF RemoveMarked, HasMarked, Elems
  <2>2. Mode = "listen" => i # 1
    BY <2>1 DEF Wiring, EntriesKnown, ListenEntry
  <2> QED
    BY <2>1, <2>2, ListElems DEF Wiring
<1>2. sockets' = AtRear(SubSeq(Elems, 1, n))
  BY <1>1, RemoveAtRear DEF RemoveMarked
<1>3. Elems' = SubSeq(Elems, 1, n) /\ sockets' = AtRear(Elems')
  BY <1>2 DEF AtRear, Elems
<1>4. /\ Elems' \in Seq(FdEntry) /\ Len(Elems') = n
      /\ \A i \in 1..n : Elems'[i] = Elems[i]
  <2>1. \A i \in 1..n : Elems[i] \in FdEntry
    BY <1>1, ListElems
  <2> HIDE DEF n
  <2> QED
    BY <1>1, <1>3, <2>1, SubSeqProperties
<1> QED
  BY <1>1, <1>3, <1>4

\* Where the handler of a bridge entry stands.
LEMMA FiredEntry ==
  ASSUME ListTypes, Wiring, FiredBridge
  PROVE  /\ pos \in 1..Len(Elems) /\ Entry = Elems[pos] /\ pc = "handle"
         /\ \/ SocketEntry(pos) /\ In \in Fd /\ (Out = Stdin \/ Out = NoFd)
            \/ StdinEntry(pos) /\ In = Stdin
                 /\ (Out = NoFd \/ (Out \in Fd /\ pos - 1 \in 1..Len(Elems)
                                      /\ Out = Elems[pos - 1].socket))
<1>1. pos \in 1..Len(Elems) /\ Entry = Elems[pos] /\ pc = "handle"
      /\ Elems[pos].handler = "bridge"
  BY ListElems DEF FiredBridge, Fired, Visited, Entry, Elems
<1>2. SocketEntry(pos) \/ StdinEntry(pos)
  BY <1>1 DEF Wiring, EntriesKnown, ListenEntry
<1>3. pos - 1 \in 1..Len(Elems) \/ pos = 1
  BY <1>1, ListElems
<1> QED
  BY <1>1, <1>2, <1>3 DEF SocketEntry, StdinEntry, In, Out

\* An end of file marks entries and does nothing else to the list; afterwards
\* no unmarked entry watches a descriptor that was closed.
LEMMA EofList ==
  ASSUME ListTypes, Wiring, BridgedEof
  PROVE  /\ sockets' = AtRear(Elems') /\ Elems' \in Seq(FdEntry)
         /\ Len(Elems') = Len(Elems) /\ Len(Elems) \in Nat
         /\ \A i \in 1..Len(Elems) :
              /\ Elems'[i].socket = Elems[i].socket
              /\ Elems'[i].handler = Elems[i].handler
              /\ Elems'[i].context = Elems[i].context
              /\ Elems[i].deleted => Elems'[i].deleted
              /\ Elems[i].socket \in Fd =>
                   (Elems'[i].deleted <=> Elems[i].deleted \/ Elems[i].socket \in {In, Out})
<1> DEFINE d1 == socket_list_delete(sockets, In)
           d2 == socket_list_delete(d1, Out)
<1>1. /\ Elems \in Seq(FdEntry) /\ sockets = AtRear(Elems)
      /\ Len(Elems) \in Nat /\ \A i \in 1..Len(Elems) : Elems[i] \in FdEntry
  BY ListElems DEF Wiring
<1>2. /\ d1 = AtRear(d1.elems) /\ d1.elems \in Seq(FdEntry)
      /\ Len(d1.elems) = Len(Elems)
      /\ \A i \in 1..Len(Elems) :
           /\ d1.elems[i].socket = Elems[i].socket
           /\ d1.elems[i].handler = Elems[i].handler
           /\ d1.elems[i].context = Elems[i].context
           /\ d1.elems[i].deleted <=>
                (Elems[i].deleted \/ IsFirst(AtRear(Elems), In, i))
  BY <1>1, DeleteOnlyMarks DEF FdEntry
<1>3. /\ d2 = AtRear(d2.elems) /\ d2.elems \in Seq(FdEntry)
      /\ Len(d2.elems) = Len(Elems)
      /\ \A i \in 1..Len(Elems) :
           /\ d2.elems[i].socket = d1.elems[i].socket
           /\ d2.elems[i].handler = d1.elems[i].handler
           /\ d2.elems[i].context = d1.elems[i].context
           /\ d2.elems[i].deleted <=>
                (d1.elems[i].deleted \/ IsFirst(AtRear(d1.elems), Out, i))
  <2> HIDE DEF d1
  <2> QED
    BY <1>2, DeleteOnlyMarks DEF FdEntry
<1>4. sockets' = d2 /\ Elems' = d2.elems
  BY DEF BridgedEof, AfterIn, Elems
\* Sockets are registered once, so the first match is the only one.
<1>5. \A i \in 1..Len(Elems) : Elems[i].socket \in Fd =>
        /\ IsFirst(AtRear(Elems), In, i) <=> Elems[i].socket = In
        /\ IsFirst(AtRear(d1.elems), Out, i) <=> Elems[i].socket = Out
  BY <1>1, <1>2 DEF Wiring, SocketsDistinct, IsFirst, AtRear
<1> HIDE DEF d1, d2
<1>6. \A i \in 1..Len(Elems) :
        /\ Elems'[i].socket = Elems[i].socket
        /\ Elems'[i].handler = Elems[i].handler
        /\ Elems'[i].context = Elems[i].context
        /\ Elems'[i].deleted <=>
             (Elems[i].deleted \/ IsFirst(AtRear(Elems), In, i)
                \/ IsFirst(AtRear(d1.elems), Out, i))
  BY <1>2, <1>3, <1>4
<1>7. /\ sockets' = AtRear(Elems') /\ Elems' \in Seq(FdEntry)
      /\ Len(Elems') = Len(Elems)
  BY <1>3, <1>4
<1> QED
  BY <1>1, <1>5, <1>6, <1>7
-----------------------------------------------------------------------------
(* The initial states. *)

LEMMA InitTypes ==
  ASSUME Init
  PROVE  QueueTypes /\ PcTypes /\ FlagTypes
<1>1. QueueTypes
  BY DEF Init, QueueTypes
<1>2. n_special_descriptors \in Nat /\ tpc \in {"none", "start"}
      /\ pc \in {"dump", "cleanup"}
  BY DEF Init, Counted, PassStart
<1>3. PcTypes
  BY <1>2 DEF Init, PcTypes
<1>4. eof \in BOOLEAN /\ tty \in BOOLEAN
  BY DEF Init
<1>5. platform \in Platforms /\ leak \in Debug
  BY DEF Init
<1> QED
  BY <1>1, <1>3, <1>4, <1>5 DEF FlagTypes

\* The descriptor the first registration is for.
LEMMA InitFdt ==
  ASSUME Init
  PROVE  \E first \in Fd :
           /\ fdt \in [Fd -> Inhabitants]
           /\ fdt[first] \in IF Mode = "client" THEN Conns ELSE {Listener}
           /\ \A f \in Fd \ {first} : fdt[f] \notin Conns
           /\ sockets = IF Mode = "client" THEN Bridged(socket_list_init, first)
                        ELSE socket_list_insert(socket_list_init, first, "listen", NoFd)
<1>1. PICK first \in Fd, c \in Conns :
        /\ fdt = [f \in Fd |->
                     IF f < first THEN AfDevice
                     ELSE IF f = first THEN (IF Mode = "client" THEN c ELSE Listener)
                     ELSE IF ~leak /\ f >= MaxFd THEN Beyond ELSE Free]
        /\ sockets = IF Mode = "client" THEN Bridged(socket_list_init, first)
                     ELSE socket_list_insert(socket_list_init, first, "listen", NoFd)
  BY DEF Init
<1>2. /\ fdt \in [Fd -> Inhabitants]
      /\ fdt[first] = IF Mode = "client" THEN c ELSE Listener
      /\ \A f \in Fd \ {first} : fdt[f] \in {AfDevice, Beyond, Free}
  <2>1. ~(first < first)
    BY Descriptors
  <2>2. \A f \in Fd : fdt[f] \in Inhabitants
    BY <1>1 DEF Inhabitants
  <2> QED
    BY <1>1, <2>1, <2>2
<1> QED
  BY <1>1, <1>2, Descriptors

LEMMA InitIInv ==
  ASSUME Init
  PROVE  IInv
<1>1. PICK first \in Fd :
           /\ fdt \in [Fd -> Inhabitants]
           /\ fdt[first] \in IF Mode = "client" THEN Conns ELSE {Listener}
           /\ \A f \in Fd \ {first} : fdt[f] \notin Conns
           /\ sockets = IF Mode = "client" THEN Bridged(socket_list_init, first)
                        ELSE socket_list_insert(socket_list_init, first, "listen", NoFd)
  BY InitFdt
<1>2. /\ backlog = <<>> /\ pos = 1 /\ socket_mask = {}
      /\ pc \in {"dump", "cleanup"}
      /\ peer = [c \in Conns |-> IF Mode = "client" THEN "open" ELSE "none"]
  BY DEF Init, PassStart
<1>3. NetTypes
  <2>1. peer \in [Conns -> {"none", "open", "fin", "gone"}]
    BY <1>2
  <2>2. sent \in [Conns -> 0..MaxSend] /\ typed \in 0..MaxTyped
    BY Bounds DEF Init
  <2> QED
    BY <1>1, <1>2, <2>1, <2>2 DEF NetTypes
<1>4. ListTypes /\ Wiring
  <2>1. CASE Mode = "client"
    <3>1. <<>> \in Seq(FdEntry) /\ Len(<<>>) = 0 /\ socket_list_init = AtRear(<<>>)
      BY DEF socket_list_init, list_init, AtRear
    <3>2. PICK t \in Seq(FdEntry) :
           /\ sockets = AtRear(t) /\ Len(t) = 2
           /\ t[1] = SocketOf(first) /\ t[2] = StdinOf(first)
      <4>1. PICK t \in Seq(FdEntry) :
               /\ Bridged(AtRear(<<>>), first) = AtRear(t)
               /\ Len(t) = Len(<<>>) + 2
               /\ t[Len(<<>>) + 1] = SocketOf(first)
               /\ t[Len(<<>>) + 2] = StdinOf(first)
        BY <3>1, BridgedList
      <4>2. Len(t) = 2 /\ t[1] = SocketOf(first) /\ t[2] = StdinOf(first)
        BY <3>1, <4>1
      <4>3. sockets = AtRear(t)
        BY <1>1, <2>1, <3>1, <4>1
      <4> QED
        BY <4>2, <4>3
    <3>3. ListTypes /\ CurrAtRear /\ Elems = t
      BY <3>2, LenProperties DEF AtRear, ListTypes, CurrAtRear, Elems
    <3>4. 1..Len(Elems) = {1, 2}
      <4>1. Len(Elems) = 2 /\ 1..2 = {1, 2}
        BY <3>2, <3>3
      <4> QED
        BY <4>1
    <3>5. SocketEntry(1) /\ StdinEntry(2)
      BY <1>1, <2>1, <3>2, <3>3 DEF SocketEntry, StdinEntry, SocketOf, StdinOf
    <3>6. EntriesKnown
      BY <2>1, <3>4, <3>5 DEF EntriesKnown
    <3>7. SocketsDistinct
      BY <3>2, <3>3, <3>4, Descriptors DEF SocketsDistinct, SocketOf, StdinOf
    <3> QED
      BY <3>3, <3>6, <3>7 DEF Wiring
  <2>2. CASE Mode = "listen"
    <3> DEFINE e == [socket |-> first, handler |-> "listen", context |-> NoFd,
                     deleted |-> FALSE]
    <3>1. e \in FdEntry
      BY DEF FdEntry, SOCKET_ENTRY, Watched
    <3>2. <<>> \in Seq(FdEntry) /\ socket_list_init = AtRear(<<>>)
      BY DEF socket_list_init, list_init, AtRear
    <3>3. sockets = list_insert_after(AtRear(<<>>), e)
      BY <1>1, <2>2, <3>2 DEF socket_list_insert
    <3>4. sockets = AtRear(Append(<<>>, e))
      BY <3>1, <3>2, <3>3, InsertAtRear
    <3>5. Append(<<>>, e) \in Seq(FdEntry) /\ Len(Append(<<>>, e)) = 1
          /\ Append(<<>>, e)[1] = e
      BY <3>1, <3>2, AppendProperties
    <3>6. /\ ListTypes /\ CurrAtRear /\ Len(Elems) = 1 /\ Elems[1] = e
      BY <3>4, <3>5 DEF AtRear, ListTypes, CurrAtRear, Elems
    <3>7. ListenEntry(1) /\ 1..Len(Elems) = {1}
      BY <1>1, <2>2, <3>6 DEF ListenEntry
    <3> QED
      BY <3>6, <3>7 DEF Wiring, EntriesKnown, SocketsDistinct
  <2> QED
    BY <2>1, <2>2, Bounds
<1>5. OneFdPerConn
  BY <1>1 DEF OneFdPerConn
<1>6. QueueDistinct /\ Lifecycle
  <2>1. \A c \in Conns : ~Queued(c)
    BY <1>2 DEF Queued
  <2>2. Mode # "client" => \A c \in Conns : ~Held(c)
    BY <1>1, Descriptors DEF Held
  <2> QED
    BY <1>2, <2>1, <2>2 DEF QueueDistinct, Lifecycle
<1>7. MaskListed /\ MaskFilled /\ MaskRight
  BY <1>2 DEF MaskListed, MaskFilled, MaskRight, Ahead
<1> QED
  BY <1>3, <1>4, <1>5, <1>6, <1>7, InitTypes, TypeParts DEF IInv
-----------------------------------------------------------------------------
(* The steps. *)

\* Which actions change the list, the descriptors and the queue.
LEMMA Changes ==
  ASSUME [Next]_vars
  PROVE  \/ /\ sockets' = sockets /\ fdt' = fdt
            /\ \/ backlog' = backlog /\ peer' = peer
               \/ \E c \in Conns : ClientConnect(c)
               \/ \E c \in Conns : PeerFinish(c)
         \/ DebugDump \/ RemoveMarked \/ SocketAccept \/ BridgedEof
<1> USE DEF SOCKET_LIST, local, net, queues, user, thread, Machine
<1>1. CASE \E c \in Conns : PeerSend(c)
  BY <1>1 DEF PeerSend
<1>2. CASE UserTypes \/ UserEnds
  BY <1>2 DEF UserTypes, UserEnds
<1>3. CASE Thread
  BY <1>3 DEF Thread, ThreadStarts, ThreadReads, ThreadWrites, ThreadEnds
<1>4. CASE EnterSelect \/ LoopEnds \/ SelectReturns \/ SkipEntry \/ PassDone \/ SelectFails
  BY <1>4 DEF EnterSelect, LoopEnds, SelectReturns, SkipEntry, PassDone, SelectFails,
              NextPass
<1>5. CASE AcceptFails \/ DoubleFree \/ WriteFails
  BY <1>5 DEF AcceptFails, DoubleFree, WriteFails, Stop
<1>6. CASE BridgedRead \/ WriteToSocket \/ WriteLost \/ WriteToStdin
  BY <1>6 DEF BridgedRead, WriteToSocket, WriteLost, WriteToStdin
<1>7. CASE UNCHANGED vars
  BY <1>7 DEF vars
<1>8. CASE \E c \in Conns : ClientConnect(c)
  BY <1>8 DEF ClientConnect
<1>9. CASE \E c \in Conns : PeerFinish(c)
  BY <1>9 DEF PeerFinish
<1> QED
  BY <1>1, <1>2, <1>3, <1>4, <1>5, <1>6, <1>7, <1>8, <1>9
     DEF Next, Process, Environment

\* Leaked devices take descriptors that were free.
LEMMA OnlyFree ==
  ASSUME NEW t \in [Fd -> Inhabitants], NEW n
  PROVE  /\ VMCISock_GetAFValue(t, n) \in [Fd -> Inhabitants]
         /\ \A f \in Fd : \/ VMCISock_GetAFValue(t, n)[f] = t[f]
                          \/ t[f] = Free /\ VMCISock_GetAFValue(t, n)[f] = AfDevice
BY DEF VMCISock_GetAFValue, Inhabitants

\* What a step that moves no entry and closes nothing does to the descriptors.
Kept == \A f \in Fd : fdt'[f] = fdt[f] \/ (fdt[f] = Free /\ fdt'[f] = AfDevice)

LEMMA DumpKeeps ==
  ASSUME NetTypes, DebugDump
  PROVE  fdt' \in [Fd -> Inhabitants] /\ Kept
BY OnlyFree DEF DebugDump, Kept, NetTypes

LEMMA WiringKept ==
  ASSUME ListTypes, Wiring, UNCHANGED sockets, Kept
  PROVE  Wiring'
<1>1. Elems' = Elems /\ CurrAtRear' /\ SocketsDistinct'
  BY DEF Wiring, CurrAtRear, SocketsDistinct, Elems
<1>2. \A f \in Fd : (fdt[f] \in Conns \cup {Listener}) => fdt'[f] = fdt[f]
  BY Descriptors DEF Kept
<1>3. \A i \in 1..Len(Elems) :
        /\ ListenEntry(i) => ListenEntry(i)'
        /\ SocketEntry(i) => SocketEntry(i)'
        /\ StdinEntry(i) => StdinEntry(i)'
  BY <1>1, <1>2 DEF ListenEntry, SocketEntry, StdinEntry
<1>4. EntriesKnown'
  BY <1>1, <1>3, ListElems DEF Wiring, EntriesKnown
<1> QED
  BY <1>1, <1>4 DEF Wiring

LEMMA WiringRemove ==
  ASSUME ListTypes, Wiring, RemoveMarked
  PROVE  ListTypes' /\ Wiring'
<1> DEFINE n == Len(Elems) - 1
<1>1. /\ Len(Elems) \in Nat /\ n \in Nat
      /\ sockets' = AtRear(Elems') /\ Elems' \in Seq(FdEntry)
      /\ Len(Elems') = n
      /\ \A i \in 1..n : Elems'[i] = Elems[i] /\ i \in 1..Len(Elems)
      /\ Mode = "listen" => 1 \in 1..n
  BY RemoveList
<1>2. fdt' = fdt
  BY DEF RemoveMarked, queues
<1>3. \A i \in 1..n : i # 1 => i - 1 \in 1..n
  BY <1>1
<1> HIDE DEF n
<1>4. ListTypes' /\ CurrAtRear'
  BY <1>1 DEF AtRear, ListTypes, CurrAtRear
<1>5. \A i \in 1..n :
        /\ ListenEntry(i) => ListenEntry(i)'
        /\ SocketEntry(i) => SocketEntry(i)'
        /\ StdinEntry(i) => StdinEntry(i)'
  BY <1>1, <1>2, <1>3 DEF ListenEntry, SocketEntry, StdinEntry
<1>6. EntriesKnown'
  BY <1>1, <1>5 DEF Wiring, EntriesKnown
<1>7. SocketsDistinct'
  BY <1>1 DEF Wiring, SocketsDistinct
<1> QED
  BY <1>4, <1>6, <1>7 DEF Wiring
\* A descriptor that accept returns is registered by no entry: when the
\* listening entry is visited, the first of the pass, nothing is marked.
LEMMA AcceptStep ==
  ASSUME ListTypes, NetTypes, Wiring, MaskListed, SocketAccept
  PROVE  /\ pos = 1 /\ pc = "handle" /\ pos' = 2 /\ pc' = "handle"
         /\ \E f \in Fd :
              /\ fdt[f] = Free /\ \A i \in 1..Len(Elems) : Elems[i].socket # f
              /\ sockets' = Bridged(sockets, f)
              /\ fdt' \in [Fd -> Inhabitants] /\ fdt'[f] = Head(backlog)
              /\ \A g \in Fd \ {f} : \/ fdt'[g] = fdt[g]
                                     \/ fdt[g] = Free /\ fdt'[g] = AfDevice
<1>1. /\ pos \in 1..Len(Elems) /\ Elems[pos].handler = "listen"
      /\ pc = "handle" /\ pos' = pos + 1 /\ pc' = "handle"
  BY ListElems DEF SocketAccept, Fired, Visited, Entry, Elems, Continue
<1>2. ListenEntry(pos) /\ pos = 1
  BY <1>1 DEF Wiring, EntriesKnown, ListenEntry, SocketEntry, StdinEntry
<1>3. NoneMarked
  BY <1>1, <1>2 DEF MaskListed
<1>4. PICK f \in NewFd :
        /\ LET t == [fdt EXCEPT ![f] = Head(backlog)] IN
             fdt' = IF leak THEN VMCISock_GetAFValue(t, 1) ELSE t
        /\ sockets' = Bridged(sockets, f)
  BY DEF SocketAccept
<1>5. f \in Fd /\ fdt[f] = Free
  BY <1>4 DEF NewFd, LowestFree
<1>6. \A i \in 1..Len(Elems) : Elems[i].socket # f
  <2> TAKE i \in 1..Len(Elems)
  <2>1. ListenEntry(i) \/ SocketEntry(i) \/ StdinEntry(i)
    BY DEF Wiring, EntriesKnown
  <2>2. ListenEntry(i) => Elems[i].socket # f
    BY <1>5, Descriptors DEF ListenEntry
  <2>3. SocketEntry(i) => Elems[i].socket # f
    BY <1>3, <1>5, Descriptors DEF SocketEntry, NoneMarked
  <2>4. StdinEntry(i) => Elems[i].socket # f
    BY <1>5, Descriptors DEF StdinEntry
  <2> QED
    BY <2>1, <2>2, <2>3, <2>4
<1> DEFINE t == [fdt EXCEPT ![f] = Head(backlog)]
<1>7. Head(backlog) \in Conns
  <2>1. backlog # <<>> /\ backlog \in Seq(Conns)
    BY DEF SocketAccept, NetTypes
  <2> QED
    BY <2>1, HeadTailProperties
<1>8. /\ t \in [Fd -> Inhabitants] /\ t[f] = Head(backlog)
      /\ \A g \in Fd \ {f} : t[g] = fdt[g]
  BY <1>5, <1>7 DEF NetTypes, Inhabitants
<1>9. fdt' = IF leak THEN VMCISock_GetAFValue(t, 1) ELSE t
  BY <1>4
<1> HIDE DEF t
<1>10. /\ fdt' \in [Fd -> Inhabitants]
       /\ \A g \in Fd : fdt'[g] = t[g] \/ (t[g] = Free /\ fdt'[g] = AfDevice)
  BY <1>8, <1>9, OnlyFree
<1>11. /\ fdt'[f] = Head(backlog)
       /\ \A g \in Fd \ {f} : \/ fdt'[g] = fdt[g]
                              \/ fdt[g] = Free /\ fdt'[g] = AfDevice
  BY <1>5, <1>7, <1>8, <1>10, Descriptors
<1>12. /\ fdt[f] = Free /\ \A i \in 1..Len(Elems) : Elems[i].socket # f
       /\ sockets' = Bridged(sockets, f)
       /\ fdt' \in [Fd -> Inhabitants] /\ fdt'[f] = Head(backlog)
       /\ \A g \in Fd \ {f} : \/ fdt'[g] = fdt[g]
                              \/ fdt[g] = Free /\ fdt'[g] = AfDevice
  BY <1>4, <1>5, <1>6, <1>10, <1>11
<1>13. pos = 1 /\ pc = "handle" /\ pos' = 2 /\ pc' = "handle"
  BY <1>1, <1>2
<1> QED
  BY <1>5, <1>12, <1>13

LEMMA WiringAccept ==
  ASSUME ListTypes, NetTypes, Wiring, MaskListed, SocketAccept
  PROVE  ListTypes' /\ Wiring'
<1>1. PICK f \in Fd :
        /\ fdt[f] = Free /\ \A i \in 1..Len(Elems) : Elems[i].socket # f
        /\ sockets' = Bridged(sockets, f) /\ fdt'[f] = Head(backlog)
        /\ \A g \in Fd \ {f} : \/ fdt'[g] = fdt[g]
                               \/ fdt[g] = Free /\ fdt'[g] = AfDevice
  BY AcceptStep
<1>0. PICK L \in Nat : L = Len(Elems)
  BY ListElems
<1>2. Elems \in Seq(FdEntry) /\ sockets = AtRear(Elems) /\ L \in Nat
  BY ListElems DEF Wiring
<1>3. PICK t \in Seq(FdEntry) :
        /\ Bridged(AtRear(Elems), f) = AtRear(t) /\ Len(t) = L + 2
        /\ \A i \in 1..L : t[i] = Elems[i]
        /\ t[L + 1] = SocketOf(f) /\ t[L + 2] = StdinOf(f)
  BY <1>0, <1>2, BridgedList
<1>4. sockets' = AtRear(t) /\ Elems' = t
  BY <1>1, <1>2, <1>3 DEF AtRear, Elems
<1>5. ListTypes' /\ CurrAtRear'
  BY <1>3, <1>4, LenProperties DEF AtRear, ListTypes, CurrAtRear
<1>6. Head(backlog) \in Conns
  <2>1. backlog # <<>> /\ backlog \in Seq(Conns)
    BY DEF SocketAccept, NetTypes
  <2> QED
    BY <2>1, HeadTailProperties
<1>7. \A g \in Fd : (fdt[g] \in Conns \cup {Listener}) => fdt'[g] = fdt[g]
  BY <1>1, Descriptors
<1>8. /\ Len(Elems') = L + 2 /\ \A i \in 1..L : Elems'[i] = Elems[i]
      /\ Elems'[L + 1] = SocketOf(f) /\ Elems'[L + 2] = StdinOf(f)
  BY <1>3, <1>4
<1>9. /\ \A i \in 1..(L + 2) : i \in 1..L \/ i = L + 1 \/ i = L + 2
      /\ \A i \in 1..L : i # 1 => i - 1 \in 1..L
      /\ L + 2 # 1 /\ L + 2 - 1 = L + 1 /\ (L >= 1 => L + 1 # 1)
  BY <1>2
<1>10. \A i \in 1..L :
        /\ ListenEntry(i) => ListenEntry(i)'
        /\ SocketEntry(i) => SocketEntry(i)'
        /\ StdinEntry(i) => StdinEntry(i)'
  BY <1>7, <1>8, <1>9 DEF ListenEntry, SocketEntry, StdinEntry
<1>11. Mode = "listen" => L >= 1 /\ ListenEntry(1)
  BY <1>0 DEF Wiring, EntriesKnown
<1>12. SocketEntry(L + 1)' /\ StdinEntry(L + 2)'
  <2>1. SocketEntry(L + 1)'
    BY <1>1, <1>6, <1>8, <1>9, <1>11 DEF SocketEntry, SocketOf
  <2>2. StdinEntry(L + 2)'
    BY <1>8, <1>9 DEF StdinEntry, SocketOf, StdinOf
  <2> QED
    BY <2>1, <2>2
<1>13. EntriesKnown'
  <2>1. \A i \in 1..(L + 2) : (ListenEntry(i) \/ SocketEntry(i) \/ StdinEntry(i))'
    BY <1>0, <1>9, <1>10, <1>12 DEF Wiring, EntriesKnown
  <2>2. Mode = "listen" => L + 2 >= 1 /\ ListenEntry(1)'
    BY <1>2, <1>10, <1>11
  <2> QED
    BY <1>8, <2>1, <2>2 DEF EntriesKnown
<1>14. SocketsDistinct'
  <2>1. \A i \in 1..L : Elems'[i].socket = Elems[i].socket
    BY <1>8
  <2>2. Elems'[L + 1].socket = f /\ Elems'[L + 2].socket \notin Fd
    BY <1>8, Descriptors DEF SocketOf, StdinOf
  <2>3. ASSUME NEW i \in 1..(L + 2), NEW j \in 1..(L + 2),
               Elems'[i].socket \in Fd, Elems'[i].socket = Elems'[j].socket
        PROVE  i = j
    <3>1. i # L + 2 /\ j # L + 2
      BY <2>2, <2>3
    <3>2. CASE i \in 1..L /\ j \in 1..L
      BY <1>0, <3>2, <2>1, <2>3 DEF Wiring, SocketsDistinct
    <3>3. CASE i = L + 1 \/ j = L + 1
      BY <1>0, <3>1, <3>3, <1>1, <1>9, <2>1, <2>2, <2>3
    <3> QED
      BY <3>1, <3>2, <3>3, <1>9
  <2> QED
    BY <1>8, <2>3 DEF SocketsDistinct
<1> QED
  BY <1>5, <1>13, <1>14 DEF Wiring

\* What the end of a stream closes: one socket, never the listening one.
LEMMA EofStep ==
  ASSUME ListTypes, NetTypes, Wiring, BridgedEof
  PROVE  /\ pos \in 1..Len(Elems) /\ pc = "handle" /\ pos' = pos + 1 /\ pc' = "handle"
         /\ Mode = "listen" => Elems[1].socket \notin {In, Out}
         /\ fdt' \in [Fd -> Inhabitants]
         /\ \A f \in Fd : fdt'[f] = IF f \in {In, Out} THEN Free ELSE fdt[f]
<1>1. FiredBridge
  BY DEF BridgedEof, EndOfFile
<1>2. \A f \in Fd : fdt'[f] = IF f \in {In, Out} THEN Free ELSE fdt[f]
  BY DEF BridgedEof
<1>3. fdt' \in [Fd -> Inhabitants]
  BY DEF BridgedEof, NetTypes, Inhabitants
<1>4. Mode = "listen" => Elems[1].socket \notin {In, Out}
  <2> SUFFICES ASSUME Mode = "listen" PROVE Elems[1].socket \notin {In, Out}
    OBVIOUS
  <2>1. 1 \in 1..Len(Elems) /\ Elems[1].socket \in Fd /\ Elems[1].handler = "listen"
    BY ListElems DEF Wiring, EntriesKnown, ListenEntry
  <2>2. CASE SocketEntry(pos) /\ In \in Fd /\ (Out = Stdin \/ Out = NoFd)
    <3>1. In # Elems[1].socket
      BY <1>1, <2>1, <2>2, FiredEntry DEF SocketEntry, Wiring, SocketsDistinct, In
    <3> QED
      BY <2>1, <2>2, <3>1, Descriptors
  <2>3. CASE StdinEntry(pos) /\ In = Stdin /\ Out = NoFd
    BY <2>1, <2>3, Descriptors
  <2>4. CASE /\ StdinEntry(pos) /\ In = Stdin
             /\ Out \in Fd /\ pos - 1 \in 1..Len(Elems) /\ Out = Elems[pos - 1].socket
    <3>1. Elems[pos - 1].handler = "bridge"
      BY <2>4 DEF StdinEntry
    <3>2. Out # Elems[1].socket
      BY <2>1, <2>4, <3>1 DEF Wiring, SocketsDistinct
    <3> QED
      BY <2>1, <2>4, <3>2, Descriptors
  <2> QED
    BY <1>1, <2>2, <2>3, <2>4, FiredEntry
<1>5. pos' = pos + 1 /\ pc' = "handle"
  BY DEF BridgedEof, Continue
<1> QED
  BY <1>1, <1>2, <1>3, <1>4, <1>5, FiredEntry

LEMMA WiringEof ==
  ASSUME ListTypes, NetTypes, Wiring, BridgedEof
  PROVE  ListTypes' /\ Wiring'
<1> DEFINE L == Len(Elems)
<1>1. /\ sockets' = AtRear(Elems') /\ Elems' \in Seq(FdEntry)
      /\ Len(Elems') = L /\ L \in Nat
      /\ \A i \in 1..L :
           /\ Elems'[i].socket = Elems[i].socket
           /\ Elems'[i].handler = Elems[i].handler
           /\ Elems'[i].context = Elems[i].context
           /\ Elems[i].deleted => Elems'[i].deleted
           /\ Elems[i].socket \in Fd =>
                (Elems'[i].deleted <=> Elems[i].deleted \/ Elems[i].socket \in {In, Out})
  BY EofList
<1>2. /\ Mode = "listen" => Elems[1].socket \notin {In, Out}
      /\ \A f \in Fd : fdt'[f] = IF f \in {In, Out} THEN Free ELSE fdt[f]
  BY EofStep
<1>3. ListTypes' /\ CurrAtRear'
  BY <1>1, LenProperties DEF AtRear, ListTypes, CurrAtRear
<1>4. ASSUME NEW i \in 1..L
      PROVE  /\ ListenEntry(i) => ListenEntry(i)'
             /\ SocketEntry(i) => SocketEntry(i)'
             /\ StdinEntry(i) => StdinEntry(i)'
  <2>1. ListenEntry(i) => ListenEntry(i)'
    BY <1>1, <1>2 DEF ListenEntry
  <2>2. SocketEntry(i) => SocketEntry(i)'
    BY <1>1, <1>2 DEF SocketEntry
  <2>3. i # 1 => i - 1 \in 1..L
    BY <1>1
  <2>4. StdinEntry(i) => StdinEntry(i)'
    BY <1>1, <2>3 DEF StdinEntry
  <2> QED
    BY <2>1, <2>2, <2>4
<1>5. EntriesKnown'
  <2>1. Mode = "listen" => L >= 1 /\ ListenEntry(1)'
    <3>1. Mode = "listen" => L >= 1 /\ ListenEntry(1)
      BY DEF Wiring, EntriesKnown
    <3>2. L >= 1 => 1 \in 1..L
      BY <1>1
    <3> QED
      BY <3>1, <3>2, <1>4
  <2>2. \A i \in 1..L : (ListenEntry(i) \/ SocketEntry(i) \/ StdinEntry(i))'
    BY <1>4 DEF Wiring, EntriesKnown
  <2> QED
    BY <1>1, <2>1, <2>2 DEF EntriesKnown
<1>6. SocketsDistinct'
  BY <1>1 DEF Wiring, SocketsDistinct
<1> QED
  BY <1>3, <1>5, <1>6 DEF Wiring

LEMMA WiringStep ==
  ASSUME IInv, [Next]_vars
  PROVE  ListTypes' /\ Wiring'
<1>1. ListTypes /\ NetTypes /\ Wiring /\ MaskListed
  BY TypeParts DEF IInv
<1>2. CASE UNCHANGED sockets /\ Kept
  BY <1>1, <1>2, WiringKept DEF ListTypes
<1>3. CASE RemoveMarked
  BY <1>1, <1>3, WiringRemove
<1>4. CASE SocketAccept
  BY <1>1, <1>4, WiringAccept
<1>5. CASE BridgedEof
  BY <1>1, <1>5, WiringEof
<1>6. fdt' = fdt => Kept
  BY DEF Kept
<1>7. DebugDump => UNCHANGED sockets /\ Kept
  BY <1>1, DumpKeeps DEF DebugDump, SOCKET_LIST
<1> QED
  BY <1>2, <1>3, <1>4, <1>5, <1>6, <1>7, Changes
\* The queue after a connection joins it, and after accept.
LEMMA QueueJoin ==
  ASSUME NEW b \in Seq(Conns), NEW c \in Conns
  PROVE  /\ Append(b, c) \in Seq(Conns) /\ Len(b) \in Nat
         /\ Len(Append(b, c)) = Len(b) + 1
         /\ DOMAIN b = 1..Len(b) /\ DOMAIN Append(b, c) = 1..(Len(b) + 1)
         /\ \A i \in 1..Len(b) : Append(b, c)[i] = b[i]
         /\ Append(b, c)[Len(b) + 1] = c
BY AppendProperties, LenProperties

LEMMA QueueLeave ==
  ASSUME NEW b \in Seq(Conns), b # <<>>
  PROVE  /\ Tail(b) \in Seq(Conns) /\ Head(b) \in Conns /\ Head(b) = b[1]
         /\ Len(b) \in Nat \ {0} /\ Len(Tail(b)) = Len(b) - 1
         /\ DOMAIN b = 1..Len(b) /\ DOMAIN Tail(b) = 1..(Len(b) - 1)
         /\ \A i \in 1..(Len(b) - 1) : Tail(b)[i] = b[i + 1]
BY HeadTailProperties, LenProperties, EmptySeq

Clients == OneFdPerConn /\ QueueDistinct /\ Lifecycle

LEMMA ClientsKept ==
  ASSUME NetTypes, Clients, UNCHANGED backlog,
         \A c \in Conns : peer'[c] = "none" => peer[c] = "none",
         \A f \in Fd : fdt'[f] \in Conns => fdt'[f] = fdt[f]
  PROVE  Clients'
BY DEF Clients, OneFdPerConn, QueueDistinct, Lifecycle, Queued, Held

LEMMA ClientsConnect ==
  ASSUME NetTypes, Clients, NEW c \in Conns, ClientConnect(c)
  PROVE  Clients' /\ backlog' \in Seq(Conns)
<1>1. backlog \in Seq(Conns) /\ peer[c] = "none" /\ fdt' = fdt
      /\ backlog' = Append(backlog, c)
      /\ \A d \in Conns : peer'[d] = IF d = c THEN "open" ELSE peer[d]
  BY DEF NetTypes, ClientConnect
<1>2. /\ backlog' \in Seq(Conns) /\ Len(backlog) \in Nat /\ Len(backlog') = Len(backlog) + 1
      /\ DOMAIN backlog = 1..Len(backlog) /\ DOMAIN backlog' = 1..(Len(backlog) + 1)
      /\ \A i \in 1..Len(backlog) : backlog'[i] = backlog[i]
      /\ backlog'[Len(backlog) + 1] = c
  BY <1>1, QueueJoin
<1>3. ~Queued(c) /\ ~Held(c)
  BY <1>1 DEF Clients, Lifecycle
<1>4. \A i \in 1..Len(backlog) : backlog[i] # c
  BY <1>2, <1>3 DEF Queued
<1>5. \A i \in 1..(Len(backlog) + 1) : i \in 1..Len(backlog) \/ i = Len(backlog) + 1
  BY <1>2
<1>6. QueueDistinct'
  BY <1>2, <1>4, <1>5 DEF Clients, QueueDistinct
<1>7. \A d \in Conns \ {c} : Queued(d)' => Queued(d)
  BY <1>2, <1>5 DEF Queued
<1>8. Lifecycle'
  BY <1>1, <1>3, <1>7 DEF Clients, Lifecycle, Held
<1>9. OneFdPerConn'
  BY <1>1 DEF Clients, OneFdPerConn
<1> QED
  BY <1>2, <1>6, <1>8, <1>9 DEF Clients

LEMMA ClientsAccept ==
  ASSUME ListTypes, NetTypes, Wiring, MaskListed, Clients, SocketAccept
  PROVE  Clients' /\ backlog' \in Seq(Conns)
<1>1. PICK f \in Fd :
        /\ fdt'[f] = Head(backlog)
        /\ \A g \in Fd \ {f} : \/ fdt'[g] = fdt[g]
                               \/ fdt[g] = Free /\ fdt'[g] = AfDevice
  BY AcceptStep
<1>2. backlog \in Seq(Conns) /\ backlog # <<>> /\ backlog' = Tail(backlog) /\ peer' = peer
  BY DEF NetTypes, SocketAccept, net
<1>3. /\ backlog' \in Seq(Conns) /\ Head(backlog) \in Conns /\ Head(backlog) = backlog[1]
      /\ Len(backlog) \in Nat \ {0} /\ Len(backlog') = Len(backlog) - 1
      /\ DOMAIN backlog = 1..Len(backlog) /\ DOMAIN backlog' = 1..(Len(backlog) - 1)
      /\ \A i \in 1..(Len(backlog) - 1) : backlog'[i] = backlog[i + 1]
  BY <1>2, QueueLeave
<1>4. \A i \in 1..(Len(backlog) - 1) : i + 1 \in 1..Len(backlog) /\ i + 1 # 1
  BY <1>3
<1>5. 1 \in 1..Len(backlog)
  BY <1>3
<1>6. QueueDistinct'
  <2>1. ASSUME NEW i \in 1..(Len(backlog) - 1), NEW j \in 1..(Len(backlog) - 1),
               backlog'[i] = backlog'[j]
        PROVE  i = j
    <3>1. i + 1 = j + 1
      BY <1>3, <1>4, <2>1 DEF Clients, QueueDistinct
    <3> QED
      BY <3>1, <1>3
  <2> QED
    BY <1>3, <2>1 DEF QueueDistinct
<1>7. \A d \in Conns : Queued(d)' => Queued(d) /\ d # Head(backlog)
  BY <1>3, <1>4, <1>5 DEF Queued, Clients, QueueDistinct
<1>8. Queued(Head(backlog)) /\ ~Held(Head(backlog)) /\ peer[Head(backlog)] # "none"
  BY <1>3, <1>5 DEF Queued, Clients, Lifecycle
<1>9. \A g \in Fd \ {f} : fdt'[g] \in Conns => fdt'[g] = fdt[g] /\ fdt'[g] # Head(backlog)
  BY <1>1, <1>8, Descriptors DEF Held
<1>10. OneFdPerConn'
  BY <1>1, <1>9 DEF Clients, OneFdPerConn
<1>11. \A d \in Conns : Held(d)' => Held(d) \/ d = Head(backlog)
  BY <1>1, <1>9 DEF Held
<1>12. Lifecycle'
  BY <1>2, <1>7, <1>8, <1>11 DEF Clients, Lifecycle
<1> QED
  BY <1>3, <1>6, <1>10, <1>12 DEF Clients

LEMMA ClientsStep ==
  ASSUME IInv, [Next]_vars
  PROVE  Clients' /\ backlog' \in Seq(Conns)
<1>1. ListTypes /\ NetTypes /\ Wiring /\ MaskListed /\ Clients
  BY TypeParts DEF IInv, Clients
<1>2. backlog \in Seq(Conns)
  BY <1>1 DEF NetTypes
<1>3. CASE UNCHANGED <<backlog, peer, fdt>>
  BY <1>1, <1>2, <1>3, ClientsKept
<1>4. CASE \E c \in Conns : ClientConnect(c)
  BY <1>1, <1>4, ClientsConnect
<1>5. CASE \E c \in Conns : PeerFinish(c)
  <2>1. UNCHANGED <<backlog, fdt>>
    BY <1>5 DEF PeerFinish, queues
  <2>2. \A c \in Conns : peer'[c] = "none" => peer[c] = "none"
    BY <1>1, <1>5 DEF PeerFinish, NetTypes
  <2> QED
    BY <1>1, <1>2, <2>1, <2>2, ClientsKept
<1>6. CASE DebugDump
  <2>1. UNCHANGED <<backlog, peer>>
    BY <1>6 DEF DebugDump, net
  <2>2. \A f \in Fd : fdt'[f] \in Conns => fdt'[f] = fdt[f]
    BY <1>1, <1>6, DumpKeeps, Descriptors DEF Kept
  <2> QED
    BY <1>1, <1>2, <2>1, <2>2, ClientsKept
<1>7. CASE RemoveMarked
  <2>1. UNCHANGED <<backlog, peer, fdt>>
    BY <1>7 DEF RemoveMarked, net, queues
  <2> QED
    BY <1>1, <1>2, <2>1, ClientsKept
<1>8. CASE SocketAccept
  BY <1>1, <1>8, ClientsAccept
<1>9. CASE BridgedEof
  <2>1. UNCHANGED <<backlog, peer>>
    BY <1>9 DEF BridgedEof, net
  <2>2. \A f \in Fd : fdt'[f] \in Conns => fdt'[f] = fdt[f]
    BY <1>1, <1>9, EofStep, Descriptors
  <2> QED
    BY <1>1, <1>2, <2>1, <2>2, ClientsKept
<1> QED
  BY <1>3, <1>4, <1>5, <1>6, <1>7, <1>8, <1>9, Changes
-----------------------------------------------------------------------------
(* Types. *)

LEMMA Pieces ==
  ASSUME NEW S, NEW s \in Seq(S), NEW n \in 0..Len(s)
  PROVE  /\ Take(s, n) \in Seq(S) /\ DropFirst(s, n) \in Seq(S)
         /\ n = 0 => DropFirst(s, n) = s
<1>1. Len(s) \in Nat /\ \A i \in 1..Len(s) : s[i] \in S
  BY LenProperties, ElementOfSeq
<1>2. n \in 1..(Len(s) + 1) \/ n = 0
  BY <1>1
<1>3. \A i \in 1..n : s[i] \in S
  BY <1>1
<1>4. Take(s, n) \in Seq(S)
  BY <1>1, <1>3, SubSeqProperties DEF Take
<1>5. \A i \in (n + 1)..Len(s) : s[i] \in S
  BY <1>1
<1>6. n + 1 \in 1..(Len(s) + 1)
  BY <1>1
<1>7. DropFirst(s, n) \in Seq(S)
  BY <1>1, <1>5, <1>6, SubSeqProperties DEF DropFirst
<1>8. n = 0 => DropFirst(s, n) = s
  BY SubSeqFull DEF DropFirst
<1> QED
  BY <1>4, <1>7, <1>8

LEMMA MinBounds ==
  ASSUME NEW a \in Nat, NEW b \in Nat
  PROVE  MinOf(a, b) \in 0..a /\ MinOf(a, b) \in 0..b
BY DEF MinOf

\* What the handler of a connection or of the standard input reads.
LEMMA DataRead ==
  ASSUME ListTypes, NetTypes, QueueTypes, Wiring, FiredBridge, Data(In) # <<>>
  PROVE  /\ Data(In) \in Seq(Item)
         /\ In # Stdin => In \in Fd /\ fdt[In] \in Conns /\ Data(In) = rx[fdt[In]]
         /\ In = Stdin => Data(In) = stdin
<1>1. In # Stdin => In \in Fd /\ fdt[In] \in Conns /\ Data(In) = rx[fdt[In]]
  BY FiredEntry DEF Data
<1>2. In = Stdin => Data(In) = stdin
  BY DEF Data
<1> QED
  BY <1>1, <1>2 DEF QueueTypes

LEMMA QueueStep ==
  ASSUME IInv, [Next]_vars
  PROVE  QueueTypes'
<1>1. ListTypes /\ NetTypes /\ QueueTypes /\ Wiring
  BY TypeParts DEF IInv
<1>2. <<>> \in Seq(Item)
  OBVIOUS
<1>3. CASE UNCHANGED <<buffer, stdin, terminal, console, read_buffer, rx, wrote>>
  BY <1>1, <1>3 DEF QueueTypes
<1>4. CASE \E c \in Conns : PeerSend(c)
  <2>1. PICK c \in Conns : PeerSend(c)
    BY <1>4
  <2>2. <<c, sent[c] + 1>> \in Item
    BY <1>1, <2>1, Bounds DEF PeerSend, NetTypes, Item
  <2>3. Append(rx[c], <<c, sent[c] + 1>>) \in Seq(Item)
    BY <1>1, <2>2, AppendProperties DEF QueueTypes
  <2>4. rx' \in [Conns -> Seq(Item)]
    BY <1>1, <2>1, <2>3 DEF PeerSend, QueueTypes
  <2> QED
    BY <1>1, <2>1, <2>4 DEF PeerSend, QueueTypes, local, user, thread
<1>5. CASE UserTypes
  <2>1. <<Stdin, typed + 1>> \in Item
    BY <1>1, <1>5, Bounds DEF UserTypes, NetTypes, Item
  <2>2. stdin' \in Seq(Item) /\ console' \in Seq(Item)
    <3> DEFINE x == <<Stdin, typed + 1>>
    <3>1. Append(stdin, x) \in Seq(Item) /\ Append(console, x) \in Seq(Item)
      BY <1>1, <2>1, AppendProperties DEF QueueTypes
    <3>2. \/ stdin' = Append(stdin, x) /\ console' = console
          \/ console' = Append(console, x) /\ stdin' = stdin
      BY <1>5 DEF UserTypes
    <3> QED
      BY <1>1, <3>1, <3>2 DEF QueueTypes
  <2> QED
    BY <1>1, <1>5, <2>2 DEF UserTypes, QueueTypes, local
<1>6. CASE ThreadReads
  <2>1. MinOf(ThreadBuf, Len(console)) \in 0..Len(console)
    BY <1>1, MinBounds, LenProperties, Bounds DEF QueueTypes
  <2>2. console' \in Seq(Item) /\ read_buffer' \in Seq(Item)
    BY <1>1, <1>6, <2>1, Pieces DEF ThreadReads, QueueTypes
  <2> QED
    BY <1>1, <1>6, <2>2 DEF ThreadReads, QueueTypes, local, queues
<1>7. CASE ThreadWrites
  <2>1. MinOf(PipeCap - Len(stdin), Len(read_buffer)) \in 0..Len(read_buffer)
    <3>1. PipeCap - Len(stdin) \in Nat /\ Len(read_buffer) \in Nat
      BY <1>1, <1>7, LenProperties, Bounds DEF QueueTypes, ThreadWrites
    <3> QED
      BY <3>1, MinBounds
  <2>2. stdin' \in Seq(Item) /\ read_buffer' \in Seq(Item)
    BY <1>1, <1>7, <2>1, Pieces, ConcatProperties DEF ThreadWrites, QueueTypes
  <2> QED
    BY <1>1, <1>7, <2>2 DEF ThreadWrites, QueueTypes, local
<1>8. CASE BridgedRead
  <2> DEFINE len == MinOf(BufSize, Len(Data(In)))
  <2>1. FiredBridge /\ Data(In) # <<>>
    BY <1>8 DEF BridgedRead
  <2>2. /\ Data(In) \in Seq(Item)
        /\ In # Stdin => In \in Fd /\ fdt[In] \in Conns /\ Data(In) = rx[fdt[In]]
        /\ In = Stdin => Data(In) = stdin
    BY <1>1, <2>1, DataRead
  <2>3. len \in 0..Len(Data(In))
    BY <2>2, MinBounds, LenProperties, Bounds
  <2>4. /\ buffer' = Take(Data(In), len)
        /\ IF In = Stdin
            THEN stdin' = DropFirst(stdin, len) /\ rx' = rx
            ELSE rx' = [rx EXCEPT ![fdt[In]] = DropFirst(@, len)] /\ stdin' = stdin
    BY <1>8 DEF BridgedRead
  <2> HIDE DEF len
  <2>5. Take(Data(In), len) \in Seq(Item) /\ DropFirst(Data(In), len) \in Seq(Item)
    BY <2>2, <2>3, Pieces
  <2>6. stdin' \in Seq(Item)
    BY <1>1, <2>2, <2>4, <2>5 DEF QueueTypes
  <2>7. rx' \in [Conns -> Seq(Item)]
    <3>1. CASE In = Stdin
      BY <1>1, <2>4, <3>1 DEF QueueTypes
    <3>2. CASE In # Stdin
      BY <1>1, <2>2, <2>4, <2>5, <3>2 DEF QueueTypes
    <3> QED
      BY <3>1, <3>2
  <2> QED
    BY <1>1, <1>8, <2>4, <2>5, <2>6, <2>7 DEF BridgedRead, QueueTypes, user, thread
<1>9. CASE BridgedEof
  <2>1. rx' \in [Conns -> Seq(Item)]
    BY <1>1, <1>9 DEF BridgedEof, QueueTypes
  <2> QED
    BY <1>1, <1>9, <2>1 DEF BridgedEof, QueueTypes, user, thread
<1>10. CASE WriteToSocket
  <2>1. fdt[Out] \in Conns /\ wrote' = [wrote EXCEPT ![fdt[Out]] = @ \o buffer]
    BY <1>10 DEF WriteToSocket
  <2>2. wrote[fdt[Out]] \o buffer \in Seq(Item)
    BY <1>1, <2>1, ConcatProperties DEF QueueTypes
  <2>3. wrote' \in [Conns -> Seq(Item)]
    BY <1>1, <2>1, <2>2 DEF QueueTypes
  <2> QED
    BY <1>1, <1>2, <1>10, <2>3 DEF WriteToSocket, WriteDone, QueueTypes, user, thread
<1>11. CASE WriteLost
  BY <1>1, <1>2, <1>11 DEF WriteLost, WriteDone, QueueTypes, queues, user, thread
<1>12. CASE WriteToStdin
  <2>1. terminal' \in Seq(Item)
    BY <1>1, <1>12, ConcatProperties DEF WriteToStdin, QueueTypes
  <2> QED
    BY <1>1, <1>2, <1>12, <2>1 DEF WriteToStdin, WriteDone, QueueTypes, user, thread
<1>13. CASE \/ \E c \in Conns : ClientConnect(c) \/ PeerFinish(c)
            \/ UserEnds \/ ThreadStarts \/ ThreadEnds \/ UNCHANGED vars
  <2> USE DEF local, queues, user, thread
  <2> QED
    BY <1>3, <1>13 DEF ClientConnect, PeerFinish, UserEnds, ThreadStarts, ThreadEnds, vars
<1>14. CASE \/ DebugDump \/ RemoveMarked \/ EnterSelect \/ LoopEnds \/ SelectReturns
            \/ SkipEntry \/ PassDone \/ SelectFails
  <2> USE DEF local, queues, user, thread
  <2> QED
    BY <1>3, <1>14
       DEF DebugDump, RemoveMarked, EnterSelect, LoopEnds, SelectReturns, SkipEntry,
           PassDone, SelectFails, NextPass
<1>15. CASE SocketAccept \/ AcceptFails \/ DoubleFree \/ WriteFails
  BY <1>3, <1>15 DEF SocketAccept, AcceptFails, DoubleFree, WriteFails, Stop, queues,
                     user, thread
<1> QED
  BY <1>4, <1>5, <1>6, <1>7, <1>8, <1>9, <1>10, <1>11, <1>12, <1>13, <1>14, <1>15
     DEF Next, Process, Thread, Environment

LEMMA FlagStep ==
  ASSUME FlagTypes, [Next]_vars
  PROVE  FlagTypes' /\ UNCHANGED Machine
<1> USE DEF user, Machine
<1>1. CASE UserEnds
  BY <1>1 DEF UserEnds, FlagTypes
<1>2. CASE UserTypes
  BY <1>2 DEF UserTypes, FlagTypes
<1>3. CASE \E c \in Conns : ClientConnect(c) \/ PeerSend(c) \/ PeerFinish(c)
  BY <1>3 DEF ClientConnect, PeerSend, PeerFinish, FlagTypes
<1>4. CASE Thread
  BY <1>4 DEF Thread, ThreadStarts, ThreadReads, ThreadWrites, ThreadEnds, FlagTypes
<1>5. CASE \/ DebugDump \/ RemoveMarked \/ EnterSelect \/ LoopEnds \/ SelectReturns
           \/ SkipEntry \/ PassDone \/ SelectFails
  BY <1>5 DEF DebugDump, RemoveMarked, EnterSelect, LoopEnds, SelectReturns, SkipEntry,
              PassDone, SelectFails, NextPass, FlagTypes
<1>6. CASE SocketAccept \/ AcceptFails \/ DoubleFree \/ WriteFails
  BY <1>6 DEF SocketAccept, AcceptFails, DoubleFree, WriteFails, Stop, FlagTypes
<1>7. CASE BridgedRead \/ BridgedEof \/ WriteToSocket \/ WriteLost \/ WriteToStdin
  BY <1>7 DEF BridgedRead, BridgedEof, WriteToSocket, WriteLost, WriteToStdin, FlagTypes
<1>8. CASE UNCHANGED vars
  BY <1>8 DEF vars, FlagTypes
<1> QED
  BY <1>1, <1>2, <1>3, <1>4, <1>5, <1>6, <1>7, <1>8 DEF Next, Process, Environment
LEMMA NetStep ==
  ASSUME IInv, [Next]_vars
  PROVE  NetTypes'
<1>1. ListTypes /\ NetTypes /\ Wiring /\ MaskListed
  BY TypeParts DEF IInv
<1>2. backlog' \in Seq(Conns)
  BY ClientsStep
<1>3. fdt' \in [Fd -> Inhabitants]
  <2>1. RemoveMarked => fdt' = fdt
    BY DEF RemoveMarked, queues
  <2> QED
    BY <1>1, <2>1, Changes, DumpKeeps, AcceptStep, EofStep DEF NetTypes
<1>4. /\ peer' \in [Conns -> {"none", "open", "fin", "gone"}]
      /\ sent' \in [Conns -> 0..MaxSend] /\ typed' \in 0..MaxTyped
  <2> USE DEF net, user
  <2>1. CASE \E c \in Conns : PeerSend(c)
    BY <1>1, <2>1, Bounds DEF PeerSend, NetTypes
  <2>2. CASE \E c \in Conns : ClientConnect(c)
    BY <1>1, <2>2 DEF ClientConnect, NetTypes
  <2>3. CASE \E c \in Conns : PeerFinish(c)
    BY <1>1, <2>3 DEF PeerFinish, NetTypes
  <2>4. CASE UserTypes
    BY <1>1, <2>4, Bounds DEF UserTypes, NetTypes
  <2>5. CASE UNCHANGED <<peer, sent, typed>>
    BY <1>1, <2>5 DEF NetTypes
  <2>6. CASE UserEnds \/ UNCHANGED vars \/ Thread
    BY <2>5, <2>6 DEF UserEnds, vars, Thread, ThreadStarts, ThreadReads, ThreadWrites,
                      ThreadEnds
  <2>7. CASE \/ DebugDump \/ RemoveMarked \/ EnterSelect \/ LoopEnds \/ SelectReturns
             \/ SkipEntry \/ PassDone \/ SelectFails
    BY <2>5, <2>7 DEF DebugDump, RemoveMarked, EnterSelect, LoopEnds, SelectReturns,
                      SkipEntry, PassDone, SelectFails, NextPass
  <2>8. CASE SocketAccept \/ AcceptFails \/ DoubleFree \/ WriteFails
    BY <2>5, <2>8 DEF SocketAccept, AcceptFails, DoubleFree, WriteFails, Stop
  <2>9. CASE BridgedRead \/ BridgedEof \/ WriteToSocket \/ WriteLost \/ WriteToStdin
    BY <2>5, <2>9 DEF BridgedRead, BridgedEof, WriteToSocket, WriteLost, WriteToStdin
  <2> QED
    BY <2>1, <2>2, <2>3, <2>4, <2>6, <2>7, <2>8, <2>9 DEF Next, Process, Environment
<1> QED
  BY <1>2, <1>3, <1>4 DEF NetTypes

LEMMA PcStep ==
  ASSUME IInv, [Next]_vars
  PROVE  PcTypes'
<1>1. ListTypes /\ PcTypes
  BY TypeParts DEF IInv
<1> USE DEF SOCKET_LIST, local, user, thread
<1>2. pos + 1 \in Nat \ {0}
  BY <1>1 DEF PcTypes
<1>3. CASE EnterSelect
  <2>1. socket_list2fd_set(sockets) \subseteq Watched
    BY <1>1, ListElems DEF socket_list2fd_set, FdEntry, SOCKET_ENTRY, Elems
  <2> QED
    BY <1>1, <1>3, <2>1 DEF EnterSelect, PcTypes
<1>4. CASE SelectReturns
  BY <1>1, <1>4 DEF SelectReturns, Ready, PcTypes
<1>5. CASE \/ DebugDump \/ RemoveMarked \/ LoopEnds \/ PassDone \/ SelectFails
           \/ AcceptFails
           \/ DoubleFree \/ WriteFails
  BY <1>1, <1>5 DEF DebugDump, RemoveMarked, LoopEnds, PassDone, SelectFails, NextPass,
                    PassStart, AcceptFails,
                    DoubleFree, WriteFails, Stop, PcTypes
<1>6. CASE SocketAccept
  BY <1>1, <1>2, <1>6 DEF SocketAccept, Continue, Counted, PcTypes
<1>7. CASE \/ SkipEntry \/ BridgedRead \/ BridgedEof \/ WriteToSocket \/ WriteLost
           \/ WriteToStdin
  BY <1>1, <1>2, <1>7 DEF SkipEntry, BridgedRead, BridgedEof, WriteToSocket, WriteLost,
                          WriteToStdin, WriteDone, Continue, PcTypes
<1>8. CASE Thread
  BY <1>1, <1>8 DEF Thread, ThreadStarts, ThreadReads, ThreadWrites, ThreadEnds, PcTypes
<1>9. CASE Environment \/ UNCHANGED vars
  BY <1>1, <1>9 DEF Environment, ClientConnect, PeerSend, PeerFinish, UserTypes, UserEnds,
                    vars, PcTypes
<1> QED
  BY <1>3, <1>4, <1>5, <1>6, <1>7, <1>8, <1>9 DEF Next, Process

LEMMA TypesStep ==
  ASSUME IInv, [Next]_vars
  PROVE  StateTypes'
<1>1. FlagTypes'
  BY FlagStep, TypeParts DEF IInv
<1>2. ListTypes' /\ QueueTypes' /\ NetTypes' /\ PcTypes'
  BY WiringStep, QueueStep, NetStep, PcStep
<1>3. (ListTypes /\ QueueTypes /\ NetTypes /\ PcTypes /\ FlagTypes)' => StateTypes'
  BY DEF StateTypes, ListTypes, QueueTypes, NetTypes, PcTypes, FlagTypes, FdEntry,
         Watched, Inhabitants
<1> QED
  BY <1>1, <1>2, <1>3
-----------------------------------------------------------------------------
(* What select watched and reported. *)

\* What is ready on a descriptor that keeps its use stays ready, whatever the
\* peers, the user and the thread do.
LEMMA ReadableKept ==
  ASSUME NEW f \in Fd, Readable(f), fdt'[f] = fdt[f],
         fdt[f] = Listener => (backlog # <<>> => backlog' # <<>>),
         fdt[f] \in Conns => /\ rx[fdt[f]] # <<>> => rx'[fdt[f]] # <<>>
                             /\ peer[fdt[f]] \in {"fin", "gone"} =>
                                  peer'[fdt[f]] \in {"fin", "gone"}
  PROVE  Readable(f)'
<1>1. f # Stdin
  BY Descriptors
<1>2. CASE fdt[f] = Listener
  BY <1>1, <1>2, Descriptors DEF Readable, Data, AtEnd
<1>3. CASE fdt[f] \in Conns
  BY <1>1, <1>3, Descriptors DEF Readable, Data, AtEnd
<1>4. CASE fdt[f] \notin Conns \cup {Listener}
  BY <1>1, <1>4, Descriptors DEF Readable, Data, AtEnd
<1> QED
  BY <1>2, <1>3, <1>4

\* It suffices to look at one unmarked entry that is still ahead.
LEMMA MaskRightEntry ==
  ASSUME \A i \in 1..Len(Elems') : \A f \in Fd :
           /\ Ahead(i)' /\ ~Elems'[i].deleted
           /\ Elems'[i].socket = f /\ f \in socket_mask' /\ f < SelectWord
           => Readable(f)'
  PROVE  MaskRight'
BY DEF MaskRight, Readable, Data, AtEnd

LEMMA MaskRightFrame ==
  ASSUME MaskRight, UNCHANGED <<sockets, fdt>>, socket_mask' \subseteq socket_mask,
         \A i \in 1..Len(Elems) : Ahead(i)' => Ahead(i),
         backlog # <<>> => backlog' # <<>>,
         \A c \in Conns : /\ rx[c] # <<>> => rx'[c] # <<>>
                          /\ peer[c] \in {"fin", "gone"} => peer'[c] \in {"fin", "gone"}
  PROVE  MaskRight'
<1>1. Elems' = Elems
  BY DEF Elems
<1>2. ASSUME NEW i \in 1..Len(Elems'), NEW f \in Fd,
             Ahead(i)', ~Elems'[i].deleted, Elems'[i].socket = f, f \in socket_mask',
             f < SelectWord
      PROVE  Readable(f)'
  <2>1. Readable(f)
    BY <1>1, <1>2 DEF MaskRight
  <2> QED
    BY <2>1, ReadableKept
<1> QED
  BY <1>2, MaskRightEntry

\* The end of a stream and the reading of one leave the others as they were.
LEMMA MaskRightRead ==
  ASSUME ListTypes, NetTypes, QueueTypes, Wiring, OneFdPerConn, MaskRight, BridgedRead
  PROVE  MaskRight'
<1>1. /\ FiredBridge /\ Data(In) # <<>> /\ UNCHANGED <<sockets, fdt, backlog, peer>>
      /\ pc = "handle" /\ pc' = "write" /\ pos' = pos /\ socket_mask' = socket_mask
      /\ Elems' = Elems
  BY DEF BridgedRead, FiredBridge, Fired, Visited, SOCKET_LIST, net, Elems
<1>2. /\ pos \in 1..Len(Elems) /\ In = Elems[pos].socket /\ In \in Fd \cup {Stdin}
      /\ In # Stdin => fdt[In] \in Conns
  BY <1>1, FiredEntry, DataRead DEF In
<1>3. ASSUME NEW i \in 1..Len(Elems'), NEW f \in Fd,
             Ahead(i)', ~Elems'[i].deleted, Elems'[i].socket = f, f \in socket_mask',
             f < SelectWord
      PROVE  Readable(f)'
  <2>1. i > pos /\ i \in 1..Len(Elems)
    BY <1>1, <1>3 DEF Ahead
  <2>2. Readable(f)
    <3>1. i >= pos
      BY <2>1, <1>2, ListElems
    <3> QED
      BY <1>1, <1>3, <3>1 DEF MaskRight, Ahead
  <2>3. f # In
    <3>1. i # pos
      BY <2>1, <1>2, ListElems
    <3> QED
      BY <1>1, <1>2, <1>3, <2>1, <3>1 DEF Wiring, SocketsDistinct
  <2>4. fdt[f] \in Conns => rx'[fdt[f]] = rx[fdt[f]]
    <3>1. CASE In = Stdin
      BY <3>1 DEF BridgedRead
    <3>2. CASE In # Stdin
      <4>1. fdt[f] \in Conns => fdt[f] # fdt[In]
        BY <1>2, <2>3, <3>2 DEF OneFdPerConn
      <4>2. rx' = [rx EXCEPT ![fdt[In]] = DropFirst(@, MinOf(BufSize, Len(Data(In))))]
        BY <3>2 DEF BridgedRead
      <4> QED
        BY <4>1, <4>2 DEF QueueTypes
    <3> QED
      BY <3>1, <3>2
  <2> QED
    BY <1>1, <2>2, <2>4, ReadableKept
<1> QED
  BY <1>3, MaskRightEntry

LEMMA MaskRightEof ==
  ASSUME ListTypes, NetTypes, QueueTypes, Wiring, OneFdPerConn, MaskRight, BridgedEof
  PROVE  MaskRight'
<1>1. /\ UNCHANGED <<backlog, peer>> /\ socket_mask' = socket_mask
      /\ rx' = [c \in Conns |-> IF \E f \in {In, Out} \cap Fd : fdt[f] = c THEN <<>>
                                ELSE rx[c]]
  BY DEF BridgedEof, net
<1>2. /\ pos \in 1..Len(Elems) /\ pc = "handle" /\ pos' = pos + 1 /\ pc' = "handle"
      /\ \A f \in Fd : fdt'[f] = IF f \in {In, Out} THEN Free ELSE fdt[f]
  BY EofStep
<1>3. /\ Len(Elems') = Len(Elems) /\ Len(Elems) \in Nat
      /\ \A i \in 1..Len(Elems) :
           /\ Elems'[i].socket = Elems[i].socket
           /\ Elems[i].deleted => Elems'[i].deleted
           /\ Elems[i].socket \in Fd =>
                (Elems'[i].deleted <=> Elems[i].deleted \/ Elems[i].socket \in {In, Out})
  BY EofList
<1>4. ASSUME NEW i \in 1..Len(Elems'), NEW f \in Fd,
             Ahead(i)', ~Elems'[i].deleted, Elems'[i].socket = f, f \in socket_mask',
             f < SelectWord
      PROVE  Readable(f)'

   <2>1. i \in 1..Len(Elems) /\ Elems[i].socket = f /\ ~Elems[i].deleted /\ f \notin {In, Out}
    BY <1>3, <1>4
  <2>2. Readable(f)
    <3>1. i >= pos
      BY <2>1, <1>2, <1>3, <1>4 DEF Ahead
    <3> QED
      BY <1>1, <1>2, <1>4, <2>1, <3>1 DEF MaskRight, Ahead
  <2>3. fdt'[f] = fdt[f]
    BY <1>2, <2>1
  <2>4. fdt[f] \in Conns => rx'[fdt[f]] = rx[fdt[f]]
    <3>1. fdt[f] \in Conns => ~ \E g \in {In, Out} \cap Fd : fdt[g] = fdt[f]
      BY <2>1 DEF OneFdPerConn
    <3> QED
      BY <1>1, <3>1
  <2> QED
    BY <1>1, <2>2, <2>3, <2>4, ReadableKept
<1> QED
  BY <1>4, MaskRightEntry

\* The listening entry is the first, so accept takes from no entry ahead; the
\* descriptor it adds is not in the mask.
LEMMA MaskRightAccept ==
  ASSUME ListTypes, NetTypes, Wiring, MaskListed, MaskRight, SocketAccept
  PROVE  MaskRight'
<1>1. UNCHANGED <<socket_mask, peer, rx>>
  BY DEF SocketAccept, net
<1>2. PICK g \in Fd :
        /\ \A i \in 1..Len(Elems) : Elems[i].socket # g
        /\ sockets' = Bridged(sockets, g)
        /\ \A f \in Fd \ {g} : \/ fdt'[f] = fdt[f]
                               \/ fdt[f] = Free /\ fdt'[f] = AfDevice
  BY AcceptStep
<1>3. pos = 1 /\ pc = "handle" /\ pos' = 2 /\ pc' = "handle"
  BY AcceptStep
<1>4. NoneMarked /\ \A f \in socket_mask : \E i \in 1..Len(Elems) : Elems[i].socket = f
  BY <1>3 DEF MaskListed
<1>5. PICK L \in Nat : L = Len(Elems)
  BY ListElems
<1>6. Elems \in Seq(FdEntry) /\ sockets = AtRear(Elems)
  BY ListElems DEF Wiring
<1>7. PICK t \in Seq(FdEntry) :
        /\ Bridged(AtRear(Elems), g) = AtRear(t) /\ Len(t) = L + 2
        /\ \A i \in 1..L : t[i] = Elems[i]
        /\ t[L + 1] = SocketOf(g) /\ t[L + 2] = StdinOf(g)
  BY <1>5, <1>6, BridgedList
<1>8. Elems' = t
  BY <1>2, <1>6, <1>7 DEF AtRear, Elems
<1>9. ASSUME NEW i \in 1..Len(Elems'), NEW f \in Fd,
             Ahead(i)', ~Elems'[i].deleted, Elems'[i].socket = f, f \in socket_mask',
             f < SelectWord
      PROVE  Readable(f)'
  <2>1. i >= 2 /\ (i \in 1..L \/ i = L + 1 \/ i = L + 2)
    BY <1>3, <1>7, <1>8, <1>9 DEF Ahead
  <2>2. f # g
    BY <1>1, <1>2, <1>4, <1>9
  <2>3. i \in 1..L /\ i # 1
    BY <1>7, <1>8, <1>9, <2>1, <2>2, Descriptors DEF SocketOf, StdinOf
  <2>4. Elems[i].socket = f /\ i \in 1..Len(Elems)
    BY <1>5, <1>7, <1>8, <1>9, <2>3
  <2>5. SocketEntry(i) /\ fdt[f] \in Conns
    BY <1>4, <2>3, <2>4, Descriptors
       DEF Wiring, EntriesKnown, ListenEntry, SocketEntry, StdinEntry, NoneMarked
  <2>6. Readable(f)
    <3>1. i >= pos
      BY <2>1, <1>3
    <3> QED
      BY <1>1, <1>3, <1>4, <1>9, <2>4, <3>1 DEF MaskRight, Ahead, NoneMarked
  <2>7. fdt'[f] = fdt[f]
    BY <1>2, <2>2, <2>5, Descriptors
  <2> QED
    BY <1>1, <2>5, <2>6, <2>7, Descriptors, ReadableKept
<1> QED
  BY <1>9, MaskRightEntry
\* The first entry, while nothing is marked, watches a connection or listens.
LEMMA EnterStep ==
  ASSUME ListTypes, Wiring, EnterSelect
  PROVE  MaskListed' /\ MaskFilled' /\ MaskRight'
<1>1. /\ pc' = "select" /\ Elems' = Elems /\ NoneMarked' /\ NoneMarked
      /\ DOMAIN Elems = 1..Len(Elems) /\ Len(Elems) \in Nat
  BY ListElems DEF EnterSelect, HasMarked, NoneMarked, Elems, SOCKET_LIST
<1>2. socket_mask' = {Elems[i].socket : i \in 1..Len(Elems)}
                       \ {f \in Watched : is_special_descriptor(f)}
  <2>1. socket_list2fd_set(sockets) = {Elems[i].socket : i \in 1..Len(Elems)}
    BY <1>1 DEF socket_list2fd_set, NoneMarked, Elems
  <2>2. \A i \in 1..Len(Elems) : Elems[i].socket \in Watched
    BY ListElems DEF FdEntry, SOCKET_ENTRY
  <2>3. socket_mask' = {f \in socket_list2fd_set(sockets) : ~is_special_descriptor(f)}
    BY DEF EnterSelect
  <2> QED
    BY <2>1, <2>2, <2>3
<1>3. MaskListed'
  <2>1. \A f \in socket_mask' : \E i \in 1..Len(Elems') : Elems'[i].socket = f
    BY <1>1, <1>2
  <2> QED
    BY <1>1, <2>1 DEF MaskListed
<1>4. MaskFilled'
  <2>1. Elems # <<>> /\ Elems \in Seq(FdEntry)
    BY ListElems DEF EnterSelect, list_empty, Elems
  <2>2. 1 \in 1..Len(Elems)
    BY <2>1, LenProperties, EmptySeq
  <2>3. Elems[1].socket \in Fd
    BY <2>2 DEF Wiring, EntriesKnown, ListenEntry, SocketEntry, StdinEntry
  <2>4. Elems[1].socket \in socket_mask'
    BY <1>2, <2>2, <2>3, Descriptors DEF is_special_descriptor
  <2> QED
    BY <2>4 DEF MaskFilled
<1>5. MaskRight'
  BY <1>1 DEF MaskRight, Ahead
<1> QED
  BY <1>3, <1>4, <1>5

LEMMA ReturnStep ==
  ASSUME ListTypes, PcTypes, MaskListed, SelectReturns
  PROVE  MaskListed' /\ MaskFilled' /\ MaskRight'
<1>1. /\ pc = "select" /\ pc' = "handle" /\ Elems' = Elems
      /\ socket_mask' \subseteq socket_mask
      /\ \A f \in socket_mask' : f \in Ready \/ f >= SelectWord
      /\ UNCHANGED <<fdt, backlog, peer, rx>>
  BY DEF SelectReturns, Ready, SOCKET_LIST, net, queues, Elems
<1>2. MaskListed' /\ MaskFilled'
  BY <1>1 DEF MaskListed, MaskFilled, NoneMarked
<1>3. ASSUME NEW i \in 1..Len(Elems'), NEW f \in Fd,
             Ahead(i)', ~Elems'[i].deleted, Elems'[i].socket = f, f \in socket_mask',
             f < SelectWord
      PROVE  Readable(f)'
  <2>1. f \in Ready
    <3>1. f \in Nat /\ SelectWord \in Nat
      BY Descriptors, InteractiveAssumption
    <3> QED
      BY <1>1, <1>3, <3>1
  <2>2. Readable(f)
    BY <2>1 DEF Ready
  <2> QED
    BY <1>1, <2>2, ReadableKept
<1> QED
  BY <1>2, <1>3, MaskRightEntry

\* An entry that is passed without a change to the list or the descriptors.
LEMMA PassStep ==
  ASSUME PcTypes, MaskListed, MaskRight, UNCHANGED <<sockets, fdt, socket_mask,
  backlog, rx, peer>>,
         pc \in {"handle", "write"}, Continue
  PROVE  MaskListed' /\ MaskFilled' /\ MaskRight'
<1>1. pos' # 1 /\ pc' = "handle" /\ pos' = pos + 1 /\ pos \in Nat
  BY DEF Continue, PcTypes
<1>2. MaskListed' /\ MaskFilled'
  BY <1>1 DEF MaskListed, MaskFilled
<1>3. \A i \in 1..Len(Elems) : Ahead(i)' => Ahead(i)
  BY <1>1 DEF Ahead
<1> QED
  BY <1>2, <1>3, MaskRightFrame

\* A step outside the select loop's traversal.
LEMMA OutsideStep ==
  ASSUME MaskListed, MaskFilled, MaskRight,
         UNCHANGED <<sockets, fdt, socket_mask, pc, pos>>,
         backlog # <<>> => backlog' # <<>>,
         \A c \in Conns : /\ rx[c] # <<>> => rx'[c] # <<>>
                          /\ peer[c] \in {"fin", "gone"} => peer'[c] \in {"fin", "gone"}
  PROVE  MaskListed' /\ MaskFilled' /\ MaskRight'
<1>1. MaskListed' /\ MaskFilled'
  BY DEF MaskListed, MaskFilled, NoneMarked, Elems
<1>2. \A i \in 1..Len(Elems) : Ahead(i)' => Ahead(i)
  BY DEF Ahead
<1> QED
  BY <1>1, <1>2, MaskRightFrame

LEMMA MaskStep ==
  ASSUME IInv, [Next]_vars
  PROVE  MaskListed' /\ MaskFilled' /\ MaskRight'
<1>1. /\ ListTypes /\ NetTypes /\ QueueTypes /\ PcTypes /\ Wiring /\ OneFdPerConn
      /\ MaskListed /\ MaskFilled /\ MaskRight
  BY TypeParts DEF IInv
<1> USE DEF SOCKET_LIST, local, net, queues, user, thread
<1>2. CASE EnterSelect
  BY <1>1, <1>2, EnterStep
<1>3. CASE SelectReturns
  BY <1>1, <1>3, ReturnStep
<1>4. CASE DebugDump \/ RemoveMarked \/ LoopEnds \/ PassDone \/ SelectFails \/ AcceptFails
           \/ DoubleFree \/ WriteFails
  <2>1. pc' \in {"dump", "cleanup", "exited", "aborted"}
    <3>1. CASE DebugDump \/ LoopEnds \/ PassDone \/ SelectFails
      BY <3>1 DEF DebugDump, LoopEnds, PassDone, SelectFails, NextPass, PassStart
    <3>2. CASE RemoveMarked
      BY <3>2 DEF RemoveMarked
    <3>3. CASE AcceptFails \/ DoubleFree \/ WriteFails
      BY <3>3 DEF AcceptFails, DoubleFree, WriteFails, Stop
    <3> QED
      BY <1>4, <3>1, <3>2, <3>3
  <2> QED
    BY <2>1 DEF MaskListed, MaskFilled, MaskRight, Ahead
<1>5. CASE SkipEntry \/ WriteToSocket \/ WriteLost \/ WriteToStdin
  <2>1. UNCHANGED <<sockets, fdt, socket_mask, backlog, rx, peer>>
        /\ pc \in {"handle", "write"} /\ Continue
    BY <1>5 DEF SkipEntry, Visited, WriteToSocket, WriteLost, WriteToStdin, WriteDone
  <2> QED
    BY <1>1, <2>1, PassStep
<1>6. CASE SocketAccept
  <2>1. pos' = 2 /\ pc' = "handle"
    BY <1>1, <1>6, AcceptStep
  <2> QED
    BY <1>1, <1>6, <2>1, MaskRightAccept DEF MaskListed, MaskFilled
<1>7. CASE BridgedRead
  <2>1. pc' = "write"
    BY <1>7 DEF BridgedRead
  <2> QED
    BY <1>1, <1>7, <2>1, MaskRightRead DEF MaskListed, MaskFilled
<1>8. CASE BridgedEof
  <2>1. pos' # 1 /\ pc' = "handle"
    BY <1>8, <1>1 DEF BridgedEof, Continue, PcTypes
  <2> QED
    BY <1>1, <1>8, <2>1, MaskRightEof DEF MaskListed, MaskFilled
<1>9. CASE \E c \in Conns : ClientConnect(c)
  <2>1. PICK c \in Conns : ClientConnect(c)
    BY <1>9
  <2>2. UNCHANGED <<sockets, fdt, socket_mask, pc, pos, rx>>
    BY <2>1 DEF ClientConnect
  <2>3. backlog' # <<>>
    <3>1. backlog' = Append(backlog, c) /\ backlog \in Seq(Conns)
      BY <1>1, <2>1 DEF ClientConnect, NetTypes
    <3> QED
      BY <3>1, AppendProperties
  <2>4. \A d \in Conns : peer[d] \in {"fin", "gone"} => peer'[d] \in {"fin", "gone"}
    BY <1>1, <2>1 DEF ClientConnect, NetTypes
  <2> QED
    BY <1>1, <2>2, <2>3, <2>4, OutsideStep
<1>10. CASE \E c \in Conns : PeerSend(c)
  <2>1. PICK c \in Conns : PeerSend(c)
    BY <1>10
  <2>2. UNCHANGED <<sockets, fdt, socket_mask, pc, pos, backlog, peer>>
    BY <2>1 DEF PeerSend
  <2>3. \A d \in Conns : rx[d] # <<>> => rx'[d] # <<>>
    <3>1. rx' = [rx EXCEPT ![c] = Append(@, <<c, sent[c] + 1>>)]
      BY <2>1 DEF PeerSend
    <3>2. rx[c] \in Seq(Item) /\ <<c, sent[c] + 1>> \in Item
      BY <1>1, <2>1, Bounds DEF PeerSend, NetTypes, QueueTypes, Item
    <3>3. Append(rx[c], <<c, sent[c] + 1>>) # <<>>
      BY <3>2, AppendProperties
    <3> QED
      BY <1>1, <3>1, <3>3 DEF QueueTypes
  <2> QED
    BY <1>1, <2>2, <2>3, OutsideStep
<1>11. CASE \E c \in Conns : PeerFinish(c)
  <2>1. UNCHANGED <<sockets, fdt, socket_mask, pc, pos, backlog, rx>>
    BY <1>11 DEF PeerFinish
  <2>2. \A d \in Conns : peer[d] \in {"fin", "gone"} => peer'[d] \in {"fin", "gone"}
    BY <1>1, <1>11 DEF PeerFinish, NetTypes
  <2> QED
    BY <1>1, <2>1, <2>2, OutsideStep
<1>12. CASE Thread \/ UserTypes \/ UserEnds \/ UNCHANGED vars
  <2>1. UNCHANGED <<sockets, fdt, socket_mask, pc, pos, backlog, rx, peer>>
    BY <1>12 DEF Thread, ThreadStarts, ThreadReads, ThreadWrites, ThreadEnds, UserTypes,
                 UserEnds, vars
  <2> QED
    BY <1>1, <2>1, OutsideStep
<1> QED
  BY <1>2, <1>3, <1>4, <1>5, <1>6, <1>7, <1>8, <1>9, <1>10, <1>11, <1>12
     DEF Next, Process, Environment

-----------------------------------------------------------------------------
(* The theorems. *)

\* The invariant holds of every execution.
THEOREM Invariance == Spec => []IInv
<1>1. Init => IInv
  BY InitIInv
<1>2. IInv /\ [Next]_vars => IInv'
  <2> SUFFICES ASSUME IInv, [Next]_vars PROVE IInv'
    OBVIOUS
  <2>1. StateTypes' /\ Wiring' /\ Clients'
    BY TypesStep, WiringStep, ClientsStep
  <2>2. MaskListed' /\ MaskFilled' /\ MaskRight'
    BY MaskStep
  <2> QED
    BY <2>1, <2>2 DEF IInv, Clients
<1> QED
  BY <1>1, <1>2, PTL DEF Spec

\* A server stays in the loop (socket_accept, socket_list_delete, the removal
\* loop): however many connections share the standard input and end, a
\* listening socket is registered and open.
THEOREM ServerStays ==
  ASSUME Mode = "listen"
  PROVE  Spec => []ServerListens
<1>1. IInv => ServerListens
  <2> SUFFICES ASSUME IInv PROVE ServerListens
    OBVIOUS
  <2>1. ListTypes
    BY TypeParts DEF IInv
  <2>2. 1 \in 1..Len(Elems) /\ ListenEntry(1)
    BY <2>1, ListElems DEF IInv, Wiring, EntriesKnown
  <2> QED
    BY <2>1, <2>2, ListElems DEF ServerListens, ListenEntry, Elems
<1> QED
  BY <1>1, Invariance, PTL

\* No handler blocks the loop on a connection's socket, nor on Windows on the
\* pipe, however many entries share it (bridged_socket_event_handler,
\* sock_handle_poll_for_special_descriptor_event), as long as no descriptor
\* reaches the words of the mask that select does not write back: with the code's
\* 500, no more than 512 descriptors.  Above, a bit stays as it was set and a
\* handler may block.
THEOREM HandlersNeverWait ==
  ASSUME MaxFd + MoreFds <= SelectWord
  PROVE  Spec => []HandlersRead
<1>1. IInv => HandlersRead
  <2> SUFFICES ASSUME IInv, FiredBridge, ~Entry.deleted,
                      In = Stdin => platform = "windows"
               PROVE  Readable(In)
    BY DEF HandlersRead
  <2>1. ListTypes /\ Wiring /\ MaskRight
    BY TypeParts DEF IInv
  <2>2. pos \in 1..Len(Elems) /\ Entry = Elems[pos] /\ pc = "handle"
        /\ (In \in Fd \/ In = Stdin)
    BY <2>1, FiredEntry
  <2>3. CASE In = Stdin
    <3>1. Data(In) # <<>>
      BY <2>3 DEF FiredBridge, Fired, is_special_descriptor, In,
                  sock_handle_poll_for_special_descriptor_event
    <3> QED
      BY <3>1 DEF Readable
  <2>4. CASE In \in Fd
    <3>1. In \in socket_mask
      BY <2>4, Descriptors DEF FiredBridge, Fired, is_special_descriptor, In
    <3>2. Ahead(pos)
      BY <2>1, <2>2, ListElems DEF Ahead
    <3>3. In < SelectWord
      BY <2>4, FdBelow, InteractiveAssumption
    <3> QED
      BY <2>1, <2>2, <2>4, <3>1, <3>2, <3>3 DEF MaskRight, In
  <2> QED
    BY <2>2, <2>3, <2>4
<1> QED
  BY <1>1, Invariance, PTL
-----------------------------------------------------------------------------
(* The counter of special descriptors, which nothing lowers. *)

RegisteredSet == {c \in Conns : Registered(c)}

LEMMA CountStep ==
  ASSUME IsFiniteSet(Conns), IInv, CountBounded, [Next]_vars
  PROVE  CountBounded'
<1>1. ListTypes /\ NetTypes /\ PcTypes /\ Wiring /\ MaskListed
  BY TypeParts DEF IInv
<1>2. /\ IsFiniteSet(RegisteredSet) /\ IsFiniteSet(RegisteredSet')
      /\ Cardinality(RegisteredSet) \in Nat /\ Cardinality(RegisteredSet') \in Nat
  <2>1. RegisteredSet \subseteq Conns /\ RegisteredSet' \subseteq Conns
    BY DEF RegisteredSet
  <2> QED
    BY <2>1, FS_Subset, FS_CardinalityType
<1>3. n_special_descriptors \in Nat /\ n_special_descriptors <= Cardinality(RegisteredSet)
  BY <1>1 DEF PcTypes, CountBounded, RegisteredSet
<1>4. ASSUME n_special_descriptors' = n_special_descriptors,
             RegisteredSet \subseteq RegisteredSet'
      PROVE  CountBounded'
  <2>1. Cardinality(RegisteredSet) <= Cardinality(RegisteredSet')
    BY <1>2, <1>4, FS_Subset
  <2>2. n_special_descriptors' <= Cardinality(RegisteredSet')
    BY <1>2, <1>3, <1>4, <2>1
  <2> QED
    BY <2>2 DEF CountBounded, RegisteredSet
<1>5. CASE SocketAccept
  <2>1. Mode = "listen"
    BY <1>1, <1>5, ListElems
       DEF SocketAccept, Fired, Visited, Entry, Elems, Wiring, EntriesKnown, ListenEntry,
           SocketEntry, StdinEntry
  <2>2. backlog \in Seq(Conns) /\ backlog # <<>> /\ backlog' = Tail(backlog) /\ peer' = peer
    BY <1>1, <1>5 DEF NetTypes, SocketAccept, net
  <2>3. /\ Head(backlog) \in Conns /\ Head(backlog) = backlog[1]
        /\ Len(backlog) \in Nat \ {0}
        /\ DOMAIN backlog = 1..Len(backlog) /\ DOMAIN backlog' = 1..(Len(backlog) - 1)
        /\ \A i \in 1..(Len(backlog) - 1) : backlog'[i] = backlog[i + 1]
    BY <2>2, QueueLeave
  <2>4. \A i \in 1..(Len(backlog) - 1) : i + 1 \in 1..Len(backlog) /\ i + 1 # 1
    BY <2>3
  <2>5. 1 \in 1..Len(backlog)
    BY <2>3
  <2>6. PICK h \in Conns : h = Head(backlog)
    BY <2>3
  <2>7. Queued(h) /\ ~Queued(h)' /\ peer[h] # "none"
    BY <2>3, <2>4, <2>5, <2>6 DEF Queued, IInv, QueueDistinct, Lifecycle
  <2>8. \A d \in Conns : Queued(d)' => Queued(d)
    BY <2>3, <2>4 DEF Queued
  <2>9. h \notin RegisteredSet /\ RegisteredSet \cup {h} \subseteq RegisteredSet'
    BY <2>1, <2>2, <2>7, <2>8, Bounds DEF RegisteredSet, Registered
  <2>10. Cardinality(RegisteredSet) + 1 <= Cardinality(RegisteredSet')
    <3>1. Cardinality(RegisteredSet \cup {h}) = Cardinality(RegisteredSet) + 1
      BY <1>2, <2>9, FS_AddElement
    <3> QED
      BY <1>2, <2>9, <3>1, FS_Subset
  <2>11. n_special_descriptors' \in {n_special_descriptors, n_special_descriptors + 1}
    BY <1>5 DEF SocketAccept, Counted
  <2>12. n_special_descriptors' <= Cardinality(RegisteredSet')
    BY <1>2, <1>3, <2>10, <2>11
  <2> QED
    BY <2>12 DEF CountBounded, RegisteredSet
<1>6. ASSUME n_special_descriptors' = n_special_descriptors, UNCHANGED <<peer, backlog>>
      PROVE  CountBounded'
  <2>1. RegisteredSet \subseteq RegisteredSet'
    BY <1>6 DEF RegisteredSet, Registered, Queued
  <2> QED
    BY <1>4, <1>6, <2>1
<1> USE DEF SOCKET_LIST, local, net, queues, user, thread
<1>7. CASE \E c \in Conns : ClientConnect(c)
  <2>1. PICK c \in Conns : ClientConnect(c)
    BY <1>7
  <2>2. /\ Mode = "listen" /\ peer[c] = "none" /\ backlog' = Append(backlog, c)
        /\ backlog \in Seq(Conns) /\ \A d \in Conns \ {c} : peer'[d] = peer[d]
        /\ n_special_descriptors' = n_special_descriptors
    BY <1>1, <2>1 DEF ClientConnect, NetTypes
  <2>3. /\ Len(backlog) \in Nat
        /\ DOMAIN backlog = 1..Len(backlog) /\ DOMAIN backlog' = 1..(Len(backlog) + 1)
        /\ \A i \in 1..Len(backlog) : backlog'[i] = backlog[i]
        /\ backlog'[Len(backlog) + 1] = c
    BY <2>2, QueueJoin
  <2>4. \A i \in 1..(Len(backlog) + 1) : i \in 1..Len(backlog) \/ i = Len(backlog) + 1
    BY <2>3
  <2>5. \A d \in Conns \ {c} : Queued(d)' => Queued(d)
    BY <2>3, <2>4 DEF Queued
  <2>6. RegisteredSet \subseteq RegisteredSet'
    BY <2>2, <2>5, Bounds DEF RegisteredSet, Registered
  <2> QED
    BY <1>4, <2>2, <2>6
<1>8. CASE \E c \in Conns : PeerFinish(c)
  <2>1. /\ n_special_descriptors' = n_special_descriptors /\ backlog' = backlog
        /\ \A d \in Conns : peer[d] # "none" => peer'[d] # "none"
    BY <1>1, <1>8 DEF PeerFinish, NetTypes
  <2>2. RegisteredSet \subseteq RegisteredSet'
    BY <2>1 DEF RegisteredSet, Registered, Queued
  <2> QED
    BY <1>4, <2>1, <2>2
<1>9. CASE \/ \E c \in Conns : PeerSend(c)
           \/ UserTypes \/ UserEnds \/ Thread \/ UNCHANGED vars
  BY <1>6, <1>9 DEF PeerSend, UserTypes, UserEnds, Thread, ThreadStarts, ThreadReads,
                    ThreadWrites, ThreadEnds, vars
<1>10. CASE \/ DebugDump \/ RemoveMarked \/ EnterSelect \/ LoopEnds \/ SelectReturns
            \/ SkipEntry \/ PassDone \/ SelectFails
  BY <1>6, <1>10 DEF DebugDump, RemoveMarked, EnterSelect, LoopEnds, SelectReturns,
                     SkipEntry, PassDone, SelectFails, NextPass
<1>11. CASE AcceptFails \/ DoubleFree \/ WriteFails
  BY <1>6, <1>11 DEF AcceptFails, DoubleFree, WriteFails, Stop
<1>12. CASE BridgedRead \/ BridgedEof \/ WriteToSocket \/ WriteLost \/ WriteToStdin
  BY <1>6, <1>12 DEF BridgedRead, BridgedEof, WriteToSocket, WriteLost, WriteToStdin
<1> QED
  BY <1>5, <1>7, <1>8, <1>9, <1>10, <1>11, <1>12 DEF Next, Process, Environment

\* The types, and that the counter of special descriptors counts each
\* connection once (bridge_sockets_and_descriptors, socket_list_insert).
THEOREM TypeCorrect ==
  ASSUME IsFiniteSet(Conns)
  PROVE  Spec => []TypeOK
<1>1. Init => CountBounded
  <2> SUFFICES ASSUME Init PROVE CountBounded
    OBVIOUS
  <2>1. IsFiniteSet(RegisteredSet) /\ Cardinality(RegisteredSet) \in Nat
    BY FS_Subset, FS_CardinalityType DEF RegisteredSet
  <2>2. CASE Mode = "client"
    <3>1. RegisteredSet = Conns
      BY <2>2 DEF RegisteredSet, Registered
    <3>2. n_special_descriptors \in {0, 1}
      BY <2>2 DEF Init, Counted
    <3>3. Cardinality(Conns) = 1
      BY <2>2, InteractiveAssumption
    <3> QED
      BY <3>1, <3>2, <3>3 DEF CountBounded, RegisteredSet
  <2>3. CASE Mode # "client"
    <3>1. n_special_descriptors = 0
      BY <2>3 DEF Init
    <3> QED
      BY <2>1, <3>1 DEF CountBounded, RegisteredSet
  <2> QED
    BY <2>2, <2>3
<1>2. IInv /\ CountBounded /\ [Next]_vars => CountBounded'
  BY CountStep
<1>3. IInv /\ CountBounded => TypeOK
  <2> SUFFICES ASSUME IInv, CountBounded PROVE TypeOK
    OBVIOUS
  <2>1. /\ Cardinality(RegisteredSet) \in Nat /\ Cardinality(Conns) \in Nat
        /\ Cardinality(RegisteredSet) <= Cardinality(Conns)
    BY FS_Subset, FS_CardinalityType DEF RegisteredSet
  <2>2. n_special_descriptors \in Nat /\ StateTypes
    BY DEF IInv, StateTypes
  <2>3. n_special_descriptors <= Cardinality(RegisteredSet)
    BY DEF CountBounded, RegisteredSet
  <2>4. n_special_descriptors <= Cardinality(Conns)
    BY <2>1, <2>2, <2>3
  <2> QED
    BY <2>2, <2>4 DEF TypeOK
<1> QED
  BY <1>1, <1>2, <1>3, Invariance, PTL DEF Spec
-----------------------------------------------------------------------------
(* Sequences of items. *)

LEMMA Split ==
  ASSUME NEW S, NEW a \in Seq(S), NEW s \in Seq(S), NEW n \in Nat, n <= Len(s)
  PROVE  (a \o Take(s, n)) \o DropFirst(s, n) = a \o s
<1>1. ASSUME NEW t \in Seq(S), NEW d \in Seq(S), t \o d = s
      PROVE  (a \o t) \o d = a \o s
  <2>1. (a \o t) \o d = a \o (t \o d)
    BY ConcatAssociative
  <2> QED
    BY <1>1, <2>1
<1>2. Take(s, n) \in Seq(S) /\ DropFirst(s, n) \in Seq(S)
  BY Pieces, LenProperties
<1>3. Take(s, n) \o DropFirst(s, n) = s
  BY Halves DEF Take, DropFirst
<1> QED
  BY <1>1, <1>2, <1>3

\* Concatenation, kept closed where the provers would take it apart.
Joined(a, b) == a \o b

LEMMA Regroup ==
  ASSUME NEW S, NEW a \in Seq(S), NEW b \in Seq(S), NEW c \in Seq(S)
  PROVE  Joined(Joined(a, b), c) = Joined(a, Joined(b, c)) /\ Joined(a, b) \in Seq(S)
BY ConcatAssociative, ConcatProperties DEF Joined

\* Moving the front of what is unread to an empty buffer.
LEMMA RegroupRead ==
  ASSUME NEW S, NEW a \in Seq(S), NEW s \in Seq(S), NEW n \in Nat, n <= Len(s)
  PROVE  (a \o Take(s, n)) \o DropFirst(s, n) = (a \o <<>>) \o s
<1>1. a \o <<>> = a
  BY ConcatEmptySeq
<1> QED
  BY <1>1, Split

\* A chunk that is not empty begins with what the source begins with.
LEMMA Chunk ==
  ASSUME NEW S, NEW s \in Seq(S), s # <<>>, NEW m \in Nat \ {0}
  PROVE  LET n == MinOf(m, Len(s)) IN
           /\ n \in Nat /\ n <= Len(s) /\ Take(s, n) \in Seq(S) /\ Take(s, n) # <<>>
           /\ DropFirst(s, n) \in Seq(S)
<1> DEFINE n == MinOf(m, Len(s))
<1>1. Len(s) \in Nat /\ Len(s) # 0
  BY LenProperties, EmptySeq
<1>2. n \in 1..Len(s)
  BY <1>1 DEF MinOf
<1> HIDE DEF n
<1>3. \A i \in 1..n : s[i] \in S
  BY <1>1, <1>2, ElementOfSeq
<1>4. Len(Take(s, n)) = n
  BY <1>1, <1>2, <1>3, SubSeqProperties DEF Take
<1>5. Take(s, n) # <<>>
  BY <1>2, <1>4, EmptySeq
<1>6. n \in 0..Len(s)
  BY <1>2, <1>1
<1>7. Take(s, n) \in Seq(S) /\ DropFirst(s, n) \in Seq(S)
  BY <1>6, Pieces
<1>8. n \in Nat /\ n <= Len(s)
  BY <1>1, <1>2
<1> QED
  BY <1>5, <1>7, <1>8 DEF n

LEMMA Streams ==
  ASSUME NEW S, NEW e, NEW n \in Nat, \A k \in 1..n : <<e, k>> \in S
  PROVE  /\ Stream(e, n) \in Seq(S) /\ Len(Stream(e, n)) = n
         /\ \A k \in 1..n : Stream(e, n)[k] = <<e, k>>
<1>1. Stream(e, n) \in [1..n -> S]
  BY DEF Stream
<1>2. Stream(e, n) \in Seq(S) /\ Len(Stream(e, n)) = n
  BY <1>1
<1> QED
  BY <1>2 DEF Stream

LEMMA StreamAppend ==
  ASSUME NEW e, NEW n \in Nat
  PROVE  Append(Stream(e, n), <<e, n + 1>>) = Stream(e, n + 1)
<1> DEFINE S == {e} \X Nat
           s == Stream(e, n)
           t == Stream(e, n + 1)
           x == <<e, n + 1>>
<1>1. x \in S /\ n + 1 \in Nat /\ \A k \in 1..(n + 1) : <<e, k>> \in S
  OBVIOUS
<1> HIDE DEF S
<1>2. s \in Seq(S) /\ Len(s) = n /\ \A k \in 1..n : s[k] = <<e, k>>
  <2>1. \A k \in 1..n : <<e, k>> \in S
    BY <1>1
  <2> QED
    BY <2>1, Streams
<1>3. t \in Seq(S) /\ Len(t) = n + 1 /\ \A k \in 1..(n + 1) : t[k] = <<e, k>>
  <2> DEFINE m == n + 1
  <2>1. m \in Nat /\ \A k \in 1..m : <<e, k>> \in S
    BY <1>1
  <2> HIDE DEF m
  <2>2. /\ Stream(e, m) \in Seq(S) /\ Len(Stream(e, m)) = m
        /\ \A k \in 1..m : Stream(e, m)[k] = <<e, k>>
    BY <2>1, Streams
  <2> QED
    BY <2>2 DEF m
<1>4. /\ s \in Seq(S) /\ Len(s) = n /\ \A k \in 1..n : s[k] = <<e, k>>
      /\ t \in Seq(S) /\ Len(t) = n + 1 /\ \A k \in 1..(n + 1) : t[k] = <<e, k>>
  BY <1>2, <1>3
<1> HIDE DEF s, t
<1>5. /\ Append(s, x) \in Seq(S) /\ Len(Append(s, x)) = n + 1
      /\ \A k \in 1..n : Append(s, x)[k] = s[k]
      /\ Append(s, x)[n + 1] = x
  BY <1>1, <1>4, AppendProperties
<1>6. ASSUME NEW k \in 1..(n + 1)
      PROVE  Append(s, x)[k] = t[k]
  <2>1. k \in 1..n \/ k = n + 1
    OBVIOUS
  <2> QED
    BY <2>1, <1>4, <1>5
<1>7. Append(s, x) = t
  BY <1>4, <1>5, <1>6, SeqEqual
<1> QED
  BY <1>7 DEF s, t

\* The front of a stream is a stream.
LEMMA StreamPrefix ==
  ASSUME NEW S, NEW e, NEW n \in Nat, NEW w \in Seq(S), NEW r \in Seq(S),
         w \o r = Stream(e, n)
  PROVE  Len(w) <= n /\ w = Stream(e, Len(w))
<1> DEFINE T == {e} \X Nat
<1>1. Len(w) \in Nat /\ Len(r) \in Nat /\ \A k \in 1..n : <<e, k>> \in T
  BY LenProperties
<1>2. /\ Len(w \o r) = Len(w) + Len(r)
      /\ \A i \in 1..Len(w) : (w \o r)[i] = w[i]
  BY <1>1, ConcatProperties
<1> HIDE DEF T
<1>3. Len(w) <= n /\ \A i \in 1..Len(w) : w[i] = <<e, i>>
  <2>1. Len(Stream(e, n)) = n /\ \A k \in 1..n : Stream(e, n)[k] = <<e, k>>
    BY <1>1, Streams
  <2> QED
    BY <1>1, <1>2, <2>1
<1>4. \A k \in 1..Len(w) : <<e, k>> \in S
  BY <1>1, <1>3, ElementOfSeq
<1>5. /\ Stream(e, Len(w)) \in Seq(S)
      /\ Len(Stream(e, Len(w))) = Len(w)
      /\ \A i \in 1..Len(w) : Stream(e, Len(w))[i] = w[i]
  <2> DEFINE m == Len(w)
  <2>1. m \in Nat /\ \A k \in 1..m : <<e, k>> \in S
    BY <1>1, <1>4
  <2> HIDE DEF m
  <2>2. /\ Stream(e, m) \in Seq(S) /\ Len(Stream(e, m)) = m
        /\ \A k \in 1..m : Stream(e, m)[k] = <<e, k>>
    BY <2>1, Streams
  <2> USE DEF m
  <2> QED
    BY <1>3, <2>2
<1>6. w = Stream(e, Len(w))
  BY <1>5, SeqEqual
<1> QED
  BY <1>3, <1>6
-----------------------------------------------------------------------------
(* Every queue holds what comes from one place, and the thread holds nothing *)
(* but its chunk.                                                            *)

\* Nothing is written but what the handler of the entry read.
StaysRead == pc' # "write" \/ UNCHANGED <<sockets, pc, pos, buffer, fdt>>

LEMMA BufferReadKept ==
  ASSUME BufferRead, StaysRead
  PROVE  BufferRead'
BY DEF StaysRead, BufferRead, Elems, In, Entry

\* The write's descriptor.
LEMMA WriteEntry ==
  ASSUME IInv, BufferRead, pc = "write"
  PROVE  /\ In = Stdin /\ (Out = NoFd \/ Out \in Fd)
         \/ /\ In \in Fd /\ In # Stdin /\ (Out = Stdin \/ Out = NoFd)
<1>1. pos \in 1..Len(Elems) /\ Elems[pos].handler = "bridge" /\ Wiring
  BY DEF BufferRead, IInv
<1>2. SocketEntry(pos) \/ StdinEntry(pos)
  BY <1>1 DEF Wiring, EntriesKnown, ListenEntry
<1>3. Entry = Elems[pos]
  BY DEF Entry, Elems
<1> QED
  BY <1>1, <1>2, <1>3, Descriptors DEF SocketEntry, StdinEntry, In, Out

LEMMA SourcesRead ==
  ASSUME IInv, Sources, BridgedRead
  PROVE  Sources'
<1> DEFINE len == MinOf(BufSize, Len(Data(In)))
<1>1. ListTypes /\ NetTypes /\ QueueTypes /\ Wiring
  BY TypeParts DEF IInv
<1>2. FiredBridge /\ Data(In) # <<>>
  BY DEF BridgedRead
<1>3. /\ buffer' = Take(Data(In), len)
      /\ IF In = Stdin
           THEN stdin' = DropFirst(stdin, len) /\ rx' = rx
           ELSE rx' = [rx EXCEPT ![fdt[In]] = DropFirst(@, len)] /\ stdin' = stdin
      /\ UNCHANGED <<sockets, pos, fdt, console, read_buffer>>
  BY DEF BridgedRead, user, thread, SOCKET_LIST
<1>4. UNCHANGED <<Elems, In>> /\ pos \in 1..Len(Elems) /\ Elems[pos].handler = "bridge"
  <2>1. pos \in 1..Len(Elems) /\ Entry = Elems[pos]
    BY <1>1, <1>2, FiredEntry
  <2> QED
    BY <1>2, <1>3, <2>1 DEF Elems, In, Entry, FiredBridge
<1>5. CASE In = Stdin
  <2>1. Data(In) = stdin /\ stdin \in Seq(Typed)
    BY <1>1, <1>2, <1>5, DataRead DEF Sources
  <2>2. buffer' \in Seq(Typed) /\ buffer' # <<>> /\ stdin' \in Seq(Typed)
    BY <1>2, <1>3, <1>5, <2>1, Chunk, Bounds
  <2> QED
    BY <1>3, <1>4, <1>5, <2>2 DEF Sources, BufferRead
<1>6. CASE In # Stdin
  <2>1. In \in Fd /\ fdt[In] \in Conns /\ Data(In) = rx[fdt[In]]
    BY <1>1, <1>2, <1>6, DataRead
  <2>2. rx[fdt[In]] \in Seq(SentBy(fdt[In]))
    BY <2>1 DEF Sources
  <2>3. /\ buffer' \in Seq(SentBy(fdt[In])) /\ buffer' # <<>>
        /\ DropFirst(rx[fdt[In]], len) \in Seq(SentBy(fdt[In]))
    BY <1>2, <1>3, <2>1, <2>2, Chunk, Bounds
  <2> HIDE DEF len
  <2>4. rx' = [rx EXCEPT ![fdt[In]] = DropFirst(rx[fdt[In]], len)] /\ stdin' = stdin
    BY <1>3, <1>6
  <2>5. \A c \in Conns : rx'[c] \in Seq(SentBy(c))
    BY <1>1, <2>1, <2>3, <2>4 DEF QueueTypes, Sources
  <2> QED
    BY <1>3, <1>4, <1>6, <2>1, <2>3, <2>4, <2>5 DEF Sources, BufferRead
<1> QED
  BY <1>5, <1>6

LEMMA SourcesStep ==
  ASSUME IInv, Sources, [Next]_vars
  PROVE  Sources'
<1>1. ListTypes /\ NetTypes /\ QueueTypes /\ Wiring
  BY TypeParts DEF IInv
<1>2. ASSUME UNCHANGED <<stdin, console, read_buffer, rx>>, StaysRead
      PROVE  Sources'
  BY <1>2, BufferReadKept DEF Sources
<1> USE DEF SOCKET_LIST, local, net, queues, user, thread, Machine
<1>3. CASE \E c \in Conns : PeerSend(c)
  <2>1. PICK c \in Conns : PeerSend(c)
    BY <1>3
  <2>2. /\ UNCHANGED <<stdin, console, read_buffer>> /\ StaysRead
        /\ rx' = [rx EXCEPT ![c] = Append(@, <<c, sent[c] + 1>>)] /\ sent[c] < MaxSend
    BY <2>1 DEF PeerSend, StaysRead
  <2>3. <<c, sent[c] + 1>> \in SentBy(c)
    BY <1>1, <2>2, Bounds DEF NetTypes, SentBy
  <2>4. Append(rx[c], <<c, sent[c] + 1>>) \in Seq(SentBy(c))
    BY <2>3, AppendProperties DEF Sources
  <2>5. \A d \in Conns : rx'[d] \in Seq(SentBy(d))
    BY <1>1, <2>2, <2>4 DEF QueueTypes, Sources
  <2> QED
    BY <2>2, <2>5, BufferReadKept DEF Sources
<1>4. CASE UserTypes
  <2> DEFINE x == <<Stdin, typed + 1>>
  <2>1. /\ UNCHANGED <<read_buffer, rx>> /\ StaysRead /\ typed < MaxTyped
        /\ \/ stdin' = Append(stdin, x) /\ console' = console
           \/ console' = Append(console, x) /\ stdin' = stdin
    BY <1>4 DEF UserTypes, StaysRead
  <2>2. x \in Typed
    BY <1>1, <2>1, Bounds DEF NetTypes, Typed
  <2>3. Append(stdin, x) \in Seq(Typed) /\ Append(console, x) \in Seq(Typed)
    BY <2>2, AppendProperties DEF Sources
  <2> QED
    BY <2>1, <2>3, BufferReadKept DEF Sources
<1>5. CASE ThreadReads
  <2>1. /\ UNCHANGED <<stdin, rx>> /\ StaysRead /\ console # <<>>
        /\ read_buffer' = Take(console, MinOf(ThreadBuf, Len(console)))
        /\ console' = DropFirst(console, MinOf(ThreadBuf, Len(console)))
    BY <1>5 DEF ThreadReads, StaysRead
  <2>2. read_buffer' \in Seq(Typed) /\ console' \in Seq(Typed)
    BY <2>1, Chunk, Bounds DEF Sources
  <2> QED
    BY <2>1, <2>2, BufferReadKept DEF Sources
<1>6. CASE ThreadWrites
  <2> DEFINE n == MinOf(PipeCap - Len(stdin), Len(read_buffer))
  <2>1. /\ UNCHANGED <<console, rx>> /\ StaysRead
        /\ stdin' = stdin \o Take(read_buffer, n)
        /\ read_buffer' = DropFirst(read_buffer, n)
    BY <1>6 DEF ThreadWrites, StaysRead
  <2>2. n \in 0..Len(read_buffer)
    <3>1. PipeCap - Len(stdin) \in Nat /\ Len(read_buffer) \in Nat
      BY <1>1, <1>6, LenProperties, Bounds DEF QueueTypes, ThreadWrites
    <3> QED
      BY <3>1, MinBounds
  <2> HIDE DEF n
  <2>3. Take(read_buffer, n) \in Seq(Typed) /\ DropFirst(read_buffer, n) \in Seq(Typed)
    BY <2>2, Pieces DEF Sources
  <2>4. stdin \o Take(read_buffer, n) \in Seq(Typed)
    BY <2>3, ConcatProperties DEF Sources
  <2> QED
    BY <2>1, <2>3, <2>4, BufferReadKept DEF Sources
<1>7. CASE BridgedEof
  <2>1. /\ UNCHANGED <<stdin, console, read_buffer>> /\ StaysRead
        /\ rx' = [c \in Conns |-> IF \E f \in {In, Out} \cap Fd : fdt[f] = c THEN <<>>
                                  ELSE rx[c]]
    BY <1>7 DEF BridgedEof, StaysRead, Continue
  <2>2. \A c \in Conns : rx'[c] \in Seq(SentBy(c))
    BY <2>1, EmptySeq DEF Sources
  <2> QED
    BY <2>1, <2>2, BufferReadKept DEF Sources
<1>8. CASE WriteToSocket \/ WriteLost \/ WriteToStdin
  BY <1>2, <1>8 DEF WriteToSocket, WriteLost, WriteToStdin, WriteDone, Continue, StaysRead
<1>9. CASE \/ \E c \in Conns : ClientConnect(c) \/ PeerFinish(c)
           \/ UserEnds \/ ThreadStarts \/ ThreadEnds \/ UNCHANGED vars
  BY <1>2, <1>9 DEF ClientConnect, PeerFinish, UserEnds, ThreadStarts, ThreadEnds, vars,
                    StaysRead
<1>10. CASE \/ DebugDump \/ RemoveMarked \/ EnterSelect \/ LoopEnds \/ SelectReturns
            \/ SkipEntry \/ PassDone \/ SelectFails
  BY <1>2, <1>10
     DEF DebugDump, RemoveMarked, EnterSelect, LoopEnds, SelectReturns, SkipEntry,
         PassDone, SelectFails, NextPass, PassStart, Continue, StaysRead
<1>11. CASE SocketAccept \/ AcceptFails \/ DoubleFree \/ WriteFails
  BY <1>2, <1>11 DEF SocketAccept, AcceptFails, DoubleFree, WriteFails, Stop, Continue,
                     StaysRead
<1> QED
  BY <1>3, <1>4, <1>5, <1>6, <1>7, <1>8, <1>9, <1>10, <1>11, SourcesRead
     DEF Next, Process, Thread, Environment

LEMMA ThreadHoldsStep ==
  ASSUME IInv, ThreadHolds, [Next]_vars
  PROVE  ThreadHolds'
<1>1. ASSUME UNCHANGED <<tpc, read_buffer, console, platform>>
      PROVE  ThreadHolds'
  BY <1>1 DEF ThreadHolds
<1> USE DEF user, thread, Machine
<1>2. CASE UserTypes
  BY <1>2 DEF UserTypes, ThreadHolds
<1>3. CASE ThreadStarts \/ ThreadReads \/ ThreadEnds
  BY <1>3 DEF ThreadStarts, ThreadReads, ThreadEnds, ThreadHolds
<1>4. CASE ThreadWrites
  <2> DEFINE n == MinOf(PipeCap - Len(stdin), Len(read_buffer))
  <2>1. /\ tpc = "write" /\ UNCHANGED <<platform, console>>
        /\ read_buffer' = DropFirst(read_buffer, n)
        /\ tpc' = IF n = Len(read_buffer) THEN "read" ELSE "write"
    BY <1>4 DEF ThreadWrites
  <2>2. n = Len(read_buffer) => DropFirst(read_buffer, n) = <<>>
    BY SubSeqEmpty, LenProperties, TypeParts DEF DropFirst, QueueTypes, IInv
  <2> QED
    BY <2>1, <2>2 DEF ThreadHolds
<1>5. CASE UserEnds \/ \E c \in Conns : ClientConnect(c) \/ PeerSend(c) \/ PeerFinish(c)
  BY <1>1, <1>5 DEF UserEnds, ClientConnect, PeerSend, PeerFinish
<1>6. CASE \/ DebugDump \/ RemoveMarked \/ EnterSelect \/ LoopEnds \/ SelectReturns
           \/ SkipEntry \/ PassDone \/ SelectFails
  BY <1>1, <1>6 DEF DebugDump, RemoveMarked, EnterSelect, LoopEnds, SelectReturns,
                    SkipEntry, PassDone, SelectFails, NextPass
<1>7. CASE SocketAccept \/ AcceptFails \/ DoubleFree \/ WriteFails
  BY <1>1, <1>7 DEF SocketAccept, AcceptFails, DoubleFree, WriteFails, Stop
<1>8. CASE BridgedRead \/ BridgedEof \/ WriteToSocket \/ WriteLost \/ WriteToStdin
  BY <1>1, <1>8 DEF BridgedRead, BridgedEof, WriteToSocket, WriteLost, WriteToStdin
<1>9. CASE UNCHANGED vars
  BY <1>1, <1>9 DEF vars
<1> QED
  BY <1>2, <1>3, <1>4, <1>5, <1>6, <1>7, <1>8, <1>9 DEF Next, Process, Thread, Environment
-----------------------------------------------------------------------------
(* What is still to be shown and to be sent. *)

LEMMA AliveBefore ==
  ASSUME [Next]_vars, Alive'
  PROVE  Alive
<1>1. Next => Alive
  BY DEF Next, Process, Thread, Environment, Alive, DebugDump, RemoveMarked, EnterSelect,
         LoopEnds, SelectReturns, SkipEntry, PassDone, SelectFails, NextPass,
         SocketAccept, AcceptFails,
         BridgedRead, BridgedEof, DoubleFree, WriteToSocket, WriteLost, WriteToStdin,
         WriteFails, Fired, Visited, FiredBridge, EndOfFile, ThreadStarts, ThreadReads,
         ThreadWrites, ThreadEnds, ClientConnect, PeerSend, PeerFinish, UserTypes,
         UserEnds
<1>2. UNCHANGED vars => Alive
  BY DEF vars, local, Alive
<1> QED
  BY <1>1, <1>2

\* A connection that was closed stays closed, and a peer that is gone, gone.
LEMMA UnclosedKept ==
  ASSUME IInv, [Next]_vars, NEW c \in Conns, Unclosed(c)'
  PROVE  Unclosed(c) /\ (peer[c] = "gone" => peer'[c] = "gone")
<1>1. ListTypes /\ NetTypes /\ Wiring /\ MaskListed
  BY TypeParts DEF IInv
<1>2. Alive
  BY AliveBefore DEF Unclosed
<1>3. CASE fdt' = fdt /\ backlog' = backlog /\ peer' = peer
  BY <1>2, <1>3 DEF Unclosed, Held, Queued
<1>4. CASE fdt' = fdt /\ \E d \in Conns : ClientConnect(d)
  <2>1. PICK d \in Conns : /\ fdt' = fdt /\ peer[d] = "none"
                           /\ peer' = [peer EXCEPT ![d] = "open"]
                           /\ backlog' = Append(backlog, d)
    BY <1>4 DEF ClientConnect
  <2>2. CASE c = d
    BY <1>2, <2>1, <2>2 DEF Unclosed
  <2>3. CASE c # d
    <3>1. Queued(c)' => Queued(c)
      <4>1. /\ Len(backlog) \in Nat
            /\ DOMAIN backlog' = 1..(Len(backlog) + 1)
            /\ backlog'[Len(backlog) + 1] = d
            /\ \A i \in 1..Len(backlog) : backlog'[i] = backlog[i]
        BY <1>1, <2>1, AppendProperties, LenProperties DEF NetTypes
      <4>2. DOMAIN backlog = 1..Len(backlog)
        BY <1>1, LenProperties DEF NetTypes
      <4>3. \A i \in DOMAIN backlog' : i \in DOMAIN backlog \/ i = Len(backlog) + 1
        BY <4>1, <4>2
      <4> QED
        BY <2>3, <4>1, <4>2, <4>3 DEF Queued
    <3>2. peer'[c] = peer[c]
      BY <1>1, <2>1, <2>3 DEF NetTypes
    <3> QED
      BY <1>2, <2>1, <3>1, <3>2 DEF Unclosed, Held
  <2> QED
    BY <2>2, <2>3
<1>5. CASE fdt' = fdt /\ \E d \in Conns : PeerFinish(d)
  <2>1. PICK d \in Conns, how \in {"fin", "gone"} :
          fdt' = fdt /\ backlog' = backlog /\ peer[d] = "open"
            /\ peer' = [peer EXCEPT ![d] = how]
    BY <1>5 DEF PeerFinish, queues
  <2>2. peer'[c] = "none" => peer[c] = "none"
    BY <1>1, <2>1 DEF NetTypes
  <2>3. peer[c] = "gone" => peer'[c] = "gone"
    BY <1>1, <2>1 DEF NetTypes
  <2> QED
    BY <1>2, <2>1, <2>2, <2>3 DEF Unclosed, Held, Queued
<1>6. CASE DebugDump
  <2>1. backlog' = backlog /\ peer' = peer /\ Kept
    BY <1>1, <1>6, DumpKeeps DEF DebugDump, net
  <2> QED
    BY <1>2, <2>1, Descriptors DEF Unclosed, Held, Queued, Kept
<1>7. CASE RemoveMarked
  BY <1>2, <1>7 DEF RemoveMarked, net, queues, Unclosed, Held, Queued
<1>8. CASE SocketAccept
  <2>1. PICK f \in Fd :
          /\ fdt'[f] = Head(backlog)
          /\ \A g \in Fd \ {f} : \/ fdt'[g] = fdt[g]
                                 \/ fdt[g] = Free /\ fdt'[g] = AfDevice
    BY <1>1, <1>8, AcceptStep
  <2>2. peer' = peer /\ backlog' = Tail(backlog) /\ backlog # <<>>
    BY <1>8 DEF SocketAccept, net
  <2>3. backlog \in Seq(Conns) /\ Len(backlog) \in Nat \ {0}
        /\ DOMAIN backlog = 1..Len(backlog) /\ Head(backlog) = backlog[1]
    BY <1>1, <2>2, LenProperties, EmptySeq, HeadTailProperties DEF NetTypes
  <2>4. DOMAIN Tail(backlog) = 1..(Len(backlog) - 1)
        /\ \A i \in 1..(Len(backlog) - 1) : Tail(backlog)[i] = backlog[i + 1]
    BY <2>2, <2>3, HeadTailProperties, LenProperties
  <2>5. Held(c)' => Held(c) \/ Queued(c)
    BY <2>1, <2>3, Descriptors DEF Held, Queued
  <2>6. Queued(c)' => Queued(c)
    BY <2>2, <2>3, <2>4 DEF Queued
  <2> QED
    BY <1>2, <2>2, <2>5, <2>6 DEF Unclosed
<1>9. CASE BridgedEof
  <2>1. /\ \A f \in Fd : fdt'[f] = IF f \in {In, Out} THEN Free ELSE fdt[f]
        /\ peer' = peer /\ backlog' = backlog
    BY <1>1, <1>9, EofStep DEF BridgedEof, net
  <2> QED
    BY <1>2, <2>1, Descriptors DEF Unclosed, Held, Queued
<1> QED
  BY <1>3, <1>4, <1>5, <1>6, <1>7, <1>8, <1>9, Changes

LEMMA WholeTypes ==
  ASSUME IInv
  PROVE  /\ terminal \in Seq(Item) /\ buffer \in Seq(Item)
         /\ stdin \in Seq(Item) /\ read_buffer \in Seq(Item) /\ console \in Seq(Item)
         /\ \A s : InFlight(s) \in Seq(Item)
         /\ ToSend \in Seq(Item) /\ typed \in Nat
         /\ \A c \in Conns : /\ wrote[c] \in Seq(Item) /\ rx[c] \in Seq(Item)
                             /\ ToShow(c) \in Seq(Item) /\ sent[c] \in Nat
<1>1. QueueTypes /\ NetTypes
  BY TypeParts DEF IInv
<1>2. /\ typed \in Nat /\ \A c \in Conns : sent[c] \in Nat
  BY <1>1, Bounds DEF NetTypes
<1>3. \A s : InFlight(s) \in Seq(Item)
  BY <1>1, EmptySeq DEF InFlight, QueueTypes
<1>4. ToSend \in Seq(Item) /\ \A c \in Conns : ToShow(c) \in Seq(Item)
  BY <1>1, <1>3, ConcatProperties DEF QueueTypes, ToSend, ToShow
<1> QED
  BY <1>1, <1>2, <1>3, <1>4 DEF QueueTypes

LEMMA FlightAfterRead ==
  ASSUME NEW b, NEW s, NEW T, b \in Seq({s} \X T), b # <<>>
  PROVE  b[1][1] = s
<1>1. Len(b) \in Nat \ {0}
  BY LenProperties, EmptySeq
<1>2. b[1] \in {s} \X T
  BY <1>1, ElementOfSeq
<1> QED
  BY <1>2

\* What is in flight when it is written.
LEMMA FlightAtWrite ==
  ASSUME IInv, BufferRead, pc = "write"
  PROVE  /\ buffer \in Seq(Item)
         /\ \/ /\ In = Stdin /\ (Out = NoFd \/ Out \in Fd) /\ buffer \in Seq(Typed)
               /\ InFlight(Stdin) = buffer /\ \A c \in Conns : InFlight(c) = <<>>
            \/ /\ In \in Fd /\ In # Stdin /\ (Out = Stdin \/ Out = NoFd)
               /\ fdt[In] \in Conns /\ buffer \in Seq(SentBy(fdt[In]))
               /\ InFlight(Stdin) = <<>>
               /\ \A c \in Conns : InFlight(c) = IF fdt[In] = c THEN buffer ELSE <<>>
<1>1. \/ In = Stdin /\ (Out = NoFd \/ Out \in Fd)
      \/ In \in Fd /\ In # Stdin /\ (Out = Stdin \/ Out = NoFd)
  BY WriteEntry
<1>2. buffer # <<>> /\ IF In = Stdin THEN buffer \in Seq(Typed)
                       ELSE fdt[In] \in Conns /\ buffer \in Seq(SentBy(fdt[In]))
  BY DEF BufferRead
<1>3. buffer[1][1] = IF In = Stdin THEN Stdin ELSE fdt[In]
  BY <1>2, FlightAfterRead DEF Typed, SentBy
<1>4. buffer \in Seq(Item)
  BY WholeTypes
<1> QED
  BY <1>1, <1>2, <1>3, <1>4, Descriptors DEF InFlight

\* Steps that neither read nor write, and throw nothing away of a connection
\* that stays open.
QuietStep ==
  /\ UNCHANGED <<wrote, terminal, stdin, read_buffer, console, sent, typed>>
  /\ Alive' => (pc # "write" /\ pc' # "write") \/ UNCHANGED <<pc, buffer>>
  /\ \A c \in Conns : Unclosed(c)' => rx'[c] = rx[c]

LEMMA QuietEof ==
  ASSUME IInv, BridgedEof
  PROVE  QuietStep
<1>1. ListTypes /\ NetTypes /\ Wiring /\ OneFdPerConn /\ Lifecycle
  BY TypeParts DEF IInv
<1>2. /\ UNCHANGED <<wrote, terminal, stdin, read_buffer, console, sent, typed, peer,
                     backlog>>
      /\ pc' = "handle" /\ pc = "handle"
      /\ rx' = [d \in Conns |-> IF \E f \in {In, Out} \cap Fd : fdt[f] = d THEN <<>>
                                ELSE rx[d]]
  BY <1>1, EofStep DEF BridgedEof, net, user, thread
<1>3. \A f \in Fd : fdt'[f] = IF f \in {In, Out} THEN Free ELSE fdt[f]
  BY DEF BridgedEof
<1>4. ASSUME NEW c \in Conns, Unclosed(c)', NEW f \in {In, Out} \cap Fd, fdt[f] = c
      PROVE  FALSE
  <2>1. Held(c)'
    BY <1>1, <1>2, <1>4 DEF Unclosed, Lifecycle, Held, Queued
  <2>2. PICK g \in Fd : fdt'[g] = c
    BY <2>1 DEF Held
  <2>3. g \notin {In, Out} /\ fdt[g] = c
    BY <1>3, <2>2, Descriptors
  <2> QED
    BY <1>1, <1>4, <2>3 DEF OneFdPerConn
<1>5. \A c \in Conns : Unclosed(c)' => rx'[c] = rx[c]
  BY <1>2, <1>4
<1> QED
  BY <1>2, <1>5 DEF QuietStep

\* Every other action that keeps the process running, but reads, writes and
\* those of the user and the peers.
LEMMA QuietSteps ==
  ASSUME IInv, [Next]_vars
  PROVE  \/ QuietStep
         \/ BridgedRead \/ WriteToSocket \/ WriteLost \/ WriteToStdin
         \/ ThreadReads \/ ThreadWrites
         \/ UserTypes \/ \E c \in Conns : PeerSend(c)
<1> USE DEF SOCKET_LIST, local, net, queues, user, thread, Machine
<1>1. CASE \/ \E c \in Conns : ClientConnect(c) \/ PeerFinish(c)
           \/ UserEnds \/ ThreadStarts \/ ThreadEnds \/ UNCHANGED vars
  BY <1>1 DEF ClientConnect, PeerFinish, UserEnds, ThreadStarts, ThreadEnds, vars,
              QuietStep
<1>2. CASE \/ DebugDump \/ RemoveMarked \/ EnterSelect \/ LoopEnds \/ SelectReturns
           \/ SkipEntry \/ PassDone \/ SelectFails
  BY <1>2 DEF DebugDump, RemoveMarked, EnterSelect, LoopEnds, SelectReturns, SkipEntry,
              PassDone, SelectFails, NextPass, PassStart, Continue, Visited, QuietStep
<1>3. CASE SocketAccept
  BY <1>3 DEF SocketAccept, Continue, Fired, Visited, QuietStep
<1>4. CASE AcceptFails \/ DoubleFree \/ WriteFails
  BY <1>4 DEF AcceptFails, DoubleFree, WriteFails, Stop, Alive, QuietStep
<1> QED
  BY <1>1, <1>2, <1>3, <1>4, QuietEof DEF Next, Process, Thread, Environment

-----------------------------------------------------------------------------
(* Each kind of step. *)

LEMMA QuietWhole ==
  ASSUME QuietStep, Alive'
  PROVE  ToSend' = ToSend /\ \A c \in Conns : Unclosed(c)' => ToShow(c)' = ToShow(c)
<1>1. \A s : InFlight(s)' = InFlight(s)
  BY DEF QuietStep, InFlight
<1> QED
  BY <1>1 DEF QuietStep, ToShow, ToSend

LEMMA ReadWhole ==
  ASSUME IInv, Sources, BridgedRead
  PROVE  ToSend' = ToSend /\ \A c \in Conns : ToShow(c)' = ToShow(c)
<1> DEFINE len == MinOf(BufSize, Len(Data(In)))
<1>1. ListTypes /\ NetTypes /\ QueueTypes /\ Wiring
  BY TypeParts DEF IInv
<1>2. FiredBridge /\ Data(In) # <<>> /\ pc = "handle" /\ pc' = "write"
  BY DEF BridgedRead, FiredBridge, Fired, Visited
<1>3. /\ buffer' = Take(Data(In), len)
      /\ IF In = Stdin
           THEN stdin' = DropFirst(stdin, len) /\ rx' = rx
           ELSE rx' = [rx EXCEPT ![fdt[In]] = DropFirst(@, len)] /\ stdin' = stdin
      /\ UNCHANGED <<console, read_buffer>>
  BY DEF BridgedRead, user, thread
<1>4. \A s : InFlight(s) = <<>>
  BY <1>2 DEF InFlight
<1>5. ASSUME NEW S, NEW s \in Seq(S), NEW n \in Nat, n <= Len(s)
      PROVE  Take(s, n) \o DropFirst(s, n) = <<>> \o s
  BY <1>5, Halves, ConcatEmptySeq DEF Take, DropFirst
<1>6. CASE In = Stdin
  <2>1. Data(In) = stdin /\ stdin \in Seq({Stdin} \X (1..MaxTyped))
    BY <1>1, <1>2, <1>6, DataRead DEF Sources, Typed
  <2>2. /\ buffer' \in Seq({Stdin} \X (1..MaxTyped)) /\ buffer' # <<>>
        /\ len \in Nat /\ len <= Len(stdin)
    BY <1>2, <1>3, <1>6, <2>1, Chunk, Bounds
  <2> HIDE DEF len
  <2>3. buffer'[1][1] = Stdin
    BY <2>2, FlightAfterRead
  <2>4. InFlight(Stdin)' = buffer' /\ \A c \in Conns : InFlight(c)' = <<>>
    BY <1>2, <2>2, <2>3, Descriptors DEF InFlight
  <2>5. Take(stdin, len) \o DropFirst(stdin, len) = <<>> \o stdin
    BY <1>5, <2>1, <2>2
  <2>6. (InFlight(Stdin) \o stdin)' = InFlight(Stdin) \o stdin
    BY <1>3, <1>4, <1>6, <2>1, <2>4, <2>5
  <2> QED
    BY <1>3, <1>4, <1>6, <2>4, <2>6 DEF ToShow, ToSend
<1>7. CASE In # Stdin
  <2>1. In \in Fd /\ fdt[In] \in Conns /\ Data(In) = rx[fdt[In]]
    BY <1>1, <1>2, <1>7, DataRead
  <2>2. PICK d \in Conns : d = fdt[In]
    BY <2>1
  <2>3. rx[d] \in Seq({d} \X (1..MaxSend))
    BY DEF Sources, SentBy
  <2>4. /\ buffer' \in Seq({d} \X (1..MaxSend)) /\ buffer' # <<>>
        /\ len \in Nat /\ len <= Len(rx[d])
    BY <1>2, <1>3, <2>1, <2>2, <2>3, Chunk, Bounds
  <2> HIDE DEF len
  <2>5. buffer'[1][1] = d
    BY <2>4, FlightAfterRead
  <2>6. /\ InFlight(Stdin)' = <<>>
        /\ \A c \in Conns : InFlight(c)' = IF c = d THEN buffer' ELSE <<>>
    BY <1>2, <2>4, <2>5, Descriptors DEF InFlight
  <2>7. Take(rx[d], len) \o DropFirst(rx[d], len) = <<>> \o rx[d]
    BY <1>5, <2>3, <2>4
  <2>8. /\ buffer' = Take(rx[d], len) /\ stdin' = stdin
        /\ rx' = [rx EXCEPT ![d] = DropFirst(rx[d], len)]
    BY <1>3, <1>7, <2>1, <2>2
  <2>9. \A c \in Conns : rx'[c] = IF c = d THEN DropFirst(rx[d], len) ELSE rx[c]
    BY <1>1, <2>8 DEF QueueTypes
  <2>10. \A c \in Conns : (InFlight(c) \o rx[c])' = InFlight(c) \o rx[c]
    <3> TAKE c \in Conns
    <3>1. CASE c = d
      BY <1>4, <2>6, <2>7, <2>8, <2>9, <3>1
    <3>2. CASE c # d
      BY <1>4, <2>6, <2>9, <3>2
    <3> QED
      BY <3>1, <3>2
  <2> QED
    BY <1>3, <1>4, <2>6, <2>8, <2>10 DEF ToShow, ToSend
<1> QED
  BY <1>6, <1>7

\* A write that leaves the process running takes the buffer off the front.
LEMMA WriteWhole ==
  ASSUME IInv, Sources, WriteToSocket \/ WriteLost \/ WriteToStdin
  PROVE  \/ /\ In = Stdin /\ Out \in Fd /\ buffer \in Seq(Typed)
            /\ WriteToSocket \/ WriteLost
            /\ ToSend = buffer \o ToSend' /\ ToSend' \in Seq(Item)
            /\ \A c \in Conns : ToShow(c)' = ToShow(c)
         \/ /\ In \in Fd /\ fdt[In] \in Conns /\ buffer \in Seq(SentBy(fdt[In]))
            /\ WriteToStdin
            /\ ToSend' = ToSend
            /\ \A c \in Conns :
                 IF fdt[In] = c THEN /\ ToShow(c) = buffer \o ToShow(c)'
                                     /\ ToShow(c)' \in Seq(Item)
                 ELSE ToShow(c)' = ToShow(c)
<1>1. /\ pc = "write" /\ pc' # "write"
      /\ UNCHANGED <<rx, stdin, read_buffer, console>>
  BY DEF WriteToSocket, WriteLost, WriteToStdin, WriteDone, Continue, net, queues, user,
         thread
<1>2. \A s : InFlight(s)' = <<>>
  BY <1>1 DEF InFlight
<1>3. /\ buffer \in Seq(Item)
      /\ \/ /\ In = Stdin /\ (Out = NoFd \/ Out \in Fd) /\ buffer \in Seq(Typed)
            /\ InFlight(Stdin) = buffer /\ \A c \in Conns : InFlight(c) = <<>>
         \/ /\ In \in Fd /\ In # Stdin /\ (Out = Stdin \/ Out = NoFd)
            /\ fdt[In] \in Conns /\ buffer \in Seq(SentBy(fdt[In]))
            /\ InFlight(Stdin) = <<>>
            /\ \A c \in Conns : InFlight(c) = IF fdt[In] = c THEN buffer ELSE <<>>
  BY <1>1, FlightAtWrite DEF Sources
<1>4. /\ WriteToSocket \/ WriteLost => Out \in Fd
      /\ WriteToStdin => Out = Stdin
  BY DEF WriteToSocket, WriteLost, WriteToStdin
<1>5. /\ stdin \in Seq(Item) /\ read_buffer \in Seq(Item) /\ console \in Seq(Item)
      /\ \A c \in Conns : rx[c] \in Seq(Item)
  BY WholeTypes
<1>6. ASSUME NEW s \in Seq(Item) PROVE <<>> \o s = s
  BY <1>6, ConcatEmptySeq
<1>7. CASE In = Stdin
  <2> DEFINE y == stdin \o read_buffer
             z == y \o console
  <2>1. y \in Seq(Item) /\ z \in Seq(Item)
    BY <1>5, ConcatProperties
  <2>2. ToSend' = z
    <3>1. ToSend' = <<>> \o stdin \o read_buffer \o console
      BY <1>1, <1>2 DEF ToSend
    <3>2. <<>> \o stdin = stdin
      BY <1>5, <1>6
    <3> QED
      BY <3>1, <3>2
  <2>3. buffer \o stdin \o read_buffer \o console = buffer \o z
    <3>1. Joined(Joined(Joined(buffer, stdin), read_buffer), console)
            = Joined(buffer, Joined(Joined(stdin, read_buffer), console))
      BY <1>3, <1>5, Regroup
    <3> QED
      BY <3>1 DEF Joined
  <2>4. InFlight(Stdin) = buffer /\ \A c \in Conns : InFlight(c) = <<>>
    BY <1>3, <1>7
  <2>5. ToSend = buffer \o z
    BY <2>3, <2>4 DEF ToSend
  <2>6. \A c \in Conns : ToShow(c)' = ToShow(c)
    BY <1>1, <1>2, <2>4 DEF ToShow
  <2>7. (WriteToSocket \/ WriteLost) /\ Out \in Fd /\ buffer \in Seq(Typed)
    BY <1>3, <1>4, <1>7, Descriptors
  <2> HIDE DEF z
  <2> QED
    BY <1>7, <2>1, <2>2, <2>5, <2>6, <2>7
<1>8. CASE In # Stdin
  <2>1. /\ In \in Fd /\ fdt[In] \in Conns /\ buffer \in Seq(SentBy(fdt[In]))
        /\ InFlight(Stdin) = <<>>
        /\ \A c \in Conns : InFlight(c) = IF fdt[In] = c THEN buffer ELSE <<>>
    BY <1>3, <1>8
  <2>2. WriteToStdin
    BY <1>3, <1>4, <1>8, Descriptors
  <2>3. ToSend' = ToSend
    BY <1>1, <1>2, <2>1 DEF ToSend
  <2>4. \A c \in Conns : ToShow(c)' = rx[c]
    BY <1>1, <1>2, <1>5, <1>6 DEF ToShow
  <2>5. \A c \in Conns : ToShow(c) = IF fdt[In] = c THEN buffer \o rx[c] ELSE rx[c]
    BY <1>5, <1>6, <2>1 DEF ToShow
  <2> QED
    BY <1>5, <2>1, <2>2, <2>3, <2>4, <2>5
<1> QED
  BY <1>7, <1>8

\* The thread moves what is typed to its chunk and on to the pipe.
LEMMA ThreadWhole ==
  ASSUME IInv, ThreadHolds, ThreadReads \/ ThreadWrites
  PROVE  ToSend' = ToSend /\ \A c \in Conns : ToShow(c)' = ToShow(c)
<1> DEFINE w == InFlight(Stdin)
<1>1. UNCHANGED <<pc, buffer, rx>>
  BY DEF ThreadReads, ThreadWrites, local, queues
<1>2. (\A s : InFlight(s)' = InFlight(s)) /\ w' = w
  BY <1>1 DEF InFlight
<1>3. w \in Seq(Item) /\ stdin \in Seq(Item) /\ read_buffer \in Seq(Item)
      /\ console \in Seq(Item)
  BY WholeTypes
<1>4. /\ ToSend = w \o stdin \o read_buffer \o console
      /\ ToSend' = w' \o stdin' \o read_buffer' \o console'
      /\ \A c \in Conns : ToShow(c)' = ToShow(c)
  BY <1>1, <1>2 DEF ToSend, ToShow
<1> HIDE DEF w
<1>5. CASE ThreadReads
  <2> DEFINE n == MinOf(ThreadBuf, Len(console))
             x == w \o stdin
  <2>1. /\ stdin' = stdin /\ console # <<>> /\ tpc = "read"
        /\ read_buffer' = Take(console, n) /\ console' = DropFirst(console, n)
    BY <1>5 DEF ThreadReads, queues
  <2>2. n \in Nat /\ n <= Len(console)
    BY <1>3, <2>1, Chunk, Bounds
  <2>3. read_buffer = <<>>
    BY <2>1 DEF ThreadHolds
  <2>4. x \in Seq(Item)
    BY <1>3, ConcatProperties
  <2> HIDE DEF n, x
  <2>5. (x \o Take(console, n)) \o DropFirst(console, n) = (x \o <<>>) \o console
    BY <1>3, <2>2, <2>4, RegroupRead
  <2>6. ToSend' = (x \o Take(console, n)) \o DropFirst(console, n)
        /\ ToSend = (x \o <<>>) \o console
    BY <1>2, <1>4, <2>1, <2>3 DEF x
  <2> QED
    BY <1>4, <2>5, <2>6
<1>6. CASE ThreadWrites
  <2> DEFINE n == MinOf(PipeCap - Len(stdin), Len(read_buffer))
             x == w \o stdin
             t == Take(read_buffer, n)
             d == DropFirst(read_buffer, n)
  <2>1. stdin' = stdin \o t /\ read_buffer' = d /\ console' = console
    BY <1>6 DEF ThreadWrites
  <2>2. n \in 0..Len(read_buffer)
    <3>1. PipeCap - Len(stdin) \in Nat /\ Len(read_buffer) \in Nat
      BY <1>3, <1>6, LenProperties, Bounds DEF ThreadWrites
    <3> QED
      BY <3>1, MinBounds
  <2>3. n \in Nat /\ n <= Len(read_buffer)
    BY <1>3, <2>2, LenProperties
  <2>4. x \in Seq(Item)
    BY <1>3, ConcatProperties
  <2> HIDE DEF n, x
  <2>5. t \in Seq(Item) /\ d \in Seq(Item)
    BY <1>3, <2>2, Pieces
  <2>6. (x \o t) \o d = x \o read_buffer
    BY <1>3, <2>3, <2>4, Split
  <2> HIDE DEF t, d
  <2>7. w \o (stdin \o t) = x \o t
    <3>1. Joined(Joined(w, stdin), t) = Joined(w, Joined(stdin, t))
      BY <1>3, <2>5, Regroup
    <3> QED
      BY <3>1 DEF Joined, x
  <2>8. (w \o (stdin \o t)) \o d = x \o read_buffer
    BY <2>6, <2>7
  <2> QED
    BY <1>2, <1>4, <2>1, <2>8 DEF x
<1> QED
  BY <1>5, <1>6

LEMMA TypedWhole ==
  ASSUME IInv, ThreadHolds, UserTypes
  PROVE  /\ UNCHANGED <<sent, wrote, terminal>> /\ typed' = typed + 1
         /\ \A c \in Conns : ToShow(c)' = ToShow(c)
         /\ <<Stdin, typed + 1>> \in Item
         /\ ToSend' = Append(ToSend, <<Stdin, typed + 1>>)
<1> DEFINE x == <<Stdin, typed + 1>>
           w == InFlight(Stdin)
<1>1. /\ UNCHANGED <<pc, buffer, wrote, terminal, rx, sent, read_buffer>>
      /\ typed' = typed + 1 /\ typed < MaxTyped
      /\ IF platform = "linux" THEN stdin' = Append(stdin, x) /\ console' = console
         ELSE console' = Append(console, x) /\ stdin' = stdin
  BY DEF UserTypes, local, net
<1>2. (\A s : InFlight(s)' = InFlight(s)) /\ w' = w
  BY <1>1 DEF InFlight
<1>3. x \in Item
  <2>1. typed \in 0..MaxTyped
    BY TypeParts DEF IInv, NetTypes
  <2>2. typed + 1 \in 1..MaxTyped
    BY <1>1, <2>1, Bounds
  <2> QED
    BY <2>2 DEF Item
<1>4. /\ w \in Seq(Item) /\ stdin \in Seq(Item) /\ read_buffer \in Seq(Item)
      /\ console \in Seq(Item)
  BY WholeTypes
<1>5. /\ ToSend = w \o stdin \o read_buffer \o console
      /\ ToSend' = w' \o stdin' \o read_buffer' \o console'
  BY DEF ToSend
<1>6. \A c \in Conns : ToShow(c)' = ToShow(c)
  BY <1>1, <1>2 DEF ToShow
<1> HIDE DEF w, x
<1>7. ToSend' = Append(ToSend, x)
  <2>1. CASE platform = "linux"
    <3>1. read_buffer = <<>> /\ console = <<>>
      BY <2>1 DEF ThreadHolds
    <3>2. w \o Append(stdin, x) = Append(w \o stdin, x)
      BY <1>3, <1>4, AppendLast
    <3>3. w \o stdin \in Seq(Item) /\ Append(w \o stdin, x) \in Seq(Item)
      BY <1>3, <1>4, ConcatProperties, AppendProperties
    <3>4. ASSUME NEW s \in Seq(Item) PROVE s \o <<>> \o <<>> = s
      BY <3>4, ConcatEmptySeq
    <3>5. ToSend = w \o stdin
      BY <1>5, <3>1, <3>3, <3>4
    <3>6. ToSend' = Append(w \o stdin, x) \o <<>> \o <<>>
      BY <1>1, <1>2, <1>5, <2>1, <3>1, <3>2
    <3> QED
      BY <3>3, <3>4, <3>5, <3>6
  <2>2. CASE platform # "linux"
    <3> DEFINE r == w \o stdin \o read_buffer
    <3>1. r \in Seq(Item)
      BY <1>4, ConcatProperties
    <3>2. ToSend = r \o console /\ ToSend' = r \o Append(console, x)
      BY <1>1, <1>2, <1>5, <2>2
    <3> HIDE DEF r
    <3> QED
      BY <1>3, <1>4, <3>1, <3>2, AppendLast
  <2> QED
    BY <2>1, <2>2
<1> QED
  BY <1>1, <1>3, <1>6, <1>7 DEF x

LEMMA SentWhole ==
  ASSUME IInv, NEW d \in Conns, PeerSend(d)
  PROVE  /\ UNCHANGED <<typed, wrote, terminal>> /\ ToSend' = ToSend
         /\ <<d, sent[d] + 1>> \in Item
         /\ \A c \in Conns :
              IF c = d THEN /\ sent'[c] = sent[c] + 1
                            /\ ToShow(c)' = Append(ToShow(c), <<c, sent[c] + 1>>)
              ELSE sent'[c] = sent[c] /\ ToShow(c)' = ToShow(c)
<1> DEFINE x == <<d, sent[d] + 1>>
<1>1. QueueTypes /\ NetTypes
  BY TypeParts DEF IInv
<1>2. /\ UNCHANGED <<pc, buffer, wrote, terminal, stdin, typed, read_buffer, console>>
      /\ sent' = [sent EXCEPT ![d] = @ + 1] /\ sent[d] < MaxSend
      /\ rx' = [rx EXCEPT ![d] = Append(@, x)]
  BY DEF PeerSend, local, user, thread
<1>3. \A s : InFlight(s)' = InFlight(s)
  BY <1>2 DEF InFlight
<1>4. x \in Item
  <2>1. sent[d] + 1 \in 1..MaxSend
    BY <1>1, <1>2, Bounds DEF NetTypes
  <2> QED
    BY <2>1 DEF Item
<1>5. InFlight(d) \in Seq(Item) /\ rx[d] \in Seq(Item)
  BY WholeTypes
<1>6. \A c \in Conns : IF c = d THEN rx'[c] = Append(rx[c], x) /\ sent'[c] = sent[c] + 1
                       ELSE rx'[c] = rx[c] /\ sent'[c] = sent[c]
  BY <1>1, <1>2 DEF QueueTypes, NetTypes
<1> HIDE DEF x
<1>7. ToShow(d)' = Append(ToShow(d), x)
  <2>1. InFlight(d) \o Append(rx[d], x) = Append(InFlight(d) \o rx[d], x)
    BY <1>4, <1>5, AppendLast
  <2>2. rx'[d] = Append(rx[d], x) /\ InFlight(d)' = InFlight(d)
    BY <1>3, <1>6
  <2> QED
    BY <2>1, <2>2 DEF ToShow
<1> QED
  BY <1>2, <1>3, <1>4, <1>6, <1>7 DEF ToSend, ToShow, x
-----------------------------------------------------------------------------
(* One connection. *)

\* The front of what is still to come is written.
LEMMA WriteFront ==
  ASSUME NEW S, NEW e, NEW n \in Nat, NEW w \in Seq(S), NEW b \in Seq(S),
         NEW r \in Seq(S), Joined(w, Joined(b, r)) = Stream(e, n)
  PROVE  /\ Joined(Joined(w, b), r) = Stream(e, n)
         /\ Len(Joined(w, b)) <= n /\ Joined(w, b) = Stream(e, Len(Joined(w, b)))
<1> DEFINE v == Joined(w, b)
<1>1. v \o r = Stream(e, n)
  <2>1. Joined(Joined(w, b), r) = Joined(w, Joined(b, r))
    BY Regroup
  <2> QED
    BY <2>1 DEF Joined
<1>2. v \in Seq(S)
  BY Regroup
<1> HIDE DEF v
<1>3. Len(v) <= n /\ v = Stream(e, Len(v))
  BY <1>1, <1>2, StreamPrefix
<1> QED
  BY <1>1, <1>3 DEF v, Joined

\* The buffer is written to the connection.
LEMMA OneWriteToSocket ==
  ASSUME NEW c \in Conns, Conns = {c}, IInv, StreamInv, WriteToSocket
  PROVE  WholeStreams(c)' /\ Shown(c)'
<1>1. /\ pc = "write" /\ Out \in Fd /\ fdt[Out] = c /\ peer[c] # "gone"
      /\ wrote' = [wrote EXCEPT ![c] = @ \o buffer]
      /\ UNCHANGED <<terminal, sent, typed, peer>>
  BY DEF WriteToSocket, net, user
<1>2. /\ terminal \o ToShow(c) = Stream(c, sent[c])
      /\ wrote[c] \o ToSend = Stream(Stdin, typed)
      /\ Shown(c) /\ Sources
  BY <1>1 DEF StreamInv, WholeStreams, Unclosed, Alive, Held
<1>3. /\ buffer \in Seq(Item) /\ ToSend = buffer \o ToSend' /\ ToSend' \in Seq(Item)
      /\ ToShow(c)' = ToShow(c)
  <2>1. In = Stdin
    BY <1>1, <1>2, FlightAtWrite, Descriptors DEF Sources
  <2> QED
    BY <1>2, <2>1, WriteWhole, WholeTypes, Descriptors
<1>4. wrote[c] \in Seq(Item) /\ typed \in Nat /\ wrote'[c] = wrote[c] \o buffer
  BY <1>1, WholeTypes, TypeParts DEF IInv, QueueTypes
<1> DEFINE w == wrote[c]
           r == ToSend'
<1>5. /\ w \in Seq(Item) /\ r \in Seq(Item) /\ buffer \in Seq(Item)
      /\ Joined(w, Joined(buffer, r)) = Stream(Stdin, typed)
  BY <1>2, <1>3, <1>4 DEF Joined
<1> HIDE DEF w, r
<1>6. /\ Joined(Joined(w, buffer), r) = Stream(Stdin, typed)
      /\ Len(Joined(w, buffer)) <= typed
      /\ Joined(w, buffer) = Stream(Stdin, Len(Joined(w, buffer)))
  BY <1>4, <1>5, WriteFront
<1>7. /\ wrote'[c] \o ToSend' = Stream(Stdin, typed)
      /\ Len(wrote'[c]) <= typed /\ wrote'[c] = Stream(Stdin, Len(wrote'[c]))
  BY <1>4, <1>6 DEF w, r, Joined
<1>8. Shown(c)'
  BY <1>1, <1>2, <1>7 DEF Shown, Stream
<1>9. terminal' \o ToShow(c)' = Stream(c, sent[c])
  BY <1>1, <1>2, <1>3
<1> QED
  BY <1>1, <1>7, <1>8, <1>9 DEF WholeStreams, Stream

\* The buffer is written to the terminal.
LEMMA OneWriteToStdin ==
  ASSUME NEW c \in Conns, Conns = {c}, IInv, StreamInv, WriteToStdin
  PROVE  WholeStreams(c)' /\ Shown(c)'
<1>1. /\ pc = "write" /\ Out = Stdin /\ terminal' = terminal \o buffer
      /\ UNCHANGED <<wrote, sent, typed, peer>>
  BY DEF WriteToStdin, net, user
<1>2. In \in Fd /\ fdt[In] = c
  BY <1>1, FlightAtWrite, Descriptors DEF StreamInv, Sources
<1>3. /\ terminal \o ToShow(c) = Stream(c, sent[c])
      /\ peer[c] # "gone" => wrote[c] \o ToSend = Stream(Stdin, typed)
      /\ Shown(c) /\ Sources
  BY <1>1, <1>2 DEF StreamInv, WholeStreams, Unclosed, Alive, Held
<1>4. /\ ToShow(c) = buffer \o ToShow(c)' /\ ToShow(c)' \in Seq(Item)
      /\ ToSend' = ToSend
  BY <1>2, <1>3, WriteWhole, Descriptors
<1>5. terminal \in Seq(Item) /\ buffer \in Seq(Item) /\ sent[c] \in Nat
  BY WholeTypes
<1> DEFINE r == ToShow(c)'
<1>6. r \in Seq(Item) /\ Joined(terminal, Joined(buffer, r)) = Stream(c, sent[c])
  BY <1>3, <1>4 DEF Joined
<1> HIDE DEF r
<1>7. /\ Joined(Joined(terminal, buffer), r) = Stream(c, sent[c])
      /\ Len(Joined(terminal, buffer)) <= sent[c]
      /\ Joined(terminal, buffer) = Stream(c, Len(Joined(terminal, buffer)))
  BY <1>5, <1>6, WriteFront
<1>8. /\ terminal' \o ToShow(c)' = Stream(c, sent[c])
      /\ Len(terminal') <= sent[c] /\ terminal' = Stream(c, Len(terminal'))
  BY <1>1, <1>7 DEF r, Joined
<1>9. Shown(c)'
  BY <1>1, <1>3, <1>8 DEF Shown, Stream
<1>10. peer'[c] # "gone" => wrote'[c] \o ToSend' = Stream(Stdin, typed)
  BY <1>1, <1>3, <1>4
<1> QED
  BY <1>1, <1>8, <1>9, <1>10 DEF WholeStreams, Stream

\* Every other step writes nothing.
LEMMA OneUnwritten ==
  ASSUME NEW c \in Conns, Conns = {c}, IInv, StreamInv, [Next]_vars,
         ~WriteToSocket, ~WriteToStdin
  PROVE  WholeStreams(c)' /\ Shown(c)'
<1>1. /\ Sources /\ ThreadHolds /\ Shown(c)
      /\ Unclosed(c)' => /\ terminal \o ToShow(c) = Stream(c, sent[c])
                         /\ peer'[c] # "gone" => wrote[c] \o ToSend = Stream(Stdin, typed)
  BY UnclosedKept DEF StreamInv, WholeStreams
<1>2. /\ terminal \in Seq(Item) /\ wrote[c] \in Seq(Item)
      /\ ToShow(c) \in Seq(Item) /\ ToSend \in Seq(Item)
      /\ sent[c] \in Nat /\ typed \in Nat
      /\ Len(terminal) \in Nat /\ Len(wrote[c]) \in Nat
  BY WholeTypes, LenProperties
<1>3. ASSUME UNCHANGED <<wrote, terminal, sent, typed>>,
             Unclosed(c)' => /\ ToShow(c)' = ToShow(c)
                             /\ peer'[c] # "gone" => ToSend' = ToSend
      PROVE  WholeStreams(c)' /\ Shown(c)'
  BY <1>1, <1>3 DEF WholeStreams, Shown, Stream
<1>4. CASE QuietStep
  <2>1. Unclosed(c)' => ToShow(c)' = ToShow(c) /\ ToSend' = ToSend
    BY <1>4, QuietWhole DEF Unclosed
  <2>2. UNCHANGED <<wrote, terminal, sent, typed>>
    BY <1>4 DEF QuietStep
  <2> QED
    BY <1>3, <2>1, <2>2
<1>5. CASE BridgedRead
  <2>1. ToShow(c)' = ToShow(c) /\ ToSend' = ToSend
    BY <1>1, <1>5, ReadWhole
  <2>2. UNCHANGED <<wrote, terminal, sent, typed>>
    BY <1>5 DEF BridgedRead, net, user
  <2> QED
    BY <1>3, <2>1, <2>2
<1>6. CASE WriteLost
  <2>1. /\ UNCHANGED <<wrote, terminal, sent, typed, peer>>
        /\ Out \in Fd /\ fdt[Out] \in Conns /\ peer[fdt[Out]] = "gone" /\ pc = "write"
    BY <1>6 DEF WriteLost, net, queues, user
  <2>2. peer'[c] = "gone"
    BY <2>1
  <2>3. In = Stdin
    BY <1>1, <2>1, FlightAtWrite, Descriptors DEF Sources
  <2>4. ToShow(c)' = ToShow(c)
    BY <1>1, <1>6, <2>3, WriteWhole, Descriptors
  <2> QED
    BY <1>3, <2>1, <2>2, <2>4
<1>7. CASE ThreadReads \/ ThreadWrites
  <2>1. ToShow(c)' = ToShow(c) /\ ToSend' = ToSend
    BY <1>1, <1>7, ThreadWhole
  <2>2. UNCHANGED <<wrote, terminal, sent, typed>>
    BY <1>7 DEF ThreadReads, ThreadWrites, net, queues
  <2> QED
    BY <1>3, <2>1, <2>2
<1>8. CASE UserTypes
  <2> DEFINE x == <<Stdin, typed + 1>>
  <2>1. /\ UNCHANGED <<sent, wrote, terminal>> /\ typed' = typed + 1
        /\ ToShow(c)' = ToShow(c) /\ x \in Item /\ ToSend' = Append(ToSend, x)
    BY <1>1, <1>8, TypedWhole
  <2>2. Append(Stream(Stdin, typed), x) = Stream(Stdin, typed + 1)
    BY <1>2, StreamAppend
  <2> HIDE DEF x
  <2>3. wrote[c] \o Append(ToSend, x) = Append(wrote[c] \o ToSend, x)
    <3> DEFINE w == wrote[c]
    <3>1. w \in Seq(Item)
      BY <1>2
    <3> HIDE DEF w
    <3>2. w \o Append(ToSend, x) = Append(w \o ToSend, x)
      BY <1>2, <2>1, <3>1, AppendLast
    <3> QED
      BY <3>2 DEF w
  <2>4. Unclosed(c)' => /\ terminal' \o ToShow(c)' = Stream(c, sent'[c])
                        /\ peer'[c] # "gone" =>
                             wrote'[c] \o ToSend' = Stream(Stdin, typed')
    BY <1>1, <2>1, <2>2, <2>3
  <2>5. Len(wrote[c]) <= typed'
    BY <1>1, <1>2, <2>1 DEF Shown
  <2> QED
    BY <1>1, <2>1, <2>4, <2>5 DEF WholeStreams, Shown, Stream
<1>9. CASE \E d \in Conns : PeerSend(d)
  <2> DEFINE x == <<c, sent[c] + 1>>
  <2>1. /\ UNCHANGED <<typed, wrote, terminal>> /\ ToSend' = ToSend
        /\ sent'[c] = sent[c] + 1 /\ x \in Item /\ ToShow(c)' = Append(ToShow(c), x)
    BY <1>9, SentWhole
  <2>2. Append(Stream(c, sent[c]), x) = Stream(c, sent[c] + 1)
    BY <1>2, StreamAppend
  <2> HIDE DEF x
  <2>3. terminal \o Append(ToShow(c), x) = Append(terminal \o ToShow(c), x)
    BY <1>2, <2>1, AppendLast
  <2>4. Unclosed(c)' => /\ terminal' \o ToShow(c)' = Stream(c, sent'[c])
                        /\ peer'[c] # "gone" =>
                             wrote'[c] \o ToSend' = Stream(Stdin, typed')
    BY <1>1, <2>1, <2>2, <2>3
  <2>5. Len(terminal) <= sent'[c]
    BY <1>1, <1>2, <2>1 DEF Shown
  <2> QED
    BY <1>1, <2>1, <2>4, <2>5 DEF WholeStreams, Shown, Stream
<1> QED
  BY <1>4, <1>5, <1>6, <1>7, <1>8, <1>9, QuietSteps

\* With one connection, in client or listening mode, what the peer is sent is
\* what was typed and what appears is what the peer sent, in order and complete
\* (bridged_socket_event_handler, stdin_read_thread), whatever the buffers'
\* sizes and the interleaving.
THEOREM OneConnection ==
  ASSUME NEW c \in Conns, Conns = {c}
  PROVE  Spec => []OneConnectionStreams
<1>1. Init => StreamInv
  <2> SUFFICES ASSUME Init PROVE StreamInv
    OBVIOUS
  <2>1. /\ stdin = <<>> /\ console = <<>> /\ read_buffer = <<>> /\ terminal = <<>>
        /\ rx[c] = <<>> /\ wrote[c] = <<>> /\ sent[c] = 0 /\ typed = 0
        /\ pc # "write" /\ (platform = "linux" => tpc = "none")
    BY DEF Init, PassStart
  <2>2. Sources /\ ThreadHolds
    BY <2>1, EmptySeq DEF Sources, BufferRead, ThreadHolds
  <2>3. \A s : Stream(s, 0) = <<>>
    BY DEF Stream
  <2>4. InFlight(c) = <<>> /\ InFlight(Stdin) = <<>>
    BY <2>1 DEF InFlight
  <2>5. <<>> \o <<>> = <<>>
    OBVIOUS
  <2>6. ToShow(c) = <<>> /\ ToSend = <<>>
    BY <2>1, <2>4, <2>5 DEF ToShow, ToSend
  <2>7. WholeStreams(c) /\ Shown(c)
    BY <2>1, <2>3, <2>5, <2>6 DEF WholeStreams, Shown
  <2> QED
    BY <2>2, <2>7 DEF StreamInv
<1>2. IInv /\ StreamInv /\ [Next]_vars => StreamInv'
  <2> SUFFICES ASSUME IInv, StreamInv, [Next]_vars PROVE StreamInv'
    OBVIOUS
  <2>1. Sources' /\ ThreadHolds'
    BY SourcesStep, ThreadHoldsStep DEF StreamInv
  <2>2. WholeStreams(c)' /\ Shown(c)'
    BY OneWriteToSocket, OneWriteToStdin, OneUnwritten
  <2> QED
    BY <2>1, <2>2 DEF StreamInv
<1>3. IInv /\ StreamInv => OneConnectionStreams
  <2> SUFFICES ASSUME IInv, StreamInv PROVE OneConnectionStreams
    OBVIOUS
  <2>1. WholeStreams(c) /\ Shown(c)
    BY DEF StreamInv
  <2>2. /\ terminal \in Seq(Item) /\ InFlight(c) \in Seq(Item) /\ rx[c] \in Seq(Item)
        /\ wrote[c] \in Seq(Item) /\ InFlight(Stdin) \in Seq(Item)
        /\ stdin \in Seq(Item) /\ read_buffer \in Seq(Item) /\ console \in Seq(Item)
    BY WholeTypes
  <2> DEFINE i == InFlight(Stdin)
             j == InFlight(c)
  <2> HIDE DEF i, j
  <2>3. terminal \o InFlight(c) \o rx[c] = terminal \o ToShow(c)
    <3> DEFINE k == rx[c]
    <3>1. j \in Seq(Item) /\ k \in Seq(Item)
      BY <2>2 DEF j
    <3> HIDE DEF k
    <3>2. Joined(Joined(terminal, j), k) = Joined(terminal, Joined(j, k))
      BY <2>2, <3>1, Regroup
    <3> QED
      BY <3>2 DEF Joined, ToShow, j, k
  <2>4. wrote[c] \o InFlight(Stdin) \o stdin \o read_buffer \o console
          = wrote[c] \o ToSend
    <3> DEFINE a == wrote[c]
    <3>1. i \in Seq(Item) /\ a \in Seq(Item)
      BY <2>2 DEF i
    <3> HIDE DEF a
    <3>2. \A p, q \in Seq(Item) : /\ Joined(Joined(a, p), q) = Joined(a, Joined(p, q))
                                 /\ Joined(p, q) \in Seq(Item)
      <4> TAKE p, q \in Seq(Item)
      <4> QED
        BY <3>1, Regroup
    <3>3. Joined(Joined(Joined(Joined(a, i), stdin), read_buffer), console)
            = Joined(a, Joined(Joined(Joined(i, stdin), read_buffer), console))
      <4> DEFINE p == Joined(i, stdin)
                 q == Joined(p, read_buffer)
      <4>1. p \in Seq(Item) /\ Joined(Joined(a, i), stdin) = Joined(a, p)
        BY <2>2, <3>1, <3>2
      <4> HIDE DEF p
      <4>2. q \in Seq(Item) /\ Joined(Joined(a, p), read_buffer) = Joined(a, q)
        BY <2>2, <3>2, <4>1
      <4> HIDE DEF q
      <4>3. Joined(Joined(a, q), console) = Joined(a, Joined(q, console))
        BY <2>2, <3>2, <4>2
      <4> QED
        BY <4>1, <4>2, <4>3 DEF p, q
    <3> QED
      BY <3>3 DEF Joined, ToSend, i, a
  <2>5. Alive /\ Held(c) => Unclosed(c)
    BY DEF Unclosed
  <2> QED
    BY <2>1, <2>3, <2>4, <2>5 DEF WholeStreams, Shown, OneConnectionStreams
<1> QED
  BY <1>1, <1>2, <1>3, Invariance, PTL DEF Spec

-----------------------------------------------------------------------------
(* Until something ends. *)

LEMMA FinishedKept ==
  ASSUME IInv, [Next]_vars, NEW c \in Conns, Finished(c)
  PROVE  Finished(c)'
<1>1. NetTypes
  BY TypeParts DEF IInv
<1>2. CASE peer' = peer
  BY <1>2 DEF Finished
<1>3. CASE \E d \in Conns : ClientConnect(d) \/ PeerFinish(d)
  BY <1>1, <1>3 DEF ClientConnect, PeerFinish, Finished, NetTypes
<1>4. CASE DebugDump \/ RemoveMarked \/ SocketAccept \/ BridgedEof
  BY <1>2, <1>4 DEF DebugDump, RemoveMarked, SocketAccept, BridgedEof, net
<1> QED
  BY <1>2, <1>3, <1>4, Changes

LEMMA EofKept ==
  ASSUME [Next]_vars, eof
  PROVE  eof'
<1> USE DEF user
<1>1. CASE UserTypes \/ UserEnds \/ UNCHANGED vars
  BY <1>1 DEF UserTypes, UserEnds, vars
<1>2. CASE Thread \/ \E c \in Conns : ClientConnect(c) \/ PeerSend(c) \/ PeerFinish(c)
  BY <1>2 DEF Thread, ThreadStarts, ThreadReads, ThreadWrites, ThreadEnds, ClientConnect,
              PeerSend, PeerFinish
<1>3. CASE \/ DebugDump \/ RemoveMarked \/ EnterSelect \/ LoopEnds \/ SelectReturns
           \/ SkipEntry \/ PassDone \/ SelectFails
  BY <1>3 DEF DebugDump, RemoveMarked, EnterSelect, LoopEnds, SelectReturns, SkipEntry,
              PassDone, SelectFails, NextPass
<1>4. CASE SocketAccept \/ AcceptFails \/ DoubleFree \/ WriteFails
  BY <1>4 DEF SocketAccept, AcceptFails, DoubleFree, WriteFails, Stop
<1>5. CASE BridgedRead \/ BridgedEof \/ WriteToSocket \/ WriteLost \/ WriteToStdin
  BY <1>5 DEF BridgedRead, BridgedEof, WriteToSocket, WriteLost, WriteToStdin
<1> QED
  BY <1>1, <1>2, <1>3, <1>4, <1>5 DEF Next, Process, Environment

LEMMA EndKept ==
  ASSUME IInv, [Next]_vars, SomeEnd
  PROVE  SomeEnd'
<1>1. UNCHANGED Machine
  BY FlagStep, TypeParts DEF IInv
<1>2. CASE eof /\ platform = "linux"
  BY <1>1, <1>2, EofKept DEF SomeEnd, Machine
<1>3. CASE \E c \in Conns : Finished(c)
  BY <1>3, FinishedKept DEF SomeEnd
<1> QED
  BY <1>2, <1>3 DEF SomeEnd

\* No handler finds an end, and no write fails but to descriptor 0.
LEMMA NothingEnds ==
  ASSUME IInv, Sources, NoneMarked, ~SomeEnd
  PROVE  ~EndOfFile /\ (WriteFails => Out = Stdin /\ ~tty)
<1>1. ListTypes /\ NetTypes /\ Wiring
  BY TypeParts DEF IInv
<1>2. \A i \in 1..Len(Elems) : SocketEntry(i) => fdt[Elems[i].socket] \in Conns
  BY DEF NoneMarked, SocketEntry
<1>3. ~EndOfFile
  <2> SUFFICES ASSUME EndOfFile PROVE FALSE
    OBVIOUS
  <2>1. /\ FiredBridge /\ AtEnd(In) /\ pos \in 1..Len(Elems) /\ Entry = Elems[pos]
        /\ SocketEntry(pos) \/ In = Stdin
    BY <1>1, FiredEntry DEF EndOfFile
  <2>2. In # Stdin
    BY <2>1 DEF AtEnd, SomeEnd
  <2>3. fdt[In] \in Conns
    BY <1>2, <2>1, <2>2 DEF In
  <2> QED
    BY <2>1, <2>2, <2>3, Descriptors DEF AtEnd, Finished, SomeEnd
<1>4. WriteFails => Out = Stdin /\ ~tty
  <2> SUFFICES ASSUME WriteFails, ~(Out = Stdin /\ ~tty) PROVE FALSE
    OBVIOUS
  <2>1. /\ pc = "write" /\ pos \in 1..Len(Elems) /\ Elems[pos].handler = "bridge"
        /\ Entry = Elems[pos]
    BY DEF WriteFails, Sources, BufferRead, Entry, Elems
  <2>2. ~Entry.deleted /\ Out = Elems[pos].context
    BY <2>1 DEF NoneMarked, Out
  <2>3. SocketEntry(pos) \/ StdinEntry(pos)
    BY <1>1, <2>1 DEF Wiring, EntriesKnown, ListenEntry
  <2>4. CASE SocketEntry(pos)
    BY <2>2, <2>4, Descriptors DEF SocketEntry, WriteFails
  <2>5. CASE StdinEntry(pos)
    <3>1. /\ pos - 1 \in 1..Len(Elems) /\ Out = Elems[pos - 1].socket /\ Out \in Fd
          /\ Elems[pos - 1].handler = "bridge"
      BY <1>1, <2>1, <2>2, <2>5, ListElems DEF StdinEntry
    <3>2. SocketEntry(pos - 1)
      BY <1>1, <3>1, Descriptors DEF Wiring, EntriesKnown, ListenEntry, StdinEntry
    <3>3. fdt[Out] \in Conns
      BY <1>2, <3>1, <3>2
    <3> QED
      BY <3>1, <3>3, Descriptors DEF WriteFails, Finished, SomeEnd
  <2> QED
    BY <2>3, <2>4, <2>5
<1> QED
  BY <1>3, <1>4

LEMMA UnendedInit ==
  ASSUME Init
  PROVE  Unended
<1>1. PICK first \in Fd :
        sockets = IF Mode = "client" THEN Bridged(socket_list_init, first)
                  ELSE socket_list_insert(socket_list_init, first, "listen", NoFd)
  BY InitFdt
<1>2. <<>> \in Seq(FdEntry) /\ Len(<<>>) = 0 /\ socket_list_init = AtRear(<<>>)
  BY DEF socket_list_init, list_init, AtRear
<1>3. CASE Mode = "client"
  <2>1. PICK t \in Seq(FdEntry) :
          /\ Bridged(AtRear(<<>>), first) = AtRear(t)
          /\ Len(t) = Len(<<>>) + 2
          /\ t[Len(<<>>) + 1] = SocketOf(first) /\ t[Len(<<>>) + 2] = StdinOf(first)
    BY <1>2, BridgedList
  <2>2. Len(t) = 2 /\ t[1] = SocketOf(first) /\ t[2] = StdinOf(first)
    BY <1>2, <2>1
  <2>3. Elems = t
    BY <1>1, <1>2, <1>3, <2>1 DEF Elems, AtRear
  <2>4. ~t[1].deleted /\ ~t[2].deleted
    BY <2>2 DEF SocketOf, StdinOf
  <2>5. 1..Len(Elems) = {1, 2}
    <3>1. Len(Elems) = 2 /\ 1..2 = {1, 2}
      BY <2>2, <2>3
    <3> QED
      BY <3>1
  <2>6. NoneMarked
    BY <2>3, <2>4, <2>5 DEF NoneMarked
  <2> QED
    BY <2>2, <2>3, <2>6, EmptySeq DEF Unended, list_empty, Elems
<1>4. CASE Mode # "client"
  <2> DEFINE e == [socket |-> first, handler |-> "listen", context |-> NoFd,
                   deleted |-> FALSE]
  <2>1. e \in FdEntry /\ ~e.deleted
    BY DEF FdEntry, SOCKET_ENTRY, Watched
  <2>2. sockets = list_insert_after(AtRear(<<>>), e)
    BY <1>1, <1>2, <1>4 DEF socket_list_insert
  <2> HIDE DEF e
  <2>3. sockets = AtRear(Append(<<>>, e))
    BY <1>2, <2>1, <2>2, InsertAtRear
  <2>4. /\ Append(<<>>, e) \in Seq(FdEntry) /\ Len(Append(<<>>, e)) = 1
        /\ Append(<<>>, e)[1] = e
    BY <1>2, <2>1, AppendProperties
  <2>5. Len(Elems) = 1 /\ Elems[1] = e /\ 1..Len(Elems) = {1}
    BY <2>3, <2>4 DEF AtRear, Elems
  <2> QED
    BY <2>1, <2>5, EmptySeq DEF Unended, NoneMarked, list_empty, Elems
<1> QED
  BY <1>3, <1>4

\* Entries are removed only once something ended; accept adds two.
LEMMA UnendedStep ==
  ASSUME IInv, Sources, Unended, [Next]_vars
  PROVE  Unended'
<1>1. ListTypes /\ NetTypes /\ Wiring /\ MaskListed
  BY TypeParts DEF IInv
<1> SUFFICES ASSUME ~SomeEnd' PROVE NoneMarked' /\ ~list_empty(sockets')
  BY DEF Unended
<1>2. ~SomeEnd
  BY EndKept
<1>3. NoneMarked /\ ~list_empty(sockets) /\ ~EndOfFile
  BY <1>2, NothingEnds DEF Unended
<1>4. CASE sockets' = sockets
  BY <1>3, <1>4 DEF NoneMarked, Elems
<1>5. ~RemoveMarked
  BY <1>1, <1>3, ListElems DEF RemoveMarked, HasMarked, NoneMarked, Elems
<1>6. CASE SocketAccept
  <2>1. PICK f \in Fd : sockets' = Bridged(sockets, f)
    BY <1>1, <1>6, AcceptStep
  <2>2. PICK L \in Nat : L = Len(Elems)
    BY <1>1, ListElems
  <2>3. Elems \in Seq(FdEntry) /\ sockets = AtRear(Elems)
    BY <1>1, ListElems DEF Wiring
  <2>4. PICK t \in Seq(FdEntry) :
          /\ Bridged(AtRear(Elems), f) = AtRear(t) /\ Len(t) = L + 2
          /\ \A i \in 1..L : t[i] = Elems[i]
          /\ t[L + 1] = SocketOf(f) /\ t[L + 2] = StdinOf(f)
    BY <2>2, <2>3, BridgedList
  <2>5. Elems' = t
    BY <2>1, <2>3, <2>4 DEF AtRear, Elems
  <2>6. ASSUME NEW i \in 1..(L + 2) PROVE ~t[i].deleted
    <3>1. i \in 1..L \/ i = L + 1 \/ i = L + 2
      BY <2>2
    <3> QED
      BY <1>3, <2>2, <2>4, <3>1 DEF NoneMarked, SocketOf, StdinOf
  <2>7. NoneMarked'
    BY <2>4, <2>5, <2>6 DEF NoneMarked
  <2>8. Len(t) # 0
    BY <2>2, <2>4
  <2> QED
    BY <2>5, <2>7, <2>8, EmptySeq DEF list_empty, Elems
<1>7. ~BridgedEof
  BY <1>3 DEF BridgedEof
<1> QED
  BY <1>4, <1>5, <1>6, <1>7, Changes DEF DebugDump, SOCKET_LIST

LEMMA UnendedAlways == Spec => [](Sources /\ Unended)
<1>1. Init => Sources /\ Unended
  <2> SUFFICES ASSUME Init PROVE Sources /\ Unended
    OBVIOUS
  <2>1. Sources
    BY EmptySeq DEF Init, PassStart, Sources, BufferRead
  <2> QED
    BY <2>1, UnendedInit
<1>2. IInv /\ Sources /\ Unended /\ [Next]_vars => Sources' /\ Unended'
  BY SourcesStep, UnendedStep
<1> QED
  BY <1>1, <1>2, Invariance, PTL DEF Spec

\* What stops the process.
LEMMA Stops ==
  ASSUME [Next]_vars, Alive, ~Alive'
  PROVE  LoopEnds \/ AcceptFails \/ DoubleFree \/ WriteFails
<1>1. CASE Thread \/ Environment \/ UNCHANGED vars
  BY <1>1 DEF Thread, ThreadStarts, ThreadReads, ThreadWrites, ThreadEnds, Environment,
              ClientConnect, PeerSend, PeerFinish, UserTypes, UserEnds, vars, local, Alive
<1>2. CASE \/ DebugDump \/ RemoveMarked \/ EnterSelect \/ SelectReturns \/ SkipEntry
           \/ PassDone \/ SelectFails
  BY <1>2 DEF DebugDump, RemoveMarked, EnterSelect, SelectReturns, SkipEntry, PassDone,
              SelectFails, NextPass,
              PassStart, Continue, Alive
<1>3. CASE \/ SocketAccept \/ BridgedRead \/ BridgedEof
           \/ WriteToSocket \/ WriteLost \/ WriteToStdin
  BY <1>3 DEF SocketAccept, BridgedRead, BridgedEof, WriteToSocket, WriteLost,
              WriteToStdin, WriteDone, Continue, Alive
<1> QED
  BY <1>1, <1>2, <1>3 DEF Next, Process

\* Only a server accepts.
LEMMA OnlyServers ==
  ASSUME IInv, SocketAccept \/ AcceptFails
  PROVE  Mode = "listen"
<1>1. ListTypes /\ Wiring
  BY TypeParts DEF IInv
<1>2. pos \in 1..Len(Elems) /\ Elems[pos].handler = "listen"
  BY <1>1, ListElems DEF SocketAccept, AcceptFails, Fired, Visited, Entry, Elems
<1> QED
  BY <1>1, <1>2 DEF Wiring, EntriesKnown, ListenEntry, SocketEntry, StdinEntry

-----------------------------------------------------------------------------
(* select watches all it can and polls for the rest, so nothing that waits is *)
(* slept over.                                                                *)

\* The first entry of a descriptor that ended is marked, and so is the first of
\* its context.
LEMMA EofMarks ==
  ASSUME ListTypes, Wiring, BridgedEof, NEW i \in 1..Len(Elems),
         IsFirst(sockets, In, i) \/ IsFirst(sockets, Out, i)
  PROVE  Elems'[i].deleted
<1> DEFINE d1 == socket_list_delete(sockets, In)
           d2 == socket_list_delete(d1, Out)
<1>1. Elems \in Seq(FdEntry) /\ sockets = AtRear(Elems) /\ Len(Elems) \in Nat
  BY ListElems DEF Wiring
<1>2. /\ d1 = AtRear(d1.elems) /\ d1.elems \in Seq(FdEntry)
      /\ Len(d1.elems) = Len(Elems)
      /\ \A j \in 1..Len(Elems) :
           /\ d1.elems[j].socket = Elems[j].socket
           /\ d1.elems[j].deleted <=>
                (Elems[j].deleted \/ IsFirst(AtRear(Elems), In, j))
  BY <1>1, DeleteOnlyMarks DEF FdEntry
<1>3. \A j \in 1..Len(Elems) :
        d2.elems[j].deleted <=>
          (d1.elems[j].deleted \/ IsFirst(AtRear(d1.elems), Out, j))
  <2> HIDE DEF d1
  <2> QED
    BY <1>2, DeleteOnlyMarks DEF FdEntry
<1>4. Elems' = d2.elems
  BY DEF BridgedEof, AfterIn, Elems
<1>5. IsFirst(AtRear(Elems), Out, i) => IsFirst(AtRear(d1.elems), Out, i)
  <2> HIDE DEF d1
  <2>1. \A j \in 1..(i - 1) : j \in 1..Len(Elems)
    BY <1>1
  <2> QED
    BY <1>2, <2>1 DEF IsFirst, AtRear
<1> HIDE DEF d1, d2
<1> QED
  BY <1>1, <1>2, <1>3, <1>4, <1>5

LEMMA AllWatchedInit ==
  ASSUME Init
  PROVE  AllWatched
<1>1. pc # "select"
  BY DEF Init, PassStart
<1>2. CASE Mode = "client"
  BY <1>2 DEF Init, Counted, is_special_descriptor, AllWatched, PassStart
<1>3. CASE Mode # "client"
  <2>1. PICK first \in Fd :
          sockets = socket_list_insert(socket_list_init, first, "listen", NoFd)
    BY <1>3, InitFdt
  <2>2. Len(Elems) = 1 /\ Elems[1].socket = first
    BY <2>1 DEF Elems, socket_list_init, socket_list_insert, list_init, list_insert_after
  <2>3. \A i \in 1..Len(Elems) : ~is_special_descriptor(Elems[i].socket)
    BY <2>2, Descriptors DEF is_special_descriptor
  <2> QED
    BY <1>1, <2>3 DEF AllWatched
<1> QED
  BY <1>2, <1>3

LEMMA AllWatchedStep ==
  ASSUME IInv, AllWatched, [Next]_vars
  PROVE  AllWatched'
<1>1. ListTypes /\ PcTypes /\ FlagTypes /\ Wiring
  BY TypeParts DEF IInv
<1>2. platform' = platform
  BY <1>1, FlagStep DEF Machine
<1> USE DEF SOCKET_LIST
<1>3. ASSUME NEW i \in 1..Len(Elems'), is_special_descriptor(Elems[i].socket)'
      PROVE  n_special_descriptors' > 0
  <2>1. platform = "windows" /\ Elems'[i].socket = Stdin
    BY <1>2, <1>3 DEF is_special_descriptor
  <2>2. CASE SocketAccept
    BY <1>1, <2>1, <2>2 DEF SocketAccept, Counted, is_special_descriptor, PcTypes
  <2>3. CASE ~SocketAccept
    <3>1. n_special_descriptors' = n_special_descriptors
      <4> USE DEF local, net, queues, user, thread
      <4>1. CASE Thread \/ Environment \/ UNCHANGED vars
        BY <4>1 DEF Thread, ThreadStarts, ThreadReads, ThreadWrites, ThreadEnds, vars,
                    Environment, ClientConnect, PeerSend, PeerFinish, UserTypes, UserEnds
      <4>2. CASE \/ DebugDump \/ RemoveMarked \/ EnterSelect \/ LoopEnds
                 \/ SelectReturns \/ SkipEntry \/ PassDone \/ SelectFails
        BY <4>2 DEF DebugDump, RemoveMarked, EnterSelect, LoopEnds, SelectReturns,
                    SkipEntry, PassDone, SelectFails, NextPass
      <4>3. CASE AcceptFails \/ DoubleFree \/ WriteFails
        BY <4>3 DEF AcceptFails, DoubleFree, WriteFails, Stop
      <4>4. CASE BridgedRead \/ BridgedEof \/ WriteToSocket \/ WriteLost \/ WriteToStdin
        BY <4>4 DEF BridgedRead, BridgedEof, WriteToSocket, WriteLost, WriteToStdin
      <4> QED
        BY <2>3, <4>1, <4>2, <4>3, <4>4 DEF Next, Process
    <3>2. i \in 1..Len(Elems) /\ Elems[i].socket = Elems'[i].socket
      <4>1. CASE RemoveMarked
        <5>1. /\ Len(Elems) \in Nat /\ Len(Elems') = Len(Elems) - 1
              /\ \A j \in 1..(Len(Elems) - 1) : Elems'[j] = Elems[j]
          BY <1>1, <4>1, RemoveList
        <5> QED
          BY <5>1
      <4>2. CASE BridgedEof
        BY <1>1, <4>2, EofList
      <4>3. CASE sockets' = sockets
        BY <4>3 DEF Elems
      <4> QED
        BY <2>3, <4>1, <4>2, <4>3, Changes DEF DebugDump
    <3>3. is_special_descriptor(Elems[i].socket)
      BY <2>1, <3>2 DEF is_special_descriptor
    <3> QED
      BY <3>1, <3>2, <3>3 DEF AllWatched
  <2> QED
    BY <2>2, <2>3
<1>4. ASSUME pc' = "select", NEW i \in 1..Len(Elems'),
             ~is_special_descriptor(Elems[i].socket)'
      PROVE  Elems'[i].socket \in socket_mask'
  <2>1. CASE EnterSelect
    <3>1. Elems' = Elems /\ DOMAIN Elems = 1..Len(Elems) /\ ~HasMarked(sockets)
      BY <1>1, <2>1, ListElems DEF EnterSelect, Elems
    <3>2. ~is_special_descriptor(Elems[i].socket)
      BY <1>2, <1>4, <3>1 DEF is_special_descriptor
    <3>3. Elems[i].socket \in socket_list2fd_set(sockets)
      BY <3>1 DEF socket_list2fd_set, HasMarked, Elems
    <3> QED
      BY <2>1, <3>1, <3>2, <3>3 DEF EnterSelect
  <2>2. CASE Thread \/ Environment \/ UNCHANGED vars
    <3>1. UNCHANGED local
      BY <2>2 DEF Thread, ThreadStarts, ThreadReads, ThreadWrites, ThreadEnds, vars,
                  Environment, ClientConnect, PeerSend, PeerFinish, UserTypes, UserEnds
    <3>2. pc = "select" /\ Elems' = Elems /\ socket_mask' = socket_mask
      BY <1>4, <3>1 DEF local, Elems
    <3>3. ~is_special_descriptor(Elems[i].socket)
      BY <1>2, <1>4, <3>2 DEF is_special_descriptor
    <3> QED
      BY <3>2, <3>3 DEF AllWatched
  <2>3. CASE Process /\ ~EnterSelect
    <3>1. CASE \/ DebugDump \/ RemoveMarked \/ LoopEnds \/ SelectReturns \/ SkipEntry
               \/ PassDone \/ SelectFails
      BY <1>4, <3>1 DEF DebugDump, RemoveMarked, LoopEnds, SelectReturns, SkipEntry,
                        PassDone, SelectFails, NextPass, PassStart, Continue
    <3>2. CASE SocketAccept \/ AcceptFails \/ DoubleFree \/ WriteFails
      BY <1>4, <3>2 DEF SocketAccept, AcceptFails, DoubleFree, WriteFails, Stop, Continue
    <3>3. CASE BridgedRead \/ BridgedEof \/ WriteToSocket \/ WriteLost \/ WriteToStdin
      BY <1>4, <3>3 DEF BridgedRead, BridgedEof, WriteToSocket, WriteLost, WriteToStdin,
                        WriteDone, Continue
    <3> QED
      BY <2>3, <3>1, <3>2, <3>3 DEF Process
  <2> QED
    BY <2>1, <2>2, <2>3 DEF Next
<1> QED
  BY <1>3, <1>4 DEF AllWatched

LEMMA ClientPairInit ==
  ASSUME Init
  PROVE  ClientPair
<1> SUFFICES ASSUME Mode = "client" PROVE ClientPair
  BY DEF ClientPair
<1>1. PICK first \in Fd : sockets = Bridged(socket_list_init, first)
  BY InitFdt
<1>2. <<>> \in Seq(FdEntry) /\ Len(<<>>) = 0 /\ socket_list_init = AtRear(<<>>)
  BY DEF socket_list_init, list_init, AtRear
<1>3. PICK t \in Seq(FdEntry) :
        /\ Bridged(AtRear(<<>>), first) = AtRear(t)
        /\ Len(t) = Len(<<>>) + 2
        /\ t[Len(<<>>) + 1] = SocketOf(first) /\ t[Len(<<>>) + 2] = StdinOf(first)
  BY <1>2, BridgedList
<1>4. Len(t) = 2 /\ t[1] = SocketOf(first) /\ t[2] = StdinOf(first)
  BY <1>2, <1>3
<1>5. Elems = t
  BY <1>1, <1>2, <1>3 DEF Elems, AtRear
<1>6. Elems[2].socket = Stdin /\ ~Elems[1].deleted /\ ~Elems[2].deleted
  BY <1>4, <1>5 DEF SocketOf, StdinOf
<1>7. Len(Elems) = 2
  BY <1>4, <1>5
<1>8. Len(Elems) <= 2 /\ Len(Elems) # 1
  BY <1>7
<1> QED
  BY <1>6, <1>7, <1>8, Zenon DEF ClientPair

LEMMA ClientPairStep ==
  ASSUME IInv, ClientPair, [Next]_vars
  PROVE  ClientPair'
<1> SUFFICES ASSUME Mode = "client" PROVE ClientPair'
  BY DEF ClientPair
<1>1. ListTypes /\ Wiring /\ Len(Elems) \in Nat
  BY TypeParts, ListElems DEF IInv
<1>2. ~SocketAccept
  BY OnlyServers
<1>3. CASE sockets' = sockets
  BY <1>3 DEF ClientPair, Elems
<1>4. CASE RemoveMarked
  <2>1. /\ Len(Elems) >= 1 /\ Len(Elems') = Len(Elems) - 1
        /\ \A i \in 1..(Len(Elems) - 1) : Elems'[i] = Elems[i]
    BY <1>1, <1>4, RemoveList
  <2>2. \E i \in 1..Len(Elems) : Elems[i].deleted
    BY <1>1, <1>4, ListElems DEF RemoveMarked, HasMarked, Elems
  <2>3. CASE Len(Elems) = 1
    BY <1>1, <2>1, <2>3 DEF ClientPair
  <2>4. CASE Len(Elems) = 2
    <3>1. Elems[1].deleted
      BY <2>2, <2>4 DEF ClientPair
    <3>2. Len(Elems') = 1 /\ Elems'[1] = Elems[1]
      BY <2>1, <2>4
    <3> QED
      BY <3>1, <3>2 DEF ClientPair
  <2> QED
    BY <1>1, <2>1, <2>3, <2>4 DEF ClientPair
<1>5. CASE BridgedEof
  <2>1. /\ Len(Elems') = Len(Elems)
        /\ \A i \in 1..Len(Elems) :
             /\ Elems'[i].socket = Elems[i].socket
             /\ Elems[i].deleted => Elems'[i].deleted
    BY <1>1, <1>5, EofList
  <2>2. pos \in 1..Len(Elems) /\ Entry = Elems[pos]
        /\ (SocketEntry(pos) \/ StdinEntry(pos))
    BY <1>1, <1>5, FiredEntry DEF BridgedEof, EndOfFile
  <2>3. CASE Len(Elems) = 1
    BY <2>1, <2>3 DEF ClientPair
  <2>4. CASE Len(Elems) = 2
    <3>1. Elems[2].socket = Stdin /\ (Elems[1].deleted <=> Elems[2].deleted)
      BY <2>4 DEF ClientPair
    <3>2. 1 \in 1..Len(Elems) /\ 2 \in 1..Len(Elems) /\ pos \in {1, 2}
      BY <2>2, <2>4
    <3>3. SocketEntry(1) /\ Elems[1].socket \in Fd
      BY <1>1, <3>2 DEF Wiring, EntriesKnown, ListenEntry, SocketEntry, StdinEntry
    <3>4. IsFirst(sockets, Elems[1].socket, 1) /\ IsFirst(sockets, Stdin, 2)
      <4>1. Elems[1].socket # Stdin
        BY <3>3, Descriptors
      <4>2. 1..(1 - 1) = {} /\ 1..(2 - 1) = {1}
        OBVIOUS
      <4> QED
        BY <3>1, <4>1, <4>2 DEF IsFirst, Elems
    <3>5. CASE Elems[1].deleted
      BY <2>1, <2>4, <3>1, <3>2, <3>5 DEF ClientPair
    <3>6. CASE ~Elems[1].deleted
      <4>1. ~Entry.deleted
        BY <2>2, <3>1, <3>2, <3>6
      <4>2. {In, Out} = {Elems[1].socket, Stdin}
        <5>1. CASE pos = 1
          BY <2>2, <3>3, <4>1, <5>1 DEF In, Out, SocketEntry
        <5>2. CASE pos = 2
          <6>1. StdinEntry(2)
            BY <2>2, <3>1, <5>2, Descriptors DEF SocketEntry
          <6>2. Elems[2].context = Elems[1].socket
            BY <6>1 DEF StdinEntry
          <6> QED
            BY <2>2, <3>1, <4>1, <5>2, <6>2 DEF In, Out
        <5> QED
          BY <3>2, <5>1, <5>2
      <4>3. /\ IsFirst(sockets, In, 1) \/ IsFirst(sockets, Out, 1)
            /\ IsFirst(sockets, In, 2) \/ IsFirst(sockets, Out, 2)
        BY <3>4, <4>2
      <4>4. Elems'[1].deleted /\ Elems'[2].deleted
        BY <1>1, <1>5, <3>2, <4>3, EofMarks
      <4> QED
        BY <2>1, <2>4, <3>1, <3>2, <4>4 DEF ClientPair
    <3> QED
      BY <3>5, <3>6
  <2> QED
    BY <1>1, <2>2, <2>3, <2>4 DEF ClientPair
<1> QED
  BY <1>2, <1>3, <1>4, <1>5, Changes DEF DebugDump, SOCKET_LIST

\* select never gets a closed descriptor nor an empty set.
LEMMA SelectWatchesOpen ==
  ASSUME IInv, pc = "select"
  PROVE  /\ \A f \in socket_mask : f = Stdin \/ fdt[f] # Free
         /\ socket_mask # {}
<1>1. NoneMarked /\ \A f \in socket_mask : \E i \in 1..Len(Elems) : Elems[i].socket = f
  BY DEF IInv, MaskListed
<1>2. \A i \in 1..Len(Elems) : Elems[i].socket = Stdin \/ fdt[Elems[i].socket] # Free
  BY <1>1, Descriptors
     DEF IInv, Wiring, EntriesKnown, ListenEntry, SocketEntry, StdinEntry, NoneMarked
<1> QED
  BY <1>1, <1>2 DEF IInv, MaskFilled

\* A client at select has its socket's entry and the standard input's.
LEMMA ClientEntries ==
  ASSUME IsFiniteSet(Conns), Mode = "client", IInv, ClientPair, pc = "select"
  PROVE  /\ 1 \in 1..Len(Elems) /\ 2 \in 1..Len(Elems)
         /\ Elems[1].socket \in Fd /\ Elems[2].socket = Stdin
         /\ \A c \in Conns : fdt[Elems[1].socket] = c
<1>1. ListTypes /\ Wiring /\ Len(Elems) \in Nat
  BY TypeParts, ListElems DEF IInv
<1>2. NoneMarked /\ \E i \in 1..Len(Elems) : TRUE
  BY DEF IInv, MaskListed, MaskFilled
<1>3. Len(Elems) = 2 /\ Elems[2].socket = Stdin
  <2>1. Len(Elems) # 1
    BY <1>2 DEF ClientPair, NoneMarked
  <2>2. Len(Elems) <= 2 /\ (Len(Elems) = 2 => Elems[2].socket = Stdin)
    BY DEF ClientPair
  <2>3. Len(Elems) >= 1
    BY <1>1, <1>2
  <2>4. Len(Elems) = 2
    <3> DEFINE n == Len(Elems)
    <3>1. n \in Nat /\ n # 1 /\ n <= 2 /\ n >= 1
      BY <1>1, <2>1, <2>2, <2>3
    <3> HIDE DEF n
    <3>2. n = 2
      BY <3>1
    <3> QED
      BY <3>2 DEF n
  <2> QED
    BY <2>2, <2>4
<1>4. 1 \in 1..Len(Elems) /\ 2 \in 1..Len(Elems)
  BY <1>3
<1>5. Elems[1].socket \in Fd /\ fdt[Elems[1].socket] \in Conns
  BY <1>1, <1>2, <1>4 DEF Wiring, EntriesKnown, ListenEntry, SocketEntry, StdinEntry,
                          NoneMarked
<1>6. PICK d : Conns = {d}
  BY InteractiveAssumption, FS_Singleton
<1> QED
  BY <1>3, <1>4, <1>5, <1>6

\* select neither fails on a closed descriptor, nor on Windows on an empty set,
\* nor misses a wake-up: the loop does not sleep while a client waits to be
\* accepted or a registered descriptor has something to read or an end; nor, in
\* client mode, while anything typed or received is unread or an end was not
\* noticed, though Windows cannot watch the pipe and the mask is set from a list
\* whose entries the last pass marked and removed
\* (socket_list_select_and_handle_events, socket_list_insert).  The process must
\* not have more descriptors than select looks at, 500: under the usual limit of
\* 1024 the connections above are never served.
THEOREM NeverAsleep ==
  ASSUME IsFiniteSet(Conns), MaxFd + MoreFds <= SelectNfds
  PROVE  Spec => []Awake
<1>1. Init => AllWatched /\ ClientPair
  BY AllWatchedInit, ClientPairInit
<1>2. IInv /\ AllWatched /\ ClientPair /\ [Next]_vars => AllWatched' /\ ClientPair'
  BY AllWatchedStep, ClientPairStep
<1>3. IInv /\ AllWatched /\ ClientPair => Awake
  <2> SUFFICES ASSUME IInv, AllWatched, ClientPair, pc = "select", Pending
               PROVE  Ready # {} \/ n_special_descriptors > 0
    BY SelectWatchesOpen DEF Awake
  <2>1. ASSUME NEW i \in 1..Len(Elems), Readable(Elems[i].socket)
        PROVE  Ready # {} \/ n_special_descriptors > 0
    <3>1. Elems[i].socket < SelectNfds
      <4>1. Elems[i].socket \in Fd \cup {Stdin}
        BY TypeParts, ListElems DEF IInv, FdEntry, SOCKET_ENTRY, Watched
      <4> QED
        BY <4>1, FdBelow, InteractiveAssumption
    <3> QED
      BY <2>1, <3>1 DEF AllWatched, Ready
  <2>2. CASE Mode = "listen" /\ backlog # <<>>
    <3>1. ListTypes
      BY TypeParts DEF IInv
    <3>2. 1 \in 1..Len(Elems) /\ ListenEntry(1)
      BY <2>2, <3>1, ListElems DEF IInv, Wiring, EntriesKnown
    <3>3. Readable(Elems[1].socket)
      BY <2>2, <3>2, Descriptors DEF ListenEntry, Readable
    <3> QED
      BY <2>1, <3>2, <3>3
  <2>3. CASE /\ Mode = "client"
             /\ \/ stdin # <<>> \/ (eof /\ platform = "linux")
                \/ \E c \in Conns : Finished(c) \/ rx[c] # <<>>
    <3>1. /\ 1 \in 1..Len(Elems) /\ 2 \in 1..Len(Elems)
          /\ Elems[1].socket \in Fd /\ Elems[2].socket = Stdin
          /\ \A c \in Conns : fdt[Elems[1].socket] = c
      BY <2>3, ClientEntries
    <3>2. stdin # <<>> \/ (eof /\ platform = "linux") => Readable(Elems[2].socket)
      BY <3>1 DEF Readable, Data, AtEnd
    <3>3. (\E c \in Conns : Finished(c) \/ rx[c] # <<>>) => Readable(Elems[1].socket)
      BY <3>1, Descriptors DEF Readable, Data, AtEnd, Finished
    <3> QED
      BY <2>1, <2>3, <3>1, <3>2, <3>3
  <2>4. DOMAIN sockets.elems = 1..Len(Elems)
    BY TypeParts, ListElems DEF IInv, Elems
  <2> QED
    BY <2>1, <2>2, <2>3, <2>4 DEF Pending, Elems
<1> QED
  BY <1>1, <1>2, <1>3, Invariance, PTL DEF Spec

-----------------------------------------------------------------------------
(* Client mode on Windows. *)

Undisturbed ==
  platform = "windows" => tty /\ ((\A c \in Conns : ~Finished(c)) => Alive)

LEMMA UndisturbedStep ==
  ASSUME Mode = "client", IInv, Sources, Unended, Undisturbed, [Next]_vars
  PROVE  Undisturbed'
<1>1. UNCHANGED Machine
  BY FlagStep, TypeParts DEF IInv
<1> SUFFICES ASSUME platform = "windows", \A c \in Conns : ~Finished(c)', ~Alive'
             PROVE  FALSE
  BY <1>1 DEF Undisturbed, Machine
<1>2. ~SomeEnd
  BY FinishedKept DEF SomeEnd
<1>3. tty /\ Alive /\ NoneMarked /\ ~list_empty(sockets)
  BY <1>2, FinishedKept DEF Undisturbed, Unended
<1>4. ~EndOfFile /\ ~WriteFails
  BY <1>2, <1>3, NothingEnds
<1>5. Mode # "listen"
  OBVIOUS
<1> QED
  BY <1>3, <1>4, <1>5, Stops, OnlyServers DEF LoopEnds, DoubleFree

\* Client mode on Windows ends only after the peer finished: neither the end of
\* the standard input nor anything else that happens to the thread or the pipe
\* ends the loop (stdin_read_thread, socket_list_select_and_handle_events).
THEOREM WindowsClientStays ==
  ASSUME Mode = "client"
  PROVE  Spec => []WindowsUntilNetworkShutsDown
<1>1. Init => Undisturbed
  BY DEF Init, PassStart, Undisturbed, Alive
<1>2. IInv /\ Sources /\ Unended /\ Undisturbed /\ [Next]_vars => Undisturbed'
  BY UndisturbedStep
<1>3. Undisturbed => WindowsUntilNetworkShutsDown
  BY DEF Undisturbed, WindowsUntilNetworkShutsDown
<1> QED
  BY <1>1, <1>2, <1>3, Invariance, UnendedAlways, PTL DEF Spec
-----------------------------------------------------------------------------
(* Connections that share the standard input and the terminal. *)

\* The front of what follows the first m items of e are its next items.
LEMMA NextItems ==
  ASSUME NEW S, NEW e, NEW m \in Nat, NEW n \in Nat, NEW b \in Seq(S), NEW r \in Seq(S),
         Stream(e, m) \in Seq(S), Follows(Joined(b, r), e, m, n)
  PROVE  /\ Len(b) \in Nat /\ m + Len(b) \in 0..n
         /\ Follows(r, e, m + Len(b), n)
         /\ \A i \in 1..Len(b) : b[i] = <<e, m + i>>
<1> DEFINE w == Stream(e, m)
           v == Joined(w, b)
           T == {e} \X Nat
<1>1. Len(b) \in Nat /\ \A k \in Nat : <<e, k>> \in T
  BY LenProperties
<1> HIDE DEF T
<1>2. Len(w) = m
  <2>1. \A k \in 1..m : <<e, k>> \in T
    BY <1>1
  <2> QED
    BY <2>1, Streams
<1>3. w \in Seq(S) /\ Joined(w, Joined(b, r)) = Stream(e, n)
  BY DEF Follows, Joined
<1> HIDE DEF w
<1>4. Joined(v, r) = Stream(e, n) /\ Len(v) <= n /\ v = Stream(e, Len(v))
  BY <1>3, WriteFront
<1>5. Len(v) = m + Len(b) /\ \A i \in 1..Len(b) : v[m + i] = b[i]
  <2>1. /\ Len(w \o b) = Len(w) + Len(b)
        /\ \A i \in 1..Len(b) : (w \o b)[Len(w) + i] = b[i]
    BY <1>3, ConcatProperties
  <2> QED
    BY <1>2, <2>1 DEF Joined
<1> HIDE DEF v
<1> DEFINE k == m + Len(b)
<1>6. k \in Nat /\ k <= n /\ v = Stream(e, k)
  BY <1>1, <1>4, <1>5
<1>7. ASSUME NEW i \in 1..Len(b) PROVE b[i] = <<e, m + i>>
  <2>1. m + i \in 1..k
    BY <1>1
  <2> HIDE DEF k
  <2>2. \A j \in 1..k : <<e, j>> \in T
    BY <1>1, <1>6
  <2>3. Stream(e, k)[m + i] = <<e, m + i>>
    BY <1>6, <2>1, <2>2, Streams
  <2> QED
    BY <1>5, <1>6, <2>3
<1>8. Follows(r, e, k, n)
  BY <1>4, <1>6 DEF Follows, Joined
<1> QED
  BY <1>1, <1>6, <1>7, <1>8

\* One more item comes.
LEMMA OneMore ==
  ASSUME NEW S, NEW e, NEW m \in Nat, NEW n \in Nat, NEW q \in Seq(S),
         Stream(e, m) \in Seq(S), <<e, n + 1>> \in S, Follows(q, e, m, n)
  PROVE  Follows(Append(q, <<e, n + 1>>), e, m, n + 1)
<1> DEFINE w == Stream(e, m)
           x == <<e, n + 1>>
<1>1. w \in Seq(S) /\ x \in S /\ w \o q = Stream(e, n)
  BY DEF Follows
<1>2. Append(Stream(e, n), x) = Stream(e, n + 1)
  BY StreamAppend
<1> HIDE DEF w, x
<1>3. w \o Append(q, x) = Append(w \o q, x)
  BY <1>1, AppendLast
<1> QED
  BY <1>1, <1>2, <1>3 DEF Follows, w, x

\* A list with more items at its end.
LEMMA Extended ==
  ASSUME NEW S, NEW q \in Seq(S), NEW b \in Seq(S)
  PROVE  /\ Len(q) \in Nat /\ Len(b) \in Nat
         /\ q \o b \in Seq(S) /\ Len(q \o b) = Len(q) + Len(b)
         /\ DOMAIN q = 1..Len(q) /\ DOMAIN (q \o b) = 1..(Len(q) + Len(b))
         /\ \A i \in 1..Len(q) : (q \o b)[i] = q[i]
         /\ \A i \in 1..Len(b) : (q \o b)[Len(q) + i] = b[i]
         /\ \A i \in 1..(Len(q) + Len(b)) :
              i \in 1..Len(q) \/ \E j \in 1..Len(b) : i = Len(q) + j
<1>1. Len(q) \in Nat /\ Len(b) \in Nat
  BY LenProperties
<1>2. /\ q \o b \in Seq(S) /\ Len(q \o b) = Len(q) + Len(b)
      /\ \A i \in 1..Len(q) : (q \o b)[i] = q[i]
      /\ \A i \in 1..Len(b) : (q \o b)[Len(q) + i] = b[i]
  BY ConcatProperties
<1>3. DOMAIN q = 1..Len(q) /\ DOMAIN (q \o b) = 1..(Len(q) + Len(b))
  BY <1>2, LenProperties
<1>4. ASSUME NEW i \in 1..(Len(q) + Len(b)), i \notin 1..Len(q)
      PROVE  \E j \in 1..Len(b) : i = Len(q) + j
  <2>1. i - Len(q) \in 1..Len(b) /\ i = Len(q) + (i - Len(q))
    BY <1>1, <1>4
  <2> QED
    BY <2>1
<1> QED
  BY <1>1, <1>2, <1>3, <1>4

\* Numbered m + 1 on, the items that follow keep the order.
LEMMA OrderGrows ==
  ASSUME NEW q \in Seq(Item), NEW b \in Seq(Item), NEW e, NEW m \in Nat,
         InOrder(q, e), \A i \in 1..Len(q) : q[i][1] = e => q[i][2] <= m,
         \A i \in 1..Len(b) : b[i] = <<e, m + i>>
  PROVE  InOrder(q \o b, e)
<1> DEFINE p == q \o b
<1>1. /\ Len(q) \in Nat /\ Len(b) \in Nat
      /\ DOMAIN q = 1..Len(q) /\ DOMAIN p = 1..(Len(q) + Len(b))
      /\ \A i \in 1..Len(q) : p[i] = q[i]
      /\ \A i \in 1..Len(b) : p[Len(q) + i] = b[i]
      /\ \A i \in 1..(Len(q) + Len(b)) :
           i \in 1..Len(q) \/ \E j \in 1..Len(b) : i = Len(q) + j
  BY Extended
<1> HIDE DEF p
<1> SUFFICES ASSUME NEW i \in DOMAIN p, NEW j \in DOMAIN p, i < j,
                    p[i][1] = e, p[j][1] = e
             PROVE  p[i][2] < p[j][2]
  BY DEF InOrder, p
<1>2. CASE i \in 1..Len(q) /\ j \in 1..Len(q)
  BY <1>1, <1>2 DEF InOrder
<1>3. CASE i \in 1..Len(q) /\ j \notin 1..Len(q)
  <2>1. PICK k \in 1..Len(b) : j = Len(q) + k
    BY <1>1, <1>3
  <2>2. p[j][2] = m + k
    BY <1>1, <2>1
  <2>3. q[i] \in Item
    BY <1>3, ElementOfSeq
  <2>4. q[i][2] \in Nat
    BY <2>3, Bounds DEF Item
  <2>5. q[i][2] <= m /\ p[i][2] = q[i][2]
    BY <1>1, <1>3
  <2> DEFINE x == q[i][2]
  <2>6. x \in Nat /\ x <= m /\ p[i][2] = x
    BY <2>4, <2>5
  <2> HIDE DEF x
  <2>7. x < m + k
    BY <1>1, <2>1, <2>6
  <2> QED
    BY <2>2, <2>6, <2>7
<1>4. CASE i \notin 1..Len(q)
  <2>1. PICK k \in 1..Len(b) : i = Len(q) + k
    BY <1>1, <1>4
  <2>2. PICK l \in 1..Len(b) : j = Len(q) + l
    <3>1. j \notin 1..Len(q)
      BY <1>1, <1>4
    <3> QED
      BY <1>1, <3>1
  <2>3. p[i][2] = m + k /\ p[j][2] = m + l
    <3>1. p[i] = b[k] /\ p[j] = b[l]
      BY <1>1, <2>1, <2>2
    <3> QED
      BY <3>1
  <2> QED
    BY <1>1, <2>1, <2>2, <2>3
<1> QED
  BY <1>2, <1>3, <1>4

LEMMA ListsGrow ==
  ASSUME NEW q \in Seq(Item), NEW b \in Seq(Item), NEW e, NEW m \in Nat,
         Lists(q, e, m), \A i \in 1..Len(b) : b[i] = <<e, m + i>>
  PROVE  Lists(q \o b, e, m + Len(b))
<1> DEFINE p == q \o b
           k == m + Len(b)
<1>1. /\ Len(q) \in Nat /\ Len(b) \in Nat /\ Len(p) = Len(q) + Len(b)
      /\ \A i \in 1..Len(q) : p[i] = q[i]
      /\ \A i \in 1..Len(b) : p[Len(q) + i] = b[i]
      /\ \A i \in 1..(Len(q) + Len(b)) :
           i \in 1..Len(q) \/ \E j \in 1..Len(b) : i = Len(q) + j
  BY Extended
<1>2. InOrder(p, e)
  BY OrderGrows DEF Lists
<1> HIDE DEF p
<1>3. ASSUME NEW i \in 1..Len(p), p[i][1] = e PROVE p[i][2] <= k
  <2>1. CASE i \in 1..Len(q)
    <3>1. q[i] \in Item
      BY <2>1, ElementOfSeq
    <3>2. q[i][2] \in Nat
      BY <3>1, Bounds DEF Item
    <3> QED
      BY <1>1, <1>3, <2>1, <3>2 DEF Lists
  <2>2. CASE i \notin 1..Len(q)
    <3>1. PICK j \in 1..Len(b) : i = Len(q) + j
      BY <1>1, <2>2
    <3>2. p[i][2] = m + j
      BY <1>1, <3>1
    <3> QED
      BY <1>1, <3>1, <3>2
  <2> QED
    BY <2>1, <2>2
<1>4. ASSUME NEW n \in 1..k PROVE \E i \in 1..Len(p) : p[i] = <<e, n>>
  <2>1. CASE n <= m
    <3>1. n \in 1..m
      BY <1>1, <2>1
    <3>2. PICK i \in 1..Len(q) : q[i] = <<e, n>>
      BY <3>1 DEF Lists
    <3>3. i \in 1..Len(p) /\ p[i] = <<e, n>>
      BY <1>1, <3>2
    <3> QED
      BY <3>3
  <2>2. CASE ~(n <= m)
    <3> DEFINE i == n - m
    <3>1. i \in 1..Len(b) /\ m + i = n
      BY <1>1, <2>2
    <3> HIDE DEF i
    <3>2. Len(q) + i \in 1..Len(p) /\ p[Len(q) + i] = <<e, n>>
      BY <1>1, <3>1
    <3> QED
      BY <3>2
  <2> QED
    BY <2>1, <2>2
<1> QED
  BY <1>2, <1>3, <1>4 DEF Lists, p

LEMMA ListsOther ==
  ASSUME NEW q \in Seq(Item), NEW b \in Seq(Item), NEW e, NEW m \in Nat,
         Lists(q, e, m), \A i \in 1..Len(b) : b[i][1] # e
  PROVE  Lists(q \o b, e, m)
<1> DEFINE p == q \o b
<1>1. /\ Len(q) \in Nat /\ Len(b) \in Nat /\ Len(p) = Len(q) + Len(b)
      /\ DOMAIN q = 1..Len(q) /\ DOMAIN p = 1..(Len(q) + Len(b))
      /\ \A i \in 1..Len(q) : p[i] = q[i]
      /\ \A i \in 1..Len(b) : p[Len(q) + i] = b[i]
      /\ \A i \in 1..(Len(q) + Len(b)) :
           i \in 1..Len(q) \/ \E j \in 1..Len(b) : i = Len(q) + j
  BY Extended
<1> HIDE DEF p
<1>2. \A i \in 1..Len(p) : p[i][1] = e => i \in 1..Len(q)
  <2> SUFFICES ASSUME NEW i \in 1..Len(p), i \notin 1..Len(q) PROVE p[i][1] # e
    OBVIOUS
  <2>1. PICK j \in 1..Len(b) : i = Len(q) + j
    BY <1>1
  <2> QED
    BY <1>1, <2>1
<1>3. InOrder(p, e)
  <2>1. \A i, j \in 1..Len(q) :
          i < j /\ q[i][1] = e /\ q[j][1] = e => q[i][2] < q[j][2]
    BY <1>1 DEF Lists, InOrder
  <2> QED
    BY <1>1, <1>2, <2>1 DEF InOrder
<1>4. \A i \in 1..Len(p) : p[i][1] = e => p[i][2] <= m
  BY <1>1, <1>2 DEF Lists
<1>5. \A n \in 1..m : \E i \in 1..Len(p) : p[i] = <<e, n>>
  <2> TAKE n \in 1..m
  <2>1. PICK i \in 1..Len(q) : q[i] = <<e, n>>
    BY DEF Lists
  <2>2. i \in 1..Len(p) /\ p[i] = <<e, n>>
    BY <1>1, <2>1
  <2> QED
    BY <2>2
<1> QED
  BY <1>3, <1>4, <1>5 DEF Lists, p

LEMMA ItemStreams ==
  ASSUME IInv
  PROVE  /\ \A m \in 0..typed : m \in Nat /\ Stream(Stdin, m) \in Seq(Item)
         /\ \A c \in Conns : \A m \in 0..sent[c] : m \in Nat /\ Stream(c, m) \in Seq(Item)
<1>1. NetTypes
  BY TypeParts DEF IInv
<1>2. /\ typed \in 0..MaxTyped /\ \A c \in Conns : sent[c] \in 0..MaxSend
  BY <1>1 DEF NetTypes
<1>3. ASSUME NEW m \in 0..typed PROVE m \in Nat /\ Stream(Stdin, m) \in Seq(Item)
  <2>1. m \in Nat /\ \A k \in 1..m : <<Stdin, k>> \in Item
    BY <1>2, Bounds DEF Item
  <2> QED
    BY <2>1, Streams
<1>4. ASSUME NEW c \in Conns, NEW m \in 0..sent[c]
      PROVE  m \in Nat /\ Stream(c, m) \in Seq(Item)
  <2>1. m \in Nat /\ \A k \in 1..m : <<c, k>> \in Item
    BY <1>2, Bounds DEF Item
  <2> QED
    BY <2>1, Streams
<1> QED
  BY <1>3, <1>4
\* The terminal is not written, and nothing comes.
LEMMA TerminalFrame ==
  ASSUME IInv, TerminalLists, [Next]_vars, terminal' = terminal, sent' = sent,
         \A c \in Conns : Unclosed(c)' => ToShow(c)' = ToShow(c)
  PROVE  TerminalLists'
<1> SUFFICES ASSUME NEW c \in Conns
             PROVE  \E m \in 0..sent'[c] :
                      /\ Lists(terminal', c, m)
                      /\ Unclosed(c)' => Follows(ToShow(c)', c, m, sent'[c])
  BY DEF TerminalLists, Lists, Follows, Stream, InOrder
<1>1. PICK m \in 0..sent[c] :
        Lists(terminal, c, m) /\ (Unclosed(c) => Follows(ToShow(c), c, m, sent[c]))
  BY DEF TerminalLists
<1>2. Unclosed(c)' => Unclosed(c)
  BY UnclosedKept
<1> QED
  BY <1>1, <1>2

\* What is in the buffer is appended to the terminal.
LEMMA TerminalWrite ==
  ASSUME IInv, Sources, TerminalLists, [Next]_vars, WriteToStdin
  PROVE  TerminalLists'
<1>1. pc = "write" /\ Out = Stdin /\ terminal' = terminal \o buffer /\ sent' = sent
  BY DEF WriteToStdin, net
<1>2. PICK d \in Conns : In \in Fd /\ fdt[In] = d
  BY <1>1, FlightAtWrite, Descriptors DEF Sources
<1>3. Unclosed(d)
  BY <1>1, <1>2 DEF Unclosed, Alive, Held
<1>4. \A c \in Conns : IF d = c THEN /\ ToShow(c) = buffer \o ToShow(c)'
                                     /\ ToShow(c)' \in Seq(Item)
                       ELSE ToShow(c)' = ToShow(c)
  BY <1>2, WriteWhole, Descriptors
<1>5. terminal \in Seq(Item) /\ buffer \in Seq(Item) /\ \A c \in Conns : sent[c] \in Nat
  BY WholeTypes
<1> SUFFICES ASSUME NEW c \in Conns
             PROVE  \E m \in 0..sent[c] :
                      /\ Lists(terminal \o buffer, c, m)
                      /\ Unclosed(c)' => Follows(ToShow(c)', c, m, sent[c])
  BY <1>1 DEF TerminalLists, Lists, Follows, Stream, InOrder
<1>6. \A e \in Conns : \E m \in 0..sent[e] :
        Lists(terminal, e, m) /\ (Unclosed(e) => Follows(ToShow(e), e, m, sent[e]))
  BY DEF TerminalLists
<1>7. PICK n \in 0..sent[d] :
        Lists(terminal, d, n) /\ Follows(ToShow(d), d, n, sent[d])
  BY <1>3, <1>6
<1>8. n \in Nat /\ sent[d] \in Nat /\ Stream(d, n) \in Seq(Item)
  BY <1>2, <1>5, <1>7, ItemStreams
<1> DEFINE r == ToShow(d)'
           k == n + Len(buffer)
<1>9. r \in Seq(Item) /\ Follows(Joined(buffer, r), d, n, sent[d])
  <2>1. ToShow(d) = buffer \o r /\ r \in Seq(Item)
    BY <1>2, <1>4
  <2>2. ToShow(d) = Joined(buffer, r)
    BY <2>1 DEF Joined
  <2> HIDE DEF r
  <2> QED
    BY <1>7, <2>1, <2>2
<1> HIDE DEF r
<1>10. /\ k \in 0..sent[d] /\ Follows(r, d, k, sent[d])
       /\ \A i \in 1..Len(buffer) : buffer[i] = <<d, n + i>>
  <2> DEFINE t == sent[d]
  <2>1. t \in Nat /\ Follows(Joined(buffer, r), d, n, t)
    BY <1>8, <1>9
  <2> HIDE DEF t
  <2>2. /\ k \in 0..t /\ Follows(r, d, k, t)
        /\ \A i \in 1..Len(buffer) : buffer[i] = <<d, n + i>>
    BY <1>5, <1>8, <1>9, <2>1, NextItems
  <2> QED
    BY <2>2 DEF t
<1>11. CASE c = d
  <2>1. Lists(terminal \o buffer, d, k)
    <3> HIDE DEF k
    <3>1. Lists(terminal, d, n) /\ n \in Nat
          /\ \A i \in 1..Len(buffer) : buffer[i] = <<d, n + i>>
      BY <1>7, <1>8, <1>10
    <3>2. Lists(terminal \o buffer, d, n + Len(buffer))
      BY <1>5, <3>1, ListsGrow
    <3> QED
      BY <3>2 DEF k
  <2> HIDE DEF k
  <2> QED
    BY <1>10, <1>11, <2>1 DEF r
<1>12. CASE c # d
  <2>1. PICK m \in 0..sent[c] :
          Lists(terminal, c, m) /\ (Unclosed(c) => Follows(ToShow(c), c, m, sent[c]))
    BY <1>6
  <2>2. m \in Nat
    OBVIOUS
  <2>3. \A i \in 1..Len(buffer) : buffer[i][1] # c
    BY <1>10, <1>12
  <2>4. Lists(terminal \o buffer, c, m)
    BY <1>5, <2>1, <2>2, <2>3, ListsOther
  <2>5. Unclosed(c)' => Follows(ToShow(c)', c, m, sent[c])
    BY <1>4, <1>12, <2>1, UnclosedKept
  <2> QED
    BY <2>4, <2>5
<1> QED
  BY <1>11, <1>12

LEMMA TerminalSent ==
  ASSUME IInv, TerminalLists, [Next]_vars, NEW d \in Conns, PeerSend(d)
  PROVE  TerminalLists'
<1>1. /\ terminal' = terminal /\ <<d, sent[d] + 1>> \in Item
      /\ \A c \in Conns :
           IF c = d THEN /\ sent'[c] = sent[c] + 1
                         /\ ToShow(c)' = Append(ToShow(c), <<c, sent[c] + 1>>)
           ELSE sent'[c] = sent[c] /\ ToShow(c)' = ToShow(c)
  BY SentWhole
<1> SUFFICES ASSUME NEW c \in Conns
             PROVE  \E m \in 0..sent'[c] :
                      /\ Lists(terminal, c, m)
                      /\ Unclosed(c)' => Follows(ToShow(c)', c, m, sent'[c])
  BY <1>1 DEF TerminalLists, Lists, Follows, Stream, InOrder
<1>2. PICK m \in 0..sent[c] :
        Lists(terminal, c, m) /\ (Unclosed(c) => Follows(ToShow(c), c, m, sent[c]))
  BY DEF TerminalLists
<1>3. Unclosed(c)' => Unclosed(c)
  BY UnclosedKept
<1>4. CASE c = d
  <2> DEFINE n == sent[c]
             q == ToShow(c)
  <2>1. /\ m \in Nat /\ n \in Nat /\ q \in Seq(Item) /\ Stream(c, m) \in Seq(Item)
        /\ <<c, n + 1>> \in Item
    BY <1>1, <1>4, WholeTypes, ItemStreams
  <2>2. Unclosed(c)' => Follows(q, c, m, n)
    BY <1>2, <1>3
  <2> HIDE DEF n, q
  <2>3. Unclosed(c)' => Follows(Append(q, <<c, n + 1>>), c, m, n + 1)
    BY <2>1, <2>2, OneMore
  <2>4. sent'[c] = n + 1 /\ ToShow(c)' = Append(q, <<c, n + 1>>)
    BY <1>1, <1>4 DEF n, q
  <2>5. m \in 0..sent'[c]
    BY <2>1, <2>4 DEF n
  <2> QED
    BY <1>2, <2>3, <2>4, <2>5
<1>5. CASE c # d
  BY <1>1, <1>2, <1>3, <1>5
<1> QED
  BY <1>4, <1>5

LEMMA TerminalStep ==
  ASSUME IInv, Sources, ThreadHolds, TerminalLists, [Next]_vars
  PROVE  TerminalLists'
<1>1. CASE QuietStep
  <2>1. \A c \in Conns : Unclosed(c)' => ToShow(c)' = ToShow(c)
    BY <1>1, QuietWhole DEF Unclosed
  <2> QED
    BY <1>1, <2>1, TerminalFrame DEF QuietStep
<1>2. CASE BridgedRead
  BY <1>2, ReadWhole, TerminalFrame DEF BridgedRead, net
<1>3. CASE WriteToSocket \/ WriteLost
  <2>1. terminal' = terminal /\ sent' = sent /\ ~WriteToStdin
    BY <1>3, Descriptors DEF WriteToSocket, WriteLost, WriteToStdin, net, queues
  <2>2. \A c \in Conns : ToShow(c)' = ToShow(c)
    BY <1>3, <2>1, WriteWhole
  <2> QED
    BY <2>1, <2>2, TerminalFrame
<1>4. CASE ThreadReads \/ ThreadWrites
  <2>1. terminal' = terminal /\ sent' = sent
    BY <1>4 DEF ThreadReads, ThreadWrites, net, queues
  <2> QED
    BY <1>4, <2>1, ThreadWhole, TerminalFrame
<1>5. CASE UserTypes
  BY <1>5, TypedWhole, TerminalFrame
<1> QED
  BY <1>1, <1>2, <1>3, <1>4, <1>5, TerminalWrite, TerminalSent, QuietSteps

\* Nothing is written to a connection, and nothing is typed.
LEMMA DealtFrame ==
  ASSUME TypedDealt, \A c \in Conns : Dealt(c), [Next]_vars,
         wrote' = wrote, typed' = typed, Alive' => ToSend' = ToSend
  PROVE  TypedDealt' /\ \A c \in Conns : Dealt(c)'
<1>1. \A c \in Conns : Dealt(c)'
  BY DEF Dealt, InOrder
<1>2. PICK m \in 0..typed :
        /\ Alive => Follows(ToSend, Stdin, m, typed)
        /\ \A c \in Conns : \A i \in 1..Len(wrote[c]) : wrote[c][i][2] <= m
  BY DEF TypedDealt
<1>3. Alive' => Follows(ToSend', Stdin, m, typed')
  BY <1>2, AliveBefore
<1>4. TypedDealt'
  BY <1>2, <1>3 DEF TypedDealt, Follows, Stream
<1> QED
  BY <1>1, <1>4

\* The buffer's items were typed after all that was written before.
LEMMA NextTyped ==
  ASSUME IInv, Sources, TypedDealt, WriteToSocket \/ WriteLost
  PROVE  \E m \in 0..typed :
           /\ \A c \in Conns : \A i \in 1..Len(wrote[c]) : wrote[c][i][2] <= m
           /\ Len(buffer) \in Nat /\ m + Len(buffer) \in 0..typed
           /\ Follows(ToSend', Stdin, m + Len(buffer), typed)
           /\ \A i \in 1..Len(buffer) : buffer[i] = <<Stdin, m + i>>
<1>1. pc = "write" /\ Out \in Fd
  BY DEF WriteToSocket, WriteLost
<1>2. In = Stdin
  BY <1>1, FlightAtWrite, Descriptors DEF Sources
<1>3. ToSend = buffer \o ToSend' /\ ToSend' \in Seq(Item)
  BY <1>2, WriteWhole, Descriptors
<1>4. PICK m \in 0..typed :
        /\ Follows(ToSend, Stdin, m, typed)
        /\ \A c \in Conns : \A i \in 1..Len(wrote[c]) : wrote[c][i][2] <= m
  BY <1>1 DEF TypedDealt, Alive
<1>5. /\ buffer \in Seq(Item) /\ typed \in Nat /\ m \in Nat
      /\ Stream(Stdin, m) \in Seq(Item)
  BY WholeTypes, ItemStreams
<1> DEFINE r == ToSend'
<1>6. r \in Seq(Item) /\ Follows(Joined(buffer, r), Stdin, m, typed)
  BY <1>3, <1>4 DEF Joined
<1> HIDE DEF r
<1>7. /\ Len(buffer) \in Nat /\ m + Len(buffer) \in 0..typed
      /\ Follows(r, Stdin, m + Len(buffer), typed)
      /\ \A i \in 1..Len(buffer) : buffer[i] = <<Stdin, m + i>>
  BY <1>5, <1>6, NextItems
<1> QED
  BY <1>4, <1>7 DEF r
LEMMA DealtWrite ==
  ASSUME IInv, Sources, TypedDealt, \A c \in Conns : Dealt(c), WriteToSocket
  PROVE  TypedDealt' /\ \A c \in Conns : Dealt(c)'
<1>1. PICK d \in Conns : /\ Out \in Fd /\ fdt[Out] = d
                         /\ wrote' = [wrote EXCEPT ![d] = @ \o buffer]
                         /\ typed' = typed
  BY DEF WriteToSocket, user
<1>2. PICK m \in 0..typed :
        /\ \A c \in Conns : \A i \in 1..Len(wrote[c]) : wrote[c][i][2] <= m
        /\ Len(buffer) \in Nat /\ m + Len(buffer) \in 0..typed
        /\ Follows(ToSend', Stdin, m + Len(buffer), typed)
        /\ \A i \in 1..Len(buffer) : buffer[i] = <<Stdin, m + i>>
  BY NextTyped
<1> DEFINE n == Len(buffer)
           k == m + n
           w == wrote[d]
           p == w \o buffer
<1>3. m \in Nat /\ n \in Nat /\ k \in Nat /\ k \in 0..typed
  BY <1>2, WholeTypes
<1>4. /\ w \in Seq(Item) /\ buffer \in Seq(Item)
      /\ \A c \in Conns : wrote[c] \in Seq(Item)
  BY WholeTypes
<1>5. \A c \in Conns : wrote'[c] = IF c = d THEN p ELSE wrote[c]
  BY <1>1, TypeParts DEF IInv, QueueTypes
<1>6. \A i \in 1..Len(w) : w[i][2] <= m
  BY <1>2
<1> HIDE DEF w
<1>7. /\ Len(w) \in Nat /\ Len(p) = Len(w) + n
      /\ DOMAIN w = 1..Len(w) /\ DOMAIN p = 1..Len(p)
      /\ \A i \in 1..Len(w) : p[i] = w[i]
      /\ \A i \in 1..n : p[Len(w) + i] = buffer[i]
      /\ \A i \in 1..Len(p) : i \in 1..Len(w) \/ \E j \in 1..n : i = Len(w) + j
  BY <1>4, Extended
<1>8. InOrder(p, Stdin)
  <2>1. InOrder(w, Stdin)
    BY DEF Dealt, w
  <2> QED
    BY <1>2, <1>3, <1>4, <1>6, <2>1, OrderGrows
<1> HIDE DEF p, n, k
<1>9. \A i \in 1..n : buffer[i] = <<Stdin, m + i>>
  BY <1>2 DEF n
<1>10. ASSUME NEW c \in Conns, NEW i \in 1..Len(wrote[c])
       PROVE  wrote[c][i][2] \in Nat /\ wrote[c][i][2] <= m
  <2>1. wrote[c][i] \in Item
    BY <1>4, <1>10, ElementOfSeq
  <2> QED
    BY <1>2, <2>1, Bounds DEF Item
<1>11. \A c \in Conns : DOMAIN wrote[c] = 1..Len(wrote[c])
  BY <1>4, LenProperties
<1>12. ASSUME NEW i \in 1..Len(p) PROVE p[i][2] <= k
  <2>1. CASE i \in 1..Len(w)
    <3>1. p[i][2] \in Nat /\ p[i][2] <= m
      BY <1>7, <1>10, <2>1 DEF w
    <3> DEFINE x == p[i][2]
    <3> HIDE DEF x
    <3>2. x <= k
      BY <1>3, <3>1 DEF x, k
    <3> QED
      BY <3>2 DEF x
  <2>2. CASE i \notin 1..Len(w)
    <3>1. PICK j \in 1..n : i = Len(w) + j
      BY <1>7, <2>2
    <3>2. p[i][2] = m + j
      BY <1>7, <1>9, <3>1
    <3> QED
      BY <1>3, <3>1, <3>2 DEF k
  <2> QED
    BY <2>1, <2>2
<1>13. ASSUME NEW c \in Conns, NEW i \in 1..Len(wrote'[c])
       PROVE  wrote'[c][i][2] <= k
  <2>1. CASE c = d
    BY <1>5, <1>12, <1>13, <2>1
  <2>2. CASE c # d
    <3> DEFINE x == wrote[c][i][2]
    <3>1. x \in Nat /\ x <= m /\ wrote'[c][i][2] = x
      BY <1>5, <1>10, <1>13, <2>2
    <3> HIDE DEF x
    <3>2. x <= k
      BY <1>3, <3>1 DEF k
    <3> QED
      BY <3>1, <3>2
  <2> QED
    BY <2>1, <2>2
<1>14. TypedDealt'
  <2>1. Follows(ToSend', Stdin, k, typed)
    BY <1>2 DEF k, n
  <2> QED
    BY <1>1, <1>3, <1>13, <2>1 DEF TypedDealt, Follows, Stream
<1>15. ASSUME NEW c \in Conns, NEW i \in 1..Len(p), c # d, NEW j \in 1..Len(wrote[c])
       PROVE  p[i] # wrote[c][j]
  <2>1. CASE i \in 1..Len(w)
    <3>1. \A l \in DOMAIN wrote[d] : \A q \in DOMAIN wrote[c] : wrote[d][l] # wrote[c][q]
      BY <1>15 DEF Dealt
    <3>2. i \in DOMAIN wrote[d] /\ j \in DOMAIN wrote[c] /\ p[i] = wrote[d][i]
      BY <1>7, <1>11, <2>1 DEF w
    <3> QED
      BY <3>1, <3>2
  <2>2. CASE i \notin 1..Len(w)
    <3>1. PICK l \in 1..n : i = Len(w) + l
      BY <1>7, <2>2
    <3>2. p[i][2] = m + l
      BY <1>7, <1>9, <3>1
    <3>3. ~(m + l <= m)
      BY <1>3
    <3>4. wrote[c][j][2] <= m
      BY <1>10
    <3> QED
      BY <3>2, <3>3, <3>4
  <2> QED
    BY <2>1, <2>2
<1>16. ASSUME NEW c \in Conns PROVE InOrder(wrote'[c], Stdin)
  <2>1. InOrder(wrote[c], Stdin)
    BY DEF Dealt
  <2> QED
    BY <1>5, <1>8, <2>1
<1>17. ASSUME NEW c \in Conns, NEW e \in Conns \ {c},
              NEW i \in DOMAIN wrote'[c], NEW j \in DOMAIN wrote'[e]
       PROVE  wrote'[c][i] # wrote'[e][j]
  <2>1. CASE c = d
    <3>1. wrote'[c] = p /\ wrote'[e] = wrote[e] /\ e # d
      BY <1>5, <1>17, <2>1
    <3>2. i \in 1..Len(p) /\ j \in 1..Len(wrote[e])
      BY <1>7, <1>11, <1>17, <3>1
    <3> QED
      BY <1>15, <3>1, <3>2
  <2>2. CASE e = d
    <3>1. wrote'[e] = p /\ wrote'[c] = wrote[c] /\ c # d
      BY <1>5, <1>17, <2>2
    <3>2. j \in 1..Len(p) /\ i \in 1..Len(wrote[c])
      BY <1>7, <1>11, <1>17, <3>1
    <3> QED
      BY <1>15, <3>1, <3>2
  <2>3. CASE c # d /\ e # d
    <3>1. wrote'[e] = wrote[e] /\ wrote'[c] = wrote[c]
      BY <1>5, <2>3
    <3> QED
      BY <1>17, <3>1 DEF Dealt
  <2> QED
    BY <2>1, <2>2, <2>3
<1>18. \A c \in Conns : Dealt(c)'
  BY <1>16, <1>17 DEF Dealt, InOrder
<1> QED
  BY <1>14, <1>18

LEMMA DealtStep ==
  ASSUME IInv, Sources, ThreadHolds, TypedDealt, \A c \in Conns : Dealt(c), [Next]_vars
  PROVE  TypedDealt' /\ \A c \in Conns : Dealt(c)'
<1>1. CASE QuietStep
  <2>1. Alive' => ToSend' = ToSend
    BY <1>1, QuietWhole
  <2> QED
    BY <1>1, <2>1, DealtFrame DEF QuietStep
<1>2. CASE BridgedRead
  BY <1>2, ReadWhole, DealtFrame DEF BridgedRead, user
<1>3. CASE WriteToStdin
  <2>1. wrote' = wrote /\ typed' = typed /\ ~WriteToSocket /\ ~WriteLost
    BY <1>3, Descriptors DEF WriteToSocket, WriteLost, WriteToStdin, user
  <2>2. ToSend' = ToSend
    BY <1>3, <2>1, WriteWhole
  <2> QED
    BY <2>1, <2>2, DealtFrame
<1>4. CASE WriteLost
  <2>1. wrote' = wrote /\ typed' = typed
    BY <1>4 DEF WriteLost, queues, user
  <2>2. PICK m \in 0..typed :
          /\ \A c \in Conns : \A i \in 1..Len(wrote[c]) : wrote[c][i][2] <= m
          /\ Len(buffer) \in Nat /\ m + Len(buffer) \in 0..typed
          /\ Follows(ToSend', Stdin, m + Len(buffer), typed)
    BY <1>4, NextTyped
  <2> DEFINE k == m + Len(buffer)
  <2>3. k \in 0..typed /\ Follows(ToSend', Stdin, k, typed) /\ m <= k /\ m \in Nat
        /\ k \in Nat
    BY <2>2, WholeTypes
  <2> HIDE DEF k
  <2>4. ASSUME NEW c \in Conns, NEW i \in 1..Len(wrote[c]) PROVE wrote[c][i][2] <= k
    <3>1. wrote[c] \in Seq(Item)
      BY WholeTypes
    <3>2. wrote[c][i] \in Item
      BY <3>1, ElementOfSeq
    <3> DEFINE x == wrote[c][i][2]
    <3>3. x \in Nat /\ x <= m
      BY <2>2, <3>2, Bounds DEF Item
    <3> HIDE DEF x
    <3>4. x <= k
      BY <2>3, <3>3
    <3> QED
      BY <3>4 DEF x
  <2>5. TypedDealt'
    BY <2>1, <2>3, <2>4 DEF TypedDealt, Follows, Stream
  <2> QED
    BY <2>1, <2>5 DEF Dealt, InOrder
<1>5. CASE ThreadReads \/ ThreadWrites
  <2>1. wrote' = wrote /\ typed' = typed
    BY <1>5 DEF ThreadReads, ThreadWrites, queues
  <2> QED
    BY <1>5, <2>1, ThreadWhole, DealtFrame
<1>6. CASE \E d \in Conns : PeerSend(d)
  <2>1. wrote' = wrote /\ typed' = typed /\ ToSend' = ToSend
    BY <1>6, SentWhole
  <2> QED
    BY <2>1, DealtFrame
<1>7. CASE UserTypes
  <2>1. /\ wrote' = wrote /\ typed' = typed + 1 /\ <<Stdin, typed + 1>> \in Item
        /\ ToSend' = Append(ToSend, <<Stdin, typed + 1>>) /\ Alive
    BY <1>7, TypedWhole DEF UserTypes
  <2>2. PICK m \in 0..typed :
          /\ Follows(ToSend, Stdin, m, typed)
          /\ \A c \in Conns : \A i \in 1..Len(wrote[c]) : wrote[c][i][2] <= m
    BY <2>1 DEF TypedDealt
  <2>3. /\ m \in Nat /\ typed \in Nat /\ ToSend \in Seq(Item)
        /\ Stream(Stdin, m) \in Seq(Item)
    BY WholeTypes, ItemStreams
  <2>4. Follows(Append(ToSend, <<Stdin, typed + 1>>), Stdin, m, typed + 1)
    BY <2>1, <2>2, <2>3, OneMore
  <2>5. m \in 0..(typed + 1)
    BY <2>3
  <2>6. TypedDealt'
    BY <2>1, <2>2, <2>4, <2>5 DEF TypedDealt, Follows, Stream
  <2> QED
    BY <2>1, <2>6 DEF Dealt, InOrder
<1> QED
  BY <1>1, <1>2, <1>3, <1>4, <1>5, <1>6, <1>7, DealtWrite, QuietSteps

LEMMA SharedInit ==
  ASSUME Init
  PROVE  SharedInv
<1>1. /\ stdin = <<>> /\ console = <<>> /\ read_buffer = <<>> /\ terminal = <<>>
      /\ typed = 0 /\ pc # "write" /\ (platform = "linux" => tpc = "none")
      /\ \A c \in Conns : rx[c] = <<>> /\ wrote[c] = <<>> /\ sent[c] = 0
  BY DEF Init, PassStart
<1>2. Sources /\ ThreadHolds
  BY <1>1, EmptySeq DEF Sources, BufferRead, ThreadHolds
<1>3. \A s : Stream(s, 0) = <<>>
  BY DEF Stream
<1>4. \A s : InFlight(s) = <<>>
  BY <1>1 DEF InFlight
<1>5. <<>> \o <<>> = <<>> /\ Len(<<>>) = 0 /\ DOMAIN <<>> = {} /\ 1..0 = {}
      /\ 0 \in 0..0
  OBVIOUS
<1>6. ToSend = <<>> /\ \A c \in Conns : ToShow(c) = <<>>
  BY <1>1, <1>4, <1>5 DEF ToShow, ToSend
<1>7. \A s : Follows(<<>>, s, 0, 0) /\ Lists(<<>>, s, 0)
  BY <1>3, <1>5 DEF Follows, Lists, InOrder
<1>8. TerminalLists
  BY <1>1, <1>5, <1>6, <1>7 DEF TerminalLists
<1>9. TypedDealt
  BY <1>1, <1>5, <1>6, <1>7 DEF TypedDealt
<1>10. \A c \in Conns : Dealt(c)
  BY <1>1, <1>5 DEF Dealt, InOrder
<1> QED
  BY <1>2, <1>8, <1>9, <1>10 DEF SharedInv

LEMMA SharedStep ==
  ASSUME IInv, SharedInv, [Next]_vars
  PROVE  SharedInv'
<1>1. Sources' /\ ThreadHolds'
  BY SourcesStep, ThreadHoldsStep DEF SharedInv
<1>2. TerminalLists' /\ TypedDealt' /\ \A c \in Conns : Dealt(c)'
  BY TerminalStep, DealtStep DEF SharedInv
<1> QED
  BY <1>1, <1>2 DEF SharedInv

\* Whatever the number of connections that share descriptor 0: what appears of
\* each peer is what it sent, in order and with nothing left out before it, and
\* each typed item is written to one connection at most, in the order typed
\* (bridged_socket_event_handler, stdin_read_thread).
THEOREM SharedStreams == Spec => []ServerStreams
<1>1. Init => SharedInv
  BY SharedInit
<1>2. IInv /\ SharedInv /\ [Next]_vars => SharedInv'
  BY SharedStep
<1>3. IInv /\ SharedInv => ServerStreams
  <2> SUFFICES ASSUME IInv, SharedInv, NEW c \in Conns
               PROVE  /\ InOrder(terminal, c) /\ Dealt(c)
                      /\ \A i \in DOMAIN terminal : terminal[i][1] = c =>
                           \A n \in 1..terminal[i][2] :
                             \E j \in DOMAIN terminal : terminal[j] = <<c, n>>
    BY DEF ServerStreams
  <2>1. Dealt(c) /\ \E m \in 0..sent[c] : Lists(terminal, c, m)
    BY DEF SharedInv, TerminalLists
  <2>2. PICK m \in 0..sent[c] : Lists(terminal, c, m)
    BY <2>1
  <2>3. DOMAIN terminal = 1..Len(terminal) /\ terminal \in Seq(Item) /\ m \in Nat
    BY WholeTypes, LenProperties
  <2>4. ASSUME NEW i \in DOMAIN terminal, terminal[i][1] = c,
               NEW n \in 1..terminal[i][2]
        PROVE  \E j \in DOMAIN terminal : terminal[j] = <<c, n>>
    <3> DEFINE x == terminal[i][2]
    <3>1. terminal[i] \in Item
      BY <2>3, ElementOfSeq
    <3>2. x \in Nat /\ x <= m
      BY <2>2, <2>3, <2>4, <3>1, Bounds DEF Item, Lists
    <3>3. n \in 1..x
      OBVIOUS
    <3> HIDE DEF x
    <3>4. n \in 1..m
      BY <2>3, <3>2, <3>3
    <3> QED
      BY <2>2, <2>3, <3>4 DEF Lists
  <2> QED
    BY <2>1, <2>2, <2>4 DEF Lists
<1> QED
  BY <1>1, <1>2, <1>3, Invariance, PTL DEF Spec
=============================================================================
