----------------------- MODULE InteractiveSessionProofs -----------------------
(***************************************************************************)
(* Client and listening mode implement Session, for every finite number of *)
(* connections that share the standard input.                              *)
(***************************************************************************)
EXTENDS InteractiveSession, InteractiveProofs, WellFoundedInduction

-----------------------------------------------------------------------------
(* Sequences of items as Session sees them. *)

LEMMA StreamLen ==
  ASSUME NEW e, NEW n \in Nat
  PROVE  Len(Stream(e, n)) = n
<1> DEFINE S == {e} \X Nat
<1>1. \A k \in 1..n : <<e, k>> \in S
  OBVIOUS
<1> HIDE DEF S
<1> QED
  BY <1>1, Streams

LEMMA FollowsLen ==
  ASSUME NEW S, NEW e, NEW m \in Nat, NEW n \in Nat, NEW q \in Seq(S),
         Stream(e, m) \in Seq(S), Follows(q, e, m, n)
  PROVE  Len(q) \in Nat /\ m + Len(q) = n
<1>1. Len(Stream(e, m) \o q) = Len(Stream(e, m)) + Len(q) /\ Len(q) \in Nat
  BY ConcatProperties, LenProperties
<1>2. Len(Stream(e, m)) = m /\ Len(Stream(e, n)) = n
  BY StreamLen
<1> QED
  BY <1>1, <1>2 DEF Follows

LEMMA ItemsOf ==
  ASSUME NEW b \in Seq(Item), NEW s, NEW m \in Nat, NEW n \in Nat, m + Len(b) = n,
         \A i \in 1..Len(b) : b[i] = <<s, m + i>>
  PROVE  b = Promise!Items(s, m, n)
<1>1. Len(b) \in Nat /\ DOMAIN b = 1..Len(b) /\ b = [i \in DOMAIN b |-> b[i]]
  BY LenProperties
<1>2. n - m = Len(b)
  BY <1>1
<1> QED
  BY <1>1, <1>2 DEF Promise!Items

\* What is on the terminal of c are the first of what its peer sent.
LEMMA ShownOf ==
  ASSUME IInv, NEW c \in Conns, NEW m \in 0..sent[c], Lists(terminal, c, m)
  PROVE  Promise!Shown(c) = 1..m
<1>1. terminal \in Seq(Item) /\ DOMAIN terminal = 1..Len(terminal)
  BY WholeTypes, LenProperties
<1>2. sent[c] \in Nat /\ m \in Nat
  BY WholeTypes
<1>3. ASSUME NEW i \in 1..Len(terminal), terminal[i][1] = c
      PROVE  terminal[i][2] \in 1..m
  <2>1. terminal[i] \in Item
    BY <1>1, <1>3, ElementOfSeq
  <2> DEFINE x == terminal[i][2]
  <2>2. x \in Nat /\ x >= 1 /\ x <= m
    BY <1>3, <2>1, Bounds DEF Item, Lists
  <2> HIDE DEF x
  <2>3. x \in 1..m
    BY <1>2, <2>2
  <2> QED
    BY <2>3 DEF x
<1>4. ASSUME NEW n \in 1..m
      PROVE  \E i \in 1..Len(terminal) : terminal[i][1] = c /\ terminal[i][2] = n
  <2>1. PICK i \in 1..Len(terminal) : terminal[i] = <<c, n>>
    BY DEF Lists
  <2> QED
    BY <2>1
<1> QED
  BY <1>1, <1>3, <1>4 DEF Promise!Shown

\* What was dealt out of what was typed.
LEMMA DealtHere ==
  ASSUME IInv, TypedDealt, Alive
  PROVE  /\ dealtBar \in 0..typed /\ Len(ToSend) \in Nat /\ typed \in Nat
         /\ Follows(ToSend, Stdin, dealtBar, typed)
<1>1. ToSend \in Seq(Item) /\ typed \in Nat
  BY WholeTypes
<1>2. PICK m \in 0..typed : Follows(ToSend, Stdin, m, typed)
  BY DEF TypedDealt
<1>3. m \in Nat /\ Stream(Stdin, m) \in Seq(Item)
  BY <1>2, ItemStreams
<1>4. Len(ToSend) \in Nat /\ m + Len(ToSend) = typed
  BY <1>1, <1>2, <1>3, FollowsLen
<1>5. dealtBar = m
  BY <1>1, <1>3, <1>4 DEF dealtBar
<1> QED
  BY <1>1, <1>2, <1>4, <1>5

-----------------------------------------------------------------------------
(* The mapping. *)

Around == <<peer, sent, typed, eof, wrote, terminal>>

LEMMA OpenConn ==
  ASSUME IInv, NEW c \in Conns, Queued(c) \/ Held(c)
  PROVE  connBar[c] = "open"
BY DEF connBar, IInv, Lifecycle

LEMMA SameConn ==
  ASSUME \A c \in Conns : /\ (Queued(c) \/ Held(c))' <=> Queued(c) \/ Held(c)
                          /\ peer'[c] = "none" <=> peer[c] = "none"
  PROVE  connBar' = connBar
BY DEF connBar

LEMMA SameFixed ==
  ASSUME IInv, [Next]_vars
  PROVE  UNCHANGED Promise!fixed
<1>1. UNCHANGED Machine
  BY FlagStep, TypeParts DEF IInv
<1> QED
  BY <1>1 DEF Promise!fixed, Machine, EnoughFds

LEMMA Invisible ==
  ASSUME connBar' = connBar, UNCHANGED Around, dealtBar' = dealtBar, Alive' <=> Alive,
         UNCHANGED Promise!fixed
  PROVE  UNCHANGED Promise!vars
BY DEF Promise!vars, Promise!fixed, Around

LEMMA SimSilent ==
  ASSUME IInv, SharedInv, [Next]_vars,
         \/ DebugDump \/ RemoveMarked \/ EnterSelect \/ SelectReturns \/ SkipEntry
         \/ PassDone \/ SelectFails \/ BridgedRead \/ Thread \/ UNCHANGED vars
  PROVE  UNCHANGED Promise!vars
<1>1. NetTypes
  BY TypeParts DEF IInv
<1> USE DEF SOCKET_LIST, local, net, queues, user, thread
<1>2. UNCHANGED Around /\ backlog' = backlog /\ (Alive' <=> Alive)
      /\ (fdt' = fdt \/ DebugDump)
  <2>1. CASE Thread \/ UNCHANGED vars
    BY <2>1 DEF Thread, ThreadStarts, ThreadReads, ThreadWrites, ThreadEnds, vars, Around,
                Alive
  <2>2. CASE DebugDump \/ RemoveMarked \/ EnterSelect
    BY <2>2 DEF DebugDump, RemoveMarked, EnterSelect, Around, Alive
  <2>3. CASE SelectReturns \/ SkipEntry \/ PassDone \/ SelectFails \/ BridgedRead
    BY <2>3 DEF SelectReturns, SkipEntry, PassDone, SelectFails, NextPass, PassStart,
                BridgedRead, FiredBridge,
                Fired, Visited, Continue, Around, Alive
  <2> QED
    BY <2>1, <2>2, <2>3
<1>3. connBar' = connBar
  <2>1. \A c \in Conns : Held(c)' <=> Held(c)
    BY <1>1, <1>2, DumpKeeps, Descriptors DEF Held, Kept
  <2> QED
    BY <1>2, <2>1, SameConn DEF Queued, Around
<1>4. ToSend' = ToSend
  <2>1. CASE UNCHANGED vars
    BY <2>1 DEF vars, ToSend, InFlight
  <2>2. CASE BridgedRead
    BY <2>2, ReadWhole DEF SharedInv
  <2>3. CASE ThreadReads \/ ThreadWrites
    BY <2>3, ThreadWhole DEF SharedInv
  <2>4. CASE \/ ThreadStarts \/ ThreadEnds \/ DebugDump \/ RemoveMarked \/ EnterSelect
             \/ SelectReturns \/ SkipEntry \/ PassDone \/ SelectFails
    <3>1. UNCHANGED <<stdin, read_buffer, console>>
      BY <2>4 DEF ThreadStarts, ThreadEnds, DebugDump, RemoveMarked, EnterSelect,
                  SelectReturns, SkipEntry, PassDone, SelectFails, NextPass
    <3>2. (pc # "write" /\ pc' # "write") \/ UNCHANGED <<pc, buffer>>
      BY <2>4 DEF ThreadStarts, ThreadEnds, DebugDump, RemoveMarked, EnterSelect,
                  SelectReturns, SkipEntry, PassDone, SelectFails, NextPass, PassStart,
                  Visited, Continue
    <3> QED
      BY <3>1, <3>2 DEF ToSend, InFlight
  <2> QED
    BY <2>1, <2>2, <2>3, <2>4 DEF Thread
<1>5. dealtBar' = dealtBar
  BY <1>2, <1>4 DEF dealtBar, Around
<1> QED
  BY <1>2, <1>3, <1>5, SameFixed, Invisible

LEMMA SimConnect ==
  ASSUME IInv, SharedInv, [Next]_vars, NEW c \in Conns, ClientConnect(c)
  PROVE  Promise!Open(c)
<1>1. NetTypes
  BY TypeParts DEF IInv
<1>2. /\ Alive /\ peer[c] = "none" /\ peer' = [peer EXCEPT ![c] = "open"]
      /\ fdt' = fdt /\ backlog' = Append(backlog, c)
      /\ UNCHANGED <<pc, buffer, stdin, read_buffer, console>>
      /\ UNCHANGED <<sent, typed, eof, wrote, terminal>>
  BY DEF ClientConnect, local, user, thread
<1>3. Alive' /\ dealtBar' = dealtBar
  BY <1>2 DEF Alive, dealtBar, ToSend, InFlight
<1>4. \A d \in Conns : Queued(d)' <=> Queued(d) \/ d = c
  <2>1. backlog \in Seq(Conns)
    BY <1>1 DEF NetTypes
  <2>2. /\ Len(backlog') = Len(backlog) + 1 /\ backlog'[Len(backlog) + 1] = c
        /\ \A i \in 1..Len(backlog) : backlog'[i] = backlog[i]
        /\ DOMAIN backlog' = 1..Len(backlog') /\ DOMAIN backlog = 1..Len(backlog)
        /\ Len(backlog) \in Nat
    BY <1>2, <2>1, AppendProperties, LenProperties
  <2>3. \A i \in 1..(Len(backlog) + 1) : i \in 1..Len(backlog) \/ i = Len(backlog) + 1
    BY <2>2
  <2> QED
    BY <2>2, <2>3 DEF Queued
<1>5. \A d \in Conns : /\ Held(d)' <=> Held(d)
                       /\ peer'[d] = IF d = c THEN "open" ELSE peer[d]
  BY <1>1, <1>2 DEF Held, NetTypes
<1>6. connBar[c] = "idle" /\ connBar' = [connBar EXCEPT ![c] = "open"]
  <2>1. connBar[c] = "idle"
    BY <1>2 DEF connBar
  <2>2. connBar'[c] = "open"
    BY <1>4, <1>5 DEF connBar
  <2>3. \A d \in Conns : d # c => connBar'[d] = connBar[d]
    BY <1>4, <1>5 DEF connBar
  <2>4. /\ connBar = [d \in Conns |-> connBar[d]]
        /\ connBar' = [d \in Conns |-> connBar'[d]]
    BY DEF connBar
  <2> QED
    BY <2>1, <2>2, <2>3, <2>4
<1> QED
  BY <1>2, <1>3, <1>6, SameFixed DEF Promise!Open

LEMMA SimSend ==
  ASSUME IInv, SharedInv, [Next]_vars, NEW c \in Conns, PeerSend(c)
  PROVE  Promise!Send(c)
<1>1. /\ Alive /\ peer[c] = "open" /\ (Held(c) \/ Queued(c)) /\ sent[c] < MaxSend
      /\ sent' = [sent EXCEPT ![c] = @ + 1]
      /\ UNCHANGED <<pc, peer, fdt, backlog, typed, eof, wrote, terminal>>
  BY DEF PeerSend, local, user
<1>2. ToSend' = ToSend
  BY SentWhole
<1>3. dealtBar' = dealtBar /\ Alive'
  BY <1>1, <1>2 DEF dealtBar, Alive
<1>4. connBar' = connBar
  BY <1>1, SameConn DEF Queued, Held
<1>5. connBar[c] = "open"
  BY <1>1, OpenConn
<1> QED
  BY <1>1, <1>3, <1>4, <1>5, SameFixed DEF Promise!Send

LEMMA SimFinish ==
  ASSUME IInv, SharedInv, [Next]_vars, NEW c \in Conns, PeerFinish(c)
  PROVE  Promise!Finish(c)
<1>1. NetTypes
  BY TypeParts DEF IInv
<1>2. /\ Alive /\ peer[c] = "open"
      /\ \E how \in {"fin", "gone"} : peer' = [peer EXCEPT ![c] = how]
      /\ UNCHANGED <<pc, buffer, stdin, read_buffer, console>>
      /\ UNCHANGED <<fdt, backlog, sent, typed, eof, wrote, terminal>>
  BY DEF PeerFinish, local, queues, user, thread
<1>3. Alive' /\ dealtBar' = dealtBar
  BY <1>2 DEF Alive, dealtBar, ToSend, InFlight
<1>4. \A d \in Conns : peer'[d] = "none" <=> peer[d] = "none"
  BY <1>1, <1>2 DEF NetTypes
<1>5. connBar' = connBar
  BY <1>2, <1>4, SameConn DEF Queued, Held
<1> QED
  BY <1>2, <1>3, <1>5, SameFixed DEF Promise!Finish

LEMMA SimUser ==
  ASSUME IInv, SharedInv, [Next]_vars, UserTypes \/ UserEnds
  PROVE  Promise!Type \/ Promise!EndInput
<1>1. /\ Alive /\ UNCHANGED <<pc, fdt, backlog, peer, sent, wrote, terminal>>
  BY DEF UserTypes, UserEnds, local, net, queues
<1>2. connBar' = connBar /\ Alive'
  BY <1>1, SameConn DEF Queued, Held, Alive
<1>3. CASE UserTypes
  <2>1. /\ ~eof /\ typed < MaxTyped /\ typed' = typed + 1 /\ eof' = eof
    BY <1>3 DEF UserTypes
  <2>2. ToSend' = Append(ToSend, <<Stdin, typed + 1>>) /\ <<Stdin, typed + 1>> \in Item
    BY <1>3, TypedWhole DEF SharedInv
  <2>3. ToSend \in Seq(Item) /\ typed \in Nat /\ Len(ToSend) \in Nat
    BY WholeTypes, LenProperties
  <2>4. Len(ToSend') = Len(ToSend) + 1
    BY <2>2, <2>3, AppendProperties
  <2>5. dealtBar' = dealtBar
    <3>1. dealtBar' = (typed + 1) - (Len(ToSend) + 1)
      BY <2>1, <2>4 DEF dealtBar
    <3> QED
      BY <2>3, <3>1 DEF dealtBar
  <2> QED
    BY <1>1, <1>2, <2>1, <2>5, SameFixed DEF Promise!Type
<1>4. CASE UserEnds
  <2>1. /\ ~eof /\ eof' = TRUE
        /\ UNCHANGED <<typed, pc, buffer, stdin, read_buffer, console>>
    BY <1>4 DEF UserEnds, local, queues, thread
  <2>2. dealtBar' = dealtBar
    BY <2>1 DEF dealtBar, ToSend, InFlight
  <2> QED
    BY <1>1, <1>2, <2>1, <2>2, SameFixed DEF Promise!EndInput
<1> QED
  BY <1>3, <1>4

\* Accepted, a client that was queued is held.
LEMMA SimAccept ==
  ASSUME IInv, SharedInv, [Next]_vars, SocketAccept
  PROVE  UNCHANGED Promise!vars
<1>1. ListTypes /\ NetTypes /\ Wiring /\ MaskListed
  BY TypeParts DEF IInv
<1>2. PICK f \in Fd :
        /\ fdt[f] = Free /\ fdt'[f] = Head(backlog)
        /\ \A g \in Fd \ {f} : \/ fdt'[g] = fdt[g]
                               \/ fdt[g] = Free /\ fdt'[g] = AfDevice
  BY <1>1, AcceptStep
<1>3. pc = "handle" /\ pc' = "handle"
  BY <1>1, AcceptStep
<1>4. /\ backlog' = Tail(backlog) /\ backlog # <<>> /\ UNCHANGED Around
      /\ UNCHANGED <<stdin, read_buffer, console>>
  BY DEF SocketAccept, net, user, thread, Around
<1>5. /\ backlog \in Seq(Conns) /\ Len(backlog) \in Nat \ {0}
      /\ DOMAIN backlog = 1..Len(backlog) /\ Head(backlog) = backlog[1]
  BY <1>1, <1>4, LenProperties, EmptySeq, HeadTailProperties DEF NetTypes
<1>6. /\ DOMAIN Tail(backlog) = 1..(Len(backlog) - 1)
      /\ \A i \in 1..(Len(backlog) - 1) : Tail(backlog)[i] = backlog[i + 1]
  BY <1>4, <1>5, HeadTailProperties, LenProperties
<1>7. ASSUME NEW c \in Conns
      PROVE  (Queued(c) \/ Held(c))' <=> Queued(c) \/ Held(c)
  <2>1. Held(c)' => Held(c) \/ Queued(c)
    BY <1>2, <1>5, Descriptors DEF Held, Queued
  <2>2. Queued(c)' => Queued(c)
    BY <1>4, <1>5, <1>6 DEF Queued
  <2>3. Held(c) => Held(c)'
    BY <1>2, Descriptors DEF Held
  <2>4. ASSUME Queued(c) PROVE Queued(c)' \/ Held(c)'
    <3>1. PICK i \in 1..Len(backlog) : backlog[i] = c
      BY <1>5, <2>4 DEF Queued
    <3>2. CASE i = 1
      BY <1>2, <1>5, <3>1, <3>2 DEF Held
    <3>3. CASE i # 1
      <4>1. i - 1 \in 1..(Len(backlog) - 1) /\ (i - 1) + 1 = i
        BY <1>5, <3>3
      <4>2. Tail(backlog)[i - 1] = c
        BY <1>6, <3>1, <4>1
      <4> QED
        BY <1>4, <1>6, <4>1, <4>2 DEF Queued
    <3> QED
      BY <3>2, <3>3
  <2> QED
    BY <2>1, <2>2, <2>3, <2>4
<1>8. connBar' = connBar
  BY <1>4, <1>7, SameConn DEF Around
<1>9. dealtBar' = dealtBar /\ (Alive' <=> Alive)
  BY <1>3, <1>4 DEF dealtBar, ToSend, InFlight, Around, Alive
<1> QED
  BY <1>4, <1>8, <1>9, SameFixed, Invisible

\* A chunk of what was typed leaves the buffer.
LEMMA SimDeal ==
  ASSUME IInv, SharedInv, [Next]_vars, WriteToSocket \/ WriteLost
  PROVE  \E c \in Conns : Promise!Deal(c)
<1>1. QueueTypes
  BY TypeParts DEF IInv
<1>2. PICK c \in Conns :
        /\ pc = "write" /\ pc' = "handle" /\ Out \in Fd /\ fdt[Out] = c
        /\ UNCHANGED <<fdt, backlog, peer, sent, typed, eof, terminal>>
        /\ wrote' = IF peer[c] = "gone" THEN wrote ELSE [wrote EXCEPT ![c] = @ \o buffer]
  BY DEF WriteToSocket, WriteLost, WriteDone, Continue, net, queues, user
<1>3. Alive /\ Alive' /\ connBar' = connBar
  BY <1>2, SameConn DEF Alive, Queued, Held
<1>4. connBar[c] = "open"
  BY <1>2, OpenConn DEF Held
<1>5. /\ ToSend = buffer \o ToSend' /\ ToSend' \in Seq(Item) /\ buffer \in Seq(Item)
  BY <1>2, WriteWhole, WholeTypes, Descriptors DEF SharedInv, WriteToStdin
<1>6. buffer # <<>>
  BY <1>2 DEF SharedInv, Sources, BufferRead
<1>7. /\ Len(buffer) \in Nat \ {0} /\ Len(ToSend') \in Nat
      /\ Len(ToSend) = Len(buffer) + Len(ToSend')
  BY <1>5, <1>6, ConcatProperties, LenProperties, EmptySeq
<1>8. /\ dealtBar \in 0..typed /\ typed \in Nat /\ Follows(ToSend, Stdin, dealtBar, typed)
  BY <1>3, DealtHere DEF SharedInv
<1>9. dealtBar' = dealtBar + Len(buffer) /\ dealtBar' \in (dealtBar + 1)..typed
      /\ dealtBar \in Nat /\ dealtBar' \in Nat
  <2>1. dealtBar = typed - Len(ToSend) /\ dealtBar' = typed - Len(ToSend')
    BY <1>2 DEF dealtBar
  <2> DEFINE x == Len(buffer)
             y == Len(ToSend')
             z == Len(ToSend)
  <2>2. x \in Nat \ {0} /\ y \in Nat /\ z = x + y /\ z <= typed
    BY <1>7, <1>8, <2>1
  <2> HIDE DEF x, y, z
  <2>3. typed - y = (typed - z) + x /\ typed - y \in (typed - z + 1)..typed
        /\ typed - z \in Nat /\ typed - y \in Nat
    BY <1>8, <2>2
  <2> QED
    BY <2>1, <2>3 DEF x, y, z
<1>10. buffer = Promise!Items(Stdin, dealtBar, dealtBar')
  <2> DEFINE r == ToSend'
             d == dealtBar
  <2>1. r \in Seq(Item) /\ Follows(Joined(buffer, r), Stdin, d, typed)
        /\ d \in Nat /\ typed \in Nat /\ Stream(Stdin, d) \in Seq(Item)
    BY <1>5, <1>8, ItemStreams DEF Joined
  <2> HIDE DEF r, d
  <2>2. \A i \in 1..Len(buffer) : buffer[i] = <<Stdin, d + i>>
    BY <1>5, <2>1, NextItems
  <2> QED
    BY <1>5, <1>9, <2>2, ItemsOf DEF d
<1> HIDE DEF Promise!Items
<1>11. wrote' = IF peer[c] = "gone" THEN wrote
                ELSE [wrote EXCEPT ![c] = @ \o Promise!Items(Stdin, dealtBar, dealtBar')]
  BY <1>2, <1>10
<1>12. Promise!Deal(c)
  BY <1>2, <1>3, <1>4, <1>9, <1>11, SameFixed DEF Promise!Deal
<1> QED
  BY <1>12

\* A chunk of what a peer sent leaves the buffer.
LEMMA SimShow ==
  ASSUME IInv, SharedInv, [Next]_vars, WriteToStdin
  PROVE  \E c \in Conns : Promise!Show(c)
<1>1. /\ pc = "write" /\ pc' = "handle" /\ Out = Stdin /\ tty
      /\ terminal' = terminal \o buffer
      /\ UNCHANGED <<fdt, backlog, peer, sent, typed, eof, wrote>>
  BY DEF WriteToStdin, WriteDone, Continue, net, user
<1>2. PICK c \in Conns : In \in Fd /\ fdt[In] = c
  BY <1>1, FlightAtWrite, Descriptors DEF SharedInv, Sources
<1>3. Alive /\ Alive' /\ connBar' = connBar
  BY <1>1, SameConn DEF Alive, Queued, Held
<1>4. connBar[c] = "open" /\ Unclosed(c)
  BY <1>2, <1>3, OpenConn DEF Held, Unclosed
<1>5. /\ ToSend' = ToSend
      /\ ToShow(c) = buffer \o ToShow(c)' /\ ToShow(c)' \in Seq(Item)
  BY <1>1, <1>2, WriteWhole, Descriptors DEF SharedInv
<1>6. buffer # <<>> /\ buffer \in Seq(Item) /\ sent[c] \in Nat
  BY <1>1, WholeTypes DEF SharedInv, Sources, BufferRead
<1>7. PICK m \in 0..sent[c] :
        Lists(terminal, c, m) /\ Follows(ToShow(c), c, m, sent[c])
  BY <1>4 DEF SharedInv, TerminalLists
<1>8. m \in Nat /\ Stream(c, m) \in Seq(Item)
  BY <1>7, ItemStreams
<1> DEFINE n == m + Len(buffer)
<1>9. /\ n \in (m + 1)..sent[c]
      /\ \A i \in 1..Len(buffer) : buffer[i] = <<c, m + i>>
  <2> DEFINE r == ToShow(c)'
             t == sent[c]
  <2>1. r \in Seq(Item) /\ Follows(Joined(buffer, r), c, m, t) /\ t \in Nat
    BY <1>5, <1>6, <1>7 DEF Joined
  <2> HIDE DEF r, t
  <2>2. /\ Len(buffer) \in Nat /\ m + Len(buffer) \in 0..t
        /\ \A i \in 1..Len(buffer) : buffer[i] = <<c, m + i>>
    BY <1>6, <1>8, <2>1, NextItems
  <2>3. Len(buffer) # 0
    BY <1>6, EmptySeq
  <2> QED
    BY <1>8, <2>1, <2>2, <2>3 DEF t
<1> HIDE DEF n
<1>10. n \in Nat /\ m + Len(buffer) = n
  BY <1>6, <1>9 DEF n
<1>11. buffer = Promise!Items(c, m, n)
  BY <1>6, <1>8, <1>9, <1>10, ItemsOf
<1>12. Promise!Shown(c) = 1..m
  BY <1>7, ShownOf
<1>13. dealtBar' = dealtBar
  BY <1>1, <1>5 DEF dealtBar
<1> HIDE DEF Promise!Items, Promise!Shown
<1>14. terminal' = terminal \o Promise!Items(c, m, n)
  BY <1>1, <1>11
<1>15. Promise!Show(c)
  BY <1>1, <1>3, <1>4, <1>7, <1>9, <1>12, <1>13, <1>14, SameFixed DEF Promise!Show
<1> QED
  BY <1>15

\* An end closes the entry's own connection or none, and that one only after
\* everything its peer sent was shown, or everything typed was dealt out.
LEMMA SimEof ==
  ASSUME IInv, SharedInv, [Next]_vars, BridgedEof
  PROVE  (\E c \in Conns : Promise!CloseConn(c)) \/ UNCHANGED Promise!vars
<1>1. ListTypes /\ NetTypes /\ Wiring /\ OneFdPerConn /\ Lifecycle
  BY TypeParts DEF IInv
<1>2. /\ FiredBridge /\ Data(In) = <<>> /\ AtEnd(In) /\ pc = "handle" /\ pc' = "handle"
      /\ UNCHANGED <<backlog, stdin, read_buffer, console>> /\ UNCHANGED Around
      /\ \A f \in Fd : fdt'[f] = IF f \in {In, Out} THEN Free ELSE fdt[f]
  BY <1>1, EofStep DEF BridgedEof, EndOfFile, net, user, thread, Around
<1>3. \A s : InFlight(s) = <<>> /\ InFlight(s)' = <<>>
  BY <1>2 DEF InFlight
<1>4. Alive /\ Alive' /\ dealtBar' = dealtBar
  BY <1>2, <1>3 DEF Alive, dealtBar, ToSend, Around
<1>5. \/ In \in Fd /\ Out \notin Fd
      \/ In = Stdin
  BY <1>1, <1>2, FiredEntry, Descriptors
<1>6. CASE \A f \in {In, Out} \cap Fd : fdt[f] \notin Conns
  <2>1. \A c \in Conns : Held(c)' <=> Held(c)
    BY <1>2, <1>6, Descriptors DEF Held
  <2>2. connBar' = connBar
    BY <1>2, <2>1, SameConn DEF Queued, Around
  <2> QED
    BY <1>2, <1>4, <2>2, SameFixed, Invisible
<1>7. ASSUME NEW g \in {In, Out} \cap Fd, fdt[g] \in Conns
      PROVE  \E c \in Conns : Promise!CloseConn(c)
  <2>1. PICK c \in Conns : fdt[g] = c
    BY <1>7
  <2>2. Held(c) /\ Unclosed(c) /\ connBar[c] = "open"
    BY <1>4, <2>1, OpenConn DEF Held, Unclosed
  <2>3. connBar' = [connBar EXCEPT ![c] = "closed"]
    <3>1. ~Held(c)'
      BY <1>1, <1>2, <2>1, Descriptors DEF Held, OneFdPerConn
    <3>2. peer[c] # "none" /\ ~Queued(c)
      BY <1>1, <2>2 DEF Lifecycle
    <3>3. connBar'[c] = "closed"
      BY <1>2, <3>1, <3>2 DEF connBar, Queued, Around
    <3>4. ASSUME NEW d \in Conns, d # c PROVE Held(d)' <=> Held(d)
      <4>1. \A f \in {In, Out} \cap Fd : f = g
        BY <1>5, <1>7, Descriptors
      <4> QED
        BY <1>2, <2>1, <3>4, <4>1, Descriptors DEF Held
    <3>5. \A d \in Conns : d # c => connBar'[d] = connBar[d]
      BY <1>2, <3>4 DEF connBar, Queued, Around
    <3>6. /\ connBar = [d \in Conns |-> connBar[d]]
          /\ connBar' = [d \in Conns |-> connBar'[d]]
      BY DEF connBar
    <3> QED
      BY <3>3, <3>5, <3>6
  <2>4. CASE g = In
    <3>1. rx[c] = <<>> /\ peer[c] \in {"fin", "gone"}
      BY <1>2, <1>7, <2>1, <2>4, Descriptors DEF Data, AtEnd
    <3>2. ToShow(c) = <<>>
      BY <1>3, <3>1 DEF ToShow
    <3>3. PICK m \in 0..sent[c] :
            Lists(terminal, c, m) /\ Follows(ToShow(c), c, m, sent[c])
      BY <2>2 DEF SharedInv, TerminalLists
    <3>4. /\ m \in Nat /\ sent[c] \in Nat /\ Stream(c, m) \in Seq(Item)
          /\ ToShow(c) \in Seq(Item)
      BY <3>3, ItemStreams, WholeTypes
    <3>5. m + Len(ToShow(c)) = sent[c]
      BY <3>3, <3>4, FollowsLen
    <3>6. m = sent[c]
      BY <3>2, <3>4, <3>5
    <3>7. Promise!Shown(c) = 1..sent[c]
      BY <3>3, <3>6, ShownOf
    <3>8. Promise!Finished(c) /\ Promise!AllShown(c)
      BY <3>1, <3>7 DEF Promise!Finished, Promise!AllShown
    <3>9. Promise!CloseConn(c)
      BY <1>2, <1>4, <2>2, <2>3, <3>8, SameFixed DEF Promise!CloseConn, Around
    <3> QED
      BY <3>9
  <2>5. CASE g = Out /\ g # In
    <3>1. In = Stdin
      BY <1>5, <1>7, <2>5
    <3>2. eof /\ platform = "linux" /\ stdin = <<>>
      BY <1>2, <3>1 DEF AtEnd, Data
    <3>3. read_buffer = <<>> /\ console = <<>>
      BY <3>2 DEF SharedInv, ThreadHolds
    <3>4. ToSend = <<>> /\ typed \in Nat
      BY <1>3, <3>2, <3>3, WholeTypes DEF ToSend
    <3>5. dealtBar = typed
      BY <3>4 DEF dealtBar
    <3>6. Promise!InputEnded
      BY <3>2 DEF Promise!InputEnded
    <3>7. Promise!CloseConn(c)
      BY <1>2, <1>4, <2>2, <2>3, <3>5, <3>6, SameFixed DEF Promise!CloseConn, Around
    <3> QED
      BY <3>7
  <2> QED
    BY <1>7, <2>4, <2>5
<1> QED
  BY <1>6, <1>7

-----------------------------------------------------------------------------
(* Descriptors for every connection. *)

LEMMA TableRightInit ==
  ASSUME Init
  PROVE  TableRight
<1>1. pc = "dump" => leak
  BY DEF Init, PassStart
<1>2. ASSUME Mode = "listen", ~leak, NEW f \in 4..(MaxFd - 1)
      PROVE  fdt[f] \in Conns \cup {Free}
  <2>1. f \in Fd /\ ~(f < 3) /\ f # 3 /\ ~(f >= MaxFd)
    BY InteractiveAssumption DEF Fd
  <2>2. PICK c \in Conns :
          fdt = [g \in Fd |->
                   IF g < 3 THEN AfDevice
                   ELSE IF g = 3 THEN (IF Mode = "client" THEN c ELSE Listener)
                   ELSE IF ~leak /\ g >= MaxFd THEN Beyond ELSE Free]
    BY <1>2 DEF Init
  <2> QED
    BY <2>1, <2>2
<1> QED
  BY <1>1, <1>2 DEF TableRight

LEMMA TableRightStep ==
  ASSUME IInv, TableRight, [Next]_vars
  PROVE  TableRight'
<1>1. ListTypes /\ NetTypes /\ Wiring /\ MaskListed
  BY TypeParts DEF IInv
<1>2. leak' = leak
  BY FlagStep, TypeParts DEF IInv, Machine
<1>3. pc' = "dump" => leak
  <2>1. CASE pc' = pc
    BY <2>1 DEF TableRight
  <2>2. CASE Thread \/ Environment \/ UNCHANGED vars
    BY <2>1, <2>2 DEF Thread, ThreadStarts, ThreadReads, ThreadWrites, ThreadEnds,
         Environment, ClientConnect, PeerSend, PeerFinish, UserTypes, UserEnds, vars, local
  <2>3. CASE PassDone \/ SelectFails
    BY <2>3 DEF PassDone, SelectFails, NextPass, PassStart
  <2>4. CASE DebugDump \/ RemoveMarked \/ EnterSelect \/ SelectReturns \/ SkipEntry
    BY <2>1, <2>4 DEF DebugDump, RemoveMarked, EnterSelect, SelectReturns, SkipEntry,
                      Continue
  <2>5. CASE \/ SocketAccept \/ BridgedRead \/ BridgedEof
             \/ WriteToSocket \/ WriteLost \/ WriteToStdin
    BY <2>5 DEF SocketAccept, BridgedRead, BridgedEof, WriteToSocket, WriteLost,
                WriteToStdin, WriteDone, Continue
  <2>6. CASE LoopEnds \/ AcceptFails \/ DoubleFree \/ WriteFails
    BY <2>6 DEF LoopEnds, AcceptFails, DoubleFree, WriteFails, Stop
  <2> QED
    BY <2>2, <2>3, <2>4, <2>5, <2>6 DEF Next, Process
<1>4. ASSUME Mode = "listen", ~leak, NEW f \in 4..(MaxFd - 1)
      PROVE  fdt'[f] \in Conns \cup {Free}
  <2>1. fdt[f] \in Conns \cup {Free} /\ f \in Fd
    BY <1>4, InteractiveAssumption DEF TableRight, Fd
  <2>2. CASE fdt' = fdt \/ RemoveMarked
    BY <2>1, <2>2 DEF RemoveMarked, queues
  <2>3. ~DebugDump
    BY <1>4 DEF DebugDump, TableRight
  <2>4. CASE SocketAccept
    <3>1. Head(backlog) \in Conns
      BY <1>1, <2>4, HeadTailProperties DEF SocketAccept, NetTypes
    <3>2. \E g \in NewFd : fdt' = [fdt EXCEPT ![g] = Head(backlog)]
      BY <1>4, <2>4 DEF SocketAccept
    <3> QED
      BY <1>1, <2>1, <3>1, <3>2 DEF NetTypes
  <2>5. CASE BridgedEof
    BY <1>1, <2>1, <2>5, EofStep
  <2> QED
    BY <2>2, <2>3, <2>4, <2>5, Changes
<1> QED
  BY <1>2, <1>3, <1>4 DEF TableRight

LEMMA SmallestFree ==
  ASSUME NetTypes, NewFd = {}
  PROVE  \A f \in Fd : fdt[f] # Free
<1> SUFFICES ASSUME NEW g \in Fd, fdt[g] = Free PROVE FALSE
  OBVIOUS
<1> DEFINE T == {f \in Fd : fdt[f] = Free}
           R == OpToRel(<, Nat)
<1>1. T \subseteq Nat /\ T # {}
  BY Descriptors
<1>2. \E x \in T : \A y \in T : ~(<<y, x>> \in R)
  <2> HIDE DEF T, R
  <2>1. IsWellFoundedOn(R, Nat)
    BY NatLessThanWellFounded DEF R
  <2> QED
    BY <1>1, <2>1, WFMin
<1>3. PICK x \in T : \A y \in T : ~(<<y, x>> \in R)
  BY <1>2
<1>4. \A y \in T : ~(y < x)
  BY <1>1, <1>3 DEF OpToRel
<1>5. x \in LowestFree
  BY <1>4 DEF LowestFree
<1> QED
  BY <1>5 DEF NewFd

\* A client waits for accept, so not all descriptors are taken by others.
LEMMA AcceptSucceeds ==
  ASSUME IsFiniteSet(Conns), IInv, TableRight, AcceptFails, EnoughFds
  PROVE  FALSE
<1>1. NetTypes /\ OneFdPerConn /\ Lifecycle
  BY TypeParts DEF IInv
<1>2. Mode = "listen" /\ ~leak /\ NewFd = {} /\ backlog # <<>>
  BY OnlyServers DEF AcceptFails, EnoughFds
<1> DEFINE T == 4..(MaxFd - 1)
           h == Head(backlog)
           C == Conns \ {h}
           m == [f \in T |-> fdt[f]]
<1>3. h \in Conns /\ ~Held(h)
  <2>1. /\ backlog \in Seq(Conns) /\ Len(backlog) \in Nat \ {0}
        /\ DOMAIN backlog = 1..Len(backlog) /\ h = backlog[1] /\ h \in Conns
    BY <1>1, <1>2, LenProperties, EmptySeq, HeadTailProperties DEF NetTypes
  <2>2. Queued(h)
    BY <2>1 DEF Queued
  <2> HIDE DEF h
  <2> QED
    BY <1>1, <2>1, <2>2 DEF Lifecycle
<1>4. T \subseteq Fd /\ MaxFd \in Nat /\ MaxFd >= 4
  BY InteractiveAssumption DEF Fd
<1>5. IsFiniteSet(T) /\ Cardinality(T) = MaxFd - 4
  <2> DEFINE b == MaxFd - 1
  <2>1. b \in Int /\ 4 \in Int
    BY <1>4
  <2>2. IsFiniteSet(4..b) /\ Cardinality(4..b) = IF 4 > b THEN 0 ELSE b - 4 + 1
    BY <2>1, FS_Interval
  <2>3. (IF 4 > b THEN 0 ELSE b - 4 + 1) = MaxFd - 4
    BY <1>4
  <2> HIDE DEF b
  <2> QED
    BY <2>2, <2>3 DEF b
<1>6. IsFiniteSet(C) /\ Cardinality(C) = Cardinality(Conns) - 1
      /\ Cardinality(Conns) \in Nat
  <2> HIDE DEF h
  <2> QED
    BY <1>3, FS_RemoveElement, FS_CardinalityType
<1>7. m \in Injection(T, C)
  <2>1. \A f \in T : fdt[f] \in Conns /\ fdt[f] # h
    BY <1>1, <1>2, <1>3, <1>4, SmallestFree DEF TableRight, Held
  <2>2. \A f, g \in T : fdt[f] = fdt[g] => f = g
    BY <1>1, <1>4, <2>1 DEF OneFdPerConn
  <2> HIDE DEF T, h
  <2>3. m \in [T -> C] /\ \A f, g \in T : m[f] = m[g] => f = g
    BY <2>1, <2>2
  <2> HIDE DEF m, C
  <2> QED
    BY <2>3 DEF Injection, IsInjective
<1>8. Cardinality(T) <= Cardinality(C)
  <2> HIDE DEF T, C, m
  <2> QED
    BY <1>5, <1>6, <1>7, FS_Injection
<1> QED
  BY <1>4, <1>5, <1>6, <1>8 DEF EnoughFds

-----------------------------------------------------------------------------
(* The end of the process. *)

\* What is lost with the buffer is at most its chunk.
LEMMA LostAtMost ==
  ASSUME IInv, SharedInv, Alive, ~Alive', [Next]_vars,
         LoopEnds \/ AcceptFails \/ DoubleFree \/ WriteFails
  PROVE  dealtBar' \in dealtBar..typed /\ typed' = typed
<1>1. /\ pc' \in {"exited", "aborted"}
      /\ UNCHANGED <<typed, stdin, read_buffer, console>>
  BY DEF LoopEnds, AcceptFails, DoubleFree, WriteFails, Stop, queues, user, thread
<1>2. /\ stdin \in Seq(Item) /\ read_buffer \in Seq(Item) /\ console \in Seq(Item)
      /\ InFlight(Stdin) \in Seq(Item)
  BY WholeTypes
<1>3. InFlight(Stdin)' = <<>>
  BY <1>1 DEF InFlight
<1> DEFINE i == InFlight(Stdin)
           r == stdin \o (read_buffer \o console)
<1>4. ToSend = i \o r /\ ToSend' = r /\ r \in Seq(Item) /\ i \in Seq(Item)
  <2> DEFINE a == Joined(i, Joined(stdin, Joined(read_buffer, console)))
  <2>1. \A q \in Seq(Item) :
          (((q \o stdin) \o read_buffer) \o console)
            = q \o (stdin \o (read_buffer \o console))
    <3> TAKE q \in Seq(Item)
    <3>1. Joined(Joined(Joined(q, stdin), read_buffer), console)
            = Joined(Joined(q, stdin), Joined(read_buffer, console))
      BY <1>2, Regroup
    <3>2. Joined(Joined(q, stdin), Joined(read_buffer, console))
            = Joined(q, Joined(stdin, Joined(read_buffer, console)))
      BY <1>2, Regroup
    <3> QED
      BY <3>1, <3>2 DEF Joined
  <2>2. stdin \o (read_buffer \o console) \in Seq(Item)
    <3>1. Joined(stdin, Joined(read_buffer, console)) \in Seq(Item)
      BY <1>2, Regroup
    <3> QED
      BY <3>1 DEF Joined
  <2>3. ToSend = i \o r
    BY <1>2, <2>1 DEF ToSend
  <2>4. ToSend' = ((<<>> \o stdin) \o read_buffer) \o console
    BY <1>1, <1>3 DEF ToSend
  <2> HIDE DEF r
  <2>5. <<>> \o r = r
    BY <2>2, ConcatEmptySeq DEF r
  <2>6. ToSend' = <<>> \o r
    BY <2>1, <2>4 DEF r
  <2> QED
    BY <1>2, <2>2, <2>3, <2>5, <2>6 DEF r
<1> HIDE DEF i, r
<1>5. Len(i) \in Nat /\ Len(r) \in Nat /\ Len(ToSend) = Len(i) + Len(r)
  BY <1>4, ConcatProperties, LenProperties
<1>6. dealtBar \in 0..typed /\ typed \in Nat
  BY DealtHere DEF SharedInv
<1>7. dealtBar = typed - Len(ToSend) /\ dealtBar' = typed - Len(r)
  BY <1>1, <1>4 DEF dealtBar
<1> DEFINE x == Len(i)
           y == Len(r)
           z == Len(ToSend)
<1>8. x \in Nat /\ y \in Nat /\ z = x + y
  BY <1>5
<1> HIDE DEF x, y, z
<1>9. typed - y \in (typed - z)..typed
  BY <1>6, <1>8
<1> QED
  BY <1>1, <1>7, <1>9 DEF y, z

\* A terminal that cannot be written stops the process with items not shown.
LEMMA UnshownAtWrite ==
  ASSUME IInv, SharedInv, pc = "write", Out = Stdin
  PROVE  \E c \in Conns : ~Promise!AllShown(c)
<1>1. PICK c \in Conns : In \in Fd /\ fdt[In] = c /\ InFlight(c) = buffer
  BY FlightAtWrite, Descriptors DEF SharedInv, Sources
<1>2. Unclosed(c)
  BY <1>1 DEF Held, Unclosed, Alive
<1>3. buffer # <<>> /\ buffer \in Seq(Item) /\ rx[c] \in Seq(Item) /\ sent[c] \in Nat
  BY WholeTypes DEF SharedInv, Sources, BufferRead
<1>4. PICK m \in 0..sent[c] :
        Lists(terminal, c, m) /\ Follows(ToShow(c), c, m, sent[c])
  BY <1>2 DEF SharedInv, TerminalLists
<1>5. ToShow(c) = buffer \o rx[c]
  BY <1>1 DEF ToShow
<1>6. Len(buffer) \in Nat \ {0} /\ Len(rx[c]) \in Nat
      /\ Len(ToShow(c)) = Len(buffer) + Len(rx[c]) /\ ToShow(c) \in Seq(Item)
  BY <1>3, <1>5, ConcatProperties, LenProperties, EmptySeq
<1>7. m \in Nat /\ Stream(c, m) \in Seq(Item)
  BY <1>4, ItemStreams
<1>8. m + Len(ToShow(c)) = sent[c]
  <2>1. ToShow(c) \in Seq(Item) /\ sent[c] \in Nat
    BY <1>3, <1>6
  <2> QED
    BY <1>4, <1>7, <2>1, FollowsLen
<1>9. sent[c] \in 1..sent[c] /\ sent[c] \notin 1..m
  BY <1>3, <1>6, <1>7, <1>8
<1>10. Promise!Shown(c) = 1..m
  BY <1>4, ShownOf
<1> QED
  BY <1>9, <1>10 DEF Promise!AllShown

LEMMA SimDown ==
  ASSUME IsFiniteSet(Conns), IInv, SharedInv, Unended, TableRight, [Next]_vars,
         LoopEnds \/ AcceptFails \/ DoubleFree \/ WriteFails
  PROVE  Promise!GoDown
<1>1. /\ Alive /\ ~Alive'
      /\ UNCHANGED <<fdt, backlog>> /\ UNCHANGED Around
  BY DEF LoopEnds, AcceptFails, DoubleFree, WriteFails, EndOfFile, FiredBridge, Fired,
         Visited, Stop, net, queues, user, Around, Alive
<1>2. connBar' = connBar
  BY <1>1, SameConn DEF Queued, Held, Around
<1>3. dealtBar' \in dealtBar..typed
  BY <1>1, LostAtMost
<1>4. \/ Mode = "listen" /\ ~EnoughFds
      \/ Promise!InputEnded
      \/ \E c \in Conns : Promise!Finished(c) \/ (~tty /\ ~Promise!AllShown(c))
  <2>1. CASE SomeEnd
    BY <2>1 DEF SomeEnd, Finished, Promise!InputEnded, Promise!Finished
  <2>2. CASE ~SomeEnd
    <3>1. NoneMarked /\ ~list_empty(sockets)
      BY <2>2 DEF Unended
    <3>2. ~EndOfFile /\ (WriteFails => Out = Stdin /\ ~tty)
      BY <2>2, <3>1, NothingEnds DEF SharedInv
    <3>3. CASE AcceptFails
      BY <3>3, AcceptSucceeds, OnlyServers
    <3>4. CASE WriteFails
      BY <3>2, <3>4, UnshownAtWrite DEF WriteFails
    <3> QED
      BY <3>1, <3>2, <3>3, <3>4 DEF LoopEnds, DoubleFree
  <2> QED
    BY <2>1, <2>2
<1> QED
  BY <1>1, <1>2, <1>3, <1>4, SameFixed DEF Promise!GoDown, Around

-----------------------------------------------------------------------------
(* Every behaviour is one of a session. *)

LEMMA SimInit ==
  ASSUME IsFiniteSet(Conns), Init
  PROVE  Promise!Init
<1>1. PICK first \in Fd : fdt[first] \in IF Mode = "client" THEN Conns ELSE {Listener}
  BY InitFdt
<1>2. ASSUME NEW c \in Conns
      PROVE  connBar[c] = IF Mode = "client" THEN "open" ELSE "idle"
  <2>1. peer[c] = IF Mode = "client" THEN "open" ELSE "none"
    BY DEF Init
  <2>2. CASE Mode = "client"
    <3>1. Cardinality(Conns) = 1
      BY <2>2, InteractiveAssumption
    <3>2. fdt[first] = c
      <4>1. PICK d : Conns = {d}
        BY <3>1, FS_Singleton
      <4> QED
        BY <1>1, <2>2, <4>1
    <3> QED
      BY <2>1, <2>2, <3>2 DEF connBar, Held
  <2>3. CASE Mode # "client"
    BY <2>1, <2>3 DEF connBar
  <2> QED
    BY <2>2, <2>3
<1>3. connBar \in [Conns -> {"idle", "open"}]
  <2>1. connBar = [c \in Conns |-> connBar[c]]
    BY DEF connBar
  <2> QED
    BY <1>2, <2>1
<1>4. peer = [c \in Conns |-> IF connBar[c] = "open" THEN "open" ELSE "none"]
  BY <1>2 DEF Init
<1>5. dealtBar = 0 /\ Alive = TRUE
  <2>1. /\ pc = "dump" \/ pc = "cleanup"
        /\ typed = 0 /\ stdin = <<>> /\ read_buffer = <<>> /\ console = <<>>
    BY DEF Init, PassStart
  <2>2. ToSend = <<>>
    BY <2>1, ConcatEmptySeq, EmptySeq DEF ToSend, InFlight
  <2>3. Len(ToSend) = 0
    BY <2>2, EmptySeq
  <2>4. dealtBar = 0
    BY <2>1, <2>3 DEF dealtBar
  <2>5. Alive = TRUE
    BY <2>1 DEF Alive
  <2> QED
    BY <2>4, <2>5
<1>6. /\ (platform = "linux") \in BOOLEAN /\ tty \in BOOLEAN
      /\ (Mode = "listen" /\ ~EnoughFds) \in BOOLEAN
  BY DEF Init
<1> HIDE DEF connBar, dealtBar
<1> QED
  BY <1>3, <1>4, <1>5, <1>6 DEF Init, Promise!Init

LEMMA Simulation ==
  ASSUME IsFiniteSet(Conns), IInv, SharedInv, Unended, TableRight, [Next]_vars
  PROVE  [Promise!Next]_(Promise!vars)
<1>1. CASE \/ DebugDump \/ RemoveMarked \/ EnterSelect \/ SelectReturns \/ SkipEntry
           \/ PassDone \/ SelectFails \/ BridgedRead \/ Thread \/ UNCHANGED vars
  BY <1>1, SimSilent
<1>2. CASE SocketAccept
  BY <1>2, SimAccept
<1>3. CASE WriteToSocket \/ WriteLost
  BY <1>3, SimDeal DEF Promise!Next
<1>4. CASE WriteToStdin
  BY <1>4, SimShow DEF Promise!Next
<1>5. CASE BridgedEof
  BY <1>5, SimEof DEF Promise!Next
<1>6. CASE LoopEnds \/ AcceptFails \/ DoubleFree \/ WriteFails
  BY <1>6, SimDown DEF Promise!Next
<1>7. CASE \E c \in Conns : ClientConnect(c) \/ PeerSend(c) \/ PeerFinish(c)
  BY <1>7, SimConnect, SimSend, SimFinish DEF Promise!Next
<1>8. CASE UserTypes \/ UserEnds
  BY <1>8, SimUser DEF Promise!Next
<1> QED
  BY <1>1, <1>2, <1>3, <1>4, <1>5, <1>6, <1>7, <1>8 DEF Next, Process, Environment

\* For any finite number of connections that share the standard input, on Linux
\* and on Windows, the program is a session: what is typed and what peers send
\* is dealt out and shown in order with nothing left out, a connection is
\* closed only after its own data or after all that was typed, whatever entries
\* socket_list_delete marks instead of its own, and the process stops only
\* after something ended, or where a server may run out of descriptors or
\* descriptor 0 cannot be written (vsockets_nc.c's handlers, the event loop
\* and the thread of sockets_common.c).
THEOREM Implements ==
  ASSUME IsFiniteSet(Conns)
  PROVE  Spec => ImplementsSession
<1>1. Init => Promise!Init
  BY SimInit
<1>2. Init => SharedInv /\ Unended /\ TableRight
  BY SharedInit, UnendedInit, TableRightInit
<1>3. IInv /\ SharedInv /\ Unended /\ TableRight /\ [Next]_vars
        => SharedInv' /\ Unended' /\ TableRight'
  BY SharedStep, UnendedStep, TableRightStep DEF SharedInv
<1>4. IInv /\ SharedInv /\ Unended /\ TableRight /\ [Next]_vars
        => [Promise!Next]_(Promise!vars)
  BY Simulation
<1> QED
  BY <1>1, <1>2, <1>3, <1>4, Invariance, PTL DEF Spec, ImplementsSession, Promise!Spec
=============================================================================
