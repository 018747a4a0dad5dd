-------------------------- MODULE TunnelRelayProofs --------------------------
(***************************************************************************)
(* What the process writes towards a peer is what the peer of the mate     *)
(* sent: chunks, partial writes and ends of tunnels never reorder,         *)
(* duplicate or cross streams, and drop items only where writes are cut    *)
(* short.  And the event loop implements Relay: every step of Tunnel is a  *)
(* step of the relay or changes nothing that a peer can see.               *)
(***************************************************************************)
EXTENDS TunnelRelay, TunnelStepProofs, FiniteSetTheorems

-----------------------------------------------------------------------------
(* Sequences of items. *)

LEMMA TakeDrop ==
  ASSUME NEW S, NEW s \in Seq(S), NEW n \in Nat, n <= Len(s)
  PROVE  Take(s, n) \o DropFirst(s, n) = s
BY Halves DEF Take, DropFirst

LEMMA Split ==
  ASSUME NEW S, NEW a \in Seq(S), NEW s \in Seq(S), NEW n \in Nat, n <= Len(s)
  PROVE  (a \o Take(s, n)) \o DropFirst(s, n) = a \o s
<1>1. ASSUME NEW t \in Seq(S), NEW d \in Seq(S), t \o d = s
      PROVE  (a \o t) \o d = a \o s
  <2>1. (a \o t) \o d = a \o (t \o d)
    BY ConcatAssociative
  <2> QED
    BY <1>1, <2>1
<1>2. Take(s, n) \in Seq(S) /\ DropFirst(s, n) \in Seq(S)
  BY SubSeqType
<1>3. Take(s, n) \o DropFirst(s, n) = s
  BY TakeDrop
<1> QED
  BY <1>1, <1>2, <1>3

\* Moving the front of what is unread to the empty buffer.
LEMMA RegroupRead ==
  ASSUME NEW S, NEW a \in Seq(S), NEW c \in Seq(S), NEW n \in Nat, n <= Len(c)
  PROVE  (a \o Take(c, n)) \o DropFirst(c, n) = (a \o <<>>) \o c
<1>1. a \o <<>> = a
  BY ConcatEmptySeq
<1>2. (a \o Take(c, n)) \o DropFirst(c, n) = a \o c
  BY Split
<1> QED
  BY <1>1, <1>2

LEMMA Streams ==
  ASSUME NEW e \in End, NEW n \in 0..MaxSend
  PROVE  /\ Stream(e, n) \in Seq(Item) /\ Len(Stream(e, n)) = n
         /\ \A k \in 1..n : Stream(e, n)[k] = <<e, k>>
<1>1. n \in Nat /\ n <= MaxSend
  BY NumbersAssumption
<1>2. Stream(e, n) \in [1..n -> Item]
  BY <1>1, NumbersAssumption DEF Stream, Item
<1>3. Stream(e, n) \in Seq(Item) /\ Len(Stream(e, n)) = n
  BY <1>1, <1>2
<1> QED
  BY <1>3 DEF Stream

LEMMA StreamAppend ==
  ASSUME NEW e \in End, NEW n \in 0..MaxSend, n < MaxSend
  PROVE  Append(Stream(e, n), <<e, n + 1>>) = Stream(e, n + 1)
<1> DEFINE s == Stream(e, n)
           t == Stream(e, n + 1)
           x == <<e, n + 1>>
<1>1. n \in Nat /\ n + 1 \in 0..MaxSend /\ x \in Item
  BY NumbersAssumption DEF Item
<1>2. /\ s \in Seq(Item) /\ Len(s) = n /\ \A k \in 1..n : s[k] = <<e, k>>
      /\ t \in Seq(Item) /\ Len(t) = n + 1 /\ \A k \in 1..(n + 1) : t[k] = <<e, k>>
  BY <1>1, Streams
<1> HIDE DEF s, t
<1>3. /\ Append(s, x) \in Seq(Item) /\ Len(Append(s, x)) = n + 1
      /\ \A k \in 1..n : Append(s, x)[k] = s[k]
      /\ Append(s, x)[n + 1] = x
  BY <1>1, <1>2, AppendProperties
<1>4. ASSUME NEW k \in 1..(n + 1)
      PROVE  Append(s, x)[k] = t[k]
  <2>1. CASE k \in 1..n
    BY <1>1, <1>2, <1>3, <2>1
  <2>2. CASE k = n + 1
    BY <1>1, <1>2, <1>3, <2>2
  <2>3. k \in 1..n \/ k = n + 1
    BY <1>1
  <2> QED
    BY <2>1, <2>2, <2>3
<1>5. Append(s, x) = t
  BY <1>2, <1>3, <1>4, SeqEqual
<1> QED
  BY <1>5 DEF s, t

LEMMA StreamPrefix ==
  ASSUME NEW e \in End, NEW n \in 0..MaxSend,
         NEW w \in Seq(Item), NEW r \in Seq(Item), w \o r = Stream(e, n)
  PROVE  Len(w) <= n /\ w = Stream(e, Len(w))
<1>1. Len(w) \in Nat /\ Len(r) \in Nat /\ n \in Nat
  BY LenProperties, NumbersAssumption
<1>2. /\ Len(w \o r) = Len(w) + Len(r)
      /\ \A i \in 1..Len(w) : (w \o r)[i] = w[i]
  BY <1>1, ConcatProperties
<1>3. Len(w) <= n /\ \A i \in 1..Len(w) : w[i] = <<e, i>>
  BY <1>1, <1>2, Streams
<1>4. Len(w) \in 0..MaxSend
  BY <1>1, <1>3, NumbersAssumption
<1>5. /\ Stream(e, Len(w)) \in Seq(Item)
      /\ Len(Stream(e, Len(w))) = Len(w)
      /\ \A i \in 1..Len(w) : Stream(e, Len(w))[i] = w[i]
  BY <1>3, <1>4, Streams
<1>6. w = Stream(e, Len(w))
  BY <1>5, SeqEqual
<1> QED
  BY <1>3, <1>6

-----------------------------------------------------------------------------
(* What the steps do to the items of an end that have reached the process. *)

LEMMA WholeTypes ==
  ASSUME IInv, NEW e \in End
  PROVE  /\ wrote[Mate(e)] \in Seq(Item) /\ InFlight(e) \in Seq(Item)
         /\ rx[e] \in Seq(Item) /\ sent[e] \in 0..MaxSend
         /\ wrote[Mate(e)] \o InFlight(e) \in Seq(Item)
         /\ Whole(e) \in Seq(Item)
<1>1. /\ wrote[Mate(e)] \in Seq(Item) /\ InFlight(e) \in Seq(Item)
      /\ rx[e] \in Seq(Item) /\ sent[e] \in 0..MaxSend
  BY Mates, EmptySeq DEF IInv, TypeOK, InFlight
<1> QED
  BY <1>1, ConcatProperties DEF Whole

\* Steps outside read and write, and the peers' other than sending.
QuietStep ==
  \/ RemoveMarked \/ SocketAccept \/ TryConnectionOk \/ TryConnectionRefused
  \/ EnterSelect \/ SelectReturns \/ SelectFails \/ SkipEntry \/ PassDone
  \/ AcceptFails \/ TryConnectionExits \/ StaleHandler
  \/ (\E c \in Conns : ClientConnect(c))
  \/ (\E e \in End : PeerShutdown(e) \/ PeerClose(e) \/ PeerRead(e))
  \/ UNCHANGED vars

LEMMA WholeQuiet ==
  ASSUME IInv, QuietStep, NEW e \in End
  PROVE  Whole(e)' = Whole(e) /\ wrote' = wrote /\ rx' = rx /\ sent' = sent
<1>1. wrote' = wrote /\ rx' = rx /\ sent' = sent
  BY DEF QuietStep, RemoveMarked, SocketAccept, TryConnectionOk,
         TryConnectionRefused, EnterSelect, SelectReturns, SelectFails,
         SkipEntry, PassDone, AcceptFails, TryConnectionExits, StaleHandler,
         ClientConnect, PeerShutdown, PeerClose, PeerRead, Stop, vars, kernel, remote
<1>2. \/ pc # "write" /\ pc' # "write"
      \/ UNCHANGED <<sockets, pos, pc, buffer, fdt>>
  BY DEF QuietStep, RemoveMarked, SocketAccept, TryConnectionOk,
         TryConnectionRefused, EnterSelect, SelectReturns, SelectFails,
         SkipEntry, PassDone, AcceptFails, TryConnectionExits, StaleHandler,
         ClientConnect, PeerShutdown, PeerClose, PeerRead, Stop, vars, local,
         kernel, Fired, Visited, Continue, ReturnToLoop
<1>3. InFlight(e)' = InFlight(e)
  BY <1>2 DEF InFlight, SocketIn, Entry
<1> QED
  BY <1>1, <1>3 DEF Whole

LEMMA WholeSend ==
  ASSUME IInv, NEW e \in End, NEW s \in End, PeerSend(s)
  PROVE  IF e = s THEN /\ Whole(e)' = Append(Whole(e), <<e, sent[e] + 1>>)
                       /\ rx'[e] = Append(rx[e], <<e, sent[e] + 1>>)
                       /\ sent'[e] = sent[e] + 1 /\ sent[e] < MaxSend
                       /\ <<e, sent[e] + 1>> \in Item
                  ELSE Whole(e)' = Whole(e) /\ sent'[e] = sent[e] /\ rx'[e] = rx[e]
<1>1. /\ UNCHANGED local /\ fdt' = fdt /\ wrote' = wrote
      /\ rx' = [rx EXCEPT ![s] = Append(@, <<s, sent[s] + 1>>)]
      /\ sent' = [sent EXCEPT ![s] = @ + 1] /\ sent[s] < MaxSend
  BY DEF PeerSend
<1>2. InFlight(e)' = InFlight(e)
  BY <1>1 DEF InFlight, SocketIn, Entry, local
<1>3. CASE e = s
  <2>1. rx'[e] = Append(rx[e], <<e, sent[e] + 1>>) /\ sent'[e] = sent[e] + 1
    BY <1>1, <1>3 DEF IInv, TypeOK
  <2>2. <<e, sent[e] + 1>> \in Item
    <3>1. sent[e] \in 0..MaxSend
      BY DEF IInv, TypeOK
    <3>2. sent[e] + 1 \in 1..MaxSend
      BY <1>1, <1>3, <3>1, NumbersAssumption
    <3> QED
      BY <3>2 DEF Item
  <2>3. Whole(e)' = Append(Whole(e), <<e, sent[e] + 1>>)
    <3> DEFINE w == wrote[Mate(e)] \o InFlight(e)
    <3>1. w \in Seq(Item) /\ rx[e] \in Seq(Item)
      BY WholeTypes
    <3>2. w' = w
      BY <1>1, <1>2
    <3> HIDE DEF w
    <3>3. w \o Append(rx[e], <<e, sent[e] + 1>>) = Append(w \o rx[e], <<e, sent[e] + 1>>)
      BY <2>2, <3>1, AppendLast
    <3>4. Whole(e) = w \o rx[e] /\ Whole(e)' = w' \o rx'[e]
      BY DEF Whole, w
    <3> QED
      BY <2>1, <3>2, <3>3, <3>4
  <2> QED
    BY <1>1, <1>3, <2>1, <2>2, <2>3
<1>4. CASE e # s
  BY <1>1, <1>2, <1>4 DEF Whole, IInv, TypeOK
<1> QED
  BY <1>3, <1>4

LEMMA WholeRead ==
  ASSUME IInv, BridgedRead, NEW e \in End
  PROVE  /\ Whole(e)' = Whole(e) /\ UNCHANGED <<fdt, wrote, remote>>
         /\ (~Held(e) => rx'[e] = rx[e])
         /\ Alive /\ Alive'
<1> DEFINE n == MinOf(BufSize, Len(rx[SocketIn]))
<1>1. SocketIn \in End /\ Entry.socket \in Fd
  BY FiredEnd DEF BridgedRead
<1>2. /\ pc = "handle" /\ pc' = "write" /\ UNCHANGED <<sockets, pos, fdt, wrote, remote>>
      /\ buffer' = Take(rx[SocketIn], n)
      /\ rx' = [rx EXCEPT ![SocketIn] = DropFirst(rx[SocketIn], n)]
  BY DEF BridgedRead, FiredBridge, Fired, Visited
<1>3. rx[SocketIn] \in Seq(Item) /\ Len(rx[SocketIn]) \in Nat
  BY <1>1, LenProperties DEF IInv, TypeOK
<1>4. n \in Nat /\ n <= Len(rx[SocketIn])
  BY <1>3, NumbersAssumption DEF MinOf
<1> HIDE DEF n
<1>5. SocketIn' = SocketIn
  BY <1>2 DEF SocketIn, Entry
<1>6. CASE e = SocketIn
  <2>1. InFlight(e) = <<>> /\ InFlight(e)' = Take(rx[e], n)
        /\ rx'[e] = DropFirst(rx[e], n)
    BY <1>1, <1>2, <1>5, <1>6 DEF InFlight, IInv, TypeOK
  <2>2. wrote[Mate(e)] \in Seq(Item)
    BY WholeTypes
  <2>3. (wrote[Mate(e)] \o Take(rx[e], n)) \o DropFirst(rx[e], n)
          = (wrote[Mate(e)] \o <<>>) \o rx[e]
    BY <1>3, <1>4, <1>6, <2>2, RegroupRead
  <2>4. Whole(e)' = Whole(e)
    BY <1>2, <2>1, <2>3 DEF Whole
  <2>5. Held(e)
    BY <1>1, <1>6 DEF Held, SocketIn
  <2> QED
    BY <1>2, <2>4, <2>5 DEF Alive
<1>7. CASE e # SocketIn
  <2>1. InFlight(e) = <<>> /\ InFlight(e)' = <<>>
    BY <1>2, <1>5, <1>7 DEF InFlight
  <2>2. rx'[e] = rx[e]
    BY <1>2, <1>7 DEF IInv, TypeOK
  <2> QED
    BY <1>2, <2>1, <2>2 DEF Whole, Alive
<1> QED
  BY <1>6, <1>7

LEMMA WholeWrite ==
  ASSUME IInv, BridgedWrite, NEW e \in End
  PROVE  /\ Whole(e)' = Whole(e) /\ UNCHANGED <<fdt, rx, remote>>
         /\ SocketIn \in End /\ Held(SocketIn) /\ Alive /\ Alive'
         /\ peer[Mate(SocketIn)] # "gone"
         /\ e # SocketIn => wrote'[Mate(e)] = wrote[Mate(e)]
<1> DEFINE n == MinOf(Room, Len(buffer))
<1>1. SocketIn \in End /\ SocketOut = Mate(SocketIn) /\ Entry.socket \in Fd
  BY FiredEnd DEF BridgedWrite
<1>2. /\ pc = "write" /\ UNCHANGED <<sockets, fdt, rx, remote>>
      /\ peer[SocketOut] \in {"open", "fin"}
      /\ buffer' = DropFirst(buffer, n)
      /\ wrote' = [wrote EXCEPT ![SocketOut] = wrote[SocketOut] \o Take(buffer, n)]
      /\ \/ n = Len(buffer) /\ pc' = "handle"
         \/ pc' = "write" /\ pos' = pos
  BY DEF BridgedWrite, Continue
<1>3. /\ buffer \in Seq(Item) /\ Len(buffer) \in Nat
      /\ Len(wrote[SocketOut]) \in Nat /\ nread[SocketOut] \in Nat
  BY <1>1, Mates, LenProperties DEF IInv, TypeOK
<1>4. n \in Nat /\ n <= Len(buffer)
  BY <1>3, NumbersAssumption DEF MinOf, Room, BridgedWrite
<1> HIDE DEF n
<1>5. Held(SocketIn) /\ Alive /\ Alive' /\ peer[Mate(SocketIn)] # "gone"
  BY <1>1, <1>2 DEF Held, SocketIn, Alive
<1>6. CASE e = SocketIn
  <2>1. InFlight(e) = buffer
    BY <1>2, <1>6 DEF InFlight
  <2>2. InFlight(e)' = DropFirst(buffer, n)
    <3>1. CASE n = Len(buffer) /\ pc' = "handle"
      <4>1. DropFirst(buffer, n) = <<>>
        BY <1>3, <3>1, SubSeqEmpty DEF DropFirst
      <4> QED
        BY <3>1, <4>1 DEF InFlight
    <3>2. CASE pc' = "write" /\ pos' = pos
      BY <1>2, <1>6, <3>2 DEF InFlight, SocketIn, Entry
    <3> QED
      BY <1>2, <3>1, <3>2
  <2>3. wrote'[Mate(e)] = wrote[Mate(e)] \o Take(buffer, n)
    BY <1>1, <1>2, <1>6, Mates DEF IInv, TypeOK
  <2>4. wrote[Mate(e)] \in Seq(Item) /\ rx[e] \in Seq(Item)
    BY WholeTypes
  <2>5. ((wrote[Mate(e)] \o Take(buffer, n)) \o DropFirst(buffer, n)) \o rx[e]
          = (wrote[Mate(e)] \o buffer) \o rx[e]
    <3>1. (wrote[Mate(e)] \o Take(buffer, n)) \o DropFirst(buffer, n)
            = wrote[Mate(e)] \o buffer
      BY <1>3, <1>4, <2>4, Split
    <3> QED
      BY <3>1
  <2>6. Whole(e)' = Whole(e)
    BY <1>2, <2>1, <2>2, <2>3, <2>5 DEF Whole
  <2> QED
    BY <1>1, <1>2, <1>5, <1>6, <2>6
<1>7. CASE e # SocketIn
  <2>1. Mate(e) # SocketOut
    BY <1>1, <1>7, Mates
  <2>2. wrote'[Mate(e)] = wrote[Mate(e)]
    BY <1>2, <2>1, Mates DEF IInv, TypeOK
  <2>3. InFlight(e) = <<>> /\ InFlight(e)' = <<>>
    BY <1>2, <1>7 DEF InFlight, SocketIn, Entry
  <2> QED
    BY <1>1, <1>2, <1>5, <2>2, <2>3 DEF Whole
<1> QED
  BY <1>6, <1>7

\* A write cut short, or one that the peer's end made fail.
LEMMA WholeLoses ==
  ASSUME IInv, BridgedWriteLoses \/ BridgedWriteFails, NEW e \in End
  PROVE  /\ UNCHANGED <<fdt, backlog, wrote, rx, remote>>
         /\ SocketIn \in End /\ SocketOut = Mate(SocketIn)
         /\ Whole(e)' = IF e = SocketIn THEN wrote[Mate(e)] \o <<>> \o rx[e] ELSE Whole(e)
<1>1. /\ pc = "write" /\ pc' # "write" /\ UNCHANGED <<fdt, backlog, wrote, rx, remote>>
  BY DEF BridgedWriteLoses, BridgedWriteFails, Stop, Continue, kernel
<1>2. SocketIn \in End /\ SocketOut = Mate(SocketIn)
  BY <1>1, FiredEnd
<1>3. InFlight(e)' = <<>> /\ (e # SocketIn => InFlight(e) = <<>>)
  BY <1>1 DEF InFlight
<1> QED
  BY <1>1, <1>2, <1>3 DEF Whole

LEMMA WholeEof ==
  ASSUME IInv, BridgedEof, NEW e \in End
  PROVE  /\ UNCHANGED <<backlog, wrote, remote>> /\ Alive /\ Alive'
         /\ Held(e)' => Held(e)
         /\ \/ Whole(e)' = Whole(e) /\ rx'[e] = rx[e]
            \/ /\ Whole(e)' = wrote[Mate(e)] \o <<>> \o <<>> /\ rx'[e] = <<>>
               /\ Held(e) /\ ~Held(e)'
<1> DEFINE s == Entry.socket
           o == Entry.context
<1>1. /\ pc = "handle" /\ pc' = "handle" /\ UNCHANGED <<backlog, wrote, remote>>
      /\ fdt' = Closed(fdt, {s, o}) /\ rx' = Dropped({s, o})
  BY DEF BridgedEof, FiredBridge, Fired, Visited, Continue
<1>2. s \in Fd /\ o \in Fd
  BY FiredEnd DEF BridgedEof
<1> HIDE DEF s, o
<1>3. InFlight(e) = <<>> /\ InFlight(e)' = <<>>
  BY <1>1 DEF InFlight
<1>4. Held(e)' => Held(e)
  BY <1>1, Descriptors DEF Held, Closed
<1>5. CASE \E f \in {s, o} : fdt[f] = e
  <2>1. rx'[e] = <<>> /\ Held(e)
    BY <1>1, <1>2, <1>5 DEF Dropped, Held
  <2>2. ~Held(e)'
    BY <1>1, <1>2, <1>5, Descriptors DEF Held, Closed, IInv, OneFdPerEnd
  <2> QED
    BY <1>1, <1>3, <1>4, <2>1, <2>2 DEF Whole, Alive
<1>6. CASE ~\E f \in {s, o} : fdt[f] = e
  <2>1. rx'[e] = rx[e]
    BY <1>1, <1>6 DEF Dropped
  <2> QED
    BY <1>1, <1>3, <1>4, <2>1 DEF Whole, Alive
<1> QED
  BY <1>5, <1>6

LEMMA ProcessSteps ==
  ASSUME [Next]_vars
  PROVE  \/ QuietStep \/ BridgedRead \/ BridgedWrite
         \/ BridgedWriteLoses \/ BridgedWriteFails \/ BridgedEof
         \/ \E e \in End : PeerSend(e)
BY DEF Next, Process, Peers, QuietStep

-----------------------------------------------------------------------------
(* Items are never reordered, duplicated or crossed. *)

LEMMA OrderedAppend ==
  ASSUME NEW e \in End, NEW n \in 0..MaxSend, n < MaxSend,
         NEW s \in Seq(Item), OrderedUpTo(s, e, n)
  PROVE  OrderedUpTo(Append(s, <<e, n + 1>>), e, n + 1)
<1> DEFINE x == <<e, n + 1>>
           t == Append(s, x)
<1>1. n \in Nat /\ x[1] = e /\ x[2] = n + 1 /\ Len(s) \in Nat
      /\ \A i \in 1..Len(s) : s[i][2] \in Nat
  BY LenProperties, ElementOfSeq, NumbersAssumption DEF Item
<1>2. n + 1 \in 1..MaxSend
  BY <1>1, NumbersAssumption
<1>3. x \in Item
  BY <1>2 DEF Item
<1> HIDE DEF x
<1>4. /\ Len(t) = Len(s) + 1 /\ t[Len(s) + 1] = x
      /\ \A i \in 1..Len(s) : t[i] = s[i]
  BY <1>3, AppendProperties
<1> HIDE DEF t
<1>5. \A i \in 1..Len(t) : i \in 1..Len(s) \/ i = Len(s) + 1
  BY <1>1, <1>4
<1>6. \A i \in 1..Len(s) : s[i][1] = e /\ s[i][2] <= n
  BY DEF OrderedUpTo
<1>7. \A i, j \in 1..Len(s) : i < j => s[i][2] < s[j][2]
  BY DEF OrderedUpTo
<1>8. \A i \in 1..Len(t) : t[i][1] = e /\ t[i][2] <= n + 1
  BY <1>1, <1>4, <1>5, <1>6
<1>9. ASSUME NEW i \in 1..Len(t), NEW j \in 1..Len(t), i < j
      PROVE  t[i][2] < t[j][2]
  <2>1. i \in 1..Len(s)
    BY <1>1, <1>4, <1>9
  <2>2. CASE j \in 1..Len(s)
    BY <1>4, <1>7, <1>9, <2>1, <2>2
  <2>3. CASE j = Len(s) + 1
    BY <1>1, <1>4, <1>6, <2>1, <2>3
  <2> QED
    BY <1>5, <2>2, <2>3
<1>10. OrderedUpTo(t, e, n + 1)
  BY <1>8, <1>9 DEF OrderedUpTo
<1> QED
  BY <1>10 DEF t, x

LEMMA OrderedFront ==
  ASSUME NEW e, NEW n, NEW s \in Seq(Item), NEW t \in Seq(Item),
         OrderedUpTo(s \o t, e, n)
  PROVE  OrderedUpTo(s, e, n)
<1>1. /\ Len(s) \in Nat /\ Len(t) \in Nat
      /\ Len(s \o t) = Len(s) + Len(t)
      /\ \A i \in 1..Len(s) : (s \o t)[i] = s[i]
  BY ConcatProperties, LenProperties
<1>2. \A i \in 1..Len(s) : i \in 1..Len(s \o t)
  BY <1>1
<1> QED
  BY <1>1, <1>2 DEF OrderedUpTo

LEMMA OrderedMiddle ==
  ASSUME NEW e, NEW n, NEW s \in Seq(Item), NEW m \in Seq(Item),
         NEW t \in Seq(Item), OrderedUpTo(s \o m \o t, e, n)
  PROVE  OrderedUpTo(s \o t, e, n)
<1> DEFINE u == s \o m \o t
           v == s \o t
           d(i) == IF i <= Len(s) THEN i ELSE i + Len(m)
<1>1. Len(s) \in Nat /\ Len(m) \in Nat /\ Len(t) \in Nat
  BY LenProperties
<1>2. s \o m \in Seq(Item) /\ Len(s \o m) = Len(s) + Len(m)
      /\ \A i \in 1..Len(s) : (s \o m)[i] = s[i]
  BY <1>1, ConcatProperties
<1>3. /\ Len(u) = Len(s) + Len(m) + Len(t)
      /\ \A i \in 1..(Len(s) + Len(m) + Len(t)) :
           u[i] = IF i <= Len(s) + Len(m) THEN (s \o m)[i] ELSE t[i - (Len(s) + Len(m))]
  BY <1>1, <1>2, ConcatProperties
<1>4. /\ Len(v) = Len(s) + Len(t)
      /\ \A i \in 1..(Len(s) + Len(t)) :
           v[i] = IF i <= Len(s) THEN s[i] ELSE t[i - Len(s)]
  BY <1>1, ConcatProperties
<1> HIDE DEF u, v
<1>5. ASSUME NEW i \in 1..Len(v)
      PROVE  d(i) \in 1..Len(u) /\ v[i] = u[d(i)]
  <2>1. CASE i <= Len(s)
    BY <1>1, <1>2, <1>3, <1>4, <2>1
  <2>2. CASE ~(i <= Len(s))
    <3>1. /\ i + Len(m) \in 1..(Len(s) + Len(m) + Len(t))
          /\ ~(i + Len(m) <= Len(s) + Len(m))
          /\ (i + Len(m)) - (Len(s) + Len(m)) = i - Len(s)
      BY <1>1, <1>4, <2>2
    <3>2. u[i + Len(m)] = t[i - Len(s)] /\ v[i] = t[i - Len(s)]
      BY <1>1, <1>3, <1>4, <2>2, <3>1
    <3> QED
      BY <1>3, <2>2, <3>1, <3>2
  <2> QED
    BY <2>1, <2>2
<1>6. \A i, j \in 1..Len(v) : i < j => d(i) < d(j)
  BY <1>1, <1>4
<1> HIDE DEF d
<1>7. OrderedUpTo(u, e, n)
  BY DEF u
<1>8. OrderedUpTo(v, e, n)
  BY <1>5, <1>6, <1>7 DEF OrderedUpTo
<1> QED
  BY <1>8 DEF v

\* What is written together with any part of the rest is in order.
LEMMA OrderedParts ==
  ASSUME IInv, InOrder, NEW e \in End
  PROVE  /\ OrderedUpTo(wrote[Mate(e)], e, sent[e])
         /\ OrderedUpTo(wrote[Mate(e)] \o <<>> \o rx[e], e, sent[e])
         /\ OrderedUpTo(wrote[Mate(e)] \o <<>> \o <<>>, e, sent[e])
<1> DEFINE w == wrote[Mate(e)]
<1>1. /\ w \in Seq(Item) /\ InFlight(e) \in Seq(Item) /\ rx[e] \in Seq(Item)
      /\ w \o InFlight(e) \in Seq(Item)
      /\ OrderedUpTo(w \o InFlight(e) \o rx[e], e, sent[e])
  BY WholeTypes DEF InOrder, Whole
<1> HIDE DEF w
<1>2. OrderedUpTo(w \o InFlight(e), e, sent[e])
  BY <1>1, OrderedFront
<1>3. OrderedUpTo(w, e, sent[e])
  BY <1>1, <1>2, OrderedFront
<1>4. OrderedUpTo(w \o rx[e], e, sent[e])
  BY <1>1, OrderedMiddle
<1>5. w \o <<>> = w
  BY <1>1, ConcatEmptySeq
<1> QED
  BY <1>3, <1>4, <1>5 DEF w

LEMMA InOrderStep == ASSUME IInv, InOrder, [Next]_vars PROVE InOrder'
<1> SUFFICES ASSUME NEW e \in End
             PROVE  OrderedUpTo(Whole(e), e, sent[e])'
  BY DEF InOrder
<1>0. OrderedUpTo(Whole(e), e, sent[e])
  BY DEF InOrder
<1>1. CASE QuietStep
  BY <1>0, <1>1, WholeQuiet DEF OrderedUpTo
<1>2. CASE BridgedRead
  BY <1>0, <1>2, WholeRead DEF OrderedUpTo, remote
<1>3. CASE BridgedWrite
  BY <1>0, <1>3, WholeWrite DEF OrderedUpTo, remote
<1>4. CASE BridgedWriteLoses \/ BridgedWriteFails
  <2>1. sent' = sent
        /\ Whole(e)' = IF e = SocketIn THEN wrote[Mate(e)] \o <<>> \o rx[e] ELSE Whole(e)
    BY <1>4, WholeLoses DEF remote
  <2> QED
    BY <1>0, <2>1, OrderedParts DEF OrderedUpTo
<1>5. CASE BridgedEof
  <2>1. sent' = sent
        /\ Whole(e)' \in {Whole(e), wrote[Mate(e)] \o <<>> \o <<>>}
    BY <1>5, WholeEof DEF remote
  <2> QED
    BY <1>0, <2>1, OrderedParts DEF OrderedUpTo
<1>6. ASSUME NEW s \in End, PeerSend(s)
      PROVE  OrderedUpTo(Whole(e), e, sent[e])'
  <2>1. CASE e = s
    <3>1. /\ Whole(e)' = Append(Whole(e), <<e, sent[e] + 1>>)
          /\ sent'[e] = sent[e] + 1 /\ sent[e] < MaxSend
      BY <1>6, <2>1, WholeSend
    <3>2. OrderedUpTo(Append(Whole(e), <<e, sent[e] + 1>>), e, sent[e] + 1)
      BY <1>0, <3>1, WholeTypes, OrderedAppend
    <3> QED
      BY <3>1, <3>2 DEF OrderedUpTo
  <2>2. CASE e # s
    BY <1>0, <1>6, <2>2, WholeSend DEF OrderedUpTo
  <2> QED
    BY <2>1, <2>2
<1> QED
  BY <1>1, <1>2, <1>3, <1>4, <1>5, <1>6, ProcessSteps

\* Whatever happens to a tunnel (partial writes, signals, closed peers,
\* descriptors reused), what is written towards a peer comes from the mate's
\* peer, in the order in which it was sent and nothing twice
\* (bridged_socket_event_handler).
THEOREM AlwaysOrdered == Spec => []StreamOrdered
<1>1. Init => InOrder
  <2> SUFFICES ASSUME Init, NEW e \in End
               PROVE  OrderedUpTo(Whole(e), e, sent[e])
    BY DEF InOrder
  <2>1. Whole(e) = <<>> \o <<>> \o <<>>
    BY Mates DEF Init, Whole, InFlight
  <2>2. Len(Whole(e)) = 0
    BY <2>1, EmptySeq, ConcatEmptySeq
  <2> QED
    BY <2>2 DEF OrderedUpTo
<1>2. IInv /\ InOrder /\ [Next]_vars => InOrder'
  BY InOrderStep
<1>3. IInv /\ InOrder => StreamOrdered
  <2> SUFFICES ASSUME IInv, InOrder, NEW e \in End
               PROVE  /\ \A i \in DOMAIN wrote[e] : wrote[e][i][1] = Mate(e)
                      /\ \A i, j \in DOMAIN wrote[e] :
                           i < j => wrote[e][i][2] < wrote[e][j][2]
    BY DEF StreamOrdered
  <2>1. Mate(e) \in End /\ Mate(Mate(e)) = e
    BY Mates
  <2>2. OrderedUpTo(wrote[e], Mate(e), sent[Mate(e)])
    BY <2>1, OrderedParts
  <2>3. DOMAIN wrote[e] = 1..Len(wrote[e])
    BY LenProperties DEF IInv, TypeOK
  <2> QED
    BY <2>2, <2>3 DEF OrderedUpTo
<1> QED
  BY <1>1, <1>2, <1>3, Invariance, PTL DEF Spec

-----------------------------------------------------------------------------
(* Nothing is missing either, unless a signal cuts a write short or the     *)
(* reader is gone.                                                           *)

\* Where the ends held after a step come from.
LEMMA Arrivals ==
  ASSUME IInv, [Next]_vars
  PROVE  /\ Alive' => Alive
         /\ \A e \in End : peer'[e] = "none" => peer[e] = "none"
         /\ \A e \in End : peer[e] = "gone" => peer'[e] = "gone"
         /\ \A c \in Conns : Queued(c)' => Queued(c) \/ peer[<<c, "in">>] = "none"
         /\ \A e \in End : Held(e)' =>
              \/ Held(e)
              \/ e[2] = "in" /\ Queued(e[1])
              \/ peer[e] = "none" /\ peer'[e] = "open"
<1>1. CASE \E c \in Conns : ClientConnect(c)
  <2>1. PICK c \in Conns : ClientConnect(c)
    BY <1>1
  <2>2. /\ UNCHANGED local /\ fdt' = fdt /\ backlog' = Append(backlog, c)
        /\ peer' = [peer EXCEPT ![<<c, "in">>] = "open"]
        /\ peer[<<c, "in">>] = "none" /\ <<c, "in">> \in End
    BY <2>1 DEF ClientConnect, End
  <2>3. \A d \in Conns : Queued(d)' => Queued(d) \/ d = c
    <3>1. backlog \in Seq(Conns)
      BY DEF IInv, TypeOK
    <3>2. /\ Len(backlog') = Len(backlog) + 1 /\ backlog'[Len(backlog) + 1] = c
          /\ \A i \in 1..Len(backlog) : backlog'[i] = backlog[i]
          /\ DOMAIN backlog' = 1..Len(backlog') /\ DOMAIN backlog = 1..Len(backlog)
          /\ Len(backlog) \in Nat
      BY <2>2, <3>1, AppendProperties, LenProperties
    <3>3. \A i \in 1..(Len(backlog) + 1) : i \in 1..Len(backlog) \/ i = Len(backlog) + 1
      BY <3>2
    <3> QED
      BY <3>2, <3>3 DEF Queued
  <2> QED
    BY <2>2, <2>3 DEF local, Alive, Held, IInv, TypeOK
<1>2. CASE SocketAccept
  <2>1. PICK f \in LowestFree(fdt) : fdt' = [fdt EXCEPT ![f] = <<Head(backlog), "in">>]
    BY <1>2 DEF SocketAccept
  <2>2. /\ backlog # <<>> /\ backlog' = Tail(backlog) /\ backlog \in Seq(Conns)
        /\ peer' = peer /\ pc = "handle"
    BY <1>2 DEF SocketAccept, remote, IInv, TypeOK, Fired, Visited
  <2>3. /\ Len(backlog) \in Nat /\ Len(backlog) > 0
        /\ DOMAIN backlog = 1..Len(backlog) /\ DOMAIN backlog' = 1..Len(backlog')
        /\ Len(backlog') = Len(backlog) - 1
        /\ \A i \in 1..Len(backlog') : backlog'[i] = backlog[i + 1]
        /\ Head(backlog) = backlog[1]
    BY <2>2, HeadTailProperties, LenProperties, EmptySeq
  <2>4. \A c : Queued(c)' => Queued(c)
    <3> SUFFICES ASSUME NEW c, NEW i \in 1..Len(backlog'), backlog'[i] = c
                 PROVE  Queued(c)
      BY <2>3 DEF Queued
    <3>1. i + 1 \in 1..Len(backlog) /\ backlog[i + 1] = c
      BY <2>3
    <3> QED
      BY <2>3, <3>1 DEF Queued
  <2>5. Queued(Head(backlog))
    BY <2>3 DEF Queued
  <2>6. \A e \in End : Held(e)' => Held(e) \/ e = <<Head(backlog), "in">>
    BY <2>1 DEF Held, IInv, TypeOK, LowestFree
  <2> QED
    BY <2>2, <2>4, <2>5, <2>6 DEF Alive
<1>3. CASE TryConnectionOk
  <2>1. PICK c \in Conns : fdt[new_sock] = <<c, "in">> /\ RemoteUnseen(c)
    BY <1>3 DEF TryConnectionOk, IInv, Connecting
  <2>2. /\ RemoteEnd = <<c, "out">> /\ RemoteEnd \in End /\ peer[RemoteEnd] = "none"
    BY <2>1 DEF RemoteEnd, ClientEnd, Mate, End, RemoteUnseen
  <2>3. /\ pc = "connect" /\ backlog' = backlog
        /\ peer' = [peer EXCEPT ![RemoteEnd] = "open"]
    BY <1>3 DEF TryConnectionOk
  <2>4. PICK t \in VMCISock_GetAFValue(fdt) : \E f \in LowestFree(t) :
          fdt' = [t EXCEPT ![f] = RemoteEnd]
    BY <1>3 DEF TryConnectionOk
  <2>5. PICK f \in LowestFree(t) : fdt' = [t EXCEPT ![f] = RemoteEnd]
    BY <2>4
  <2>6. \A g \in Fd, e \in End : fdt'[g] = e => fdt[g] = e \/ e = RemoteEnd
    BY <2>4, <2>5, LeakInv
  <2> QED
    BY <2>2, <2>3, <2>6 DEF Held, Queued, Alive, IInv, TypeOK
<1>4. CASE TryConnectionRefused
  <2>1. \A g \in Fd, e \in End : fdt'[g] = e <=> fdt[g] = e
    BY <1>4, LeakInv DEF TryConnectionRefused
  <2> QED
    BY <1>4, <2>1 DEF TryConnectionRefused, Held, Queued, Alive, remote
<1>5. CASE BridgedEof
  <2>1. backlog' = backlog /\ peer' = peer /\ Alive
    BY <1>5 DEF BridgedEof, FiredBridge, Fired, Visited, Alive, remote
  <2>2. \A e \in End : Held(e)' => Held(e)
    BY <1>5, WholeEof
  <2> QED
    BY <2>1, <2>2 DEF Queued
<1>6. CASE LoopStep \/ RemoveMarked
  <2>1. UNCHANGED <<fdt, backlog, peer>> /\ (Alive' => Alive)
    BY <1>6 DEF LoopStep, RemoveMarked, EnterSelect, SelectReturns, SelectFails,
         SkipEntry, PassDone, AcceptFails, TryConnectionExits, StaleHandler,
         BridgedRead, BridgedWrite, BridgedWriteLoses, BridgedWriteFails, Stop,
         Fired, FiredBridge, Visited, Alive, vars, local, kernel, remote
  <2> QED
    BY <2>1 DEF Held, Queued
<1>7. CASE \E e \in End : PeerSend(e) \/ PeerShutdown(e) \/ PeerClose(e) \/ PeerRead(e)
  <2>1. PICK e \in End : PeerSend(e) \/ PeerShutdown(e) \/ PeerClose(e) \/ PeerRead(e)
    BY <1>7
  <2>2. /\ UNCHANGED <<fdt, backlog, pc>>
        /\ \/ peer' = peer
           \/ peer' = [peer EXCEPT ![e] = "fin"] /\ peer[e] = "open"
           \/ peer' = [peer EXCEPT ![e] = "gone"] /\ peer[e] # "none"
    BY <2>1 DEF PeerSend, PeerShutdown, PeerClose, PeerRead, kernel, local
  <2> QED
    BY <2>2 DEF Held, Queued, Alive, IInv, TypeOK
<1> QED
  BY <1>1, <1>2, <1>3, <1>4, <1>5, <1>6, <1>7 DEF Next, Process, Peers, LoopStep

LEMMA FlightHeld ==
  ASSUME IInv, NEW e \in End, ~Held(e)
  PROVE  InFlight(e) = <<>>
BY FiredEnd DEF InFlight, Held, SocketIn

\* The states of an end that is held after a step.
LEMMA WholeBefore ==
  ASSUME IInv, StreamInv, [Next]_vars, NEW e \in End,
         Alive', Held(e)', peer'[Mate(e)] # "gone"
  PROVE  Whole(e) = Stream(e, sent[e])
<1>1. CASE Held(e)
  BY <1>1, Arrivals, Mates DEF StreamInv, NothingMissing
<1>2. CASE ~Held(e) /\ e[2] = "in" /\ Queued(e[1])
  <2>1. e[1] \in Conns /\ e = <<e[1], "in">> /\ Mate(e) = <<e[1], "out">>
    BY <1>2 DEF End, Mate
  <2>2. rx[e] = Stream(e, sent[e]) /\ wrote[Mate(e)] = <<>> /\ InFlight(e) = <<>>
    BY <1>2, <2>1, FlightHeld DEF StreamInv, QueuedWhole
  <2>3. <<>> \o <<>> \o rx[e] = rx[e]
    BY WholeTypes, EmptySeq, ConcatEmptySeq
  <2> QED
    BY <2>2, <2>3 DEF Whole
<1>3. CASE ~Held(e) /\ peer[e] = "none"
  <2>1. rx[e] = <<>> /\ wrote[Mate(e)] = <<>> /\ InFlight(e) = <<>> /\ sent[e] = 0
    BY <1>3, FlightHeld DEF StreamInv, Untouched
  <2>2. Whole(e) = <<>>
    BY <2>1, EmptySeq, ConcatEmptySeq DEF Whole
  <2>3. Stream(e, 0) \in Seq(Item) /\ Len(Stream(e, 0)) = 0
    BY Streams, NumbersAssumption
  <2> QED
    BY <2>1, <2>2, <2>3, EmptySeq
<1> QED
  BY <1>1, <1>2, <1>3, Arrivals

LEMMA MissingStep ==
  ASSUME "short" \notin Env, IInv, StreamInv, [Next]_vars
  PROVE  NothingMissing'
<1> SUFFICES ASSUME NEW e \in End, Alive', Held(e)', peer'[Mate(e)] # "gone"
             PROVE  (Whole(e) = Stream(e, sent[e]))'
  BY DEF NothingMissing
<1>0. Whole(e) = Stream(e, sent[e])
  BY WholeBefore
<1>1. CASE QuietStep
  BY <1>0, <1>1, WholeQuiet DEF Stream
<1>2. CASE BridgedRead
  BY <1>0, <1>2, WholeRead DEF Stream, remote
<1>3. CASE BridgedWrite
  BY <1>0, <1>3, WholeWrite DEF Stream, remote
<1>4. CASE BridgedWriteLoses \/ BridgedWriteFails
  <2>1. peer[SocketOut] = "gone"
    BY <1>4 DEF BridgedWriteLoses, BridgedWriteFails
  <2>2. sent' = sent /\ peer' = peer /\ e # SocketIn
    BY <1>4, <2>1, WholeLoses DEF remote
  <2> QED
    BY <1>0, <1>4, <2>2, WholeLoses DEF Stream
<1>5. CASE BridgedEof
  BY <1>0, <1>5, WholeEof DEF Stream, remote
<1>6. ASSUME NEW s \in End, PeerSend(s)
      PROVE  (Whole(e) = Stream(e, sent[e]))'
  <2>1. CASE e = s
    <3>1. /\ Whole(e)' = Append(Whole(e), <<e, sent[e] + 1>>)
          /\ sent'[e] = sent[e] + 1 /\ sent[e] < MaxSend
      BY <1>6, <2>1, WholeSend
    <3>2. Append(Stream(e, sent[e]), <<e, sent[e] + 1>>) = Stream(e, sent[e] + 1)
      BY <3>1, WholeTypes, StreamAppend
    <3> QED
      BY <1>0, <3>1, <3>2 DEF Stream
  <2>2. CASE e # s
    BY <1>0, <1>6, <2>2, WholeSend DEF Stream
  <2> QED
    BY <2>1, <2>2
<1> QED
  BY <1>1, <1>2, <1>3, <1>4, <1>5, <1>6, ProcessSteps

LEMMA UntouchedStep == ASSUME IInv, StreamInv, [Next]_vars PROVE Untouched'
<1> SUFFICES ASSUME NEW e \in End, peer'[e] = "none"
             PROVE  /\ sent'[e] = 0 /\ rx'[e] = <<>> /\ wrote'[Mate(e)] = <<>>
                    /\ ~Held(e)'
  BY DEF Untouched
<1>1. peer[e] = "none" /\ sent[e] = 0 /\ rx[e] = <<>> /\ wrote[Mate(e)] = <<>> /\ ~Held(e)
  BY Arrivals DEF StreamInv, Untouched
<1>2. ~Held(e)'
  <2>1. ~(e[2] = "in" /\ Queued(e[1]))
    BY <1>1 DEF IInv, Lifecycle, ClientUnseen, End
  <2> QED
    BY <1>1, <2>1, Arrivals
<1>3. CASE QuietStep
  BY <1>1, <1>2, <1>3, WholeQuiet
<1>4. CASE BridgedRead
  BY <1>1, <1>2, <1>4, WholeRead DEF remote
<1>5. CASE BridgedWrite
  BY <1>1, <1>2, <1>5, WholeWrite DEF remote
<1>6. CASE BridgedWriteLoses \/ BridgedWriteFails
  BY <1>1, <1>2, <1>6, WholeLoses DEF remote
<1>7. CASE BridgedEof
  BY <1>1, <1>2, <1>7, WholeEof DEF remote
<1>8. ASSUME NEW s \in End, PeerSend(s)
      PROVE  sent'[e] = 0 /\ rx'[e] = <<>> /\ wrote'[Mate(e)] = <<>>
  <2>1. e # s /\ wrote' = wrote
    BY <1>1, <1>8 DEF PeerSend
  <2> QED
    BY <1>1, <1>8, <2>1, WholeSend
<1> QED
  BY <1>2, <1>3, <1>4, <1>5, <1>6, <1>7, <1>8, ProcessSteps

LEMMA QueuedStep == ASSUME IInv, StreamInv, [Next]_vars PROVE QueuedWhole'
<1> SUFFICES ASSUME NEW c \in Conns, Queued(c)'
             PROVE  /\ (rx[<<c, "in">>] = Stream(<<c, "in">>, sent[<<c, "in">>]))'
                    /\ wrote'[<<c, "out">>] = <<>>
  BY DEF QueuedWhole
<1> DEFINE e == <<c, "in">>
<1>1. e \in End /\ Mate(e) = <<c, "out">>
  BY DEF End, Mate
<1>2. rx[e] = Stream(e, sent[e]) /\ wrote[Mate(e)] = <<>> /\ ~Held(e)
  <2>1. CASE Queued(c)
    BY <1>1, <2>1 DEF StreamInv, QueuedWhole, IInv, Lifecycle
  <2>2. CASE peer[e] = "none"
    <3>1. rx[e] = <<>> /\ wrote[Mate(e)] = <<>> /\ ~Held(e) /\ sent[e] = 0
      BY <1>1, <2>2 DEF StreamInv, Untouched
    <3>2. Stream(e, 0) \in Seq(Item) /\ Len(Stream(e, 0)) = 0
      BY <1>1, Streams, NumbersAssumption
    <3> QED
      BY <3>1, <3>2, EmptySeq
  <2> QED
    BY <2>1, <2>2, Arrivals
<1> HIDE DEF e
<1> SUFFICES (rx'[e] = Stream(e, sent'[e])) /\ wrote'[Mate(e)] = <<>>
  BY <1>1 DEF Stream, e
<1>3. CASE QuietStep
  BY <1>1, <1>2, <1>3, WholeQuiet
<1>4. CASE BridgedRead
  BY <1>1, <1>2, <1>4, WholeRead DEF remote
<1>5. CASE BridgedWrite
  BY <1>1, <1>2, <1>5, WholeWrite DEF remote
<1>6. CASE BridgedWriteLoses \/ BridgedWriteFails
  BY <1>1, <1>2, <1>6, WholeLoses DEF remote
<1>7. CASE BridgedEof
  BY <1>1, <1>2, <1>7, WholeEof DEF remote
<1>8. ASSUME NEW s \in End, PeerSend(s)
      PROVE  (rx'[e] = Stream(e, sent'[e])) /\ wrote'[Mate(e)] = <<>>
  <2>1. wrote' = wrote
    BY <1>8 DEF PeerSend
  <2>2. CASE e = s
    <3>1. /\ rx'[e] = Append(rx[e], <<e, sent[e] + 1>>)
          /\ sent'[e] = sent[e] + 1 /\ sent[e] < MaxSend
      BY <1>1, <1>8, <2>2, WholeSend
    <3>2. Append(Stream(e, sent[e]), <<e, sent[e] + 1>>) = Stream(e, sent[e] + 1)
      BY <1>1, <3>1, WholeTypes, StreamAppend
    <3> QED
      BY <1>2, <2>1, <3>1, <3>2
  <2>3. CASE e # s
    BY <1>1, <1>2, <1>8, <2>1, <2>3, WholeSend
  <2> QED
    BY <2>2, <2>3
<1> QED
  BY <1>3, <1>4, <1>5, <1>6, <1>7, <1>8, ProcessSteps

LEMMA PrefixStep == ASSUME IInv, StreamInv, [Next]_vars PROVE Prefixes'
<1> SUFFICES ASSUME NEW e \in End
             PROVE  /\ Len(wrote'[Mate(e)]) <= sent'[e]
                    /\ wrote'[Mate(e)] = Stream(e, Len(wrote'[Mate(e)]))
  BY DEF Prefixes, Stream
<1>1. /\ Len(wrote[Mate(e)]) <= sent[e]
      /\ wrote[Mate(e)] = Stream(e, Len(wrote[Mate(e)]))
  BY DEF StreamInv, Prefixes
<1>2. CASE QuietStep
  BY <1>1, <1>2, WholeQuiet
<1>3. CASE BridgedRead \/ BridgedWriteLoses \/ BridgedWriteFails \/ BridgedEof
  BY <1>1, <1>3, WholeRead, WholeLoses, WholeEof DEF remote
<1>4. CASE BridgedWrite /\ e # SocketIn
  BY <1>1, <1>4, WholeWrite DEF remote
<1>5. CASE BridgedWrite /\ e = SocketIn
  <2>1. Whole(e)' = Stream(e, sent[e]) /\ sent' = sent
    BY <1>5, WholeWrite DEF StreamInv, NothingMissing, remote
  <2>2. IInv'
    BY Inductive
  <2> DEFINE w == wrote'[Mate(e)]
             b == InFlight(e)'
  <2>3. /\ w \in Seq(Item) /\ b \in Seq(Item) /\ rx'[e] \in Seq(Item)
        /\ w \o b \in Seq(Item) /\ Whole(e)' = w \o b \o rx'[e]
    <3>1. wrote' \in [End -> Seq(Item)] /\ rx' \in [End -> Seq(Item)] /\ buffer' \in Seq(Item)
      BY <2>2 DEF IInv, TypeOK
    <3>2. w \in Seq(Item) /\ b \in Seq(Item) /\ rx'[e] \in Seq(Item)
      BY <3>1, Mates, EmptySeq DEF InFlight
    <3> QED
      BY <3>2, ConcatProperties DEF Whole
  <2> HIDE DEF w, b
  <2>4. sent[e] \in 0..MaxSend
    BY WholeTypes
  <2>5. Len(w \o b) <= sent[e] /\ w \o b = Stream(e, Len(w \o b))
    BY <2>1, <2>3, <2>4, StreamPrefix
  <2>6. Len(w \o b) \in 0..MaxSend
    BY <2>3, <2>4, <2>5, LenProperties, NumbersAssumption
  <2>7. Len(w) <= Len(w \o b) /\ w = Stream(e, Len(w))
    BY <2>3, <2>5, <2>6, StreamPrefix
  <2>8. Len(w) \in Nat
    BY <2>3, LenProperties
  <2> QED
    BY <2>1, <2>4, <2>5, <2>6, <2>7, <2>8 DEF w
<1>6. ASSUME NEW s \in End, PeerSend(s)
      PROVE  /\ Len(wrote'[Mate(e)]) <= sent'[e]
             /\ wrote'[Mate(e)] = Stream(e, Len(wrote'[Mate(e)]))
  <2>1. wrote' = wrote
    BY <1>6 DEF PeerSend
  <2>2. sent'[e] \in {sent[e], sent[e] + 1}
    BY <1>6, WholeSend
  <2>3. Len(wrote[Mate(e)]) \in Nat /\ sent[e] \in 0..MaxSend
    BY WholeTypes, LenProperties
  <2> QED
    BY <1>1, <2>1, <2>2, <2>3, NumbersAssumption
<1> QED
  BY <1>2, <1>3, <1>4, <1>5, <1>6, ProcessSteps

LEMMA StreamInvInit == ASSUME Init PROVE StreamInv
<1>1. \A e \in End : ~Held(e) /\ rx[e] = <<>> /\ wrote[Mate(e)] = <<>> /\ sent[e] = 0
  BY Descriptors, Mates DEF Init, Held
<1>2. \A e \in End : Stream(e, 0) \in Seq(Item) /\ Len(Stream(e, 0)) = 0
  BY Streams, NumbersAssumption
<1>3. \A e \in End : Stream(e, 0) = <<>>
  BY <1>2, EmptySeq
<1>4. \A c \in Conns : ~Queued(c)
  BY DEF Init, Queued
<1> QED
  BY <1>1, <1>3, <1>4, EmptySeq
     DEF StreamInv, Untouched, QueuedWhole, Prefixes, NothingMissing

LEMMA StreamInvStep ==
  ASSUME "short" \notin Env, IInv, StreamInv, [Next]_vars
  PROVE  StreamInv'
BY MissingStep, UntouchedStep, QueuedStep, PrefixStep DEF StreamInv

\* Where no signal cuts writes short, what is written towards a peer is a
\* prefix of what the mate's peer sent, and while both sockets are open and the
\* reader is there nothing that reached the process is missing: it is written,
\* in the buffer or unread (bridged_socket_event_handler).
THEOREM AlwaysIntact ==
  ASSUME "short" \notin Env
  PROVE  Spec => []StreamIntegrity
<1>1. Init => StreamInv
  BY StreamInvInit
<1>2. IInv /\ StreamInv /\ [Next]_vars => StreamInv'
  BY StreamInvStep
<1>3. StreamInv => StreamIntegrity
  BY DEF StreamInv, Prefixes, NothingMissing, StreamIntegrity, Whole
<1> QED
  BY <1>1, <1>2, <1>3, Invariance, PTL DEF Spec

-----------------------------------------------------------------------------
(* Descriptors. *)

LEMMA SmallestFree ==
  ASSUME NEW t \in [Fd -> AnyFd], LowestFree(t) = {}
  PROVE  \A f \in Fd : t[f] # Free
<1> SUFFICES ASSUME NEW g \in Fd, t[g] = Free PROVE FALSE
  OBVIOUS
<1> DEFINE T == {f \in Fd : t[f] = Free}
           R == OpToRel(<, Nat)
<1>1. T \subseteq Nat /\ T # {}
  BY Descriptors
<1>2. \E x \in T : \A y \in T : ~(<<y, x>> \in R)
  <2> HIDE DEF T, R
  <2>1. IsWellFoundedOn(R, Nat)
    BY NatLessThanWellFounded DEF R
  <2> QED
    BY <1>1, <2>1, WFMin
<1>3. PICK x \in T : \A y \in T : ~(<<y, x>> \in R)
  BY <1>2
<1>4. \A y \in T : ~(y < x)
  BY <1>1, <1>3 DEF OpToRel
<1>5. x \in LowestFree(t)
  BY <1>4 DEF LowestFree
<1> QED
  BY <1>5

\* What the devices and the ends of the clients take at most: when one end of
\* a client has no descriptor and no device has leaked for it, the table is
\* not full, even if one more device is about to leak.
LEMMA TableNotFull ==
  ASSUME IInv, LeaksBounded, IsFiniteSet(Conns), EnoughFds,
         NEW c \in Conns, ~Tried(c), NEW e \in End, e[1] = c, ~Held(e),
         \A t \in VMCISock_GetAFValue(fdt) : LowestFree(t) = {}
  PROVE  FALSE
<1>1. \E g : \A f \in Fd : fdt[f] = Free => AfLeak /\ f = g
  <2>0. fdt \in [Fd -> AnyFd]
    BY DEF IInv, TypeOK, AnyFd
  <2>1. CASE LowestFree(fdt) = {}
    BY <2>0, <2>1, SmallestFree
  <2>2. ASSUME NEW g \in LowestFree(fdt)
        PROVE  AfLeak /\ \A f \in Fd : fdt[f] = Free => f = g
    <3>1. AfLeak
      BY <2>2 DEF VMCISock_GetAFValue
    <3> DEFINE t == [fdt EXCEPT ![g] = AfDevice]
    <3>2. t \in VMCISock_GetAFValue(fdt)
      BY <3>1 DEF VMCISock_GetAFValue
    <3>3. t \in [Fd -> AnyFd]
      BY <2>0 DEF AnyFd
    <3>4. \A f \in Fd : t[f] # Free
      <4> HIDE DEF t
      <4> QED
        BY <3>2, <3>3, SmallestFree
    <3> QED
      BY <2>0, <3>1, <3>4
  <2> QED
    BY <2>1, <2>2
<1> DEFINE N     == Cardinality(Conns)
           Above == {f \in Fd : f > ListenFd}
           Ends  == {f \in Fd : fdt[f] \in End}
           Rest  == {f \in Fd : fdt[f] = Free}
           Had   == {d \in Conns : Tried(d)}
<1>2. N \in Nat /\ N > 0
  BY FS_CardinalityType, FS_EmptySet
<1>3. /\ Fd = 3..(MaxFd - 1) /\ MaxFd \in Nat /\ ListenFd \in Nat /\ ListenFd >= 3
      /\ ListenFd < MaxFd
      /\ IsFiniteSet(Fd)
  BY FS_Interval, NumbersAssumption, StartupAssumption DEF Fd, ListenFd
<1>4. IsFiniteSet(Above) /\ Cardinality(Above) = MaxFd - 1 - ListenFd
  <2> DEFINE a == ListenFd + 1
             b == MaxFd - 1
  <2>1. Above = a..b /\ a \in Int /\ b \in Int
    BY <1>3
  <2>2. IsFiniteSet(a..b) /\ Cardinality(a..b) = IF a > b THEN 0 ELSE b - a + 1
    BY <2>1, FS_Interval
  <2>3. (IF a > b THEN 0 ELSE b - a + 1) = MaxFd - 1 - ListenFd
    BY <1>3
  <2> HIDE DEF a, b, Above
  <2> QED
    BY <2>1, <2>2, <2>3
\* The ends have distinct descriptors and e has none.
<1>5. IsFiniteSet(Ends) /\ Cardinality(Ends) <= 2 * N - 1
  <2> DEFINE E == End \ {e}
             m == [f \in Ends |-> fdt[f]]
  <2>1. IsFiniteSet({"in", "out"}) /\ Cardinality({"in", "out"}) = 2
    <3>1. IsFiniteSet({"in"}) /\ Cardinality({"in"}) = 1 /\ "out" \notin {"in"}
      BY FS_Singleton
    <3>2. IsFiniteSet({"in"} \cup {"out"}) /\ Cardinality({"in"} \cup {"out"}) = 1 + 1
      BY <3>1, FS_AddElement
    <3>3. {"in", "out"} = {"in"} \cup {"out"}
      OBVIOUS
    <3> QED
      BY <3>2, <3>3
  <2>2. IsFiniteSet(End) /\ Cardinality(End) = N * 2
    BY <2>1, FS_Product DEF End
  <2>3. IsFiniteSet(E) /\ Cardinality(E) = 2 * N - 1
    <3>1. IsFiniteSet(E) /\ Cardinality(E) = Cardinality(End) - 1
      BY <2>2, FS_RemoveElement
    <3> QED
      BY <1>2, <2>2, <3>1
  <2>4. m \in Injection(Ends, E)
    <3>1. m \in [Ends -> E]
      BY DEF Held
    <3>2. \A f, g \in Ends : m[f] = m[g] => f = g
      BY DEF IInv, OneFdPerEnd
    <3> HIDE DEF m, Ends
    <3> QED
      BY <3>1, <3>2 DEF Injection, IsInjective
  <2> HIDE DEF E, m, Ends
  <2> QED
    BY <2>3, <2>4, FS_Injection
<1>6. IsFiniteSet(Had) /\ Cardinality(Had) <= N - 1
  <2>1. Had \in SUBSET (Conns \ {c})
    OBVIOUS
  <2>2. IsFiniteSet(Conns \ {c}) /\ Cardinality(Conns \ {c}) = N - 1
    BY FS_RemoveElement
  <2> HIDE DEF Had
  <2> QED
    BY <2>1, <2>2, FS_Subset
<1>7. IsFiniteSet(Devices) /\ Cardinality(Devices) <= Cardinality(Had)
  BY <1>3, FS_Subset DEF Devices, LeaksBounded
<1>8. IsFiniteSet(Rest) /\ Cardinality(Rest) <= (IF AfLeak THEN 1 ELSE 0)
  <2>1. CASE ~AfLeak
    <3>1. Rest = {}
      BY <1>1, <2>1
    <3> QED
      BY <2>1, <3>1, FS_EmptySet
  <2>2. CASE AfLeak
    <3>1. PICK g : \A f \in Fd : fdt[f] = Free => f = g
      BY <1>1
    <3>2. Rest \in SUBSET {g}
      BY <3>1
    <3>3. IsFiniteSet({g}) /\ Cardinality({g}) = 1
      BY FS_Singleton
    <3> HIDE DEF Rest
    <3> QED
      BY <2>2, <3>2, <3>3, FS_Subset
  <2> QED
    BY <2>1, <2>2
<1>9. Above \in SUBSET ((Devices \cup Ends) \cup Rest)
  BY <1>3 DEF IInv, TypeOK, LeaksBounded, Devices
<1>10. Cardinality(Above) <= Cardinality(Devices) + Cardinality(Ends) + Cardinality(Rest)
  <2> HIDE DEF Above, Ends, Rest
  <2>1. /\ IsFiniteSet(Devices \cup Ends)
        /\ Cardinality(Devices \cup Ends) <= Cardinality(Devices) + Cardinality(Ends)
    <3>1. Cardinality(Devices \cap Ends) \in Nat
      BY <1>7, FS_Intersection, FS_CardinalityType
    <3>2. /\ Cardinality(Devices) \in Nat /\ Cardinality(Ends) \in Nat
      BY <1>5, <1>7, FS_CardinalityType
    <3>3. /\ IsFiniteSet(Devices \cup Ends)
          /\ Cardinality(Devices \cup Ends)
               = Cardinality(Devices) + Cardinality(Ends) - Cardinality(Devices \cap Ends)
      BY <1>5, <1>7, FS_Union
    <3> QED
      BY <3>1, <3>2, <3>3
  <2> DEFINE U == Devices \cup Ends
  <2> HIDE DEF U
  <2>2. IsFiniteSet(U) /\ Cardinality(U) <= Cardinality(Devices) + Cardinality(Ends)
    BY <2>1 DEF U
  <2>3. /\ IsFiniteSet(U \cup Rest)
        /\ Cardinality(U \cup Rest) <= Cardinality(U) + Cardinality(Rest)
    <3>1. Cardinality(U \cap Rest) \in Nat
      BY <2>2, FS_Intersection, FS_CardinalityType
    <3>2. Cardinality(U) \in Nat /\ Cardinality(Rest) \in Nat
      BY <1>8, <2>2, FS_CardinalityType
    <3>3. /\ IsFiniteSet(U \cup Rest)
          /\ Cardinality(U \cup Rest)
               = Cardinality(U) + Cardinality(Rest) - Cardinality(U \cap Rest)
      BY <1>8, <2>2, FS_Union
    <3> QED
      BY <3>1, <3>2, <3>3
  <2>4. Above \in SUBSET (U \cup Rest)
    BY <1>9 DEF U
  <2>5. Cardinality(Above) <= Cardinality(U \cup Rest)
    BY <2>3, <2>4, FS_Subset
  <2>6. /\ Cardinality(Above) \in Nat /\ Cardinality(U \cup Rest) \in Nat
        /\ Cardinality(U) \in Nat /\ Cardinality(Rest) \in Nat
        /\ Cardinality(Devices) \in Nat /\ Cardinality(Ends) \in Nat
    BY <1>4, <1>5, <1>7, <1>8, <2>2, <2>3, FS_CardinalityType
  <2> QED
    BY <2>2, <2>3, <2>5, <2>6
<1>11. /\ Cardinality(Devices) \in Nat /\ Cardinality(Ends) \in Nat
       /\ Cardinality(Rest) \in Nat /\ Cardinality(Had) \in Nat
  BY <1>5, <1>6, <1>7, <1>8, FS_CardinalityType
<1>12. ~AfLeak => Cardinality(Devices) = 0
  BY FS_EmptySet DEF LeaksBounded
<1> HIDE DEF N, Above, Ends, Rest, Had
<1>13. MaxFd - ListenFd > (IF AfLeak THEN 3 ELSE 2) * N
  BY DEF EnoughFds, N
<1> QED
  BY <1>2, <1>3, <1>4, <1>5, <1>6, <1>7, <1>8, <1>10, <1>11, <1>12, <1>13

-----------------------------------------------------------------------------
(* The parts of the invariant that the refinement needs. *)

LEMMA OutWithInStep == ASSUME IInv, OutWithIn, [Next]_vars PROVE OutWithIn'
<1> \A c \in Conns : <<c, "in">> \in End /\ <<c, "out">> \in End
                     /\ Mate(<<c, "in">>) = <<c, "out">>
  BY DEF End, Mate
<1>1. CASE UNCHANGED fdt
  BY <1>1 DEF OutWithIn, Held
<1>2. CASE SocketAccept
  <2>1. PICK f \in LowestFree(fdt) : fdt' = [fdt EXCEPT ![f] = <<Head(backlog), "in">>]
    BY <1>2 DEF SocketAccept
  <2>2. /\ f \in Fd /\ fdt[f] = Free /\ fdt'[f] = <<Head(backlog), "in">>
        /\ \A g \in Fd : g # f => fdt'[g] = fdt[g]
    BY <2>1 DEF LowestFree, IInv, TypeOK
  <2>3. \A e \in End : Held(e) => Held(e)'
    BY <2>2, Descriptors DEF Held
  <2>4. \A c \in Conns : Held(<<c, "out">>)' => Held(<<c, "out">>)
    BY <2>2 DEF Held
  <2> QED
    BY <2>3, <2>4 DEF OutWithIn
<1>3. CASE TryConnectionOk
  <2>1. PICK c \in Conns : fdt[new_sock] = <<c, "in">> /\ new_sock \in Fd
    BY <1>3 DEF TryConnectionOk, IInv, Connecting
  <2>2. RemoteEnd = <<c, "out">>
    BY <2>1 DEF RemoteEnd, ClientEnd, Mate
  <2>3. PICK t \in VMCISock_GetAFValue(fdt) : \E f \in LowestFree(t) :
          fdt' = [t EXCEPT ![f] = <<c, "out">>]
    BY <1>3, <2>2 DEF TryConnectionOk
  <2>4. PICK f \in LowestFree(t) : fdt' = [t EXCEPT ![f] = <<c, "out">>]
    BY <2>3
  <2>5. f \in Fd /\ fdt[f] = Free /\ fdt'[f] = <<c, "out">>
        /\ \A g \in Fd, e \in End : g # f => (fdt'[g] = e <=> fdt[g] = e)
    BY <2>4, LeakInv DEF LowestFree
  <2>6. \A e \in End : Held(e)' <=> Held(e) \/ e = <<c, "out">>
    BY <2>5, Descriptors DEF Held
  <2>7. Held(<<c, "in">>)
    BY <2>1 DEF Held
  <2> QED
    BY <2>6, <2>7 DEF OutWithIn
<1>4. CASE TryConnectionRefused
  <2>1. \A f \in Fd, e \in End : fdt'[f] = e <=> fdt[f] = e
    BY <1>4, LeakInv DEF TryConnectionRefused
  <2> QED
    BY <2>1 DEF OutWithIn, Held
<1>5. CASE BridgedEof
  <2> DEFINE s == Entry.socket
             o == Entry.context
  <2>1. /\ s \in Fd /\ o \in Fd /\ fdt[s] \in End /\ fdt[o] = Mate(fdt[s])
        /\ fdt' = Closed(fdt, {s, o})
    BY <1>5, FiredEnd DEF BridgedEof, SocketIn, SocketOut
  <2> HIDE DEF s, o
  <2> SUFFICES ASSUME NEW c \in Conns, Held(<<c, "out">>)'
               PROVE  Held(<<c, "in">>)'
    BY DEF OutWithIn
  <2>2. PICK f \in Fd : fdt[f] = <<c, "out">> /\ f \notin {s, o}
    BY <2>1, Descriptors DEF Held, Closed
  <2>3. PICK g \in Fd : fdt[g] = <<c, "in">>
    BY <2>2 DEF OutWithIn, Held
  <2>4. g \notin {s, o}
    BY <2>1, <2>2, <2>3, Mates DEF IInv, OneFdPerEnd
  <2> QED
    BY <2>1, <2>3, <2>4 DEF Held, Closed
<1>6. CASE LoopStep \/ RemoveMarked \/ Peers
  <2>1. UNCHANGED fdt
    BY <1>6 DEF LoopStep, RemoveMarked, EnterSelect, SelectReturns, SelectFails,
         SkipEntry, PassDone, AcceptFails, TryConnectionExits, StaleHandler,
         BridgedRead, BridgedWrite, BridgedWriteLoses, BridgedWriteFails, Stop,
         Peers, ClientConnect, PeerSend, PeerShutdown, PeerClose, PeerRead,
         vars, kernel
  <2> QED
    BY <1>1, <2>1
<1> QED
  BY <1>1, <1>2, <1>3, <1>4, <1>5, <1>6 DEF Next, Process, LoopStep, vars, kernel

LEMMA FinishedStays ==
  ASSUME IInv, [Next]_vars, NEW e \in End, peer[e] \in {"fin", "gone"}
  PROVE  peer'[e] \in {"fin", "gone"}
<1>1. CASE TryConnectionOk
  <2>1. PICK c \in Conns : fdt[new_sock] = <<c, "in">> /\ RemoteUnseen(c)
    BY <1>1 DEF TryConnectionOk, IInv, Connecting
  <2>2. peer[RemoteEnd] = "none" /\ peer' = [peer EXCEPT ![RemoteEnd] = "open"]
    BY <1>1, <2>1 DEF TryConnectionOk, RemoteEnd, ClientEnd, Mate, RemoteUnseen
  <2> QED
    BY <2>2 DEF IInv, TypeOK
<1>2. CASE Peers
  BY <1>2 DEF Peers, ClientConnect, PeerSend, PeerShutdown, PeerClose, PeerRead,
              IInv, TypeOK
<1>3. CASE Process /\ ~TryConnectionOk
  BY <1>3 DEF Process, RemoveMarked, EnterSelect, SelectReturns, SelectFails,
         SkipEntry, PassDone, SocketAccept, AcceptFails, TryConnectionRefused,
         TryConnectionExits, StaleHandler, BridgedRead, BridgedEof, BridgedWrite,
         BridgedWriteLoses, BridgedWriteFails, Stop, remote
<1> QED
  BY <1>1, <1>2, <1>3 DEF Next, vars, remote

LEMMA MarksStep == ASSUME IInv, MarksExplained, [Next]_vars PROVE MarksExplained'
<1>1. ASSUME \E i \in 1..Len(Elems) : Elems[i].deleted
      PROVE  MarksExplained'
  BY <1>1, FinishedStays DEF MarksExplained
<1>2. ASSUME ~\E i \in 1..Len(Elems) : Elems[i].deleted
      PROVE  MarksExplained'
  <2>1. CASE RemoveMarked
    BY <1>2, <2>1, RemoveList DEF MarksExplained
  <2>2. CASE SocketAccept
    BY <1>2, <2>2 DEF SocketAccept, MarksExplained, Elems
  <2>3. CASE TryConnectionOk
    <3>1. PICK f \in Fd :
            /\ Len(Elems) \in Nat /\ Len(Elems') = Len(Elems) + 2
            /\ \A i \in 1..Len(Elems) : Elems'[i] = Elems[i]
            /\ Elems'[Len(Elems) + 1] = [socket |-> new_sock, handler |-> "bridge",
                                         context |-> f, deleted |-> FALSE]
            /\ Elems'[Len(Elems) + 2] = [socket |-> f, handler |-> "bridge",
                                         context |-> new_sock, deleted |-> FALSE]
      BY <2>3, Connected
    <3>2. ~Elems'[Len(Elems) + 1].deleted /\ ~Elems'[Len(Elems) + 2].deleted
      BY <3>1
    <3>3. \A i \in 1..Len(Elems') :
            i \in 1..Len(Elems) \/ i = Len(Elems) + 1 \/ i = Len(Elems) + 2
      BY <3>1
    <3> QED
      BY <1>2, <3>1, <3>2, <3>3 DEF MarksExplained
  <2>4. CASE BridgedEof
    <3>1. SocketIn \in End /\ peer[SocketIn] \in {"fin", "gone"}
      BY <2>4, FiredEnd DEF BridgedEof
    <3>2. peer'[SocketIn] \in {"fin", "gone"}
      BY <3>1, FinishedStays
    <3> QED
      BY <3>1, <3>2 DEF MarksExplained
  <2>5. CASE UNCHANGED sockets
    BY <1>2, <2>5 DEF MarksExplained, Elems
  <2> QED
    BY <2>1, <2>2, <2>3, <2>4, <2>5, OtherSteps DEF ListStep
<1> QED
  BY <1>1, <1>2

\* A client for which the address family was asked stays one.
LEMMA TriedStays ==
  ASSUME IInv, [Next]_vars, NEW c \in Conns, Tried(c)
  PROVE  Tried(c)'
<1>1. peer'[<<c, "in">>] # "none" /\ ~Queued(c)'
  <2>1. <<c, "in">> \in End
    BY DEF End
  <2> QED
    BY <2>1, Arrivals DEF Tried
<1> SUFFICES ASSUME pc' = "connect", fdt'[new_sock'] = <<c, "in">>
             PROVE  FALSE
  BY <1>1 DEF Tried, ClientEnd
<1>2. CASE SocketAccept
  <2>1. PICK f \in LowestFree(fdt) :
          /\ fdt' = [fdt EXCEPT ![f] = <<Head(backlog), "in">>]
          /\ new_sock' = f
    BY <1>2 DEF SocketAccept
  <2>2. c = Head(backlog)
    BY <2>1 DEF LowestFree, IInv, TypeOK
  <2>3. Queued(Head(backlog))
    <3>1. backlog \in Seq(Conns) /\ backlog # <<>>
      BY <1>2 DEF SocketAccept, IInv, TypeOK
    <3>2. 1 \in DOMAIN backlog /\ Head(backlog) = backlog[1]
      BY <3>1, LenProperties, EmptySeq
    <3> QED
      BY <3>2 DEF Queued
  <2> QED
    BY <2>2, <2>3 DEF Tried
<1>3. CASE UNCHANGED vars \/ Peers
  BY <1>3 DEF Tried, ClientEnd, vars, local, kernel, Peers, ClientConnect,
              PeerSend, PeerShutdown, PeerClose, PeerRead
<1>4. CASE Process /\ ~SocketAccept
  BY <1>4 DEF Process, RemoveMarked, EnterSelect, SelectReturns, SelectFails,
         ReturnToLoop, SkipEntry, PassDone, AcceptFails, TryConnectionOk,
         TryConnectionRefused, TryConnectionExits, StaleHandler, BridgedRead,
         BridgedEof, BridgedWrite, BridgedWriteLoses, BridgedWriteFails, Stop,
         Continue, Fired, FiredBridge, Visited
<1> QED
  BY <1>2, <1>3, <1>4 DEF Next

\* What try_connection does to the descriptors that devices take.
LEMMA DeviceLeaks ==
  ASSUME IInv, LeaksBounded, TryConnectionOk \/ TryConnectionRefused
  PROVE  /\ \A f \in Fd : fdt'[f] = Listener => f = ListenFd
         /\ ~AfLeak => Devices' = Devices
         /\ \E g : Devices' \subseteq Devices \cup {g}
<1>1. PICK t \in VMCISock_GetAFValue(fdt) :
        fdt' = t \/ \E f \in LowestFree(t) : fdt' = [t EXCEPT ![f] = RemoteEnd]
  BY DEF TryConnectionOk, TryConnectionRefused
<1>2. RemoteEnd \in End
  BY DEF TryConnectionOk, TryConnectionRefused, IInv, Connecting, RemoteEnd,
         ClientEnd, Mate, End
<1>3. t \in [Fd -> AnyFd] /\ \A f \in Fd : t[f] = Listener => f = ListenFd
  <2>1. fdt \in [Fd -> AnyFd]
    BY DEF IInv, TypeOK, AnyFd
  <2>2. t \in [Fd -> AnyFd] /\ \A f \in Fd : t[f] = fdt[f] \/ t[f] = AfDevice
    BY <2>1, Allocation
  <2> QED
    BY <2>2, Descriptors DEF LeaksBounded
<1>4. \A f \in Fd : \/ fdt'[f] = t[f]
                    \/ fdt'[f] = RemoteEnd /\ t[f] = Free
  BY <1>1, <1>3 DEF LowestFree
<1>5. \A f \in Fd : /\ fdt'[f] = Listener => f = ListenFd
                    /\ fdt'[f] = AfDevice <=> t[f] = AfDevice
  BY <1>2, <1>3, <1>4, Descriptors
<1>6. CASE ~AfLeak
  <2>1. t = fdt
    BY <1>1, <1>6 DEF VMCISock_GetAFValue
  <2> QED
    BY <1>5, <2>1 DEF Devices
<1>7. CASE AfLeak
  <2>1. PICK g \in LowestFree(fdt) : t = [fdt EXCEPT ![g] = AfDevice]
    BY <1>1, <1>7 DEF VMCISock_GetAFValue
  <2>2. Devices' \subseteq Devices \cup {g}
    BY <1>5, <2>1 DEF Devices, IInv, TypeOK, LowestFree
  <2> QED
    BY <1>5, <1>7, <2>2
<1> QED
  BY <1>6, <1>7

LEMMA LeaksStep ==
  ASSUME IsFiniteSet(Conns), IInv, LeaksBounded, [Next]_vars
  PROVE  LeaksBounded'
<1> DEFINE T == {c \in Conns : Tried(c)}
           U == {c \in Conns : Tried(c)'}
<1>1. /\ T \subseteq U /\ U \subseteq Conns
      /\ IsFiniteSet(T) /\ IsFiniteSet(U) /\ Cardinality(T) <= Cardinality(U)
      /\ Cardinality(T) \in Nat /\ Cardinality(U) \in Nat
  <2>1. T \subseteq U /\ U \subseteq Conns
    BY TriedStays
  <2> HIDE DEF T, U
  <2> QED
    BY <2>1, FS_Subset, FS_CardinalityType
<1>2. IsFiniteSet(Fd) /\ IsFiniteSet(Devices) /\ Cardinality(Devices) \in Nat
      /\ IsFiniteSet(Devices') /\ Cardinality(Devices') \in Nat
  <2>1. IsFiniteSet(Fd)
    BY FS_Interval, NumbersAssumption DEF Fd
  <2>2. Devices \subseteq Fd /\ Devices' \subseteq Fd
    BY DEF Devices
  <2> QED
    BY <2>1, <2>2, FS_Subset, FS_CardinalityType
<1>3. Cardinality(Devices) <= Cardinality(T)
  BY DEF LeaksBounded
<1>4. LeaksBounded' <=> /\ \A f \in Fd : fdt'[f] = Listener => f = ListenFd
                        /\ ~AfLeak => Devices' = {}
                        /\ Cardinality(Devices') <= Cardinality(U)
  BY DEF LeaksBounded
<1> HIDE DEF T, U
<1>5. CASE TryConnectionOk \/ TryConnectionRefused
  <2>1. PICK c \in Conns : pc = "connect" /\ ClientEnd = <<c, "in">> /\ new_sock \in Fd
    BY <1>5 DEF TryConnectionOk, TryConnectionRefused, IInv, Connecting, ClientEnd
  <2>2. c \notin T
    BY <2>1 DEF T, Tried
  <2>3. c \in U
    <3>1. Held(<<c, "in">>) /\ <<c, "in">> \in End
      BY <2>1 DEF Held, ClientEnd, End
    <3>2. ~Queued(c) /\ peer[<<c, "in">>] # "none"
      BY <3>1 DEF IInv, Lifecycle, ClientUnseen
    <3>3. ~Queued(c)' /\ peer'[<<c, "in">>] # "none"
      BY <3>1, <3>2, Arrivals
    <3>4. pc' # "connect"
      BY <1>5 DEF TryConnectionOk, TryConnectionRefused, Continue
    <3> QED
      BY <3>3, <3>4 DEF U, Tried
  <2>4. Cardinality(T) + 1 <= Cardinality(U)
    <3>1. Cardinality(T \cup {c}) = Cardinality(T) + 1
      BY <1>1, <2>2, FS_AddElement
    <3>2. T \cup {c} \in SUBSET U
      BY <1>1, <2>3
    <3> QED
      BY <1>1, <3>1, <3>2, FS_Subset
  <2>5. Cardinality(Devices') <= Cardinality(Devices) + 1
    <3>1. PICK g : Devices' \subseteq Devices \cup {g}
      BY <1>5, DeviceLeaks
    <3>2. /\ IsFiniteSet(Devices \cup {g})
          /\ Cardinality(Devices \cup {g}) \in {Cardinality(Devices), Cardinality(Devices) + 1}
      BY <1>2, FS_AddElement
    <3>3. Cardinality(Devices') <= Cardinality(Devices \cup {g})
      BY <3>1, <3>2, FS_Subset
    <3> QED
      BY <1>2, <3>2, <3>3
  <2> QED
    BY <1>1, <1>2, <1>3, <1>4, <1>5, <2>4, <2>5, DeviceLeaks DEF LeaksBounded
<1>6. CASE ~(TryConnectionOk \/ TryConnectionRefused)
  <2>1. \A f \in Fd : /\ fdt'[f] = Listener => fdt[f] = Listener
                      /\ fdt'[f] = AfDevice <=> fdt[f] = AfDevice
    <3>1. CASE SocketAccept
      <4>1. PICK f \in LowestFree(fdt) : fdt' = [fdt EXCEPT ![f] = <<Head(backlog), "in">>]
        BY <3>1 DEF SocketAccept
      <4>2. <<Head(backlog), "in">> \in End
        <5>1. backlog \in Seq(Conns) /\ backlog # <<>>
          BY <3>1 DEF SocketAccept, IInv, TypeOK
        <5> QED
          BY <5>1, HeadTailProperties DEF End
      <4> QED
        BY <4>1, <4>2, Descriptors DEF LowestFree, IInv, TypeOK
    <3>2. CASE BridgedEof
      <4>1. /\ SocketIn \in End /\ SocketOut \in End
            /\ fdt' = Closed(fdt, {Entry.socket, Entry.context})
        BY <3>2, FiredEnd, Mates DEF BridgedEof
      <4> QED
        BY <4>1, Descriptors DEF SocketIn, SocketOut, Closed
    <3>3. CASE UNCHANGED fdt
      BY <3>3
    <3>4. SocketAccept \/ BridgedEof \/ UNCHANGED fdt
      BY <1>6 DEF Next, Process, RemoveMarked, EnterSelect, SelectReturns, SelectFails,
           SkipEntry, PassDone, AcceptFails, TryConnectionExits, StaleHandler,
           BridgedRead, BridgedWrite, BridgedWriteLoses, BridgedWriteFails, Stop,
           Peers, ClientConnect, PeerSend, PeerShutdown, PeerClose, PeerRead,
           vars, kernel
    <3> QED
      BY <3>1, <3>2, <3>3, <3>4
  <2>2. Devices' = Devices
    BY <2>1 DEF Devices
  <2> QED
    BY <1>1, <1>2, <1>3, <1>4, <2>1, <2>2 DEF LeaksBounded
<1> QED
  BY <1>5, <1>6

LEMMA RelayInvInit == ASSUME IsFiniteSet(Conns), Init PROVE RelayInv
<1>1. \A f \in Fd : fdt[f] \notin End /\ (fdt[f] = Listener => f = ListenFd)
                    /\ (fdt[f] = AfDevice => ~(f > ListenFd))
  BY Descriptors DEF Init
<1>2. OutWithIn
  BY <1>1 DEF OutWithIn, Held, End
<1>3. MarksExplained
  <2>1. IInv
    BY InitInv
  <2> QED
    BY <2>1 DEF Init, IInv, MarksRemoved, NoneMarked, MarksExplained, Elems,
       socket_list_init, socket_list_insert, list_init, list_insert_after
<1>4. LeaksBounded
  <2>1. Devices = {}
    BY <1>1 DEF Devices
  <2>2. Cardinality({c \in Conns : Tried(c)}) \in Nat
    <3> DEFINE T == {c \in Conns : Tried(c)}
    <3>1. T \subseteq Conns
      OBVIOUS
    <3> HIDE DEF T
    <3>2. Cardinality(T) \in Nat
      BY <3>1, FS_Subset, FS_CardinalityType
    <3> QED
      BY <3>2 DEF T
  <2> QED
    BY <1>1, <2>1, <2>2, FS_EmptySet DEF LeaksBounded
<1> QED
  BY <1>2, <1>3, <1>4 DEF RelayInv

LEMMA RelayInvStep ==
  ASSUME IsFiniteSet(Conns), IInv, RelayInv, [Next]_vars
  PROVE  RelayInv'
BY OutWithInStep, MarksStep, LeaksStep DEF RelayInv

-----------------------------------------------------------------------------
(* Every step is a step of the relay, or invisible. *)

\* What the peers see of a state.
Seen == <<peer, sent, wrote, nread>>

LEMMA SameConn ==
  ASSUME \A c \in Conns :
           /\ peer'[<<c, "in">>] = "none" <=> peer[<<c, "in">>] = "none"
           /\ (Queued(c) \/ Held(<<c, "in">>))' <=> (Queued(c) \/ Held(<<c, "in">>))
  PROVE  connBar' = connBar
BY DEF connBar

LEMMA Invisible ==
  ASSUME UNCHANGED <<connBar, Seen>>, Alive' <=> Alive
  PROVE  UNCHANGED Promise!vars
BY DEF Promise!vars, Seen

LEMMA RelayTerms ==
  /\ Promise!End = End
  /\ \A e : Promise!Mate(e) = Mate(e)
  /\ \A e, n : Promise!Stream(e, n) = Stream(e, n)
  /\ \A e : Promise!Finished(e) <=> peer[e] \in {"fin", "gone"}
BY DEF Promise!End, Promise!Mate, Promise!Stream, Promise!Finished, End, Mate, Stream

\* A held or queued client is an open connection.
LEMMA OpenConn ==
  ASSUME IInv, NEW c \in Conns, Queued(c) \/ Held(<<c, "in">>)
  PROVE  connBar[c] = "open"
BY DEF connBar, IInv, Lifecycle, ClientUnseen

LEMMA SimConnect ==
  ASSUME IInv, NEW c \in Conns, ClientConnect(c)
  PROVE  Promise!Open(c)
<1>1. /\ Alive /\ UNCHANGED local /\ fdt' = fdt /\ backlog' = Append(backlog, c)
      /\ peer' = [peer EXCEPT ![<<c, "in">>] = "open"]
      /\ peer[<<c, "in">>] = "none" /\ <<c, "in">> \in End
      /\ UNCHANGED <<sent, wrote, nread>>
  BY DEF ClientConnect, End
<1>2. \A d \in Conns : Queued(d)' <=> Queued(d) \/ d = c
  <2>1. backlog \in Seq(Conns)
    BY DEF IInv, TypeOK
  <2>2. /\ Len(backlog') = Len(backlog) + 1 /\ backlog'[Len(backlog) + 1] = c
        /\ \A i \in 1..Len(backlog) : backlog'[i] = backlog[i]
        /\ DOMAIN backlog' = 1..Len(backlog') /\ DOMAIN backlog = 1..Len(backlog)
        /\ Len(backlog) \in Nat
    BY <1>1, <2>1, AppendProperties, LenProperties
  <2>3. \A i \in 1..(Len(backlog) + 1) : i \in 1..Len(backlog) \/ i = Len(backlog) + 1
    BY <2>2
  <2> QED
    BY <2>2, <2>3 DEF Queued
<1>3. \A d \in Conns : /\ Held(<<d, "in">>)' <=> Held(<<d, "in">>)
                       /\ d # c => peer'[<<d, "in">>] = peer[<<d, "in">>]
  BY <1>1 DEF Held, IInv, TypeOK, End
<1>4. peer'[<<c, "in">>] = "open"
  BY <1>1 DEF IInv, TypeOK
<1>5. connBar[c] = "idle" /\ connBar' = [connBar EXCEPT ![c] = "open"]
  BY <1>1, <1>2, <1>3, <1>4 DEF connBar
<1> QED
  BY <1>1, <1>5 DEF Promise!Open, Alive, local

LEMMA SimPeer ==
  ASSUME IInv, OutWithIn, NEW e \in End,
         PeerSend(e) \/ PeerShutdown(e) \/ PeerClose(e) \/ PeerRead(e)
  PROVE  Promise!Send(e) \/ Promise!Finish(e) \/ Promise!Receive(e)
<1>1. connBar' = connBar /\ (Alive' <=> Alive)
  <2>1. UNCHANGED <<fdt, backlog, pc>>
    BY DEF PeerSend, PeerShutdown, PeerClose, PeerRead, kernel, local
  <2>2. \A c \in Conns : peer'[<<c, "in">>] = "none" <=> peer[<<c, "in">>] = "none"
    <3>1. \/ peer' = peer
          \/ /\ peer[e] # "none"
             /\ \E how \in {"fin", "gone"} : peer' = [peer EXCEPT ![e] = how]
      BY DEF PeerSend, PeerShutdown, PeerClose, PeerRead
    <3>2. \A c \in Conns : <<c, "in">> \in End
      BY DEF End
    <3> QED
      BY <3>1, <3>2 DEF IInv, TypeOK
  <2> QED
    BY <2>1, <2>2, SameConn DEF Queued, Held, Alive
<1>2. CASE PeerSend(e)
  <2>1. e[1] \in Conns /\ (e = <<e[1], "in">> \/ e = <<e[1], "out">>)
    BY DEF End
  <2>2. Queued(e[1]) \/ Held(<<e[1], "in">>)
    BY <1>2, <2>1 DEF PeerSend, OutWithIn
  <2>3. connBar[e[1]] = "open"
    BY <2>1, <2>2, OpenConn
  <2> QED
    BY <1>1, <1>2, <2>3 DEF PeerSend, Promise!Send
<1>3. CASE PeerShutdown(e) \/ PeerClose(e)
  <2>1. /\ Alive /\ peer[e] \in {"open", "fin"} /\ UNCHANGED <<sent, wrote, nread>>
        /\ \E how \in {"fin", "gone"} : peer' = [peer EXCEPT ![e] = how]
    BY <1>3 DEF PeerShutdown, PeerClose, kernel
  <2> QED
    BY <1>1, <2>1 DEF Promise!Finish
<1>4. CASE PeerRead(e)
  BY <1>1, <1>4 DEF PeerRead, Promise!Receive, kernel
<1> QED
  BY <1>2, <1>3, <1>4

LEMMA SimAccept ==
  ASSUME IInv, SocketAccept
  PROVE  UNCHANGED Promise!vars
<1> DEFINE c == Head(backlog)
<1>1. PICK f \in LowestFree(fdt) : fdt' = [fdt EXCEPT ![f] = <<c, "in">>]
  BY DEF SocketAccept
<1>2. /\ f \in Fd /\ fdt[f] = Free /\ fdt'[f] = <<c, "in">>
      /\ \A g \in Fd : g # f => fdt'[g] = fdt[g]
  BY <1>1 DEF LowestFree, IInv, TypeOK
<1>3. /\ pc = "handle" /\ pc' = "connect" /\ backlog # <<>> /\ backlog \in Seq(Conns)
      /\ backlog' = Tail(backlog) /\ UNCHANGED Seen
  BY DEF SocketAccept, Fired, Visited, Seen, remote, IInv, TypeOK
<1>4. \A e \in End : Held(e)' <=> Held(e) \/ e = <<c, "in">>
  BY <1>2, Descriptors DEF Held
<1>5. \A d \in Conns : Queued(d) <=> Queued(d)' \/ d = c
  <2>1. /\ Len(backlog) \in Nat /\ Len(backlog) > 0
        /\ DOMAIN backlog = 1..Len(backlog) /\ DOMAIN backlog' = 1..Len(backlog')
        /\ Len(backlog') = Len(backlog) - 1
        /\ \A i \in 1..Len(backlog') : backlog'[i] = backlog[i + 1]
        /\ c = backlog[1]
    BY <1>3, HeadTailProperties, LenProperties, EmptySeq
  <2> HIDE DEF c
  <2> SUFFICES ASSUME NEW d \in Conns
               PROVE  /\ Queued(d) => Queued(d)' \/ d = c
                      /\ Queued(d)' \/ d = c => Queued(d)
    OBVIOUS
  <2>2. ASSUME NEW i \in 1..Len(backlog), backlog[i] = d
        PROVE  Queued(d)' \/ d = c
    <3>1. CASE i = 1
      BY <2>1, <2>2, <3>1
    <3>2. CASE i # 1
      <4>1. i - 1 \in 1..Len(backlog') /\ backlog'[i - 1] = d
        BY <2>1, <2>2, <3>2
      <4> QED
        BY <2>1, <4>1 DEF Queued
    <3> QED
      BY <3>1, <3>2
  <2>3. ASSUME NEW i \in 1..Len(backlog'), backlog'[i] = d
        PROVE  Queued(d)
    <3>1. i + 1 \in 1..Len(backlog) /\ backlog[i + 1] = d
      BY <2>1, <2>3
    <3> QED
      BY <2>1, <3>1 DEF Queued
  <2>4. Queued(c)
    BY <2>1 DEF Queued
  <2> QED
    BY <2>1, <2>2, <2>3, <2>4 DEF Queued
<1>6. \A d \in Conns : <<d, "in">> \in End /\ (<<d, "in">> = <<c, "in">> <=> d = c)
  BY DEF End
<1>7. connBar' = connBar
  BY <1>3, <1>4, <1>5, <1>6, SameConn DEF Seen
<1> QED
  BY <1>3, <1>7, Invisible DEF Alive

LEMMA SimReach ==
  ASSUME IInv, TryConnectionOk
  PROVE  \E c \in Conns : Promise!Reach(c)
<1>1. PICK c \in Conns : fdt[new_sock] = <<c, "in">> /\ RemoteUnseen(c) /\ new_sock \in Fd
  BY DEF TryConnectionOk, IInv, Connecting
<1>2. RemoteEnd = <<c, "out">> /\ <<c, "out">> \in End /\ peer[<<c, "out">>] = "none"
  BY <1>1 DEF RemoteEnd, ClientEnd, Mate, End, RemoteUnseen
<1>3. /\ pc = "connect" /\ pc' = "handle" /\ UNCHANGED <<backlog, wrote, sent, nread>>
      /\ peer' = [peer EXCEPT ![<<c, "out">>] = "open"]
  BY <1>2 DEF TryConnectionOk, Continue
<1>4. connBar[c] = "open"
  BY <1>1, OpenConn DEF Held
<1>5. PICK t \in VMCISock_GetAFValue(fdt) : \E f \in LowestFree(t) :
        fdt' = [t EXCEPT ![f] = <<c, "out">>]
  BY <1>2 DEF TryConnectionOk
<1>6. PICK f \in LowestFree(t) : fdt' = [t EXCEPT ![f] = <<c, "out">>]
  BY <1>5
<1>7. f \in Fd /\ fdt[f] = Free /\ fdt'[f] = <<c, "out">>
      /\ \A g \in Fd, e \in End : g # f => (fdt'[g] = e <=> fdt[g] = e)
  BY <1>6, LeakInv DEF LowestFree
<1>8. \A e \in End : Held(e)' <=> Held(e) \/ e = <<c, "out">>
  BY <1>2, <1>7, Descriptors DEF Held
<1>9. \A d \in Conns : /\ <<d, "in">> \in End /\ <<d, "in">> # <<c, "out">>
                       /\ peer'[<<d, "in">>] = peer[<<d, "in">>]
  BY <1>3 DEF End, IInv, TypeOK
<1>10. connBar' = connBar
  BY <1>3, <1>8, <1>9, SameConn DEF Queued
<1>11. Alive /\ Alive'
  BY <1>3 DEF Alive
<1>12. Promise!Reach(c)
  BY <1>2, <1>3, <1>4, <1>10, <1>11 DEF Promise!Reach
<1> QED
  BY <1>12

LEMMA SimRefused ==
  ASSUME IInv, TryConnectionRefused
  PROVE  UNCHANGED Promise!vars
<1>1. \A f \in Fd, e \in End : fdt'[f] = e <=> fdt[f] = e
  BY LeakInv DEF TryConnectionRefused
<1>2. /\ pc = "connect" /\ pc' = "handle" /\ UNCHANGED Seen /\ backlog' = backlog
  BY DEF TryConnectionRefused, Continue, Seen, remote
<1>3. \A c \in Conns : Held(<<c, "in">>)' <=> Held(<<c, "in">>)
  BY <1>1 DEF Held, End
<1>4. connBar' = connBar
  BY <1>2, <1>3, SameConn DEF Queued, Seen
<1> QED
  BY <1>2, <1>4, Invisible DEF Alive

LEMMA SimWrite ==
  ASSUME IInv, OutWithIn, StreamInv, StreamInv', BridgedWrite
  PROVE  (\E e \in End : Promise!Deliver(e)) \/ UNCHANGED Promise!vars
<1> DEFINE e == SocketIn
           o == Mate(e)
           n == Len(wrote'[o])
<1>1. /\ e \in End /\ o \in End /\ SocketOut = o
      /\ pc = "write" /\ (pc' = "write" \/ pc' = "handle")
      /\ peer[o] \in {"open", "fin"}
      /\ UNCHANGED <<fdt, backlog, remote>>
      /\ \E s : wrote' = [wrote EXCEPT ![o] = wrote[o] \o s]
  BY FiredEnd, Mates DEF BridgedWrite, Continue
<1>2. Alive /\ Alive' /\ Held(e)
  BY <1>1, WholeWrite DEF Alive
<1>3. connBar' = connBar
  BY <1>1, SameConn DEF Queued, Held, remote
<1>4. connBar[e[1]] = "open"
  <2>1. e[1] \in Conns /\ (e = <<e[1], "in">> \/ e = <<e[1], "out">>)
    BY <1>1 DEF End
  <2>2. Held(<<e[1], "in">>)
    BY <1>2, <2>1 DEF OutWithIn
  <2> QED
    BY <2>1, <2>2, OpenConn
<1>5. /\ wrote[o] = Stream(e, Len(wrote[o]))
      /\ wrote'[o] = Stream(e, n) /\ n <= sent[e]
  BY <1>1 DEF StreamInv, Prefixes, Stream, remote
<1>6. wrote' = [wrote EXCEPT ![o] = wrote'[o]]
  BY <1>1 DEF IInv, TypeOK
<1>7. n \in Nat /\ Len(wrote[o]) \in Nat /\ sent[e] \in Nat /\ Len(wrote[o]) <= n
  <2>1. wrote[o] \in Seq(Item)
    BY <1>1 DEF IInv, TypeOK
  <2>2. wrote'[o] \in Seq(Item)
    <3>1. IInv'
      BY Inductive DEF Next, Process
    <3> QED
      BY <1>1, <3>1 DEF IInv, TypeOK
  <2>3. wrote'[o] = wrote[o] \o Take(buffer, MinOf(Room, Len(buffer)))
    BY <1>1 DEF BridgedWrite, IInv, TypeOK
  <2>4. Take(buffer, MinOf(Room, Len(buffer))) \in Seq(Item)
    <3> DEFINE k == MinOf(Room, Len(buffer))
    <3>1. /\ buffer \in Seq(Item) /\ Len(buffer) \in Nat
          /\ Len(wrote[o]) \in Nat /\ nread[o] \in Nat
      BY <1>1, LenProperties DEF IInv, TypeOK
    <3>2. k \in Nat /\ k <= Len(buffer)
      BY <1>1, <3>1, NumbersAssumption DEF MinOf, Room, BridgedWrite
    <3> HIDE DEF k
    <3>3. Take(buffer, k) \in Seq(Item)
      BY <3>1, <3>2, SubSeqType
    <3> QED
      BY <3>3 DEF k
  <2>5. Len(wrote'[o]) = Len(wrote[o]) + Len(Take(buffer, MinOf(Room, Len(buffer))))
    BY <2>1, <2>3, <2>4, ConcatProperties
  <2>6. sent[e] \in Nat
    BY <1>1, NumbersAssumption DEF IInv, TypeOK
  <2> QED
    BY <2>1, <2>2, <2>4, <2>5, <2>6, LenProperties
<1> HIDE DEF e, o, n
<1>8. CASE n = Len(wrote[o])
  <2>1. wrote' = wrote
    BY <1>1, <1>5, <1>6, <1>8 DEF IInv, TypeOK
  <2> QED
    BY <1>1, <1>2, <1>3, <2>1, Invisible DEF Seen, remote
<1>9. CASE n # Len(wrote[o])
  <2>1. n \in (Len(wrote[o]) + 1)..sent[e]
    BY <1>5, <1>7, <1>9
  <2>2. wrote' = [wrote EXCEPT ![o] = Stream(e, n)]
    BY <1>5, <1>6
  <2>3. Promise!Deliver(e)
    BY <1>1, <1>2, <1>3, <1>4, <2>1, <2>2, RelayTerms DEF Promise!Deliver, remote, o
  <2> QED
    BY <1>1, <2>3
<1> QED
  BY <1>8, <1>9

LEMMA SimEof ==
  ASSUME IInv, OutWithIn, StreamInv, BridgedEof
  PROVE  \E c \in Conns : Promise!CloseConn(c)
<1>1. PICK e \in End, s \in Fd, o \in Fd :
      /\ fdt[s] = e /\ fdt[o] = Mate(e)
      /\ pc = "handle" /\ pc' = "handle" /\ UNCHANGED <<backlog, wrote, remote>>
      /\ fdt' = Closed(fdt, {s, o})
      /\ rx[e] = <<>> /\ peer[e] \in {"fin", "gone"}
  BY FiredEnd DEF BridgedEof, SocketIn, SocketOut, FiredBridge, Fired, Visited, Continue
<1>2. PICK c \in Conns :
         /\ e \in {<<c, "in">>, <<c, "out">>}
         /\ {e, Mate(e)} = {<<c, "in">>, <<c, "out">>}
  BY <1>1 DEF End, Mate
<1>3. Held(e) /\ Held(<<c, "in">>) /\ Alive /\ Alive'
  BY <1>1, <1>2 DEF Held, Alive
<1>4. wrote[Mate(e)] = Stream(e, sent[e]) \/ peer[Mate(e)] = "gone"
  <2> SUFFICES ASSUME peer[Mate(e)] # "gone"
               PROVE  wrote[Mate(e)] = Stream(e, sent[e])
    OBVIOUS
  <2>1. Whole(e) = Stream(e, sent[e])
    BY <1>1, <1>3 DEF StreamInv, NothingMissing
  <2>2. Whole(e) = wrote[Mate(e)] \o <<>> \o <<>>
    BY <1>1 DEF Whole, InFlight
  <2>3. wrote[Mate(e)] \o <<>> \o <<>> = wrote[Mate(e)]
    BY <1>1, WholeTypes, ConcatEmptySeq
  <2> QED
    BY <2>1, <2>2, <2>3
<1>5. ~Held(<<c, "in">>)'
  <2>1. \A f \in Fd : fdt[f] = <<c, "in">> => f \in {s, o}
    BY <1>1, <1>2, Mates DEF IInv, OneFdPerEnd
  <2>2. <<c, "in">> # Free
    BY <1>2, Descriptors DEF End
  <2>3. \A f \in Fd : fdt'[f] # <<c, "in">>
    BY <1>1, <2>1, <2>2 DEF Closed
  <2> QED
    BY <2>3 DEF Held
<1>6. ~Queued(c) /\ peer[<<c, "in">>] # "none"
  BY <1>2, <1>3 DEF IInv, Lifecycle, ClientUnseen
<1>7. \A d \in Conns : d # c => (Held(<<d, "in">>)' <=> Held(<<d, "in">>))
  <2> SUFFICES ASSUME NEW d \in Conns, d # c
               PROVE  Held(<<d, "in">>)' <=> Held(<<d, "in">>)
    OBVIOUS
  <2>1. <<d, "in">> \in End /\ <<d, "in">> \notin {e, Mate(e)}
    BY <1>2 DEF End
  <2> QED
    BY <1>1, <2>1, Descriptors DEF Held, Closed
<1>8. connBar[c] = "open"
  BY <1>2, <1>3, OpenConn
<1>9. connBar' = [connBar EXCEPT ![c] = "closed"]
  <2>1. peer' = peer /\ \A d \in Conns : Queued(d)' <=> Queued(d)
    BY <1>1 DEF Queued, remote
  <2>2. \A d \in Conns : connBar'[d] = IF d = c THEN "closed" ELSE connBar[d]
    BY <1>2, <1>5, <1>6, <1>7, <2>1 DEF connBar
  <2>3. /\ connBar = [d \in Conns |-> connBar[d]]
        /\ connBar' = [d \in Conns |-> connBar'[d]]
    BY DEF connBar
  <2> HIDE DEF connBar
  <2> QED
    BY <1>2, <2>2, <2>3
<1>10. Promise!CloseConn(c)
  BY <1>1, <1>2, <1>3, <1>4, <1>8, <1>9, RelayTerms DEF Promise!CloseConn, remote
<1> QED
  BY <1>2, <1>10

\* The process goes down: for want of a descriptor only where they may run
\* out, otherwise because a peer finished.
LEMMA SimDown ==
  ASSUME IsFiniteSet(Conns), "short" \notin Env, IInv, RelayInv,
         AcceptFails \/ TryConnectionExits \/ BridgedWriteFails
           \/ (StaleHandler /\ pc' = "aborted")
  PROVE  Promise!GoDown
<1>1. /\ pc \in {"handle", "connect", "write"} /\ pc' \in {"exited", "aborted"}
      /\ UNCHANGED <<fdt, backlog, Seen>>
  BY DEF AcceptFails, TryConnectionExits, BridgedWriteFails, StaleHandler, Continue,
         Stop, Fired, Visited, kernel, remote, Seen
<1>2. connBar' = connBar
  BY <1>1, SameConn DEF Queued, Held, Seen
<1>3. Alive /\ Alive' = FALSE
  BY <1>1 DEF Alive
<1>4. ~EnoughFds \/ "bind" \in Env \/ \E e \in End : peer[e] \in {"fin", "gone"}
  <2>1. CASE AcceptFails
    <3>1. backlog \in Seq(Conns) /\ backlog # <<>>
      BY <2>1 DEF AcceptFails, IInv, TypeOK
    <3>2. PICK c \in Conns : c = Head(backlog) /\ Queued(c)
      <4>1. 1 \in DOMAIN backlog /\ Head(backlog) = backlog[1] /\ Head(backlog) \in Conns
        BY <3>1, LenProperties, EmptySeq, HeadTailProperties
      <4> QED
        BY <4>1 DEF Queued
    <3>3. <<c, "in">> \in End /\ ~Held(<<c, "in">>) /\ ~Tried(c)
      BY <3>2 DEF End, IInv, Lifecycle, Tried
    <3>4. CASE LowestFree(fdt) = {}
      <4>1. \A t \in VMCISock_GetAFValue(fdt) : LowestFree(t) = {}
        BY <3>4 DEF VMCISock_GetAFValue
      <4>2. <<c, "in">>[1] = c
        OBVIOUS
      <4> QED
        BY <3>3, <4>1, <4>2, TableNotFull DEF RelayInv
    <3>5. CASE peer[<<Head(backlog), "in">>] = "gone"
      BY <3>2, <3>3, <3>5
    <3> QED
      BY <2>1, <3>4, <3>5 DEF AcceptFails
  <2>2. CASE TryConnectionExits
    <3>1. PICK c \in Conns : fdt[new_sock] = <<c, "in">> /\ RemoteUnseen(c)
      BY <2>2 DEF TryConnectionExits, IInv, Connecting
    <3>2. /\ <<c, "out">> \in End /\ <<c, "out">>[1] = c
          /\ ~Held(<<c, "out">>) /\ ~Tried(c)
      BY <2>2, <3>1 DEF TryConnectionExits, End, RemoteUnseen, Tried, ClientEnd
    <3> QED
      BY <2>2, <3>2, TableNotFull DEF TryConnectionExits, RelayInv
  <2>3. CASE BridgedWriteFails
    <3>1. peer[SocketOut] = "gone" /\ pc = "write"
      BY <2>3 DEF BridgedWriteFails
    <3>2. SocketOut \in End
      BY <3>1, FiredEnd, Mates
    <3> QED
      BY <3>1, <3>2
  <2>4. CASE StaleHandler
    <3>1. pos \in 1..Len(Elems) /\ Elems[pos].deleted
      BY <2>4, LenProperties DEF StaleHandler, Fired, Visited, Entry, Elems, IInv, TypeOK
    <3> QED
      BY <3>1 DEF RelayInv, MarksExplained
  <2> QED
    BY <2>1, <2>2, <2>3, <2>4
<1> QED
  BY <1>1, <1>2, <1>3, <1>4, RelayTerms DEF Promise!GoDown, Seen

\* What the peers do not see.
LEMMA SimSilent ==
  ASSUME \/ RemoveMarked \/ EnterSelect \/ SelectReturns \/ SelectFails
         \/ SkipEntry \/ PassDone \/ BridgedRead \/ BridgedWriteLoses
         \/ (StaleHandler /\ pc' # "aborted") \/ UNCHANGED vars
  PROVE  UNCHANGED Promise!vars
<1>1. UNCHANGED <<fdt, backlog, Seen>>
  BY DEF RemoveMarked, EnterSelect, SelectReturns, SelectFails, SkipEntry, PassDone,
         BridgedRead, BridgedWriteLoses, StaleHandler, Stop, vars, kernel, remote, Seen
<1>2. Alive' <=> Alive
  BY DEF RemoveMarked, EnterSelect, SelectReturns, SelectFails, ReturnToLoop, SkipEntry,
         PassDone, BridgedRead, BridgedWriteLoses, StaleHandler, Stop, Continue,
         FiredBridge, Fired, Visited, vars, local, Alive
<1>3. connBar' = connBar
  BY <1>1, SameConn DEF Queued, Held, Seen
<1> QED
  BY <1>1, <1>2, <1>3, Invisible

LEMMA Simulation ==
  ASSUME IsFiniteSet(Conns), "short" \notin Env, IInv, RelayInv, StreamInv, StreamInv',
         [Next]_vars
  PROVE  [Promise!Next]_(Promise!vars)
<1>1. OutWithIn
  BY DEF RelayInv
<1>2. CASE \/ AcceptFails \/ TryConnectionExits \/ BridgedWriteFails
           \/ (StaleHandler /\ pc' = "aborted")
  BY <1>2, SimDown DEF Promise!Next
<1>3. CASE \/ RemoveMarked \/ EnterSelect \/ SelectReturns \/ SelectFails
           \/ SkipEntry \/ PassDone \/ BridgedRead \/ BridgedWriteLoses
           \/ (StaleHandler /\ pc' # "aborted") \/ UNCHANGED vars
  BY <1>3, SimSilent
<1>4. CASE SocketAccept \/ TryConnectionRefused
  BY <1>4, SimAccept, SimRefused
<1>5. CASE TryConnectionOk
  BY <1>5, SimReach DEF Promise!Next
<1>6. CASE BridgedWrite
  BY <1>1, <1>6, SimWrite, RelayTerms DEF Promise!Next
<1>7. CASE BridgedEof
  BY <1>1, <1>7, SimEof DEF Promise!Next
<1>8. CASE \E c \in Conns : ClientConnect(c)
  BY <1>8, SimConnect DEF Promise!Next
<1>9. CASE \E e \in End : PeerSend(e) \/ PeerShutdown(e) \/ PeerClose(e) \/ PeerRead(e)
  BY <1>1, <1>9, SimPeer, RelayTerms DEF Promise!Next
<1> QED
  BY <1>2, <1>3, <1>4, <1>5, <1>6, <1>7, <1>8, <1>9 DEF Next, Process, Peers

\* For any finite number of clients the event loop is a relay, where no signal
\* cuts writes short: connections end because of their own peers and after
\* their own data, and, with a descriptor for every end and no failing bind,
\* the process goes down only after a peer finished.
THEOREM Implements ==
  ASSUME IsFiniteSet(Conns), "short" \notin Env
  PROVE  Spec => ImplementsRelay
<1>1. Init => Promise!Init
  <2> SUFFICES ASSUME Init PROVE Promise!Init
    OBVIOUS
  <2>1. connBar = [c \in Conns |-> "idle"]
    <3>1. \A c \in Conns : peer[<<c, "in">>] = "none"
      BY DEF Init, End
    <3> QED
      BY <3>1 DEF connBar
  <2>2. Alive = TRUE
    BY DEF Init, Alive
  <2> QED
    BY <2>1, <2>2, RelayTerms DEF Init, Promise!Init
<1>2. Init => RelayInv /\ StreamInv
  BY RelayInvInit, StreamInvInit
<1>3. IInv /\ RelayInv /\ StreamInv /\ [Next]_vars => RelayInv' /\ StreamInv'
  BY RelayInvStep, StreamInvStep
<1>4. IInv /\ RelayInv /\ StreamInv /\ StreamInv' /\ [Next]_vars
        => [Promise!Next]_(Promise!vars)
  BY Simulation
<1> QED
  BY <1>1, <1>2, <1>3, <1>4, Invariance, PTL DEF Spec, ImplementsRelay, Promise!Spec
=============================================================================
