-------------------------- MODULE SocketListProofs --------------------------
(***************************************************************************)
(* What the operations of the socket list do when the list's position is   *)
(* at the rear, where every operation of the program leaves it, and what   *)
(* the proofs about streams need to know of sequences.                     *)
(***************************************************************************)
EXTENDS SocketList, SequenceTheorems, TLAPS

\* The list with elements s and its position at the rear.
AtRear(s) == [elems |-> s, curr |-> Len(s)]

\* Inserting appends (socket_list_insert).
LEMMA InsertAtRear ==
  ASSUME NEW S, NEW s \in Seq(S), NEW e \in S
  PROVE  list_insert_after(AtRear(s), e) = AtRear(Append(s, e))
<1>1. SubSeq(s, 1, Len(s)) = s
  BY SubSeqFull
<1>2. SubSeq(s, Len(s) + 1, Len(s)) = <<>>
  BY SubSeqEmpty, LenProperties
<1>3. s \o <<e>> \o <<>> = Append(s, e)
  BY ConcatEmptySeq, ConcatProperties, AppendIsConcat
<1>4. Len(Append(s, e)) = Len(s) + 1
  BY AppendProperties
<1> QED
  BY <1>1, <1>2, <1>3, <1>4 DEF list_insert_after, AtRear

\* Removing the current element drops the last entry, whichever entry the
\* traversal had found (list_remove_curr in the removal loop).
LEMMA RemoveAtRear ==
  ASSUME NEW S, NEW s \in Seq(S), Len(s) > 0
  PROVE  list_remove_curr(AtRear(s)) = AtRear(SubSeq(s, 1, Len(s) - 1))
<1>1. SubSeq(s, Len(s) + 1, Len(s)) = <<>>
  BY SubSeqEmpty, LenProperties
<1>2. /\ SubSeq(s, 1, Len(s) - 1) \in Seq(S)
      /\ Len(SubSeq(s, 1, Len(s) - 1)) = Len(s) - 1
  <2> DEFINE n == Len(s) - 1
  <2>1. n \in Nat /\ \A i \in 1..n : s[i] \in S
    BY ElementOfSeq, LenProperties
  <2> HIDE DEF n
  <2>2. /\ SubSeq(s, 1, n) \in Seq(S)
        /\ Len(SubSeq(s, 1, n)) = IF 1 <= n THEN n - 1 + 1 ELSE 0
    BY <2>1, SubSeqProperties
  <2>3. Len(SubSeq(s, 1, n)) = n
    BY <2>1, <2>2
  <2> QED
    BY <2>2, <2>3 DEF n
<1>3. SubSeq(s, 1, Len(s) - 1) \o <<>> = SubSeq(s, 1, Len(s) - 1)
  BY <1>2, ConcatEmptySeq
<1> QED
  BY <1>1, <1>2, <1>3 DEF list_remove_curr, AtRear

\* Deleting keeps every entry and its place, and changes nothing but marks
\* (socket_list_delete).
LEMMA DeleteOnlyMarks ==
  ASSUME NEW Fds, NEW Contexts,
         NEW s \in Seq(SOCKET_ENTRY(Fds, Contexts)), NEW fd
  PROVE  LET d == socket_list_delete(AtRear(s), fd) IN
         /\ d = AtRear(d.elems)
         /\ d.elems \in Seq(SOCKET_ENTRY(Fds, Contexts))
         /\ Len(d.elems) = Len(s)
         /\ \A i \in 1..Len(s) :
              /\ d.elems[i].socket = s[i].socket
              /\ d.elems[i].handler = s[i].handler
              /\ d.elems[i].context = s[i].context
              /\ d.elems[i].deleted <=>
                   (s[i].deleted \/ IsFirst(AtRear(s), fd, i))
<1> DEFINE E == SOCKET_ENTRY(Fds, Contexts)
           f == [i \in DOMAIN s |->
                   [s[i] EXCEPT !.deleted = @ \/ IsFirst(AtRear(s), fd, i)]]
<1>1. /\ Len(s) \in Nat /\ DOMAIN s = 1..Len(s)
      /\ \A i \in 1..Len(s) : s[i] \in E
  BY LenProperties, ElementOfSeq
<1>2. \A i \in 1..Len(s) :
        /\ f[i] \in E
        /\ f[i].socket = s[i].socket
        /\ f[i].handler = s[i].handler
        /\ f[i].context = s[i].context
        /\ f[i].deleted <=> (s[i].deleted \/ IsFirst(AtRear(s), fd, i))
  BY <1>1 DEF SOCKET_ENTRY
<1>3. f \in Seq(E) /\ Len(f) = Len(s)
  <2>1. f \in [1..Len(s) -> E]
    BY <1>1, <1>2
  <2> QED
    BY <2>1, <1>1
<1>4. socket_list_delete(AtRear(s), fd) = [elems |-> f, curr |-> Len(s)]
  <2>1. AtRear(s).elems = s /\ AtRear(s).curr = Len(s)
    BY DEF AtRear
  <2> QED
    BY <2>1 DEF socket_list_delete
<1> HIDE DEF f, E
<1>5. /\ socket_list_delete(AtRear(s), fd).elems = f
      /\ socket_list_delete(AtRear(s), fd) = AtRear(f)
  BY <1>3, <1>4 DEF AtRear
<1> QED
  BY <1>2, <1>3, <1>5 DEF E

-----------------------------------------------------------------------------
(* Sequences of items. *)

LEMMA Halves ==
  ASSUME NEW S, NEW s \in Seq(S), NEW n \in Nat, n <= Len(s)
  PROVE  SubSeq(s, 1, n) \o SubSeq(s, n + 1, Len(s)) = s
<1>1. /\ Len(s) \in Nat
      /\ \A i \in 1..n : s[i] \in S
      /\ \A i \in (n + 1)..Len(s) : s[i] \in S
  BY LenProperties, ElementOfSeq
<1> DEFINE m == n + 1
           k == Len(s)
           t == SubSeq(s, 1, n)
           d == SubSeq(s, m, k)
<1>2. /\ t \in Seq(S) /\ Len(t) = n /\ \A i \in 1..n : t[i] = s[i]
  <2>1. /\ t \in Seq(S) /\ Len(t) = IF 1 <= n THEN n - 1 + 1 ELSE 0
        /\ \A i \in 1..(n - 1 + 1) : t[i] = s[1 + i - 1]
    BY <1>1, SubSeqProperties
  <2> QED
    BY <2>1
<1>3. /\ d \in Seq(S) /\ Len(d) = k - n /\ \A i \in 1..(k - n) : d[i] = s[n + i]
  <2>1. m \in Int /\ k \in Int /\ \A i \in m..k : s[i] \in S
    BY <1>1
  <2> HIDE DEF m, k
  <2>2. /\ d \in Seq(S) /\ Len(d) = IF m <= k THEN k - m + 1 ELSE 0
        /\ \A i \in 1..(k - m + 1) : d[i] = s[m + i - 1]
    BY <2>1, SubSeqProperties
  <2> USE DEF m, k
  <2> QED
    BY <1>1, <2>2
<1> HIDE DEF t, d
<1>4. /\ t \o d \in Seq(S) /\ Len(t \o d) = Len(s)
      /\ \A i \in 1..Len(s) : (t \o d)[i] = s[i]
  <2>1. /\ t \o d \in Seq(S) /\ Len(t \o d) = Len(t) + Len(d)
        /\ \A i \in 1..(Len(t) + Len(d)) :
             (t \o d)[i] = IF i <= Len(t) THEN t[i] ELSE d[i - Len(t)]
    BY <1>2, <1>3, ConcatProperties
  <2>2. ASSUME NEW i \in 1..Len(s)
        PROVE  (t \o d)[i] = s[i]
    <3>1. CASE i <= n
      BY <1>1, <1>2, <1>3, <2>1, <3>1
    <3>2. CASE i > n
      <4>1. i - n \in 1..(k - n) /\ n + (i - n) = i
        BY <1>1, <3>2
      <4>2. (t \o d)[i] = d[i - n]
        BY <1>1, <1>2, <1>3, <2>1, <3>2
      <4> QED
        BY <1>3, <4>1, <4>2
    <3>3. i <= n \/ i > n
      BY <1>1
    <3> QED
      BY <3>1, <3>2, <3>3
  <2> QED
    BY <1>1, <1>2, <1>3, <2>1, <2>2
<1>5. t \o d = s
  BY <1>4, SeqEqual
<1> QED
  BY <1>5 DEF t, d, m, k

LEMMA AppendLast ==
  ASSUME NEW S, NEW s \in Seq(S), NEW t \in Seq(S), NEW x \in S
  PROVE  s \o Append(t, x) = Append(s \o t, x)
<1>1. <<x>> \in Seq(S) /\ s \o t \in Seq(S)
  BY ConcatProperties
<1>2. Append(t, x) = t \o <<x>> /\ Append(s \o t, x) = (s \o t) \o <<x>>
  BY <1>1, AppendIsConcat
<1> QED
  BY <1>1, <1>2, ConcatAssociative
=============================================================================
