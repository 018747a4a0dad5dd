------------------------------- MODULE Relay -------------------------------
(***************************************************************************)
(* What a relay promises its peers, without descriptors, lists or          *)
(* buffers.  Each connection has two ends, each with a peer; whatever one  *)
(* peer sends is written towards the other, in order and in pieces of any  *)
(* size.  A connection ends because one of its own peers finished, after   *)
(* everything that peer sent was passed on.  The relay as a whole goes     *)
(* down only when some peer finished, or where it may run out of something.*)
(***************************************************************************)
EXTENDS Naturals, Sequences

CONSTANTS Conns, MaxSend,
          MayFail     \* the relay may go down although no peer finished

VARIABLES conn, peer, sent, wrote, nread, up

vars == <<conn, peer, sent, wrote, nread, up>>

End           == Conns \X {"in", "out"}
Mate(e)       == <<e[1], IF e[2] = "in" THEN "out" ELSE "in">>
Stream(e, n)  == [k \in 1..n |-> <<e, k>>]
Finished(e)   == peer[e] \in {"fin", "gone"}

\* A client appears.
Open(c) ==
  /\ up /\ conn[c] = "idle"
  /\ conn' = [conn EXCEPT ![c] = "open"]
  /\ peer' = [peer EXCEPT ![<<c, "in">>] = "open"]
  /\ UNCHANGED <<sent, wrote, nread, up>>

\* The other end is reached.
Reach(c) ==
  /\ up /\ conn[c] = "open" /\ peer[<<c, "out">>] = "none"
  /\ peer' = [peer EXCEPT ![<<c, "out">>] = "open"]
  /\ UNCHANGED <<conn, sent, wrote, nread, up>>

Send(e) ==
  /\ up /\ conn[e[1]] = "open" /\ peer[e] = "open" /\ sent[e] < MaxSend
  /\ sent' = [sent EXCEPT ![e] = @ + 1]
  /\ UNCHANGED <<conn, peer, wrote, nread, up>>

Finish(e) ==
  /\ up /\ peer[e] \in {"open", "fin"}
  /\ \E how \in {"fin", "gone"} : peer' = [peer EXCEPT ![e] = how]
  /\ UNCHANGED <<conn, sent, wrote, nread, up>>

\* More of what e's peer sent is passed on.
Deliver(e) ==
  /\ up /\ conn[e[1]] = "open" /\ peer[Mate(e)] \in {"open", "fin"}
  /\ \E n \in (Len(wrote[Mate(e)]) + 1)..sent[e] :
       wrote' = [wrote EXCEPT ![Mate(e)] = Stream(e, n)]
  /\ UNCHANGED <<conn, peer, sent, nread, up>>

Receive(e) ==
  /\ peer[e] \in {"open", "fin"} /\ nread[e] < Len(wrote[e])
  /\ nread' = [nread EXCEPT ![e] = Len(wrote[e])]
  /\ UNCHANGED <<conn, peer, sent, wrote, up>>

CloseConn(c) ==
  /\ up /\ conn[c] = "open"
  /\ \E e \in {<<c, "in">>, <<c, "out">>} :
       /\ Finished(e)
       /\ wrote[Mate(e)] = Stream(e, sent[e]) \/ peer[Mate(e)] = "gone"
  /\ conn' = [conn EXCEPT ![c] = "closed"]
  /\ UNCHANGED <<peer, sent, wrote, nread, up>>

GoDown ==
  /\ up
  /\ MayFail \/ \E e \in End : Finished(e)
  /\ up' = FALSE
  /\ UNCHANGED <<conn, peer, sent, wrote, nread>>

Init ==
  /\ conn = [c \in Conns |-> "idle"] /\ peer = [e \in End |-> "none"]
  /\ sent = [e \in End |-> 0] /\ nread = [e \in End |-> 0]
  /\ wrote = [e \in End |-> <<>>]
  /\ up = TRUE

Next ==
  \/ GoDown
  \/ \E c \in Conns : Open(c) \/ Reach(c) \/ CloseConn(c)
  \/ \E e \in End : Send(e) \/ Finish(e) \/ Deliver(e) \/ Receive(e)

Spec == Init /\ [][Next]_vars
=============================================================================
