------------------------------- MODULE Session -------------------------------
(***************************************************************************)
(* What client and listening mode promise one user and the peers, without  *)
(* descriptors, lists, buffers or a thread.  What a peer sends appears on  *)
(* the terminal; what is typed is dealt out to the connections.  Both in   *)
(* order, in pieces of any size, with nothing left out but what is written *)
(* to a peer that is gone.  A connection ends only after everything its    *)
(* peer sent has appeared, or everything typed was dealt out.  The program *)
(* goes down only when something ended or where it may run out of          *)
(* something.                                                              *)
(***************************************************************************)
EXTENDS Integers, Sequences

CONSTANTS Conns, MaxSend, MaxTyped,
          User        \* whose items the typed ones are

VARIABLES conn, peer, sent, typed, eof,
          dealt,      \* how many typed items were dealt out
          wrote, terminal, up,
          seesEnd,    \* fixed: the end of what is typed is noticed
          canShow,    \* fixed: the terminal can be written
          scarce      \* fixed: a connection may find no room

fixed == <<seesEnd, canShow, scarce>>
vars  == <<conn, peer, sent, typed, eof, dealt, wrote, terminal, up, fixed>>

Items(s, m, n) == [k \in 1..(n - m) |-> <<s, m + k>>]
Finished(c)    == peer[c] \in {"fin", "gone"}
Shown(c)       == {terminal[i][2] : i \in {j \in DOMAIN terminal : terminal[j][1] = c}}
AllShown(c)    == Shown(c) = 1..sent[c]
InputEnded     == eof /\ seesEnd

Open(c) ==
  /\ up /\ conn[c] = "idle"
  /\ conn' = [conn EXCEPT ![c] = "open"]
  /\ peer' = [peer EXCEPT ![c] = "open"]
  /\ UNCHANGED <<sent, typed, eof, dealt, wrote, terminal, up, fixed>>

Send(c) ==
  /\ up /\ conn[c] = "open" /\ peer[c] = "open" /\ sent[c] < MaxSend
  /\ sent' = [sent EXCEPT ![c] = @ + 1]
  /\ UNCHANGED <<conn, peer, typed, eof, dealt, wrote, terminal, up, fixed>>

Finish(c) ==
  /\ up /\ peer[c] = "open"
  /\ \E how \in {"fin", "gone"} : peer' = [peer EXCEPT ![c] = how]
  /\ UNCHANGED <<conn, sent, typed, eof, dealt, wrote, terminal, up, fixed>>

Type ==
  /\ up /\ ~eof /\ typed < MaxTyped
  /\ typed' = typed + 1
  /\ UNCHANGED <<conn, peer, sent, eof, dealt, wrote, terminal, up, fixed>>

EndInput ==
  /\ up /\ ~eof
  /\ eof' = TRUE
  /\ UNCHANGED <<conn, peer, sent, typed, dealt, wrote, terminal, up, fixed>>

\* The next of what c's peer sent appears.
Show(c) ==
  /\ up /\ conn[c] = "open" /\ canShow
  /\ \E m \in 0..sent[c] : \E n \in (m + 1)..sent[c] :
       /\ Shown(c) = 1..m
       /\ terminal' = terminal \o Items(c, m, n)
  /\ UNCHANGED <<conn, peer, sent, typed, eof, dealt, wrote, up, fixed>>

\* The next of what was typed goes to c, and nowhere if its peer is gone.
Deal(c) ==
  /\ up /\ conn[c] = "open"
  /\ dealt' \in (dealt + 1)..typed
  /\ wrote' = IF peer[c] = "gone" THEN wrote
              ELSE [wrote EXCEPT ![c] = @ \o Items(User, dealt, dealt')]
  /\ UNCHANGED <<conn, peer, sent, typed, eof, terminal, up, fixed>>

CloseConn(c) ==
  /\ up /\ conn[c] = "open"
  /\ \/ Finished(c) /\ AllShown(c)
     \/ InputEnded /\ dealt = typed
  /\ conn' = [conn EXCEPT ![c] = "closed"]
  /\ UNCHANGED <<peer, sent, typed, eof, dealt, wrote, terminal, up, fixed>>

\* What is under way is lost.
GoDown ==
  /\ up
  /\ \/ scarce \/ InputEnded
     \/ \E c \in Conns : Finished(c) \/ (~canShow /\ ~AllShown(c))
  /\ up' = FALSE /\ dealt' \in dealt..typed
  /\ UNCHANGED <<conn, peer, sent, typed, eof, wrote, terminal, fixed>>

\* A client has its connection from the start.
Init ==
  /\ conn \in [Conns -> {"idle", "open"}]
  /\ peer = [c \in Conns |-> IF conn[c] = "open" THEN "open" ELSE "none"]
  /\ sent = [c \in Conns |-> 0] /\ typed = 0 /\ eof = FALSE /\ dealt = 0
  /\ wrote = [c \in Conns |-> <<>>] /\ terminal = <<>> /\ up = TRUE
  /\ seesEnd \in BOOLEAN /\ canShow \in BOOLEAN /\ scarce \in BOOLEAN

Next ==
  \/ Type \/ EndInput \/ GoDown
  \/ \E c \in Conns : Open(c) \/ Send(c) \/ Finish(c) \/ Show(c) \/ Deal(c) \/ CloseConn(c)

Spec == Init /\ [][Next]_vars
=============================================================================
