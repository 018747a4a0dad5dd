-------------------------- MODULE InteractiveSession --------------------------
(* Client and listening mode, on Linux and on Windows, implement Session.    *)
EXTENDS InteractiveInv

connBar ==
  [c \in Conns |-> IF peer[c] = "none" THEN "idle"
                   ELSE IF Queued(c) \/ Held(c) THEN "open" ELSE "closed"]

\* Descriptors for every connection at once, besides the standard ones and the
\* listening socket; a kernel that leaks devices uses them up.
EnoughFds == MaxFd - 4 >= Cardinality(Conns) /\ ~leak

\* How many of the typed items went to connections.
dealtBar == typed - Len(ToSend)

Promise == INSTANCE Session WITH
             User <- Stdin, conn <- connBar, up <- Alive, dealt <- dealtBar,
             seesEnd <- platform = "linux", canShow <- tty,
             scarce <- Mode = "listen" /\ ~EnoughFds

\* Seen by its user and its peers, the program is a session: a connection is
\* closed only after everything its peer sent has appeared or everything typed
\* was dealt out, although entries of other connections get marked and
\* removed; the process does not stop before something ended; on Windows the
\* end of the standard input ends nothing (all handlers of vsockets_nc.c, the
\* loop and the thread of sockets_common.c).
ImplementsSession == Promise!Spec
=============================================================================
