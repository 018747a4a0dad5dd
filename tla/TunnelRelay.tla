---------------------------- MODULE TunnelRelay ----------------------------
(* The event loop of Tunnel implements Relay.                              *)
EXTENDS Tunnel

\* Descriptors for every connection at once: two each, and one more where
\* VMCISock_GetAFValue leaks.
EnoughFds ==
  MaxFd - ListenFd > (IF AfLeak THEN 3 ELSE 2) * Cardinality(Conns)

connBar ==
  [c \in Conns |-> IF peer[<<c, "in">>] = "none" THEN "idle"
                   ELSE IF Queued(c) \/ Held(<<c, "in">>) THEN "open"
                   ELSE "closed"]

Promise == INSTANCE Relay WITH
             conn <- connBar, up <- Alive,
             MayFail <- ~EnoughFds \/ "bind" \in Env

\* Seen from its peers the tunnel is a relay: connections end only after
\* their own data, streams are prefixes, a descriptor closed for one
\* connection never closes another, and the process dies only after a peer
\* finished (all handlers of vsockets_nc.c, the loop of sockets_common.c).
ImplementsRelay == Promise!Spec
=============================================================================
