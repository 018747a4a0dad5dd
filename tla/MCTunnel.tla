------------------------------ MODULE MCTunnel ------------------------------
(* Tunnel for TLC.  Connections are interchangeable: Init, Next and the      *)
(* safety properties treat them alike.                                       *)
EXTENDS TunnelRelay, TunnelInv, TLC

ConnSymmetry == Permutations(Conns)
=============================================================================
