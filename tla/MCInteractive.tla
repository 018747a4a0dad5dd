--------------------------- MODULE MCInteractive ---------------------------
(* Interactive for TLC.                                                      *)
EXTENDS InteractiveSession, TLC

ConnSymmetry == Permutations(Conns)
=============================================================================
