---------------------------- MODULE MCHostReport ----------------------------
(* HostReport for TLC: networks over one pattern of network bits, with       *)
(* prefixes that end at an octet's border and within an octet.               *)
EXTENDS HostReportInv

Pattern == [i \in 0..3 |-> {i % OctetBits}]

NetworkOf(a, p) ==
  [mask  |-> Prefix(p),
   bcast |-> [i \in 0..3 |-> a[i] \cup ((0..(OctetBits - 1)) \ Prefix(p)[i])]]

MCListedNetworks ==
  {<<>>} \cup {<<NetworkOf(Pattern, p)>> : p \in {0, 1, 4, 7, 8}}
  \cup {<<NetworkOf(Pattern, OctetBits), NetworkOf(Pattern, 3 * OctetBits)>>}
=============================================================================
