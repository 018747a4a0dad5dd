-------------------------- MODULE HostReportProofs --------------------------
(***************************************************************************)
(* The host report for networks, prefix lengths and hosts of any number,   *)
(* and the backdoor's dump for any number of commands.                     *)
(***************************************************************************)
EXTENDS HostReportInv, FiniteSetTheorems, WellFoundedInduction, TLAPS

-----------------------------------------------------------------------------
(* Sequences. *)

LEMMA AppendRange ==
  ASSUME NEW S, NEW q \in Seq(S), NEW x \in S
  PROVE  Range(Append(q, x)) = Range(q) \cup {x}
<1> DEFINE t == Append(q, x)
<1>1. DOMAIN t = 1..(Len(q) + 1) /\ DOMAIN q = 1..Len(q) /\ Len(q) \in Nat
  OBVIOUS
<1>2. \A i \in 1..(Len(q) + 1) : t[i] = IF i = Len(q) + 1 THEN x ELSE q[i]
  OBVIOUS
<1> HIDE DEF t
<1>3. Range(t) = Range(q) \cup {x}
  BY <1>1, <1>2 DEF Range
<1> QED
  BY <1>3 DEF t

LEMMA EmptyRange == Range(<<>>) = {}
BY DEF Range

-----------------------------------------------------------------------------
(* The sections and what is lost of them. *)

LEMMA SectionsTuple == Len(Sections) = 11 /\ DOMAIN Sections = 1..11
BY DEF Sections

LEMMA SectionNames ==
  /\ Sections[1] = "version" /\ Sections[2] = "bios" /\ Sections[3] = "legacy"
  /\ Sections[4] = "raw" /\ Sections[5] = "guest tools" /\ Sections[6] = "script"
  /\ Sections[7] = "storage" /\ Sections[8] = "networking" /\ Sections[9] = "vsockets"
  /\ Sections[10] = "backdoor" /\ Sections[11] = "networks"
BY DEF Sections

LEMMA SectionsDistinct ==
  \A i, j \in 1..11 : Sections[i] = Sections[j] => i = j
<1> DEFINE Place(s) ==
      CASE s = "version" -> 1 [] s = "bios" -> 2 [] s = "legacy" -> 3 [] s = "raw" -> 4
        [] s = "guest tools" -> 5 [] s = "script" -> 6 [] s = "storage" -> 7
        [] s = "networking" -> 8 [] s = "vsockets" -> 9 [] s = "backdoor" -> 10
        [] OTHER -> 11
<1>1. \A i \in 1..11 : i \in {1, 2, 3, 4, 5, 6, 7, 8, 9, 10, 11}
  OBVIOUS
<1>2. \A i \in 1..11 : Place(Sections[i]) = i
  BY <1>1, SectionNames
<1> HIDE DEF Place
<1> QED
  BY <1>2

LEMMA SectionsRange == Range(Sections) = {Sections[i] : i \in 1..11}
BY SectionsTuple DEF Range

\* No section's name is a stage of the scan or an end.
LEMMA SectionsApart ==
  \A p \in Scanning \cup {"aborted", "ended"} : p \notin Range(Sections)
<1>1. \A i \in 1..11 : i \in {1, 2, 3, 4, 5, 6, 7, 8, 9, 10, 11}
  OBVIOUS
<1>2. \A i \in 1..11 : Sections[i] \notin Scanning \cup {"aborted", "ended"}
  BY <1>1, SectionNames DEF Scanning
<1> QED
  BY <1>2, SectionsRange

LEMMA SectionPlaces == \A i \in 1..11 : Reached(Sections[i]) = i
<1> TAKE i \in 1..11
<1>1. Sections[i] \in Range(Sections)
  BY SectionsRange
<1> DEFINE s    == Sections[i]
           P(j) == Sections[j] = s
<1> HIDE DEF s
<1>2. Reached(s) = CHOOSE j \in DOMAIN Sections : P(j)
  BY <1>1, SectionsApart DEF Reached, s
<1>3. i \in DOMAIN Sections /\ P(i) /\ \A j \in DOMAIN Sections : P(j) => j = i
  BY SectionsTuple, SectionsDistinct DEF s
<1> HIDE DEF P
<1> QED
  BY <1>2, <1>3 DEF s

LEMMA SectionOrder == \A i \in 1..10 : After(Sections[i]) = Sections[i + 1]
<1> TAKE i \in 1..10
<1>1. \A j \in 1..11 : j > 1 /\ Sections[j - 1] = Sections[i] <=> j = i + 1
  BY SectionsDistinct
<1> DEFINE P(j) == j > 1 /\ Sections[j - 1] = Sections[i]
<1>2. (CHOOSE j \in DOMAIN Sections : P(j)) = i + 1
  BY <1>1, SectionsTuple
<1> QED
  BY <1>2 DEF After

LEMMA AfterBackdoor == After("backdoor") = "networks"
<1>1. 10 \in 1..10 /\ 10 + 1 = 11
  OBVIOUS
<1>2. After(Sections[10]) = Sections[11]
  BY <1>1, SectionOrder
<1> QED
  BY <1>2, SectionNames

\* After the sections: the networks, which are the last of them, and the end.
LEMMA LaterPlaces ==
  /\ \A p \in Scanning \cup {"aborted"} : Reached(p) = 11
  /\ Reached("ended") = 12
<1>1. "ended" \notin Scanning \cup {"aborted"}
  BY DEF Scanning
<1> QED
  BY <1>1, SectionsApart, SectionsTuple DEF Reached

\* A section's step: what it needs decides whether it is in the report.
LEMMA CollectedReport ==
  ASSUME TypeOK, ReportRight, NEW i \in 1..10, NEW needs, Collected(Sections[i], needs),
         needs \subseteq tools <=> Sections[i] \notin Lost
  PROVE  ReportRight'
<1>1. pc = Sections[i] /\ pc' = Sections[i + 1]
  BY SectionOrder DEF Collected
<1>2. Reached(pc) = i /\ Reached(pc') = i + 1
  BY <1>1, SectionPlaces
<1>3. Range(report') = IF Sections[i] \notin Lost THEN Range(report) \cup {Sections[i]}
                                                  ELSE Range(report)
  <2>1. Sections[i] \in Range(Sections)
    BY SectionsRange
  <2>2. Range(Append(report, Sections[i])) = Range(report) \cup {Sections[i]}
    BY <2>1, AppendRange DEF TypeOK
  <2> QED
    BY <2>2 DEF Collected
<1>4. Lost' = Lost
  BY DEF Collected, Lost, machine
<1>5. {Sections[k] : k \in 1..i} = {Sections[k] : k \in 1..(i - 1)} \cup {Sections[i]}
  OBVIOUS
<1>6. Range(report') = {Sections[k] : k \in 1..((i + 1) - 1)} \ Lost'
  BY <1>2, <1>3, <1>4, <1>5 DEF ReportRight
<1>7. pc' # "aborted"
  <2>1. Sections[i + 1] \in Range(Sections)
    BY SectionsRange
  <2> QED
    BY <1>1, <2>1, SectionsApart
<1> QED
  BY <1>2, <1>6, <1>7 DEF ReportRight

-----------------------------------------------------------------------------
(* The steps, in groups that change the same. *)

Collects ==
  \/ check_vm_host_version \/ vm_bios_stats \/ vm_guest_legacy_stats \/ vm_host_raw_stats
  \/ vm_guest_tools_stats \/ vm_script_stats \/ vm_storage_stats \/ vm_networking_stats
  \/ vm_scan_vsockets

Dumping == vmguest_backdoor_info \/ BackdumpRuns

LEMMA CollectsSection ==
  ASSUME Collects
  PROVE  \E i \in 1..9, needs \in SUBSET Tools :
           /\ Collected(Sections[i], needs)
           /\ needs \subseteq tools <=> Sections[i] \notin Lost
<1> DEFINE C(i, needs) ==
      Collected(Sections[i], needs) /\ (needs \subseteq tools <=> Sections[i] \notin Lost)
<1>1. CASE check_vm_host_version
  <2>1. C(1, IF esxi THEN {} ELSE {"dmidecode"})
    BY <1>1, SectionNames DEF check_vm_host_version, Lost
  <2> QED
    BY <2>1 DEF Tools
<1>2. CASE vm_host_raw_stats
  <2>1. C(4, {"vmware-toolbox-cmd"})
    BY <1>2, SectionNames DEF vm_host_raw_stats, Lost
  <2> QED
    BY <2>1 DEF Tools
<1>3. CASE vm_bios_stats \/ vm_guest_legacy_stats
  <2>1. C(2, {}) \/ C(3, {})
    BY <1>3, SectionNames DEF vm_bios_stats, vm_guest_legacy_stats, Lost
  <2> QED
    BY <2>1
<1>4. CASE vm_guest_tools_stats \/ vm_script_stats \/ vm_storage_stats
  <2>1. C(5, {}) \/ C(6, {}) \/ C(7, {})
    BY <1>4, SectionNames DEF vm_guest_tools_stats, vm_script_stats, vm_storage_stats, Lost
  <2> QED
    BY <2>1
<1>5. CASE vm_networking_stats \/ vm_scan_vsockets
  <2>1. C(8, {}) \/ C(9, {})
    BY <1>5, SectionNames DEF vm_networking_stats, vm_scan_vsockets, Lost
  <2> QED
    BY <2>1
<1> QED
  BY <1>1, <1>2, <1>3, <1>4, <1>5 DEF Collects

\* What these steps have in common.
LEMMA CollectsFrame ==
  ASSUME Collects
  PROVE  /\ pc \in Range(Sections) \ {"backdoor", "networks"}
         /\ pc' \in Range(Sections) \ {"networks"}
         /\ UNCHANGED <<machine, network, child>>
<1>1. PICK i \in 1..9, needs \in SUBSET Tools : Collected(Sections[i], needs)
  BY CollectsSection
<1>2. pc = Sections[i] /\ pc' = Sections[i + 1] /\ UNCHANGED <<machine, network, child>>
  BY <1>1, SectionOrder DEF Collected
<1>3. Sections[i] \in Range(Sections) /\ Sections[i + 1] \in Range(Sections)
  BY SectionsRange
<1>4. Sections[i] # Sections[10] /\ Sections[i] # Sections[11] /\ Sections[i + 1] # Sections[11]
  BY SectionsDistinct
<1>5. Sections[i] # "backdoor" /\ Sections[i] # "networks" /\ Sections[i + 1] # "networks"
  BY <1>4, SectionNames
<1> QED
  BY <1>2, <1>3, <1>5

LEMMA MachineKept == ASSUME Next PROVE UNCHANGED machine
<1>1. CASE Collects
  BY <1>1, CollectsFrame
<1>2. CASE Dumping \/ BackdumpEnded
  BY <1>2 DEF Dumping, vmguest_backdoor_info, BackdumpRuns, BackdumpEnded
<1>3. CASE vm_scan_local_networks \/ vm_network_basic_scan
  BY <1>3 DEF vm_scan_local_networks, vm_network_basic_scan
<1>4. CASE Classify \/ Classified
  BY <1>4 DEF Classify, Classified
<1>5. CASE vm_handle_network_hosts \/ NextNetwork \/ Ending
  BY <1>5 DEF vm_handle_network_hosts, NextNetwork, Ending
<1> QED
  BY <1>1, <1>2, <1>3, <1>4, <1>5 DEF Next, Collects, Dumping

LEMMA ReportStep == ASSUME TypeOK, ReportRight, Next PROVE ReportRight'
<1> DEFINE Kept(n) == {Sections[k] : k \in 1..n} \ Lost
<1>1. \A n \in 1..11 : Kept(n) = Kept(n - 1) \cup ({Sections[n]} \ Lost)
  <2> TAKE n \in 1..11
  <2>1. 1..n = 1..(n - 1) \cup {n}
    OBVIOUS
  <2> QED
    BY <2>1
<1>2. Lost' = Lost
  BY MachineKept DEF Lost, machine
<1>3. CASE Collects
  <2>1. PICK i \in 1..9, needs \in SUBSET Tools :
          Collected(Sections[i], needs) /\ (needs \subseteq tools <=> Sections[i] \notin Lost)
    BY <1>3, CollectsSection
  <2> QED
    BY <2>1, CollectedReport
<1>4. CASE Dumping
  BY <1>2, <1>4 DEF Dumping, vmguest_backdoor_info, BackdumpRuns, ReportRight, machine
<1>5. CASE BackdumpEnded
  <2>1. pc = Sections[10] /\ pc' = Sections[11] /\ pc' # "aborted"
    <3>1. pc = "backdoor" /\ pc' = "networks"
      BY <1>5, AfterBackdoor DEF BackdumpEnded
    <3> QED
      BY <3>1, SectionNames
  <2>2. Range(report') = Range(report) \cup {Sections[10]}
    <3>1. report \in Seq(Range(Sections)) /\ Sections[10] \in Range(Sections)
      BY SectionsRange DEF TypeOK
    <3>2. report' = Append(report, Sections[10])
      BY <1>5, SectionNames DEF BackdumpEnded
    <3> QED
      BY <3>1, <3>2, AppendRange
  <2>3. Sections[10] \notin Lost
    BY SectionNames DEF Lost
  <2>4. Reached(pc) = 10 /\ Reached(pc') = 11
    BY <2>1, SectionPlaces
  <2>5. Range(report') = Kept(11 - 1)
    BY <2>2, <2>3, <2>4, <1>1 DEF ReportRight
  <2> QED
    BY <1>2, <2>1, <2>4, <2>5 DEF ReportRight
<1>6. CASE vm_scan_local_networks
  <2>1. pc = Sections[11] /\ pc' \in {"scan", "aborted"} /\ UNCHANGED <<report, machine>>
    BY <1>6, SectionNames DEF vm_scan_local_networks
  <2>2. Reached(pc) = 11 /\ Reached(pc') = 11
    BY <2>1, SectionPlaces, LaterPlaces DEF Scanning
  <2>3. pc' = "aborted" => ~esxi /\ {"ifconfig", "ip"} \cap tools = {}
    BY <1>6 DEF vm_scan_local_networks
  <2> QED
    BY <1>2, <2>1, <2>2, <2>3 DEF ReportRight, machine
<1>7. CASE \/ vm_network_basic_scan \/ Classify \/ Classified
           \/ vm_handle_network_hosts \/ NextNetwork
  <2>1. pc \in Scanning /\ pc' \in Scanning /\ UNCHANGED <<report, machine>> /\ pc' # "aborted"
    BY <1>7 DEF vm_network_basic_scan, Classify, Classified, vm_handle_network_hosts,
                NextNetwork, Scanning
  <2>2. Reached(pc) = 11 /\ Reached(pc') = 11
    BY <2>1, LaterPlaces
  <2> QED
    BY <1>2, <2>1, <2>2 DEF ReportRight
<1>8. CASE Ending
  <2>1. pc \in Scanning /\ pc' = "ended" /\ report' = Append(report, Sections[11])
    BY <1>8, SectionNames DEF Ending, Scanning
  <2>2. Reached(pc) = 11 /\ Reached(pc') = 12
    BY <2>1, LaterPlaces
  <2>3. Range(report') = Range(report) \cup {Sections[11]}
    <3>1. report \in Seq(Range(Sections)) /\ Sections[11] \in Range(Sections)
      BY SectionsRange DEF TypeOK
    <3> QED
      BY <2>1, <3>1, AppendRange
  <2>4. Sections[11] \notin Lost
    BY SectionNames DEF Lost
  <2>5. Range(report') = Kept(12 - 1)
    BY <1>1, <2>2, <2>3, <2>4 DEF ReportRight
  <2> QED
    BY <1>2, <2>1, <2>2, <2>5 DEF ReportRight
<1> QED
  BY <1>3, <1>4, <1>5, <1>6, <1>7, <1>8 DEF Next, Collects, Dumping

-----------------------------------------------------------------------------
(* The ranges: bits counted, addresses masked. *)

LEMMA PrefixOctet ==
  ASSUME NEW p \in Nat, NEW low \in Nat
  PROVE  Cardinality({j \in 0..(OctetBits - 1) : low + j < p}) =
           IF p <= low THEN 0 ELSE IF p >= low + OctetBits THEN OctetBits ELSE p - low
<1> DEFINE m == IF p <= low THEN 0 ELSE IF p >= low + OctetBits THEN OctetBits ELSE p - low
<1>1. OctetBits \in Nat \ {0}
  BY HostReportAssumption
<1>2. m \in 0..OctetBits
  BY <1>1
<1>3. {j \in 0..(OctetBits - 1) : low + j < p} = 0..(m - 1)
  BY <1>1
<1>4. Cardinality(0..(m - 1)) = m
  <2> HIDE DEF m
  <2>1. m \in Nat /\ (m - 1) \in Int /\ (0 > m - 1 <=> m = 0)
    BY <1>1, <1>2
  <2>2. Cardinality(0..(m - 1)) = IF 0 > m - 1 THEN 0 ELSE (m - 1) - 0 + 1
    BY <2>1, FS_Interval
  <2> QED
    BY <2>1, <2>2
<1> QED
  BY <1>3, <1>4

LEMMA PrefixBits ==
  ASSUME NEW p \in 0..(4 * OctetBits)
  PROVE  Cardinality(Prefix(p)[0]) + Cardinality(Prefix(p)[1])
         + Cardinality(Prefix(p)[2]) + Cardinality(Prefix(p)[3]) = p
<1> DEFINE Part(low) ==
      IF p <= low THEN 0 ELSE IF p >= low + OctetBits THEN OctetBits ELSE p - low
<1>1. OctetBits \in Nat \ {0} /\ p \in Nat
  BY HostReportAssumption
<1>2. \A i \in 0..3 : Cardinality(Prefix(p)[i]) = Part(OctetBits * i)
  <2> TAKE i \in 0..3
  <2>1. OctetBits * i \in Nat
    BY <1>1
  <2>2. Prefix(p)[i] = {j \in 0..(OctetBits - 1) : OctetBits * i + j < p}
    BY DEF Prefix
  <2> QED
    BY <1>1, <2>1, <2>2, PrefixOctet
<1>3. /\ Cardinality(Prefix(p)[0]) = Part(0)
      /\ Cardinality(Prefix(p)[1]) = Part(OctetBits)
      /\ Cardinality(Prefix(p)[2]) = Part(2 * OctetBits)
      /\ Cardinality(Prefix(p)[3]) = Part(3 * OctetBits)
  <2>1. /\ OctetBits * 0 = 0 /\ OctetBits * 1 = OctetBits
        /\ OctetBits * 2 = 2 * OctetBits /\ OctetBits * 3 = 3 * OctetBits
    BY <1>1
  <2>2. 0 \in 0..3 /\ 1 \in 0..3 /\ 2 \in 0..3 /\ 3 \in 0..3
    OBVIOUS
  <2> HIDE DEF Part
  <2> QED
    BY <1>2, <2>1, <2>2
<1>4. Part(0) + Part(OctetBits) + Part(2 * OctetBits) + Part(3 * OctetBits) = p
  BY <1>1
<1> QED
  BY <1>3, <1>4

Ranges == [address : Address, bits : 0..(4 * OctetBits)]

\* Either way a network becomes its own range.
LEMMA RangeOfNetwork ==
  ASSUME NEW n \in Networks
  PROVE  /\ convert_netmask(n) \in Ranges /\ IsRangeOf(convert_netmask(n), n)
         /\ IpRoute(n) \in Ranges /\ IsRangeOf(IpRoute(n), n)
<1>1. PICK p \in 0..(4 * OctetBits) : n.mask = Prefix(p)
  BY DEF Networks
<1>2. Masked(n) \in Address
  BY DEF Masked, Address, Octet, Networks
<1>3. convert_netmask(n) = [address |-> Masked(n), bits |-> p]
  BY <1>1, PrefixBits DEF convert_netmask
<1> DEFINE Length(q) == n.mask = Prefix(q)
           q         == CHOOSE q \in 0..(4 * OctetBits) : Length(q)
<1>4. q \in 0..(4 * OctetBits) /\ Length(q)
  BY <1>1
<1>5. IpRoute(n) = [address |-> Masked(n), bits |-> q]
  BY DEF IpRoute
<1> HIDE DEF q
<1>6. convert_netmask(n) \in Ranges /\ IsRangeOf(convert_netmask(n), n)
  BY <1>1, <1>2, <1>3 DEF Ranges, IsRangeOf
<1>7. IpRoute(n) \in Ranges /\ IsRangeOf(IpRoute(n), n)
  BY <1>2, <1>4, <1>5 DEF Ranges, IsRangeOf
<1> QED
  BY <1>6, <1>7

\* nmap is told to scan the network's addresses and no other.
LEMMA RangeIsNetwork ==
  ASSUME NEW n \in Networks, NEW r \in Ranges, IsRangeOf(r, n), NEW a \in Address
  PROVE  InRange(a, r) <=> OnNetwork(a, n)
<1> DEFINE Low(i) == OctetBits * i
<1>1. \A i \in 0..3 : n.mask[i] = {j \in 0..(OctetBits - 1) : Low(i) + j < r.bits}
  BY DEF IsRangeOf, Prefix
<1>2. \A i \in 0..3 : r.address[i] = n.bcast[i] \cap n.mask[i]
  BY DEF IsRangeOf, Masked
<1>3. InRange(a, r) <=>
        \A i \in 0..3 : \A j \in 0..(OctetBits - 1) :
          Low(i) + j < r.bits => (j \in a[i] <=> j \in r.address[i])
  BY DEF InRange
<1> HIDE DEF Low
<1> QED
  BY <1>1, <1>2, <1>3 DEF OnNetwork

RangesTyped == ranges \in Seq(Ranges)

LEMMA RangesStep ==
  ASSUME TypeOK, RangesRight, Next
  PROVE  RangesTyped' /\ RangesRight'
<1> USE DEF RangesTyped
<1>1. listed' = listed /\ listed \in Seq(Networks) /\ ranges \in Seq(Ranges)
  BY MachineKept DEF machine, TypeOK, Ranges
<1>0. pc' \in {"classify", "handle", "next"} => ranges' # <<>>
  <2>1. CASE Collects
    BY <2>1, CollectsFrame, SectionsApart DEF Scanning
  <2>2. CASE Dumping \/ Classify \/ Classified \/ vm_handle_network_hosts
    BY <2>2 DEF Dumping, vmguest_backdoor_info, BackdumpRuns, Classify, Classified,
                vm_handle_network_hosts, RangesRight, network
  <2>3. CASE BackdumpEnded
    <3>1. pc' = "networks"
      BY <2>3, AfterBackdoor DEF BackdumpEnded
    <3> QED
      BY <3>1
  <2>4. CASE vm_scan_local_networks \/ vm_network_basic_scan \/ NextNetwork \/ Ending
    BY <2>4 DEF vm_scan_local_networks, vm_network_basic_scan, NextNetwork, Ending
  <2> QED
    BY <2>1, <2>2, <2>3, <2>4 DEF Next, Collects, Dumping
<1>2. CASE UNCHANGED ranges
  BY <1>0, <1>1, <1>2 DEF RangesRight
<1>3. CASE vm_scan_local_networks
  <2>1. /\ \A i \in DOMAIN listed : listed[i] \in Networks
        /\ DOMAIN listed = 1..Len(listed) /\ Len(listed) \in Nat
    BY <1>1
  <2>2. ASSUME NEW f \in [DOMAIN listed -> Ranges], ranges' = f,
               \A i \in DOMAIN listed : IsRangeOf(f[i], listed[i])
        PROVE  RangesTyped' /\ RangesRight'
    <3>1. f \in Seq(Ranges) /\ Len(f) = Len(listed) /\ DOMAIN f = 1..Len(listed)
      BY <2>1, <2>2
    <3>2. \A i \in DOMAIN f : Len(listed) - Len(f) + i = i
      BY <2>1, <3>1
    <3> QED
      BY <1>0, <1>1, <2>1, <2>2, <3>1, <3>2 DEF RangesRight
  <2>3. \/ ranges' = [i \in DOMAIN listed |-> convert_netmask(listed[i])]
        \/ ranges' = [i \in DOMAIN listed |-> IpRoute(listed[i])]
        \/ UNCHANGED ranges
    BY <1>3 DEF vm_scan_local_networks
  <2>4. CASE ranges' = [i \in DOMAIN listed |-> convert_netmask(listed[i])]
    BY <2>1, <2>2, <2>4, RangeOfNetwork
  <2>5. CASE ranges' = [i \in DOMAIN listed |-> IpRoute(listed[i])]
    BY <2>1, <2>2, <2>5, RangeOfNetwork
  <2> QED
    BY <1>2, <2>3, <2>4, <2>5
<1>4. CASE NextNetwork
  <2>1. ranges' = Tail(ranges)
    BY <1>4 DEF NextNetwork
  <2>2. /\ ranges' \in Seq(Ranges) /\ Len(ranges') = Len(ranges) - 1 /\ Len(ranges) \in Nat
        /\ DOMAIN ranges = 1..Len(ranges) /\ DOMAIN ranges' = 1..(Len(ranges) - 1)
        /\ Len(ranges) > 0
        /\ \A i \in 1..(Len(ranges) - 1) : ranges'[i] = ranges[i + 1]
    <3>1. ranges # <<>>
      BY <1>4 DEF NextNetwork, RangesRight
    <3> QED
      BY <1>1, <2>1, <3>1
  <2>3. Len(listed) \in Nat
    BY <1>1
  <2>4. ASSUME NEW i \in DOMAIN ranges'
        PROVE  IsRangeOf(ranges'[i], listed[Len(listed) - Len(ranges') + i])
    <3>1. i + 1 \in DOMAIN ranges /\ ranges'[i] = ranges[i + 1]
          /\ Len(listed) - Len(ranges') + i = Len(listed) - Len(ranges) + (i + 1)
      BY <2>2, <2>3, <2>4
    <3> QED
      BY <3>1 DEF RangesRight
  <2> QED
    BY <1>0, <1>1, <2>2, <2>3, <2>4 DEF RangesRight
<1>5. Collects => UNCHANGED ranges
  BY CollectsFrame DEF network
<1>6. NextNetwork \/ vm_scan_local_networks \/ UNCHANGED ranges
  BY <1>5 DEF Next, Collects, vmguest_backdoor_info, BackdumpRuns, BackdumpEnded,
     vm_network_basic_scan, Classify, Classified, vm_handle_network_hosts, Ending, network
<1> QED
  BY <1>2, <1>3, <1>4, <1>6

-----------------------------------------------------------------------------
(* The lists of hosts. *)

LEMMA MinLeast ==
  ASSUME NEW S \in SUBSET Nat, S # {}
  PROVE  Min(S) \in S /\ \A k \in S : Min(S) <= k
<1> DEFINE R == OpToRel(<, Nat)
<1>1. R = {ss \in Nat \X Nat : ss[1] < ss[2]}
  BY Zenon DEF OpToRel
<1>2. IsWellFoundedOn(R, Nat)
  BY NatLessThanWellFounded
<1> HIDE DEF R
<1>3. PICK x \in S : \A y \in S : <<y, x>> \notin R
  BY <1>2, WFMin
<1>4. \A y \in Nat : y < x => <<y, x>> \in R
  <2> TAKE y \in Nat
  <2> HAVE y < x
  <2> DEFINE p == <<y, x>>
  <2>1. p \in Nat \X Nat /\ p[1] = y /\ p[2] = x
    OBVIOUS
  <2> HIDE DEF p
  <2>2. p \in R
    BY <1>1, <2>1
  <2> QED
    BY <2>2 DEF p
<1>5. ASSUME NEW y \in S
      PROVE  x <= y
  <2>1. ~(y < x)
    BY <1>3, <1>4
  <2> QED
    BY <2>1
<1> QED
  BY <1>5 DEF Min

\* <<x>> before q, as the lists grow.
LEMMA Prepended ==
  ASSUME NEW S, NEW q \in Seq(S), NEW x \in S
  PROVE  /\ <<x>> \o q \in Seq(S)
         /\ Len(<<x>> \o q) = Len(q) + 1 /\ Len(q) \in Nat
         /\ DOMAIN q = 1..Len(q) /\ DOMAIN (<<x>> \o q) = 1..(Len(q) + 1)
         /\ \A i \in 1..(Len(q) + 1) : (<<x>> \o q)[i] = IF i = 1 THEN x ELSE q[i - 1]
         /\ Range(<<x>> \o q) = {x} \cup Range(q)
<1> DEFINE t == <<x>> \o q
<1>1. t \in Seq(S) /\ Len(t) = Len(q) + 1 /\ Len(q) \in Nat
  OBVIOUS
<1>2. DOMAIN q = 1..Len(q) /\ DOMAIN t = 1..(Len(q) + 1)
  BY <1>1
<1>3. \A i \in 1..(Len(q) + 1) : t[i] = IF i = 1 THEN x ELSE q[i - 1]
  OBVIOUS
<1> HIDE DEF t
<1>4. Range(t) = {x} \cup Range(q)
  <2>1. \A i \in DOMAIN q : i + 1 \in DOMAIN t /\ t[i + 1] = q[i]
    BY <1>1, <1>2, <1>3
  <2>2. 1 \in DOMAIN t /\ t[1] = x
    BY <1>1, <1>2, <1>3
  <2>3. \A i \in DOMAIN t : t[i] = x \/ \E j \in DOMAIN q : t[i] = q[j]
    BY <1>1, <1>2, <1>3
  <2> QED
    BY <2>1, <2>2, <2>3 DEF Range
<1> QED
  BY <1>1, <1>2, <1>3, <1>4 DEF t

LEMMA ClassTyped == \A s : Class(s) \in Classes
BY DEF Class, Classes

HostTypes ==
  /\ output \in Seq(Hosts) /\ Len(output) <= MaxHosts /\ pos \in 1..(Len(output) + 1)
  /\ hosts \in [Classes -> Seq(DOMAIN output)] /\ handled \in Seq((DOMAIN output) \X Classes)

\* What a match does: the first host from pos on whose header has no name is
\* entered, and the match ends at the first VMware host from there on.
Entered(first, last, c) ==
  /\ first \in pos..last /\ last \in DOMAIN output /\ output[last].vmware
  /\ ~output[first].named
  /\ \A k \in pos..(first - 1) : output[k].named
  /\ \A k \in first..(last - 1) : ~output[k].vmware
  /\ c \in Classes
  /\ output[first].vmware => c = Class(output[first].services)
  /\ hosts' = [hosts EXCEPT ![c] = <<first>> \o @]
  /\ pos' = last + 1
  /\ UNCHANGED <<output, handled>>

LEMMA ClassifyEnters ==
  ASSUME HostTypes, Classify
  PROVE  \E first, last \in Nat, c \in Classes : Entered(first, last, c)
<1> DEFINE first     == Min(Headers)
           last      == Min(NextVMware)
           signature == UNION {output[k].services : k \in first..last}
           c         == Class(signature)
<1>1. /\ Len(output) \in Nat /\ DOMAIN output = 1..Len(output)
      /\ pos \in Nat \ {0}
  BY DEF HostTypes
<1>2. NextVMware \in SUBSET Nat /\ NextVMware # {}
  BY <1>1 DEF NextVMware, Classify
<1>3. last \in NextVMware /\ \A k \in NextVMware : last <= k
  BY <1>2, MinLeast
<1>4. Headers \in SUBSET Nat /\ Headers # {}
  BY <1>1, <1>3 DEF Headers, NextVMware
<1>5. first \in Headers /\ \A k \in Headers : first <= k
  BY <1>4, MinLeast
<1>6. c \in Classes
  BY ClassTyped
<1>7. hosts' = [hosts EXCEPT ![c] = <<first>> \o @] /\ pos' = last + 1
      /\ UNCHANGED <<output, handled>>
  BY DEF Classify
<1> HIDE DEF first, last
<1>8. /\ first \in pos..Len(output) /\ ~output[first].named
      /\ last \in pos..Len(output) /\ output[last].vmware
  BY <1>3, <1>5 DEF Headers, NextVMware
<1>9. first <= last
  <2>1. PICK j \in Headers : j <= last
    BY <1>3 DEF NextVMware
  <2> QED
    BY <1>1, <1>5, <1>8, <2>1 DEF Headers
<1>10. \A k \in pos..(first - 1) : output[k].named
  BY <1>1, <1>5, <1>8 DEF Headers
<1>11. \A k \in first..(last - 1) : ~output[k].vmware
  BY <1>1, <1>3, <1>5, <1>8 DEF NextVMware
<1>12. ASSUME output[first].vmware
       PROVE  c = Class(output[first].services)
  <2>1. last = first
    BY <1>1, <1>8, <1>9, <1>11, <1>12
  <2>2. first..last = {first}
    BY <1>1, <1>8, <2>1
  <2>3. signature = output[first].services
    BY <2>2
  <2> QED
    BY <2>3
<1>13. first \in pos..last /\ last \in DOMAIN output /\ first \in Nat /\ last \in Nat
  BY <1>1, <1>8, <1>9
<1>14. Entered(first, last, c)
  BY <1>6, <1>7, <1>8, <1>10, <1>11, <1>12, <1>13 DEF Entered
<1> QED
  BY <1>6, <1>13, <1>14

\* The entered list, and the other three.
LEMMA EnteredLists ==
  ASSUME HostTypes, NEW first \in Nat, NEW last \in Nat, NEW c \in Classes,
         Entered(first, last, c)
  PROVE  /\ first \in DOMAIN output
         /\ hosts' \in [Classes -> Seq(DOMAIN output)]
         /\ \A d \in Classes : Len(hosts[d]) \in Nat /\ DOMAIN hosts[d] = 1..Len(hosts[d])
         /\ \A d \in Classes \ {c} : hosts'[d] = hosts[d]
         /\ Len(hosts'[c]) = Len(hosts[c]) + 1
         /\ DOMAIN hosts'[c] = 1..(Len(hosts[c]) + 1)
         /\ \A i \in 1..(Len(hosts[c]) + 1) :
              hosts'[c][i] = IF i = 1 THEN first ELSE hosts[c][i - 1]
<1>1. first \in DOMAIN output
  BY DEF Entered, HostTypes
<1>2. hosts \in [Classes -> Seq(DOMAIN output)] /\ hosts[c] \in Seq(DOMAIN output)
  BY DEF HostTypes
<1>3. hosts'[c] = <<first>> \o hosts[c] /\ \A d \in Classes \ {c} : hosts'[d] = hosts[d]
  BY <1>2 DEF Entered
<1>4. <<first>> \o hosts[c] \in Seq(DOMAIN output)
  BY <1>1, <1>2, Prepended
<1>5. hosts' \in [Classes -> Seq(DOMAIN output)]
  BY <1>2, <1>4 DEF Entered
<1>6. \A d \in Classes : Len(hosts[d]) \in Nat /\ DOMAIN hosts[d] = 1..Len(hosts[d])
  BY <1>2
<1>7. /\ Len(<<first>> \o hosts[c]) = Len(hosts[c]) + 1
      /\ DOMAIN (<<first>> \o hosts[c]) = 1..(Len(hosts[c]) + 1)
      /\ \A i \in 1..(Len(hosts[c]) + 1) :
           (<<first>> \o hosts[c])[i] = IF i = 1 THEN first ELSE hosts[c][i - 1]
  BY <1>1, <1>2, Prepended
<1> QED
  BY <1>1, <1>3, <1>5, <1>6, <1>7

LEMMA EnteredRanges ==
  ASSUME HostTypes, NEW first \in Nat, NEW last \in Nat, NEW c \in Classes,
         Entered(first, last, c)
  PROVE  /\ Range(hosts'[c]) = {first} \cup Range(hosts[c])
         /\ \A d \in Classes \ {c} : hosts'[d] = hosts[d]
<1>0. first \in DOMAIN output
  BY EnteredLists
<1>1. first \in DOMAIN output /\ hosts \in [Classes -> Seq(DOMAIN output)]
  BY <1>0 DEF HostTypes
<1>2. hosts'[c] = <<first>> \o hosts[c] /\ \A d \in Classes \ {c} : hosts'[d] = hosts[d]
  BY <1>1 DEF Entered
<1>3. Range(<<first>> \o hosts[c]) = {first} \cup Range(hosts[c])
  BY <1>1, Prepended
<1> QED
  BY <1>2, <1>3

\* Of the hosts a match takes, it begins at the first only.
LEMMA BeginsFirst ==
  ASSUME HostTypes, ListsRight, NEW first \in Nat, NEW last \in Nat, NEW c \in Classes,
         Entered(first, last, c), NEW j \in pos..last
  PROVE  Begins(j) <=> j = first
<1>1. pos \in Nat \ {0} /\ first \in pos..last /\ j \in Nat
  BY DEF Entered, HostTypes
<1>2. ASSUME j = first
      PROVE  Begins(j)
  <2>1. ASSUME NEW i \in 1..(j - 1)
        PROVE  output[i].named \/ \E m \in i..(j - 1) : output[m].vmware
    <3>1. CASE i < pos
      <4>1. pos - 1 \in i..(j - 1) /\ pos # 1
        BY <1>1, <1>2, <3>1
      <4>2. output[pos - 1].vmware
        BY <4>1 DEF ListsRight
      <4> QED
        BY <4>1, <4>2
    <3>2. CASE i >= pos
      BY <1>1, <1>2, <3>2 DEF Entered
    <3> QED
      BY <1>1, <3>1, <3>2
  <2>2. ~output[j].named
    BY <1>2 DEF Entered
  <2> QED
    BY <2>1, <2>2 DEF Begins
<1>3. ASSUME j < first
      PROVE  ~Begins(j)
  <2>1. output[j].named
    BY <1>1, <1>3 DEF Entered
  <2> QED
    BY <2>1 DEF Begins
<1>4. ASSUME j > first, Begins(j)
      PROVE  FALSE
  <2>1. first \in 1..(j - 1)
    BY <1>1, <1>4
  <2>2. PICK m \in first..(j - 1) : output[m].vmware
    BY <1>4, <2>1 DEF Begins, Entered
  <2>3. m \in first..(last - 1)
    BY <1>1, <2>2
  <2> QED
    BY <2>2, <2>3 DEF Entered
<1> QED
  BY <1>1, <1>2, <1>3, <1>4

LEMMA ListsEntered ==
  ASSUME HostTypes, ListsRight, NEW first \in Nat, NEW last \in Nat, NEW c \in Classes,
         Entered(first, last, c)
  PROVE  ListsRight'
<1>1. pos \in Nat \ {0} /\ pos' = last + 1 /\ first >= pos /\ last >= first
  BY DEF Entered, HostTypes
<1>2. /\ \A d \in Classes : Len(hosts[d]) \in Nat /\ DOMAIN hosts[d] = 1..Len(hosts[d])
      /\ \A d \in Classes \ {c} : hosts'[d] = hosts[d]
      /\ Len(hosts'[c]) = Len(hosts[c]) + 1
      /\ DOMAIN hosts'[c] = 1..(Len(hosts[c]) + 1)
      /\ \A i \in 1..(Len(hosts[c]) + 1) :
           hosts'[c][i] = IF i = 1 THEN first ELSE hosts[c][i - 1]
  BY EnteredLists
<1>3. \A d \in Classes : \A i \in DOMAIN hosts[d] : hosts[d][i] \in Nat /\ hosts[d][i] < pos
  <2>1. \A d \in Classes : hosts[d] \in Seq(DOMAIN output)
    BY DEF HostTypes
  <2>2. DOMAIN output = 1..Len(output) /\ Len(output) \in Nat
    BY DEF HostTypes
  <2> QED
    BY <2>1, <2>2 DEF ListsRight
\* An entry of the new lists is the new one or an old one.
<1> DEFINE Old(d, i) == IF d = c THEN i - 1 ELSE i
<1>4. ASSUME NEW d \in Classes, NEW i \in DOMAIN hosts'[d]
      PROVE  \/ d = c /\ i = 1 /\ hosts'[d][i] = first
             \/ /\ Old(d, i) \in DOMAIN hosts[d]
                /\ hosts'[d][i] = hosts[d][Old(d, i)]
  <2>1. CASE d # c
    BY <1>2, <1>4, <2>1
  <2>2. CASE d = c /\ i # 1
    <3>1. i \in 1..(Len(hosts[c]) + 1) /\ hosts'[c][i] = hosts[c][i - 1]
      BY <1>2, <1>4, <2>2
    <3>2. i - 1 \in DOMAIN hosts[c]
      BY <1>2, <2>2, <3>1
    <3> QED
      BY <2>2, <3>1, <3>2
  <2>3. CASE d = c /\ i = 1
    BY <1>2, <1>4, <2>3
  <2> QED
    BY <2>1, <2>2, <2>3
<1>5. \A d \in Classes : \A i \in DOMAIN hosts'[d] : hosts'[d][i] < pos'
  BY <1>1, <1>3, <1>4
<1>6. ASSUME NEW d \in Classes, NEW e \in Classes,
             NEW i \in DOMAIN hosts'[d], NEW j \in DOMAIN hosts'[e],
             hosts'[d][i] = hosts'[e][j]
      PROVE  d = e /\ i = j
  <2>1. i \in Nat /\ j \in Nat
    BY <1>2, <1>6
  <2>2. CASE d = c /\ i = 1 /\ hosts'[d][i] = first
    BY <1>1, <1>3, <1>4, <1>6, <2>2
  <2>3. CASE e = c /\ j = 1 /\ hosts'[e][j] = first
    BY <1>1, <1>3, <1>4, <1>6, <2>3
  <2>4. CASE /\ Old(d, i) \in DOMAIN hosts[d] /\ hosts'[d][i] = hosts[d][Old(d, i)]
             /\ Old(e, j) \in DOMAIN hosts[e] /\ hosts'[e][j] = hosts[e][Old(e, j)]
    <3>1. hosts[d][Old(d, i)] = hosts[e][Old(e, j)]
      BY <1>6, <2>4
    <3>2. d = e /\ Old(d, i) = Old(e, j)
      BY <2>4, <3>1 DEF ListsRight
    <3> QED
      BY <2>1, <3>2
  <2> QED
    BY <1>4, <2>2, <2>3, <2>4
<1>7. pos' = 1 \/ output'[pos' - 1].vmware
  <2>1. pos' - 1 = last /\ output' = output
    BY <1>1 DEF Entered
  <2> QED
    BY <2>1 DEF Entered
<1>8. \A j \in Nat : Begins(j)' <=> Begins(j)
  BY DEF Begins, Entered
<1>9. \A d \in Classes : Range(hosts'[d]) = IF d = c THEN {first} \cup Range(hosts[d])
                                                   ELSE Range(hosts[d])
  <2>1. Range(hosts'[c]) = {first} \cup Range(hosts[c])
    BY EnteredRanges
  <2>2. \A d \in Classes \ {c} : Range(hosts'[d]) = Range(hosts[d])
    BY <1>2
  <2> QED
    BY <2>1, <2>2
<1>10. ASSUME NEW j \in 1..(pos' - 1)
       PROVE  (\E d \in Classes : j \in Range(hosts'[d])) <=> Begins(j)'
  <2>1. (\E d \in Classes : j \in Range(hosts'[d]))
          <=> j = first \/ \E d \in Classes : j \in Range(hosts[d])
    BY <1>9
  <2>2. CASE j \in 1..(pos - 1)
    BY <1>1, <1>8, <2>1, <2>2 DEF ListsRight
  <2>3. CASE j >= pos
    <3>1. j \in pos..last /\ j \in Nat
      BY <1>1, <2>3
    <3>2. ~ \E d \in Classes : j \in Range(hosts[d])
      <4>1. \A d \in Classes : \A i \in DOMAIN hosts[d] : hosts[d][i] # j
        BY <1>1, <1>3, <2>3, <3>1
      <4> QED
        BY <4>1 DEF Range
    <3> QED
      BY <1>8, <2>1, <3>1, <3>2, BeginsFirst
  <2> QED
    BY <1>1, <2>2, <2>3
<1> QED
  BY <1>5, <1>6, <1>7, <1>10 DEF ListsRight

LEMMA OwnEntered ==
  ASSUME HostTypes, OwnLists, ListsRight, NEW first \in Nat, NEW last \in Nat,
         NEW c \in Classes, Entered(first, last, c)
  PROVE  OwnLists'
<1> SUFFICES ASSUME NEW k \in 1..(pos' - 1), NEW d \in Classes,
                    output[k].vmware, Begins(k)
             PROVE  k \in Range(hosts'[d]) <=> d = Class(output[k].services)
  BY DEF OwnLists, Begins, Entered
<1>1. pos' = last + 1 /\ pos \in Nat \ {0} /\ first \in pos..last
  BY DEF Entered, HostTypes
<1>2. Range(hosts'[d]) = IF d = c THEN {first} \cup Range(hosts[d]) ELSE Range(hosts[d])
  <2>1. /\ Range(hosts'[c]) = {first} \cup Range(hosts[c])
        /\ \A e \in Classes \ {c} : hosts'[e] = hosts[e]
    BY EnteredRanges
  <2>2. d # c => Range(hosts'[d]) = Range(hosts[d])
    BY <2>1
  <2> QED
    BY <2>1, <2>2
<1>3. CASE k >= pos
  <2>1. k \in pos..last
    BY <1>1, <1>3
  <2>2. k = first
    BY <2>1, BeginsFirst
  <2>3. c = Class(output[k].services)
    BY <2>2 DEF Entered
  <2>4. \A e \in Classes : \A i \in DOMAIN hosts[e] : hosts[e][i] < pos
    BY DEF ListsRight
  <2>5. k \notin Range(hosts[d])
    BY <1>1, <1>3, <2>4 DEF Range
  <2> QED
    BY <1>2, <2>2, <2>3, <2>5
<1>4. CASE k < pos
  <2>1. k \in 1..(pos - 1) /\ k # first
    BY <1>1, <1>4
  <2>2. k \in Range(hosts[d]) <=> d = Class(output[k].services)
    BY <2>1 DEF OwnLists
  <2> QED
    BY <1>2, <2>1, <2>2
<1> QED
  BY <1>1, <1>3, <1>4

EmptyLists == hosts = [c \in Classes |-> <<>>] /\ pos = 1

LEMMA EmptyListsRight == EmptyLists => ListsRight /\ OwnLists
<1> SUFFICES ASSUME EmptyLists
             PROVE  ListsRight /\ OwnLists
  OBVIOUS
<1>1. \A c \in Classes : hosts[c] = <<>> /\ DOMAIN hosts[c] = {} /\ Len(hosts[c]) = 0
  BY DEF EmptyLists
<1>2. 1..(pos - 1) = {} /\ pos = 1
  BY DEF EmptyLists
<1> QED
  BY <1>1, <1>2 DEF ListsRight, OwnLists

\* The four lists one after the other, each host with its class.
Handled == As("player") \o As("network device") \o As("ESXi") \o As("other")

LEMMA AsTyped ==
  ASSUME HostTypes, NEW c \in Classes
  PROVE  As(c) \in Seq((DOMAIN output) \X Classes)
<1>1. hosts[c] \in Seq(DOMAIN output)
  BY DEF HostTypes
<1>2. DOMAIN hosts[c] = 1..Len(hosts[c]) /\ Len(hosts[c]) \in Nat
      /\ \A i \in DOMAIN hosts[c] : hosts[c][i] \in DOMAIN output
  BY <1>1
<1> QED
  BY <1>2 DEF As

LEMMA HandledTyped ==
  ASSUME HostTypes
  PROVE  Handled \in Seq((DOMAIN output) \X Classes)
<1>1. /\ "player" \in Classes /\ "network device" \in Classes
      /\ "ESXi" \in Classes /\ "other" \in Classes
  BY DEF Classes
<1> DEFINE S == (DOMAIN output) \X Classes
<1>2. /\ As("player") \in Seq(S) /\ As("network device") \in Seq(S)
      /\ As("ESXi") \in Seq(S) /\ As("other") \in Seq(S)
  BY <1>1, AsTyped
<1> HIDE DEF S
<1>3. \A q, t \in Seq(S) : q \o t \in Seq(S)
  OBVIOUS
<1>4. Handled \in Seq(S)
  BY <1>2, <1>3 DEF Handled
<1> QED
  BY <1>4 DEF S

\* nmap's output fits.
LEMMA OutputTyped ==
  ASSUME NEW t \in Outputs
  PROVE  t \in Seq(Hosts) /\ Len(t) <= MaxHosts /\ 1 \in 1..(Len(t) + 1)
<1>1. PICK n \in 0..MaxHosts : t \in [1..n -> Hosts]
  BY DEF Outputs
<1>2. MaxHosts \in Nat
  BY HostReportAssumption
<1>3. t \in Seq(Hosts) /\ Len(t) = n
  BY <1>1, <1>2
<1> QED
  BY <1>2, <1>3

LEMMA ListsFrame ==
  ASSUME UNCHANGED <<output, pos, hosts>>, ListsRight, OwnLists
  PROVE  ListsRight' /\ OwnLists'
<1>1. \A j : Begins(j)' <=> Begins(j)
  BY DEF Begins
<1>2. ListsRight'
  BY <1>1 DEF ListsRight
<1>3. OwnLists'
  BY <1>1 DEF OwnLists
<1> QED
  BY <1>2, <1>3

ScanRight == HostTypes /\ Fresh /\ ListsRight /\ OwnLists /\ HandledRight

LEMMA ScanStep == ASSUME ScanRight, Next PROVE ScanRight'
<1> USE DEF ScanRight
<1>1. ASSUME UNCHANGED <<output, pos, hosts, handled>>,
             pc \notin {"classify", "handle", "next"}, pc' \notin {"classify", "handle", "next"}
      PROVE  ScanRight'
  <2>1. HostTypes' /\ ListsRight' /\ OwnLists'
    BY <1>1, ListsFrame DEF HostTypes
  <2>2. Fresh' /\ HandledRight'
    BY <1>1 DEF Fresh, HandledRight
  <2> QED
    BY <2>1, <2>2
<1>2. CASE Collects
  <2>1. /\ UNCHANGED network
        /\ pc \notin {"classify", "handle", "next"} /\ pc' \notin {"classify", "handle", "next"}
    BY <1>2, CollectsFrame, SectionsApart DEF Scanning
  <2> QED
    BY <1>1, <2>1 DEF network
<1>3. CASE Dumping \/ BackdumpEnded \/ vm_scan_local_networks \/ Ending
  BY <1>1, <1>3, AfterBackdoor DEF Dumping, vmguest_backdoor_info, BackdumpRuns,
     BackdumpEnded, vm_scan_local_networks, Ending, network
<1>4. CASE vm_network_basic_scan
  <2>1. EmptyLists' /\ handled' = <<>> /\ output' \in Outputs /\ pc' = "classify"
    BY <1>4 DEF vm_network_basic_scan, Fresh, EmptyLists
  <2>2. ListsRight' /\ OwnLists'
    BY <2>1, EmptyListsRight, PTL
  <2>3. HostTypes'
    BY <2>1, OutputTyped DEF HostTypes, EmptyLists
  <2> QED
    BY <2>1, <2>2, <2>3 DEF Fresh, HandledRight
<1>5. CASE Classify
  <2>1. PICK first, last \in Nat, c \in Classes : Entered(first, last, c)
    BY <1>5, ClassifyEnters
  <2>2. ListsRight' /\ OwnLists'
    BY <2>1, ListsEntered, OwnEntered
  <2>3. pc' = "classify" /\ UNCHANGED <<output, handled>> /\ pos' = last + 1
    BY <1>5, <2>1 DEF Classify, Entered
  <2>4. pos' \in 1..(Len(output) + 1)
    BY <2>1, <2>3 DEF Entered, HostTypes
  <2>5. hosts' \in [Classes -> Seq(DOMAIN output)]
    BY <2>1, EnteredLists
  <2> QED
    BY <2>2, <2>3, <2>4, <2>5 DEF HostTypes, Fresh, HandledRight
<1>6. CASE Classified
  <2>1. pc' = "handle" /\ UNCHANGED <<output, pos, hosts, handled>> /\ NextVMware = {}
    BY <1>6 DEF Classified, network
  <2> QED
    BY <2>1, ListsFrame DEF HostTypes, Fresh, HandledRight, NextVMware, Headers
<1>7. CASE vm_handle_network_hosts
  <2>1. /\ pc = "handle" /\ pc' = "next" /\ UNCHANGED <<output, pos, hosts>>
        /\ handled' = Handled
    BY <1>7 DEF vm_handle_network_hosts, Handled
  <2>2. HostTypes'
    BY <2>1, HandledTyped DEF HostTypes
  <2>3. ListsRight' /\ OwnLists'
    BY <2>1, ListsFrame
  <2>4. Handled' = Handled
    BY <2>1 DEF Handled, As
  <2>5. HandledRight'
    BY <2>1, <2>4 DEF HandledRight, Handled, NextVMware, Headers
  <2> QED
    BY <2>1, <2>2, <2>3, <2>5 DEF Fresh
<1>8. CASE NextNetwork
  <2>1. EmptyLists' /\ handled' = <<>> /\ output' = <<>> /\ pc' = "scan"
    BY <1>8 DEF NextNetwork, EmptyLists
  <2>2. ListsRight' /\ OwnLists'
    BY <2>1, EmptyListsRight, PTL
  <2>3. HostTypes'
    <3>1. MaxHosts \in Nat
      BY HostReportAssumption
    <3> QED
      BY <2>1, <3>1 DEF HostTypes, EmptyLists
  <2> QED
    BY <2>1, <2>2, <2>3 DEF Fresh, HandledRight, EmptyLists
<1> QED
  BY <1>2, <1>3, <1>4, <1>5, <1>6, <1>7, <1>8 DEF Next, Collects, Dumping

-----------------------------------------------------------------------------
(* The dump of the backdoor. *)

\* Whatever a refusal leaves in EAX is not taken for a yes.
LEMMA RefusalNotSupported ==
  ASSUME NEW r \in Dump!EAX(BDOOR_CMD_NESTING_CONTROL), Dump!Supported(r)
  PROVE  BDOOR_CMD_NESTING_CONTROL \in implemented
BY DEF Dump!EAX, Dump!Supported

\* What the verdict and the line of the feature tell together.
LEMMA ReplayAnswer ==
  ASSUME NEW r \in Dump!EAX(BDOOR_CMD_GET_VCPU_INFO)
  PROVE  LET yes == Dump!Backdump_Hostinfo_VCPUInfoBackdoor(r, BDOOR_CMD_VCPU_HV_REPLAY_OK)
         IN /\ yes => BDOOR_CMD_GET_VCPU_INFO \in implemented
            /\ BDOOR_CMD_VCPU_HV_REPLAY_OK \in Dump!Printed(r) =>
                 (~yes <=> BDOOR_CMD_GET_VCPU_INFO \notin implemented)
<1>1. BDOOR_CMD_VCPU_RESERVED \in Dump!Refused
  BY BackdumpAssumption DEF Dump!Parameters, Dump!Refused
<1>2. \/ BDOOR_CMD_GET_VCPU_INFO \notin implemented /\ r = Dump!Refused
      \/ BDOOR_CMD_GET_VCPU_INFO \in implemented /\ BDOOR_CMD_VCPU_RESERVED \notin r
  BY DEF Dump!EAX
<1> QED
  BY <1>1, <1>2 DEF Dump!Backdump_Hostinfo_VCPUInfoBackdoor, Dump!Printed

LEMMA DumpCounters == ASSUME DumpRight, Dump!Step PROVE DumpRight'
<1>1. BDOOR_CMD_MAX \in Nat \ {0}
  BY BackdumpAssumption DEF Dump!Parameters
<1>2. CASE Dump!Trap \/ Dump!Backdump_PrintBanner
  <2>1. stage' \in {"crashed", "brute force"} /\ next' = 1
    BY <1>2 DEF Dump!Trap, Dump!Backdump_PrintBanner, DumpRight
  <2>2. 1 \in 1..BDOOR_CMD_MAX
    BY <1>1
  <2> QED
    BY <2>1, <2>2 DEF DumpRight
<1>3. CASE Dump!Backdump_BruteForceDumpAllCommands
  <2>1. stage' = "brute force" /\ next' = next + 1 /\ next \in 1..BDOOR_CMD_MAX
        /\ next < BDOOR_CMD_MAX
    BY <1>3 DEF Dump!Backdump_BruteForceDumpAllCommands, DumpRight
  <2>2. next \in 1..BDOOR_CMD_MAX /\ next < BDOOR_CMD_MAX
    BY <2>1
  <2>3. next + 1 \in 1..BDOOR_CMD_MAX /\ next + 1 \in Nat
    BY <1>1, <2>2
  <2> QED
    BY <2>1, <2>3 DEF DumpRight
<1>4. CASE \/ Dump!Backdump_Hostinfo_NestingSupported
           \/ Dump!Backdump_Hostinfo_NestingControl \/ Dump!Return
           \/ Dump!Backdump_Hostinfo_NestedHVReplaySupported
           \/ Dump!Backdump_Hostinfo_BackdoorCommand
  <2>1. /\ stage' \in {"control", "related", "done"}
        /\ next' \in {next, next + 1, 0, 1}
    BY <1>4 DEF Dump!Backdump_Hostinfo_NestingSupported, Dump!Backdump_Hostinfo_NestingControl,
                Dump!Return, Dump!Backdump_Hostinfo_NestedHVReplaySupported,
                Dump!Backdump_Hostinfo_BackdoorCommand
  <2>2. next' \in Nat
    <3>1. next \in Nat
      BY DEF DumpRight
    <3> QED
      BY <2>1, <3>1
  <2> QED
    BY <2>1, <2>2 DEF DumpRight
<1> QED
  BY <1>2, <1>3, <1>4 DEF Dump!Step

LEMMA VerdictsStep == ASSUME VerdictsRight, Dump!Step PROVE VerdictsRight'
<1> USE DEF VerdictsRight, VerdictsOfImplemented, Dump!VerdictsOfImplemented
<1>1. CASE Dump!Trap \/ Dump!Backdump_PrintBanner
  BY <1>1 DEF Dump!Trap, Dump!Backdump_PrintBanner
<1>2. CASE Dump!Backdump_BruteForceDumpAllCommands \/ Dump!Backdump_Hostinfo_NestingControl
  BY <1>2 DEF Dump!Backdump_BruteForceDumpAllCommands, Dump!Backdump_Hostinfo_NestingControl
<1>3. CASE Dump!Backdump_Hostinfo_NestingSupported
  <2>1. PICK r \in Dump!EAX(BDOOR_CMD_NESTING_CONTROL) :
          nesting' = Dump!Verdict(Dump!Supported(r))
    BY <1>3 DEF Dump!Backdump_Hostinfo_NestingSupported
  <2>2. nesting' = "yes" => BDOOR_CMD_NESTING_CONTROL \in implemented
    BY <2>1, RefusalNotSupported DEF Dump!Verdict
  <2> QED
    BY <1>3, <2>2 DEF Dump!Backdump_Hostinfo_NestingSupported
<1>4. CASE Dump!Backdump_Hostinfo_NestedHVReplaySupported
  <2> DEFINE yes(r) == Dump!Backdump_Hostinfo_VCPUInfoBackdoor(r, BDOOR_CMD_VCPU_HV_REPLAY_OK)
  <2>1. PICK r \in Dump!EAX(BDOOR_CMD_GET_VCPU_INFO) :
          features' = Dump!Printed(r) /\ replay' = Dump!Verdict(yes(r))
    BY <1>4 DEF Dump!Backdump_Hostinfo_NestedHVReplaySupported
  <2>2. (replay' = "yes" <=> yes(r)) /\ (replay' = "no" <=> ~yes(r))
    BY <2>1 DEF Dump!Verdict
  <2>3. /\ yes(r) => BDOOR_CMD_GET_VCPU_INFO \in implemented
        /\ BDOOR_CMD_VCPU_HV_REPLAY_OK \in Dump!Printed(r) =>
             (~yes(r) <=> BDOOR_CMD_GET_VCPU_INFO \notin implemented)
    BY ReplayAnswer
  <2> HIDE DEF yes
  <2>4. /\ stage' = "related" /\ UNCHANGED <<implemented, nesting>>
    BY <1>4 DEF Dump!Backdump_Hostinfo_NestedHVReplaySupported
  <2> QED
    BY <2>1, <2>2, <2>3, <2>4
<1>5. CASE Dump!Backdump_Hostinfo_BackdoorCommand \/ Dump!Return
  BY <1>5 DEF Dump!Backdump_Hostinfo_BackdoorCommand, Dump!Return
<1> QED
  BY <1>1, <1>2, <1>3, <1>4, <1>5 DEF Dump!Step

NoDump == pc # "backdoor" => Dump!NotRunning

LEMMA DumpStep ==
  ASSUME NoDump, DumpRight, VerdictsRight, Next
  PROVE  NoDump' /\ DumpRight' /\ VerdictsRight'
<1> USE DEF VerdictsOfImplemented, Dump!VerdictsOfImplemented
<1>1. CASE UNCHANGED child /\ pc # "backdoor"
  <2>1. UNCHANGED <<stage, next, implemented, features, nesting, replay>> /\ Dump!NotRunning
    BY <1>1 DEF child, NoDump
  <2>2. DumpRight'
    BY <2>1 DEF DumpRight, Dump!NotRunning
  <2>3. VerdictsRight' /\ NoDump'
    BY <2>1 DEF VerdictsRight, Dump!NotRunning, NoDump
  <2> QED
    BY <2>2, <2>3
<1>2. CASE vmguest_backdoor_info
  <2>1. /\ stage = "none" /\ Dump!NotRunning /\ pc' = pc /\ pc = "backdoor"
        /\ stage' = "banner" /\ next' = 1 /\ UNCHANGED <<features, nesting, replay>>
    BY <1>2 DEF vmguest_backdoor_info, DumpRight, Dump!Start
  <2> QED
    BY <2>1 DEF NoDump, DumpRight, VerdictsRight, Dump!NotRunning
<1>3. CASE BackdumpRuns
  BY <1>3, DumpCounters, VerdictsStep DEF BackdumpRuns, NoDump
<1>4. CASE BackdumpEnded
  <2>1. Dump!NotRunning'
    BY <1>4 DEF BackdumpEnded, Dump!NotRunning
  <2> QED
    BY <2>1 DEF NoDump, DumpRight, VerdictsRight, Dump!NotRunning
<1>5. CASE Collects
  BY <1>1, <1>5, CollectsFrame
<1>6. CASE vm_scan_local_networks \/ vm_network_basic_scan \/ Classify \/ Classified
  BY <1>1, <1>6 DEF vm_scan_local_networks, vm_network_basic_scan, Classify, Classified
<1>7. CASE vm_handle_network_hosts \/ NextNetwork \/ Ending
  BY <1>1, <1>7 DEF vm_handle_network_hosts, NextNetwork, Ending
<1> QED
  BY <1>2, <1>3, <1>4, <1>5, <1>6, <1>7 DEF Next, Collects

-----------------------------------------------------------------------------
(* The invariant. *)

OtherTypes ==
  /\ pc \in Range(Sections) \cup {"scan", "classify", "handle", "next", "ended", "aborted"}
  /\ esxi \in BOOLEAN /\ tools \subseteq Tools
  /\ listed \in Seq(Networks)
  /\ report \in Seq(Range(Sections))

LEMMA TypeParts == TypeOK <=> OtherTypes /\ RangesTyped /\ HostTypes /\ NoDump
BY DEF TypeOK, OtherTypes, RangesTyped, Ranges, HostTypes, NoDump

LEMMA OtherTypesStep == ASSUME OtherTypes, Next PROVE OtherTypes'
<1>1. UNCHANGED <<esxi, tools, listed>>
  BY MachineKept DEF machine
<1>2. ASSUME NEW s \in Range(Sections)
      PROVE  Append(report, s) \in Seq(Range(Sections))
  BY <1>2 DEF OtherTypes
<1>3. "backdoor" \in Range(Sections) /\ "networks" \in Range(Sections)
  <2>1. Sections[10] \in Range(Sections) /\ Sections[11] \in Range(Sections)
    BY SectionsRange
  <2> QED
    BY <2>1, SectionNames
<1>4. CASE Collects
  <2>1. PICK i \in 1..9, needs \in SUBSET Tools : Collected(Sections[i], needs)
    BY <1>4, CollectsSection
  <2>2. Sections[i] \in Range(Sections) /\ pc' \in Range(Sections)
    BY <1>4, SectionsRange, CollectsFrame
  <2>3. report' = Append(report, Sections[i]) \/ report' = report
    BY <2>1 DEF Collected
  <2> QED
    BY <1>1, <1>2, <2>2, <2>3 DEF OtherTypes
<1>5. CASE Dumping
  BY <1>1, <1>5 DEF Dumping, vmguest_backdoor_info, BackdumpRuns, OtherTypes
<1>6. CASE BackdumpEnded
  BY <1>1, <1>2, <1>3, <1>6, AfterBackdoor DEF BackdumpEnded, OtherTypes
<1>7. CASE Ending
  BY <1>1, <1>2, <1>3, <1>7 DEF Ending, OtherTypes
<1>8. CASE vm_scan_local_networks
  BY <1>1, <1>8 DEF vm_scan_local_networks, OtherTypes
<1>9. CASE \/ vm_network_basic_scan \/ Classify \/ Classified
           \/ vm_handle_network_hosts \/ NextNetwork
  BY <1>1, <1>9 DEF vm_network_basic_scan, Classify, Classified, vm_handle_network_hosts,
                    NextNetwork, OtherTypes
<1> QED
  BY <1>4, <1>5, <1>6, <1>7, <1>8, <1>9 DEF Next, Collects, Dumping

LEMMA IInvInit == Init => IInv
<1> SUFFICES ASSUME Init
             PROVE  IInv
  OBVIOUS
<1>1. /\ pc = Sections[1] /\ report = <<>> /\ ranges = <<>> /\ output = <<>>
      /\ EmptyLists /\ handled = <<>> /\ Dump!NotRunning
      /\ esxi \in BOOLEAN /\ tools \in ToolSets /\ listed \in ListedNetworks
  BY DEF Init, EmptyLists
<1>2. pc \in Range(Sections) /\ pc \notin Scanning \cup {"aborted", "ended"}
  BY <1>1, SectionsRange, SectionsApart
<1>3. tools \subseteq Tools /\ listed \in Seq(Networks) /\ MaxHosts \in Nat
  BY <1>1, HostReportAssumption
<1>4. OtherTypes /\ RangesTyped
  BY <1>1, <1>2, <1>3 DEF OtherTypes, RangesTyped
<1>5. HostTypes /\ NoDump
  BY <1>1, <1>3 DEF HostTypes, NoDump, EmptyLists
<1>6. ReportRight
  <2>1. Reached(pc) = 1
    BY <1>1, SectionPlaces
  <2>2. Range(report) = {} /\ 1..(Reached(pc) - 1) = {}
    BY <1>1, <2>1, EmptyRange
  <2> QED
    BY <1>2, <2>2 DEF ReportRight
<1>7. RangesRight
  <2>1. Len(ranges) = 0 /\ DOMAIN ranges = {} /\ Len(listed) \in Nat
    BY <1>1, <1>3
  <2> QED
    BY <1>2, <2>1 DEF RangesRight, Scanning
<1>8. Fresh /\ HandledRight
  BY <1>1, <1>2 DEF Fresh, HandledRight, EmptyLists, Scanning
<1>9. ListsRight /\ OwnLists
  BY <1>1, EmptyListsRight
<1>10. DumpRight /\ VerdictsRight
  BY <1>1 DEF DumpRight, VerdictsRight, Dump!NotRunning, VerdictsOfImplemented,
              Dump!VerdictsOfImplemented
<1> QED
  BY <1>4, <1>5, <1>6, <1>7, <1>8, <1>9, <1>10, TypeParts DEF IInv

LEMMA IInvStep == ASSUME IInv, [Next]_vars PROVE IInv'
<1>1. CASE Next
  <2>1. OtherTypes' /\ RangesTyped' /\ RangesRight' /\ ReportRight'
    BY <1>1, TypeParts, OtherTypesStep, RangesStep, ReportStep DEF IInv
  <2>2. NoDump' /\ DumpRight' /\ VerdictsRight'
    BY <1>1, TypeParts, DumpStep DEF IInv
  <2>3. ScanRight'
    BY <1>1, TypeParts, ScanStep DEF IInv, ScanRight
  <2>4. TypeOK'
    BY <2>1, <2>2, <2>3, TypeParts, PTL DEF ScanRight
  <2> QED
    BY <2>1, <2>2, <2>3, <2>4 DEF IInv, ScanRight
<1>2. CASE UNCHANGED vars
  <2>1. /\ pc' = pc /\ esxi' = esxi /\ tools' = tools /\ listed' = listed /\ report' = report
        /\ ranges' = ranges /\ output' = output /\ pos' = pos /\ hosts' = hosts
        /\ handled' = handled /\ stage' = stage /\ next' = next
        /\ implemented' = implemented /\ features' = features /\ nesting' = nesting
        /\ replay' = replay
    BY <1>2 DEF vars, machine, network, child
  <2>2. Dump!NotRunning' <=> Dump!NotRunning
    BY <2>1 DEF Dump!NotRunning
  <2>3. TypeOK' /\ Fresh'
    BY <2>1, <2>2 DEF IInv, TypeOK, Fresh
  <2>4. ReportRight' /\ RangesRight'
    BY <2>1 DEF IInv, ReportRight, RangesRight, Lost
  <2>5. ListsRight' /\ OwnLists'
    BY <2>1, ListsFrame DEF IInv
  <2>6. HandledRight'
    BY <2>1 DEF IInv, HandledRight, NextVMware, Headers, As
  <2>7. DumpRight' /\ VerdictsRight'
    BY <2>1, <2>2 DEF IInv, DumpRight, VerdictsRight, VerdictsOfImplemented,
                      Dump!VerdictsOfImplemented
  <2> QED
    BY <2>3, <2>4, <2>5, <2>6, <2>7 DEF IInv
<1> QED
  BY <1>1, <1>2

\* The inductive invariant holds for every machine, its networks, what nmap
\* answers and every hypervisor (vmhost_report.rb, vm_backdump.c).
THEOREM Invariance == Spec => []IInv
<1>1. Init => IInv
  BY IInvInit
<1>2. IInv /\ [Next]_vars => IInv'
  BY IInvStep
<1> QED
  BY <1>1, <1>2, PTL DEF Spec

\* The report's types.
THEOREM TypeCorrect == Spec => []TypeOK
<1>1. IInv => TypeOK
  BY DEF IInv
<1> QED
  BY <1>1, Invariance, PTL

\* A report that ends holds every section but those whose command is missing,
\* and the program gives up only where neither ifconfig nor ip is installed.
ReportKept ==
  /\ pc = "ended" => Range(report) = Range(Sections) \ Lost
  /\ pc = "aborted" => ~esxi /\ {"ifconfig", "ip"} \cap tools = {}

\* The safety half of ReportEnds: what a report holds when it ends, and when it
\* cannot end (the sections of vmhost_report.rb, each with its rescue or shell).
THEOREM ReportComplete == Spec => []ReportKept
<1>1. IInv => ReportKept
  <2>1. Reached("ended") - 1 = 11
    BY LaterPlaces
  <2> QED
    BY <2>1, SectionsRange DEF IInv, ReportRight, ReportKept
<1> QED
  BY <1>1, Invariance, PTL

\* Whatever the networks and their prefix lengths, what nmap is told to scan is
\* the network listed (convert_netmask).
THEOREM RangesScanned == Spec => []ScannedRange
<1>1. IInv => ScannedRange
  <2> SUFFICES ASSUME IInv, ranges # <<>>, NEW a \in Address
               PROVE  InRange(a, Head(ranges)) <=>
                        OnNetwork(a, listed[Len(listed) - Len(ranges) + 1])
    BY DEF ScannedRange
  <2>1. ranges \in Seq(Ranges) /\ listed \in Seq(Networks)
    BY DEF IInv, TypeOK, Ranges
  <2>2. /\ 1 \in DOMAIN ranges /\ Head(ranges) = ranges[1] /\ ranges[1] \in Ranges
        /\ Len(ranges) \in Nat \ {0} /\ Len(listed) \in Nat
    BY <2>1
  <2>3. Len(listed) - Len(ranges) + 1 \in 1..Len(listed)
    BY <2>2 DEF IInv, RangesRight
  <2>4. listed[Len(listed) - Len(ranges) + 1] \in Networks
    BY <2>1, <2>3
  <2>5. IsRangeOf(ranges[1], listed[Len(listed) - Len(ranges) + 1])
    BY <2>2 DEF IInv, RangesRight
  <2> QED
    BY <2>2, <2>4, <2>5, RangeIsNetwork
<1> QED
  BY <1>1, Invariance, PTL

-----------------------------------------------------------------------------
(* The hosts handled. *)

Once(q)     == \A i, j \in DOMAIN q : q[i][1] = q[j][1] => i = j
Apart(q, t) == \A x \in Range(q), y \in Range(t) : x[1] # y[1]

LEMMA Joined ==
  ASSUME NEW S, NEW q \in Seq(S), NEW t \in Seq(S)
  PROVE  /\ q \o t \in Seq(S) /\ Len(q \o t) = Len(q) + Len(t)
         /\ Range(q \o t) = Range(q) \cup Range(t)
         /\ Once(q) /\ Once(t) /\ Apart(q, t) => Once(q \o t)
<1> DEFINE u == q \o t
<1>1. u \in Seq(S) /\ Len(u) = Len(q) + Len(t) /\ Len(q) \in Nat /\ Len(t) \in Nat
  OBVIOUS
<1>2. /\ DOMAIN u = 1..(Len(q) + Len(t))
      /\ DOMAIN q = 1..Len(q) /\ DOMAIN t = 1..Len(t)
  BY <1>1
<1>3. \A i \in 1..(Len(q) + Len(t)) : u[i] = IF i <= Len(q) THEN q[i] ELSE t[i - Len(q)]
  OBVIOUS
<1> HIDE DEF u
<1>4. \A i \in DOMAIN u : \/ i \in DOMAIN q /\ u[i] = q[i]
                          \/ i - Len(q) \in DOMAIN t /\ u[i] = t[i - Len(q)]
  BY <1>1, <1>2, <1>3
<1>5. Range(u) = Range(q) \cup Range(t)
  <2>1. \A i \in DOMAIN q : i \in DOMAIN u /\ u[i] = q[i]
    BY <1>1, <1>2, <1>3
  <2>2. \A j \in DOMAIN t : j + Len(q) \in DOMAIN u /\ u[j + Len(q)] = t[j]
    BY <1>1, <1>2, <1>3
  <2> QED
    BY <1>4, <2>1, <2>2 DEF Range
<1>6. ASSUME Once(q), Once(t), Apart(q, t), NEW i \in DOMAIN u, NEW j \in DOMAIN u,
             u[i][1] = u[j][1]
      PROVE  i = j
  <2>1. i \in Nat /\ j \in Nat
    BY <1>1, <1>2
  <2>2. \A m \in DOMAIN q : q[m] \in Range(q)
    BY DEF Range
  <2>3. \A m \in DOMAIN t : t[m] \in Range(t)
    BY DEF Range
  <2>4. CASE i \in DOMAIN q /\ u[i] = q[i]
    <3>1. CASE j \in DOMAIN q /\ u[j] = q[j]
      BY <1>6, <2>4, <3>1 DEF Once
    <3>2. CASE j - Len(q) \in DOMAIN t /\ u[j] = t[j - Len(q)]
      BY <1>6, <2>2, <2>3, <2>4, <3>2 DEF Apart
    <3> QED
      BY <1>4, <3>1, <3>2
  <2>5. CASE i - Len(q) \in DOMAIN t /\ u[i] = t[i - Len(q)]
    <3>1. CASE j \in DOMAIN q /\ u[j] = q[j]
      BY <1>6, <2>2, <2>3, <2>5, <3>1 DEF Apart
    <3>2. CASE j - Len(q) \in DOMAIN t /\ u[j] = t[j - Len(q)]
      <4>1. i - Len(q) = j - Len(q)
        BY <1>6, <2>5, <3>2 DEF Once
      <4> QED
        BY <1>1, <2>1, <4>1
    <3> QED
      BY <1>4, <3>1, <3>2
  <2> QED
    BY <1>4, <2>4, <2>5
<1> QED
  BY <1>1, <1>5, <1>6 DEF u, Once

LEMMA AsFacts ==
  ASSUME HostTypes, ListsRight, NEW c \in Classes
  PROVE  /\ As(c) \in Seq((DOMAIN output) \X Classes) /\ Len(As(c)) = Len(hosts[c])
         /\ Range(As(c)) = {<<k, c>> : k \in Range(hosts[c])}
         /\ Once(As(c))
         /\ \A d \in Classes \ {c} : Apart(As(c), As(d))
<1>1. \A d \in Classes : /\ DOMAIN hosts[d] = 1..Len(hosts[d]) /\ Len(hosts[d]) \in Nat
                         /\ As(d) = [i \in DOMAIN hosts[d] |-> <<hosts[d][i], d>>]
  BY DEF HostTypes, As
<1>2. \A d \in Classes : DOMAIN As(d) = DOMAIN hosts[d]
                         /\ \A i \in DOMAIN hosts[d] : As(d)[i] = <<hosts[d][i], d>>
  BY <1>1
<1>3. Len(As(c)) = Len(hosts[c])
  BY <1>1
<1>4. Range(As(c)) = {<<k, c>> : k \in Range(hosts[c])}
  BY <1>2 DEF Range
<1>5. \A d, e \in Classes : \A i \in DOMAIN As(d), j \in DOMAIN As(e) :
        As(d)[i][1] = As(e)[j][1] => d = e /\ i = j
  BY <1>2 DEF ListsRight
<1>6. Once(As(c))
  BY <1>5 DEF Once
<1>7. ASSUME NEW d \in Classes \ {c}
      PROVE  Apart(As(c), As(d))
  BY <1>5 DEF Apart, Range
<1> QED
  BY <1>3, <1>4, <1>6, <1>7, AsTyped

\* What is handled are the lists' hosts with their classes, each host once.
LEMMA HandledFacts ==
  ASSUME HostTypes, ListsRight
  PROVE  /\ Once(Handled)
         /\ \A k, c : <<k, c>> \in Range(Handled) <=> c \in Classes /\ k \in Range(hosts[c])
<1> DEFINE S == (DOMAIN output) \X Classes
           a == As("player")   b == As("network device")   d == As("ESXi")   e == As("other")
<1>1. /\ "player" \in Classes /\ "network device" \in Classes
      /\ "ESXi" \in Classes /\ "other" \in Classes
      /\ \A c \in Classes : c \in {"player", "network device", "ESXi", "other"}
  BY DEF Classes
<1>2. a \in Seq(S) /\ b \in Seq(S) /\ d \in Seq(S) /\ e \in Seq(S)
  BY <1>1, AsFacts
<1>3. Once(a) /\ Once(b) /\ Once(d) /\ Once(e)
  BY <1>1, AsFacts
<1>4. /\ Apart(a, b) /\ Apart(a, d) /\ Apart(a, e)
      /\ Apart(b, d) /\ Apart(b, e) /\ Apart(d, e)
  BY <1>1, AsFacts
<1>6. \A k, c : <<k, c>> \in Range(a) \cup Range(b) \cup Range(d) \cup Range(e)
                  <=> c \in Classes /\ k \in Range(hosts[c])
  <2>1. /\ Range(a) = {<<k, "player">> : k \in Range(hosts["player"])}
        /\ Range(b) = {<<k, "network device">> : k \in Range(hosts["network device"])}
        /\ Range(d) = {<<k, "ESXi">> : k \in Range(hosts["ESXi"])}
        /\ Range(e) = {<<k, "other">> : k \in Range(hosts["other"])}
    BY <1>1, AsFacts
  <2> HIDE DEF a, b, d, e
  <2> QED
    BY <1>1, <2>1
<1>7. Handled = ((a \o b) \o d) \o e
  BY DEF Handled
<1> HIDE DEF S, a, b, d, e
<1> DEFINE Joins(q, t, w) ==
      /\ w \in Seq(S) /\ Len(w) = Len(q) + Len(t)
      /\ Range(w) = Range(q) \cup Range(t) /\ Once(w)
<1>8. ASSUME NEW q \in Seq(S), NEW t \in Seq(S), NEW w, w = q \o t,
             Once(q), Once(t), Apart(q, t)
      PROVE  Joins(q, t, w)
  BY <1>8, Joined
<1>9. PICK u, v, w : u = a \o b /\ v = u \o d /\ w = v \o e
  OBVIOUS
<1>10. Joins(a, b, u)
  BY <1>2, <1>3, <1>4, <1>8, <1>9
<1>11. Apart(u, d) /\ Apart(u, e)
  BY <1>4, <1>10 DEF Apart
<1>12. u \in Seq(S) /\ Once(u)
  BY <1>10
<1> HIDE DEF Joins
<1>13. Joins(u, d, v)
  BY <1>2, <1>3, <1>8, <1>9, <1>11, <1>12
<1>14. Apart(v, e) /\ v \in Seq(S) /\ Once(v)
  BY <1>4, <1>11, <1>13 DEF Apart, Joins
<1>15. Joins(v, e, w)
  BY <1>2, <1>3, <1>8, <1>9, <1>14
<1>16. Handled = w
  BY <1>7, <1>9
<1>17. Range(w) = Range(a) \cup Range(b) \cup Range(d) \cup Range(e)
  BY <1>10, <1>13, <1>15 DEF Joins
<1>18. Once(w)
  BY <1>10, <1>13, <1>15 DEF Joins
<1> QED
  BY <1>6, <1>16, <1>17, <1>18

\* At "next" handled is what was entered, and no match is left.
LEMMA AllHandled ==
  ASSUME IInv, pc = "next"
  PROVE  /\ handled = Handled /\ Once(Handled) /\ HostTypes /\ ListsRight
         /\ \A k \in DOMAIN output, c \in Classes :
              <<k, c>> \in Range(handled) <=> k \in Range(hosts[c])
         /\ \A j \in pos..Len(output) :
              ~output[j].named => \A k \in j..Len(output) : ~output[k].vmware
<1>1. HostTypes /\ ListsRight /\ handled = Handled /\ NextVMware = {}
  BY TypeParts DEF IInv, HandledRight, Handled
<1>2. Len(output) \in Nat /\ pos \in Nat
  BY <1>1 DEF HostTypes
<1>3. ASSUME NEW j \in pos..Len(output), ~output[j].named, NEW k \in j..Len(output)
      PROVE  ~output[k].vmware
  <2>1. j \in Headers /\ j <= k /\ k \in pos..Len(output)
    BY <1>2, <1>3 DEF Headers
  <2> QED
    BY <1>1, <2>1 DEF NextVMware
<1> QED
  BY <1>1, <1>3, HandledFacts

\* No host is scanned twice, and scanned are those at which a match begins that
\* some "(VMware)" ends, for any number of hosts, with names or without
\* (vm_network_basic_scan, vm_handle_network_hosts).
THEOREM EachHostOnce == Spec => []ScannedHosts
<1>1. ASSUME IInv, pc = "next"
      PROVE  \A i, j \in DOMAIN handled : handled[i][1] = handled[j][1] => i = j
  BY <1>1, AllHandled DEF Once
<1>2. ASSUME IInv, pc = "next", NEW j \in DOMAIN output
      PROVE  (\E i \in DOMAIN handled : handled[i][1] = j)
               <=> Begins(j) /\ \E k \in j..Len(output) : output[k].vmware
  <2>1. /\ pos \in 1..(Len(output) + 1) /\ DOMAIN output = 1..Len(output)
        /\ Len(output) \in Nat /\ handled \in Seq((DOMAIN output) \X Classes)
    BY <1>2, AllHandled DEF HostTypes
  <2>2. (\E i \in DOMAIN handled : handled[i][1] = j)
          <=> \E c \in Classes : <<j, c>> \in Range(handled)
    <3>1. \A i \in DOMAIN handled : \E k \in DOMAIN output, c \in Classes :
            handled[i] = <<k, c>>
      BY <2>1
    <3> HIDE DEF Classes
    <3> QED
      BY <3>1 DEF Range
  <2>3. (\E i \in DOMAIN handled : handled[i][1] = j)
          <=> \E c \in Classes : j \in Range(hosts[c])
    BY <1>2, <2>2, AllHandled
  <2>4. CASE j \in 1..(pos - 1)
    <3>1. output[pos - 1].vmware /\ pos - 1 \in j..Len(output)
      BY <1>2, <2>1, <2>4, AllHandled DEF ListsRight
    <3>2. (\E c \in Classes : j \in Range(hosts[c])) <=> Begins(j)
      BY <1>2, <2>4, AllHandled DEF ListsRight
    <3> QED
      BY <2>3, <3>1, <3>2
  <2>5. CASE j \in pos..Len(output)
    <3>1. \A c \in Classes : \A i \in DOMAIN hosts[c] : hosts[c][i] < pos
      BY <1>2, AllHandled DEF ListsRight
    <3>2. ~ \E c \in Classes : j \in Range(hosts[c])
      BY <2>1, <2>5, <3>1 DEF Range
    <3>3. Begins(j) => \A k \in j..Len(output) : ~output[k].vmware
      BY <1>2, <2>5, AllHandled DEF Begins
    <3> QED
      BY <2>3, <3>2, <3>3
  <2> QED
    BY <2>1, <2>4, <2>5
<1>3. IInv => ScannedHosts
  BY <1>1, <1>2 DEF ScannedHosts
<1> QED
  BY <1>3, Invariance, PTL

\* A VMware host at which a match begins is scanned as what its own services
\* tell (the regular expression and the branches behind it).
THEOREM AsItsOwn == Spec => []OwnClass
<1>1. ASSUME IInv, pc = "next", NEW k \in DOMAIN output, output[k].vmware, Begins(k)
      PROVE  LET runs == output[k].services
                 is(c) == <<k, c>> \in Range(handled)
             IN /\ is("ESXi") <=> "httpd" \in runs
                /\ is("player") <=> "authd" \in runs /\ "httpd" \notin runs
                /\ is("network device") <=> runs # {} /\ runs \subseteq {"apex-mesh", "dnsmasq"}
                /\ is("other") <=> runs = {}
  <2> DEFINE runs  == output[k].services
             is(c) == <<k, c>> \in Range(handled)
  <2>1. \A c \in Classes : is(c) <=> c = Class(runs)
    <3>1. \A c \in Classes : is(c) <=> k \in Range(hosts[c])
      BY <1>1, AllHandled
    <3>2. k \in 1..(pos - 1)
      <4>1. pos \in 1..(Len(output) + 1) /\ DOMAIN output = 1..Len(output)
            /\ Len(output) \in Nat
        BY <1>1, AllHandled DEF HostTypes
      <4>2. k \in pos..Len(output) => ~output[k].vmware
        BY <1>1, <4>1, AllHandled DEF Begins
      <4> QED
        BY <1>1, <4>1, <4>2
    <3>3. \A c \in Classes : k \in Range(hosts[c]) <=> c = Class(runs)
      BY <1>1, <3>2 DEF IInv, OwnLists
    <3> QED
      BY <3>1, <3>3
  <2>2. runs \subseteq {"httpd", "authd", "apex-mesh", "dnsmasq"}
    <3>1. output[k] \in Hosts
      BY <1>1, AllHandled DEF HostTypes
    <3> QED
      BY <3>1, HostReportAssumption DEF Hosts, Services
  <2>3. /\ "player" \in Classes /\ "network device" \in Classes
        /\ "ESXi" \in Classes /\ "other" \in Classes
    BY DEF Classes
  <2> HIDE DEF runs
  <2>4. /\ Class(runs) = "ESXi" <=> "httpd" \in runs
        /\ Class(runs) = "player" <=> "authd" \in runs /\ "httpd" \notin runs
        /\ Class(runs) = "network device"
             <=> runs # {} /\ runs \subseteq {"apex-mesh", "dnsmasq"}
        /\ Class(runs) = "other" <=> runs = {}
    BY <2>2 DEF Class
  <2> HIDE DEF is
  <2>5. /\ is("ESXi") <=> "httpd" \in runs
        /\ is("player") <=> "authd" \in runs /\ "httpd" \notin runs
        /\ is("network device") <=> runs # {} /\ runs \subseteq {"apex-mesh", "dnsmasq"}
        /\ is("other") <=> runs = {}
    BY <2>1, <2>3, <2>4
  <2> QED
    BY <2>5 DEF is, runs
<1>2. IInv => OwnClass
  BY <1>1 DEF OwnClass
<1> QED
  BY <1>2, Invariance, PTL

-----------------------------------------------------------------------------
(* The verdicts of the dump, for registers of any width. *)

\* The two verdicts are yes only of commands the hypervisor implements, and a
\* feature's line that contradicts its verdict tells of a refused command,
\* whatever the place of the bits
\* (Backdump_Hostinfo_NestingSupported, Backdump_Hostinfo_VCPUInfoBackdoor).
THEOREM NoFalseVerdict == Spec => []VerdictsOfImplemented
<1>1. IInv => VerdictsOfImplemented
  BY DEF IInv, VerdictsRight
<1> QED
  BY <1>1, Invariance, PTL
=============================================================================
