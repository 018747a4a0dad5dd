----------------------------- MODULE HostReport -----------------------------
(***************************************************************************)
(* vmhost_report.rb: the report's sections one after the other, each with  *)
(* the commands it needs, and at the end the scan of the networks that     *)
(* ifconfig (or ip, or esxcfg-vmknic) lists: they are turned into ranges,  *)
(* nmap scans a range, and the hosts in its output are sorted into classes *)
(* and scanned again.  A command that is not installed raises an exception *)
(* in Ruby's backticks, unless a shell runs it.  One section runs          *)
(* vm_backdump and waits for it: Backdump is composed into the model. An   *)
(* octet is the set of its bits that are 1, numbered from the left.        *)
(***************************************************************************)
EXTENDS Integers, Sequences, FiniteSetsExt, Functions

CONSTANTS
  OctetBits,      \* bound: 8 in the code
  ListedNetworks, \* sequences of networks the commands may list; ip route's
                  \* include those behind gateways, and none is listed when
                  \* ifconfig does not print "inet addr:"
  ToolSets,       \* what may be installed
  ServiceSets,    \* what nmap may find on a host
  MaxHosts,       \* bound: hosts that answer in one network
  Width, BDOOR_CMD_MAX, BDOOR_CMD_NESTING_CONTROL, BDOOR_CMD_GET_VCPU_INFO, Related,
  NESTING_CONTROL_QUERY, VcpuFeatures, BDOOR_CMD_VCPU_HV_REPLAY_OK,
  BDOOR_CMD_VCPU_RESERVED   \* of Backdump

Octet   == SUBSET (0..(OctetBits - 1))
Address == [0..3 -> Octet]
Prefix(p) == [i \in 0..3 |-> {j \in 0..(OctetBits - 1) : OctetBits * i + j < p}]
\* A system takes no mask with a hole for an interface's.
Networks == [bcast : Address, mask : {Prefix(p) : p \in 0..(4 * OctetBits)}]
Tools   == {"dmidecode", "vmware-toolbox-cmd", "ifconfig", "ip"}
Services == {"httpd", "authd", "apex-mesh", "dnsmasq"}
\* nmap looks names up: the header of a host that has one is "name (address)".
Hosts   == [named : BOOLEAN, vmware : BOOLEAN, services : ServiceSets]

ASSUME HostReportAssumption ==
  /\ OctetBits \in Nat \ {0} /\ MaxHosts \in Nat
  /\ ServiceSets \subseteq SUBSET Services /\ ToolSets \subseteq SUBSET Tools
  /\ ListedNetworks \subseteq Seq(Networks)

Classes == {"player", "network device", "ESXi", "other"}

VARIABLES
  pc,        \* the section, or the stage of the network scan
  esxi, tools, listed,   \* the machine: runs ESXi, installed commands, networks
  report,    \* sections whose data was collected
  ranges,    \* networks still to scan
  output,    \* nmap's output: the hosts in order
  pos,       \* where the regexp goes on
  hosts,     \* vmreport_hosts
  handled,   \* hosts of this network that were scanned one by one, and as what
  stage, next, implemented, features, nesting, replay   \* of Backdump, the child

Dump == INSTANCE Backdump

ASSUME BackdumpAssumption == Dump!Parameters

machine == <<esxi, tools, listed>>
network == <<ranges, output, pos, hosts, handled>>
child   == <<stage, next, implemented, features, nesting, replay>>
vars    == <<pc, machine, report, network, child>>

Sections == <<"version", "bios", "legacy", "raw", "guest tools", "script", "storage",
              "networking", "vsockets", "backdoor", "networks">>
After(s) == Sections[CHOOSE i \in DOMAIN Sections : i > 1 /\ Sections[i - 1] = s]

Outputs == UNION {[1..n -> Hosts] : n \in 0..MaxHosts}

TypeOK ==
  /\ pc \in Range(Sections) \cup {"scan", "classify", "handle", "next", "ended", "aborted"}
  /\ esxi \in BOOLEAN /\ tools \subseteq Tools
  /\ listed \in Seq(Networks)
  /\ report \in Seq(Range(Sections))
  /\ ranges \in Seq([address : Address, bits : 0..(4 * OctetBits)])
  /\ output \in Seq(Hosts) /\ Len(output) <= MaxHosts /\ pos \in 1..(Len(output) + 1)
  /\ hosts \in [Classes -> Seq(DOMAIN output)] /\ handled \in Seq((DOMAIN output) \X Classes)
  /\ pc # "backdoor" => Dump!NotRunning

-----------------------------------------------------------------------------
(* The sections. *)

Collected(s, needs) ==
  /\ pc = s /\ pc' = After(s)
  /\ report' = IF needs \subseteq tools THEN Append(report, s) ELSE report
  /\ UNCHANGED <<machine, network, child>>

\* On ESXi another command is run, by a shell.
check_vm_host_version == Collected("version", IF esxi THEN {} ELSE {"dmidecode"})

\* Mutant: no rescue.
vm_host_raw_stats_NoRescue ==
  \/ Collected("raw", {})  /\ "vmware-toolbox-cmd" \in tools
  \/ /\ pc = "raw" /\ "vmware-toolbox-cmd" \notin tools /\ pc' = "aborted"
     /\ UNCHANGED <<report, machine, network, child>>

vm_host_raw_stats == Collected("raw", {"vmware-toolbox-cmd"})

\* Every command of these is run by a shell.
vm_bios_stats         == Collected("bios", {})
vm_guest_legacy_stats == Collected("legacy", {})
vm_guest_tools_stats  == Collected("guest tools", {})
vm_script_stats       == Collected("script", {})
vm_storage_stats      == Collected("storage", {})
vm_networking_stats   == Collected("networking", {})
vm_scan_vsockets      == Collected("vsockets", {})

\* vm_backdump is the section's last command; a shell runs it and waits, and
\* the report goes on however it ended.
vmguest_backdoor_info ==
  /\ pc = "backdoor" /\ stage = "none" /\ Dump!Start
  /\ UNCHANGED <<pc, machine, report, network>>

BackdumpRuns ==
  /\ pc = "backdoor" /\ Dump!Step
  /\ UNCHANGED <<pc, machine, report, network>>

BackdumpEnded ==
  /\ pc = "backdoor" /\ Dump!Ended /\ pc' = After("backdoor")
  /\ report' = Append(report, "backdoor")
  /\ stage' = "none" /\ next' = 0 /\ implemented' = {} /\ features' = {}
  /\ nesting' = "unasked" /\ replay' = "unasked"
  /\ UNCHANGED <<machine, network>>

-----------------------------------------------------------------------------
(* The networks. *)

Masked(n) == [i \in 0..3 |-> n.bcast[i] \cap n.mask[i]]

\* Mutant: the last bit of each octet is not counted.
convert_netmask_OneBitShort(n) ==
  LET Ones(i) == Cardinality(n.mask[i] \ {OctetBits - 1})
  IN [address |-> Masked(n), bits |-> Ones(0) + Ones(1) + Ones(2) + Ones(3)]

convert_netmask(n) ==
  LET Ones(i) == Cardinality(n.mask[i])
  IN [address |-> Masked(n), bits |-> Ones(0) + Ones(1) + Ones(2) + Ones(3)]

\* What ip route prints: address and prefix length.
IpRoute(n) ==
  [address |-> Masked(n), bits |-> CHOOSE p \in 0..(4 * OctetBits) : n.mask = Prefix(p)]

vm_scan_local_networks ==
  /\ pc = "networks"
  /\ IF esxi \/ "ifconfig" \in tools
       THEN ranges' = [i \in DOMAIN listed |-> convert_netmask(listed[i])] /\ pc' = "scan"
       ELSE IF "ip" \in tools
         THEN ranges' = [i \in DOMAIN listed |-> IpRoute(listed[i])] /\ pc' = "scan"
         ELSE pc' = "aborted" /\ UNCHANGED ranges
  /\ UNCHANGED <<machine, report, output, pos, hosts, handled, child>>

\* nmap lists the hosts that answer.
vm_network_basic_scan ==
  /\ pc = "scan" /\ ranges # <<>>
  /\ output' \in Outputs
  /\ pc' = "classify"
  /\ UNCHANGED <<machine, report, ranges, pos, hosts, handled, child>>

\* The regexp's next match: from the first header at pos with an address right
\* behind "for" to the first "(VMware)" after it, be it this host's or a later
\* one's.  Headers with a name do not begin a match and do not end one.
Headers    == {k \in pos..Len(output) : ~output[k].named}
NextVMware == {k \in pos..Len(output) : output[k].vmware /\ \E j \in Headers : j <= k}

\* Mutant: the authentication daemon is looked for first.
Class_AuthdFirst(signature) ==
  CASE "authd" \in signature -> "player"
    [] "httpd" \in signature /\ "authd" \notin signature -> "ESXi"
    [] {"apex-mesh", "dnsmasq"} \cap signature # {} /\ {"httpd", "authd"} \cap signature = {}
         -> "network device"
    [] OTHER -> "other"

Class(signature) ==
  CASE "httpd" \in signature -> "ESXi"
    [] "authd" \in signature /\ "httpd" \notin signature -> "player"
    [] {"apex-mesh", "dnsmasq"} \cap signature # {} /\ {"httpd", "authd"} \cap signature = {}
         -> "network device"
    [] OTHER -> "other"

\* Mutant: no "next" after the ESXi branch.
Classify_Twice ==
  /\ pc = "classify" /\ NextVMware # {}
  /\ LET first     == Min(Headers)
         last      == Min(NextVMware)
         signature == UNION {output[k].services : k \in first..last}
     IN /\ hosts' = [c \in Classes |->
             IF c = Class(signature) \/ (c = "player" /\ {"httpd", "authd"} \subseteq signature)
               THEN <<first>> \o hosts[c] ELSE hosts[c]]
        /\ pos' = last + 1
  /\ UNCHANGED <<pc, machine, report, ranges, output, handled, child>>

\* Mutant: the regexp goes on one host too far.
Classify_SkipsOne ==
  /\ pc = "classify" /\ NextVMware # {}
  /\ hosts' = [hosts EXCEPT !["other"] = <<Min(Headers)>> \o @]
  /\ pos' = Min(NextVMware) + 2
  /\ UNCHANGED <<pc, machine, report, ranges, output, handled, child>>

Classify ==
  /\ pc = "classify" /\ NextVMware # {}
  /\ LET first     == Min(Headers)
         last      == Min(NextVMware)
         signature == UNION {output[k].services : k \in first..last}
     IN /\ hosts' = [hosts EXCEPT ![Class(signature)] = <<first>> \o @]
        /\ pos' = last + 1
  /\ UNCHANGED <<pc, machine, report, ranges, output, handled, child>>

Classified ==
  /\ pc = "classify" /\ NextVMware = {}
  /\ pc' = "handle"
  /\ UNCHANGED <<machine, report, network, child>>

As(c) == [i \in DOMAIN hosts[c] |-> <<hosts[c][i], c>>]

vm_handle_network_hosts ==
  /\ pc = "handle" /\ pc' = "next"
  /\ handled' = As("player") \o As("network device") \o As("ESXi") \o As("other")
  /\ UNCHANGED <<machine, report, ranges, output, pos, hosts, child>>

\* The lists are local to one round of the loop.
NextNetwork ==
  /\ pc = "next" /\ pc' = "scan"
  /\ ranges' = Tail(ranges) /\ output' = <<>> /\ pos' = 1
  /\ hosts' = [c \in Classes |-> <<>>] /\ handled' = <<>>
  /\ UNCHANGED <<machine, report, child>>

Ending ==
  /\ pc = "scan" /\ ranges = <<>>
  /\ pc' = "ended" /\ report' = Append(report, "networks")
  /\ UNCHANGED <<machine, network, child>>

-----------------------------------------------------------------------------
Init ==
  /\ pc = Sections[1]
  /\ esxi \in BOOLEAN /\ tools \in ToolSets /\ listed \in ListedNetworks
  /\ report = <<>> /\ ranges = <<>> /\ output = <<>> /\ pos = 1
  /\ hosts = [c \in Classes |-> <<>>] /\ handled = <<>>
  /\ Dump!NotRunning

Next ==
  \/ check_vm_host_version \/ vm_bios_stats \/ vm_guest_legacy_stats \/ vm_host_raw_stats
  \/ vm_guest_tools_stats \/ vm_script_stats \/ vm_storage_stats \/ vm_networking_stats
  \/ vm_scan_vsockets \/ vmguest_backdoor_info \/ BackdumpRuns \/ BackdumpEnded
  \/ vm_scan_local_networks \/ vm_network_basic_scan \/ Classify \/ Classified
  \/ vm_handle_network_hosts \/ NextNetwork \/ Ending

Spec == Init /\ [][Next]_vars
FairSpec == Spec /\ WF_vars(Next)

-----------------------------------------------------------------------------
\* The network nmap is told to scan: the addresses whose first bits are the
\* range's.  The network listed: those that agree with it where the mask is 1.
InRange(a, r) ==
  \A i \in 0..3 : \A j \in 0..(OctetBits - 1) :
    OctetBits * i + j < r.bits => (j \in a[i] <=> j \in r.address[i])
OnNetwork(a, n) == \A i \in 0..3 : \A j \in n.mask[i] : j \in a[i] <=> j \in n.bcast[i]

\* Each range scanned holds the addresses of the listed network it comes from,
\* all of them and no other, and the networks are taken in their order
\* (convert_netmask, vm_scan_local_networks).
ScannedRange ==
  pc = "scan" /\ ranges # <<>> =>
    LET n == listed[Len(listed) - Len(ranges) + 1]
    IN \A a \in Address : InRange(a, Head(ranges)) <=> OnNetwork(a, n)

\* A match begins at a host whose header starts with its address, unless one
\* that began before runs through it: it has met no "(VMware)" yet.
Begins(j) ==
  /\ ~output[j].named
  /\ \A i \in 1..(j - 1) : output[i].named \/ \E m \in i..(j - 1) : output[m].vmware

\* No host is scanned twice, and those scanned one by one are the hosts at which
\* a match begins that some "(VMware)" ends.  So a VMware host whose header has
\* a name, or that an open match runs into, is not scanned as itself
\* (vm_network_basic_scan, vm_handle_network_hosts).
ScannedHosts ==
  pc = "next" =>
    /\ \A i, j \in DOMAIN handled : handled[i][1] = handled[j][1] => i = j
    /\ \A j \in DOMAIN output :
         (\E i \in DOMAIN handled : handled[i][1] = j)
           <=> Begins(j) /\ \E k \in j..Len(output) : output[k].vmware

\* A VMware host at which a match begins is scanned as what its own services
\* tell, whatever its neighbours run; ESXi runs the players' daemon too.
OwnClass ==
  pc = "next" =>
    \A k \in DOMAIN output : output[k].vmware /\ Begins(k) =>
      LET runs == output[k].services
          is(c) == <<k, c>> \in Range(handled)
      IN /\ is("ESXi") <=> "httpd" \in runs
         /\ is("player") <=> "authd" \in runs /\ "httpd" \notin runs
         /\ is("network device") <=> runs # {} /\ runs \subseteq {"apex-mesh", "dnsmasq"}
         /\ is("other") <=> runs = {}

\* Of the dump of the hypervisor's backdoor (Backdump states it).
VerdictsOfImplemented == Dump!VerdictsOfImplemented

\* A command that is not installed costs its own section only: the report ends,
\* with everything else in it, unless neither ifconfig nor ip is there.
Lost == (IF esxi \/ "dmidecode" \in tools THEN {} ELSE {"version"})
        \cup (IF "vmware-toolbox-cmd" \in tools THEN {} ELSE {"raw"})

ReportEnds ==
  esxi \/ {"ifconfig", "ip"} \cap tools # {} =>
    <>(pc = "ended" /\ Range(report) = Range(Sections) \ Lost)

\* What is called a VMware machine (vmhost_report.rb:473) is one.
OnlyVMwareHosts ==
  \A i \in DOMAIN handled : output[handled[i][1]].vmware
=============================================================================
