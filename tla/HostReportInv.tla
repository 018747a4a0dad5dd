--------------------------- MODULE HostReportInv ---------------------------
(***************************************************************************)
(* The inductive invariant of HostReport and of the Backdump it runs.      *)
(***************************************************************************)
EXTENDS HostReport

Scanning == {"scan", "classify", "handle", "next"}

\* The place among the sections at which pc = p.
Reached(p) ==
  CASE p \in Range(Sections) -> CHOOSE i \in DOMAIN Sections : Sections[i] = p
    [] p \in Scanning \cup {"aborted"} -> Len(Sections)
    [] OTHER -> Len(Sections) + 1

\* Every section before that is in the report, the lost ones aside; and only
\* the network section gives up.
ReportRight ==
  /\ Range(report) = {Sections[i] : i \in 1..(Reached(pc) - 1)} \ Lost
  /\ pc = "aborted" => ~esxi /\ {"ifconfig", "ip"} \cap tools = {}

\* The range is the network: its masked address, as many bits as the mask has.
IsRangeOf(r, n) ==
  /\ r.address = Masked(n)
  /\ n.mask = Prefix(r.bits)

\* The networks still to scan are the last of those listed.
RangesRight ==
  /\ Len(ranges) <= Len(listed)
  /\ \A i \in DOMAIN ranges : IsRangeOf(ranges[i], listed[Len(listed) - Len(ranges) + i])
  /\ pc \in {"classify", "handle", "next"} => ranges # <<>>

\* A network's lists start out empty.
Fresh ==
  pc \notin {"classify", "handle", "next"} =>
    output = <<>> /\ pos = 1 /\ hosts = [c \in Classes |-> <<>>] /\ handled = <<>>

\* The four lists hold the hosts before pos at which a match begins, each once,
\* in one of them; the host before pos ends a match.
ListsRight ==
  /\ \A c \in Classes : \A i \in DOMAIN hosts[c] : hosts[c][i] < pos
  /\ \A c, d \in Classes : \A i \in DOMAIN hosts[c], j \in DOMAIN hosts[d] :
       hosts[c][i] = hosts[d][j] => c = d /\ i = j
  /\ pos = 1 \/ output[pos - 1].vmware
  /\ \A j \in 1..(pos - 1) : (\E c \in Classes : j \in Range(hosts[c])) <=> Begins(j)

\* A VMware host before pos at which a match begins is in its own class's list.
OwnLists ==
  \A k \in 1..(pos - 1), c \in Classes :
    output[k].vmware /\ Begins(k) =>
      (k \in Range(hosts[c]) <=> c = Class(output[k].services))

HandledRight ==
  /\ pc \in {"handle", "next"} => NextVMware = {}
  /\ pc = "next" =>
       handled = As("player") \o As("network device") \o As("ESXi") \o As("other")

\* The loops' counters, and a child that is not there between two runs.
DumpRight ==
  /\ stage \in {"none", "banner", "brute force", "control", "related", "done", "crashed"}
  /\ next \in Nat
  /\ stage = "none" => Dump!NotRunning
  /\ stage = "brute force" => next \in 1..BDOOR_CMD_MAX
  /\ stage = "banner" => next = 1

VerdictsRight ==
  /\ stage \in {"banner", "brute force", "crashed"} => nesting = "unasked"
  /\ stage \in {"banner", "brute force", "control", "crashed"} => replay = "unasked" /\ features = {}
  /\ VerdictsOfImplemented

\* The inductive invariant: sections, networks, lists of hosts and dump.
IInv ==
  /\ TypeOK
  /\ ReportRight
  /\ RangesRight
  /\ Fresh
  /\ ListsRight
  /\ OwnLists
  /\ HandledRight
  /\ DumpRight
  /\ VerdictsRight
=============================================================================
