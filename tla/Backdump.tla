------------------------------ MODULE Backdump ------------------------------
(***************************************************************************)
(* vm_backdump.c: every command of VMware's backdoor, one IN instruction   *)
(* each, then those that tell of a nested hypervisor.  The hypervisor      *)
(* answers in the registers; without one the instruction traps and the     *)
(* kernel ends the process.  HostReport runs it as a child.                *)
(*                                                                         *)
(* Of the registers only EAX decides anything; the rest is printed, and so *)
(* are the commands' names.  What a register holds is the set of its bits  *)
(* that are 1, the lowest bit 0.                                           *)
(***************************************************************************)
EXTENDS Integers, Sequences

CONSTANTS
  Width,                  \* bound: bits of a register (32)
  BDOOR_CMD_MAX,          \* bound: the first number that is no command
  BDOOR_CMD_NESTING_CONTROL, BDOOR_CMD_GET_VCPU_INFO,
  Related,                \* how many commands are dumped again at the end
  NESTING_CONTROL_QUERY,
  VcpuFeatures,           \* bits of GET_VCPU_INFO's answer printed one by one
  BDOOR_CMD_VCPU_HV_REPLAY_OK, BDOOR_CMD_VCPU_RESERVED

\* Assumed where the module is instantiated.
Parameters ==
  /\ Width \in Nat /\ BDOOR_CMD_MAX \in Nat \ {0} /\ Related \in Nat
  /\ NESTING_CONTROL_QUERY \subseteq 0..(Width - 1) /\ VcpuFeatures \subseteq 0..(Width - 1)
  /\ BDOOR_CMD_VCPU_HV_REPLAY_OK \in VcpuFeatures
  /\ BDOOR_CMD_VCPU_RESERVED \in 0..(Width - 1)

VARIABLES
  stage,         \* of main
  next,          \* counter of the stage's loop
  implemented,   \* the commands this hypervisor implements, of the two asked about
  features,      \* the bits called supported, one line each
  nesting, replay   \* the verdicts printed; "unasked" before

child == <<stage, next, implemented, features, nesting, replay>>

Register == SUBSET (0..(Width - 1))
Refused  == 0..(Width - 1)                    \* ~0U

\* a >= b, as numbers: the highest bit in which they differ is a's.
AtLeast(a, b) ==
  a = b \/ \E k \in a \ b : \A j \in (k + 1)..(Width - 1) : j \in a <=> j \in b

Asked    == {BDOOR_CMD_NESTING_CONTROL, BDOOR_CMD_GET_VCPU_INFO}

\* What EAX may hold after the instruction: a hypervisor refuses what it does
\* not implement, and an implemented GET_VCPU_INFO leaves the reserved bit 0.
EAX(cmd) ==
  IF cmd \notin implemented THEN {Refused}
  ELSE {r \in Register : cmd = BDOOR_CMD_GET_VCPU_INFO
                           => BDOOR_CMD_VCPU_RESERVED \notin r}

NotRunning ==
  /\ stage = "none" /\ next = 0 /\ implemented = {} /\ features = {}
  /\ nesting = "unasked" /\ replay = "unasked"

Start ==
  /\ stage' = "banner" /\ next' = 1 /\ implemented' \in SUBSET Asked
  /\ UNCHANGED <<features, nesting, replay>>

\* No hypervisor: the first IN is the last thing the process does.
Trap ==
  /\ stage = "banner" /\ implemented = {}
  /\ stage' = "crashed"
  /\ UNCHANGED <<next, implemented, features, nesting, replay>>

Backdump_PrintBanner ==
  /\ stage = "banner" /\ stage' = "brute force"
  /\ UNCHANGED <<next, implemented, features, nesting, replay>>

Backdump_BruteForceDumpAllCommands ==
  /\ stage = "brute force" /\ next < BDOOR_CMD_MAX
  /\ next' = next + 1
  /\ UNCHANGED <<stage, implemented, features, nesting, replay>>

Verdict(b) == IF b THEN "yes" ELSE "no"

\* Mutant: a refusal is not told from an answer.
Supported_AnyAnswer(r) == AtLeast(r, NESTING_CONTROL_QUERY)

Supported(r) == AtLeast(r, NESTING_CONTROL_QUERY) /\ r # Refused

Backdump_Hostinfo_NestingSupported ==
  /\ stage = "brute force" /\ next = BDOOR_CMD_MAX
  /\ \E r \in EAX(BDOOR_CMD_NESTING_CONTROL) : nesting' = Verdict(Supported(r))
  /\ stage' = "control" /\ next' = 0
  /\ UNCHANGED <<implemented, features, replay>>

\* Three subcommands; the results are not used.
Backdump_Hostinfo_NestingControl ==
  /\ stage = "control" /\ next < 3
  /\ next' = next + 1
  /\ UNCHANGED <<stage, implemented, features, nesting, replay>>

\* Mutant: the reserved bit is not looked at.
Backdump_Hostinfo_VCPUInfoBackdoor_AnyAnswer(r, bit) == bit \in r

\* The answer's features are printed first, before the reserved bit is looked at.
Printed(r) == r \cap VcpuFeatures

Backdump_Hostinfo_VCPUInfoBackdoor(r, bit) ==
  BDOOR_CMD_VCPU_RESERVED \notin r /\ bit \in r

Backdump_Hostinfo_NestedHVReplaySupported ==
  /\ stage = "control" /\ next = 3
  /\ \E r \in EAX(BDOOR_CMD_GET_VCPU_INFO) :
       /\ features' = Printed(r)
       /\ replay' = Verdict(Backdump_Hostinfo_VCPUInfoBackdoor(
                             r, BDOOR_CMD_VCPU_HV_REPLAY_OK))
  /\ stage' = "related" /\ next' = 1
  /\ UNCHANGED <<implemented, nesting>>

Backdump_Hostinfo_BackdoorCommand ==
  /\ stage = "related" /\ next <= Related
  /\ next' = next + 1
  /\ UNCHANGED <<stage, implemented, features, nesting, replay>>

Return ==
  /\ stage = "related" /\ next > Related
  /\ stage' = "done"
  /\ UNCHANGED <<next, implemented, features, nesting, replay>>

Step ==
  \/ Trap \/ Backdump_PrintBanner \/ Backdump_BruteForceDumpAllCommands
  \/ Backdump_Hostinfo_NestingSupported \/ Backdump_Hostinfo_NestingControl
  \/ Backdump_Hostinfo_NestedHVReplaySupported \/ Backdump_Hostinfo_BackdoorCommand
  \/ Return

Ended == stage \in {"done", "crashed"}

-----------------------------------------------------------------------------
\* The two verdicts ("Nesting supported=", "NestedHVReplaySupported supported=")
\* are yes only of commands the hypervisor implements, although both are read
\* out of the register a refusal fills with ones ("If reserved bit is 1, this
\* command wasn't implemented").  The lines of the single features do not wait
\* for that bit, and a refusal prints them all: where they call nested replay
\* supported and the verdict does not, the command was refused.
VerdictsOfImplemented ==
  /\ nesting = "yes" => BDOOR_CMD_NESTING_CONTROL \in implemented
  /\ replay = "yes" => BDOOR_CMD_GET_VCPU_INFO \in implemented
  /\ BDOOR_CMD_VCPU_HV_REPLAY_OK \in features =>
       (replay = "no" <=> BDOOR_CMD_GET_VCPU_INFO \notin implemented)
=============================================================================
