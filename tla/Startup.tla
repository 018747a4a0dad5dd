------------------------------ MODULE Startup ------------------------------
(***************************************************************************)
(* vsockets_nc from its command line to its event loop: main's options and *)
(* modes, the vSockets helpers of vsockets_common.c, ipv4_common.c and     *)
(* vmci_sockets.h, and the port scan.  What is at stake is the descriptor  *)
(* table: every helper opens descriptors, and not all of them close.       *)
(* Before it, vsockets_hostname is run on the same machine.                *)
(*                                                                         *)
(* The event loop itself is Tunnel (with -t) or Interactive.               *)
(***************************************************************************)
EXTENDS Naturals, FiniteSets

CONSTANTS
  MaxFd,     \* bound: descriptor limits (RLIMIT_NOFILE) up to MaxFd
  NPorts,    \* the scan tries ports 0..NPorts-1 (66000 in the code)
  Kernels,   \* subset of {"mainline", "module", "windows", "none"}
  MaxArgs    \* bound: options on the command line

ASSUME StartupAssumption ==
  /\ MaxFd \in Nat /\ NPorts \in Nat /\ MaxArgs \in Nat
  /\ Kernels \subseteq {"mainline", "module", "windows", "none"}

Fd == 3..(MaxFd - 1)

Flags == {"connect", "remote_port", "listen", "listen4", "tunnel", "scan"}

VARIABLES
  pc, args,         \* args: options read so far
  flags,            \* main's flags that are set
  kernel, cid, binds, open,  \* the machine: kernel, whose CID it has, whether a
                             \* socket can be bound, open ports of the remote CID
  fdt,              \* the descriptor table
  port, reported,   \* the scan: next port, ports printed as open
  start,            \* fdt when the scan began
  told              \* what vsockets_hostname said of the machine

env    == <<kernel, cid, binds, open>>
scan   == <<port, reported, start>>
vars   == <<pc, args, flags, env, fdt, scan, told>>

\* "beyond" the descriptor limit.
Kinds == {"free", "beyond", "device", "socket", "vsock listener", "ipv4 listener"}

\* VMWARE_HYPERVISOR_CID, VMWARE_INVALID_CID (also when the device cannot be
\* asked) or another.
Cids == {"hypervisor", "invalid", "guest"}

TypeOK ==
  /\ pc \in {"hostname", "options", "available", "mode", "scan", "connect", "listen",
             "loop", "exit 0", "exit 1"}
  /\ args \in 0..MaxArgs /\ flags \subseteq Flags
  /\ kernel \in Kernels /\ cid \in Cids /\ binds \in BOOLEAN
  /\ open \subseteq 0..NPorts /\ told \in Cids \cup {"unasked", "absent"}
  /\ fdt \in [Fd -> Kinds] /\ start \in [Fd -> Kinds]
  /\ port \in 0..NPorts /\ reported \subseteq 0..(NPorts - 1)

-----------------------------------------------------------------------------
(* vmci_sockets.h. *)

LowestFree(t) ==
  {f \in Fd : t[f] = "free" /\ \A g \in Fd : g < f => t[g] # "free"}

\* What is needed to ask the driver.  On Windows each question opens and closes
\* a handle of its own, which takes nothing from the table ("none" is also a
\* Windows without the driver).
CanAsk(t) == kernel = "windows" \/ LowestFree(t) # {}

\* The table afterwards and whether there is an address family.  A kernel
\* with AF_VSOCK tells by a socket that is closed again; for one with the
\* vSockets module the device is opened and stays open.
VMCISock_GetAFValue(t) ==
  IF kernel = "none" \/ ~CanAsk(t) THEN {[table |-> t, af |-> FALSE]}
  ELSE IF kernel # "module" THEN {[table |-> t, af |-> TRUE]}
  ELSE {[table |-> [t EXCEPT ![f] = "device"], af |-> TRUE] : f \in LowestFree(t)}

\* Mutant: the device stays open.
VMCISock_GetLocalCID_Leaks(t) ==
  IF LowestFree(t) = {} THEN {[table |-> t, cid |-> "invalid"]}
  ELSE {[table |-> [t EXCEPT ![f] = "device"], cid |-> cid] : f \in LowestFree(t)}

\* The device is opened and closed.
VMCISock_GetLocalCID(t) ==
  {[table |-> t, cid |-> IF CanAsk(t) THEN cid ELSE "invalid"]}

-----------------------------------------------------------------------------
(* vsockets_hostname: a process of its own, started like vsockets_nc. *)

\* A machine with an address family and no CID is called physical, without a
\* hypervisor.
dump_vsocket_properties(t) ==
  UNION {IF a.af THEN {l.cid : l \in VMCISock_GetLocalCID(a.table)} ELSE {"absent"} :
           a \in VMCISock_GetAFValue(t)}

vsockets_hostname ==
  /\ pc = "hostname"
  /\ told' \in dump_vsocket_properties(fdt)
  /\ pc' = "options"
  /\ UNCHANGED <<args, flags, env, fdt, scan>>

-----------------------------------------------------------------------------
(* main: options. *)

\* What -c, -p, -l and -i give is passed on and decides nothing here.
ReadOption(fs) ==
  /\ pc = "options" /\ args < MaxArgs
  /\ args' = args + 1 /\ flags' = flags \cup fs
  /\ UNCHANGED <<pc, env, fdt, scan, told>>

\* -d turns debugging on; nothing it prints before the event loop has an
\* effect here (Interactive has the dump of the list).
Option ==
  \/ ReadOption({"connect"}) \/ ReadOption({"remote_port"})
  \/ ReadOption({"listen"}) \/ ReadOption({"listen4"})
  \/ ReadOption({"tunnel"}) \/ ReadOption({"scan"})
  \/ ReadOption({})

Exit(status) == pc' = status /\ UNCHANGED <<args, flags, env, fdt, scan, told>>

BadOption == pc = "options" /\ args < MaxArgs /\ Exit("exit 1")

OptionsRead ==
  /\ pc = "options" /\ pc' = "available"
  /\ UNCHANGED <<args, flags, env, fdt, scan, told>>

\* Mutant: the CID is not looked at.
vsockets_is_available_AnyCid ==
  /\ pc = "available"
  /\ \E a \in VMCISock_GetAFValue(fdt) :
       IF a.af
         THEN \E l \in VMCISock_GetLocalCID(a.table) : fdt' = l.table /\ pc' = "mode"
         ELSE fdt' = a.table /\ pc' = "exit 1"
  /\ UNCHANGED <<args, flags, env, scan, told>>

vsockets_is_available ==
  /\ pc = "available"
  /\ \E a \in VMCISock_GetAFValue(fdt) :
       IF a.af
         THEN \E l \in VMCISock_GetLocalCID(a.table) :
                fdt' = l.table /\ pc' = IF l.cid # "invalid" THEN "mode" ELSE "exit 1"
         ELSE fdt' = a.table /\ pc' = "exit 1"
  /\ UNCHANGED <<args, flags, env, scan, told>>

\* The port scan comes first, then the client (not with -t), then listening.
ClientAsked == "tunnel" \notin flags /\ {"connect", "remote_port"} \subseteq flags
ListenAsked == ~ClientAsked /\ {"listen", "listen4"} \cap flags # {}

\* Mutant: the scan starts one port late.
StartScan_FromOne ==
  /\ pc = "mode" /\ "scan" \in flags
  /\ pc' = "scan" /\ port' = 1 /\ start' = fdt
  /\ UNCHANGED <<args, flags, env, fdt, reported, told>>

StartScan ==
  /\ pc = "mode" /\ "scan" \in flags
  /\ pc' = "scan" /\ port' = 0 /\ start' = fdt
  /\ UNCHANGED <<args, flags, env, fdt, reported, told>>

StartClient ==
  /\ pc = "mode" /\ "scan" \notin flags /\ ClientAsked
  /\ pc' = "connect"
  /\ UNCHANGED <<args, flags, env, fdt, scan, told>>

StartListening ==
  /\ pc = "mode" /\ "scan" \notin flags /\ ListenAsked
  /\ \E l \in VMCISock_GetLocalCID(fdt) : fdt' = l.table
  /\ pc' = "listen"
  /\ UNCHANGED <<args, flags, env, scan, told>>

Help ==
  /\ pc = "mode" /\ "scan" \notin flags /\ ~ClientAsked /\ ~ListenAsked
  /\ Exit("exit 0")

-----------------------------------------------------------------------------
(* try_connection, in client mode and in the scan. *)

\* The tables in which connect is called, with the socket it is called on.
Connecting ==
  UNION {{<<a.table, f>> : f \in LowestFree(a.table)} :
           a \in {b \in VMCISock_GetAFValue(fdt) : b.af /\ binds}}

\* No socket, or bind fails.
try_connection_exits ==
  /\ pc \in {"connect", "scan"} /\ (pc = "scan" => port < NPorts)
  /\ Connecting = {}
  /\ Exit("exit 1")

Connect ==
  /\ pc = "connect"
  /\ \E tf \in Connecting :
       \/ fdt' = [tf[1] EXCEPT ![tf[2]] = "socket"] /\ pc' = "loop"
       \/ fdt' = tf[1] /\ pc' = "exit 0"
  /\ UNCHANGED <<args, flags, env, scan, told>>

\* Mutant: the socket of an open port is not closed.
ScanPort_NotClosed ==
  /\ pc = "scan" /\ port < NPorts
  /\ \E tf \in Connecting :
       fdt' = IF port \in open THEN [tf[1] EXCEPT ![tf[2]] = "socket"] ELSE tf[1]
  /\ reported' = IF port \in open THEN reported \cup {port} ELSE reported
  /\ port' = port + 1
  /\ UNCHANGED <<pc, args, flags, env, start, told>>

\* Mutant: one port too many.
ScanPort_OffByOne ==
  /\ pc = "scan" /\ port <= NPorts
  /\ \E tf \in Connecting : fdt' = tf[1]
  /\ reported' = IF port \in open THEN reported \cup {port} ELSE reported
  /\ port' = port + 1
  /\ UNCHANGED <<pc, args, flags, env, start, told>>

ScanPort ==
  /\ pc = "scan" /\ port < NPorts
  /\ \E tf \in Connecting : fdt' = tf[1]
  /\ reported' = IF port \in open THEN reported \cup {port} ELSE reported
  /\ port' = port + 1
  /\ UNCHANGED <<pc, args, flags, env, start, told>>

\* main exits with 1 after a scan.
ScanDone == pc = "scan" /\ port = NPorts /\ Exit("exit 1")

-----------------------------------------------------------------------------
(* listening_mode: try_listen with -l, otherwise try_ipv4_listen. *)

Listener == IF "listen" \in flags THEN "vsock listener" ELSE "ipv4 listener"

Listening ==
  IF "listen" \in flags
    THEN UNION {{<<a.table, f>> : f \in LowestFree(a.table)} :
                  a \in {b \in VMCISock_GetAFValue(fdt) : b.af}}
    ELSE {<<fdt, f>> : f \in LowestFree(fdt)}

Listen ==
  /\ pc = "listen"
  /\ \E tf \in Listening : fdt' = [tf[1] EXCEPT ![tf[2]] = Listener]
  /\ pc' = "loop"
  /\ UNCHANGED <<args, flags, env, scan, told>>

\* bind fails and closes the socket, or listen fails and leaves it open.
ListenFails ==
  /\ pc = "listen"
  /\ \E tf \in Listening : fdt' \in {tf[1], [tf[1] EXCEPT ![tf[2]] = "socket"]}
  /\ pc' = "exit 0"
  /\ UNCHANGED <<args, flags, env, scan, told>>

NoListenSocket == pc = "listen" /\ Listening = {} /\ Exit("exit 1")

-----------------------------------------------------------------------------
Init ==
  /\ pc = "hostname" /\ told = "unasked" /\ args = 0 /\ flags = {}
  /\ kernel \in Kernels /\ cid \in Cids /\ binds \in BOOLEAN
  /\ open \in SUBSET (0..NPorts)
  /\ \E limit \in 4..MaxFd :
       fdt = [f \in Fd |-> IF f < limit THEN "free" ELSE "beyond"]
  /\ start = fdt
  /\ port = 0 /\ reported = {}

Next ==
  \/ vsockets_hostname \/ Option \/ BadOption \/ OptionsRead \/ vsockets_is_available
  \/ StartScan \/ StartClient \/ StartListening \/ Help
  \/ try_connection_exits \/ Connect \/ ScanPort \/ ScanDone
  \/ Listen \/ ListenFails \/ NoListenSocket

Spec == Init /\ [][Next]_vars

\* Nothing here waits for anybody but the kernel.
FairSpec == Spec /\ WF_vars(Next)

-----------------------------------------------------------------------------
InScan == 0..(NPorts - 1)

\* Between two ports no socket of the scan is open, and the devices that are
\* open are those from before plus, where VMCISock_GetAFValue leaks, one per
\* port (host_port_scan, try_connection).
ScanDescriptors ==
  pc = "scan" =>
    /\ {f \in Fd : fdt[f] = "socket"} = {}
    /\ Cardinality({f \in Fd : fdt[f] = "device"}) =
         Cardinality({f \in Fd : start[f] = "device"})
         + (IF kernel = "module" THEN port ELSE 0)

\* The event loop starts on the descriptor table Tunnel starts with: only
\* leaked devices (none, or one before each of the calls that need the
\* address family) below the one socket, and everything above it free.
StartupLeaks == IF kernel # "module" THEN 0
                ELSE IF ListenAsked /\ "listen" \notin flags THEN 1 ELSE 2

LoopStart ==
  pc = "loop" =>
    \A f \in Fd :
      /\ f < 3 + StartupLeaks => fdt[f] = "device"
      /\ f = 3 + StartupLeaks => fdt[f] = IF ClientAsked THEN "socket" ELSE Listener
      /\ f > 3 + StartupLeaks => fdt[f] \in {"free", "beyond"}

\* The two programs agree: vsockets_nc goes on exactly where vsockets_hostname
\* calls the machine a guest or a hypervisor, whatever the kernel and the
\* descriptors left (two look-ups of the same facts, in two sources).
HostnameAgrees ==
  [][pc = "available" => (pc' = "mode" <=> told \in {"guest", "hypervisor"})]_vars

\* Where the address family costs nothing the scan finds every open port in its range and
\* nothing else.
ScanComplete ==
  pc = "scan" /\ binds /\ kernel \in {"mainline", "windows"}
    ~> reported = open \cap InScan /\ pc = "exit 1"
=============================================================================
