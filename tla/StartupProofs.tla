---------------------------- MODULE StartupProofs ----------------------------
(***************************************************************************)
(* The descriptor table from the command line to the event loop, for every *)
(* descriptor limit, range of ports and kind of kernel.                    *)
(***************************************************************************)
EXTENDS Startup, FiniteSetTheorems, TLAPS

\* k devices at the bottom, free descriptors up to the limit.
Table(limit, k) ==
  [f \in Fd |-> IF f < 3 + k THEN "device" ELSE IF f < limit THEN "free" ELSE "beyond"]

IsTable(t, k) == \E limit \in 4..MaxFd : 3 + k <= limit /\ t = Table(limit, k)

\* What one call of VMCISock_GetAFValue leaves open.
Leak == IF kernel = "module" THEN 1 ELSE 0

TablesRight ==
  /\ pc \in {"hostname", "options", "available"} => IsTable(fdt, 0)
  /\ pc \in {"mode", "connect", "listen"} => IsTable(fdt, Leak)
  /\ pc = "scan" =>
       \E limit \in 4..MaxFd :
         /\ 3 + Leak + Leak * port <= limit
         /\ start = Table(limit, Leak)
         /\ fdt = Table(limit, Leak + Leak * port)

\* vsockets_nc starts on the table that vsockets_hostname started on.
ToldRight ==
  pc \in {"options", "available"} => told \in dump_vsocket_properties(fdt)

ModeRight ==
  /\ pc = "connect" => ClientAsked
  /\ pc = "listen" => ListenAsked

IInv == TypeOK /\ TablesRight /\ ToldRight /\ ModeRight /\ LoopStart

-----------------------------------------------------------------------------
LEMMA TableTypes ==
  ASSUME NEW k, NEW limit
  PROVE  Table(limit, k) \in [Fd -> Kinds]
BY DEF Table, Kinds

\* Descriptors are given out from the bottom.
LEMMA NextFree ==
  ASSUME NEW k \in Nat, NEW limit \in 4..MaxFd, 3 + k <= limit
  PROVE  LowestFree(Table(limit, k)) = IF 3 + k < limit THEN {3 + k} ELSE {}
<1> DEFINE t == Table(limit, k)
<1>1. MaxFd \in Nat
  BY StartupAssumption
<1>2. \A f \in Fd : t[f] = "free" <=> f >= 3 + k /\ f < limit
  BY <1>1 DEF Table, Fd
<1>3. 3 + k < limit => 3 + k \in Fd
  BY <1>1 DEF Fd
<1>4. \A f \in Fd : f \in Nat
  BY <1>1 DEF Fd
<1> HIDE DEF t
<1>5. LowestFree(t) = IF 3 + k < limit THEN {3 + k} ELSE {}
  BY <1>2, <1>3, <1>4 DEF LowestFree
<1> QED
  BY <1>5 DEF t

LEMMA DeviceOpened ==
  ASSUME NEW k \in Nat, NEW limit \in 4..MaxFd, 3 + k < limit
  PROVE  [Table(limit, k) EXCEPT ![3 + k] = "device"] = Table(limit, k + 1)
<1>1. \A f \in Fd : f \in Int
  BY StartupAssumption DEF Fd
<1>2. \A f \in Fd : (f < 3 + (k + 1)) <=> (f < 3 + k \/ f = 3 + k)
  BY <1>1
<1> QED
  BY <1>2 DEF Table

\* What asking for the address family does.
LEMMA Asked ==
  ASSUME kernel \in {"mainline", "module", "windows", "none"},
         NEW k \in Nat, NEW limit \in 4..MaxFd, 3 + k <= limit
  PROVE  \/ VMCISock_GetAFValue(Table(limit, k)) = {[table |-> Table(limit, k), af |-> FALSE]}
         \/ /\ kernel # "module"
            /\ VMCISock_GetAFValue(Table(limit, k)) = {[table |-> Table(limit, k), af |-> TRUE]}
         \/ /\ kernel = "module" /\ 3 + (k + 1) <= limit
            /\ VMCISock_GetAFValue(Table(limit, k)) = {[table |-> Table(limit, k + 1), af |-> TRUE]}
<1> DEFINE t == Table(limit, k)
<1>1. CASE kernel = "none" \/ ~CanAsk(t)
  BY <1>1 DEF VMCISock_GetAFValue
<1>2. CASE kernel \in {"mainline", "windows"} /\ CanAsk(t)
  <2>1. VMCISock_GetAFValue(t) = {[table |-> t, af |-> TRUE]}
    BY <1>2 DEF VMCISock_GetAFValue
  <2> QED
    BY <1>2, <2>1
<1>3. CASE kernel = "module" /\ CanAsk(t)
  <2>1. LowestFree(t) = {3 + k} /\ 3 + k < limit
    BY <1>3, NextFree DEF CanAsk
  <2>2. VMCISock_GetAFValue(t) =
          {[table |-> [t EXCEPT ![f] = "device"], af |-> TRUE] : f \in LowestFree(t)}
    BY <1>3 DEF VMCISock_GetAFValue
  <2> HIDE DEF t
  <2>3. VMCISock_GetAFValue(t) = {[table |-> [t EXCEPT ![3 + k] = "device"], af |-> TRUE]}
    BY <2>1, <2>2
  <2>4. 3 + (k + 1) <= limit
    BY <2>1
  <2> QED
    BY <1>3, <2>1, <2>3, <2>4, DeviceOpened DEF t
<1> QED
  BY <1>1, <1>2, <1>3

\* In sum: a call that succeeds leaves Leak more devices.
LEMMA AskedTable ==
  ASSUME kernel \in {"mainline", "module", "windows", "none"},
         NEW k \in Nat, NEW limit \in 4..MaxFd, 3 + k <= limit,
         NEW a \in VMCISock_GetAFValue(Table(limit, k))
  PROVE  /\ a.af \in BOOLEAN
         /\ a.af => /\ a.table = Table(limit, k + Leak)
                    /\ 3 + k + Leak <= limit
         /\ ~a.af => a.table = Table(limit, k)
<1> DEFINE t == Table(limit, k)
           u == Table(limit, k + 1)
<1>1. CASE VMCISock_GetAFValue(t) = {[table |-> t, af |-> FALSE]}
  <2>1. a = [table |-> t, af |-> FALSE]
    BY <1>1
  <2> QED
    BY <2>1
<1>2. CASE kernel # "module" /\ VMCISock_GetAFValue(t) = {[table |-> t, af |-> TRUE]}
  <2>1. a = [table |-> t, af |-> TRUE] /\ k + Leak = k /\ 3 + k + Leak = 3 + k
    BY <1>2 DEF Leak
  <2> QED
    BY <2>1
<1>3. CASE /\ kernel = "module" /\ 3 + (k + 1) <= limit
           /\ VMCISock_GetAFValue(t) = {[table |-> u, af |-> TRUE]}
  <2>1. a = [table |-> u, af |-> TRUE] /\ k + Leak = k + 1 /\ 3 + k + Leak = 3 + (k + 1)
    BY <1>3 DEF Leak
  <2> QED
    BY <1>3, <2>1
<1> QED
  BY <1>1, <1>2, <1>3, Asked

-----------------------------------------------------------------------------
LEMMA Fixed == [Next]_vars => UNCHANGED env
BY DEF Next, vars, vsockets_hostname, Option, ReadOption, BadOption, OptionsRead,
       vsockets_is_available, StartScan, StartClient, StartListening, Help, Exit,
       try_connection_exits, Connect, ScanPort, ScanDone, Listen, ListenFails,
       NoListenSocket

\* The sockets on which connect or listen is called: one, on top.
LEMMA Opened ==
  ASSUME kernel \in {"mainline", "module", "windows", "none"},
         NEW k \in Nat, NEW limit \in 4..MaxFd, 3 + k <= limit,
         fdt = Table(limit, k)
  PROVE  /\ \A tf \in Connecting :
              /\ tf[1] = Table(limit, k + Leak) /\ tf[2] = 3 + (k + Leak)
              /\ 3 + (k + Leak) < limit
         /\ "listen" \in flags => \A tf \in Listening :
              /\ tf[1] = Table(limit, k + Leak) /\ tf[2] = 3 + (k + Leak)
              /\ 3 + (k + Leak) < limit
         /\ "listen" \notin flags => \A tf \in Listening :
              tf[1] = Table(limit, k) /\ tf[2] = 3 + k /\ 3 + k < limit
<1>1. Leak \in Nat
  BY DEF Leak
<1>2. ASSUME NEW a \in VMCISock_GetAFValue(fdt), a.af, NEW f \in LowestFree(a.table)
      PROVE  /\ a.table = Table(limit, k + Leak) /\ f = 3 + (k + Leak)
             /\ 3 + (k + Leak) < limit
  <2>1. a.table = Table(limit, k + Leak) /\ 3 + (k + Leak) <= limit
    BY <1>1, <1>2, AskedTable
  <2>2. k + Leak \in Nat
    BY <1>1
  <2> QED
    BY <1>2, <2>1, <2>2, NextFree
<1>3. \A f \in LowestFree(fdt) : f = 3 + k /\ 3 + k < limit
  BY NextFree
<1>4. \A tf \in Connecting :
        \E a \in VMCISock_GetAFValue(fdt) : a.af /\ \E f \in LowestFree(a.table) :
          tf = <<a.table, f>>
  BY DEF Connecting
<1>5. "listen" \in flags => \A tf \in Listening :
        \E a \in VMCISock_GetAFValue(fdt) : a.af /\ \E f \in LowestFree(a.table) :
          tf = <<a.table, f>>
  BY DEF Listening
<1>6. "listen" \notin flags => \A tf \in Listening :
        \E f \in LowestFree(fdt) : tf = <<fdt, f>>
  BY DEF Listening
<1> QED
  BY <1>2, <1>3, <1>4, <1>5, <1>6

LEMMA Answers ==
  ASSUME NEW t
  PROVE  /\ dump_vsocket_properties(t) \subseteq {cid, "invalid", "absent"}
         /\ \A l \in VMCISock_GetLocalCID(t) : l.table = t
<1>1. \A u : \A l \in VMCISock_GetLocalCID(u) : l.table = u /\ l.cid \in {cid, "invalid"}
  BY DEF VMCISock_GetLocalCID
<1>2. \A x \in dump_vsocket_properties(t) :
        x = "absent" \/ \E u : \E l \in VMCISock_GetLocalCID(u) : x = l.cid
  BY DEF dump_vsocket_properties
<1> QED
  BY <1>1, <1>2

LEMMA AnswersKept ==
  ASSUME UNCHANGED <<fdt, env>>
  PROVE  dump_vsocket_properties(fdt)' = dump_vsocket_properties(fdt)
<1>1. kernel' = kernel /\ cid' = cid
  BY DEF env
<1>2. \A t : CanAsk(t)' = CanAsk(t)
  BY <1>1 DEF CanAsk
<1>3. VMCISock_GetAFValue(fdt)' = VMCISock_GetAFValue(fdt)
  BY <1>1, <1>2 DEF VMCISock_GetAFValue, CanAsk
<1>4. \A t : VMCISock_GetLocalCID(t)' = VMCISock_GetLocalCID(t)
  BY <1>1, <1>2 DEF VMCISock_GetLocalCID
<1> QED
  BY <1>3, <1>4 DEF dump_vsocket_properties

LEMMA InitInv == Init => IInv
<1> SUFFICES ASSUME Init PROVE IInv
  OBVIOUS
<1>1. PICK limit \in 4..MaxFd : fdt = Table(limit, 0)
  <2>1. PICK limit \in 4..MaxFd :
          fdt = [f \in Fd |-> IF f < limit THEN "free" ELSE "beyond"]
    BY DEF Init
  <2>2. \A f \in Fd : ~(f < 3 + 0)
    BY StartupAssumption DEF Fd
  <2> QED
    BY <2>1, <2>2 DEF Table
<1>2. fdt \in [Fd -> Kinds] /\ IsTable(fdt, 0)
  BY <1>1, TableTypes DEF IsTable
<1>3. TypeOK
  BY <1>2, StartupAssumption DEF Init, TypeOK
<1>4. TablesRight /\ ToldRight /\ ModeRight /\ LoopStart
  BY <1>2 DEF Init, TablesRight, ToldRight, ModeRight, LoopStart
<1> QED
  BY <1>3, <1>4 DEF IInv

\* Steps that leave the table alone and do not enter the loop.
LEMMA QuietSteps ==
  ASSUME IInv,
         \/ vsockets_hostname \/ Option \/ BadOption \/ OptionsRead \/ Help
         \/ try_connection_exits \/ ScanDone \/ NoListenSocket \/ UNCHANGED vars
  PROVE  IInv'
<1>1. UNCHANGED <<fdt, env, scan>>
  BY DEF vsockets_hostname, Option, ReadOption, BadOption, OptionsRead, Help, Exit,
         try_connection_exits, ScanDone, NoListenSocket, vars
<1>2. TypeOK'
  <2>1. CASE vsockets_hostname
    <3>1. /\ told' \in {cid, "invalid", "absent"} /\ UNCHANGED <<args, flags>>
          /\ pc' = "options"
      BY <2>1, Answers DEF vsockets_hostname
    <3> QED
      BY <1>1, <3>1 DEF IInv, TypeOK, env, scan, Cids
  <2>2. CASE Option
    <3>1. PICK fs \in SUBSET Flags : ReadOption(fs)
      BY <2>2 DEF Option, Flags
    <3>2. args' \in 0..MaxArgs /\ flags' \subseteq Flags /\ UNCHANGED <<pc, told>>
      BY <3>1, StartupAssumption DEF ReadOption, IInv, TypeOK
    <3> QED
      BY <1>1, <3>2 DEF IInv, TypeOK, env, scan
  <2>3. CASE ~vsockets_hostname /\ ~Option
    <3>1. UNCHANGED <<args, flags, told>> /\ pc' \in {pc, "available", "exit 0", "exit 1"}
      BY <2>3 DEF BadOption, OptionsRead, Help, Exit, try_connection_exits, ScanDone,
                  NoListenSocket, vars
    <3> QED
      BY <1>1, <3>1 DEF IInv, TypeOK, env, scan
  <2> QED
    BY <2>1, <2>2, <2>3
<1>3. CASE pc' \in {"options", "available"}
  <2>1. IsTable(fdt, 0)
    BY <1>3 DEF vsockets_hostname, Option, ReadOption, BadOption, OptionsRead, Help, Exit,
         try_connection_exits, ScanDone, NoListenSocket, vars, IInv, TablesRight
  <2>2. told' \in dump_vsocket_properties(fdt)
    BY <1>3 DEF vsockets_hostname, Option, ReadOption, BadOption, OptionsRead, Help, Exit,
         try_connection_exits, ScanDone, NoListenSocket, vars, IInv, ToldRight
  <2> QED
    BY <1>1, <1>2, <1>3, <2>1, <2>2, AnswersKept
       DEF IInv, TablesRight, ToldRight, ModeRight, LoopStart, IsTable
<1>4. CASE pc' \in {"exit 0", "exit 1"}
  BY <1>2, <1>4 DEF IInv, TablesRight, ToldRight, ModeRight, LoopStart
<1>5. CASE UNCHANGED vars
  BY <1>1, <1>2, <1>5, AnswersKept
     DEF vars, env, scan, IInv, TablesRight, ToldRight, ModeRight, LoopStart, IsTable,
         Leak, StartupLeaks, ClientAsked, ListenAsked, Listener
<1> QED
  BY <1>3, <1>4, <1>5
     DEF vsockets_hostname, Option, ReadOption, BadOption, OptionsRead, Help, Exit,
         try_connection_exits, ScanDone, NoListenSocket

LEMMA KernelLeak ==
  ASSUME IInv, UNCHANGED env
  PROVE  /\ kernel \in {"mainline", "module", "windows", "none"}
         /\ Leak \in {0, 1} /\ Leak' = Leak /\ MaxFd \in Nat
BY StartupAssumption DEF IInv, TypeOK, env, Leak

\* A table with something opened on top of the devices.
LEMMA OnTop ==
  ASSUME NEW k \in Nat, NEW limit \in 4..MaxFd, 3 + k < limit, NEW kind \in Kinds,
         NEW t, t = [Table(limit, k) EXCEPT ![3 + k] = kind]
  PROVE  \A f \in Fd : /\ f < 3 + k => t[f] = "device"
                       /\ f = 3 + k => t[f] = kind
                       /\ f > 3 + k => t[f] \in {"free", "beyond"}
<1>1. Table(limit, k) \in [Fd -> Kinds] /\ \A f \in Fd : f \in Int
  BY StartupAssumption, TableTypes DEF Fd
<1>2. \A f \in Fd : /\ f < 3 + k => Table(limit, k)[f] = "device"
                    /\ ~(f < 3 + k) => Table(limit, k)[f] \in {"free", "beyond"}
  BY DEF Table
<1> DEFINE u == Table(limit, k)
<1> HIDE DEF u
<1>3. u \in [Fd -> Kinds] /\ t = [u EXCEPT ![3 + k] = kind]
  BY <1>1 DEF u
<1>4. \A f \in Fd : t[f] = IF f = 3 + k THEN kind ELSE u[f]
  BY <1>3
<1>5. \A f \in Fd : /\ f < 3 + k => ~(f = 3 + k)
                    /\ f > 3 + k => ~(f = 3 + k) /\ ~(f < 3 + k)
  BY <1>1
<1> QED
  BY <1>2, <1>3, <1>4, <1>5 DEF u

LEMMA OnTopTypes ==
  ASSUME NEW k, NEW limit, NEW f, NEW kind \in Kinds
  PROVE  [Table(limit, k) EXCEPT ![f] = kind] \in [Fd -> Kinds]
<1> DEFINE t == Table(limit, k)
<1>1. t \in [Fd -> Kinds]
  BY TableTypes
<1> HIDE DEF t
<1>2. [t EXCEPT ![f] = kind] \in [Fd -> Kinds]
  BY <1>1
<1> QED
  BY <1>2 DEF t

LEMMA AvailableStep == ASSUME IInv, vsockets_is_available PROVE IInv'
<1>1. /\ UNCHANGED <<args, flags, env, scan, told>> /\ pc' \in {"mode", "exit 1"}
      /\ pc = "available" /\ UNCHANGED env
  BY DEF vsockets_is_available
<1>0. /\ kernel \in {"mainline", "module", "windows", "none"}
      /\ Leak \in {0, 1} /\ Leak' = Leak /\ MaxFd \in Nat
  BY <1>1, KernelLeak
<1>2. PICK limit \in 4..MaxFd : 3 + 0 <= limit /\ fdt = Table(limit, 0)
  BY <1>1 DEF IInv, TablesRight, IsTable
<1>3. PICK a \in VMCISock_GetAFValue(fdt) :
        IF a.af THEN \E l \in VMCISock_GetLocalCID(a.table) : fdt' = l.table
                ELSE fdt' = a.table /\ pc' = "exit 1"
  BY DEF vsockets_is_available
<1>4. \/ fdt' = Table(limit, Leak) /\ 3 + Leak <= limit
      \/ fdt' = Table(limit, 0) /\ pc' = "exit 1"
  <2>1. /\ a.af \in BOOLEAN
        /\ a.af => a.table = Table(limit, 0 + Leak) /\ 3 + 0 + Leak <= limit
        /\ ~a.af => a.table = Table(limit, 0)
    BY <1>1, <1>2, <1>3, <1>0, AskedTable
  <2>2. 0 + Leak = Leak /\ 3 + 0 + Leak = 3 + Leak
    BY <1>0
  <2> QED
    BY <1>3, <2>1, <2>2, Answers
<1>5. TypeOK'
  <2>1. fdt' \in [Fd -> Kinds]
    BY <1>1, <1>4, <1>0, TableTypes
  <2> QED
    BY <1>1, <2>1 DEF IInv, TypeOK, env, scan
<1>6. pc' = "mode" => IsTable(fdt', Leak)
  BY <1>4 DEF IsTable
<1> QED
  BY <1>1, <1>5, <1>6, <1>0
     DEF IInv, TablesRight, ToldRight, ModeRight, LoopStart, IsTable

LEMMA ModeSteps ==
  ASSUME IInv, StartScan \/ StartClient \/ StartListening
  PROVE  IInv'
<1>1. /\ UNCHANGED <<args, flags, env, reported, told>> /\ UNCHANGED env
      /\ fdt' = fdt /\ pc = "mode"
      /\ \/ pc' = "scan" /\ port' = 0 /\ start' = fdt
         \/ pc' = "connect" /\ ClientAsked /\ UNCHANGED <<port, start>>
         \/ pc' = "listen" /\ ListenAsked /\ UNCHANGED <<port, start>>
  BY Answers DEF StartScan, StartClient, StartListening, scan
<1>0. /\ kernel \in {"mainline", "module", "windows", "none"}
      /\ Leak \in {0, 1} /\ Leak' = Leak /\ MaxFd \in Nat
  BY <1>1, KernelLeak
<1>2. PICK limit \in 4..MaxFd : 3 + Leak <= limit /\ fdt = Table(limit, Leak)
  BY <1>1 DEF IInv, TablesRight, IsTable
<1>3. TypeOK'
  <2>1. 0 \in 0..NPorts
    BY StartupAssumption
  <2> QED
    BY <1>1, <2>1 DEF IInv, TypeOK, env
<1>4. ModeRight'
  BY <1>1 DEF ModeRight, ClientAsked, ListenAsked
<1>5. Leak * 0 = 0 /\ 3 + Leak + 0 = 3 + Leak /\ Leak + 0 = Leak
  BY <1>0
<1>6. TablesRight'
  BY <1>1, <1>2, <1>5, <1>0 DEF TablesRight, IsTable
<1> QED
  BY <1>1, <1>3, <1>4, <1>6 DEF IInv, ToldRight, LoopStart

LEMMA ConnectStep == ASSUME IInv, Connect PROVE IInv'
<1>1. /\ UNCHANGED <<args, flags, env, scan, told>> /\ UNCHANGED env
      /\ pc = "connect" /\ ClientAsked
  BY DEF Connect, IInv, ModeRight
<1>0. /\ kernel \in {"mainline", "module", "windows", "none"}
      /\ Leak \in {0, 1} /\ Leak' = Leak /\ MaxFd \in Nat
  BY <1>1, KernelLeak
<1>2. PICK limit \in 4..MaxFd : 3 + Leak <= limit /\ fdt = Table(limit, Leak)
  BY <1>1 DEF IInv, TablesRight, IsTable
<1>3. PICK k \in Nat : k = Leak + Leak
  BY <1>0
<1>4. /\ 3 + k < limit
      /\ \/ fdt' = [Table(limit, k) EXCEPT ![3 + k] = "socket"] /\ pc' = "loop"
         \/ fdt' = Table(limit, k) /\ pc' = "exit 0"
  <2>1. \A tf \in Connecting : tf[1] = Table(limit, k) /\ tf[2] = 3 + k /\ 3 + k < limit
    <3>1. Leak \in Nat
      BY <1>0
    <3> QED
      BY <1>1, <1>2, <1>3, <3>1, <1>0, Opened
  <2> QED
    BY <2>1 DEF Connect
<1>5. TypeOK'
  <2>1. fdt' \in [Fd -> Kinds]
    <3>1. "socket" \in Kinds
      BY DEF Kinds
    <3>2. /\ [Table(limit, k) EXCEPT ![3 + k] = "socket"] \in [Fd -> Kinds]
          /\ Table(limit, k) \in [Fd -> Kinds]
      BY <3>1, OnTopTypes, TableTypes, Zenon
    <3> QED
      BY <1>4, <3>2, Zenon
  <2> QED
    BY <1>1, <1>4, <2>1 DEF IInv, TypeOK, env, scan
<1>6. LoopStart'
  <2>1. StartupLeaks' = k /\ ClientAsked'
    BY <1>1, <1>3, <1>0
       DEF StartupLeaks, ClientAsked, ListenAsked, Leak, env
  <2>2. pc' = "loop" => \A f \in Fd : /\ f < 3 + k => fdt'[f] = "device"
                                      /\ f = 3 + k => fdt'[f] = "socket"
                                      /\ f > 3 + k => fdt'[f] \in {"free", "beyond"}
    <3>1. "socket" \in Kinds
      BY DEF Kinds
    <3> QED
      BY <1>4, <3>1, OnTop
  <2> QED
    BY <2>1, <2>2 DEF LoopStart
<1> QED
  BY <1>1, <1>4, <1>5, <1>6 DEF IInv, TablesRight, ToldRight, ModeRight

LEMMA ScanStep == ASSUME IInv, ScanPort PROVE IInv'
<1>1. /\ UNCHANGED <<pc, args, flags, env, start, told>> /\ UNCHANGED env
      /\ pc = "scan" /\ port < NPorts /\ port' = port + 1
      /\ reported' \subseteq reported \cup {port}
  BY DEF ScanPort
<1>0. /\ kernel \in {"mainline", "module", "windows", "none"}
      /\ Leak \in {0, 1} /\ Leak' = Leak /\ MaxFd \in Nat
  BY <1>1, KernelLeak
<1>2. PICK limit \in 4..MaxFd :
        /\ 3 + Leak + Leak * port <= limit
        /\ start = Table(limit, Leak) /\ fdt = Table(limit, Leak + Leak * port)
  BY <1>1 DEF IInv, TablesRight
<1>3. port \in Nat /\ NPorts \in Nat
  <2>1. port \in 0..NPorts
    BY DEF IInv, TypeOK
  <2> QED
    BY <2>1, StartupAssumption
<1>4. PICK k \in Nat, m \in Nat :
        /\ k = Leak + Leak * port /\ m = Leak + Leak * (port + 1) /\ m = k + Leak
        /\ 3 + k <= limit
  <2>1. CASE Leak = 0
    <3>1. Leak * port = 0 /\ Leak * (port + 1) = 0
      BY <1>3, <2>1
    <3> QED
      BY <1>2, <2>1, <3>1
  <2>2. CASE Leak = 1
    <3>1. Leak * port = port /\ Leak * (port + 1) = port + 1
      BY <1>3, <2>2
    <3> QED
      BY <1>2, <1>3, <2>2, <3>1
  <2> QED
    BY <1>1, <2>1, <2>2, <1>0
<1>5. fdt' = Table(limit, m) /\ 3 + m < limit
  BY <1>1, <1>2, <1>4, <1>0, Opened DEF ScanPort
<1>6. TypeOK'
  <2>1. fdt' \in [Fd -> Kinds]
    BY <1>5, TableTypes
  <2>2. port' \in 0..NPorts /\ reported' \subseteq 0..(NPorts - 1)
    BY <1>1, <1>3 DEF IInv, TypeOK
  <2> QED
    BY <1>1, <2>1, <2>2 DEF IInv, TypeOK, env
<1>7. 3 + Leak + Leak * (port + 1) = 3 + m
  <2>1. Leak * (port + 1) \in Int /\ Leak \in Int
    <3>1. Leak \in Int /\ port + 1 \in Int
      BY <1>1, <1>3, <1>0
    <3> QED
      BY <3>1
  <2> QED
    BY <1>4, <2>1
<1>8. TablesRight'
  BY <1>1, <1>2, <1>4, <1>5, <1>7, <1>0 DEF TablesRight
<1> QED
  BY <1>1, <1>6, <1>8 DEF IInv, ToldRight, ModeRight, LoopStart

LEMMA ListenSteps == ASSUME IInv, Listen \/ ListenFails PROVE IInv'
<1>1. /\ UNCHANGED <<args, flags, env, scan, told>> /\ UNCHANGED env
      /\ pc = "listen" /\ ListenAsked /\ pc' \in {"loop", "exit 0"}
  BY DEF Listen, ListenFails, IInv, ModeRight
<1>0. /\ kernel \in {"mainline", "module", "windows", "none"}
      /\ Leak \in {0, 1} /\ Leak' = Leak /\ MaxFd \in Nat
  BY <1>1, KernelLeak
<1>2. PICK limit \in 4..MaxFd : 3 + Leak <= limit /\ fdt = Table(limit, Leak)
  BY <1>1 DEF IInv, TablesRight, IsTable
<1>3. PICK k \in Nat : k = IF "listen" \in flags THEN Leak + Leak ELSE Leak
  BY <1>0
<1>4. \A tf \in Listening : tf[1] = Table(limit, k) /\ tf[2] = 3 + k /\ 3 + k < limit
  <2>1. Leak \in Nat
    BY <1>0
  <2> QED
    BY <1>1, <1>2, <1>3, <2>1, <1>0, Opened
<1>5. /\ 3 + k < limit
      /\ \/ fdt' = [Table(limit, k) EXCEPT ![3 + k] = Listener]
         \/ fdt' \in {Table(limit, k), [Table(limit, k) EXCEPT ![3 + k] = "socket"]}
            /\ pc' = "exit 0"
  BY <1>4 DEF Listen, ListenFails
<1>6. Listener \in Kinds /\ Listener' = Listener
  BY <1>1 DEF Listener, Kinds
<1>7. TypeOK'
  <2>1. fdt' \in [Fd -> Kinds]
    <3>1. "socket" \in Kinds
      BY DEF Kinds
    <3>2. /\ [Table(limit, k) EXCEPT ![3 + k] = "socket"] \in [Fd -> Kinds]
          /\ [Table(limit, k) EXCEPT ![3 + k] = Listener] \in [Fd -> Kinds]
          /\ Table(limit, k) \in [Fd -> Kinds]
      BY <1>6, <3>1, OnTopTypes, TableTypes, Zenon
    <3> QED
      BY <1>5, <3>2, Zenon
  <2> QED
    BY <1>1, <2>1 DEF IInv, TypeOK, env, scan
<1>8. LoopStart'
  <2>1. StartupLeaks' = k /\ ~ClientAsked'
    <3>1. kernel' = kernel /\ flags' = flags /\ ~ClientAsked
      BY <1>1 DEF env, ListenAsked
    <3>2. StartupLeaks = k
      <4>1. CASE kernel = "module"
        <5>1. k = IF "listen" \in flags THEN 2 ELSE 1
          BY <1>3, <4>1 DEF Leak
        <5>2. ListenAsked
          BY <1>1
        <5> QED
          BY <4>1, <5>1, <5>2 DEF StartupLeaks
      <4>2. CASE kernel # "module"
        <5>1. k = 0
          BY <1>3, <4>2 DEF Leak
        <5> QED
          BY <4>2, <5>1 DEF StartupLeaks
      <4> QED
        BY <4>1, <4>2
    <3> QED
      BY <3>1, <3>2 DEF StartupLeaks, ClientAsked, ListenAsked
  <2>2. pc' = "loop" => \A f \in Fd : /\ f < 3 + k => fdt'[f] = "device"
                                      /\ f = 3 + k => fdt'[f] = Listener
                                      /\ f > 3 + k => fdt'[f] \in {"free", "beyond"}
    BY <1>5, <1>6, OnTop
  <2> QED
    BY <1>6, <2>1, <2>2 DEF LoopStart
<1> QED
  BY <1>1, <1>7, <1>8 DEF IInv, TablesRight, ToldRight, ModeRight

LEMMA Inductive == IInv /\ [Next]_vars => IInv'
BY QuietSteps, AvailableStep, ModeSteps, ConnectStep, ScanStep, ListenSteps DEF Next

\* The invariant holds from the start of main to the loop or the end.
THEOREM Invariance == Spec => []IInv
BY InitInv, Inductive, PTL DEF Spec

\* Everything main keeps before the loop has its type, whatever the options,
\* the kernel and the descriptor limit.
THEOREM TypeCorrect == Spec => []TypeOK
BY Invariance, PTL DEF IInv

\* The event loop is entered with leaked devices, none or one per question for
\* the address family, then the one socket, and nothing above: the table that
\* Tunnel and Interactive start with (main, try_connection, try_listen).
THEOREM LoopStartRight == Spec => []LoopStart
BY Invariance, PTL DEF IInv

\* Between two ports of a scan no socket is open, and the devices are those of
\* the start and, on a kernel that leaks them, one per port, for every number
\* of ports (host_port_scan).
THEOREM ScanLeaks == Spec => []ScanDescriptors
<1>1. ASSUME NEW k \in Nat, NEW limit \in 4..MaxFd, 3 + k <= limit
      PROVE  /\ {f \in Fd : Table(limit, k)[f] = "socket"} = {}
             /\ Cardinality({f \in Fd : Table(limit, k)[f] = "device"}) = k
  <2>1. MaxFd \in Nat /\ limit \in Nat
    BY StartupAssumption
  <2>2. {f \in Fd : Table(limit, k)[f] = "socket"} = {}
    BY DEF Table
  <2>3. {f \in Fd : Table(limit, k)[f] = "device"} = 3..(2 + k)
    <3>1. \A f \in Fd : Table(limit, k)[f] = "device" <=> f < 3 + k
      BY DEF Table
    <3>2. \A f \in 3..(2 + k) : f \in Fd /\ f < 3 + k
      BY <1>1, <2>1 DEF Fd
    <3>3. \A f \in Fd : f < 3 + k => f \in 3..(2 + k)
      BY <2>1 DEF Fd
    <3> QED
      BY <3>1, <3>2, <3>3
  <2>4. Cardinality(3..(2 + k)) = k
    <3>1. Cardinality(3..(2 + k)) = IF 3 > 2 + k THEN 0 ELSE 2 + k - 3 + 1
      BY FS_Interval
    <3> QED
      BY <3>1
  <2> QED
    BY <2>2, <2>3, <2>4
<1>2. IInv => ScanDescriptors
  <2> SUFFICES ASSUME IInv, pc = "scan" PROVE ScanDescriptors
    BY DEF ScanDescriptors
  <2>1. PICK limit \in 4..MaxFd :
          /\ 3 + Leak + Leak * port <= limit
          /\ start = Table(limit, Leak) /\ fdt = Table(limit, Leak + Leak * port)
    BY DEF IInv, TablesRight
  <2>2. port \in Nat /\ kernel \in {"mainline", "module", "windows", "none"}
    <3>1. port \in 0..NPorts /\ kernel \in Kernels
      BY DEF IInv, TypeOK
    <3> QED
      BY <3>1, StartupAssumption
  <2>3. PICK k \in Nat, m \in Nat :
          /\ k = Leak /\ m = Leak + Leak * port /\ 3 + k <= limit /\ 3 + m <= limit
          /\ m = k + (IF kernel = "module" THEN port ELSE 0)
    <3>1. CASE kernel = "module"
      <4>1. Leak = 1 /\ Leak * port = port
        BY <2>2, <3>1 DEF Leak
      <4> QED
        BY <2>1, <2>2, <3>1, <4>1
    <3>2. CASE kernel # "module"
      <4>1. Leak = 0 /\ Leak * port = 0
        BY <2>2, <3>2 DEF Leak
      <4> QED
        BY <2>1, <3>2, <4>1
    <3> QED
      BY <3>1, <3>2
  <2>4. /\ {f \in Fd : fdt[f] = "socket"} = {}
        /\ Cardinality({f \in Fd : fdt[f] = "device"}) = m
        /\ Cardinality({f \in Fd : start[f] = "device"}) = k
    BY <1>1, <2>1, <2>3
  <2> QED
    BY <2>3, <2>4 DEF ScanDescriptors
<1> QED
  BY <1>2, Invariance, PTL

\* vsockets_nc finds vSockets available exactly where vsockets_hostname, run
\* just before it, called the machine a guest or a hypervisor.
THEOREM SourcesAgree == Spec => HostnameAgrees
<1>1. IInv /\ [Next]_vars =>
        [pc = "available" => (pc' = "mode" <=> told \in {"guest", "hypervisor"})]_vars
  <2> SUFFICES ASSUME IInv, Next, pc = "available"
               PROVE  pc' = "mode" <=> told \in {"guest", "hypervisor"}
    OBVIOUS
  <2>1. vsockets_is_available
    BY DEF Next, vsockets_hostname, Option, ReadOption, BadOption, OptionsRead,
           StartScan, StartClient, StartListening, Help, try_connection_exits, Connect,
           ScanPort, ScanDone, Listen, ListenFails, NoListenSocket
  <2>2. told \in dump_vsocket_properties(fdt) /\ cid \in Cids
        /\ kernel \in {"mainline", "module", "windows", "none"}
    BY StartupAssumption DEF IInv, ToldRight, TypeOK
  <2>3. PICK a : VMCISock_GetAFValue(fdt) = {a} /\ a.af \in BOOLEAN
    <3>1. PICK limit \in 4..MaxFd : 3 + 0 <= limit /\ fdt = Table(limit, 0)
      BY DEF IInv, TablesRight, IsTable
    <3>2. \E t, b : VMCISock_GetAFValue(fdt) = {[table |-> t, af |-> b]} /\ b \in BOOLEAN
      BY <2>2, <3>1, Asked
    <3>3. PICK t, b : VMCISock_GetAFValue(fdt) = {[table |-> t, af |-> b]} /\ b \in BOOLEAN
      BY <3>2
    <3>4. [table |-> t, af |-> b].af \in BOOLEAN
      BY <3>3
    <3> QED
      BY <3>3, <3>4
  <2>4. PICK x : x \in Cids /\ \A l \in VMCISock_GetLocalCID(a.table) : l.cid = x
                 /\ VMCISock_GetLocalCID(a.table) # {}
    BY <2>2 DEF VMCISock_GetLocalCID, Cids
  <2>5. told = IF a.af THEN x ELSE "absent"
    <3>1. told \in IF a.af THEN {l.cid : l \in VMCISock_GetLocalCID(a.table)} ELSE {"absent"}
      BY <2>2, <2>3 DEF dump_vsocket_properties
    <3> QED
      BY <2>4, <3>1
  <2>6. pc' = IF a.af /\ x # "invalid" THEN "mode" ELSE "exit 1"
    BY <2>1, <2>3, <2>4 DEF vsockets_is_available
  <2> QED
    BY <2>3, <2>4, <2>5, <2>6 DEF Cids
<1> QED
  BY <1>1, Invariance, PTL DEF Spec, HostnameAgrees

-----------------------------------------------------------------------------
(* What the scan reports. *)

ReportedRight ==
  /\ reported = {p \in open : p < port}
  /\ pc \in {"hostname", "options", "available", "mode"} => port = 0
  /\ pc \in {"mode", "scan"} => kernel # "none"

OneLeft == \A f, g \in Fd : fdt[f] = "free" /\ fdt[g] = "free" => f = g

\* A scan that stops has tried every port, or its kernel leaks devices and
\* at most one descriptor is left: one for the device, none for a socket.
ScanStops ==
  pc = "scan" /\ pc' # "scan" /\ binds =>
    \/ reported' = open \cap InScan
    \/ kernel = "module" /\ OneLeft

LEMMA ReportedStep ==
  ASSUME IInv, ReportedRight, [Next]_vars
  PROVE  ReportedRight'
<1>1. UNCHANGED <<open, kernel>>
  BY Fixed DEF env
<1>2. open \subseteq Nat /\ port \in Nat
  <2>1. open \subseteq 0..NPorts /\ port \in 0..NPorts
    BY DEF IInv, TypeOK
  <2>2. NPorts \in Nat
    BY StartupAssumption
  <2> QED
    BY <2>1, <2>2
<1>3. CASE ScanPort
  <2>1. /\ pc = "scan" /\ pc' = "scan" /\ port' = port + 1
        /\ reported' = IF port \in open THEN reported \cup {port} ELSE reported
    BY <1>3 DEF ScanPort
  <2>2. \A p \in open : p < port + 1 <=> p < port \/ p = port
    BY <1>2
  <2>3. reported' = {p \in open : p < port + 1}
    BY <2>1, <2>2 DEF ReportedRight
  <2> QED
    BY <1>1, <2>1, <2>3 DEF ReportedRight
<1>4. CASE StartScan
  BY <1>1, <1>4 DEF StartScan, ReportedRight
<1>5. CASE vsockets_is_available
  <2>1. kernel = "none" => \A a \in VMCISock_GetAFValue(fdt) : ~a.af
    BY DEF VMCISock_GetAFValue
  <2>2. pc = "available" /\ pc' \in {"mode", "exit 1"} /\ UNCHANGED <<port, reported>>
    BY <1>5 DEF vsockets_is_available, scan
  <2>3. kernel = "none" => pc' = "exit 1"
    BY <1>5, <2>1 DEF vsockets_is_available
  <2> QED
    BY <1>1, <2>2, <2>3 DEF ReportedRight
<1>6. CASE \/ vsockets_hostname \/ Option \/ BadOption \/ OptionsRead
           \/ StartClient \/ StartListening \/ Help
           \/ try_connection_exits \/ Connect \/ ScanDone
           \/ Listen \/ ListenFails \/ NoListenSocket \/ UNCHANGED vars
  <2>1. /\ UNCHANGED <<port, reported>>
        /\ pc' \in {"mode", "scan"} => pc' = pc
        /\ pc' \in {"hostname", "options", "available"} =>
             pc \in {"hostname", "options", "available"}
    BY <1>6 DEF vsockets_hostname, Option, ReadOption, BadOption, OptionsRead, StartClient,
         StartListening, Help, Exit, try_connection_exits, Connect, ScanDone, Listen,
         ListenFails, NoListenSocket, vars, scan
  <2> QED
    BY <1>1, <2>1 DEF ReportedRight
<1> QED
  BY <1>3, <1>4, <1>5, <1>6 DEF Next

\* With a socket that can be bound and more than one descriptor left there is a
\* socket for the next port.
LEMMA NextPort ==
  ASSUME IInv, ReportedRight, pc = "scan", binds, Connecting = {}
  PROVE  kernel = "module" /\ OneLeft
<1>1. kernel \in {"mainline", "module", "windows"}
  <2>1. kernel \in Kernels
    BY DEF IInv, TypeOK
  <2> QED
    BY <2>1, StartupAssumption DEF ReportedRight
<1>2. PICK limit \in 4..MaxFd :
        3 + Leak + Leak * port <= limit /\ fdt = Table(limit, Leak + Leak * port)
  BY DEF IInv, TablesRight
<1>3. port \in Nat /\ MaxFd \in Nat
  BY StartupAssumption DEF IInv, TypeOK
<1>4. PICK k \in Nat : k = Leak + Leak * port /\ 3 + k <= limit
                       /\ (kernel # "module" => k = 0)
  <2>1. CASE kernel = "module"
    <3>1. Leak = 1 /\ Leak * port = port
      BY <1>3, <2>1 DEF Leak
    <3> QED
      BY <1>2, <1>3, <2>1, <3>1
  <2>2. CASE kernel # "module"
    <3>1. Leak = 0 /\ Leak * port = 0
      BY <1>3, <2>2 DEF Leak
    <3> QED
      BY <1>2, <2>2, <3>1
  <2> QED
    BY <2>1, <2>2
<1>5. fdt = Table(limit, k)
  BY <1>2, <1>4
<1>6. \A a \in VMCISock_GetAFValue(fdt) : a.af => LowestFree(a.table) = {}
  <2> SUFFICES ASSUME NEW a \in VMCISock_GetAFValue(fdt), a.af, NEW f \in LowestFree(a.table)
               PROVE  FALSE
    OBVIOUS
  <2>1. <<a.table, f>> \in {<<a.table, g>> : g \in LowestFree(a.table)}
    OBVIOUS
  <2>2. a \in {b \in VMCISock_GetAFValue(fdt) : b.af /\ binds}
    OBVIOUS
  <2>3. <<a.table, f>> \in Connecting
    BY <2>1, <2>2 DEF Connecting
  <2> QED
    BY <2>3
<1>7. 3 + k < limit => kernel = "module" /\ ~(3 + (k + 1) < limit)
  <2> SUFFICES ASSUME 3 + k < limit
               PROVE  kernel = "module" /\ ~(3 + (k + 1) < limit)
    OBVIOUS
  <2>1. LowestFree(fdt) = {3 + k}
    BY <1>4, <1>5, NextFree
  <2>2. CanAsk(fdt)
    BY <2>1 DEF CanAsk
  <2>3. kernel = "module"
    <3> SUFFICES ASSUME kernel # "module" PROVE FALSE
      BY <1>1
    <3>1. VMCISock_GetAFValue(fdt) = {[table |-> fdt, af |-> TRUE]}
      BY <1>1, <2>2 DEF VMCISock_GetAFValue
    <3> QED
      BY <1>6, <2>1, <3>1
  <2>4. [fdt EXCEPT ![3 + k] = "device"] = Table(limit, k + 1)
    BY <1>4, <1>5, DeviceOpened
  <2>5. VMCISock_GetAFValue(fdt) = {[table |-> Table(limit, k + 1), af |-> TRUE]}
    <3>1. VMCISock_GetAFValue(fdt) =
            {[table |-> [fdt EXCEPT ![f] = "device"], af |-> TRUE] : f \in LowestFree(fdt)}
      BY <2>2, <2>3 DEF VMCISock_GetAFValue
    <3> QED
      BY <2>1, <2>4, <3>1
  <2>6. LowestFree(Table(limit, k + 1)) = {}
    BY <1>6, <2>5
  <2>7. 3 + (k + 1) < limit => LowestFree(Table(limit, k + 1)) = {3 + (k + 1)}
    <3>1. k + 1 \in Nat
      BY <1>4
    <3> QED
      BY <3>1, NextFree
  <2> QED
    BY <2>3, <2>6, <2>7
<1>8. kernel = "module"
  <2>1. kernel # "module" => 3 + k < limit
    BY <1>4
  <2> QED
    BY <1>7, <2>1
<1>9. \A f \in Fd : fdt[f] = "free" => f \in Int /\ f >= 3 + k /\ f < limit
  BY <1>3, <1>4, <1>5 DEF Table, Fd
<1> QED
  BY <1>3, <1>4, <1>7, <1>8, <1>9 DEF OneLeft

\* The safety half of ScanComplete, for every kernel and number of ports: where
\* a socket can be bound, a scan that stops printed the open ports of its range
\* and no other, or the devices it leaked have used up the descriptors
\* (host_port_scan, try_connection).
THEOREM ScanReports == Spec => [][ScanStops]_vars
<1>1. Init => ReportedRight
  <2> SUFFICES ASSUME Init PROVE ReportedRight
    OBVIOUS
  <2>1. open \subseteq Nat /\ port = 0 /\ reported = {} /\ pc = "hostname"
    BY StartupAssumption DEF Init
  <2>2. \A p \in open : ~(p < 0)
    BY <2>1
  <2> QED
    BY <2>1, <2>2 DEF ReportedRight
<1>2. IInv /\ ReportedRight /\ [Next]_vars => ReportedRight'
  BY ReportedStep
<1>3. IInv /\ ReportedRight /\ [Next]_vars => [ScanStops]_vars
  <2> SUFFICES ASSUME IInv, ReportedRight, Next, pc = "scan", pc' # "scan", binds
               PROVE  \/ reported' = open \cap InScan
                      \/ kernel = "module" /\ OneLeft
    BY DEF ScanStops
  <2>1. ScanDone \/ try_connection_exits
    BY DEF Next, vsockets_hostname, Option, ReadOption, BadOption, OptionsRead,
         vsockets_is_available, StartScan, StartClient, StartListening, Help, Exit,
         Connect, ScanPort, Listen, ListenFails, NoListenSocket
  <2>2. CASE ScanDone
    <3>1. port = NPorts /\ reported' = reported
      BY <2>2 DEF ScanDone, Exit, scan
    <3>2. open \subseteq 0..NPorts /\ NPorts \in Nat
      BY StartupAssumption DEF IInv, TypeOK
    <3>3. \A p \in open : p < NPorts <=> p \in 0..(NPorts - 1)
      BY <3>2
    <3> QED
      BY <3>1, <3>3 DEF ReportedRight, InScan
  <2>3. CASE try_connection_exits
    BY <2>3, NextPort DEF try_connection_exits
  <2> QED
    BY <2>1, <2>2, <2>3
<1> QED
  BY <1>1, <1>2, <1>3, Invariance, PTL DEF Spec
=============================================================================
