---------------------------- MODULE Interactive ----------------------------
(***************************************************************************)
(* vsockets_nc without -t: client mode (-c and -p) and listening mode      *)
(* (-l or -i).  Each connection is bridged with the standard input:        *)
(* bridge_sockets_and_descriptors registers the socket with descriptor 0   *)
(* as its context and descriptor 0 with the socket as its context.         *)
(* Descriptor 0 is never closed, and every connection registers it again.  *)
(*                                                                         *)
(* On Linux select watches descriptor 0.  On Windows it cannot: a thread   *)
(* copies the standard input into a pipe and the loop polls the pipe,      *)
(* waking up every second.  With -d on a Linux kernel with the vSockets    *)
(* module, the dump of the list before each pass leaks VMCI devices.       *)
(*                                                                         *)
(* Sends complete at once here (Tunnel models the bounded send queue).     *)
(***************************************************************************)
EXTENDS Naturals, Sequences, FiniteSets, SocketList

CONSTANTS
  Conns,          \* connections: exactly one in client mode
  Mode,           \* "client" or "listen"
  Platforms,      \* subset of {"linux", "windows"}
  Debug,          \* subset of BOOLEAN: -d given and devices leaked
  MaxFd,          \* descriptors are 0 and 3..MaxFd-1
  MoreFds,        \* bound: further descriptors when devices are leaked
  SelectNfds,     \* on Linux select looks at the descriptors below this
  SelectWord,     \* and writes back those below this: the rest stays as set
  BufSize,        \* BRIDGE_BUF_SIZE
  ThreadBuf,      \* STDIN_READ_BUFFER_SIZE
  PipeCap,        \* what CreatePipe's pipe holds
  MaxSend,        \* bound: items a peer sends
  AllItems,       \* bound: items the peers send and the user types together
  MaxTyped,       \* bound: items typed
  WindowsConns,   \* bound: how many of Conns connect on Windows
  Env,            \* how peers and the user may end, and whether select may fail
  Free, Beyond, Listener, AfDevice, NoFd   \* Beyond: over the descriptor limit

ASSUME InteractiveAssumption ==
  /\ Mode \in {"client", "listen"}
  /\ Mode = "client" => Cardinality(Conns) = 1
  /\ Platforms \subseteq {"linux", "windows"} /\ Debug \subseteq BOOLEAN
  /\ MaxFd \in 4..1024 /\ MoreFds \in 0..(1024 - MaxFd)   \* what an fd_set holds
  /\ TRUE \in Debug => MaxFd + MoreFds > 5
  /\ SelectNfds \in Nat /\ SelectWord \in Nat /\ SelectNfds <= SelectWord
  /\ BufSize \in Nat \ {0} /\ ThreadBuf \in Nat \ {0} /\ PipeCap \in Nat \ {0}
  /\ MaxSend \in Nat /\ AllItems \in Nat /\ MaxTyped \in Nat /\ WindowsConns \in Nat
  /\ Env \subseteq {"fin", "gone", "eof", "selfail"}

Fd       == 3..(MaxFd + MoreFds - 1)
Stdin    == 0
Item     == (Conns \X (1..MaxSend)) \cup ({Stdin} \X (1..MaxTyped))

ASSUME DescriptorAssumption ==
  /\ Free \notin {Beyond, Listener, AfDevice} /\ Listener \notin {Beyond, AfDevice}
  /\ {Free, Beyond, Listener, AfDevice, Stdin} \cap Conns = {}
  /\ NoFd \notin Fd \cup {Stdin}

Stream(s, n)   == [k \in 1..n |-> <<s, k>>]
MinOf(a, b)    == IF a < b THEN a ELSE b
Take(s, n)     == SubSeq(s, 1, n)
DropFirst(s,n) == SubSeq(s, n + 1, Len(s))

VARIABLES
  sockets, pc, pos, socket_mask, buffer,   \* as in Tunnel
  fdt, backlog,                            \* descriptors 3..; accept queue
  peer, sent, rx,                          \* of each connection
  wrote,                                   \* items written to each connection
  typed, eof,                              \* typed so far, ended
  stdin,                                   \* what reading descriptor 0 gives
  terminal,                                \* items written to descriptor 0
  platform, leak, tty,        \* fixed: leak, -d on a kernel that leaks; tty,
                              \* descriptor 0 is open for writing too
  n_special_descriptors,      \* of the list: registrations select cannot watch
  tpc, console, read_buffer   \* Windows: the stdin thread, its input and chunk

thread == <<tpc, console, read_buffer>>
SOCKET_LIST == <<sockets, n_special_descriptors>>
local  == <<SOCKET_LIST, pc, pos, socket_mask, buffer>>
net    == <<peer, sent>>
queues == <<fdt, backlog, rx, wrote, stdin, terminal>>
user   == <<typed, eof, platform, leak, tty, thread>>
vars   == <<local, net, queues, user>>

StateTypes ==
  /\ sockets \in [elems : Seq(SOCKET_ENTRY(Fd \cup {Stdin}, Fd \cup {Stdin, NoFd})),
                  curr : Nat]
  /\ n_special_descriptors \in Nat
  /\ pc \in {"dump", "cleanup", "select", "handle", "write", "exited", "aborted"}
  /\ pos \in Nat \ {0} /\ socket_mask \subseteq Fd \cup {Stdin}
  /\ buffer \in Seq(Item)
  /\ fdt \in [Fd -> Conns \cup {Free, Beyond, Listener, AfDevice}]
  /\ backlog \in Seq(Conns)
  /\ peer \in [Conns -> {"none", "open", "fin", "gone"}]
  /\ sent \in [Conns -> 0..MaxSend] /\ typed \in 0..MaxTyped
  /\ eof \in BOOLEAN /\ tty \in BOOLEAN
  /\ platform \in Platforms /\ leak \in Debug
  /\ tpc \in {"none", "start", "read", "write", "ended"}
  /\ console \in Seq(Item) /\ read_buffer \in Seq(Item)
  /\ rx \in [Conns -> Seq(Item)] /\ wrote \in [Conns -> Seq(Item)]
  /\ stdin \in Seq(Item) /\ terminal \in Seq(Item)

\* The counter counts every connection once, whoever else registers the
\* standard input.
TypeOK == StateTypes /\ n_special_descriptors <= Cardinality(Conns)

Alive     == pc \notin {"exited", "aborted"}
Held(c)   == \E f \in Fd : fdt[f] = c
Queued(c) == \E i \in DOMAIN backlog : backlog[i] = c
LowestFree == {f \in Fd : fdt[f] = Free /\ \A g \in Fd : g < f => fdt[g] # Free}

\* n calls of VMCISock_GetAFValue each leave a device open, while they can.
VMCISock_GetAFValue(t, n) ==
  [f \in Fd |-> IF t[f] = Free /\ Cardinality({g \in 3..f : t[g] = Free}) <= n
                 THEN AfDevice ELSE t[f]]

\* The descriptor accept returns.  Windows handles are in no order.
NewFd == IF platform = "linux" THEN LowestFree ELSE {f \in Fd : fdt[f] = Free}

\* What read and select see of a descriptor: AtEnd, end of file or an error.
\* The stdin thread never closes its end of the pipe.
Data(f)   == IF f = Stdin THEN stdin
             ELSE IF fdt[f] \in Conns THEN rx[fdt[f]] ELSE <<>>
AtEnd(f)  == IF f = Stdin THEN eof /\ platform = "linux"
             ELSE \/ fdt[f] = Free
                  \/ fdt[f] \in Conns /\ peer[fdt[f]] \in {"fin", "gone"}
Readable(f) == \/ f # Stdin /\ fdt[f] = Listener /\ backlog # <<>>
               \/ Data(f) # <<>> \/ AtEnd(f)

-----------------------------------------------------------------------------
(* The user and the peers. *)

Machine == <<platform, leak, tty>>

ClientConnect(c) ==
  /\ Alive /\ Mode = "listen" /\ peer[c] = "none"
  /\ platform = "windows" =>
       Cardinality({d \in Conns : peer[d] # "none"}) < WindowsConns
  /\ peer' = [peer EXCEPT ![c] = "open"]
  /\ backlog' = Append(backlog, c)
  /\ UNCHANGED <<local, sent, fdt, rx, wrote, stdin, terminal, user>>

ItemsSoFar == typed + Cardinality({d \in Conns \X (1..MaxSend) : d[2] <= sent[d[1]]})

PeerSend(c) ==
  /\ Alive /\ peer[c] = "open" /\ (Held(c) \/ Queued(c))
  /\ sent[c] < MaxSend
  /\ ItemsSoFar < AllItems
  /\ sent' = [sent EXCEPT ![c] = @ + 1]
  /\ rx' = [rx EXCEPT ![c] = Append(@, <<c, sent[c] + 1>>)]
  /\ UNCHANGED <<local, peer, fdt, backlog, wrote, stdin, terminal, user>>

PeerFinish(c) ==
  /\ Alive /\ peer[c] = "open"
  /\ \E how \in Env \cap {"fin", "gone"} : peer' = [peer EXCEPT ![c] = how]
  /\ UNCHANGED <<local, sent, queues, user>>

UserTypes ==
  /\ Alive /\ ~eof /\ typed < MaxTyped /\ ItemsSoFar < AllItems
  /\ typed' = typed + 1
  /\ IF platform = "linux"
       THEN stdin' = Append(stdin, <<Stdin, typed + 1>>) /\ console' = console
       ELSE console' = Append(console, <<Stdin, typed + 1>>) /\ stdin' = stdin
  /\ UNCHANGED <<local, net, fdt, backlog, rx, wrote, terminal, eof, Machine, tpc,
                 read_buffer>>

UserEnds ==
  /\ Alive /\ "eof" \in Env /\ ~eof
  /\ eof' = TRUE
  /\ UNCHANGED <<local, net, queues, typed, Machine, thread>>

-----------------------------------------------------------------------------
(* stdin_read_thread.  The end of the process ends it. *)

ThreadStarts ==
  /\ Alive /\ tpc = "start" /\ tpc' = "read"
  /\ UNCHANGED <<local, net, queues, typed, eof, Machine, console, read_buffer>>

ThreadReads ==
  /\ Alive /\ tpc = "read" /\ console # <<>>
  /\ LET n == MinOf(ThreadBuf, Len(console)) IN
       read_buffer' = Take(console, n) /\ console' = DropFirst(console, n)
  /\ tpc' = "write"
  /\ UNCHANGED <<local, net, queues, typed, eof, Machine>>

\* WriteFile blocks on a full pipe, between pieces of its chunk too.
ThreadWrites ==
  /\ Alive /\ tpc = "write" /\ Len(stdin) < PipeCap
  /\ LET n == MinOf(PipeCap - Len(stdin), Len(read_buffer)) IN
       /\ stdin' = stdin \o Take(read_buffer, n)
       /\ read_buffer' = DropFirst(read_buffer, n)
       /\ tpc' = IF n = Len(read_buffer) THEN "read" ELSE "write"
  /\ UNCHANGED <<local, net, fdt, backlog, rx, wrote, terminal, typed, eof, Machine,
                 console>>

ThreadEnds ==
  /\ Alive /\ tpc = "read" /\ console = <<>> /\ eof
  /\ tpc' = "ended"
  /\ UNCHANGED <<local, net, queues, typed, eof, Machine, console, read_buffer>>

Thread == ThreadStarts \/ ThreadReads \/ ThreadWrites \/ ThreadEnds

-----------------------------------------------------------------------------
(* socket_list_select_and_handle_events. *)

\* Descriptors select cannot watch: the standard streams, on Windows.
is_special_descriptor(f) == platform = "windows" /\ f = Stdin

\* socket_list_debug_dump, with its effect: two addresses per entry.
DebugDump ==
  /\ pc = "dump"
  /\ fdt' = VMCISock_GetAFValue(fdt, 2 * Len(sockets.elems))
  /\ pc' = "cleanup"
  /\ UNCHANGED <<SOCKET_LIST, pos, socket_mask, buffer, net, backlog,
                 rx, wrote, stdin, terminal, user>>

RemoveMarked ==
  /\ pc = "cleanup" /\ HasMarked(sockets)
  /\ sockets' = list_remove_curr(sockets)
  /\ UNCHANGED <<n_special_descriptors, pc, pos, socket_mask, buffer, net, queues,
                 user>>

EnterSelect ==
  /\ pc = "cleanup" /\ ~HasMarked(sockets) /\ ~list_empty(sockets)
  /\ socket_mask' = {f \in socket_list2fd_set(sockets) : ~is_special_descriptor(f)}
  /\ pc' = "select"
  /\ UNCHANGED <<SOCKET_LIST, pos, buffer, net, queues, user>>

\* Client mode: the call returns FALSE for an empty list and main returns.
LoopEnds ==
  /\ pc = "cleanup" /\ list_empty(sockets)
  /\ pc' = "exited"
  /\ UNCHANGED <<SOCKET_LIST, pos, socket_mask, buffer, net, queues,
                 user>>

Ready == {f \in socket_mask : (platform = "linux" => f < SelectNfds) /\ Readable(f)}

\* Mutant: a timeout leaves the mask as it was set.
SelectReturns_OldMask ==
  /\ pc = "select" /\ (Ready # {} \/ n_special_descriptors > 0)
  /\ pos' = 1
  /\ pc' = "handle"
  /\ UNCHANGED <<SOCKET_LIST, socket_mask, buffer, net, queues, user>>

\* Something is ready, or a second has passed and there is something to poll.
SelectReturns ==
  /\ pc = "select" /\ (Ready # {} \/ n_special_descriptors > 0)
  /\ socket_mask' = Ready \cup {f \in socket_mask : platform = "linux" /\ f >= SelectWord}
  /\ pos' = 1
  /\ pc' = "handle"
  /\ UNCHANGED <<SOCKET_LIST, buffer, net, queues, user>>

\* Mutant: the handler is called without a look at the pipe.
sock_handle_poll_for_special_descriptor_event_Always(f) == tpc # "start"

\* The pipe exists and holds data when the entry is visited.
sock_handle_poll_for_special_descriptor_event(f) == tpc # "start" /\ Data(f) # <<>>

Entry   == sockets.elems[pos]
Visited == pc = "handle" /\ pos \in DOMAIN sockets.elems
Fired   == /\ Visited
           /\ IF is_special_descriptor(Entry.socket)
                THEN sock_handle_poll_for_special_descriptor_event(Entry.socket)
                ELSE Entry.socket \in socket_mask

Continue == pos' = pos + 1 /\ pc' = "handle"

SkipEntry ==
  /\ Visited /\ ~Fired
  /\ Continue
  /\ UNCHANGED <<SOCKET_LIST, socket_mask, buffer, net, queues, user>>

\* Without -d the dump has no effect.
PassStart == IF leak THEN "dump" ELSE "cleanup"

\* The mask is local to the call, which the loop repeats.
NextPass == /\ pc' = PassStart /\ pos' = 1 /\ socket_mask' = {}
            /\ UNCHANGED <<SOCKET_LIST, buffer, net, queues, user>>

PassDone == pc = "handle" /\ pos \notin DOMAIN sockets.elems /\ NextPass

\* select fails, on a signal or out of memory: the pass handles nothing.
SelectFails == pc = "select" /\ "selfail" \in Env /\ NextPass

Stop(how) == /\ pc' = how
             /\ UNCHANGED <<SOCKET_LIST, pos, socket_mask, buffer, net, queues, user>>

-----------------------------------------------------------------------------
(* The handlers. *)

\* bridge_sockets_and_descriptors: stdout is not used.
Bridged(l, f) ==
  socket_list_insert(socket_list_insert(l, f, "bridge", Stdin), Stdin, "bridge", f)

\* Mutant: inserting the standard input does not count it.
Counted_Forgotten(n) == n

\* The counter after one bridge; nothing ever lowers it.
Counted(n) == IF is_special_descriptor(Stdin) THEN n + 1 ELSE n

\* With -d the peer's address is printed too.
SocketAccept ==
  /\ Fired /\ Entry.handler = "listen" /\ backlog # <<>>
  /\ \E f \in NewFd :
       /\ LET t == [fdt EXCEPT ![f] = Head(backlog)] IN
            fdt' = IF leak THEN VMCISock_GetAFValue(t, 1) ELSE t
       /\ sockets' = Bridged(sockets, f)
  /\ n_special_descriptors' = Counted(n_special_descriptors)
  /\ backlog' = Tail(backlog)
  /\ Continue
  /\ UNCHANGED <<socket_mask, buffer, net, rx, wrote, stdin, terminal, user>>

\* Mutant: the result of accept is not checked.
AcceptFails_Unchecked ==
  /\ Fired /\ Entry.handler = "listen" /\ backlog # <<>> /\ NewFd = {}
  /\ sockets' = Bridged(sockets, NoFd)
  /\ Continue
  /\ UNCHANGED <<n_special_descriptors, socket_mask, buffer, net, queues, user>>

\* No descriptor is left.
AcceptFails ==
  /\ Fired /\ Entry.handler = "listen" /\ backlog # <<>> /\ NewFd = {}
  /\ Stop("exited")

\* A marked entry's context was freed: what the handler reads there is the
\* allocator's and no open descriptor.
FiredBridge == Fired /\ Entry.handler = "bridge"
In          == Entry.socket
Out         == IF Entry.deleted THEN NoFd ELSE Entry.context

\* With nothing to read and no end of file, read blocks.
BridgedRead ==
  /\ FiredBridge /\ Data(In) # <<>>
  /\ LET len == MinOf(BufSize, Len(Data(In))) IN
       /\ buffer' = Take(Data(In), len)
       /\ IF In = Stdin
            THEN stdin' = DropFirst(stdin, len) /\ rx' = rx
            ELSE rx' = [rx EXCEPT ![fdt[In]] = DropFirst(@, len)] /\ stdin' = stdin
  /\ pc' = "write"
  /\ UNCHANGED <<SOCKET_LIST, pos, socket_mask, net, fdt, backlog,
                 wrote, terminal, user>>

\* Mutant: the end is acted on before what came ahead of it is read.
EndOfFile_BeforeData == FiredBridge /\ AtEnd(In)

EndOfFile == FiredBridge /\ Data(In) = <<>> /\ AtEnd(In)

\* free of a context that is already free.
FreedTwice(l, f) == \E i \in DOMAIN l.elems : IsFirst(l, f, i) /\ l.elems[i].deleted

AfterIn == socket_list_delete(sockets, In)

\* Mutant: the sockets are closed and their entries kept.
BridgedEof_Kept ==
  /\ EndOfFile
  /\ fdt' = [f \in Fd |-> IF f \in {In, Out} THEN Free ELSE fdt[f]]
  /\ rx' = [c \in Conns |-> IF \E f \in {In, Out} \cap Fd : fdt[f] = c THEN <<>>
                            ELSE rx[c]]
  /\ Continue
  /\ UNCHANGED <<SOCKET_LIST, socket_mask, buffer, net, backlog, wrote, stdin,
                 terminal, user>>

\* socket_close does not close the standard input.  socket_list_delete marks
\* the first entry of the descriptor, which for descriptor 0 need not be this
\* connection's.
BridgedEof ==
  /\ EndOfFile
  /\ sockets' = socket_list_delete(AfterIn, Out)
  /\ fdt' = [f \in Fd |-> IF f \in {In, Out} THEN Free ELSE fdt[f]]
  /\ rx' = [c \in Conns |-> IF \E f \in {In, Out} \cap Fd : fdt[f] = c THEN <<>>
                            ELSE rx[c]]
  /\ Continue
  /\ UNCHANGED <<n_special_descriptors, socket_mask, buffer, net, backlog, wrote,
                 stdin, terminal, user>>

\* The C library notices the double free (it need not).
DoubleFree ==
  /\ EndOfFile
  /\ FreedTwice(sockets, In) \/ FreedTwice(AfterIn, Out)
  /\ Stop("aborted")

WriteDone == buffer' = <<>> /\ Continue

\* Mutant: after a write the same chunk is written again on the next pass.
WriteToSocket_KeepsInput ==
  /\ pc = "write" /\ Out \in Fd /\ fdt[Out] \in Conns /\ peer[fdt[Out]] # "gone"
  /\ wrote' = [wrote EXCEPT ![fdt[Out]] = @ \o buffer]
  /\ stdin' = buffer \o stdin
  /\ WriteDone
  /\ UNCHANGED <<SOCKET_LIST, socket_mask, net, fdt, backlog, rx, terminal, user>>

WriteToSocket ==
  /\ pc = "write" /\ Out \in Fd /\ fdt[Out] \in Conns /\ peer[fdt[Out]] # "gone"
  /\ wrote' = [wrote EXCEPT ![fdt[Out]] = @ \o buffer]
  /\ WriteDone
  /\ UNCHANGED <<SOCKET_LIST, socket_mask, net, fdt, backlog, rx, stdin, terminal,
                 user>>

\* The peer is gone: the kernel may still take the data.
WriteLost ==
  /\ pc = "write" /\ Out \in Fd /\ fdt[Out] \in Conns /\ peer[fdt[Out]] = "gone"
  /\ WriteDone
  /\ UNCHANGED <<SOCKET_LIST, socket_mask, net, queues, user>>

\* Data from the network is written to descriptor 0.
WriteToStdin ==
  /\ pc = "write" /\ Out = Stdin /\ tty
  /\ terminal' = terminal \o buffer
  /\ WriteDone
  /\ UNCHANGED <<SOCKET_LIST, socket_mask, net, fdt, backlog, rx, wrote, stdin,
                 user>>

\* Mutant: socket_write sends descriptor 0 on Windows, which is no socket.
WriteFails_SendsStdin ==
  /\ pc = "write"
  /\ \/ Out = Stdin /\ (~tty \/ platform = "windows")
     \/ Out = NoFd
     \/ Out \in Fd /\ fdt[Out] \notin Conns
     \/ Out \in Fd /\ fdt[Out] \in Conns /\ peer[fdt[Out]] = "gone"
  /\ Stop("exited")

\* EPIPE from a peer that is gone; EBADF from a closed or invalid descriptor,
\* and from a standard input that is a pipe or a file.
WriteFails ==
  /\ pc = "write"
  /\ \/ Out = Stdin /\ ~tty
     \/ Out = NoFd
     \/ Out \in Fd /\ fdt[Out] \notin Conns
     \/ Out \in Fd /\ fdt[Out] \in Conns /\ peer[fdt[Out]] = "gone"
  /\ Stop("exited")

-----------------------------------------------------------------------------
\* Client mode starts connected; listening mode with the listening socket.
\* On a kernel that leaks devices, starting left one per address family
\* asked for: two, or one with -i (Startup).
Init ==
  /\ platform \in Platforms /\ leak \in Debug /\ (leak => platform = "linux")
  /\ \E first \in Fd :
       /\ first \in IF ~leak THEN {3} ELSE IF Mode = "client" THEN {5} ELSE {4, 5}
       /\ \E c \in Conns :
            fdt = [f \in Fd |->
                     IF f < first THEN AfDevice
                     ELSE IF f = first THEN (IF Mode = "client" THEN c ELSE Listener)
                     ELSE IF ~leak /\ f >= MaxFd THEN Beyond ELSE Free]
       /\ sockets = IF Mode = "client" THEN Bridged(socket_list_init, first)
                    ELSE socket_list_insert(socket_list_init, first, "listen", NoFd)
  /\ n_special_descriptors = IF Mode = "client" THEN Counted(0) ELSE 0
  /\ peer = [c \in Conns |-> IF Mode = "client" THEN "open" ELSE "none"]
  /\ pc = PassStart /\ pos = 1 /\ socket_mask = {} /\ buffer = <<>> /\ backlog = <<>>
  /\ sent = [c \in Conns |-> 0] /\ typed = 0 /\ eof = FALSE
  /\ tty \in BOOLEAN /\ (platform = "windows" => tty)   \* Windows: to stdout
  /\ rx = [c \in Conns |-> <<>>] /\ wrote = [c \in Conns |-> <<>>]
  /\ stdin = <<>> /\ terminal = <<>>
  /\ tpc = IF platform = "windows" THEN "start" ELSE "none"
  /\ console = <<>> /\ read_buffer = <<>>

Process ==
  \/ DebugDump \/ RemoveMarked \/ EnterSelect \/ LoopEnds
  \/ SelectReturns \/ SelectFails
  \/ SkipEntry \/ PassDone \/ SocketAccept \/ AcceptFails \/ BridgedRead
  \/ BridgedEof \/ DoubleFree
  \/ WriteToSocket \/ WriteLost \/ WriteToStdin \/ WriteFails

Environment ==
  \/ \E c \in Conns : ClientConnect(c) \/ PeerSend(c) \/ PeerFinish(c)
  \/ UserTypes \/ UserEnds

Next == Process \/ Thread \/ Environment

Spec == Init /\ [][Next]_vars

\* The scheduler runs the loop and the thread; users and peers owe nothing.
FairSpec == Spec /\ WF_vars(Process) /\ WF_vars(Thread)

-----------------------------------------------------------------------------
InFlight(s) == IF pc = "write" /\ buffer # <<>> /\ buffer[1][1] = s THEN buffer
               ELSE <<>>

\* With one connection, what the peer is sent is what was typed and what
\* appears is what the peer sent, in order and complete but for what is still
\* unread, until the process ends or an end is gone: also through the thread
\* and the pipe on Windows, and when the table fills with leaked devices.
OneConnectionStreams ==
  \A c \in Conns :
    /\ wrote[c] = Stream(Stdin, Len(wrote[c])) /\ Len(wrote[c]) <= typed
    /\ terminal = Stream(c, Len(terminal)) /\ Len(terminal) <= sent[c]
    /\ Alive /\ Held(c) =>
         /\ terminal \o InFlight(c) \o rx[c] = Stream(c, sent[c])
         /\ peer[c] # "gone" =>
              wrote[c] \o InFlight(Stdin) \o stdin \o read_buffer \o console
                = Stream(Stdin, typed)

Finished(c) == peer[c] \in {"fin", "gone"}

\* Client mode ends: after the peer finishes, or the standard input on Linux,
\* the list empties and main returns, or the process stops on an error.
ClientEnds ==
  ((eof /\ platform = "linux") \/ \E c \in Conns : Finished(c)) ~> ~Alive

\* Client mode does not starve the user: what is typed is written to the
\* connection in time, whether or not the peer ever sends anything to wake up
\* select, unless the peer or the process ends first.
TypedIsSent ==
  \A c \in Conns : \A n \in 1..MaxTyped :
    typed >= n ~> Len(wrote[c]) >= n \/ Finished(c) \/ ~Alive

\* On Windows the process does not end before the peer finished: the end of
\* the standard input ends the thread only.
WindowsUntilNetworkShutsDown ==
  platform = "windows" /\ ~Alive => \E c \in Conns : Finished(c)

\* A server stays in the loop: the list never empties, so one connection and
\* the standard input ending leave the listening socket served.
ServerListens ==
  Alive => \E i \in DOMAIN sockets.elems :
             /\ ~sockets.elems[i].deleted /\ sockets.elems[i].socket \in Fd
             /\ fdt[sockets.elems[i].socket] = Listener

\* A client waits to be accepted or an entry's descriptor has something to read
\* or an end; in client mode, anything typed or received is unread or an end was
\* not noticed.
Pending ==
  \/ Mode = "listen" /\ backlog # <<>>
  \/ \E i \in DOMAIN sockets.elems : Readable(sockets.elems[i].socket)
  \/ /\ Mode = "client"
     /\ \/ stdin # <<>> \/ (eof /\ platform = "linux")
        \/ \E c \in Conns : Finished(c) \/ rx[c] # <<>>

\* select neither fails nor misses a wake-up.  Every descriptor it watches is
\* open, although the end of one connection marks and removes entries of others
\* (socket_list_delete, the removal loop, socket_close); on Windows, where it
\* fails on an empty set too, there is always one.  And it returns if something
\* is pending, at the latest after a second where it cannot watch.
Awake ==
  pc = "select" =>
    /\ \A f \in socket_mask : f = Stdin \/ fdt[f] # Free
    /\ platform = "windows" => socket_mask # {}
    /\ Pending => Ready # {} \/ n_special_descriptors > 0

\* No handler blocks the loop, although the mask is older than what earlier
\* handlers of the pass accepted, closed and read: an entry that is not marked
\* is called with something to read or at an end.  On Windows that holds of the
\* standard input too, however many entries share the pipe; on Linux the
\* standard input's second entry in a pass can block.
HandlersRead ==
  FiredBridge /\ ~Entry.deleted /\ (In = Stdin => platform = "windows")
    => Readable(In)

\* The items of s appear in q in the order they were sent.
InOrder(q, s) ==
  \A i, j \in DOMAIN q : i < j /\ q[i][1] = s /\ q[j][1] = s => q[i][2] < q[j][2]

\* What was typed is written to c in order and to no other connection.
Dealt(c) ==
  /\ InOrder(wrote[c], Stdin)
  /\ \A d \in Conns \ {c} : \A i \in DOMAIN wrote[c] : \A j \in DOMAIN wrote[d] :
       wrote[c][i] # wrote[d][j]

\* With several connections sharing the standard input, what appears of each
\* is still what its peer sent, in order and with nothing left out before it,
\* and each typed item is written to at most one connection, in the order typed.
ServerStreams ==
  \A c \in Conns :
    /\ InOrder(terminal, c)
    /\ \A i \in DOMAIN terminal : terminal[i][1] = c =>
         \A n \in 1..terminal[i][2] : \E j \in DOMAIN terminal : terminal[j] = <<c, n>>
    /\ Dealt(c)

\* "This continues indefinitely, until the network side of the connection
\* shuts down" (man page): the process does not end before a peer finished.
UntilNetworkShutsDown ==
  pc = "exited" => \E c \in Conns : peer[c] \in {"fin", "gone"}
=============================================================================
