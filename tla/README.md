# TLA+ models of vsockets-tools

This directory models the programs of vsockets-tools in TLA+, checks the models
with TLC and proves, with TLAPS, what matters most about them for every value of
their constants. File and line references are to the sources of the repository
(paths below `src/src/` unless they say otherwise).

## 1. Inventory

| Part | State | Operations | Hard behaviour | Correct when |
|---|---|---|---|---|
| Socket list (`sockets_common.c`) | a `liblist` list with a current element; entries with socket, handler, context, `deleted` mark | insert, delete (marks the first entry of the descriptor), build the `fd_set`, remove marked entries | the removal loop removes the *current* element; contexts are copies of descriptor numbers | entries refer to open sockets of one connection; no live registration is lost |
| Event loop (`socket_list_select_and_handle_events`) | the mask `select` returned; the number of special descriptors | remove, select, call one handler per ready entry, poll what select cannot watch | the mask is used while handlers close and open descriptors; blocking calls on the only thread | a handler never blocks on a stale bit; every ready socket is served |
| Tunnel (`vsockets_nc.c`, `-t`) | pairs of entries | accept + connect, read + write, close both at end of file | partial failures after `accept`, partial writes, peers that end in the same pass, descriptor reuse | two exact byte streams per connection; an end reaches the other side; tunnels do not disturb each other |
| Client / server (`vsockets_nc.c`) | socket + descriptor 0 | bridge with the standard input | every connection registers descriptor 0; end of file on either side | order and completeness; the server keeps listening |
| Windows standard input (`stdin_read_thread`) | a pipe, its existence, the thread's chunk | thread: read, write to the pipe, end; loop: poll per entry, read the pipe | two threads; a full and an empty pipe; several entries for one pipe; an end that the loop never learns of | order and completeness through the pipe; no blocking read; what is typed is sent in time |
| Debug output (`-d`; `debug_common.c`, `socket_list_debug_dump`) | a depth counter | dump of the list before every pass, the peer's address per accept | printing an address costs a descriptor on some kernels | what is connected goes on when the table is full |
| Command line, modes, port scan (`main`, `vsockets_common.c`, `ipv4_common.c`, `vmci_sockets.h`) | flags, descriptor table | options, availability, connect, listen, scan of 66000 ports | helpers that leave descriptors open | the loop starts on a known table; every open port is reported |
| `vsockets_hostname` | none | look-up of address family and CID | a second program that asks the same questions in its own way | it and `vsockets_nc` agree about the machine |
| Host report (`scripts/vmhost_report.rb`) | the report, per network the lists of hosts | sections of commands; networks to ranges; nmap output to host lists | missing commands raise; a regular expression over several hosts | one missing command costs one section; no host is scanned twice; a VMware host is scanned as what its own services tell |
| `vm_backdump` | the table of command names | a trap-prone instruction per command, predicates over registers | a refusal fills the register the feature bits are read from | neither verdict on nesting is yes of a refused command |
| Hypervisor version, other scripts, build files | none or constants | look-ups and printing | – | – |

The parts interact by calls in one process: `main` chooses a mode (`Startup`) and
enters the event loop, which is `Tunnel` or `Interactive`, both over `SocketList`.
On Windows the loop shares a pipe with the thread. `vmhost_report.rb` runs
`vsockets_hostname`, `vsockets_nc -n` and `vm_backdump` as commands; `Startup`
runs `vsockets_hostname` before `vsockets_nc`, and `HostReport` contains `Backdump`.

## 2. Modules

| Module | What it is |
|---|---|
| `Liblist` | the operations of the binary library liblist that `sockets_common.c` uses (external) |
| `SocketList` | `socket_list_*` as operators on the list |
| `Tunnel` | the event loop in tunnel mode, with descriptors, accept queue, receive and send queues and the peers as environment |
| `Relay` | abstract: what a relay promises its peers, without descriptors or lists |
| `TunnelRelay` | the refinement mapping from `Tunnel` to `Relay` |
| `TunnelInv` | the inductive invariant of `Tunnel`, and `Paired`, inductive relative to it |
| `SocketListProofs`, `TunnelProofs` | lemmas about the list; the tunnel's invariant and what follows from it |
| `TunnelStepProofs` | theorems about steps and about pairs of entries; no handler blocks; no half of a tunnel stays behind |
| `TunnelRelayProofs` | order and integrity of the streams; the refinement of `Relay` |
| `Interactive` | client and listening modes without `-t`, on Linux and on Windows, with and without `-d` |
| `Session` | abstract: what the program promises its user and the peers, without descriptors, lists, buffers or a thread |
| `InteractiveSession` | the refinement mapping from `Interactive` to `Session` |
| `InteractiveInv`, `InteractiveProofs` | its inductive invariants; their proofs and what follows from them |
| `InteractiveSessionProofs` | the refinement of `Session` |
| `Startup`, `StartupProofs` | `vsockets_hostname`, then `main` up to the event loop, and the port scan; theorems about them |
| `Backdump` | `vm_backdump` |
| `HostReport` | `vmhost_report.rb`, composed with `Backdump` |
| `HostReportInv`, `HostReportProofs` | the inductive invariant of both; its proof and what follows from it |
| `MCTunnel`, `MCInteractive`, `MCHostReport` | what TLC needs in addition (symmetry, the networks that are listed) |

### How Tunnel corresponds to the code

One action is one stretch of the thread between two points at which another party can
interfere: `RemoveMarked` is one round of the loop at sockets_common.c:382-387,
`EnterSelect` builds the mask and enters `select`, `SelectReturns` (or `SelectFails`)
leaves it: `select` looks at the descriptors below `SelectNfds` (500 in the code),
writes back the mask's words that hold these, below `SelectWord` (512), and leaves bits
above as they were set; `SkipEntry` and the handlers are one step of the traversal at
406, and `PassDone` returns to `listening_mode`'s loop. `vsocket_listen_event_handler`
has two steps, `SocketAccept` and one of `TryConnectionOk`, `TryConnectionRefused`,
`TryConnectionExits`, because peers act in between. `bridged_socket_event_handler` is
`BridgedRead` followed by `BridgedWrite` for as many pieces as the blocking write takes,
or `BridgedEof` with the marking and closing of both sockets in the order of the code.

The variables `sockets`, `socket_mask`, `buffer`, `new_sock` have the source's
names; `pc` and `pos` say where the thread is. `fdt` (descriptor table), `backlog`,
`rx`, `wrote` (what the kernel took for a peer), `peer`, `sent` and `nread` are the
kernel's and the peers'. Items are pairs of an end and a number, so that
reordering, duplication and crossing of streams can be told. An entry that is
already marked has a freed context; its handler (`StaleHandler`) may find anything
there: the step is a choice between going on and an abort of the C library. What a
garbage context would have marked or closed, and damage to the heap that shows later, is
left out.

### Interactive

The same loop, `SelectFails`, `SelectNfds` and `SelectWord` included, with descriptor 0
in the list once per connection. Sends complete at once (`Tunnel` has the blocking
ones). The freed context of a marked entry is taken for no descriptor (`NoFd`). Whether
descriptor 0 can be written (a terminal) or not is chosen at the start. `platform` and
`leak` are chosen at the start as well and never change.

On Windows `is_special_descriptor` keeps descriptor 0 out of the mask (`EnterSelect`);
`n_special_descriptors` counts its registrations and is never lowered, as in the code,
so `SelectReturns` may happen without anything ready (the timeout of one second);
`Fired` looks into the pipe when a special entry is visited, which needs the thread to
have created it (`tpc # "start"`). The thread is `ThreadStarts` (it creates the pipe),
`ThreadReads` (one `ReadFile` into its chunk), `ThreadWrites` (as much of the chunk as
the pipe takes; it blocks on a full one) and `ThreadEnds`. `socket_write` to descriptor
0 goes to the standard output, so `tty` is true; `accept` returns any free handle
(`NewFd`).

`leak` stands for `-d` on a kernel with the vSockets module: `DebugDump` formats two
addresses per entry (`VMCISock_GetAFValue(fdt, 2 * Len)`) before each pass, and
`SocketAccept` one for the peer. Without that, `-d` changes nothing the model has.

### Startup, HostReport, Backdump

`Startup` keeps the descriptor table and the flags; option values do not matter to
it. A kernel is "mainline" (AF_VSOCK exists, the test socket is closed again),
"module" (the device is opened and stays open), "windows" (the device is asked
through a handle outside the table, and closed) or "none". The first action is the
run of `vsockets_hostname`; `told` is what it called the machine.

`HostReport` has one action per section of the report; the network scan is split into
reading nmap's output, one action per match of the regular expression, and the
host-by-host scans. nmap is run without `-n`, so the header of a host that has a name is
"name (address)", and the expression wants the address right behind "for": `named` tells
such hosts, and only the others begin a match (`Headers`). The match ends at the first
"(VMware)" from there (`NextVMware`), whosever it is, and its signature is the services
of all the hosts between. An octet is the set of its bits that are 1 (`OctetBits` of
them, the first the highest), so `convert_netmask`'s bitwise and is an intersection and
its count of ones a cardinality; masks are those a system takes for an interface, ones
followed by zeros (`Prefix`). `listed` is what the commands print, which need not be the
local networks: `ip route` also prints those behind gateways (568), and `ifconfig` of a
new system has no "inet addr:" (564), so none is listed. The backdoor section starts
`Backdump` and waits for it. `Backdump` has one action per loop round of the program and
one per question it asks; a register is the set of its bits too (`Width` of them,
comparison by `AtLeast`), and only EAX decides anything. GET_VCPU_INFO's answer is used
twice: five lines "... supported" are printed of its bits as they are (`Printed`,
vm_backdump.c:281-300), and only then the reserved bit is tested for the verdict (309).
A refusal sets every bit, so **a refused command prints all five lines**;
`VerdictsOfImplemented` is about the two verdicts, and says that where line and verdict
on nested replay disagree the command was refused. Without a hypervisor the first
instruction ends the process (`Trap`).

## 3. Runs

| Run | Question | Bounds |
|---|---|---|
| `tunnel_two` | `EntriesWired`, `HandlersNeverBlock`, `TunnelsWhole`, `EarlierTunnelsKept`, `ImplementsRelay` | two connections, peers may shut down, one item per end, a descriptor that `select` does not look at (`SelectNfds = 7`, `MaxFd = 8`) |
| `tunnel_faults` | `IInv`, `NoHalfTunnel`, `StreamOrdered` | two connections, a table of 5 descriptors of which one per tunnel leaks, failing `bind` and `select`, interrupted writes |
| `tunnel_served` | liveness `Forwarded`, `ClientsAccepted` | two connections, no faults; a send queue of one item and up to two items per peer, three in all (`AllSend`), so writes block |
| `tunnel_ends` | `EndPropagated`, `StreamIntegrity`, `ImplementsRelay`, types | one connection, shutdown, reset, refusal, aborted accept, partial writes |
| `client` | `OneConnectionStreams`, `Awake`, `WindowsUntilNetworkShutsDown`, `ImplementsSession`, liveness `ClientEnds`, `TypedIsSent` | three items each way, chunks of two, a pipe of one item, every way to end, Linux, Linux with six descriptors to leak, Windows |
| `server` | `ServerListens`, `Awake`, `HandlersRead`, `ServerStreams`, `ImplementsSession`, `IInv`, types | three connections on two descriptors; `select` may fail; two items sent and typed together (`AllItems`); with leaks three descriptors more; on Windows two connections |
| `startup` | `ScanDescriptors`, `LoopStart`, `HostnameAgrees`, `ScanComplete`, types | up to four options, three ports, limits of 4 to 6 descriptors, four kinds of system |
| `host_report` | `ScannedRange`, `ScannedHosts`, `OwnClass`, `VerdictsOfImplemented`, `IInv`, liveness `ReportEnds`, types | octets of two bits, prefixes 0, 1, 4, 7 and 8 of 8, up to three hosts, each named or not, up to two networks; registers of 4 bits, command numbers below 8, every set of implemented commands |

Two connections suffice for interference (one ends while the other moves data or is
being accepted; a descriptor is reused), and two items with a send queue of one for
partial writes and for a thread that sleeps in `write` while a client waits to be
accepted (`tunnel_served`; with `AllSend` at three, one end can send more than a queue
holds while another sends too). A buffer of two items with pieces of one exercises both
chunk boundaries; a pipe of one item makes the thread block in the middle of a chunk. A
third connection is used in `server`, where three registrations of descriptor 0 differ
from two; on Windows every pass may start with nothing ready, and two connections
(`WindowsConns`) are what TLC does in time, as is `AllItems`, the bound on what is sent
and typed together: two peers send one item each or one peer two, or one item is sent
and one typed, or two are typed and dealt to different connections. `MoreFds` bounds the
descriptors the dump may eat: enough for two passes and for a table that fills up. A
server of `server` has fewer descriptors than connections, so there the session may go
down for want of one at any time; `client` is where TLC checks that it goes down for no
other reason, and the theorem covers a server with enough of them. In `host_report`
three hosts are the least for a match that spans hosts between two others, or skips a
named one and begins at the next. The three sets of tools lack nothing, all but `ip` (so
two sections are lost in a report that ends), or what the network section needs. In
`Backdump` four bits hold the reserved bit, two feature bits and the magic number.

Fairness: `WF_vars(Process)` says that the scheduler runs the event loop's thread
and `WF_vars(Thread)` (Windows) that it runs the other one, which the operating
system does for two ready threads; in `Tunnel`, that peers read what they are sent
(`WF_vars(PeerRead(e))`), without which a blocking write stops everything, as in the
code. Nobody is obliged to connect, send, type or close. `Startup` and `HostReport`
have the process alone, and the child while it is waited for. Deadlock is not
checked: the programs exit, and an event loop whose peers stay silent waits for ever.

### Disagreements the runs show

* `removal_takes_unmarked`: "Remove marked items" (sockets_common.c:382) removes the
  *rear* of the list for as long as something is marked. When an early tunnel ends,
  later tunnels lose their registrations; their sockets stay open and unserved.
  `EarlierTunnelsKept` and `ServerListens` say what survives.
* `stale_handler_aborts`: when both peers of a tunnel finish in one pass, the second
  handler runs on the marked entry and frees its context again.
* `client_stops_at_stdin_eof`: the man page says the client goes on until the network
  side shuts down; an end of file on the standard input ends it, although the peer has
  neither sent nor ended anything. (On Windows it does
  go on: `WindowsUntilNetworkShutsDown`.)
* `report_wrong_host`: a match at vmhost_report.rb:430 can start at a host that is not
  VMware's and end at the next one that is. `ScannedHosts` says exactly which are scanned.

Seen while modelling, without a run of their own:

* a client whose remote connection is refused keeps its socket open for ever
  (vsockets_nc.c:182); a failed write ends the process and so all tunnels (88); an end
  of file closes both sockets although the other direction may hold unread data (103),
  where the man page speaks of shovelling data until there isn't any more left. `Relay` and
  `Session` allow that loss, since the code decides it;
* descriptors from 500 on are never watched (sockets_common.c:402), and from 512 on a bit
  stays set whether or not there is something to read, so a handler can block;
* a VMware host that has a name in the DNS is never scanned as itself: its header does not
  match (vmhost_report.rb:425, 430), and its services go to the match of a host before it, where one is open;
* a refused GET_VCPU_INFO prints "supported" for all five features (vm_backdump.c:281-300);
* data from the network goes to descriptor 0, not to the standard output
  (vsockets_nc.c:121), except on Windows;
* the end of one connection of a server unregisters the standard input of another
  (`socket_list_delete` marks the first entry), and on Linux the second entry for
  descriptor 0 in a pass can block in `read` (`HandlersRead` leaves it out);
* with `-d` on a kernel of kind "module" the dumps fill the descriptor table, and a
  server then exits at its next `accept`; the port scan stops there too;
* a listening failure exits with status 0 (vsockets_nc.c:227); `-l a -i b` listens on
  the vSockets port b, because both set the one port;
* `vsockets_hostname` calls a machine whose device cannot be asked "physical, without
  hypervisor";
* `print_registers` of `vm_backdump` prints EAX in every column (vm_backdump.c:137); an
  EAX that a command leaves as it was (the magic number) counts as "nesting
  supported"; the commands in the gaps have no name and are printed as `(null)`; EBX
  is not set before two of the questions;
* the version table in `vmware_hypervisor_version.rb` gives 07/30/2013 for 5.5.0 where
  the code says "u1".

## 4. Proofs

The assumptions are those the modules state about their constants; TLC evaluates
them in the runs. Further hypotheses are written in the theorem.

### Tunnel

For every number of connections, every descriptor limit, buffer and queue size and
every set of faults, `TunnelProofs` proves `Invariance` (`Spec => []IInv`),
`TypeCorrect` (`TypeOK`) and `AlwaysWired` (`EntriesWired`); `TunnelStepProofs`, from
it, `EarlierKept` (`EarlierTunnelsKept`, an action property) and `AlwaysWhole`
(`TunnelsWhole`).

`EntriesWired` is not inductive. A context is a descriptor *number*; that it still
means the same connection's other socket needs that no descriptor is freed and
given out again while an entry that names it is in the list. `IInv` adds the reason:
the listening socket is always the first entry (`ListenerFirst`), so within a pass the
only handler that allocates runs before any that frees (`Connecting`,
`MarksRemoved`); the current element is always the rear (`CurrAtRear`), which is
why the removal loop terminates with no marked entry left and never takes the
listening socket; an end has at most one descriptor (`OneFdPerEnd`) and descriptors
occur once in the list (`SocketsDistinct`), so marking the first entry of a descriptor
marks the right one; and a connection's sockets appear in order (`Lifecycle`,
`QueueDistinct`). `SocketListProofs` holds the lemmas about `socket_list_insert`,
`socket_list_delete` and the removal, and two about sequences of items; `TunnelProofs`
has one lemma per action.

`EarlierKept` follows from `IInv` alone: a step either keeps every entry's place
(`Keeps`) or is a round of the removal loop, which takes the rear entry, and that is
never one in front of the first marked entry. `TunnelsWhole` needs a second
invariant, `Paired`: behind the listening socket entries 2 and 3, 4 and 5 and so on
name each other and are marked together. The loop takes single entries, so it passes
through lists of even length, where the rear tunnel is registered in one direction
only. It cannot stop there: marks come in pairs, so while half a pair is at the rear
a marked entry is still in front of it, or is the half itself.

Also in `TunnelStepProofs`:

* `NeverBlock` (`HandlersNeverBlock`), if `MaxFd <= SelectWord`: every descriptor is in
  the words `select` writes back. The code passes 500, so this is a process limit of at
  most 512 descriptors; above it, a bit that was set stays set. The invariant says that
  what is in the mask is in the list until the first entry has been visited
  (`MaskListed`) and that the bits of entries still ahead are right (`MaskRight`): an
  accepted descriptor is in no mask, and an entry whose socket was closed is marked.
* `NeverAsleep` (`Awake` of `TunnelInv`), if `MaxFd <= SelectNfds`: `select` gets no closed
  descriptor, and it does not sleep while a client waits to be accepted or an entry's
  socket has data or an end. Every entry is in the mask (`AllWatched`), and nothing but
  entries (`MaskListed`).
* `NeverHalf` (`NoHalfTunnel`), if the environment never refuses (`"refuse" \notin Env`;
  a refusal does leave the client's half, see above). A client's descriptor and its
  remote end are created by one handler and freed by one (`RemoteHeld`), and every other
  failure ends the process.

`TunnelRelayProofs`:

* `AlwaysOrdered` (`StreamOrdered`), in every environment: what is written, in the buffer
  and unread of one direction is, put together, increasing (`InOrder`), so losing pieces
  of it keeps the order.
* `AlwaysIntact` (`StreamIntegrity`), if no signal cuts a write short (`"short" \notin
  Env`): put together, and while the reader is there, it is everything the peer sent;
  `StreamInv` adds what holds before a peer has a socket and after it has lost one.

* `Implements` (`ImplementsRelay`), for a finite set of connections and without
  interrupted writes. The initial states map to initial states; a step of the loop is a
  step of `Relay` (accept, forward, end, go down) or leaves what the peers see alone
  (`Simulation`). The relay goes down only after a peer finished if there is a descriptor
  for every end: that needs a count of the descriptors that leaked devices and sockets
  can hold (`RelayInv`, `LeaksBounded`, `TableNotFull`).

### Interactive

For every number of connections that share descriptor 0, on Linux and Windows, with and
without leaked devices and whether or not `select` fails, `InteractiveProofs` proves
`Invariance` (`IInv`), `ServerStays` (`ServerListens`, in listening mode),
`HandlersNeverWait` (`HandlersRead`), if `MaxFd + MoreFds <= SelectWord`, and, for
finitely many connections, `TypeCorrect` (`TypeOK`) and `NeverAsleep` (`Awake`), the
latter if `MaxFd + MoreFds <= SelectNfds`. These are the tunnel's hypotheses: a process
with at most 512 and 500 descriptors. The usual limit is 1024 (the most the model takes,
since an `fd_set` holds no more), and there, once descriptors above are in use, neither
holds. The other theorems of this section do not need them. The invariant's `Wiring` is
weaker than the tunnel's: deleting descriptor 0 marks some connection's entry, so
entries are not wired to each other reliably. What survives is that a connection's two
entries are neighbours (`EntriesKnown`), because entries are appended in twos and the
list loses entries at the rear only; so the context an end of file closes is a
connection's socket and never the listening one. `Lifecycle` and `QueueDistinct` say why
a connection has one descriptor (`OneFdPerConn`), which `MaskRight` needs: reading one
socket drains no other's data. On a Windows loop `select` must not get an empty set
(`MaskFilled`): the first entry always watches a socket. `TypeOK` bounds the counter of
special descriptors, which nothing lowers, by the connections that were registered
(`CountBounded`).

`Awake` adds that the mask is complete: at `select` it names every entry it can watch,
and the counter is positive while there is one that it cannot (`AllWatched`). That
makes it return for whatever an entry can read. In client mode it also returns for
everything typed or received, because both entries are still there: they are marked
together, and half of them is left only until the removal loop has taken it
(`ClientPair`).

What the streams carry needs what the invariant does not say: that the buffer was read
from the entry that writes it (`BufferRead`), every queue holds the items of one source
(`Sources`), and the thread holds nothing but its chunk (`ThreadHolds`).
Everything between a peer and the terminal, put together, is `ToShow(c)`; everything
between the keyboard and the sockets (buffer, pipe, chunk, console) is `ToSend`. A step
either leaves both alone (`QuietStep`), moves items within them, appends a new item, or
writes their front (`ReadWhole`, `WriteWhole`, `ThreadWhole`, `TypedWhole`, `SentWhole`).

* `OneConnection` (`OneConnectionStreams`), if there is one connection: what is written
  followed by what is still to come is everything sent (`WholeStreams`), as long as
  the connection is not closed.
* `SharedStreams` (`ServerStreams`), for any number of connections: the terminal holds the
  first m items of each peer (`TerminalLists`); of what was typed the first m items
  went to connections, each to one, or to a peer that was gone (`TypedDealt`).
* `WindowsClientStays` (`WindowsUntilNetworkShutsDown`), in client mode: until something
  ends (`SomeEnd`), nothing is marked and the list is not empty (`Unended`), so no handler
  finds an end and no write fails (`NothingEnds`); on Windows only the peer can end.

`InteractiveSessionProofs` proves `Implements` (`ImplementsSession`), for a finite set of
connections. `Session` has one counter for what was typed, one terminal and a life cycle
per connection; its steps are a user's or a peer's, showing items, dealing out items,
closing a connection and going down. In the mapping a connection is open from the moment it
waits in the accept queue, what was dealt out is what was typed less `ToSend`, and the
list, the mask, the descriptors and the thread are gone. Accepting is therefore a stutter,
and so is every step of the thread and each `read` (`SimSilent`, `SimAccept`). The three
places where the code could break the promise:

* A chunk reaches the terminal or a socket only as the *next* items of its source
  (`SimShow`, `SimDeal`), from `TerminalLists` and `TypedDealt`.
* An end of file closes one connection at most, the one whose socket the handler's own
  entry names, and only once nothing of its peer, or nothing typed, is still to come
  (`SimEof`): this is where `read` returning 0 only behind the data matters. The entries
  `socket_list_delete` marks may be another connection's; that connection stays open.
* The process stops only after something ended, or because descriptor 0 cannot be written
  while items are not shown, or, in a server, for want of a descriptor (`SimDown`).
  Before any end, `Unended` rules out an empty list and a double free. For `accept` it
  takes a count: the connections that hold a descriptor and the one that waits are
  different ones, so with `MaxFd - 4` descriptors or more for as many connections
  (`EnoughFds`) one is free (`AcceptSucceeds`), provided nothing but connections uses the
  table (`TableRight`).

### Startup

`StartupProofs` proves `TypeCorrect` (`TypeOK`), `LoopStartRight` (`LoopStart`),
`ScanLeaks` (`ScanDescriptors`) and `SourcesAgree` (`HostnameAgrees`, an action
property) for every descriptor limit, number of ports and command line. The invariant
says that the table is always of one shape, k devices below the limit and then at most
one socket (`IsTable`), with k told by kernel and `pc`; and that what was told agrees
with what the next program will find (`ToldRight`). `ScanReports` is the safety half of
`ScanComplete`, for every kernel: a scan whose sockets can be bound stops with exactly the
open ports of its range printed, or where leaked devices left one descriptor at most; that
there is a socket for the next port otherwise is `NextPort`.

### Host report and dump

`HostReportProofs` proves `Invariance` (`Spec => []IInv`) for any number of networks,
hosts and commands and for octets and registers of any width, and from it, one theorem
each: `TypeCorrect` (`TypeOK`), `RangesScanned` (`ScannedRange`), `EachHostOnce`
(`ScannedHosts`), `AsItsOwn` (`OwnClass`), `NoFalseVerdict` (`VerdictsOfImplemented`) and
`ReportComplete`, the safety half of `ReportEnds`: a report that ends holds every section
but those whose command is missing. What the parts of `IInv` are for:

* `ReportRight`: the report is the sections before `pc`, less the lost ones.
* `RangesRight`: the ranges still to scan are the last of the networks listed, each
  with its masked address and as many bits as its mask has ones. That this many *leading*
  bits are the mask (`n.mask = Prefix(r.bits)`) is where masks without holes are needed:
  the code counts ones, wherever they are.
* `ListsRight`: the four lists hold the hosts before `pos` at which a match begins, each
  once. Where a match begins is said without the scan: at a host whose header starts with
  its address, unless another such host stands before it with no "(VMware)" from there on
  (`Begins`). For the step it takes that the scan always stops right behind a VMware host.
  Once no match is left (`HandledRight`) this is `ScannedHosts`.
* `OwnLists`: a VMware host at which a match begins is the whole of that match, so it is in
  the list of its own class.
* `VerdictsRight`: a verdict is "unasked" before its question, and "yes" only to what is
  implemented, since a refusal sets every bit and the code looks for that. A refusal is
  `~0` here; a hypervisor that leaves EAX alone is taken to implement the command, as the
  code takes it.

### Only model-checked

Every invariant, action property and refinement of the passing runs is proved. Liveness
under fairness (`Forwarded`, `ClientsAccepted`, `EndPropagated`, `ClientEnds`,
`TypedIsSent`, `ScanComplete`, `ReportEnds`) is out of the prover's reach and stays with
TLC. `ReportComplete` and `ScanReports` prove the safety halves of two of them; the two
`NeverAsleep` that of the others: the loop does not sleep over what they promise to handle.
The two refinements say nothing about liveness: `Relay` and `Session` state no fairness.

## 5. Plan

Done: the event loop with its abstract specifications, `Relay` in tunnel mode and
`Session` in the others; client and server modes on both platforms; start-up,
`vsockets_hostname` and port scan; the host report with `vm_backdump`; proofs about all
of these, both refinements included.

What would come next: that a pass of the loop takes a bounded number of steps, the other
part of what the liveness properties rest on; the table look-ups of
`vmware_hypervisor_version.rb`.

## 6. Not modelled, and why

* Allocation failure of a context, a descriptor beyond `FD_SETSIZE` (undefined
  behaviour of `FD_SET`), and the IPv4 port that is cut to 16 bits: listed as hazards
  with the reason.
* On Windows: Winsock's limit of 64 sockets in an `fd_set` (`FD_SET` drops the rest, so
  what is said of Windows is said of a server with fewer connections); the C library's
  buffering of the standard output, and a standard output that is closed.
* Names of hosts that look like addresses. The table of command names in `vm_backdump` (79
  assignments, vm_backdump.c:37-120) and the names it leaves out: they decide wording only.
* Addresses, port values and the wording of messages; the depth counter of the debug
  output, which is balanced on every path that goes on.
* Functions no program calls: `try_ipv4_connection` (a copy of `try_connection`),
  `VMCISock_Version`, `VMCISock_Uuid2ContextId`, the buffer-size options, and the macOS
  and kernel variants of the header.
* `vmware_hypervisor_version.rb` (a look-up table read by people), the other scripts
  (straight sequences of commands), build files and checked-in binaries.
