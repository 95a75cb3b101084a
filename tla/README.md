# Verification of toxvpn

TLA+ models of toxvpn, a VPN node whose peers are Tox friends, with TLC runs
and TLAPS proofs.  Paths are relative to the repository (`src/src/` holds the
C++ files; the models follow the Linux build).

## The system

A node is one process with two threads.

* The **main thread** (`main.cpp`) reads `config.json`, loads `savedata`, creates
  toxcore, configures the TUN interface and runs a loop: `select` on the
  control socket or the console, execute commands, `tox_iterate`, bootstrap again
  when offline.  toxcore calls the node's callbacks from `tox_iterate`, in the
  same thread.
* The **reader thread** (`interface.cpp`, `NetworkInterface::loop`) reads IP
  packets from the TUN interface, looks up the friend for the destination and
  hands the packet to toxcore.

The threads share `NetworkInterface::routes`, toxcore and the process, and no
lock.  A friend announces its address in its status message; the main thread
adds a route to the list and a host route to the kernel.  Packets of friends are
written to the interface.

| component | state it keeps | operations | what makes it correct | modules |
|---|---|---|---|---|
| route list and TUN reader (`interface.cpp`, `interface_linux.cpp`, `route_linux.cpp`) | `routes`, kernel routes, the descriptor | configure, reader loop, `findRoute`, `forwardPacket`, `setPeerIp` | packets go to the first match although the walk takes no lock; the kernel never routes what the list lacks | RouteList, RouteTable, NetworkInterface |
| friend store (`main.cpp`, `control.cpp`) | toxcore's friends, `savedata` | `saveState`, add, whitelist, remove, friend requests, auto friends, load | what was saved survives crashes and starts that cannot read it | FriendStore, NodeProfile |
| friends and routes together | both | status messages, removal, restart | routes lead to who announced the address | PeerRouting |
| several nodes (`main.cpp`, `interface.cpp`) | each node's routes, the connections | start, end, status messages, packets end to end | packets go only to who announced the address, and friends with different addresses reach each other | Mesh |
| control socket and console (`listener.cpp`, `control.cpp`) | `connections`, FILE buffers, `keep_running` | `doAccept`, `checkFds`, `handleReadData`, the loop | each command runs once, SIGINT ends the loop | Listener, Session |
| startup and configuration (`main.cpp`, `interface_linux.cpp`) | `config.json`, `myip` | options, `readFile`, `saveConfig`, the prompt, `tox_new` twice | the address given last is used, whatever was cut after it was opened for writing | Startup, NodeLife |
| bootstrap (`main.cpp`) | `last_boostrap`, toxcore's connection | `do_bootstrap` at start, by command, by the timer | a node comes online again | Startup |
| relay access control (`control.cpp`) | toxcore's switch, `tcp_acl_enabled` | enable, disable, status | status tells what toxcore does | Startup |
| hex conversion (`main.cpp`) | none | `to_hex`, `hex_string_to_bin` | each inverts the other, up to the case of letters | HexCodec |

What is hard: a list walked while another thread appends to it; files
truncated before they are written, with crashes at any point; numbers that
toxcore reuses; lines that arrive in pieces and wait in two buffers of which
`select` sees one; connections that break and nodes that come back as somebody
else.  `PROJECT.json` lists every such hazard at its line, with the properties
about it.

## The modules

* **RouteList** has `findRoute` as an operator on a list.  **RouteTable** is the
  abstract specification: a lookup is one step on a list that only grows.
  **NetworkInterface** has the two threads: the reader's program counter walks the
  list node by node while main appends and then tells the kernel.  A short
  packet's destination is any address.
* **FriendStore** has toxcore's friends and numbers (external), `saveState` in
  three steps (`OpenTruncate`, a write that is whole, short or fails, return),
  every operation that adds, removes or saves, crash and restart.  `main` takes any
  failure to open `savedata` for its absence, so `StartFresh` is always possible: on
  a node whose file is there it starts a process that is `blind`, under a new
  identity and without friends, and whose first `saveState` truncates the profile
  it did not read.  **NodeProfile** is its abstract specification: an identity and
  a set of friends that is kept, or lost, in one step of a running node, and taken
  up again by the next start, unless that one cannot read it and is a new node.
* **PeerRouting** composes FriendStore and RouteTable: status messages add
  routes to friend numbers, removals free numbers and leave routes, and a lookup
  is a question, an answer and a hand-over with main's steps between them.
* **Mesh** has several nodes at the level of announcements.  Of a route list it
  keeps the first match of each address, which is all that `findRoute` sees.
  A node starts with an address, an interface that works or does not (without
  `-t` it has no address and stays down; a reader may be missing), and the
  host routes that its device has already; for each route the kernel takes the host
  route or refuses it.  `Addressee` is whom toxcore is asked to send a packet to
  (`findRoute`, `forwardPacket`), `Receiver` where it is written in the end
  (`MyFriendLossyPacket`, `processPacket`): nowhere without a host route or for the
  host's own address, nor between interfaces of which one does not work.
  `told` says who received whose status message in the present connection; a
  connection's end forgets it.  A string that is no address (`NoIp`) may set any
  route, as `inet_pton` leaves the stack's bytes.
* **Listener** has main's loop, the kernel's buffer and the FILE's buffer of each
  connection, and the clients.  A line is its text and its end, so a client can
  stop in the middle; `midline` is the client's own knowledge of that, whatever the
  node has read or run.  When SIGINT made getline return a part of a line, the
  client may still write the rest, and main no longer reads it.  A node without a
  socket has the console, a connection that is there from the start and never
  leaves.  **Session** is what one client may rely on: its lines run once each, in
  turn, and the node lets it go only when it has finished and been served.
* **Startup** has one node over many lives: `config.json` is truncated
  (`OpenConfig`), then written in whole or in part, `tox_new` is tried twice, the
  interface gets its address or not, the loop bootstraps again after ten
  seconds.  A `config.json` that parses without a string `myip` (`NoString`) starts a
  node with an empty address.  `given` is what the operator gave last, from the
  moment it is given; `unsaved` that the process died before it had opened the
  file.  `Stop` is every end at every place.  **NodeLife** is its abstract
  specification: an address is kept or lost while the node is down, and never
  changes while it is up.
* **HexCodec** has both conversions as functions on sequences.  Letters in upper and
  lower case are different characters with the same value.

`MC*` modules hold the instances for TLC, `*Proofs` modules the theorems.
Operators marked "mistake" are variants of an action with a plausible bug; the
specifications do not use them.  Each is there to see a property fail
(`PROJECT.json`, `mutants`).

## The runs

| run | what it shows | instance |
|---|---|---|
| `routes` | `FirstMatchForwarded`: the copied route is the first match of the list at the time it is used. `KernelRoutesKnown`, `RoutedPacketsForwarded`, `RoutedPacketsReachForward` (liveness). `LookupsAtomic`: refinement of RouteTable | 2 addresses, 2 friends, 4 additions |
| `store` | `SavedFriendsKept`, `SavedRemovalsKept`, `IdentityKept`, `AddedFriendsSaved`, `ShutdownSaves` across crashes, restarts and starts that cannot open `savedata`: those lose nothing before they truncate the file. `ProfileOutlivesCrashes`: refinement of NodeProfile | 3 keys, 3 numbers, 2 auto friends, 2 identities |
| `peers` | `RouteKeepsOwner`: a route leads to who announced it until the number is freed. `FirstAnnouncerReceives`: the packet the reader holds goes to the first announcer | 2 keys, 2 numbers, 2 addresses, 2 routes |
| `mesh` | `OnlyAnnouncersReceive`, whatever kernels and toxcore let through. `FriendsReached`, where interfaces work, no host route was refused and addresses differ. `RoutesAreLearned` (liveness) | 3 nodes, 3 addresses and a string that is none |
| `control` | `ErasedAreServed`, `OnlyWholeLines`, `OnlyLinesAwaited`. `SessionsServed`: each client's view refines Session. `FinishedAreServed` and `InterruptEndsLoop` (liveness) | 2 clients, or a console; 2 lines and 1 line |
| `startup` | `LastGivenIpUsed`, except for an address whose process ended before it opened the file; `AclStatusTrue`, `ComesOnline` (liveness). `IpOutlivesCrashes`: refinement of NodeLife | 2 addresses and a string that is none, 2 bootstrap nodes of which 1 answers |
| `unsupported` | **violated**: the packet reported as dropped is forwarded | 2 addresses, 2 friends |
| `removed` | **violated**: a removed friend is back after a crash | |
| `refused` | **violated**: a crash inside `saveState` leaves a file no start accepts | |
| `owner` | **violated**: a reused number sends packets to another friend | |
| `survives` | **violated**: a client that leaves before its answer ends the node | 2 clients |
| `vpn_ip` | **violated**: without `-t` the interface never has the node's address | 1 address |

Every module's type invariant is checked too.  The violated properties quote what
a comment, a guide or a script of the repository says; `PROJECT.json`, under
`findings`, gives the lines.

*Why the bounds are enough.*  A walk meets additions at its head, in its middle
and at its end with four routes, and two friends with one address give
a first match and a later one.  Three keys let a removal leave a hole between
two friends, so loading renumbers.  Two keys and two numbers let a freed number
go to another friend.  Three nodes with one in the middle let two friends of a
node announce the same address, one after the other or as somebody who took it
over, let one come back under an address nobody else has, and let one announce
a string that is no address; the node in the middle and one other may have an
interface that does not work, and the former a host route from an earlier
process.  Two clients let one
connection be erased while another is readable, and two lines fill the FILE's
buffer beyond one command.  Two identities tell the kept one from that of a
blind process, two addresses the old from the new, and a
bootstrap node that does not answer makes the timer necessary.
`MaxRoutes`, `MaxFriends` and `MaxLines` bound what grows in the program without
end; each is a guard of one action.  Mesh and Startup need no bound.

*Fairness.*  `routes` assumes weak fairness of the reader inside `findRoute`: a
thread that is runnable is scheduled.  Packets without a host route get no
promise: main may add routes as fast as the walk proceeds.  `control`
assumes weak fairness of the main thread, which waits only in `select` with a
timeout and in `getline`, and of `EndLine`: clients end the lines they begin.
The latter is an assumption about the environment, not about the code; without
it `getline` waits for ever and takes `tox_iterate` with it.  `mesh` assumes that
toxcore delivers the status messages of a connection that lasts.  `startup`
assumes that time passes, that toxcore connects through a node that answers
(weak fairness) and that `rand` leaves no node out for ever (strong fairness of
`Retry` for each node: the timer is reset by every try, so no single choice stays
enabled).

Deadlock is checked in all runs.  `Ended` lets a process that is gone stay so in
NetworkInterface and Listener; the others restart.

## The proofs

The proofs hold for any addresses, nodes, friends, keys, clients and bounds, from
the named assumptions of the modules (bounds are naturals, null values are not
values, friends are pairs of different nodes).

* **NetworkInterfaceProofs.**  `FirstMatchForwarded` is not inductive: that the
  route is still the first match needs that no earlier route matched when the
  walk passed it.  The invariant `IInv` adds `PacketHeld` (a packet is held while it
  is looked up), `Walk` (no route before the cursor matches; at the end no route
  matches, or the packet's destination had no host route) and `Covered` (the
  kernel's routes are in the list, the one main is adding included).  From it:
  types, first match, kernel routes, the action property
  `RoutedPacketsForwarded` and the refinement of `RouteTable`.
* **FriendStoreProofs.**  `LoadKeepsFriends` shows that renumbering at load is a
  bijection on the friends (ranks are bounded, grow and are injective).  The
  durability theorems assume `~NDEBUG`, as in the CMake build.  Their invariant
  `Durable` joins the properties with what the file holds in each state of it
  (`Disk`), what a process that is down looks like (`Blank`) and what is on the way
  (`Writing`).  A blind process is why `Disk` speaks of the file and not of memory:
  what was promised is still there for the start after it.  With `NDEBUG` the
  theorems are false: a failed open would go unnoticed.  `RemovalsSurvive` is
  the same for removals that a save covers.  The refinement of `NodeProfile` needs no
  assertions, only that no key has two numbers (`NoTwice`): without that, removing a
  friend would leave it in the set.
* **PeerRoutingProofs.**  `RoutingInv` joins the types of both parts and
  `RouteKeepsOwner`; appending keeps first matches (`AppendKeepsFirstMatch`), and no
  step of main other than a removal takes a number from a friend
  (`MainStepKeeps`).  A step of the composition is a step of FriendStore or leaves
  it alone (`StoreInside`), so the theorems of FriendStore hold here too.  That
  the answer of a lookup stays the first match (`FoundFirst`) gives
  `FirstAnnouncerReceives`.
* **MeshProofs.**  `RoutesHeard` (a route comes from an announcement that fits it),
  `ToldKnow` (who was told has heard the address its friend still runs under, and
  has a route for it), `RoutesHosted` (a process that was refused nothing has a host
  route for every route) and `DownKnowsNobody` make the type invariant inductive
  together with both delivery properties.  `FriendsReached` then follows because
  different addresses leave only one friend a route for the address can name.
* **ListenerProofs.**  The invariant counts: in what getline holds and the kernel
  holds, texts and line ends alternate from the start of a line (`Counted`), the
  commands executed and the lines in both buffers are the lines begun, and what
  stands last tells whether the client is in the middle of a line.  It says so of
  the connections that main may still read (`MayBeRead`): after SIGINT cut a line in
  two, it reads that connection no more.  Hence `WholeLines`: a part of a line that
  has run would leave nothing in the buffers of a client in the middle of it.
  Lemmas show what each operation on the buffers does to the count.  A connection
  waits to be accepted or is held, never both, and is in its list once
  (`OnePlace`); `RemoveAtRange` shows that erase takes off no other.
* **ListenerReadingProofs.**  What `select` found is there until the iterator has
  passed (`Selected`), because reading one connection takes nothing from another.
  Hence main waits in `getline` only for the rest of a line, the place where
  `OnlyLinesAwaited` is not inductive by itself.  With the count of
  ListenerProofs the same invariant gives the refinement of `Session`, one lemma
  for each kind of step: a client's, a command, `doAccept`, `erase`.
* **StartupProofs.**  The file holds what was given last or nothing, unless that was
  lost before it was opened (`IInv`); a node that is past its configuration has an
  address, and its flag and toxcore's switch agree from `tox_new` on.  The same
  invariant gives the refinement of `NodeLife`: writing is `Give`, `Configure` is
  `Begin`, and everything else that is not the end changes nothing the abstract
  node shows.
* **HexCodecProofs.**  `RoundTrip`: the bytes come back from their digits, for any
  length.  `WordsOfKey`: two words of digits name one key exactly when they are the
  same but for the case of letters.  `WordRoundTrip`: a word of digits is printed
  again in lower case.  `OddCharacterIgnored`: a character too many at the end
  changes nothing.

Only model-checked: the liveness properties (`RoutedPacketsReachForward`,
`FinishedAreServed`, `InterruptEndsLoop`, `ComesOnline`, `RoutesAreLearned`).

## Not modelled

* `json.hpp`, 24674 of the repository's 26619 lines of implementation, is a
  vendored library.  So are, in effect, toxcore (a submodule whose sources are not
  there) and the C programs that test it.
* `toxvpn-remote` keeps no state; Listener's clients send whatever it can send.
  The hazard of its loop is listed with the others.
* The macOS and Windows files: the Linux ones are the reference.
* Weak memory orders and data races inside toxcore; `fsync` and power loss (a
  crash is the end of the process, what was written stays); truncation that
  toxcore or the JSON parser accepts because it falls at a lucky place; a read of
  `savedata` that is short, or whose assertion fails; JSON in `config.json` that is no
  object, which ends every start; the reuse of a descriptor number after
  `TUNSETIFF` failed; ioctls that fail although the interface exists; the content
  of packets, and toxcore's queue when it is full; signs and `0x` in hex words; ZMQ
  broadcasts, systemd; a client that does not read its answers until the socket's
  buffer is full; accept failing for want of descriptors; `list` and the other
  commands' output; the relay whitelist, which toxcore keeps.
* Modelled, and without a promise: a short write of `savedata` goes unnoticed and is
  excused by `AddedFriendsSaved` and `ShutdownSaves`; a fresh or blind node has an
  identity that no file holds until its first save; a half line stops the loop until
  its client goes on; an empty answer at the prompt counts as the address given;
  old routes of a friend that announced another address stay, although the comments
  at interface.cpp:124 and 128 want routes removed, and hide those of a later
  announcer.  The list's growth with every announcement is cut by `MaxRoutes`.
* Mesh leaves out the removal of friends (PeerRouting has it) and the second
  thread (NetworkInterface has it).

## Plan

1. ZMQ builds: broadcasts in Listener, and `toxvpn-remote` as a subscriber that
   may join late.
2. accept at the descriptor limit; two nodes on a host that share a port range.
