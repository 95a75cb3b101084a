-------------------------- MODULE NetworkInterface --------------------------
(***************************************************************************)
(* A node's TUN interface (src/src/interface.cpp, interface_linux.cpp,     *)
(* route_linux.cpp) and the two threads that share it.                     *)
(*                                                                         *)
(*   main    configures the interface, then runs the loop of main():       *)
(*           tox_iterate calls MyFriendStatusCallback, which adds a route  *)
(*           to the list (addPeerRoute) and then asks the kernel for a     *)
(*           host route through the interface (systemRouteSingle).  SIGINT *)
(*           makes it leave the loop, save, free toxcore and return.       *)
(*   reader  the detached thread of NetworkInterface::loop(): it reads a   *)
(*           packet the kernel routed to the interface, walks the list for *)
(*           a route (findRoute) and hands the packet to toxcore           *)
(*           (forwardPacket).                                              *)
(*                                                                         *)
(* No lock protects the list.  push_back fills its node before it links it *)
(* by one store to the last node, so the model appends in one step and     *)
(* lets the reader act between any two of main's steps; this is the set of *)
(* outcomes on a machine that keeps stores in order, such as x86-64.       *)
(***************************************************************************)
EXTENDS RouteList

CONSTANTS None,      \* no packet, no route, no peer
          MaxRoutes  \* bound: how many routes main adds in a behaviour

ASSUME MaxRoutesAssumption == MaxRoutes \in Nat

End == 0    \* the iterator routes.end(); others are positions in the list

Packet == [dest      : Addr,      \* the address read at offset 20
           supported : BOOLEAN,   \* it starts with the bytes of required[]
           routed    : BOOLEAN]   \* a kernel host route led it here

ASSUME NoneAssumption == None \notin Packet

VARIABLES
  routes,        \* NetworkInterface::routes
  kernel,        \* addresses with a host route through the interface
  tun,           \* fd: "none" not configured, "attached", "closed"
  keep_running,  \* the global SIGINT clears
  main_pc,       \* main thread: where it is
  peer,          \* argument of addPeerRoute while it runs
  reader_pc,     \* reader thread: where it is, "none" if never started
  packet,        \* readbuffer, dest
  cursor,        \* findRoute's iterator
  route          \* the copy findRoute made of the route it found

main_vars   == <<keep_running, main_pc, peer>>
reader_vars == <<reader_pc, packet, cursor, route>>
vars == <<routes, kernel, tun, main_vars, reader_vars>>

MainPC   == {"configure", "top", "iterate", "pushed", "killed",
             "exited", "crashed"}
ReaderPC == {"none", "select", "begin", "find", "forward"}

\* a process that is gone takes no step in any thread
Alive == main_pc \notin {"exited", "crashed"}

Init ==
  /\ routes = <<>>
  /\ kernel = {}
  /\ tun = "none"
  /\ keep_running = TRUE
  /\ main_pc = "configure"
  /\ peer = None
  /\ reader_pc = "none"
  /\ packet = None
  /\ cursor = End
  /\ route = None
-----------------------------------------------------------------------------
(* The main thread *)

\* no /dev/net/tun, no permission, no such device: exit(-1)
ConfigureExit ==
  /\ main_pc = "configure"
  /\ main_pc' = "exited"
  /\ UNCHANGED <<routes, kernel, tun, keep_running, peer, reader_vars>>

\* configure returns.  The reader is missing when socket() failed (early
\* return) or pthread_create did (unchecked).  A TUNSETIFF that fails with
\* anything but EPERM closes fd and goes on.
Configure ==
  /\ main_pc = "configure"
  /\ main_pc' = "top"
  /\ tun' \in {"attached", "closed"}
  /\ reader_pc' \in {"none", "select"}
  /\ UNCHANGED <<routes, kernel, keep_running, peer, packet, cursor, route>>

\* handle_int, in whichever thread the signal is delivered to
Interrupt ==
  /\ Alive
  /\ keep_running
  /\ keep_running' = FALSE
  /\ UNCHANGED <<routes, kernel, tun, main_pc, peer, reader_vars>>

\* while(keep_running): one more turn of the loop
EnterLoop ==
  /\ main_pc = "top"
  /\ keep_running
  /\ main_pc' = "iterate"
  /\ UNCHANGED <<routes, kernel, tun, keep_running, peer, reader_vars>>

\* mistake: the TODO of setPeerIp done by half, the friend's previous route
\* leaves the list and stays in the kernel
SetPeerIpForgetsPrevious(p, friend_number) ==
  /\ main_pc = "iterate"
  /\ Len(routes) < MaxRoutes
  /\ routes' = Append(SelectSeq(routes, LAMBDA r : r.friend_number # friend_number),
                      [network |-> p, friend_number |-> friend_number])
  /\ peer' = p
  /\ main_pc' = "pushed"
  /\ UNCHANGED <<kernel, tun, keep_running, reader_vars>>

\* mistake: push_front
SetPeerIpInFront(p, friend_number) ==
  /\ main_pc = "iterate"
  /\ Len(routes) < MaxRoutes
  /\ routes' = <<[network |-> p, friend_number |-> friend_number]>> \o routes
  /\ peer' = p
  /\ main_pc' = "pushed"
  /\ UNCHANGED <<kernel, tun, keep_running, reader_vars>>

\* tox_iterate calls MyFriendStatusCallback: setPeerIp, addPeerRoute up to
\* routes.push_back.  The status message of a friend may name any address,
\* and may come again with the address it named before.
SetPeerIp(p, friend_number) ==
  /\ main_pc = "iterate"
  /\ Len(routes) < MaxRoutes
  /\ routes' = Append(routes, [network |-> p, friend_number |-> friend_number])
  /\ peer' = p
  /\ main_pc' = "pushed"
  /\ UNCHANGED <<kernel, tun, keep_running, reader_vars>>

\* mistake: the request is built from a peer that was already cleared
SystemRouteSingleOfCleared ==
  /\ main_pc = "pushed"
  /\ peer' = None
  /\ \/ tun = "attached" /\ kernel' = kernel \cup {peer'}
     \/ UNCHANGED kernel
  /\ main_pc' = "iterate"
  /\ UNCHANGED <<routes, tun, keep_running, reader_vars>>

\* the rest of addPeerRoute: the kernel takes the RTM_NEWROUTE request, or
\* refuses it and send_request prints "route error"; it is never told to
\* forget a route
SystemRouteSingle ==
  /\ main_pc = "pushed"
  /\ \/ tun = "attached" /\ kernel' = kernel \cup {peer}
     \/ UNCHANGED kernel
  /\ peer' = None
  /\ main_pc' = "iterate"
  /\ UNCHANGED <<routes, tun, keep_running, reader_vars>>

\* tox_iterate returns
IterateDone ==
  /\ main_pc = "iterate"
  /\ main_pc' = "top"
  /\ UNCHANGED <<routes, kernel, tun, keep_running, peer, reader_vars>>

\* the loop ends: saveState, tox_kill
Kill ==
  /\ main_pc = "top"
  /\ ~keep_running
  /\ main_pc' = "killed"
  /\ UNCHANGED <<routes, kernel, tun, keep_running, peer, reader_vars>>

\* return 0 from main: the process ends and the reader with it
Return ==
  /\ main_pc = "killed"
  /\ main_pc' = "exited"
  /\ UNCHANGED <<routes, kernel, tun, keep_running, peer, reader_vars>>
-----------------------------------------------------------------------------
(* The reader thread *)

\* handleReadData: read(fd).  Any packet may arrive: one the kernel routed
\* to a peer's address, one to the interface's own subnet, a multicast or
\* IPv6 packet whose bytes at offset 20 are anything.
ReadPacket ==
  /\ Alive
  /\ reader_pc = "select"
  /\ tun = "attached"
  /\ \E dest \in Addr, supported \in BOOLEAN :
        packet' = [dest |-> dest, supported |-> supported,
                   routed |-> dest \in kernel]
  /\ reader_pc' = "begin"
  /\ UNCHANGED <<routes, kernel, tun, main_vars, cursor, route>>

\* read fails: exit(-2), whatever main is doing
ReadError ==
  /\ Alive
  /\ reader_pc = "select"
  /\ main_pc' = "exited"
  /\ UNCHANGED <<routes, kernel, tun, keep_running, peer, reader_vars>>

\* mistake: the walk starts at the last route
FindBeginAtBack ==
  /\ Alive
  /\ reader_pc = "begin"
  /\ cursor' = Len(routes)
  /\ reader_pc' = "find"
  /\ UNCHANGED <<routes, kernel, tun, main_vars, packet, route>>

\* findRoute: i = routes.begin()
FindBegin ==
  /\ Alive
  /\ reader_pc = "begin"
  /\ cursor' = IF routes = <<>> THEN End ELSE 1
  /\ reader_pc' = "find"
  /\ UNCHANGED <<routes, kernel, tun, main_vars, packet, route>>

\* *route = r; return true
FindHit ==
  /\ Alive
  /\ reader_pc = "find"
  /\ cursor # End
  /\ Matches(routes[cursor], packet.dest)
  /\ route' = routes[cursor]
  /\ cursor' = End
  /\ reader_pc' = "forward"
  /\ UNCHANGED <<routes, kernel, tun, main_vars, packet>>

\* mistake: the last route is never tested
FindNextShort ==
  /\ Alive
  /\ reader_pc = "find"
  /\ cursor # End
  /\ ~Matches(routes[cursor], packet.dest)
  /\ cursor' = IF cursor + 1 >= Len(routes) THEN End ELSE cursor + 1
  /\ UNCHANGED <<routes, kernel, tun, main_vars, reader_pc, packet, route>>

\* mistake: no ++i after a route that does not match
FindNextStays ==
  /\ Alive
  /\ reader_pc = "find"
  /\ cursor # End
  /\ ~Matches(routes[cursor], packet.dest)
  /\ UNCHANGED vars

\* ++i: the successor is read now and compared with end() later
FindNext ==
  /\ Alive
  /\ reader_pc = "find"
  /\ cursor # End
  /\ ~Matches(routes[cursor], packet.dest)
  /\ cursor' = IF cursor = Len(routes) THEN End ELSE cursor + 1
  /\ UNCHANGED <<routes, kernel, tun, main_vars, reader_pc, packet, route>>

\* return false, "no route found"
FindEnd ==
  /\ Alive
  /\ reader_pc = "find"
  /\ cursor = End
  /\ packet' = None
  /\ reader_pc' = "select"
  /\ UNCHANGED <<routes, kernel, tun, main_vars, cursor, route>>

\* forwardPacket: toxcore takes the packet or refuses it, the reader goes on.
\* Once tox_kill has freed toxcore the call may also crash the process.
ForwardPacket ==
  /\ Alive
  /\ reader_pc = "forward"
  /\ \/ /\ packet' = None
        /\ route' = None
        /\ reader_pc' = "select"
        /\ UNCHANGED main_pc
     \/ /\ main_pc = "killed"
        /\ main_pc' = "crashed"
        /\ UNCHANGED <<packet, route, reader_pc>>
  /\ UNCHANGED <<routes, kernel, tun, keep_running, peer, cursor>>
-----------------------------------------------------------------------------
Main ==
  \/ ConfigureExit
  \/ Configure
  \/ EnterLoop
  \/ \E p \in Addr, n \in FriendNumber : SetPeerIp(p, n)
  \/ SystemRouteSingle
  \/ IterateDone
  \/ Kill
  \/ Return

Reader ==
  \/ ReadPacket
  \/ ReadError
  \/ FindBegin
  \/ FindHit
  \/ FindNext
  \/ FindEnd
  \/ ForwardPacket

\* a process that has ended stays so
Ended == ~Alive /\ UNCHANGED vars

Next == Main \/ Reader \/ Interrupt \/ Ended

Spec == Init /\ [][Next]_vars

\* the scheduler runs a reader that is inside findRoute or forwardPacket
FairSpec == Spec /\ WF_vars(FindBegin \/ FindHit \/ FindNext \/ FindEnd)
-----------------------------------------------------------------------------
(* Properties *)

TypeOK ==
  /\ routes \in Seq(Route)
  /\ kernel \subseteq Addr
  /\ tun \in {"none", "attached", "closed"}
  /\ keep_running \in BOOLEAN
  /\ main_pc \in MainPC
  /\ peer \in Addr \cup {None}
  /\ reader_pc \in ReaderPC
  /\ packet \in Packet \cup {None}
  /\ cursor \in Nat
  /\ route \in Route \cup {None}

\* A packet is handed to the friend of the first route that matches it now,
\* although routes may have been added since the walk began: the copy that
\* findRoute returns is never outdated by the time forwardPacket uses it.
FirstMatchForwarded ==
  reader_pc = "forward" => route \in FirstMatch(routes, packet.dest)

\* Whatever the kernel sends through the interface because of a host route
\* has a route in the list: addPeerRoute orders the two so.
KernelRoutesKnown == kernel \subseteq Networks(routes)

\* A packet that a host route of the kernel led to the interface is never
\* answered with "no route found", even if the list grew during the walk.
RoutedPacketsForwarded ==
  [][reader_pc = "find" /\ reader_pc' = "select" => ~packet.routed]_vars

\* However many routes main adds meanwhile, the walk for a packet that a host
\* route led here reaches that route: the packet is handed to forwardPacket
\* unless the process ends first.  (A walk for any other packet may chase a
\* list that grows as fast as it is walked.)
RoutedPacketsReachForward ==
  (reader_pc \in {"begin", "find"} /\ packet.routed)
    ~> (reader_pc = "forward" \/ ~Alive)

\* "unsupported packet, dropping" says handleReadData of a packet that does
\* not start with the bytes of required[]: such a packet is not forwarded.
UnsupportedDropped == reader_pc = "forward" => packet.supported

\* The walk is a lookup that happens at one instant (RouteTable): with the
\* route found when the iterator stands on it, with no route when ++i
\* returns end().
LookupStatus ==
  CASE ~Alive                                  -> "stopped"
    [] Alive /\ reader_pc \in {"none", "select"} -> "idle"
    [] Alive /\ reader_pc = "begin"              -> "asked"
    [] Alive /\ reader_pc = "find"               ->
         IF cursor = End THEN "notfound" ELSE "asked"
    [] Alive /\ reader_pc = "forward"            -> "found"

Table == INSTANCE RouteTable WITH
  table    <- routes,
  status   <- LookupStatus,
  question <- IF packet = None THEN None ELSE packet.dest,
  answer   <- route

LookupsAtomic == Table!Spec
=============================================================================
