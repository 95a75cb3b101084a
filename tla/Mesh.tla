-------------------------------- MODULE Mesh --------------------------------
(***************************************************************************)
(* Several nodes end to end: who is reached by a packet that a host sends  *)
(* into the VPN, while nodes crash, come back under the same or another    *)
(* address and connections break.                                          *)
(*                                                                         *)
(* A node is up under one address from its start to its end (Startup).     *)
(* When two friends connect each sends the other its status message, and   *)
(* the receiver adds a route.  Of a route list only the first match for    *)
(* each address matters (RouteTable, PeerRouting), and no friend is        *)
(* removed here (PeerRouting says what that does).                         *)
(*                                                                         *)
(* Connections are external: toxcore connects friends that are up, delivers *)
(* a status message once in each connection, and drops the connections of  *)
(* a node that ended.  So is the interface: it works when the node was     *)
(* started on a device it can configure (without -t it is left without     *)
(* address and down) and has a reader thread; the kernel may refuse a host *)
(* route, and a device that outlives a process may keep its host routes.   *)
(* NoIp is a string that is no address: inet_pton then leaves the address  *)
(* of the route to whatever the stack held.                                *)
(***************************************************************************)
CONSTANTS Node,
          Friends,  \* pairs of nodes that are friends
          Addr,     \* addresses
          NoIp,     \* a string that is no address
          None,     \* no node, no address
          Given     \* Given[n]: what n may be started with

ASSUME FriendsAssumption ==
  \A pair \in Friends : \E n, m \in Node : n # m /\ pair = {n, m}
ASSUME NoneAssumption == None \notin Node \cup Addr \cup {NoIp} /\ NoIp \notin Addr

Ip == Addr \cup {NoIp}

\* What operators give a node as its address, whether its interface then works,
\* and the host routes that the device has from an earlier process or another hand
Start == [ip : Ip, works : BOOLEAN, left : SUBSET Addr]

ASSUME GivenAssumption == Given \in [Node -> SUBSET Start]

VARIABLES
  up,      \* the address a node is running under, None when it is down
  linked,  \* pairs of friends with a connection
  told,    \* <<m, n>>: n received m's status message in this connection
  routes,  \* routes[n][a]: the friend of the first route that matches
  working, \* nodes that are up whose interface works
  hosted,  \* hosted[n]: addresses with a host route through n's interface
  refused, \* history: nodes that were refused a host route since they started
  heard    \* history: <<m, ip>>: m announced ip to n since n started

vars == <<up, linked, told, routes, working, hosted, refused, heard>>

NoRoutes == [a \in Addr |-> None]

Init ==
  /\ up = [n \in Node |-> None]
  /\ linked = {}
  /\ told = {}
  /\ routes = [n \in Node |-> NoRoutes]
  /\ working = {}
  /\ hosted = [n \in Node |-> {}]
  /\ refused = {}
  /\ heard = [n \in Node |-> {}]
-----------------------------------------------------------------------------
(* Nodes *)

\* main up to its loop
Begin(n, start) ==
  /\ up[n] = None
  /\ up' = [up EXCEPT ![n] = start.ip]
  /\ working' = IF start.works THEN working \cup {n} ELSE working
  /\ hosted' = [hosted EXCEPT ![n] = start.left]
  /\ UNCHANGED <<linked, told, routes, refused, heard>>

\* what is gone with a process
Gone(n) ==
  /\ up' = [up EXCEPT ![n] = None]
  /\ linked' = {pair \in linked : n \notin pair}
  /\ routes' = [routes EXCEPT ![n] = NoRoutes]
  /\ working' = working \ {n}
  /\ hosted' = [hosted EXCEPT ![n] = {}]
  /\ refused' = refused \ {n}
  /\ heard' = [heard EXCEPT ![n] = {}]

\* mistake: friends believe that the new process knows what the old one knew
EndRemembered(n) ==
  /\ up[n] # None
  /\ Gone(n)
  /\ UNCHANGED told

\* the end of the process, orderly or not
End(n) ==
  /\ up[n] # None
  /\ Gone(n)
  /\ told' = {t \in told : n \notin {t[1], t[2]}}
-----------------------------------------------------------------------------
(* Connections *)

Connect(pair) ==
  /\ \A n \in pair : up[n] # None
  /\ pair \notin linked
  /\ linked' = linked \cup {pair}
  /\ UNCHANGED <<up, told, routes, working, hosted, refused, heard>>

\* FriendConnectionUpdate, on both sides: removePeer changes nothing
Disconnect(pair) ==
  /\ pair \in linked
  /\ linked' = linked \ {pair}
  /\ told' = {t \in told : {t[1], t[2]} # pair}
  /\ UNCHANGED <<up, routes, working, hosted, refused, heard>>

\* push_back: the first route that matches stays the first
AddRoute(n, a, m) ==
  routes' = [routes EXCEPT ![n][a] = IF @ = None THEN m ELSE @]

\* systemRouteSingle: the kernel takes the host route or refuses it
AskKernel(n, a) ==
  \/ /\ n \in working
     /\ hosted' = [hosted EXCEPT ![n] = @ \cup {a}]
     /\ UNCHANGED refused
  \/ /\ refused' = refused \cup {n}
     /\ UNCHANGED hosted

SetPeerIp(n, a, m) ==
  /\ AddRoute(n, a, m)
  /\ AskKernel(n, a)

\* n receives m's status message for the first time in this connection
Told(n, m) ==
  /\ {n, m} \in linked
  /\ <<m, n>> \notin told
  /\ told' = told \cup {<<m, n>>}
  /\ heard' = [heard EXCEPT ![n] = @ \cup {<<m, up[m]>>}]
  /\ UNCHANGED <<up, linked, working>>

\* mistake: a friend that has a route gets no other
StatusCallbackOnce(n, m) ==
  /\ Told(n, m)
  /\ IF up[m] \in Addr /\ \A a \in Addr : routes[n][a] # m
       THEN SetPeerIp(n, up[m], m)
       ELSE UNCHANGED <<routes, hosted, refused>>

\* mistake: the node's own address
StatusCallbackOwn(n, m) ==
  /\ Told(n, m)
  /\ IF up[n] \in Addr THEN SetPeerIp(n, up[n], m)
     ELSE UNCHANGED <<routes, hosted, refused>>

\* MyFriendStatusCallback at n, for friend m
StatusCallback(n, m) ==
  /\ Told(n, m)
  /\ \/ \E a \in Addr : up[m] \in {a, NoIp} /\ SetPeerIp(n, a, m)
     \/ up[m] = NoIp /\ UNCHANGED <<routes, hosted, refused>>

Next ==
  \/ \E n \in Node : \E start \in Given[n] : Begin(n, start)
  \/ \E n \in Node : End(n)
  \/ \E pair \in Friends : Connect(pair) \/ Disconnect(pair)
  \/ \E n, m \in Node : StatusCallback(n, m)

Spec == Init /\ [][Next]_vars

\* toxcore delivers the status messages of a connection that lasts
FairSpec ==
  Spec /\ \A pair \in Friends : \A n \in pair : \A m \in pair \ {n} :
            WF_vars(StatusCallback(n, m))
-----------------------------------------------------------------------------
(* Packets *)

\* findRoute and tox_friend_send_lossy_packet: the friend that toxcore is given a
\* packet for a for, if n's reader reads one and that friend is connected
Addressee(n, a) ==
  IF {n, routes[n][a]} \in linked THEN routes[n][a] ELSE None

\* Where a packet for a that n's host sends now is written to a working interface,
\* if toxcore takes it (its queue may be full): nowhere when the host keeps it for
\* itself, no host route leads it to n's reader or the friend's interface does not
\* work.
Receiver(n, a) ==
  IF a \in hosted[n] \ {up[n]} /\ {n, Addressee(n, a)} \subseteq working
  THEN Addressee(n, a) ELSE None
-----------------------------------------------------------------------------
(* Properties *)

TypeOK ==
  /\ up \in [Node -> Ip \cup {None}]
  /\ linked \subseteq Friends
  /\ told \subseteq Node \X Node
  /\ routes \in [Node -> [Addr -> Node \cup {None}]]
  /\ working \subseteq {n \in Node : up[n] # None}
  /\ hosted \in [Node -> SUBSET Addr]
  /\ refused \subseteq Node
  /\ heard \in [Node -> SUBSET (Node \X Ip)]
  /\ \A pair \in linked : \A n \in pair : up[n] # None
  /\ \A t \in told : {t[1], t[2]} \in linked

\* Whatever kernels and toxcore let through, a packet goes only to a node that
\* announced the packet's address to the sender's process, or that announced a
\* string that is no address.
OnlyAnnouncersReceive ==
  \A n \in Node, a \in Addr :
    LET m == Addressee(n, a)
    IN  m # None => <<m, a>> \in heard[n] \/ <<m, NoIp>> \in heard[n]

\* n has an address and its friends announced others, all different, since it started.
Distinct(n) ==
  /\ up[n] # NoIp
  /\ \A x, y \in heard[n] : /\ x[2] \notin {NoIp, up[n]}
                            /\ x[2] = y[2] => x[1] = y[1]

\* "instances that connect to each other need to have different IPs in order to work
\* properly" (README): when they had, and n's process was refused no host route, a
\* packet for the address a connected friend runs under reaches that friend if both
\* interfaces work, however often the friend or the connection was lost and under
\* how many addresses it came back, and whatever host routes n's last process left.
FriendsReached ==
  \A t \in told :
    LET m == t[1] n == t[2]
    IN  Distinct(n) /\ n \notin refused /\ {n, m} \subseteq working =>
          Receiver(n, up[m]) = m

\* In a connection that lasts each friend comes to have a route for the address that
\* the other runs under, another friend's if that one announced the address before:
\* the status message is announced again in every connection.
RoutesAreLearned ==
  \A pair \in Friends : \A n \in pair : \A m \in pair \ {n} :
    <>[](pair \in linked) =>
      <>[](<<m, n>> \in told /\ (up[m] \in Addr => routes[n][up[m]] # None))
=============================================================================
