----------------------- MODULE NetworkInterfaceProofs -----------------------
(***************************************************************************)
(* Proofs about NetworkInterface, for any addresses, friends and bound.    *)
(***************************************************************************)
EXTENDS NetworkInterface, TLAPS

(***************************************************************************)
(* The inductive invariant.  FirstMatchForwarded says where a walk ends;   *)
(* Walk says what it has established on the way: no route before the       *)
(* cursor matches, and a walk that ran off the list was not for a packet   *)
(* that a host route led here.  Covered carries the order of addPeerRoute  *)
(* (list first, kernel second) through the state between its two halves.   *)
(***************************************************************************)
PacketHeld ==
  /\ reader_pc \in {"none", "select"} => packet = None
  /\ reader_pc \in {"begin", "find", "forward"} => packet \in Packet
  /\ reader_pc # "forward" => route = None
  /\ main_pc = "configure" => reader_pc = "none"

Walk ==
  /\ cursor <= Len(routes)
  /\ reader_pc = "find" /\ cursor # End =>
       \A k \in 1 .. cursor - 1 : ~Matches(routes[k], packet.dest)
  /\ reader_pc = "find" /\ cursor = End => ~packet.routed
  /\ FirstMatchForwarded

Covered ==
  /\ KernelRoutesKnown
  /\ main_pc = "pushed" => peer \in Networks(routes)
  /\ reader_pc \in {"begin", "find"} /\ packet.routed =>
       packet.dest \in Networks(routes)

IInv == TypeOK /\ PacketHeld /\ Walk /\ Covered
-----------------------------------------------------------------------------
(* Lemmas about the route list *)

\* Appending keeps the networks known and adds the new one.
LEMMA AppendNetworks ==
  ASSUME NEW s \in Seq(Route), NEW r \in Route
  PROVE  Networks(Append(s, r)) = Networks(s) \cup {r.network}
<1>1. /\ Append(s, r) \in Seq(Route)
      /\ Len(Append(s, r)) = Len(s) + 1
      /\ \A i \in 1 .. Len(s) : Append(s, r)[i] = s[i]
      /\ Append(s, r)[Len(s) + 1] = r
  OBVIOUS
<1>2. DOMAIN s = 1 .. Len(s) /\ DOMAIN Append(s, r) = 1 .. Len(s) + 1
  BY <1>1
<1>3. ASSUME NEW n \in Networks(s) PROVE n \in Networks(Append(s, r))
  BY <1>1, <1>2 DEF Networks
<1>4. r.network \in Networks(Append(s, r))
  <2>1. Len(s) + 1 \in 1 .. Len(s) + 1
    OBVIOUS
  <2> QED BY <1>1, <1>2, <2>1 DEF Networks
<1>5. ASSUME NEW n \in Networks(Append(s, r))
      PROVE  n \in Networks(s) \cup {r.network}
  <2>1. PICK i \in 1 .. Len(s) + 1 : n = Append(s, r)[i].network
    BY <1>2 DEF Networks
  <2>2. CASE i \in 1 .. Len(s)
    BY <1>1, <1>2, <2>1, <2>2 DEF Networks
  <2>3. CASE i = Len(s) + 1
    BY <1>1, <2>1, <2>3
  <2> QED BY <2>1, <2>2, <2>3
<1> QED BY <1>3, <1>4, <1>5

\* A route added at the end never becomes the first match in the place of
\* one that was there.
LEMMA AppendFirstMatch ==
  ASSUME NEW s \in Seq(Route), NEW r \in Route, NEW p,
         NEW x \in FirstMatch(s, p)
  PROVE  x \in FirstMatch(Append(s, r), p)
<1>1. /\ Append(s, r) \in Seq(Route)
      /\ Len(Append(s, r)) = Len(s) + 1
      /\ \A i \in 1 .. Len(s) : Append(s, r)[i] = s[i]
  OBVIOUS
<1>2. DOMAIN s = 1 .. Len(s) /\ DOMAIN Append(s, r) = 1 .. Len(s) + 1
  BY <1>1
<1>3. PICK j \in 1 .. Len(s) :
        /\ x = s[j]
        /\ Matches(s[j], p)
        /\ \A k \in 1 .. j - 1 : ~Matches(s[k], p)
  BY <1>2 DEF FirstMatch
<1>4. j \in 1 .. Len(s) + 1 /\ \A k \in 1 .. j - 1 : k \in 1 .. Len(s)
  OBVIOUS
<1>5. \A k \in 1 .. j - 1 : ~Matches(Append(s, r)[k], p)
  BY <1>1, <1>3, <1>4
<1>6. x = Append(s, r)[j] /\ Matches(Append(s, r)[j], p)
  BY <1>1, <1>3
<1> QED BY <1>2, <1>4, <1>5, <1>6 DEF FirstMatch

\* A walk that has passed every route without a match has seen that none
\* matches.
LEMMA NoMatchNoNetwork ==
  ASSUME NEW s \in Seq(Route), NEW p,
         \A k \in 1 .. Len(s) : ~Matches(s[k], p)
  PROVE  FirstMatch(s, p) = {} /\ p \notin Networks(s)
BY DOMAIN s = 1 .. Len(s) DEF FirstMatch, Networks, Matches
-----------------------------------------------------------------------------
LEMMA InitInv == Init => IInv
<1> SUFFICES ASSUME Init PROVE IInv
  OBVIOUS
<1>1. routes = <<>> /\ Len(routes) = 0 /\ routes \in Seq(Route)
  BY DEF Init
<1>2. TypeOK
  BY <1>1 DEF Init, TypeOK, MainPC, ReaderPC, End
<1>3. PacketHeld
  BY DEF Init, PacketHeld
<1>4. Walk
  BY <1>1 DEF Init, Walk, FirstMatchForwarded, End
<1>5. Covered
  BY DEF Init, Covered, KernelRoutesKnown
<1> QED BY <1>2, <1>3, <1>4, <1>5 DEF IInv

\* The steps that leave the list, the packet and the walk alone.
LEMMA MainStepInv ==
  ASSUME IInv,
         UNCHANGED <<routes, reader_vars>>,
         keep_running' \in BOOLEAN, main_pc' \in MainPC,
         main_pc' = "pushed" => main_pc = "pushed",
         main_pc' = "configure" => main_pc = "configure",
         tun' \in {"none", "attached", "closed"},
         peer' = peer \/ (peer' = None /\ main_pc' # "pushed"),
         kernel' = kernel \/ (kernel' = kernel \cup {peer} /\ main_pc = "pushed")
  PROVE  IInv'
<1>1. main_pc = "pushed" => peer \in Networks(routes) /\ peer \in Addr
  <2>1. routes \in Seq(Route)
    BY DEF IInv, TypeOK
  <2>2. \A i \in DOMAIN routes : routes[i] \in Route
    BY <2>1
  <2>3. Networks(routes) \subseteq Addr
    BY <2>2 DEF Networks, Route
  <2> QED BY <2>3 DEF IInv, Covered
<1>2. TypeOK'
  BY <1>1 DEF IInv, TypeOK, reader_vars
<1>3. PacketHeld'
  BY DEF IInv, PacketHeld, reader_vars
<1>4. Walk'
  BY DEF IInv, Walk, FirstMatchForwarded, reader_vars
<1>5. Covered'
  BY <1>1 DEF IInv, Covered, KernelRoutesKnown, reader_vars
<1> QED BY <1>2, <1>3, <1>4, <1>5 DEF IInv

\* addPeerRoute's push_back, wherever the reader's walk stands
LEMMA SetPeerIpInv ==
  ASSUME IInv, NEW p \in Addr, NEW n \in FriendNumber, SetPeerIp(p, n)
  PROVE  IInv'
<1> DEFINE r == [network |-> p, friend_number |-> n]
<1>1. r \in Route
  BY DEF Route
<1>2. routes \in Seq(Route) /\ routes' = Append(routes, r)
  BY DEF IInv, TypeOK, SetPeerIp
<1>3. /\ routes' \in Seq(Route)
      /\ Len(routes') = Len(routes) + 1
      /\ \A i \in 1 .. Len(routes) : routes'[i] = routes[i]
  BY <1>1, <1>2
<1>4. Networks(routes') = Networks(routes) \cup {p}
  BY <1>1, <1>2, AppendNetworks
<1> HIDE DEF r
<1>5. TypeOK'
  BY <1>3 DEF IInv, TypeOK, SetPeerIp, MainPC, reader_vars
<1>6. PacketHeld'
  BY DEF IInv, PacketHeld, SetPeerIp, reader_vars
<1>7. Walk'
  <2>1. cursor' <= Len(routes')
    BY <1>3 DEF IInv, TypeOK, Walk, SetPeerIp, reader_vars
  <2>2. ASSUME reader_pc = "find", cursor # End, NEW k \in 1 .. cursor - 1
        PROVE  ~Matches(routes'[k], packet.dest)
    <3>1. k \in 1 .. Len(routes) /\ ~Matches(routes[k], packet.dest)
      BY <2>2 DEF IInv, TypeOK, Walk
    <3> QED BY <1>3, <3>1
  <2>3. FirstMatchForwarded'
    <3>1. ASSUME reader_pc = "forward"
          PROVE  route \in FirstMatch(routes', packet.dest)
      BY <1>1, <1>2, <3>1, AppendFirstMatch
         DEF IInv, Walk, FirstMatchForwarded
    <3> QED BY <3>1 DEF FirstMatchForwarded, SetPeerIp, reader_vars
  <2> QED BY <2>1, <2>2, <2>3 DEF IInv, Walk, SetPeerIp, reader_vars
<1>8. Covered'
  BY <1>4 DEF IInv, Covered, KernelRoutesKnown, SetPeerIp, reader_vars
<1> QED BY <1>5, <1>6, <1>7, <1>8 DEF IInv

\* Any step of the reader
LEMMA ReaderInv == ASSUME IInv, Reader PROVE IInv'
<1>1. CASE ReadPacket
  <2>1. packet' \in Packet /\ (packet'.routed => packet'.dest \in Networks(routes))
    <3>1. PICK dest \in Addr, supported \in BOOLEAN :
            packet' = [dest |-> dest, supported |-> supported,
                       routed |-> dest \in kernel]
      BY <1>1 DEF ReadPacket
    <3> DEFINE b == dest \in kernel
    <3>2. b \in BOOLEAN /\ (b => dest \in Networks(routes))
      BY DEF IInv, Covered, KernelRoutesKnown
    <3>3. packet' = [dest |-> dest, supported |-> supported, routed |-> b]
      BY <3>1
    <3> HIDE DEF b
    <3> QED BY <3>2, <3>3 DEF Packet
  <2>2. TypeOK'
    BY <1>1, <2>1 DEF ReadPacket, IInv, TypeOK, ReaderPC, main_vars
  <2>3. PacketHeld' /\ Walk'
    BY <1>1, <2>1 DEF ReadPacket, IInv, PacketHeld, Walk, FirstMatchForwarded, main_vars
  <2>4. Covered'
    BY <1>1, <2>1 DEF ReadPacket, IInv, Covered, KernelRoutesKnown, main_vars
  <2> QED BY <2>2, <2>3, <2>4 DEF IInv
<1>2. CASE ReadError
  <2>1. main_pc' = "exited" /\ UNCHANGED <<routes, kernel, tun, keep_running, peer, reader_vars>>
    BY <1>2 DEF ReadError
  <2>2. keep_running \in BOOLEAN /\ tun \in {"none", "attached", "closed"}
    BY DEF IInv, TypeOK
  <2> QED BY <2>1, <2>2, MainStepInv DEF MainPC
<1>3. CASE FindBegin
  <2>1. routes \in Seq(Route)
    BY DEF IInv, TypeOK
  <2>2. cursor' \in Nat /\ cursor' <= Len(routes) /\ cursor' \in {End, 1}
    BY <1>3, <2>1 DEF FindBegin, End
  <2>3. TypeOK'
    BY <1>3, <2>2 DEF FindBegin, IInv, TypeOK, ReaderPC, main_vars
  <2>4. PacketHeld'
    BY <1>3 DEF FindBegin, IInv, PacketHeld, main_vars
  <2>5. cursor' = End => ~packet.routed
    <3>1. SUFFICES ASSUME cursor' = End, packet.routed PROVE FALSE
      OBVIOUS
    <3>2. routes = <<>>
      BY <1>3, <3>1 DEF FindBegin, End
    <3>3. packet.dest \in Networks(routes)
      BY <1>3, <3>1 DEF FindBegin, IInv, Covered
    <3> QED BY <3>2, <3>3 DEF Networks
  <2>6. Walk'
    BY <1>3, <2>2, <2>5 DEF FindBegin, Walk, FirstMatchForwarded, End
  <2>7. Covered'
    BY <1>3 DEF FindBegin, IInv, Covered, KernelRoutesKnown, main_vars
  <2> QED BY <2>3, <2>4, <2>6, <2>7 DEF IInv
<1>4. CASE FindHit
  <2>1. routes \in Seq(Route) /\ cursor \in 1 .. Len(routes)
    BY <1>4 DEF FindHit, IInv, TypeOK, Walk, End
  <2>2. routes[cursor] \in Route /\ DOMAIN routes = 1 .. Len(routes)
    BY <2>1
  <2>3. TypeOK'
    BY <1>4, <2>2 DEF FindHit, IInv, TypeOK, ReaderPC, End, main_vars
  <2>4. PacketHeld'
    BY <1>4 DEF FindHit, IInv, PacketHeld, main_vars
  <2>5. route' \in FirstMatch(routes, packet.dest)
    BY <1>4, <2>1, <2>2 DEF FindHit, IInv, Walk, FirstMatch
  <2>6. Walk'
    BY <1>4, <2>1, <2>5 DEF FindHit, Walk, FirstMatchForwarded, End
  <2>7. Covered'
    BY <1>4 DEF FindHit, IInv, Covered, KernelRoutesKnown, main_vars
  <2> QED BY <2>3, <2>4, <2>6, <2>7 DEF IInv
<1>5. CASE FindNext
  <2>1. routes \in Seq(Route) /\ cursor \in 1 .. Len(routes)
    BY <1>5 DEF FindNext, IInv, TypeOK, Walk, End
  <2>2. cursor' \in Nat /\ cursor' <= Len(routes)
    BY <1>5, <2>1 DEF FindNext, End
  <2>3. \A k \in 1 .. cursor : ~Matches(routes[k], packet.dest)
    <3>1. \A k \in 1 .. cursor - 1 : ~Matches(routes[k], packet.dest)
      BY <1>5 DEF FindNext, IInv, Walk
    <3>2. \A k \in 1 .. cursor : k \in 1 .. cursor - 1 \/ k = cursor
      BY <2>1
    <3> QED BY <1>5, <3>1, <3>2 DEF FindNext
  <2>4. cursor' = End => ~packet.routed
    <3>1. cursor' = End => cursor = Len(routes)
      BY <1>5, <2>1 DEF FindNext, End
    <3>2. cursor' = End => packet.dest \notin Networks(routes)
      BY <2>1, <2>3, <3>1, NoMatchNoNetwork
    <3> QED BY <1>5, <3>2 DEF FindNext, IInv, Covered
  <2>5. TypeOK'
    BY <1>5, <2>2 DEF FindNext, IInv, TypeOK, main_vars
  <2>6. PacketHeld'
    BY <1>5 DEF FindNext, IInv, PacketHeld, main_vars
  <2>7. cursor' # End => cursor' = cursor + 1
    BY <1>5 DEF FindNext
  <2>8. Walk'
    BY <1>5, <2>1, <2>2, <2>3, <2>4, <2>7 DEF FindNext, Walk, FirstMatchForwarded
  <2>9. Covered'
    BY <1>5 DEF FindNext, IInv, Covered, KernelRoutesKnown, main_vars
  <2> QED BY <2>5, <2>6, <2>8, <2>9 DEF IInv
<1>6. CASE FindEnd
  <2>1. TypeOK'
    BY <1>6 DEF FindEnd, IInv, TypeOK, ReaderPC, main_vars
  <2>2. PacketHeld' /\ Walk'
    BY <1>6 DEF FindEnd, IInv, PacketHeld, Walk, FirstMatchForwarded, main_vars
  <2>3. Covered'
    BY <1>6 DEF FindEnd, IInv, Covered, KernelRoutesKnown, main_vars
  <2> QED BY <2>1, <2>2, <2>3 DEF IInv
<1>7. CASE ForwardPacket
  <2>1. CASE UNCHANGED <<packet, route, reader_pc>>
    <3>1. main_pc' \in MainPC /\ main_pc' \notin {"pushed", "configure"}
      BY <1>7, <2>1 DEF ForwardPacket, MainPC, IInv, PacketHeld, NoneAssumption
    <3>2. UNCHANGED <<routes, kernel, tun, keep_running, peer, reader_vars>>
      BY <1>7, <2>1 DEF ForwardPacket, reader_vars
    <3>3. keep_running \in BOOLEAN /\ tun \in {"none", "attached", "closed"}
      BY DEF IInv, TypeOK
    <3> QED BY <3>1, <3>2, <3>3, MainStepInv
  <2>2. CASE packet' = None /\ route' = None /\ reader_pc' = "select" /\ UNCHANGED main_pc
    <3>1. TypeOK'
      BY <1>7, <2>2 DEF ForwardPacket, IInv, TypeOK, ReaderPC
    <3>2. PacketHeld' /\ Walk'
      BY <1>7, <2>2 DEF ForwardPacket, IInv, PacketHeld, Walk, FirstMatchForwarded
    <3>3. Covered'
      BY <1>7, <2>2 DEF ForwardPacket, IInv, Covered, KernelRoutesKnown
    <3> QED BY <3>1, <3>2, <3>3 DEF IInv
  <2> QED BY <1>7, <2>1, <2>2 DEF ForwardPacket
<1> QED BY <1>1, <1>2, <1>3, <1>4, <1>5, <1>6, <1>7 DEF Reader

\* Every step preserves the invariant.
LEMMA NextInv == IInv /\ [Next]_vars => IInv'
<1> SUFFICES ASSUME IInv, [Next]_vars PROVE IInv'
  OBVIOUS
<1>0. /\ keep_running \in BOOLEAN /\ main_pc \in MainPC
      /\ tun \in {"none", "attached", "closed"}
  BY DEF IInv, TypeOK
<1>1. CASE ConfigureExit
  BY <1>0, <1>1, MainStepInv DEF ConfigureExit, MainPC
<1>2. CASE Configure
  <2>1. reader_pc' \in {"none", "select"} /\ UNCHANGED <<routes, packet, cursor, route>>
    BY <1>2 DEF Configure
  <2>2. TypeOK'
    BY <1>2, <2>1 DEF Configure, IInv, TypeOK, MainPC, ReaderPC
  <2>3. PacketHeld'
    BY <1>2, <2>1 DEF Configure, IInv, PacketHeld
  <2>4. Walk' /\ Covered'
    BY <1>2, <2>1 DEF Configure, IInv, Walk, FirstMatchForwarded, Covered, KernelRoutesKnown
  <2> QED BY <2>2, <2>3, <2>4 DEF IInv
<1>3. CASE EnterLoop
  BY <1>0, <1>3, MainStepInv DEF EnterLoop, MainPC
<1>4. CASE \E p \in Addr, n \in FriendNumber : SetPeerIp(p, n)
  BY <1>4, SetPeerIpInv
<1>5. CASE SystemRouteSingle
  BY <1>0, <1>5, MainStepInv DEF SystemRouteSingle, MainPC
<1>6. CASE IterateDone
  BY <1>0, <1>6, MainStepInv DEF IterateDone, MainPC
<1>7. CASE Kill
  BY <1>0, <1>7, MainStepInv DEF Kill, MainPC
<1>8. CASE Return
  BY <1>0, <1>8, MainStepInv DEF Return, MainPC
<1>9. CASE Interrupt
  BY <1>0, <1>9, MainStepInv DEF Interrupt
<1>10. CASE Reader
  BY <1>10, ReaderInv
<1>11. CASE UNCHANGED vars
  BY <1>0, <1>11, MainStepInv DEF vars, main_vars
<1> QED
  BY <1>1, <1>2, <1>3, <1>4, <1>5, <1>6, <1>7, <1>8, <1>9, <1>10, <1>11
     DEF Next, Main, Ended
-----------------------------------------------------------------------------
(* Theorems *)

\* IInv holds in every state of every behaviour.
THEOREM Invariance == Spec => []IInv
BY InitInv, NextInv, PTL DEF Spec

\* Every variable keeps its type, whatever the two threads do.
THEOREM TypeCorrect == Spec => []TypeOK
<1>1. IInv => TypeOK
  BY DEF IInv
<1> QED BY <1>1, Invariance, PTL

\* The route that forwardPacket gets from findRoute is the first match of the
\* list as it stands then, for lists of any length.
THEOREM ForwardsFirstMatch == Spec => []FirstMatchForwarded
<1>1. IInv => FirstMatchForwarded
  BY DEF IInv, Walk
<1> QED BY <1>1, Invariance, PTL

\* Every address with a host route in the kernel has a route in the list.
THEOREM KernelKnown == Spec => []KernelRoutesKnown
<1>1. IInv => KernelRoutesKnown
  BY DEF IInv, Covered
<1> QED BY <1>1, Invariance, PTL

\* The reader never reports "no route found" for a packet that a host route
\* led to the interface.
THEOREM ForwardsRoutedPackets == Spec => RoutedPacketsForwarded
<1>1. ASSUME IInv, [Next]_vars, reader_pc = "find", reader_pc' = "select"
      PROVE  ~packet.routed
  <2>1. FindEnd
    BY <1>1 DEF Next, vars, reader_vars, main_vars, Main, Reader, Interrupt,
         Ended, ConfigureExit, Configure, EnterLoop, SetPeerIp,
         SystemRouteSingle, IterateDone, Kill, Return, ReadPacket, ReadError,
         FindBegin, FindHit, FindNext, ForwardPacket, IInv, PacketHeld
  <2> QED BY <1>1, <2>1 DEF FindEnd, IInv, Walk
<1>2. IInv /\ [Next]_vars =>
        [reader_pc = "find" /\ reader_pc' = "select" => ~packet.routed]_vars
  BY <1>1
<1> QED BY <1>2, Invariance, PTL DEF Spec, RoutedPacketsForwarded
-----------------------------------------------------------------------------
(* The walk implements a lookup at one instant *)

\* RouteTable's operators on the list are NetworkInterface's own.
LEMMA SameList ==
  /\ Table!Route = Route
  /\ \A s, p : Table!FirstMatch(s, p) = FirstMatch(s, p)
<1>1. Table!Route = Route
  BY DEF Table!Route, Route
<1>2. \A r, p : Table!Matches(r, p) = Matches(r, p)
  BY DEF Table!Matches, Matches
<1>3. \A s, p : Table!FirstMatch(s, p) = FirstMatch(s, p)
  BY <1>2 DEF Table!FirstMatch, FirstMatch
<1> QED BY <1>1, <1>3

LEMMA TableInit == Init => Table!Init
BY DEF Init, Table!Init, LookupStatus, Alive

\* main's steps add a route, end the process or change nothing of the table
LEMMA MainRefines ==
  ASSUME IInv, Main \/ Interrupt \/ Ended
  PROVE  [Table!Next]_(Table!vars)
<1>1. CASE \E p \in Addr, n \in FriendNumber : SetPeerIp(p, n)
  <2>1. PICK p \in Addr, n \in FriendNumber : SetPeerIp(p, n)
    BY <1>1
  <2> DEFINE r == [network |-> p, friend_number |-> n]
  <2>2. r \in Route /\ routes' = Append(routes, r)
    BY <2>1 DEF Route, SetPeerIp
  <2>3. Alive /\ Alive'
    BY <2>1 DEF SetPeerIp, Alive
  <2>4. UNCHANGED reader_vars
    BY <2>1 DEF SetPeerIp
  <2>5. LookupStatus # "stopped" /\ UNCHANGED LookupStatus
    BY <2>3, <2>4 DEF LookupStatus, reader_vars, IInv, TypeOK, ReaderPC
  <2>6. Table!AddRoute(r)
    BY <2>2, <2>4, <2>5 DEF Table!AddRoute, reader_vars
  <2> QED BY <2>2, <2>6, SameList DEF Table!Next
<1>2. CASE ConfigureExit \/ Return
  <2>1. Alive /\ ~Alive' /\ UNCHANGED <<routes, reader_vars>>
    BY <1>2 DEF ConfigureExit, Return, Alive
  <2>2. LookupStatus # "stopped" /\ LookupStatus' = "stopped"
    BY <2>1 DEF LookupStatus, IInv, TypeOK, ReaderPC
  <2>3. Table!Stop
    BY <2>1, <2>2 DEF Table!Stop, reader_vars
  <2> QED BY <2>3 DEF Table!Next
<1>3. CASE Configure
  <2>1. Alive /\ Alive' /\ UNCHANGED <<routes, packet, route>>
    BY <1>3 DEF Configure, Alive
  <2>2. LookupStatus = "idle" /\ LookupStatus' = "idle"
    BY <1>3, <2>1 DEF Configure, LookupStatus, IInv, PacketHeld
  <2> QED BY <2>1, <2>2 DEF Table!vars
<1>4. CASE EnterLoop \/ SystemRouteSingle \/ IterateDone \/ Kill \/ Interrupt \/ Ended
  <2>1. UNCHANGED <<routes, reader_vars>> /\ Alive' = Alive
    BY <1>4 DEF EnterLoop, SystemRouteSingle, IterateDone, Kill, Interrupt,
         Ended, vars, main_vars, Alive
  <2>2. UNCHANGED LookupStatus
    BY <2>1 DEF LookupStatus, reader_vars
  <2> QED BY <2>1, <2>2 DEF Table!vars, reader_vars
<1> QED BY <1>1, <1>2, <1>3, <1>4 DEF Main

\* the reader asks, finds or does not find, and is done
LEMMA ReaderRefines ==
  ASSUME IInv, Reader
  PROVE  [Table!Next]_(Table!vars)
<1>1. CASE ReadPacket
  <2>1. PICK dest \in Addr : packet'.dest = dest
    BY <1>1 DEF ReadPacket
  <2>2. packet = None /\ packet' # None
    <3>1. reader_pc = "select" /\ reader_pc' = "begin"
      BY <1>1 DEF ReadPacket
    <3>2. IInv'
      BY ReaderInv
    <3> QED BY <3>1, <3>2, NoneAssumption DEF IInv, PacketHeld
  <2>3. LookupStatus = "idle" /\ LookupStatus' = "asked"
    BY <1>1 DEF ReadPacket, LookupStatus, Alive, main_vars
  <2>4. Table!Ask(dest)
    BY <1>1, <2>1, <2>2, <2>3 DEF ReadPacket, Table!Ask
  <2> QED BY <2>4 DEF Table!Next
<1>2. CASE ReadError
  <2>1. Alive /\ ~Alive' /\ UNCHANGED <<routes, reader_vars>>
    BY <1>2 DEF ReadError, Alive
  <2>2. LookupStatus # "stopped" /\ LookupStatus' = "stopped"
    BY <2>1 DEF LookupStatus, IInv, TypeOK, ReaderPC
  <2>3. Table!Stop
    BY <2>1, <2>2 DEF Table!Stop, reader_vars
  <2> QED BY <2>3 DEF Table!Next
<1>3. CASE FindBegin
  <2>1. Alive /\ Alive' /\ UNCHANGED <<routes, packet, route>> /\ packet # None
    BY <1>3, NoneAssumption DEF FindBegin, Alive, main_vars, IInv, PacketHeld
  <2>2. CASE routes = <<>>
    <3>1. LookupStatus = "asked" /\ LookupStatus' = "notfound"
      BY <1>3, <2>1, <2>2 DEF FindBegin, LookupStatus
    <3>2. FirstMatch(routes, packet.dest) = {}
      BY <2>2 DEF FirstMatch
    <3>3. Table!NotFound
      BY <2>1, <3>1, <3>2, SameList DEF Table!NotFound
    <3> QED BY <3>3 DEF Table!Next
  <2>3. CASE routes # <<>>
    <3>1. LookupStatus = "asked" /\ LookupStatus' = "asked"
      BY <1>3, <2>1, <2>3 DEF FindBegin, LookupStatus, End
    <3> QED BY <2>1, <3>1 DEF Table!vars
  <2> QED BY <2>2, <2>3
<1>4. CASE FindHit
  <2>1. Alive /\ Alive' /\ UNCHANGED <<routes, packet>> /\ packet # None
    BY <1>4, NoneAssumption DEF FindHit, Alive, main_vars, IInv, PacketHeld
  <2>2. LookupStatus = "asked" /\ LookupStatus' = "found"
    BY <1>4, <2>1 DEF FindHit, LookupStatus
  <2>3. route' \in FirstMatch(routes, packet.dest)
    <3>1. reader_pc' = "forward"
      BY <1>4 DEF FindHit
    <3>2. IInv'
      BY ReaderInv
    <3> QED BY <2>1, <3>1, <3>2 DEF IInv, Walk, FirstMatchForwarded
  <2>4. Table!Found
    BY <2>1, <2>2, <2>3, SameList DEF Table!Found
  <2> QED BY <2>4 DEF Table!Next
<1>5. CASE FindNext
  <2>1. Alive /\ Alive' /\ UNCHANGED <<routes, packet, route>> /\ packet # None
    BY <1>5, NoneAssumption DEF FindNext, Alive, main_vars, IInv, PacketHeld
  <2>2. routes \in Seq(Route) /\ cursor \in 1 .. Len(routes)
    BY <1>5 DEF FindNext, IInv, TypeOK, Walk, End
  <2>3. CASE cursor = Len(routes)
    <3>1. LookupStatus = "asked" /\ LookupStatus' = "notfound"
      BY <1>5, <2>1, <2>3 DEF FindNext, LookupStatus
    <3>2. \A k \in 1 .. Len(routes) : ~Matches(routes[k], packet.dest)
      <4>1. \A k \in 1 .. cursor - 1 : ~Matches(routes[k], packet.dest)
        BY <1>5 DEF FindNext, IInv, Walk
      <4>2. \A k \in 1 .. Len(routes) : k \in 1 .. cursor - 1 \/ k = cursor
        BY <2>2, <2>3
      <4> QED BY <1>5, <4>1, <4>2 DEF FindNext
    <3>3. FirstMatch(routes, packet.dest) = {}
      BY <2>2, <3>2, NoMatchNoNetwork
    <3>4. Table!NotFound
      BY <2>1, <3>1, <3>3, SameList DEF Table!NotFound
    <3> QED BY <3>4 DEF Table!Next
  <2>4. CASE cursor # Len(routes)
    <3>1. cursor' = cursor + 1 /\ cursor' # End
      BY <1>5, <2>2, <2>4 DEF FindNext, End
    <3>2. LookupStatus = "asked" /\ LookupStatus' = "asked"
      BY <1>5, <2>1, <3>1 DEF FindNext, LookupStatus
    <3> QED BY <2>1, <3>2 DEF Table!vars
  <2> QED BY <2>3, <2>4
<1>6. CASE FindEnd
  <2>1. Alive /\ Alive' /\ UNCHANGED routes /\ packet' = None /\ route' = None
    BY <1>6 DEF FindEnd, Alive, main_vars, IInv, PacketHeld
  <2>2. LookupStatus = "notfound" /\ LookupStatus' = "idle"
    BY <1>6, <2>1 DEF FindEnd, LookupStatus
  <2>3. Table!Done
    BY <2>1, <2>2 DEF Table!Done
  <2> QED BY <2>3 DEF Table!Next
<1>7. CASE ForwardPacket
  <2>1. CASE packet' = None /\ route' = None /\ reader_pc' = "select" /\ UNCHANGED main_pc
    <3>1. Alive /\ Alive' /\ UNCHANGED routes
      BY <1>7, <2>1 DEF ForwardPacket, Alive
    <3>2. LookupStatus = "found" /\ LookupStatus' = "idle"
      BY <1>7, <2>1, <3>1 DEF ForwardPacket, LookupStatus
    <3>3. Table!Done
      BY <2>1, <3>1, <3>2 DEF Table!Done
    <3> QED BY <3>3 DEF Table!Next
  <2>2. CASE main_pc' = "crashed" /\ UNCHANGED <<packet, route, reader_pc>>
    <3>1. Alive /\ ~Alive' /\ UNCHANGED <<routes, packet, route>>
      BY <1>7, <2>2 DEF ForwardPacket, Alive
    <3>2. LookupStatus = "found" /\ LookupStatus' = "stopped"
      BY <1>7, <3>1 DEF ForwardPacket, LookupStatus
    <3>3. Table!Stop
      BY <3>1, <3>2 DEF Table!Stop
    <3> QED BY <3>3 DEF Table!Next
  <2> QED BY <1>7, <2>1, <2>2 DEF ForwardPacket
<1> QED BY <1>1, <1>2, <1>3, <1>4, <1>5, <1>6, <1>7 DEF Reader

\* findRoute, which walks the list without a lock while main adds to it,
\* implements the table whose lookups happen at one instant.
THEOREM Refinement == Spec => LookupsAtomic
<1>1. IInv /\ [Next]_vars => [Table!Next]_(Table!vars)
  <2> SUFFICES ASSUME IInv, [Next]_vars PROVE [Table!Next]_(Table!vars)
    OBVIOUS
  <2>1. CASE Main \/ Interrupt \/ Ended
    BY <2>1, MainRefines
  <2>2. CASE Reader
    BY <2>2, ReaderRefines
  <2>3. CASE UNCHANGED vars
    BY <2>3 DEF Table!vars, vars, main_vars, reader_vars, LookupStatus, Alive
  <2> QED BY <2>1, <2>2, <2>3 DEF Next
<1>2. Init => Table!Init
  BY TableInit
<1> QED BY <1>1, <1>2, Invariance, PTL DEF Spec, LookupsAtomic, Table!Spec
=============================================================================
