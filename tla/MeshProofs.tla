----------------------------- MODULE MeshProofs -----------------------------
(***************************************************************************)
(* Proofs about Mesh, for any nodes, friendships and addresses.            *)
(***************************************************************************)
EXTENDS Mesh, TLAPS

\* A route came from an announcement that fits it.
RoutesHeard ==
  \A n \in Node, a \in Addr :
    routes[n][a] # None =>
      <<routes[n][a], a>> \in heard[n] \/ <<routes[n][a], NoIp>> \in heard[n]

\* Who was told heard the address that its friend still runs under, and has a
\* route for it.
ToldKnow ==
  \A m, n \in Node :
    <<m, n>> \in told =>
      /\ <<m, up[m]>> \in heard[n]
      /\ up[m] \in Addr => routes[n][up[m]] # None

\* A node whose kernel refused it nothing has a host route for every route.
RoutesHosted ==
  \A n \in Node, a \in Addr :
    n \notin refused /\ routes[n][a] # None => a \in hosted[n]

\* A node that is down knows nobody.
DownKnowsNobody == \A n \in Node : up[n] = None => routes[n] = NoRoutes

IInv == TypeOK /\ RoutesHeard /\ ToldKnow /\ RoutesHosted /\ DownKnowsNobody

LEMMA InitIInv == Init => IInv
<1> SUFFICES ASSUME Init PROVE IInv
  OBVIOUS
<1>1. TypeOK
  BY DEF Init, TypeOK, NoRoutes
<1>2. RoutesHeard
  BY DEF Init, RoutesHeard, NoRoutes
<1>3. ToldKnow
  BY DEF Init, ToldKnow
<1>4. RoutesHosted
  BY DEF Init, RoutesHosted, NoRoutes
<1>5. DownKnowsNobody
  BY DEF Init, DownKnowsNobody
<1> QED BY <1>1, <1>2, <1>3, <1>4, <1>5 DEF IInv
-----------------------------------------------------------------------------
LEMMA BeginIInv ==
  ASSUME IInv, NEW n \in Node, NEW start \in Given[n], Begin(n, start)
  PROVE  IInv'
<1>1. /\ up[n] = None /\ up' = [up EXCEPT ![n] = start.ip]
      /\ hosted' = [hosted EXCEPT ![n] = start.left]
      /\ working' \in {working, working \cup {n}}
  BY DEF Begin
<1>2. UNCHANGED <<linked, told, routes, refused, heard>>
  BY DEF Begin
<1>3. start.ip \in Ip /\ start.left \in SUBSET Addr /\ start.ip # None
  <2>1. start \in Start
    BY GivenAssumption
  <2> QED BY <2>1, NoneAssumption DEF Start, Ip
<1>4. /\ up \in [Node -> Ip \cup {None}] /\ hosted \in [Node -> SUBSET Addr]
      /\ working \subseteq {k \in Node : up[k] # None}
  BY DEF IInv, TypeOK
<1>5. up'[n] = start.ip /\ \A k \in Node : up[k] # None => up'[k] = up[k]
  BY <1>1, <1>4
<1>6. TypeOK'
  <2>1. up' \in [Node -> Ip \cup {None}] /\ hosted' \in [Node -> SUBSET Addr]
    BY <1>1, <1>3, <1>4
  <2>2. working' \subseteq {k \in Node : up'[k] # None}
    BY <1>1, <1>3, <1>4, <1>5
  <2>3. ASSUME NEW pair \in linked, NEW k \in pair PROVE up'[k] # None
    <3>1. k \in Node /\ up[k] # None
      BY FriendsAssumption DEF IInv, TypeOK
    <3> QED BY <3>1, <1>5
  <2> QED BY <1>2, <2>1, <2>2, <2>3 DEF IInv, TypeOK
<1>7. RoutesHeard'
  BY <1>2 DEF IInv, RoutesHeard
<1>8. ToldKnow'
  <2> SUFFICES ASSUME NEW m \in Node, NEW k \in Node, <<m, k>> \in told
               PROVE  up'[m] = up[m]
    BY <1>2 DEF IInv, ToldKnow
  <2>1. {m, k} \in linked
    BY DEF IInv, TypeOK
  <2>2. up[m] # None
    BY <2>1 DEF IInv, TypeOK
  <2> QED BY <1>5, <2>2
<1>9. RoutesHosted'
  <2> SUFFICES ASSUME NEW k \in Node, NEW a \in Addr, k \notin refused, routes[k][a] # None
               PROVE  a \in hosted'[k]
    BY <1>2 DEF RoutesHosted
  <2>1. k # n
    BY <1>1 DEF IInv, DownKnowsNobody, NoRoutes
  <2> QED BY <1>1, <1>4, <2>1 DEF IInv, RoutesHosted
<1>10. DownKnowsNobody'
  BY <1>1, <1>2, <1>4, <1>5 DEF IInv, DownKnowsNobody
<1> QED BY <1>6, <1>7, <1>8, <1>9, <1>10 DEF IInv

LEMMA EndIInv ==
  ASSUME IInv, NEW n \in Node, End(n)
  PROVE  IInv'
<1> USE DEF IInv, Gone
<1>1. TypeOK'
  <2>1. up' \in [Node -> Ip \cup {None}] /\ linked' \subseteq Friends
    BY DEF End, TypeOK
  <2>2. told' \subseteq Node \X Node /\ heard' \in [Node -> SUBSET (Node \X Ip)]
    BY DEF End, TypeOK
  <2>3. routes' \in [Node -> [Addr -> Node \cup {None}]]
    BY DEF End, TypeOK, NoRoutes
  <2>4. ASSUME NEW pair \in linked', NEW k \in pair PROVE up'[k] # None
    BY FriendsAssumption DEF End, TypeOK
  <2>6. /\ working' \subseteq {k \in Node : up'[k] # None}
        /\ hosted' \in [Node -> SUBSET Addr] /\ refused' \subseteq Node
    BY DEF End, TypeOK
  <2>5. ASSUME NEW t \in told' PROVE {t[1], t[2]} \in linked'
    BY DEF End, TypeOK
  <2> QED BY <2>1, <2>2, <2>3, <2>4, <2>5, <2>6 DEF TypeOK
<1>2. RoutesHeard'
  BY DEF End, TypeOK, RoutesHeard, NoRoutes
<1>3. ToldKnow'
  <2> SUFFICES ASSUME NEW m \in Node, NEW k \in Node, <<m, k>> \in told'
               PROVE  /\ <<m, up'[m]>> \in heard'[k]
                      /\ up'[m] \in Addr => routes'[k][up'[m]] # None
    BY DEF ToldKnow
  <2>1. <<m, k>> \in told /\ m # n /\ k # n
    BY DEF End
  <2>2. up'[m] = up[m] /\ heard'[k] = heard[k] /\ routes'[k] = routes[k]
    BY <2>1 DEF End, TypeOK
  <2> QED BY <2>1, <2>2 DEF ToldKnow
<1>4. RoutesHosted'
  BY DEF End, TypeOK, RoutesHosted, NoRoutes
<1>5. DownKnowsNobody'
  BY DEF End, TypeOK, DownKnowsNobody
<1> QED BY <1>1, <1>2, <1>3, <1>4, <1>5

LEMMA LinkIInv ==
  ASSUME IInv, NEW pair \in Friends, Connect(pair) \/ Disconnect(pair)
  PROVE  IInv'
<1> USE DEF IInv
<1>1. TypeOK'
  <2>1. linked' \subseteq Friends /\ told' \subseteq Node \X Node
    BY DEF Connect, Disconnect, TypeOK
  <2>2. UNCHANGED <<up, routes, working, hosted, refused, heard>>
    BY DEF Connect, Disconnect
  <2>3. ASSUME NEW p \in linked', NEW k \in p PROVE up'[k] # None
    BY DEF Connect, Disconnect, TypeOK
  <2>4. ASSUME NEW t \in told' PROVE {t[1], t[2]} \in linked'
    BY DEF Connect, Disconnect, TypeOK
  <2> QED BY <2>1, <2>2, <2>3, <2>4 DEF TypeOK
<1>2. RoutesHeard'
  BY DEF Connect, Disconnect, RoutesHeard
<1>3. ToldKnow'
  BY DEF Connect, Disconnect, ToldKnow
<1>4. RoutesHosted' /\ DownKnowsNobody'
  BY DEF Connect, Disconnect, RoutesHosted, DownKnowsNobody
<1> QED BY <1>1, <1>2, <1>3, <1>4

\* Adding a route never takes one away, never changes another address's and, unless
\* it is refused, comes with a host route.
LEMMA SetPeerIpRoutes ==
  ASSUME TypeOK, NEW n \in Node, NEW m \in Node, NEW a \in Addr, SetPeerIp(n, a, m)
  PROVE  /\ routes' \in [Node -> [Addr -> Node \cup {None}]]
         /\ routes'[n][a] # None
         /\ \A k \in Node, b \in Addr :
              \/ routes'[k][b] = routes[k][b]
              \/ k = n /\ b = a /\ routes[k][b] = None /\ routes'[k][b] = m
         /\ hosted' \in [Node -> SUBSET Addr] /\ refused' \subseteq Node
         /\ refused \subseteq refused' /\ \A k \in Node : hosted[k] \subseteq hosted'[k]
         /\ n \in refused' \/ a \in hosted'[n]
<1>1. routes \in [Node -> [Addr -> Node \cup {None}]]
  BY DEF TypeOK
<1>2. routes' = [routes EXCEPT ![n] =
                  [routes[n] EXCEPT ![a] = IF routes[n][a] = None THEN m ELSE routes[n][a]]]
  BY <1>1 DEF SetPeerIp, AddRoute
<1>3. m # None
  BY NoneAssumption
<1>4. /\ routes' \in [Node -> [Addr -> Node \cup {None}]]
      /\ routes'[n][a] # None
      /\ \A k \in Node, b \in Addr :
           \/ routes'[k][b] = routes[k][b]
           \/ k = n /\ b = a /\ routes[k][b] = None /\ routes'[k][b] = m
  BY <1>1, <1>2, <1>3
<1>5. /\ hosted' \in [Node -> SUBSET Addr] /\ refused' \subseteq Node
      /\ refused \subseteq refused' /\ \A k \in Node : hosted[k] \subseteq hosted'[k]
      /\ n \in refused' \/ a \in hosted'[n]
  <2>1. hosted \in [Node -> SUBSET Addr] /\ refused \subseteq Node
    BY DEF TypeOK
  <2>2. CASE hosted' = [hosted EXCEPT ![n] = @ \cup {a}] /\ refused' = refused
    <3>1. hosted'[n] = hosted[n] \cup {a} /\ \A k \in Node : k # n => hosted'[k] = hosted[k]
      BY <2>1, <2>2
    <3>2. hosted' \in [Node -> SUBSET Addr]
      BY <2>1, <2>2
    <3> QED BY <2>1, <2>2, <3>1, <3>2
  <2>3. CASE refused' = refused \cup {n} /\ hosted' = hosted
    BY <2>1, <2>3
  <2> QED BY <2>2, <2>3 DEF SetPeerIp, AskKernel
<1> QED BY <1>4, <1>5

LEMMA StatusIInv ==
  ASSUME IInv, NEW n \in Node, NEW m \in Node, StatusCallback(n, m)
  PROVE  IInv'
<1> USE DEF IInv
<1>1. /\ {n, m} \in linked /\ up' = up /\ linked' = linked /\ working' = working
      /\ told' = told \cup {<<m, n>>}
      /\ heard' = [heard EXCEPT ![n] = @ \cup {<<m, up[m]>>}]
  BY DEF StatusCallback, Told
<1>2. up[m] \in Ip
  BY <1>1 DEF TypeOK
<1>3. PICK a : \/ a \in Addr /\ up[m] \in {a, NoIp} /\ SetPeerIp(n, a, m)
               \/ up[m] = NoIp /\ UNCHANGED <<routes, hosted, refused>>
  BY DEF StatusCallback
<1>4. /\ routes' \in [Node -> [Addr -> Node \cup {None}]]
      /\ up[m] \in Addr => routes'[n][up[m]] # None
      /\ \A k \in Node, b \in Addr :
           \/ routes'[k][b] = routes[k][b]
           \/ /\ k = n /\ up[m] \in {b, NoIp}
              /\ routes[k][b] = None /\ routes'[k][b] = m
              /\ (n \in refused' \/ b \in hosted'[n])
      /\ hosted' \in [Node -> SUBSET Addr] /\ refused' \subseteq Node
      /\ refused \subseteq refused' /\ \A k \in Node : hosted[k] \subseteq hosted'[k]
  <2>1. CASE up[m] = NoIp /\ UNCHANGED <<routes, hosted, refused>>
    BY <2>1, NoneAssumption DEF TypeOK
  <2>2. CASE a \in Addr /\ up[m] \in {a, NoIp} /\ SetPeerIp(n, a, m)
    <3>1. /\ routes' \in [Node -> [Addr -> Node \cup {None}]]
          /\ routes'[n][a] # None
          /\ \A k \in Node, b \in Addr :
               \/ routes'[k][b] = routes[k][b]
               \/ k = n /\ b = a /\ routes[k][b] = None /\ routes'[k][b] = m
      BY <2>2, SetPeerIpRoutes
    <3>2. /\ hosted' \in [Node -> SUBSET Addr] /\ refused' \subseteq Node
          /\ refused \subseteq refused' /\ \A k \in Node : hosted[k] \subseteq hosted'[k]
      BY <2>2, SetPeerIpRoutes
    <3>3. n \in refused' \/ a \in hosted'[n]
      BY <2>2, SetPeerIpRoutes
    <3>4. up[m] \in {a, NoIp} /\ NoIp \notin Addr
      BY <2>2, NoneAssumption
    <3>5. up[m] \in Addr => routes'[n][up[m]] # None
      BY <3>1, <3>4
    <3> QED BY <3>1, <3>2, <3>3, <3>4, <3>5
  <2> QED BY <1>3, <2>1, <2>2
<1>5. /\ heard' \in [Node -> SUBSET (Node \X Ip)]
      /\ \A k \in Node : heard[k] \subseteq heard'[k]
      /\ <<m, up[m]>> \in heard'[n]
  BY <1>1, <1>2 DEF TypeOK
<1>6. TypeOK'
  <2>1. ASSUME NEW t \in told' PROVE {t[1], t[2]} \in linked'
    <3>1. CASE t \in told
      BY <3>1, <1>1 DEF TypeOK
    <3>2. CASE t = <<m, n>>
      <4>1. t[1] = m /\ t[2] = n
        BY <3>2
      <4>2. {t[1], t[2]} = {n, m}
        BY <4>1
      <4> QED BY <4>2, <1>1
    <3> QED BY <1>1, <3>1, <3>2
  <2>2. told' \subseteq Node \X Node
    BY <1>1 DEF TypeOK
  <2>3. up' = up /\ linked' = linked
    BY <1>1
  <2>4. working' \subseteq {k \in Node : up'[k] # None}
    BY <1>1 DEF TypeOK
  <2>5. up' \in [Node -> Ip \cup {None}] /\ linked' \subseteq Friends
    BY <2>3 DEF TypeOK
  <2>6. \A pair \in linked' : \A k \in pair : up'[k] # None
    BY <2>3 DEF TypeOK
  <2>7. /\ routes' \in [Node -> [Addr -> Node \cup {None}]]
        /\ hosted' \in [Node -> SUBSET Addr] /\ refused' \subseteq Node
    BY <1>4
  <2>8. heard' \in [Node -> SUBSET (Node \X Ip)]
    BY <1>5
  <2> QED BY <2>1, <2>2, <2>4, <2>5, <2>6, <2>7, <2>8 DEF TypeOK
<1>7. RoutesHeard'
  <2> SUFFICES ASSUME NEW k \in Node, NEW b \in Addr, routes'[k][b] # None
               PROVE  \/ <<routes'[k][b], b>> \in heard'[k]
                      \/ <<routes'[k][b], NoIp>> \in heard'[k]
    BY DEF RoutesHeard
  <2>1. CASE routes'[k][b] = routes[k][b]
    BY <1>5, <2>1 DEF RoutesHeard
  <2>2. CASE k = n /\ up[m] \in {b, NoIp} /\ routes'[k][b] = m
    BY <1>5, <2>2
  <2> QED BY <1>4, <2>1, <2>2
<1>8. ToldKnow'
  <2> SUFFICES ASSUME NEW x \in Node, NEW k \in Node, <<x, k>> \in told'
               PROVE  /\ <<x, up[x]>> \in heard'[k]
                      /\ up[x] \in Addr => routes'[k][up[x]] # None
    <3>1. up' = up
      BY <1>1
    <3> QED BY <3>1 DEF ToldKnow
  <2>1. CASE <<x, k>> \in told
    <3>1. <<x, up[x]>> \in heard[k] /\ (up[x] \in Addr => routes[k][up[x]] # None)
      BY <2>1 DEF ToldKnow
    <3>2. ASSUME up[x] \in Addr PROVE routes'[k][up[x]] # None
      BY <3>1, <3>2, <1>4
    <3> QED BY <3>1, <3>2, <1>5
  <2>2. CASE x = m /\ k = n
    BY <2>2, <1>4, <1>5
  <2>3. <<x, k>> \in told \/ (x = m /\ k = n)
    BY <1>1
  <2> QED BY <2>1, <2>2, <2>3
<1>9. RoutesHosted'
  <2> SUFFICES ASSUME NEW k \in Node, NEW b \in Addr,
                      k \notin refused', routes'[k][b] # None
               PROVE  b \in hosted'[k]
    BY DEF RoutesHosted
  <2>1. CASE routes'[k][b] = routes[k][b]
    <3>1. k \notin refused /\ routes[k][b] # None
      BY <1>4, <2>1
    <3>2. b \in hosted[k]
      BY <3>1 DEF RoutesHosted
    <3> QED BY <1>4, <3>2
  <2>2. CASE k = n /\ (n \in refused' \/ b \in hosted'[n])
    <3>1. n \notin refused'
      BY <2>2
    <3> QED BY <2>2, <3>1
  <2> QED BY <1>4, <2>1, <2>2
<1>10. DownKnowsNobody'
  <2>1. up[n] # None
    BY <1>1 DEF TypeOK
  <2>2. ASSUME NEW k \in Node, k # n PROVE routes'[k] = routes[k]
    BY <1>4, <2>2 DEF TypeOK
  <2> QED BY <1>1, <2>1, <2>2 DEF DownKnowsNobody
<1> QED BY <1>6, <1>7, <1>8, <1>9, <1>10

LEMMA NextIInv == IInv /\ [Next]_vars => IInv'
<1> SUFFICES ASSUME IInv, [Next]_vars PROVE IInv'
  OBVIOUS
<1>1. CASE Next
  BY <1>1, BeginIInv, EndIInv, LinkIInv, StatusIInv DEF Next
<1>2. CASE UNCHANGED vars
  BY <1>2 DEF vars, IInv, TypeOK, RoutesHeard, ToldKnow, RoutesHosted, DownKnowsNobody
<1> QED BY <1>1, <1>2

LEMMA Inductive == Spec => []IInv
BY InitIInv, NextIInv, PTL DEF Spec
-----------------------------------------------------------------------------
\* The variables keep their types, only nodes that are up are connected, and only
\* connected friends have told each other anything.
THEOREM TypeCorrect == Spec => []TypeOK
<1>1. IInv => TypeOK
  BY DEF IInv
<1> QED BY <1>1, Inductive, PTL

\* Whatever kernels and toxcore let through, a packet goes only to a node that
\* announced its address, or a string that is none, to the sender's process.
THEOREM OnlyAnnouncers == Spec => []OnlyAnnouncersReceive
<1>1. IInv => OnlyAnnouncersReceive
  BY DEF IInv, RoutesHeard, OnlyAnnouncersReceive, Addressee
<1> QED BY <1>1, Inductive, PTL

\* A connected friend is reached under the address it runs under, when all addresses
\* are different, both interfaces work and the kernel took the host routes.
THEOREM FriendsAreReached == Spec => []FriendsReached
<1>1. ASSUME IInv PROVE FriendsReached
  <2> SUFFICES ASSUME NEW m \in Node, NEW n \in Node, <<m, n>> \in told, Distinct(n),
                      n \notin refused, {n, m} \subseteq working
               PROVE  Receiver(n, up[m]) = m
    BY <1>1 DEF IInv, TypeOK, FriendsReached
  <2>1. <<m, up[m]>> \in heard[n] /\ {n, m} \in linked
    BY <1>1 DEF IInv, TypeOK, ToldKnow
  <2>2. up[m] \in Addr /\ up[m] # up[n]
    BY <1>1, <2>1 DEF IInv, TypeOK, Distinct, Ip
  <2>3. routes[n][up[m]] # None
    BY <1>1, <2>2 DEF IInv, ToldKnow
  <2>4. <<routes[n][up[m]], up[m]>> \in heard[n]
    BY <1>1, <2>2, <2>3 DEF IInv, RoutesHeard, Distinct
  <2>5. routes[n][up[m]] = m
    BY <2>1, <2>4 DEF Distinct
  <2>6. Addressee(n, up[m]) = m
    BY <2>1, <2>5 DEF Addressee
  <2>7. up[m] \in hosted[n]
    BY <1>1, <2>2, <2>3 DEF IInv, RoutesHosted
  <2> QED BY <2>2, <2>6, <2>7 DEF Receiver
<1> QED BY <1>1, Inductive, PTL
=============================================================================
