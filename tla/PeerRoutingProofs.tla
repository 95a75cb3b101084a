------------------------- MODULE PeerRoutingProofs -------------------------
(***************************************************************************)
(* Proofs about PeerRouting, for any keys, addresses, number of friends    *)
(* and of routes, with or without assertions in the build.                 *)
(***************************************************************************)
EXTENDS PeerRouting, FriendStoreProofs

RoutingInv == TypeInv /\ RoutingTypeOK /\ RouteKeepsOwner
-----------------------------------------------------------------------------
(* Lemmas about the list *)

LEMMA AppendFacts ==
  ASSUME NEW S, NEW s \in Seq(S), NEW x \in S
  PROVE  /\ Append(s, x) \in Seq(S)
         /\ Len(Append(s, x)) = Len(s) + 1
         /\ DOMAIN s = 1 .. Len(s)
         /\ DOMAIN Append(s, x) = 1 .. Len(s) + 1
         /\ \A i \in 1 .. Len(s) : Append(s, x)[i] = s[i]
         /\ Append(s, x)[Len(s) + 1] = x
OBVIOUS

\* A route added at the end changes no answer there was.
LEMMA AppendKeepsFirstMatch ==
  ASSUME NEW s \in Seq(Route), NEW r \in Route, NEW ip,
         Table!FirstMatch(s, ip) # {}
  PROVE  Table!FirstMatch(Append(s, r), ip) = Table!FirstMatch(s, ip)
<1> DEFINE t == Append(s, r)
           First(l, j) == /\ j \in DOMAIN l
                          /\ Table!Matches(l[j], ip)
                          /\ \A k \in 1 .. j - 1 : ~Table!Matches(l[k], ip)
<1>1. /\ Len(s) \in Nat
      /\ DOMAIN s = 1 .. Len(s)
      /\ DOMAIN t = 1 .. Len(s) + 1
      /\ \A i \in 1 .. Len(s) : t[i] = s[i]
  BY AppendFacts
<1>2. /\ Table!FirstMatch(s, ip) = {s[j] : j \in {i \in DOMAIN s : First(s, i)}}
      /\ Table!FirstMatch(t, ip) = {t[j] : j \in {i \in DOMAIN t : First(t, i)}}
  BY DEF Table!FirstMatch
<1>3. PICK f \in 1 .. Len(s) : First(s, f)
  BY <1>1, <1>2
<1> HIDE DEF t
<1>4. \A j : First(s, j) <=> First(t, j)
  <2> TAKE j
  <2>1. ASSUME First(s, j) PROVE First(t, j)
    <3>1. j \in 1 .. Len(s) /\ \A k \in 1 .. j - 1 : k \in 1 .. Len(s)
      BY <1>1, <2>1
    <3> QED BY <1>1, <2>1, <3>1
  <2>2. ASSUME First(t, j) PROVE First(s, j)
    <3>1. j \in 1 .. Len(s) + 1
      BY <1>1, <2>2
    <3>2. ~(f < j)
      <4>1. SUFFICES ASSUME f < j PROVE FALSE
        OBVIOUS
      <4>2. f \in 1 .. j - 1
        BY <3>1, <4>1
      <4>3. ~Table!Matches(t[f], ip)
        BY <2>2, <4>2
      <4> QED BY <1>1, <1>3, <4>3
    <3>3. j \in 1 .. Len(s) /\ \A k \in 1 .. j - 1 : k \in 1 .. Len(s)
      BY <3>1, <3>2
    <3> QED BY <1>1, <2>2, <3>3
  <2> QED BY <2>1, <2>2
<1>5. \A j : First(s, j) => s[j] = t[j]
  BY <1>1
<1> HIDE DEF First
<1>6. {s[j] : j \in {i \in DOMAIN s : First(s, i)}} = {t[j] : j \in {i \in DOMAIN t : First(t, i)}}
  <2>1. \A j : First(s, j) => j \in DOMAIN s
    BY DEF First
  <2>2. \A j : First(t, j) => j \in DOMAIN t
    BY DEF First
  <2> QED BY <1>4, <1>5, <2>1, <2>2
<1> QED BY <1>2, <1>6 DEF t
-----------------------------------------------------------------------------
(* Steps of main that leave the friends' owners alone *)

\* Adding a friend takes a number that no friend has.
LEMMA AddKeyKeeps ==
  ASSUME TypeOK, NEW k \in Key, AddKey(k), NEW n \in Number, friends[n] # NoKey
  PROVE  friends'[n] = friends[n]
BY DEF TypeOK, AddKey, FirstFree, FriendList

LEMMA MainStepKeeps ==
  ASSUME TypeInv, MainStep, Running, Running',
         NEW n \in Number, friends[n] # NoKey
  PROVE  friends'[n] = friends[n]
<1>1. CASE \E k \in Key : Add(k)
  BY <1>1, AddKeyKeeps DEF TypeInv, Add
<1>2. CASE AddAutoFriend
  <2>1. CASE AddKey(AutoFriends[auto])
    <3>1. AutoFriends[auto] \in Key
      BY <1>2, AutoFriendsAssumption DEF AddAutoFriend, TypeInv, TypeOK
    <3> QED BY <2>1, <3>1, AddKeyKeeps DEF TypeInv
  <2>2. CASE UNCHANGED memory
    BY <2>2 DEF memory
  <2> QED BY <1>2, <2>1, <2>2 DEF AddAutoFriend
<1>3. CASE WriteFails
  BY <1>3 DEF WriteFails, SaveReturns, Die, Running, memory
<1>4. CASE \/ StartFresh \/ StartLoad \/ StartRefused \/ Crash \/ Return
  BY <1>4 DEF StartFresh, StartLoad, StartRefused, Crash, Return, Die, Running
<1>5. CASE \/ Shutdown \/ JustSave \/ AutoFriendsDone \/ OpenTruncate
           \/ WriteWhole \/ WriteShort
           \/ \E online \in BOOLEAN : ConnectionStatus(online)
  <2>1. friends' = friends
    BY <1>5 DEF Shutdown, JustSave, AutoFriendsDone, OpenTruncate, WriteWhole,
         WriteShort, ConnectionStatus, SaveReturns, memory
  <2> QED BY <2>1
<1> QED BY <1>1, <1>2, <1>3, <1>4, <1>5 DEF MainStep
-----------------------------------------------------------------------------
(* The invariant *)

LEMMA RoutingInitInv == RoutingInit => RoutingInv
<1> SUFFICES ASSUME RoutingInit PROVE RoutingInv
  OBVIOUS
<1>1. TypeInv
  BY TypeInit DEF RoutingInit
<1>2. ~Running
  BY DEF RoutingInit, Init, Running
<1>3. RoutingTypeOK
  <2>1. <<>> \in Seq(Route) /\ <<>> \in Seq(Key) /\ Len(<<>>) = 0
    OBVIOUS
  <2> QED BY <1>2, <2>1 DEF RoutingInit, RoutingTypeOK
<1> QED BY <1>1, <1>2, <1>3 DEF RoutingInv, RouteKeepsOwner

\* A step of the composition is a step of FriendStore or leaves it alone.
LEMMA RoutingNextIsNext == [RoutingNext]_routingVars => [Next]_vars
<1> SUFFICES ASSUME [RoutingNext]_routingVars PROVE Next \/ UNCHANGED vars
  OBVIOUS
<1>1. CASE \E n \in Number, ip \in Addr : MyFriendStatusCallback(n, ip)
  BY <1>1 DEF MyFriendStatusCallback, Next
<1>2. CASE \E n \in Number : RemoveFriend(n)
  BY <1>2 DEF RemoveFriend, Next
<1>3. CASE \E n \in Number : WentOffline(n)
  BY <1>3 DEF WentOffline, routingVars
<1>4. CASE MainStep
  BY <1>4 DEF MainStep, Next
<1>5. CASE ReaderStep
  BY <1>5 DEF ReaderStep
<1>6. CASE UNCHANGED routingVars
  BY <1>6 DEF routingVars
<1> QED BY <1>1, <1>2, <1>3, <1>4, <1>5, <1>6 DEF RoutingNext

LEMMA StatusCallbackInv ==
  ASSUME RoutingInv, NEW n \in Number, NEW ip \in Addr,
         MyFriendStatusCallback(n, ip)
  PROVE  RoutingTypeOK' /\ RouteKeepsOwner'
<1> DEFINE r == [network |-> ip, friend_number |-> n]
<1>1. friends[n] \in Key /\ friends \in FriendList
  BY DEF MyFriendStatusCallback, RoutingInv, TypeInv, TypeOK, FriendList
<1>2. r \in Route
  BY DEF Route, Table!Route
<1>3. /\ table' = Append(table, r)
      /\ owners' = Append(owners, friends[n])
      /\ UNCHANGED <<status, question, answer, freed, friends>>
  BY DEF MyFriendStatusCallback, Table!AddRoute, JustSave, memory
<1>4. Running /\ Running'
  BY DEF MyFriendStatusCallback, JustSave, SaveOnce, Running
<1>5. table \in Seq(Route) /\ owners \in Seq(Key) /\ Len(owners) = Len(table)
  BY DEF RoutingInv, RoutingTypeOK
<1>6. r.friend_number = n
  OBVIOUS
<1> HIDE DEF r
<1>7. /\ table' \in Seq(Route) /\ Len(table') = Len(table) + 1
      /\ DOMAIN table = 1 .. Len(table) /\ DOMAIN table' = 1 .. Len(table) + 1
      /\ \A i \in 1 .. Len(table) : table'[i] = table[i]
      /\ table'[Len(table) + 1] = r
  BY <1>2, <1>3, <1>5, AppendFacts
<1>8. /\ owners' \in Seq(Key) /\ Len(owners') = Len(table) + 1
      /\ \A i \in 1 .. Len(table) : owners'[i] = owners[i]
      /\ owners'[Len(table) + 1] = friends[n]
  BY <1>1, <1>3, <1>5, AppendFacts
<1>9. RoutingTypeOK'
  BY <1>3, <1>4, <1>7, <1>8 DEF RoutingInv, RoutingTypeOK
<1>10. RouteKeepsOwner'
  <2>1. SUFFICES ASSUME NEW i \in 1 .. Len(table) + 1,
                        table'[i].friend_number \notin freed'
                 PROVE  friends'[table'[i].friend_number] = owners'[i]
    BY <1>7 DEF RouteKeepsOwner
  <2>2. CASE i = Len(table) + 1
    BY <1>3, <1>6, <1>7, <1>8, <2>2
  <2>3. CASE i \in 1 .. Len(table)
    BY <1>3, <1>4, <1>7, <1>8, <2>1, <2>3 DEF RoutingInv, RouteKeepsOwner
  <2>4. Len(table) \in Nat
    BY <1>5
  <2> QED BY <2>2, <2>3, <2>4
<1> QED BY <1>9, <1>10

LEMMA RemoveFriendInv ==
  ASSUME RoutingInv, NEW n \in Number, RemoveFriend(n)
  PROVE  RoutingTypeOK' /\ RouteKeepsOwner'
<1>1. /\ friends \in FriendList
      /\ friends' = [friends EXCEPT ![n] = NoKey]
      /\ freed' = freed \cup {n}
      /\ UNCHANGED <<table, status, question, answer, owners, pc>>
  BY DEF RoutingInv, TypeInv, TypeOK, RemoveFriend, Remove
<1>2. Running' = Running
  BY <1>1 DEF Running
<1>3. RoutingTypeOK'
  BY <1>1, <1>2 DEF RoutingInv, RoutingTypeOK
<1>4. \A m : m # n => friends'[m] = friends[m]
  BY <1>1 DEF FriendList
<1> QED BY <1>1, <1>2, <1>3, <1>4 DEF RoutingInv, RouteKeepsOwner

LEMMA MainStepRoutingInv ==
  ASSUME RoutingInv, MainStep
  PROVE  RoutingTypeOK' /\ RouteKeepsOwner'
<1>1. CASE ~Running /\ Running' /\ Boot
  <2>1. <<>> \in Seq(Route) /\ <<>> \in Seq(Key) /\ Len(<<>>) = 0 /\ DOMAIN <<>> = {}
    OBVIOUS
  <2> QED BY <1>1, <2>1 DEF Boot, RoutingTypeOK, RouteKeepsOwner
<1>2. CASE Running /\ ~Running' /\ Table!Stop /\ UNCHANGED <<owners, freed>>
  BY <1>2 DEF Table!Stop, RoutingInv, RoutingTypeOK, RouteKeepsOwner
<1>3. CASE Running' = Running /\ UNCHANGED routing
  <2>1. UNCHANGED <<table, status, question, answer, owners, freed>>
    BY <1>3 DEF routing
  <2>2. RoutingTypeOK'
    BY <1>3, <2>1 DEF RoutingInv, RoutingTypeOK
  <2>3. RouteKeepsOwner'
    <3>1. SUFFICES ASSUME Running, Running', NEW i \in DOMAIN table,
                          table[i].friend_number \notin freed
                   PROVE  friends'[table[i].friend_number] = owners[i]
      BY <1>3, <2>1 DEF RouteKeepsOwner
    <3>2. table[i] \in Route /\ owners[i] \in Key
      BY DEF RoutingInv, RoutingTypeOK
    <3>3. table[i].friend_number \in Number
      BY <3>2 DEF Route, Table!Route
    <3>4. friends[table[i].friend_number] = owners[i]
      BY <3>1 DEF RoutingInv, RouteKeepsOwner
    <3>5. friends[table[i].friend_number] # NoKey
      BY <3>2, <3>4, NoKeyAssumption
    <3>6. friends'[table[i].friend_number] = friends[table[i].friend_number]
      BY <3>1, <3>3, <3>5, MainStepKeeps DEF RoutingInv
    <3> QED BY <3>4, <3>6
  <2> QED BY <2>2, <2>3
<1> QED BY <1>1, <1>2, <1>3 DEF MainStep

LEMMA ReaderStepInv ==
  ASSUME RoutingInv, ReaderStep
  PROVE  RoutingTypeOK' /\ RouteKeepsOwner'
<1>1. UNCHANGED <<pc, friends, table, owners, freed>> /\ Running' = Running
  BY DEF ReaderStep, vars, memory, Running, Table!Ask, Table!Found,
     Table!NotFound, Table!Done
<1>2. /\ status' \in {"idle", "asked", "found", "notfound"}
      /\ question' \in Addr \cup {None}
      /\ answer' \in Route \cup {None}
  <2>1. CASE \E peer \in Addr : Table!Ask(peer)
    BY <2>1 DEF Table!Ask, RoutingInv, RoutingTypeOK
  <2>2. CASE Table!Found
    <3>1. answer' \in {table[i] : i \in DOMAIN table}
      BY <2>2 DEF Table!Found, Table!FirstMatch
    <3>2. answer' \in Route
      BY <3>1 DEF RoutingInv, RoutingTypeOK
    <3> QED BY <2>2, <3>2 DEF Table!Found, RoutingInv, RoutingTypeOK
  <2>3. CASE Table!NotFound \/ Table!Done
    BY <2>3 DEF Table!NotFound, Table!Done, RoutingInv, RoutingTypeOK
  <2> QED BY <2>1, <2>2, <2>3 DEF ReaderStep
<1>3. Running
  BY DEF ReaderStep
<1>4. RoutingTypeOK'
  BY <1>1, <1>2, <1>3 DEF RoutingInv, RoutingTypeOK
<1> QED BY <1>1, <1>4 DEF RoutingInv, RouteKeepsOwner

LEMMA RoutingNextInv == RoutingInv /\ [RoutingNext]_routingVars => RoutingInv'
<1> SUFFICES ASSUME RoutingInv, [RoutingNext]_routingVars PROVE RoutingInv'
  OBVIOUS
<1>1. TypeInv'
  BY RoutingNextIsNext, TypeNext DEF RoutingInv
<1>2. CASE UNCHANGED routingVars
  <2>1. UNCHANGED <<pc, friends, table, status, question, answer, owners, freed>>
    BY <1>2 DEF routingVars, routing, vars, memory
  <2> QED BY <1>1, <2>1 DEF RoutingInv, RoutingTypeOK, RouteKeepsOwner, Running
<1>3. CASE \E n \in Number : WentOffline(n)
  <2>1. UNCHANGED <<pc, friends, table, status, question, answer, owners, freed>>
    BY <1>3 DEF WentOffline, routingVars, routing, vars, memory
  <2> QED BY <1>1, <2>1 DEF RoutingInv, RoutingTypeOK, RouteKeepsOwner, Running
<1>4. CASE \E n \in Number, ip \in Addr : MyFriendStatusCallback(n, ip)
  BY <1>1, <1>4, StatusCallbackInv DEF RoutingInv
<1>5. CASE \E n \in Number : RemoveFriend(n)
  BY <1>1, <1>5, RemoveFriendInv DEF RoutingInv
<1>6. CASE MainStep
  BY <1>1, <1>6, MainStepRoutingInv DEF RoutingInv
<1>7. CASE ReaderStep
  BY <1>1, <1>7, ReaderStepInv DEF RoutingInv
<1> QED BY <1>2, <1>3, <1>4, <1>5, <1>6, <1>7 DEF RoutingNext

LEMMA RoutingInvariance == RoutingSpec => []RoutingInv
BY RoutingInitInv, RoutingNextInv, PTL DEF RoutingSpec
-----------------------------------------------------------------------------
(* Theorems *)

\* The variables of the routing keep their types and a reader thread exists
\* exactly while the process runs.
THEOREM RoutingTypes == RoutingSpec => []RoutingTypeOK
BY RoutingInvariance, PTL DEF RoutingInv

\* As long as the number of a route's friend is not freed by "remove",
\* the route leads to the friend whose status message announced it.
THEOREM OwnersKept == RoutingSpec => []RouteKeepsOwner
BY RoutingInvariance, PTL DEF RoutingInv

\* What is true of every process follows for the composition.
THEOREM StoreInside == RoutingSpec => Spec
<1>1. RoutingInit => Init
  BY DEF RoutingInit
<1> QED BY <1>1, RoutingNextIsNext, PTL DEF RoutingSpec, Spec

\* The answer that the reader holds stays the first match.
FoundFirst == status = "found" => answer \in Table!FirstMatch(table, question)

LEMMA FoundFirstNext ==
  RoutingInv /\ FoundFirst /\ [RoutingNext]_routingVars => FoundFirst'
<1> SUFFICES ASSUME RoutingInv, FoundFirst, [RoutingNext]_routingVars, status' = "found"
             PROVE  answer' \in Table!FirstMatch(table', question')
  BY DEF FoundFirst
<1>1. ASSUME UNCHANGED <<table, status, question, answer>>
      PROVE  answer' \in Table!FirstMatch(table', question')
  BY <1>1 DEF FoundFirst
<1>2. CASE UNCHANGED routingVars \/ \E n \in Number : WentOffline(n) \/ RemoveFriend(n)
  BY <1>1, <1>2 DEF WentOffline, RemoveFriend, routingVars, routing
<1>3. CASE \E n \in Number, ip \in Addr : MyFriendStatusCallback(n, ip)
  <2>1. PICK n \in Number, ip \in Addr : MyFriendStatusCallback(n, ip)
    BY <1>3
  <2>2. /\ table' = Append(table, [network |-> ip, friend_number |-> n])
        /\ UNCHANGED <<status, question, answer>>
    BY <2>1 DEF MyFriendStatusCallback, Table!AddRoute
  <2>3. [network |-> ip, friend_number |-> n] \in Route /\ table \in Seq(Route)
    BY DEF Route, Table!Route, RoutingInv, RoutingTypeOK
  <2>4. answer \in Table!FirstMatch(table, question)
    BY <2>2 DEF FoundFirst
  <2> QED BY <2>2, <2>3, <2>4, AppendKeepsFirstMatch
<1>4. CASE MainStep
  BY <1>1, <1>4 DEF MainStep, Boot, Table!Stop, routing
<1>5. CASE ReaderStep
  BY <1>5 DEF ReaderStep, Table!Ask, Table!Found, Table!NotFound, Table!Done
<1> QED BY <1>2, <1>3, <1>4, <1>5 DEF RoutingNext

\* The reader hands a packet to the friend who was the first to announce its
\* address, if that friend's number was not freed.
THEOREM FirstAnnouncerServed == RoutingSpec => []FirstAnnouncerReceives
<1>1. RoutingInit => FoundFirst
  BY DEF RoutingInit, FoundFirst
<1>2. RoutingSpec => []FoundFirst
  BY <1>1, RoutingInvariance, FoundFirstNext, PTL DEF RoutingSpec
<1>3. ASSUME RoutingInv, FoundFirst PROVE FirstAnnouncerReceives
  <2> SUFFICES ASSUME status = "found", answer.friend_number \notin freed
               PROVE  \E i \in DOMAIN table :
                        /\ table[i].network = question
                        /\ \A k \in 1 .. i - 1 : table[k].network # question
                        /\ owners[i] = friends[answer.friend_number]
    BY DEF FirstAnnouncerReceives
  <2>1. answer \in Table!FirstMatch(table, question)
    BY <1>3 DEF FoundFirst
  <2>2. PICK i \in DOMAIN table : /\ answer = table[i]
                                  /\ Table!Matches(table[i], question)
                                  /\ \A k \in 1 .. i - 1 : ~Table!Matches(table[k], question)
    BY <2>1 DEF Table!FirstMatch
  <2>3. Running
    BY <1>3 DEF RoutingInv, RoutingTypeOK
  <2>4. friends[answer.friend_number] = owners[i]
    BY <1>3, <2>2, <2>3 DEF RoutingInv, RouteKeepsOwner
  <2> QED BY <2>2, <2>4 DEF Table!Matches
<1> QED BY <1>2, <1>3, RoutingInvariance, PTL
=============================================================================
