---------------------------- MODULE PeerRouting ----------------------------
(***************************************************************************)
(* Friends and routes together: whether a packet for an address goes to    *)
(* the friend that announced the address.                                  *)
(*                                                                         *)
(* Composes FriendStore (friends by number, savedata, crash and restart)   *)
(* with RouteTable, the lookup at one instant that NetworkInterface is     *)
(* proved to implement.  A route names its friend by number only, and      *)
(* removePeer, which "remove" and a friend going offline call, is empty:   *)
(* routes live as long as the process, numbers do not.                     *)
(***************************************************************************)
EXTENDS FriendStore

CONSTANTS Addr,      \* addresses friends announce
          None,      \* no question, no answer
          MaxRoutes  \* bound: routes added while one process runs

ASSUME MaxRoutesAssumption == MaxRoutes \in Nat

VARIABLES
  table, status, question, answer,  \* of RouteTable
  owners,  \* history: owners[i] announced table[i]
  freed    \* history: numbers whose friend was removed since the start

Table == INSTANCE RouteTable WITH FriendNumber <- Number

routing == <<table, status, question, answer, owners, freed>>
routingVars == <<vars, routing>>

Route == Table!Route

RoutingInit ==
  /\ Init
  /\ table = <<>>
  /\ status = "stopped"
  /\ question = None
  /\ answer = None
  /\ owners = <<>>
  /\ freed = {}
-----------------------------------------------------------------------------
\* mistake: the table refuses routes until a reader exists
BootStopped ==
  /\ table' = <<>>
  /\ status' = "stopped"
  /\ question' = None
  /\ answer' = None
  /\ owners' = <<>>
  /\ freed' = {}

\* A new process starts with an empty list and, in configure, a reader.
Boot ==
  /\ table' = <<>>
  /\ status' = "idle"
  /\ question' = None
  /\ answer' = None
  /\ owners' = <<>>
  /\ freed' = {}

\* mistake: the number of the friend before
MyFriendStatusCallbackBefore(n, ip) ==
  /\ friends[n] # NoKey
  /\ n > 0
  /\ Len(table) < MaxRoutes
  /\ JustSave
  /\ Table!AddRoute([network |-> ip, friend_number |-> n - 1])
  /\ owners' = Append(owners, friends[n])
  /\ UNCHANGED freed

\* mistake: an address announced anew takes over the route it had
MyFriendStatusCallbackReplaces(n, ip) ==
  /\ friends[n] # NoKey
  /\ Len(table) < MaxRoutes
  /\ JustSave
  /\ status # "stopped"
  /\ table' = Append([i \in DOMAIN table |->
                       IF table[i].network = ip
                       THEN [network |-> ip, friend_number |-> n] ELSE table[i]],
                     [network |-> ip, friend_number |-> n])
  /\ owners' = Append([i \in DOMAIN table |->
                        IF table[i].network = ip THEN friends[n] ELSE owners[i]],
                      friends[n])
  /\ UNCHANGED <<status, question, answer, freed>>

\* the status message of friend n names ip: setPeerIp, then saveState
MyFriendStatusCallback(n, ip) ==
  /\ friends[n] # NoKey
  /\ Len(table) < MaxRoutes
  /\ JustSave
  /\ Table!AddRoute([network |-> ip, friend_number |-> n])
  /\ owners' = Append(owners, friends[n])
  /\ UNCHANGED freed

\* "remove": tox_friend_delete, and removePeer, which does nothing
RemoveFriend(n) ==
  /\ Remove(n)
  /\ freed' = freed \cup {n}
  /\ UNCHANGED <<table, status, question, answer, owners>>

\* FriendConnectionUpdate, friend n went offline: removePeer does nothing
WentOffline(n) ==
  /\ pc = "loop"
  /\ friends[n] # NoKey
  /\ UNCHANGED routingVars

\* the other steps of main: the threads start and end with the process
MainStep ==
  /\ \/ StartFresh \/ StartLoad \/ StartRefused \/ Crash \/ Shutdown \/ Return
     \/ \E k \in Key : Add(k)
     \/ JustSave
     \/ \E online \in BOOLEAN : ConnectionStatus(online)
     \/ AddAutoFriend \/ AutoFriendsDone
     \/ OpenTruncate \/ WriteWhole \/ WriteShort \/ WriteFails
  /\ \/ ~Running /\ Running' /\ Boot
     \/ Running /\ ~Running' /\ Table!Stop /\ UNCHANGED <<owners, freed>>
     \/ Running' = Running /\ UNCHANGED routing

\* the reader thread: a packet for peer arrives, is looked up, and is handed
\* to toxcore under the friend number of the answer or reported
ReaderStep ==
  /\ Running
  /\ \/ \E peer \in Addr : Table!Ask(peer)
     \/ Table!Found
     \/ Table!NotFound
     \/ Table!Done
  /\ UNCHANGED <<vars, owners, freed>>

RoutingNext ==
  \/ \E n \in Number, ip \in Addr : MyFriendStatusCallback(n, ip)
  \/ \E n \in Number : RemoveFriend(n)
  \/ \E n \in Number : WentOffline(n)
  \/ MainStep
  \/ ReaderStep

RoutingSpec == RoutingInit /\ [][RoutingNext]_routingVars
-----------------------------------------------------------------------------
(* Properties *)

RoutingTypeOK ==
  /\ table \in Seq(Route)
  /\ status \in {"stopped", "idle", "asked", "found", "notfound"}
  /\ question \in Addr \cup {None}
  /\ answer \in Route \cup {None}
  /\ owners \in Seq(Key)
  /\ freed \subseteq Number
  /\ Len(owners) = Len(table)
  /\ Running <=> status # "stopped"

\* A route leads to the friend that announced its address as long as that
\* friend's number was not freed: no addition, save, failed save or lookup
\* in between gives the number to another friend.
RouteKeepsOwner ==
  Running => \A i \in DOMAIN table :
               table[i].friend_number \notin freed =>
                 friends[table[i].friend_number] = owners[i]

\* A packet handed to a friend whose number was not freed goes to the friend who
\* was the first to announce the packet's address to this process, whatever main
\* learned, saved or removed since the reader found the route.
FirstAnnouncerReceives ==
  status = "found" /\ answer.friend_number \notin freed =>
    \E i \in DOMAIN table :
      /\ table[i].network = question
      /\ \A k \in 1 .. i - 1 : table[k].network # question
      /\ owners[i] = friends[answer.friend_number]

\* removePeer "remove routes in-app and in-kernel", says its comment: a
\* packet is not sent to a friend who never announced its address.
PacketsReachOwner ==
  status = "found" /\ friends[answer.friend_number] # NoKey =>
    \E i \in DOMAIN table : /\ table[i].network = question
                            /\ owners[i] = friends[answer.friend_number]
=============================================================================
