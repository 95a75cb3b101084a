---------------------------- MODULE FriendStore ----------------------------
(***************************************************************************)
(* What a node remembers: its identity and its friends, in toxcore's       *)
(* memory while it runs and in the file "savedata" between two runs.       *)
(*                                                                         *)
(* All of it happens in the main thread (src/src/main.cpp, control.cpp):   *)
(* commands and toxcore's callbacks change the friends and most of them    *)
(* call saveState, which truncates the file and then writes it.  The       *)
(* process may die between any two steps: SIGTERM and SIGKILL are not      *)
(* handled, the reader thread may exit(-2), an assertion may fail.         *)
(*                                                                         *)
(* main takes any failure to open savedata for its absence: a node whose   *)
(* file is there but cannot be opened (another user's after -u, an I/O     *)
(* error) runs blind, as a new node, and its first saveState truncates     *)
(* what was kept.                                                          *)
(*                                                                         *)
(* toxcore is external: a friend's number is the first free one when it is *)
(* added, loading renumbers the friends without holes and in order, and    *)
(* savedata that was cut short is rejected (TOX_ERR_NEW_LOAD_BAD_FORMAT).  *)
(***************************************************************************)
EXTENDS Naturals, Sequences, FiniteSets

CONSTANTS Key,          \* public keys of possible friends
          NoKey,        \* a friend number that is not in use
          AutoFriends,  \* the -a options, in order
          NDEBUG,       \* assertions compiled out
          Identity,     \* identities toxcore may generate
          NoIdentity,   \* no toxcore, no savedata
          MaxFriends    \* bound: friend numbers in use at once

ASSUME NoKeyAssumption == NoKey \notin Key
ASSUME AutoFriendsAssumption == AutoFriends \in Seq(Key)
ASSUME NDEBUGAssumption == NDEBUG \in BOOLEAN
ASSUME NoIdentityAssumption == NoIdentity \notin Identity
ASSUME MaxFriendsAssumption == MaxFriends \in Nat

Number == 0 .. MaxFriends - 1
FriendList == [Number -> Key \cup {NoKey}]
NoFriends == [n \in Number |-> NoKey]

\* the keys of a friend list
Friends(list) == {list[n] : n \in Number} \ {NoKey}

\* the number tox_friend_add gives: none when the bound is reached
FirstFree(list) ==
  {n \in Number : list[n] = NoKey /\ \A m \in 0 .. n - 1 : list[m] # NoKey}

\* how many friends have a smaller number: a friend's number after loading
Rank(list, n) == Cardinality({m \in 0 .. n - 1 : list[m] # NoKey})

\* mistake: loading stops at the first number that is not in use
CompactToHole(list) ==
  [n \in Number |-> IF \A m \in 0 .. n : list[m] # NoKey THEN list[n] ELSE NoKey]

\* the list that loading what was saved of list gives
Compact(list) ==
  [n \in Number |->
     IF \E m \in Number : list[m] # NoKey /\ Rank(list, m) = n
     THEN list[CHOOSE m \in Number : list[m] # NoKey /\ Rank(list, m) = n]
     ELSE NoKey]

VARIABLES
  pc,            \* main thread: where it is
  friends,       \* toxcore's friend list
  self,          \* toxcore's own identity
  blind,         \* this process could not open the savedata there was, and has
                 \* not truncated it yet
  auto,          \* add_auto_friends: index of the next one
  need_save,     \* add_auto_friends: one was added
  saves,         \* calls of saveState still to make before main goes on
  after,         \* where main goes on
  fd,            \* saveState: open succeeded
  file,          \* savedata: "absent", "torn" (empty or cut short), "whole"
  saved_self,    \* what a whole file holds
  saved_friends,
  known_self,    \* history: the identity of the last completed saveState
  intent         \* history: what the node was told of each key; "friend"
                 \* and "gone" once a saveState that covers it has returned.
                 \* Both forget a profile that a blind process truncates

memory == <<friends, self, blind>>
disk == <<file, saved_self, saved_friends>>
local == <<auto, need_save, saves, after, fd>>
history == <<known_self, intent>>
vars == <<pc, memory, disk, local, history>>

Running == pc \notin {"down", "refused"}

Init ==
  /\ pc = "down"
  /\ friends = NoFriends
  /\ self = NoIdentity
  /\ blind = FALSE
  /\ auto = 1
  /\ need_save = FALSE
  /\ saves = 0
  /\ after = "loop"
  /\ fd = FALSE
  /\ file = "absent"
  /\ saved_self = NoIdentity
  /\ saved_friends = NoFriends
  /\ known_self = NoIdentity
  /\ intent = [k \in Key |-> "unknown"]
-----------------------------------------------------------------------------
(* Starting and ending the process *)

\* mistake: savedata that is rejected is ignored
StartFreshAnyway ==
  /\ ~Running
  /\ file # "whole"
  /\ self' \in Identity \ {known_self}
  /\ friends' = NoFriends
  /\ blind' = FALSE
  /\ pc' = "loop"
  /\ UNCHANGED <<disk, local, history>>

\* main, open(savedata) fails, whether there is one or not: toxcore generates
\* an identity, another one than the node had; it is not saved yet
StartFresh ==
  /\ ~Running
  /\ self' \in Identity \ {known_self}
  /\ friends' = NoFriends
  /\ blind' = (file # "absent")
  /\ pc' = "loop"
  /\ UNCHANGED <<disk, local, history>>

\* main, savedata loaded by tox_new
StartLoad ==
  /\ ~Running
  /\ file = "whole"
  /\ self' = saved_self
  /\ friends' = Compact(saved_friends)
  /\ blind' = FALSE
  /\ pc' = "loop"
  /\ UNCHANGED <<disk, local, history>>

\* main, savedata rejected: both calls of tox_new fail, return 2
StartRefused ==
  /\ ~Running
  /\ file = "torn"
  /\ pc' = "refused"
  /\ UNCHANGED <<memory, disk, local, history>>

\* memory is gone, the file is as it was
Die ==
  /\ pc' = "down"
  /\ friends' = NoFriends
  /\ self' = NoIdentity
  /\ blind' = FALSE
  /\ auto' = 1
  /\ need_save' = FALSE
  /\ saves' = 0
  /\ after' = "loop"
  /\ fd' = FALSE

Crash ==
  /\ Running
  /\ Die
  /\ UNCHANGED <<disk, history>>

\* mistake: tox_kill without saveState
ShutdownUnsaved ==
  /\ pc = "loop"
  /\ pc' = "killed"
  /\ UNCHANGED <<memory, disk, local, history>>

\* SIGINT was caught, the loop ends: saveState, then tox_kill
Shutdown ==
  /\ pc = "loop"
  /\ pc' = "open"
  /\ saves' = 1
  /\ after' = "killed"
  /\ UNCHANGED <<memory, disk, auto, need_save, fd, history>>

\* return 0
Return ==
  /\ pc = "killed"
  /\ Die
  /\ UNCHANGED <<disk, history>>
-----------------------------------------------------------------------------
(* What changes the friends *)

\* call saveState once and go on with the loop
SaveOnce ==
  /\ pc' = "open"
  /\ saves' = 1
  /\ after' = "loop"
  /\ UNCHANGED <<auto, need_save, fd>>

\* tox_friend_add or tox_friend_add_norequest succeeds for k
AddKey(k) ==
  /\ k \notin Friends(friends)
  /\ \E n \in FirstFree(friends) : friends' = [friends EXCEPT ![n] = k]
  /\ intent' = [intent EXCEPT ![k] = "unknown"]
  /\ UNCHANGED <<self, blind, known_self>>

\* mistake: the new friend is left to the next save
AddUnsaved(k) ==
  /\ pc = "loop"
  /\ AddKey(k)
  /\ UNCHANGED <<pc, disk, local>>

\* "add" and "whitelist", successful: saved at once
Add(k) ==
  /\ pc = "loop"
  /\ AddKey(k)
  /\ SaveOnce
  /\ UNCHANGED disk

\* Nothing of the friends changes, saveState is called: a failed
\* "whitelist", a friend request, a friend's status message.  (A failed
\* "add" changes nothing and does not save.)
JustSave ==
  /\ pc = "loop"
  /\ SaveOnce
  /\ UNCHANGED <<memory, disk, history>>

\* "remove": tox_friend_delete; saveState is not called.  A number that is
\* not in use, or a word that is no number, deletes nothing or whatever
\* number friendid happens to hold.
Remove(n) ==
  /\ pc = "loop"
  /\ friends[n] # NoKey
  /\ friends' = [friends EXCEPT ![n] = NoKey]
  /\ intent' = [intent EXCEPT ![friends[n]] = "removed"]
  /\ UNCHANGED <<pc, self, blind, disk, local, known_self>>

\* connection_status: offline saves, online adds the auto friends first
ConnectionStatus(online) ==
  /\ pc = "loop"
  /\ IF online
       THEN /\ pc' = "auto"
            /\ auto' = 1
            /\ need_save' = FALSE
            /\ UNCHANGED <<saves, after, fd>>
       ELSE SaveOnce
  /\ UNCHANGED <<memory, disk, history>>

\* add_auto_friends, one turn of its loop: added, or refused (already a
\* friend, bad checksum, any other error)
AddAutoFriend ==
  /\ pc = "auto"
  /\ auto <= Len(AutoFriends)
  /\ \/ AddKey(AutoFriends[auto]) /\ need_save' = TRUE
     \/ UNCHANGED <<memory, history, need_save>>
  /\ auto' = auto + 1
  /\ UNCHANGED <<pc, disk, saves, after, fd>>

\* mistake: one saveState per auto friend and connection_status's own
AutoFriendsDoneOneByOne ==
  /\ pc = "auto"
  /\ auto > Len(AutoFriends)
  /\ saves' = Len(AutoFriends) + 1
  /\ after' = "loop"
  /\ pc' = "open"
  /\ UNCHANGED <<memory, disk, auto, need_save, fd, history>>

\* if(need_save) saveState, and connection_status's own saveState
AutoFriendsDone ==
  /\ pc = "auto"
  /\ auto > Len(AutoFriends)
  /\ saves' = IF need_save THEN 2 ELSE 1
  /\ after' = "loop"
  /\ pc' = "open"
  /\ UNCHANGED <<memory, disk, auto, need_save, fd, history>>
-----------------------------------------------------------------------------
(* saveState *)

\* mistake: open(O_WRONLY | O_CREAT), what a short write does not reach stays
OpenKeeps ==
  /\ pc = "open"
  /\ fd' \in BOOLEAN
  /\ pc' = "write"
  /\ UNCHANGED <<memory, disk, auto, need_save, saves, after, history>>

\* history: a blind process gives up the identity and the friends of the file
Overwrite ==
  /\ blind' = FALSE
  /\ known_self' = IF blind THEN NoIdentity ELSE known_self
  /\ intent' = [k \in Key |-> IF blind /\ intent[k] = "friend" THEN "unknown"
                              ELSE intent[k]]

\* open(O_TRUNC | O_WRONLY | O_CREAT): what the file held is gone, or the
\* open fails.  assert(fd) holds for the -1 of a failed open.
OpenTruncate ==
  /\ pc = "open"
  /\ \/ /\ fd' = TRUE
        /\ file' = "torn"
        /\ saved_self' = NoIdentity
        /\ saved_friends' = NoFriends
        /\ Overwrite
     \/ /\ fd' = FALSE
        /\ UNCHANGED <<blind, disk, history>>
  /\ pc' = "write"
  /\ UNCHANGED <<friends, self, auto, need_save, saves, after>>

\* saveState returns: the next call of it, or on with the program
SaveReturns ==
  /\ saves' = saves - 1
  /\ pc' = IF saves > 1 THEN "open" ELSE after
  /\ known_self' = IF saves > 1 THEN known_self ELSE self
  /\ intent' = IF saves > 1 THEN intent
               ELSE [k \in Key |-> IF k \in Friends(friends) THEN "friend"
                                   ELSE IF intent[k] = "removed" THEN "gone"
                                   ELSE intent[k]]
  /\ UNCHANGED <<memory, auto, need_save, after, fd>>

\* write takes all of it
WriteWhole ==
  /\ pc = "write"
  /\ fd
  /\ file' = "whole"
  /\ saved_self' = self
  /\ saved_friends' = friends
  /\ SaveReturns

\* write takes a part: assert(written > 0) holds
WriteShort ==
  /\ pc = "write"
  /\ fd
  /\ SaveReturns
  /\ UNCHANGED disk

\* write fails: assert(written > 0) aborts, if it was compiled
WriteFails ==
  /\ pc = "write"
  /\ \/ NDEBUG /\ SaveReturns
     \/ ~NDEBUG /\ Die /\ UNCHANGED history
  /\ UNCHANGED disk
-----------------------------------------------------------------------------
Next ==
  \/ StartFresh
  \/ StartLoad
  \/ StartRefused
  \/ Crash
  \/ Shutdown
  \/ Return
  \/ \E k \in Key : Add(k)
  \/ JustSave
  \/ \E n \in Number : Remove(n)
  \/ \E online \in BOOLEAN : ConnectionStatus(online)
  \/ AddAutoFriend
  \/ AutoFriendsDone
  \/ OpenTruncate
  \/ WriteWhole
  \/ WriteShort
  \/ WriteFails

Spec == Init /\ [][Next]_vars
-----------------------------------------------------------------------------
(* Properties *)

TypeOK ==
  /\ pc \in {"down", "refused", "loop", "auto", "open", "write", "killed"}
  /\ friends \in FriendList
  /\ self \in Identity \cup {NoIdentity}
  /\ blind \in BOOLEAN
  /\ auto \in 1 .. Len(AutoFriends) + 1
  /\ need_save \in BOOLEAN
  /\ saves \in 0 .. 2
  /\ after \in {"loop", "killed"}
  /\ fd \in BOOLEAN
  /\ file \in {"absent", "torn", "whole"}
  /\ saved_self \in Identity \cup {NoIdentity}
  /\ saved_friends \in FriendList
  /\ known_self \in Identity \cup {NoIdentity}
  /\ intent \in [Key -> {"unknown", "friend", "removed", "gone"}]

\* Back in its loop, the node has every friend it has in memory in a whole
\* savedata too: no addition waits for a later event to be saved.
AddedFriendsSaved ==
  pc = "loop" /\ file # "torn" => Friends(friends) \subseteq Friends(saved_friends)

\* A friend whose addition was followed by a completed saveState is a friend
\* whenever the node runs, across crashes at any point of a later save and
\* restarts, until it is removed; a blind process runs without it, and it is
\* given up when that process truncates the file, not before.
SavedFriendsKept ==
  Running /\ ~blind => \A k \in Key : intent[k] = "friend" => k \in Friends(friends)

\* A friend whose removal was followed by a completed saveState, "remove"
\* itself makes none, is no friend whenever the node runs, until it is added again.
SavedRemovalsKept ==
  Running => \A k \in Key : intent[k] = "gone" => k \notin Friends(friends)

\* After a first completed saveState the node runs under the saved identity or does
\* not start, also after blind processes, until one of them truncates the file.
IdentityKept ==
  Running /\ known_self # NoIdentity => self = known_self \/ blind

\* When the loop has ended and toxcore is about to be freed the file holds
\* what memory holds, removals included, or was cut by a short write.
ShutdownSaves ==
  pc = "killed" => \/ file = "torn"
                   \/ file = "whole" /\ saved_self = self /\ saved_friends = friends

\* the profile in memory and the one a start that opens savedata takes
Current == {p \in {[identity |-> self, friends |-> Friends(friends)]} : Running}
Usable ==
  IF file = "absent" THEN {}
  ELSE {p \in {[identity |-> saved_self, friends |-> Friends(saved_friends)]} : file = "whole"}

Profile == INSTANCE NodeProfile WITH current <- Current, usable <- Usable

\* Seen from outside, as an identity and a set of friends, the node behaves
\* as NodeProfile: numbers, holes, renumbering at load and the steps of
\* saveState change nothing but when the kept profile is lost, and a blind
\* start loses nothing by itself.
ProfileOutlivesCrashes == Profile!Spec

\* "remove <number> - removes a friend" says the help text: a key that was
\* removed is not a friend until it is added again.
RemovedStaysRemoved ==
  Running => \A k \in Key : intent[k] \in {"removed", "gone"} => k \notin Friends(friends)

\* "Now kill and restart" says tcp_acl_demo.sh: a node that is killed can be
\* started again.
NeverRefused == pc # "refused"
=============================================================================
