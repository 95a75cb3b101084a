------------------------- MODULE FriendStoreProofs -------------------------
(***************************************************************************)
(* Proofs about FriendStore, for any keys, identities, auto friends and    *)
(* number of friends.  The durability theorems are about builds that       *)
(* compile assertions (NDEBUG = FALSE), as the CMake build does: without   *)
(* them a failed write goes unnoticed and the theorems are false.          *)
(***************************************************************************)
EXTENDS FriendStore, FiniteSetTheorems, TLAPS

(* Loading: the friends come back under other numbers, none is lost *)

LEMMA RankBound ==
  ASSUME NEW list \in FriendList, NEW n \in Number
  PROVE  /\ IsFiniteSet({m \in 0 .. n - 1 : list[m] # NoKey})
         /\ Rank(list, n) \in Number
         /\ Rank(list, n) <= n
<1> DEFINE S == {m \in 0 .. n - 1 : list[m] # NoKey}
<1>1. n \in Nat /\ n <= MaxFriends - 1
  BY MaxFriendsAssumption DEF Number
<1>2. IsFiniteSet(0 .. n - 1) /\ Cardinality(0 .. n - 1) = n
  <2>1. 0 \in Int /\ n - 1 \in Int
    BY <1>1
  <2>2. Cardinality(0 .. n - 1) = IF 0 > n - 1 THEN 0 ELSE n - 1 - 0 + 1
    BY <2>1, FS_Interval
  <2>3. IsFiniteSet(0 .. n - 1)
    BY <2>1, FS_Interval
  <2> QED BY <1>1, <2>2, <2>3
<1>3. S \in SUBSET (0 .. n - 1)
  OBVIOUS
<1> HIDE DEF S
<1>4. IsFiniteSet(S) /\ Cardinality(S) <= n
  BY <1>2, <1>3, FS_Subset
<1>5. Cardinality(S) \in Nat
  BY <1>4, FS_CardinalityType
<1>6. Rank(list, n) = Cardinality(S)
  BY DEF Rank, S
<1>7. Rank(list, n) \in Number
  BY <1>1, <1>4, <1>5, <1>6, MaxFriendsAssumption DEF Number
<1>8. IsFiniteSet({m \in 0 .. n - 1 : list[m] # NoKey})
  BY <1>4 DEF S
<1> QED BY <1>4, <1>6, <1>7, <1>8

LEMMA RankGrows ==
  ASSUME NEW list \in FriendList, NEW a \in Number, NEW b \in Number,
         a < b, list[a] # NoKey
  PROVE  Rank(list, a) < Rank(list, b)
<1> DEFINE S == {m \in 0 .. a - 1 : list[m] # NoKey}
           T == {m \in 0 .. b - 1 : list[m] # NoKey}
<1>1. a \in Nat /\ b \in Nat
  BY MaxFriendsAssumption DEF Number
<1>2. a \notin S /\ S \cup {a} \in SUBSET T
  BY <1>1
<1>3. Rank(list, a) = Cardinality(S) /\ Rank(list, b) = Cardinality(T)
  BY DEF Rank
<1>4. IsFiniteSet(S) /\ IsFiniteSet(T)
  BY RankBound
<1> HIDE DEF S, T
<1>5. Cardinality(S \cup {a}) = Cardinality(S) + 1
  BY <1>2, <1>4, FS_AddElement
<1>6. Cardinality(S \cup {a}) <= Cardinality(T)
  BY <1>2, <1>4, FS_Subset
<1>7. Cardinality(S) \in Nat /\ Cardinality(T) \in Nat
  BY <1>4, FS_CardinalityType
<1> QED BY <1>3, <1>5, <1>6, <1>7

\* No two friends are given one number.
LEMMA RankInjective ==
  ASSUME NEW list \in FriendList, NEW a \in Number, NEW b \in Number,
         list[a] # NoKey, list[b] # NoKey, Rank(list, a) = Rank(list, b)
  PROVE  a = b
<1>1. a \in Nat /\ b \in Nat
  BY MaxFriendsAssumption DEF Number
<1>2. Rank(list, a) \in Nat /\ Rank(list, b) \in Nat
  <2>1. Rank(list, a) \in Number /\ Rank(list, b) \in Number
    BY RankBound
  <2> QED BY <2>1, MaxFriendsAssumption DEF Number
<1>3. ~(a < b) /\ ~(b < a)
  BY <1>2, RankGrows
<1> QED BY <1>1, <1>3

\* The friends after loading are the friends that were saved.
THEOREM LoadKeepsFriends ==
  ASSUME NEW list \in FriendList
  PROVE  Compact(list) \in FriendList /\ Friends(Compact(list)) = Friends(list)
<1> DEFINE At(n) == CHOOSE m \in Number : list[m] # NoKey /\ Rank(list, m) = n
<1>1. ASSUME NEW n \in Number, NEW w \in Number, list[w] # NoKey, Rank(list, w) = n
      PROVE  At(n) \in Number /\ list[At(n)] # NoKey /\ Rank(list, At(n)) = n
  BY <1>1
<1>2. ASSUME NEW m \in Number, list[m] # NoKey
      PROVE  Compact(list)[Rank(list, m)] = list[m] /\ Rank(list, m) \in Number
  <2>1. Rank(list, m) \in Number
    BY RankBound
  <2>2. Compact(list)[Rank(list, m)] = list[At(Rank(list, m))]
    BY <1>2, <2>1 DEF Compact
  <2>3. At(Rank(list, m)) = m
    <3>1. /\ At(Rank(list, m)) \in Number
          /\ list[At(Rank(list, m))] # NoKey
          /\ Rank(list, At(Rank(list, m))) = Rank(list, m)
      BY <1>1, <1>2, <2>1
    <3> HIDE DEF At
    <3> QED BY <1>2, <3>1, RankInjective
  <2> QED BY <2>1, <2>2, <2>3
<1>3. ASSUME NEW n \in Number
      PROVE  Compact(list)[n] = NoKey \/ \E m \in Number : Compact(list)[n] = list[m]
  <2>1. CASE \E m \in Number : list[m] # NoKey /\ Rank(list, m) = n
    <3>1. At(n) \in Number
      BY <1>1, <2>1
    <3>2. Compact(list)[n] = list[At(n)]
      BY <2>1 DEF Compact
    <3> QED BY <3>1, <3>2
  <2>2. CASE ~\E m \in Number : list[m] # NoKey /\ Rank(list, m) = n
    BY <2>2 DEF Compact
  <2> QED BY <2>1, <2>2
<1> HIDE DEF At
<1>4. Compact(list) \in FriendList
  <2>1. Compact(list) = [n \in Number |-> Compact(list)[n]]
    BY DEF Compact
  <2>2. \A n \in Number : Compact(list)[n] \in Key \cup {NoKey}
    BY <1>3 DEF FriendList
  <2> QED BY <2>1, <2>2 DEF FriendList
<1>5. Friends(Compact(list)) = Friends(list)
  BY <1>2, <1>3 DEF Friends
<1> QED BY <1>4, <1>5
-----------------------------------------------------------------------------
(* Types, with or without assertions *)

TypeInv == TypeOK /\ (pc \in {"open", "write"} => saves # 0)

LEMMA EmptyList == NoFriends \in FriendList /\ Friends(NoFriends) = {}
BY DEF NoFriends, FriendList, Friends

LEMMA DieType == ASSUME TypeOK, Die,
                        UNCHANGED history, UNCHANGED disk
                 PROVE  TypeInv'
<1>1. 1 \in 1 .. Len(AutoFriends) + 1
  BY AutoFriendsAssumption
<1>2. friends' \in FriendList
  BY EmptyList DEF Die
<1>3. auto' \in 1 .. Len(AutoFriends) + 1 /\ saves' \in 0 .. 2
  BY <1>1 DEF Die
<1>4. /\ pc' = "down" /\ self' = NoIdentity /\ after' = "loop"
      /\ need_save' \in BOOLEAN /\ fd' \in BOOLEAN /\ blind' \in BOOLEAN
  BY DEF Die
<1>5. UNCHANGED <<file, saved_self, saved_friends, known_self, intent>>
  BY DEF history, disk
<1> QED BY <1>2, <1>3, <1>4, <1>5 DEF TypeInv, TypeOK

LEMMA SaveReturnsType ==
  ASSUME TypeInv, SaveReturns, pc = "write",
         file' \in {"absent", "torn", "whole"},
         saved_self' \in Identity \cup {NoIdentity},
         saved_friends' \in FriendList
  PROVE  TypeInv'
<1>1. saves \in 1 .. 2 /\ saves' \in 0 .. 1 /\ (saves > 1 <=> saves' = 1)
  BY DEF TypeInv, TypeOK, SaveReturns
<1>2. pc' \in {"open", "loop", "killed"} /\ (pc' = "open" => saves' # 0)
  BY <1>1 DEF TypeInv, TypeOK, SaveReturns
<1>3. intent' \in [Key -> {"unknown", "friend", "removed", "gone"}]
  BY DEF TypeInv, TypeOK, SaveReturns
<1>4. known_self' \in Identity \cup {NoIdentity}
  BY DEF TypeInv, TypeOK, SaveReturns
<1> QED BY <1>1, <1>2, <1>3, <1>4 DEF TypeInv, TypeOK, SaveReturns, memory

LEMMA AddKeyType ==
  ASSUME TypeOK, NEW k \in Key, AddKey(k)
  PROVE  /\ friends' \in FriendList
         /\ intent' \in [Key -> {"unknown", "friend", "removed", "gone"}]
BY DEF TypeOK, AddKey, FriendList, FirstFree

LEMMA TypeNext == TypeInv /\ [Next]_vars => TypeInv'
<1> SUFFICES ASSUME TypeInv, [Next]_vars PROVE TypeInv'
  OBVIOUS
<1>0. AutoFriends \in Seq(Key) /\ Len(AutoFriends) \in Nat /\ 1 \in 1 .. Len(AutoFriends) + 1
  BY AutoFriendsAssumption
<1>1. CASE StartFresh
  <2>1. blind' \in BOOLEAN /\ friends' \in FriendList
    BY <1>1, EmptyList DEF StartFresh
  <2>2. self' \in Identity /\ pc' = "loop"
    BY <1>1 DEF StartFresh
  <2>3. UNCHANGED <<disk, local, history>>
    BY <1>1 DEF StartFresh
  <2> QED BY <2>1, <2>2, <2>3 DEF TypeInv, TypeOK, disk, local, history
<1>2. CASE StartLoad
  <2>1. Compact(saved_friends) \in FriendList
    BY LoadKeepsFriends DEF TypeInv, TypeOK
  <2> QED BY <1>2, <2>1 DEF StartLoad, TypeInv, TypeOK, disk, local, history
<1>3. CASE StartRefused
  BY <1>3 DEF StartRefused, TypeInv, TypeOK, memory, disk, local, history
<1>4. CASE Crash \/ Return
  BY <1>4, DieType DEF Crash, Return, TypeInv, disk, history
<1>5. CASE Shutdown
  BY <1>5 DEF Shutdown, TypeInv, TypeOK, memory, disk, history
<1>6. CASE \E k \in Key : Add(k)
  <2>1. PICK k \in Key : Add(k)
    BY <1>6
  <2>2. /\ friends' \in FriendList
        /\ intent' \in [Key -> {"unknown", "friend", "removed", "gone"}]
    BY <2>1, AddKeyType DEF Add, TypeInv
  <2>3. pc' = "open" /\ saves' = 1 /\ after' = "loop" /\ UNCHANGED <<auto, need_save, fd>>
    BY <2>1 DEF Add, SaveOnce
  <2>4. UNCHANGED <<self, known_self, file, saved_self, saved_friends>>
    BY <2>1 DEF Add, AddKey, disk
  <2>5. blind' = blind
    BY <2>1 DEF Add, AddKey
  <2> QED BY <2>2, <2>3, <2>4, <2>5 DEF TypeInv, TypeOK
<1>7. CASE JustSave
  BY <1>7 DEF JustSave, SaveOnce, TypeInv, TypeOK, memory, disk, history
<1>8. CASE \E n \in Number : Remove(n)
  <2>1. PICK n \in Number : Remove(n)
    BY <1>8
  <2>2. /\ friends' \in FriendList
        /\ intent' \in [Key -> {"unknown", "friend", "removed", "gone"}]
    BY <2>1 DEF Remove, TypeInv, TypeOK, FriendList
  <2> QED BY <2>1, <2>2 DEF Remove, TypeInv, TypeOK, disk, local
<1>9. CASE \E online \in BOOLEAN : ConnectionStatus(online)
  <2>1. UNCHANGED <<friends, self, blind, file, saved_self, saved_friends, known_self, intent>>
    BY <1>9 DEF ConnectionStatus, memory, disk, history
  <2>2. CASE /\ pc' = "auto" /\ auto' = 1 /\ need_save' = FALSE
             /\ UNCHANGED <<saves, after, fd>>
    <3>1. auto' \in 1 .. Len(AutoFriends) + 1 /\ need_save' \in BOOLEAN
      BY <1>0, <2>2
    <3> QED BY <2>1, <2>2, <3>1 DEF TypeInv, TypeOK
  <2>3. CASE SaveOnce
    BY <2>1, <2>3 DEF SaveOnce, TypeInv, TypeOK
  <2> QED BY <1>9, <2>2, <2>3 DEF ConnectionStatus
<1>10. CASE AddAutoFriend
  <2>1. auto' \in 1 .. Len(AutoFriends) + 1
    BY <1>0, <1>10 DEF AddAutoFriend, TypeInv, TypeOK
  <2>2. CASE UNCHANGED <<memory, history, need_save>>
    BY <1>10, <2>1, <2>2 DEF AddAutoFriend, TypeInv, TypeOK, memory, disk, history
  <2>3. CASE AddKey(AutoFriends[auto]) /\ need_save' = TRUE
    <3>1. AutoFriends[auto] \in Key
      BY <1>0, <1>10 DEF AddAutoFriend, TypeInv, TypeOK
    <3>2. /\ friends' \in FriendList
          /\ intent' \in [Key -> {"unknown", "friend", "removed", "gone"}]
      BY <2>3, <3>1, AddKeyType DEF TypeInv
    <3> QED BY <1>10, <2>1, <2>3, <3>2 DEF AddAutoFriend, AddKey, TypeInv, TypeOK, disk
  <2> QED BY <1>10, <2>2, <2>3 DEF AddAutoFriend
<1>11. CASE AutoFriendsDone
  BY <1>11 DEF AutoFriendsDone, TypeInv, TypeOK, memory, disk, history
<1>12. CASE OpenTruncate
  <2>1. /\ pc' = "write" /\ pc = "open"
        /\ UNCHANGED <<friends, self, auto, need_save, saves, after>>
    BY <1>12 DEF OpenTruncate
  <2>2. CASE UNCHANGED <<blind, disk, history>> /\ fd' = FALSE
    BY <2>1, <2>2 DEF TypeInv, TypeOK, disk, history
  <2>3. CASE /\ fd' = TRUE /\ file' = "torn" /\ saved_self' = NoIdentity
             /\ saved_friends' = NoFriends /\ Overwrite
    <3>1. blind' \in BOOLEAN /\ known_self' \in Identity \cup {NoIdentity}
      BY <2>3 DEF Overwrite, TypeInv, TypeOK
    <3>2. intent' \in [Key -> {"unknown", "friend", "removed", "gone"}]
      BY <2>3 DEF Overwrite, TypeInv, TypeOK
    <3>3. fd' \in BOOLEAN /\ saved_friends' \in FriendList
      BY <2>3, EmptyList
    <3> QED BY <2>1, <2>3, <3>1, <3>2, <3>3 DEF TypeInv, TypeOK
  <2> QED BY <1>12, <2>2, <2>3 DEF OpenTruncate
<1>13. CASE WriteWhole
  BY <1>13, SaveReturnsType DEF WriteWhole, TypeInv, TypeOK
<1>14. CASE WriteShort
  BY <1>14, SaveReturnsType DEF WriteShort, TypeInv, TypeOK, disk
<1>15. CASE WriteFails
  <2>1. CASE SaveReturns
    BY <1>15, <2>1, SaveReturnsType DEF WriteFails, TypeInv, TypeOK, disk
  <2>2. CASE Die /\ UNCHANGED history
    BY <1>15, <2>2, DieType DEF WriteFails, TypeInv
  <2> QED BY <1>15, <2>1, <2>2 DEF WriteFails
<1>16. CASE UNCHANGED vars
  BY <1>16 DEF TypeInv, TypeOK, vars, memory, disk, local, history
<1> QED BY <1>1, <1>2, <1>3, <1>4, <1>5, <1>6, <1>7, <1>8, <1>9, <1>10, <1>11,
           <1>12, <1>13, <1>14, <1>15, <1>16 DEF Next

LEMMA TypeInit == Init => TypeInv
<1> SUFFICES ASSUME Init PROVE TypeInv
  OBVIOUS
<1>1. auto \in 1 .. Len(AutoFriends) + 1
  BY AutoFriendsAssumption DEF Init
<1>2. intent \in [Key -> {"unknown", "friend", "removed", "gone"}]
  BY DEF Init
<1>3. need_save \in BOOLEAN /\ fd \in BOOLEAN /\ blind \in BOOLEAN
  BY DEF Init
<1>4. friends \in FriendList /\ saved_friends \in FriendList
  BY EmptyList DEF Init
<1>5. saves \in 0 .. 2 /\ pc = "down" /\ after = "loop" /\ file = "absent"
  BY DEF Init
<1>6. self = NoIdentity /\ saved_self = NoIdentity /\ known_self = NoIdentity
  BY DEF Init
<1> QED BY <1>1, <1>2, <1>3, <1>4, <1>5, <1>6 DEF TypeInv, TypeOK

\* Every variable keeps its type, whatever fails and whenever the node dies.
THEOREM TypeCorrect == Spec => []TypeOK
<1>1. TypeInv => TypeOK
  BY DEF TypeInv
<1> QED BY <1>1, TypeInit, TypeNext, PTL DEF Spec
-----------------------------------------------------------------------------
(***************************************************************************)
(* Durability.  The three promises of the properties are about memory; to  *)
(* survive a crash they need the same of the file: a whole file holds what *)
(* was promised (Disk), a file that was never written promises nothing     *)
(* (Blank), and while a save is between its open and its write the file    *)
(* promises nothing either because it would not be loaded (Writing).  A    *)
(* blind process holds none of the promises; the file still does, until    *)
(* the process truncates it and is blind no more.                          *)
(***************************************************************************)
Disk ==
  file = "whole" =>
    /\ \A k \in Key : intent[k] = "friend" => k \in Friends(saved_friends)
    /\ \A k \in Key : intent[k] = "gone" => k \notin Friends(saved_friends)
    /\ known_self # NoIdentity => saved_self = known_self

Blank ==
  file = "absent" =>
    /\ known_self = NoIdentity
    /\ \A k \in Key : intent[k] \notin {"friend", "gone"}

Writing == pc = "write" /\ fd => file = "torn" /\ ~blind

Durable ==
  /\ TypeInv
  /\ SavedFriendsKept
  /\ SavedRemovalsKept
  /\ IdentityKept
  /\ AddedFriendsSaved
  /\ ShutdownSaves
  /\ Disk
  /\ Blank
  /\ Writing

LEMMA DurableInit == Init => Durable
<1> SUFFICES ASSUME Init PROVE Durable
  OBVIOUS
<1>1. TypeInv
  BY TypeInit
<1>2. \A k \in Key : intent[k] = "unknown"
  BY DEF Init
<1>3. pc = "down" /\ file = "absent" /\ known_self = NoIdentity
  BY DEF Init
<1> QED BY <1>1, <1>2, <1>3
     DEF Durable, SavedFriendsKept, SavedRemovalsKept, IdentityKept, AddedFriendsSaved,
         ShutdownSaves, Disk, Blank, Writing, Running

\* A step that leaves file and promises alone and ends or keeps ended the
\* process.
LEMMA DurableDie ==
  ASSUME Durable, TypeInv', pc' \in {"down", "refused"},
         UNCHANGED disk, UNCHANGED history
  PROVE  Durable'
BY DEF Durable, SavedFriendsKept, SavedRemovalsKept, IdentityKept, AddedFriendsSaved,
       ShutdownSaves, Disk, Blank, Writing, Running, disk, history

\* A step of a running node that changes nothing that is promised.
LEMMA DurableStays ==
  ASSUME Durable, TypeInv', Running, pc' \in {"auto", "open"},
         UNCHANGED memory, UNCHANGED disk, UNCHANGED history
  PROVE  Durable'
BY DEF Durable, SavedFriendsKept, SavedRemovalsKept, IdentityKept, AddedFriendsSaved,
       ShutdownSaves, Disk, Blank, Writing, Running, memory, disk, history

\* Adding a friend, on the way to saveState
LEMMA DurableAdd ==
  ASSUME Durable, TypeInv', Running, pc' \in {"auto", "open"},
         NEW k \in Key, AddKey(k), UNCHANGED disk
  PROVE  Durable'
<1>1. PICK n \in FirstFree(friends) : friends' = [friends EXCEPT ![n] = k]
  BY DEF AddKey
<1>2. /\ friends \in FriendList /\ n \in Number /\ friends[n] = NoKey
      /\ intent \in [Key -> {"unknown", "friend", "removed", "gone"}]
  BY <1>1 DEF Durable, TypeInv, TypeOK, FirstFree
<1>3. /\ Friends(friends) \subseteq Friends(friends')
      /\ Friends(friends') \subseteq Friends(friends) \cup {k}
  BY <1>1, <1>2 DEF Friends, FriendList
<1>4. intent' = [intent EXCEPT ![k] = "unknown"] /\ UNCHANGED <<self, blind, known_self>>
  BY DEF AddKey
<1>5. \A j \in Key : /\ intent'[j] = "friend" => intent[j] = "friend"
                    /\ intent'[j] = "gone" => intent[j] = "gone" /\ j # k
  BY <1>2, <1>4
<1>6. SavedFriendsKept' /\ SavedRemovalsKept' /\ IdentityKept'
  BY <1>3, <1>4, <1>5 DEF Durable, SavedFriendsKept, SavedRemovalsKept, IdentityKept, Running
<1>7. Disk' /\ Blank'
  BY <1>4, <1>5 DEF Durable, Disk, Blank, disk
<1>8. AddedFriendsSaved' /\ ShutdownSaves' /\ Writing'
  BY DEF AddedFriendsSaved, ShutdownSaves, Writing
<1> QED BY <1>6, <1>7, <1>8 DEF Durable

\* The end of a saveState that wrote all or a part
LEMMA DurableWrite ==
  ASSUME Durable, TypeInv', pc = "write", fd, SaveReturns,
         \/ file' = "torn"
         \/ file' = "whole" /\ saved_self' = self /\ saved_friends' = friends
  PROVE  Durable'
<1>1. UNCHANGED <<friends, self, blind>> /\ Running /\ ~blind
  BY DEF SaveReturns, memory, Running, Durable, Writing
<1>2. pc' \in {"open", "loop", "killed"}
  BY DEF SaveReturns, Durable, TypeInv, TypeOK
<1>3. known_self' \in {known_self, self}
  BY DEF SaveReturns
<1>4. \A k \in Key : intent'[k] = "friend" =>
                       intent[k] = "friend" \/ k \in Friends(friends)
  BY DEF SaveReturns
<1>5. \A k \in Key : intent'[k] = "friend" => k \in Friends(friends)
  BY <1>1, <1>4 DEF Durable, SavedFriendsKept
<1>6. \A k \in Key : intent'[k] = "gone" => k \notin Friends(friends)
  <2>1. CASE saves > 1
    BY <1>1, <2>1 DEF SaveReturns, Durable, SavedRemovalsKept
  <2>2. CASE ~(saves > 1)
    BY <2>2 DEF SaveReturns
  <2> QED BY <2>1, <2>2
<1>7. known_self' # NoIdentity => self = known_self'
  BY <1>1, <1>3 DEF Durable, IdentityKept
<1>8. SavedFriendsKept' /\ SavedRemovalsKept' /\ IdentityKept'
  <2>1. SavedFriendsKept'
    BY <1>1, <1>5 DEF SavedFriendsKept
  <2>2. SavedRemovalsKept'
    BY <1>1, <1>6 DEF SavedRemovalsKept
  <2>3. IdentityKept'
    BY <1>1, <1>7 DEF IdentityKept
  <2> QED BY <2>1, <2>2, <2>3
<1>9. Disk'
  BY <1>5, <1>6, <1>7 DEF Disk
<1>10. Blank' /\ Writing' /\ AddedFriendsSaved' /\ ShutdownSaves'
  BY <1>1, <1>2 DEF Blank, Writing, AddedFriendsSaved, ShutdownSaves
<1> QED BY <1>8, <1>9, <1>10 DEF Durable

LEMMA DurableNext == ASSUME ~NDEBUG PROVE Durable /\ [Next]_vars => Durable'
<1> SUFFICES ASSUME Durable, [Next]_vars PROVE Durable'
  OBVIOUS
<1>0. TypeInv'
  BY TypeNext DEF Durable
<1>1. CASE StartFresh
  <2>1. /\ friends' = NoFriends /\ pc' = "loop"
        /\ UNCHANGED <<file, saved_self, saved_friends, known_self, intent>>
    BY <1>1 DEF StartFresh, disk, history
  <2>2. file # "absent" => blind'
    BY <1>1 DEF StartFresh
  <2>3. file = "absent" =>
          known_self = NoIdentity /\ \A k \in Key : intent[k] \notin {"friend", "gone"}
    BY <2>1 DEF Durable, Blank
  <2>4. AddedFriendsSaved' /\ SavedRemovalsKept'
    BY <2>1, EmptyList DEF AddedFriendsSaved, SavedRemovalsKept
  <2>5. SavedFriendsKept' /\ IdentityKept'
    BY <2>1, <2>2, <2>3 DEF SavedFriendsKept, IdentityKept
  <2>6. Disk' /\ Blank' /\ Writing' /\ ShutdownSaves'
    BY <2>1 DEF Durable, Disk, Blank, Writing, ShutdownSaves
  <2> QED BY <1>0, <2>4, <2>5, <2>6 DEF Durable
<1>2. CASE StartLoad
  <2>1. /\ file = "whole" /\ self' = saved_self /\ pc' = "loop"
        /\ friends' = Compact(saved_friends)
        /\ UNCHANGED <<file, saved_self, saved_friends, known_self, intent>>
    BY <1>2 DEF StartLoad, disk, history
  <2>2. Friends(friends') = Friends(saved_friends)
    BY <2>1, LoadKeepsFriends DEF Durable, TypeInv, TypeOK
  <2> QED BY <1>0, <2>1, <2>2
       DEF Durable, SavedFriendsKept, SavedRemovalsKept, IdentityKept, AddedFriendsSaved,
           ShutdownSaves, Disk, Blank, Writing
<1>3. CASE StartRefused \/ Crash \/ Return
  BY <1>0, <1>3, DurableDie DEF StartRefused, Crash, Return, Die
<1>4. CASE Shutdown \/ JustSave
  BY <1>0, <1>4, DurableStays DEF Shutdown, JustSave, SaveOnce, Running
<1>5. CASE \E k \in Key : Add(k)
  <2>1. PICK k \in Key : Add(k)
    BY <1>5
  <2> QED BY <1>0, <2>1, DurableAdd DEF Add, SaveOnce, Running
<1>6. CASE \E n \in Number : Remove(n)
  <2>1. PICK n \in Number : Remove(n)
    BY <1>6
  <2> DEFINE gone == friends[n]
  <2>2. /\ friends \in FriendList /\ pc = "loop" /\ gone \in Key
        /\ intent \in [Key -> {"unknown", "friend", "removed", "gone"}]
    BY <2>1 DEF Remove, Durable, TypeInv, TypeOK, FriendList
  <2>3. /\ friends' = [friends EXCEPT ![n] = NoKey]
        /\ intent' = [intent EXCEPT ![gone] = "removed"]
        /\ UNCHANGED <<pc, self, blind, file, saved_self, saved_friends, known_self>>
    BY <2>1 DEF Remove, disk
  <2>4. /\ Friends(friends') \subseteq Friends(friends)
        /\ Friends(friends) \subseteq Friends(friends') \cup {gone}
    BY <2>2, <2>3 DEF Friends, FriendList
  <2> HIDE DEF gone
  <2>5. \A k \in Key : /\ intent'[k] = "friend" => intent[k] = "friend" /\ k # gone
                      /\ intent'[k] = "gone" => intent[k] = "gone"
    BY <2>2, <2>3
  <2>6. SavedFriendsKept' /\ SavedRemovalsKept' /\ IdentityKept'
    BY <2>2, <2>3, <2>4, <2>5 DEF Durable, SavedFriendsKept, SavedRemovalsKept, IdentityKept, Running
  <2>7. Disk' /\ Blank'
    BY <2>3, <2>5 DEF Durable, Disk, Blank
  <2>8. AddedFriendsSaved' /\ ShutdownSaves' /\ Writing'
    BY <2>2, <2>3, <2>4 DEF Durable, AddedFriendsSaved, ShutdownSaves, Writing
  <2> QED BY <1>0, <2>6, <2>7, <2>8 DEF Durable
<1>7. CASE \E online \in BOOLEAN : ConnectionStatus(online)
  <2>1. pc' \in {"auto", "open"}
    BY <1>7 DEF ConnectionStatus, SaveOnce
  <2> QED BY <1>0, <1>7, <2>1, DurableStays DEF ConnectionStatus, Running
<1>8. CASE AddAutoFriend
  <2>1. pc = "auto" /\ pc' = "auto" /\ UNCHANGED disk
    BY <1>8 DEF AddAutoFriend
  <2>2. CASE UNCHANGED <<memory, history, need_save>>
    BY <1>0, <2>1, <2>2, DurableStays DEF Running
  <2>3. CASE AddKey(AutoFriends[auto])
    <3>1. AutoFriends[auto] \in Key
      BY <1>8, AutoFriendsAssumption DEF AddAutoFriend, Durable, TypeInv, TypeOK
    <3> QED BY <1>0, <2>1, <2>3, <3>1, DurableAdd DEF Running
  <2> QED BY <1>8, <2>2, <2>3 DEF AddAutoFriend
<1>9. CASE AutoFriendsDone
  BY <1>0, <1>9, DurableStays DEF AutoFriendsDone, Running
<1>10. CASE OpenTruncate
  <2>1. UNCHANGED <<friends, self>> /\ pc = "open" /\ pc' = "write"
    BY <1>10 DEF OpenTruncate
  <2>2. AddedFriendsSaved' /\ ShutdownSaves'
    BY <2>1 DEF AddedFriendsSaved, ShutdownSaves
  <2>3. CASE fd' = FALSE /\ UNCHANGED <<blind, disk, history>>
    <3>1. UNCHANGED <<blind, file, saved_self, saved_friends, known_self, intent>>
      BY <2>3 DEF disk, history
    <3>2. Disk' /\ Blank' /\ Writing'
      BY <2>1, <2>3, <3>1 DEF Durable, Disk, Blank, Writing
    <3>3. SavedFriendsKept' /\ SavedRemovalsKept' /\ IdentityKept'
      BY <2>1, <3>1 DEF Durable, SavedFriendsKept, SavedRemovalsKept, IdentityKept, Running
    <3> QED BY <1>0, <2>2, <3>2, <3>3 DEF Durable
  <2>4. CASE file' = "torn" /\ Overwrite
    <3>1. ~blind'
      BY <2>4 DEF Overwrite
    <3>2. blind => known_self' = NoIdentity /\ \A k \in Key : intent'[k] # "friend"
      BY <2>4 DEF Overwrite
    <3>3. ~blind => known_self' = known_self
      BY <2>4 DEF Overwrite
    <3>4. ~blind => \A k \in Key : intent'[k] = intent[k]
      BY <2>4 DEF Overwrite
    <3>5. \A k \in Key : intent'[k] = "gone" => intent[k] = "gone"
      BY <2>4 DEF Overwrite
    <3>6. Disk' /\ Blank' /\ Writing'
      BY <2>4, <3>1 DEF Disk, Blank, Writing
    <3>7. SavedFriendsKept'
      BY <2>1, <3>2, <3>4 DEF Durable, SavedFriendsKept, Running
    <3>8. SavedRemovalsKept'
      BY <2>1, <3>5 DEF Durable, SavedRemovalsKept, Running
    <3>9. IdentityKept'
      BY <2>1, <3>2, <3>3 DEF Durable, IdentityKept, Running
    <3> QED BY <1>0, <2>2, <3>6, <3>7, <3>8, <3>9 DEF Durable
  <2> QED BY <1>10, <2>3, <2>4 DEF OpenTruncate
<1>11. CASE WriteWhole
  BY <1>0, <1>11, DurableWrite DEF WriteWhole
<1>12. CASE WriteShort
  <2>1. file' = "torn"
    BY <1>12 DEF WriteShort, Durable, Writing, disk
  <2> QED BY <1>0, <1>12, <2>1, DurableWrite DEF WriteShort
<1>13. CASE WriteFails
  BY <1>0, <1>13, DurableDie DEF WriteFails, Die
<1>14. CASE UNCHANGED vars
  BY <1>0, <1>14
     DEF Durable, SavedFriendsKept, SavedRemovalsKept, IdentityKept, AddedFriendsSaved,
         ShutdownSaves, Disk, Blank, Writing, Running, vars, memory, disk,
         local, history
<1> QED BY <1>1, <1>2, <1>3, <1>4, <1>5, <1>6, <1>7, <1>8, <1>9, <1>10, <1>11,
           <1>12, <1>13, <1>14 DEF Next

\* A friend that a completed saveState covered is a friend whenever the node runs
\* with its savedata, wherever it crashed in between and also after starts that could
\* not open the file, until such a process truncates it; for any number of friends.
THEOREM FriendsSurvive == ASSUME ~NDEBUG PROVE Spec => []SavedFriendsKept
<1>1. Durable => SavedFriendsKept
  BY DEF Durable
<1> QED BY <1>1, DurableInit, DurableNext, PTL DEF Spec

\* A friend whose removal a completed saveState covered never comes back by
\* itself, wherever the node crashed in between.
THEOREM RemovalsSurvive == ASSUME ~NDEBUG PROVE Spec => []SavedRemovalsKept
<1>1. Durable => SavedRemovalsKept
  BY DEF Durable
<1> QED BY <1>1, DurableInit, DurableNext, PTL DEF Spec

\* The node runs under another identity than the saved one only while it could not
\* open savedata, and is back under the saved one if that process never saves.
THEOREM IdentitySurvives == ASSUME ~NDEBUG PROVE Spec => []IdentityKept
<1>1. Durable => IdentityKept
  BY DEF Durable
<1> QED BY <1>1, DurableInit, DurableNext, PTL DEF Spec

\* Every friend in memory is in a whole file when main is back in its loop.
THEOREM AdditionsSaved == ASSUME ~NDEBUG PROVE Spec => []AddedFriendsSaved
<1>1. Durable => AddedFriendsSaved
  BY DEF Durable
<1> QED BY <1>1, DurableInit, DurableNext, PTL DEF Spec

\* An orderly shutdown leaves memory and a whole file equal.
THEOREM ShutdownLeavesAll == ASSUME ~NDEBUG PROVE Spec => []ShutdownSaves
<1>1. Durable => ShutdownSaves
  BY DEF Durable
<1> QED BY <1>1, DurableInit, DurableNext, PTL DEF Spec
-----------------------------------------------------------------------------
(***************************************************************************)
(* The refinement of NodeProfile, with or without assertions.  Removing a  *)
(* number removes a friend from the set only if no other number has the    *)
(* same key (NoTwice), in memory and in what loading gives.                *)
(***************************************************************************)
NoTwice(list) ==
  \A m, n \in Number : list[m] = list[n] /\ list[m] # NoKey => m = n

ProfileInv == TypeInv /\ NoTwice(friends) /\ NoTwice(saved_friends)

LEMMA CompactNoTwice ==
  ASSUME NEW list \in FriendList, NoTwice(list)
  PROVE  NoTwice(Compact(list))
<1> DEFINE From(m, n) == list[m] # NoKey /\ Rank(list, m) = n
<1>1. ASSUME NEW n \in Number, Compact(list)[n] # NoKey
      PROVE  \E m \in Number : From(m, n) /\ Compact(list)[n] = list[m]
  <2>1. \E m \in Number : From(m, n)
    BY <1>1 DEF Compact
  <2>2. Compact(list)[n] = list[CHOOSE m \in Number : From(m, n)]
    BY <2>1 DEF Compact
  <2> HIDE DEF From
  <2> QED BY <2>1, <2>2
<1>2. SUFFICES ASSUME NEW m \in Number, NEW n \in Number,
                      Compact(list)[m] = Compact(list)[n], Compact(list)[m] # NoKey
               PROVE  m = n
  BY DEF NoTwice
<1>3. PICK a \in Number : From(a, m) /\ Compact(list)[m] = list[a]
  BY <1>1, <1>2
<1>4. PICK b \in Number : From(b, n) /\ Compact(list)[n] = list[b]
  BY <1>1, <1>2
<1>5. a = b
  BY <1>2, <1>3, <1>4 DEF NoTwice
<1> QED BY <1>3, <1>4, <1>5

\* A new friend's key goes to one number and joins the set.
LEMMA AddKeyFriends ==
  ASSUME TypeOK, NoTwice(friends), NEW k \in Key, AddKey(k)
  PROVE  /\ NoTwice(friends')
         /\ Friends(friends') = Friends(friends) \cup {k}
<1>1. PICK n \in FirstFree(friends) : friends' = [friends EXCEPT ![n] = k]
  BY DEF AddKey
<1>2. /\ friends \in FriendList /\ n \in Number /\ friends[n] = NoKey
      /\ k \notin Friends(friends) /\ k # NoKey
  BY <1>1, NoKeyAssumption DEF TypeOK, FirstFree, AddKey
<1>3. /\ friends'[n] = k
      /\ \A m \in Number : m # n => friends'[m] = friends[m]
  BY <1>1, <1>2 DEF FriendList
<1>4. Friends(friends') = Friends(friends) \cup {k}
  BY <1>2, <1>3 DEF Friends
<1>5. \A m \in Number : friends[m] # k
  BY <1>2 DEF Friends
<1> QED BY <1>3, <1>4, <1>5 DEF NoTwice

\* A removal takes the key of the number out of the set.
LEMMA RemoveFriends ==
  ASSUME TypeOK, NoTwice(friends), NEW n \in Number, Remove(n)
  PROVE  /\ NoTwice(friends')
         /\ Friends(friends') = Friends(friends) \ {friends[n]}
         /\ friends[n] \in Key
<1>1. /\ friends \in FriendList /\ friends[n] # NoKey
      /\ friends' = [friends EXCEPT ![n] = NoKey]
  BY DEF TypeOK, Remove
<1>2. /\ friends'[n] = NoKey
      /\ \A m \in Number : m # n => friends'[m] = friends[m]
      /\ friends[n] \in Key
  BY <1>1 DEF FriendList
<1>3. \A m \in Number : m # n /\ friends[m] # NoKey => friends[m] # friends[n]
  BY <1>1 DEF NoTwice
<1>4. Friends(friends') = Friends(friends) \ {friends[n]}
  BY <1>2, <1>3 DEF Friends
<1> QED BY <1>2, <1>4 DEF NoTwice

LEMMA ProfileInit == Init => ProfileInv
BY TypeInit DEF Init, ProfileInv, NoTwice, NoFriends

LEMMA ProfileNext == ProfileInv /\ [Next]_vars => ProfileInv'
<1> SUFFICES ASSUME ProfileInv, [Next]_vars PROVE ProfileInv'
  OBVIOUS
<1>0. TypeInv' /\ TypeOK
  BY TypeNext DEF ProfileInv, TypeInv
<1>1. CASE StartFresh \/ Crash \/ Return \/ WriteFails
  <2>1. friends' \in {friends, NoFriends} /\ saved_friends' = saved_friends
    BY <1>1 DEF StartFresh, Crash, Return, WriteFails, SaveReturns, Die, memory, disk
  <2> QED BY <1>0, <2>1 DEF ProfileInv, NoTwice, NoFriends
<1>2. CASE StartLoad
  <2>1. friends' = Compact(saved_friends) /\ saved_friends' = saved_friends
    BY <1>2 DEF StartLoad, disk
  <2>2. NoTwice(friends')
    BY <1>0, <2>1, CompactNoTwice DEF ProfileInv, TypeOK
  <2> QED BY <1>0, <2>1, <2>2 DEF ProfileInv
<1>3. CASE \E k \in Key : Add(k)
  <2>1. NoTwice(friends') /\ saved_friends' = saved_friends
    BY <1>0, <1>3, AddKeyFriends DEF Add, ProfileInv, disk
  <2> QED BY <1>0, <2>1 DEF ProfileInv
<1>4. CASE AddAutoFriend
  <2>1. CASE AddKey(AutoFriends[auto])
    <3>1. AutoFriends[auto] \in Key
      BY <1>0, <1>4, AutoFriendsAssumption DEF AddAutoFriend, TypeOK
    <3>2. NoTwice(friends') /\ saved_friends' = saved_friends
      BY <1>0, <1>4, <2>1, <3>1, AddKeyFriends DEF AddAutoFriend, ProfileInv, disk
    <3> QED BY <1>0, <3>2 DEF ProfileInv
  <2>2. CASE UNCHANGED memory
    BY <1>0, <1>4, <2>2 DEF AddAutoFriend, ProfileInv, memory, disk
  <2> QED BY <1>4, <2>1, <2>2 DEF AddAutoFriend
<1>5. CASE \E n \in Number : Remove(n)
  <2>1. NoTwice(friends') /\ saved_friends' = saved_friends
    BY <1>0, <1>5, RemoveFriends DEF Remove, ProfileInv, disk
  <2> QED BY <1>0, <2>1 DEF ProfileInv
<1>6. CASE OpenTruncate
  <2>1. friends' = friends /\ saved_friends' \in {saved_friends, NoFriends}
    BY <1>6 DEF OpenTruncate, disk
  <2> QED BY <1>0, <2>1 DEF ProfileInv, NoTwice, NoFriends
<1>7. CASE WriteWhole
  BY <1>0, <1>7 DEF WriteWhole, SaveReturns, ProfileInv, memory
<1>8. CASE \/ StartRefused \/ Shutdown \/ JustSave \/ AutoFriendsDone \/ WriteShort
           \/ \E online \in BOOLEAN : ConnectionStatus(online)
  <2>1. UNCHANGED <<friends, saved_friends>>
    BY <1>8 DEF StartRefused, Shutdown, JustSave, AutoFriendsDone, WriteShort,
         ConnectionStatus, SaveReturns, memory, disk
  <2> QED BY <1>0, <2>1 DEF ProfileInv
<1>9. CASE UNCHANGED vars
  BY <1>0, <1>9 DEF ProfileInv, vars, memory, disk
<1> QED BY <1>1, <1>2, <1>3, <1>4, <1>5, <1>6, <1>7, <1>8, <1>9 DEF Next

Mem == [identity |-> self, friends |-> Friends(friends)]
Disc == [identity |-> saved_self, friends |-> Friends(saved_friends)]

LEMMA ProfileStep == ProfileInv /\ [Next]_vars => [Profile!Next]_(Profile!vars)
<1> SUFFICES ASSUME ProfileInv, [Next]_vars, ~UNCHANGED Profile!vars
             PROVE  Profile!Next
  OBVIOUS
<1>0. ~(Current' = Current /\ Usable' = Usable)
  BY DEF Profile!vars
<1>1. /\ TypeOK /\ NoTwice(friends)
      /\ UNCHANGED disk => Usable' = Usable
      /\ UNCHANGED <<friends, self>> /\ Running' = Running => Current' = Current
  BY DEF ProfileInv, TypeInv, disk, Current, Usable
<1>2. CASE StartFresh
  <2>1. /\ ~Running /\ Running' /\ self' \in Identity
        /\ Friends(friends') = {} /\ UNCHANGED disk
    BY <1>2, EmptyList DEF StartFresh, Running
  <2>2. Current = {} /\ Current' = {Mem'} /\ Usable' = Usable
    BY <1>1, <2>1 DEF Current, Mem
  <2>3. Mem' \in Profile!New
    BY <2>1 DEF Mem, Profile!New
  <2>4. Profile!StartNew
    BY <2>2, <2>3 DEF Profile!StartNew
  <2> QED BY <2>4 DEF Profile!Next
<1>3. CASE StartLoad
  <2>1. /\ ~Running /\ Running' /\ file = "whole" /\ self' = saved_self
        /\ friends' = Compact(saved_friends) /\ UNCHANGED disk
    BY <1>3 DEF StartLoad, Running
  <2>2. Friends(friends') = Friends(saved_friends)
    BY <1>1, <2>1, LoadKeepsFriends DEF TypeOK
  <2>3. Current = {} /\ Current' = {Mem'} /\ Usable' = Usable
    BY <1>1, <2>1 DEF Current, Mem
  <2>4. Mem' \in Usable
    BY <2>1, <2>2 DEF Mem, Disc, Usable
  <2>5. Profile!Start
    BY <2>3, <2>4 DEF Profile!Start
  <2> QED BY <2>5 DEF Profile!Next
<1>4. CASE StartRefused
  <2>1. Running' = Running /\ UNCHANGED <<friends, self>> /\ UNCHANGED disk
    BY <1>4 DEF StartRefused, Running, memory
  <2> QED BY <1>0, <1>1, <2>1
<1>5. ASSUME Running, ~Running', UNCHANGED disk PROVE Profile!Next
  <2>1. Current # {} /\ Current' = {} /\ Usable' = Usable
    BY <1>1, <1>5 DEF Current, Mem
  <2>2. Profile!End
    BY <2>1 DEF Profile!End
  <2> QED BY <2>2 DEF Profile!Next
<1>6. CASE Crash \/ Return
  BY <1>5, <1>6 DEF Crash, Return, Die, Running
<1>7. ASSUME NEW k \in Key, AddKey(k), Running, Running', UNCHANGED disk
      PROVE  Profile!Next
  <2>1. Friends(friends') = Friends(friends) \cup {k} /\ self' = self
    BY <1>1, <1>7, AddKeyFriends DEF AddKey
  <2>2. Mem' = [identity |-> Mem.identity, friends |-> Mem.friends \cup {k}]
    BY <2>1 DEF Mem
  <2>3. Current = {Mem} /\ Current' = {Mem'} /\ Usable' = Usable
    BY <1>1, <1>7 DEF Current, Mem
  <2>4. Profile!Befriend(k)
    BY <2>2, <2>3 DEF Profile!Befriend
  <2> QED BY <2>4 DEF Profile!Next
<1>8. CASE \E k \in Key : Add(k)
  BY <1>7, <1>8 DEF Add, SaveOnce, Running
<1>9. CASE AddAutoFriend
  <2>1. pc = "auto" /\ pc' = "auto" /\ UNCHANGED disk
    BY <1>9 DEF AddAutoFriend
  <2>2. CASE AddKey(AutoFriends[auto])
    <3>1. AutoFriends[auto] \in Key
      BY <1>1, <1>9, AutoFriendsAssumption DEF AddAutoFriend, TypeOK
    <3> QED BY <1>7, <2>1, <2>2, <3>1 DEF Running
  <2>3. CASE UNCHANGED <<friends, self>>
    BY <1>0, <1>1, <2>1, <2>3 DEF Running
  <2> QED BY <1>9, <2>2, <2>3 DEF AddAutoFriend, memory
<1>10. CASE \E n \in Number : Remove(n)
  <2>1. PICK n \in Number : Remove(n)
    BY <1>10
  <2>2. /\ Friends(friends') = Friends(friends) \ {friends[n]}
        /\ friends[n] \in Key /\ self' = self
        /\ Running /\ Running' /\ UNCHANGED disk
    BY <1>1, <2>1, RemoveFriends DEF Remove, Running
  <2>3. Mem' = [identity |-> Mem.identity, friends |-> Mem.friends \ {friends[n]}]
    BY <2>2 DEF Mem
  <2>4. Current = {Mem} /\ Current' = {Mem'} /\ Usable' = Usable
    BY <1>1, <2>2 DEF Current, Mem
  <2>5. Profile!Unfriend(friends[n])
    BY <2>3, <2>4 DEF Profile!Unfriend
  <2> QED BY <2>2, <2>5 DEF Profile!Next
<1>11. CASE OpenTruncate
  <2>1. Running /\ Running' /\ UNCHANGED <<friends, self>> /\ (file' = "torn" \/ UNCHANGED disk)
    BY <1>11 DEF OpenTruncate, Running
  <2>2. Current # {} /\ Current' = Current /\ (Usable' = {} \/ Usable' = Usable)
    BY <1>1, <2>1 DEF Current, Usable
  <2>3. Profile!Lose
    BY <1>0, <2>2 DEF Profile!Lose
  <2> QED BY <2>3 DEF Profile!Next
<1>12. ASSUME SaveReturns, pc = "write" PROVE Current' = Current /\ Current # {}
  <2>1. Running /\ Running' /\ UNCHANGED <<friends, self>>
    BY <1>1, <1>12 DEF SaveReturns, Running, TypeOK, memory
  <2> QED BY <1>1, <2>1 DEF Current, Mem
<1>13. CASE WriteWhole
  <2>1. Current' = Current /\ Current # {}
    BY <1>12, <1>13 DEF WriteWhole
  <2>2. /\ Running /\ file' = "whole" /\ saved_self' = self /\ saved_friends' = friends
    BY <1>13 DEF WriteWhole, Running
  <2>3. Usable' = {Mem} /\ Current = {Mem}
    BY <2>2 DEF Current, Usable, Mem, Disc
  <2>4. Profile!Keep
    BY <2>1, <2>3 DEF Profile!Keep
  <2> QED BY <2>4 DEF Profile!Next
<1>14. CASE WriteShort
  BY <1>0, <1>1, <1>12, <1>14 DEF WriteShort
<1>15. CASE WriteFails
  <2>1. CASE SaveReturns
    BY <1>0, <1>1, <1>12, <1>15, <2>1 DEF WriteFails
  <2>2. CASE Die
    BY <1>5, <1>15, <2>2 DEF WriteFails, Die, Running
  <2> QED BY <1>15, <2>1, <2>2 DEF WriteFails
<1>16. CASE \/ Shutdown \/ JustSave \/ AutoFriendsDone
            \/ \E online \in BOOLEAN : ConnectionStatus(online)
  <2>1. Running /\ Running' /\ UNCHANGED <<friends, self>> /\ UNCHANGED disk
    BY <1>16 DEF Shutdown, JustSave, AutoFriendsDone, ConnectionStatus, SaveOnce, Running, memory
  <2> QED BY <1>0, <1>1, <2>1
<1>17. CASE UNCHANGED vars
  <2>1. Running' = Running /\ UNCHANGED <<friends, self>> /\ UNCHANGED disk
    BY <1>17 DEF vars, Running, memory
  <2> QED BY <1>0, <1>1, <2>1
<1> QED BY <1>2, <1>3, <1>4, <1>6, <1>8, <1>9, <1>10, <1>11, <1>13, <1>14, <1>15,
           <1>16, <1>17 DEF Next

\* With any build, crashing anywhere, the node implements NodeProfile: it starts
\* with what was kept last or, when that cannot be read, as a new node that has not
\* touched it yet; no friend is lost or doubled by numbers or holes.
THEOREM Refinement == Spec => ProfileOutlivesCrashes
<1>1. Init => Profile!Init
  BY DEF Init, Running, Current, Usable, Profile!Init
<1> QED BY <1>1, ProfileInit, ProfileNext, ProfileStep, PTL
        DEF Spec, ProfileOutlivesCrashes, Profile!Spec
=============================================================================
