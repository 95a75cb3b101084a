---------------------------- MODULE NodeProfile ----------------------------
(***************************************************************************)
(* What a user may rely on about a node's identity and friends, whatever   *)
(* happens between two starts: a start takes the profile that was kept     *)
(* last, or a new identity without friends if nothing can be read, and     *)
(* that leaves what was kept alone: only a running node replaces or loses  *)
(* it, by saving.  FriendStore, where toxcore numbers the friends and      *)
(* savedata is truncated and then written, implements this.                *)
(***************************************************************************)
CONSTANTS Key,      \* public keys of possible friends
          Identity  \* identities

VARIABLES current,  \* the profile the node runs with, as a set: {} if it is down
          usable    \* the profile that was kept, as a set: {} if there is none

vars == <<current, usable>>

New == [identity : Identity, friends : {{}}]

Init == current = {} /\ usable = {}

Start ==
  /\ current = {}
  /\ \E p \in usable : current' = {p}
  /\ UNCHANGED usable

\* nothing was kept, or it cannot be read
StartNew ==
  /\ current = {}
  /\ \E p \in New : current' = {p}
  /\ UNCHANGED usable

Befriend(k) ==
  /\ current # {}
  /\ current' = {[identity |-> p.identity, friends |-> p.friends \cup {k}] : p \in current}
  /\ UNCHANGED usable

Unfriend(k) ==
  /\ current # {}
  /\ current' = {[identity |-> p.identity, friends |-> p.friends \ {k}] : p \in current}
  /\ UNCHANGED usable

Keep ==
  /\ current # {}
  /\ usable' = current
  /\ UNCHANGED current

Lose ==
  /\ current # {}
  /\ usable' = {}
  /\ UNCHANGED current

End ==
  /\ current # {}
  /\ current' = {}
  /\ UNCHANGED usable

Next ==
  \/ Start
  \/ StartNew
  \/ \E k \in Key : Befriend(k) \/ Unfriend(k)
  \/ Keep
  \/ Lose
  \/ End

Spec == Init /\ [][Next]_vars
=============================================================================
