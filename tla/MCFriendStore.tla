--------------------------- MODULE MCFriendStore ---------------------------
(***************************************************************************)
(* Instances of FriendStore for TLC: two auto friends and another key.     *)
(***************************************************************************)
EXTENDS FriendStore

CONSTANTS k1, k2, k3

MCKey == {k1, k2, k3}
MCAutoFriends == <<k1, k2>>
=============================================================================
