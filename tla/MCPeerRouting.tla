--------------------------- MODULE MCPeerRouting ---------------------------
(***************************************************************************)
(* Instances of PeerRouting for TLC: one auto friend and another key.      *)
(***************************************************************************)
EXTENDS PeerRouting

CONSTANTS k1, k2

MCKey == {k1, k2}
MCAutoFriends == <<k1>>
=============================================================================
