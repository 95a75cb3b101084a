------------------------- MODULE MCNetworkInterface -------------------------
(* Instances of NetworkInterface for TLC. *)
EXTENDS NetworkInterface, TLC

\* two addresses and two friends play the same part in every property;
\* used where no liveness is checked
AddrSymmetry == Permutations(Addr) \cup Permutations(FriendNumber)
=============================================================================
