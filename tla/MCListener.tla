----------------------------- MODULE MCListener -----------------------------
(* Instances of Listener for TLC. *)
EXTENDS Listener, TLC

ClientSymmetry == Permutations(Client)

\* two lines on each connection
TwoLines == [c \in Client |-> 2]

\* two lines on one connection, one on every other
OneTalks == [c \in Client |-> IF c = CHOOSE d \in Client : TRUE THEN 2 ELSE 1]
=============================================================================
