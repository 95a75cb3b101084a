------------------------------- MODULE MCMesh -------------------------------
(* Instances of Mesh for TLC. *)
EXTENDS Mesh, TLC

CONSTANTS n1, n2, n3, a1, a2, a3

\* n1 in the middle
Star == {{n1, n2}, {n1, n3}}

\* n1's device may be unusable or have a host route left; n2 may come back under
\* n3's address or another, then on an interface that does not work; n3's address
\* may be none
Overlapping ==
     n1 :> {[ip |-> a1, works |-> TRUE, left |-> {a2}],
            [ip |-> a1, works |-> FALSE, left |-> {}]}
  @@ n2 :> {[ip |-> a2, works |-> TRUE, left |-> {}],
            [ip |-> a3, works |-> TRUE, left |-> {}],
            [ip |-> a3, works |-> FALSE, left |-> {}]}
  @@ n3 :> {[ip |-> a2, works |-> TRUE, left |-> {}],
            [ip |-> NoIp, works |-> TRUE, left |-> {}]}
=============================================================================
