------------------------------ MODULE Session ------------------------------
(***************************************************************************)
(* What a node promises one client of its control socket: each line that   *)
(* the client said runs once, one after the other, none after the node has *)
(* let the connection go, and it lets go only of a client that has         *)
(* finished and been served.  Listener, where lines arrive in pieces and   *)
(* wait in two buffers, implements this for every client.                  *)
(***************************************************************************)
EXTENDS Naturals

VARIABLES said,      \* lines the client began
          done,      \* commands that ran
          finished,  \* the client says no more
          left       \* the node has let the connection go

vars == <<said, done, finished, left>>

Init == said = 0 /\ done = 0 /\ ~finished /\ ~left

Say ==
  /\ ~finished
  /\ said' = said + 1
  /\ UNCHANGED <<done, finished, left>>

Do ==
  /\ ~left
  /\ done < said
  /\ done' = done + 1
  /\ UNCHANGED <<said, finished, left>>

Finish ==
  /\ ~finished
  /\ finished'
  /\ UNCHANGED <<said, done, left>>

Leave ==
  /\ finished
  /\ ~left
  /\ done = said
  /\ left'
  /\ UNCHANGED <<said, done, finished>>

Next == Say \/ Do \/ Finish \/ Leave

Spec == Init /\ [][Next]_vars
=============================================================================
