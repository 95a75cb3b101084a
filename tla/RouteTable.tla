----------------------------- MODULE RouteTable -----------------------------
(***************************************************************************)
(* What a node's route list promises the thread that looks packets up in   *)
(* it while the other thread adds routes: every lookup behaves as if it    *)
(* happened at one instant.  It answers with the first route that matches  *)
(* at that instant, or that no route matches at that instant.              *)
(* NetworkInterface, where the lookup walks the list step by step and      *)
(* takes no lock, implements this specification.                           *)
(***************************************************************************)
EXTENDS RouteList

CONSTANT None   \* no question, no answer

VARIABLES table,     \* the routes added so far
          status,    \* of the lookup
          question,  \* the address looked up
          answer     \* the route found

vars == <<table, status, question, answer>>

Init ==
  /\ table = <<>>
  /\ status = "idle"
  /\ question = None
  /\ answer = None

AddRoute(r) ==
  /\ status # "stopped"
  /\ table' = Append(table, r)
  /\ UNCHANGED <<status, question, answer>>

Ask(peer) ==
  /\ status = "idle"
  /\ status' = "asked"
  /\ question' = peer
  /\ UNCHANGED <<table, answer>>

Found ==
  /\ status = "asked"
  /\ answer' \in FirstMatch(table, question)
  /\ status' = "found"
  /\ UNCHANGED <<table, question>>

NotFound ==
  /\ status = "asked"
  /\ FirstMatch(table, question) = {}
  /\ status' = "notfound"
  /\ UNCHANGED <<table, question, answer>>

\* the packet that asked has been forwarded or dropped
Done ==
  /\ status \in {"found", "notfound"}
  /\ status' = "idle"
  /\ question' = None
  /\ answer' = None
  /\ UNCHANGED table

\* the process ends
Stop ==
  /\ status # "stopped"
  /\ status' = "stopped"
  /\ UNCHANGED <<table, question, answer>>

Next ==
  \/ \E r \in Route : AddRoute(r)
  \/ \E peer \in Addr : Ask(peer)
  \/ Found
  \/ NotFound
  \/ Done
  \/ Stop

Spec == Init /\ [][Next]_vars
=============================================================================
