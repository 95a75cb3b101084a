------------------------------ MODULE NodeLife ------------------------------
(***************************************************************************)
(* What the rest of the network may rely on about the address of a node    *)
(* that crashes and restarts: a node that comes up without its operator    *)
(* uses the address it kept, and it changes neither while it is up.        *)
(* Startup, with config.json written in steps, implements this.            *)
(***************************************************************************)
CONSTANTS Ip,    \* addresses an operator may give
          None   \* no address

VARIABLES up,    \* the address the node is running under, None when it is not
          kept   \* the address config.json holds, None when it holds none

vars == <<up, kept>>

Init ==
  /\ up = None
  /\ kept \in Ip \cup {None}

\* the operator gives an address, which a crash may lose with the one before
Give(ip) ==
  /\ up = None
  /\ kept' \in {ip, None}
  /\ UNCHANGED up

\* with nothing kept, the operator says under which address
Begin(ip) ==
  /\ up = None
  /\ kept \in {ip, None}
  /\ up' = ip
  /\ UNCHANGED kept

End ==
  /\ up # None
  /\ up' = None
  /\ UNCHANGED kept

Next ==
  \/ \E ip \in Ip : Give(ip) \/ Begin(ip)
  \/ End

Spec == Init /\ [][Next]_vars
=============================================================================
