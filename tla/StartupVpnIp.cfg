SPECIFICATION Spec
CONSTANTS
  Addr = {a1}
  NoIp = noip
  None = none
  NoString = nostring
  Node = {n1}
  Reachable = {n1}
INVARIANT VpnUsesIp
