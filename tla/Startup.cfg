SPECIFICATION FairSpec
CONSTANTS
  Addr = {a1, a2}
  NoIp = noip
  None = none
  NoString = nostring
  Node = {n1, n2}
  Reachable = {n2}
INVARIANTS
  TypeOK
  LastGivenIpUsed
  AclStatusTrue
PROPERTIES
  IpOutlivesCrashes
  ComesOnline
