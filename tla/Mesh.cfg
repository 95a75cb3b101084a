SPECIFICATION FairSpec
CONSTANTS
  n1 = n1
  n2 = n2
  n3 = n3
  a1 = a1
  a2 = a2
  a3 = a3
  Given <- Overlapping
  Node = {n1, n2, n3}
  Friends <- Star
  Addr = {a1, a2, a3}
  NoIp = noip
  None = none
INVARIANTS
  TypeOK
  OnlyAnnouncersReceive
  FriendsReached
PROPERTY RoutesAreLearned
