SPECIFICATION FairSpec
CONSTANTS
  Addr = {a1, a2}
  FriendNumber = {f1, f2}
  None = None
  MaxRoutes = 4
INVARIANTS
  TypeOK
  FirstMatchForwarded
  KernelRoutesKnown
PROPERTIES
  RoutedPacketsForwarded
  RoutedPacketsReachForward
  LookupsAtomic
