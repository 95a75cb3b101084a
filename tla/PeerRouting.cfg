SPECIFICATION RoutingSpec
CONSTANTS
  k1 = k1
  k2 = k2
  Key <- MCKey
  NoKey = NoKey
  AutoFriends <- MCAutoFriends
  NDEBUG = FALSE
  Identity = {i1}
  NoIdentity = NoIdentity
  MaxFriends = 2
  Addr = {a1, a2}
  None = None
  MaxRoutes = 2
INVARIANTS
  RoutingTypeOK
  RouteKeepsOwner
  FirstAnnouncerReceives
