SPECIFICATION Spec
CONSTANTS
  k1 = k1
  k2 = k2
  k3 = k3
  Key <- MCKey
  AutoFriends <- MCAutoFriends
  NoKey = NoKey
  NDEBUG = FALSE
  MaxFriends = 3
  Identity = {i1, i2}
  NoIdentity = NoIdentity
INVARIANT NeverRefused
