SPECIFICATION Spec
CONSTANTS
  Addr = {a1, a2}
  FriendNumber = {f1, f2}
  None = None
  MaxRoutes = 2
SYMMETRY AddrSymmetry
INVARIANT UnsupportedDropped
