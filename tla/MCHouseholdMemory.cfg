CONSTANTS
  c1 = c1
  c2 = c2
  Call = {c1, c2}
  DinerId = {1, 2}
  MemoryId = {1, 2}
  u1 = u1
  User = {u1}
  k1 = k1
  k2 = k2
  Request <- MCRequest
  MaxVersion = 3
  NoCall = NoCall
  NoKey = NoKey
  NoUser = NoUser
  Household = Household
SPECIFICATION Spec
SYMMETRY CallSymmetry
INVARIANTS
  LateRetryIsReplayed
  ProfileShowsWhatStayed
PROPERTIES
  MemoryJoinsActiveDiner
