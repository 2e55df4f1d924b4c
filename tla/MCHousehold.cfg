CONSTANTS
  c1 = c1
  c2 = c2
  Call = {c1, c2}
  ana = ana
  ben = ben
  User = {ana, ben}
  Start <- MCStart
  home = home
  Name = {home}
  InvitationId = {1, 2}
  Request <- MCRequest
  Account = {ben}
  MaxVersion = 4
SPECIFICATION MCSpec
SYMMETRY CallSymmetry
INVARIANTS
  MembershipFollowsInvitations
  DeliveryIsExclusive
  SentWasMailed
  ExistingIsNotMailed
CHECK_DEADLOCK FALSE
