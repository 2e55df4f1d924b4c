SPECIFICATION Spec
CONSTANTS
  c1 = c1
  c2 = c2
  Call = {c1, c2}
  new = new
  old = old
  Kid = {old, new}
  Rotating = {new}
  Ttl = 1
  MaxFetch = 1
  ana = ana
  UserId = {1, 2}
  Subject = {ana}
  TokenId = {1}
  Request <- MCRequest
  NoCall = NoCall
  NoKid = NoKid
  NoDocument = NoDocument
  NoUser = NoUser
  NoSubject = NoSubject
SYMMETRY CallSymmetry
INVARIANTS
  PublishedKeyIsKnown
  EntitledToAct
PROPERTIES
  WithdrawnKeyExpires
