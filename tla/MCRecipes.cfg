CONSTANTS
  c1 = c1
  c2 = c2
  Call = {c1, c2}
  ana = ana
  User = {ana}
  soup = soup
  stew = stew
  leek = leek
  pea = pea
  RecipeId = {1}
  RuleId = {1}
  Request <- MCRequest
  MaxVersions = 3
  Empty = Empty
  Omitted = Omitted
  NoCall = NoCall
SPECIFICATION Spec
SYMMETRY CallSymmetry
INVARIANTS
  OnePublished
PROPERTIES
  PublishedIsImmutable
  ImplementsAtomicRecipes
