CONSTANTS
  c1 = c1
  c2 = c2
  Call = {c1, c2}
  ana = ana
  ben = ben
  User = {ana, ben}
  PlanId = {1, 2}
  EntryId = {1, 2}
  Slot = {1, 2}
  stew = stew
  salad = salad
  Recipe = {stew, salad}
  thaw = thaw
  wash = wash
  Rule = {thaw, wash}
  RulesOf <- MCRulesOf
  k1 = k1
  Request <- MCRequest
  MaxManual = 2
  MaxVersion = 7
  MaxLag = 0
  NoCall = NoCall
  NoKey = NoKey
  Unset = Unset
SPECIFICATION MCSpec
SYMMETRY CallSymmetry
INVARIANTS
  ApprovedPlanIsPrepared
PROPERTIES
  FourEyes
  EntriesChangeInDraft
  ResolvedIsFinal
