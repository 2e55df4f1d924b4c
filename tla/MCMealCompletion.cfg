CONSTANTS
  c1 = c1
  c2 = c2
  c3 = c3
  Call = {c1, c2, c3}
  dinner = dinner
  lunch = lunch
  brunch = brunch
  this_week = this_week
  next_week = next_week
  Plan = {this_week, next_week}
  PlanOf <- MCPlanOf
  Entry = {dinner, lunch, brunch}
  oil = oil
  flour = flour
  salt = salt
  Ingredient = {oil, flour, salt}
  Lot <- MCLot
  CompletionId = {1, 2}
  k1 = k1
  Key = {k1}
  Request <- MCRequest
  LotIngredient <- MCLotIngredient
  ExpirationDate <- MCExpirationDate
  InitialQuantity <- MCInitialQuantity
  Recipe <- MCRecipe
  Servings <- MCServings
  BaseServings <- MCBaseServings
  LastDay = 1
  MaxOther = 1
  NoCall = NoCall
  NoKey = NoKey
  NoLine = NoLine
  NoDate = NoDate
  Scale = 1
  MaxAmount = 2
SPECIFICATION MCSpec
SYMMETRY CallSymmetry
INVARIANTS
  Reconciliation
  NetConsumption
  DeadlockTakesTwoOrders
PROPERTIES
  RecordedUnderApprovedPlan
  FirstExpiredFirstOut
