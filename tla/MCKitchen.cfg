CONSTANTS
  oil = oil
  flour = flour
  salt = salt
  Product <- MCProduct
  PantryStaple <- MCPantryStaple
  Week <- MCWeek
  MaxQuantity = 4
  Scale = 4
  MaxAmount = 4
  NoDate = NoDate
  MaxWindow = 62
SPECIFICATION KitchenSpec
CHECK_DEADLOCK FALSE
INVARIANTS
  ScalingIsClose
  DemandIsConsumption
  NothingMissingMeansCookable
  DetailTellsWhatIsMissing
