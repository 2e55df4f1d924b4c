SPECIFICATION CatalogSpec
CONSTANTS
  c1 = c1
  c2 = c2
  Worker = {c1, c2}
  home = home
  neighbour = neighbour
  Household = {home, neighbour}
  Global = Global
  mass = mass
  count = count
  IngredientId = {1, 2, 3, 4, 5}
  Dimension = {mass, count}
  RecipeId = {1, 2}
  MaxVersions = 2
  Initial <- MCInitial
  PageSize = 1
  CatalogRequest <- MCRequest
  Omitted = Omitted
  Nobody = Nobody
INVARIANTS ListedOnce LinesFitTheirIngredient
PROPERTIES CreatedForALine
SYMMETRY WorkerSymmetry
