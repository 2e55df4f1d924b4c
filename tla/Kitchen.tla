------------------------------ MODULE Kitchen ------------------------------
(***************************************************************************)
(* A household that asks the forecast what its meals miss, buys it, and    *)
(* then cooks the meals of the day in whatever order.  The operators of    *)
(* Forecast, EntryDetail and Consumption, which different services call,   *)
(* meet here on the same entries and lots.  One request runs after         *)
(* another: MealCompletion and Shopping interleave their statements.       *)
(***************************************************************************)
EXTENDS EntryDetail

CONSTANTS
  Product,       \* (ingredient, unit) pairs
  PantryStaple,  \* those whose ingredient is a pantry staple
  Week           \* the weeks a household may start from

PlanState == {"draft", "proposed", "approved", "archived"}
RecipeRow ==
  [ingredient : Product, amount : Nat, optional : BOOLEAN, pantry_staple : BOOLEAN]
PlanEntry ==
  [id : Nat, recipe : Seq(RecipeRow), servings : Nat \ {0}, base_servings : Nat \ {0},
   planned_date : Int, recorded : BOOLEAN, plan_state : PlanState]
StoredLot == [id : Nat, ingredient : Product, quantity : Nat, expires : Int \cup {NoDate}]

\* pantry_staple is a column of the ingredient, joined to every row that names it.
Planning(e) ==
  /\ e \in PlanEntry
  /\ \A n \in DOMAIN e.recipe :
       e.recipe[n].pantry_staple <=> e.recipe[n].ingredient \in PantryStaple
Stored(lots) ==
  /\ IsFiniteSet(lots) /\ lots \subseteq StoredLot
  /\ \A a, b \in lots : a.id = b.id => a = b

ASSUME WeekAssumption ==
  \A w \in Week :
    /\ IsFiniteSet(w.entries) /\ \A e \in w.entries : Planning(e)
    /\ Stored(w.pantry)
    /\ w.window \in Int \X Int

VARIABLES
  entries,  \* the entries of the plans, as the forecast reads them
  pantry,   \* the lots
  window,   \* the days the forecast is asked for
  cooking,  \* nothing was missing, and the day has come
  failed    \* the entries whose completion was refused

kitchen_vars == <<entries, pantry, window, cooking, failed>>

KitchenInit ==
  /\ \E w \in Week : entries = w.entries /\ pantry = w.pantry /\ window = w.window
  /\ cooking = FALSE
  /\ failed = {}

Due == Planned(entries, window[1], window[2])
Missing == demand_forecast(entries, pantry, window[1], window[2])
NothingMissing == Missing.ok /\ \A i \in DOMAIN Missing.value : Missing.value[i] = 0

\* purchase_item, with the quantity of the forecast's shortfall.
NewLot(i, quantity) ==
  [id |-> 1 + Max({0} \cup {lot.id : lot \in pantry}), ingredient |-> i,
   quantity |-> quantity, expires |-> NoDate]
Buy(i) ==
  /\ ~cooking
  /\ Missing.ok
  /\ i \in DOMAIN Missing.value /\ Missing.value[i] \in 1..MaxAmount
  /\ pantry' = pantry \cup {NewLot(i, Missing.value[i])}
  /\ UNCHANGED <<entries, window, cooking, failed>>

StartCooking ==
  /\ ~cooking
  /\ window[1] = window[2]
  /\ NothingMissing
  /\ cooking' = TRUE
  /\ UNCHANGED <<entries, pantry, window, failed>>

(***************************************************************************)
(* complete_entry without actuals, for all lines or for none.  A second    *)
(* line of an ingredient breaks uq_meal_completion_line_ingredient.        *)
(***************************************************************************)
Lines(e) == planned_lines(e.recipe, e.servings, e.base_servings)
Completable(e) ==
  /\ Lines(e).ok
  /\ \A n, k \in DOMAIN Lines(e).value :
       Lines(e).value[n].ingredient = Lines(e).value[k].ingredient => n = k

Shelf(i) == {lot \in pantry : lot.ingredient = i}
Allocation(e, n, day) ==
  LET line == Lines(e).value[n] IN fefo_allocate(Shelf(line.ingredient), line.actual, day)
Cookable(e, day) ==
  Completable(e) /\ \A n \in DOMAIN Lines(e).value : Allocation(e, n, day).ok

Takes(e, day) == UNION {Range(Allocation(e, n, day).value) : n \in DOMAIN Lines(e).value}
Taken(lot, takes) ==
  IF \E t \in takes : t.lot = lot.id THEN (CHOOSE t \in takes : t.lot = lot.id).amount ELSE 0
Without(takes) == {[lot EXCEPT !.quantity = @ - Taken(lot, takes)] : lot \in pantry}

Cook(e) ==
  /\ cooking
  /\ e \in Due
  /\ Cookable(e, window[1])
  /\ pantry' = Without(Takes(e, window[1]))
  /\ entries' = (entries \ {e}) \cup {[e EXCEPT !.recorded = TRUE]}
  /\ UNCHANGED <<window, cooking, failed>>

RefuseToCook(e) ==
  /\ cooking
  /\ e \in Due \ failed
  /\ ~Cookable(e, window[1])
  /\ failed' = failed \cup {e}
  /\ UNCHANGED <<entries, pantry, window, cooking>>

KitchenNext ==
  \/ \E i \in Product : Buy(i)
  \/ StartCooking
  \/ \E e \in entries : Cook(e) \/ RefuseToCook(e)

KitchenSpec == KitchenInit /\ [][KitchenNext]_kitchen_vars
-----------------------------------------------------------------------------
\* A scaled amount is within half a quantum of the exact one for every unit of
\* the recipe's amount, and half a quantum more: two roundings, never a drift.
Close(amount, servings, base) ==
  LET exact == amount * servings  \* times base
      scaled == scaled_amount(amount, servings, base) * base
      error == IF exact > scaled THEN exact - scaled ELSE scaled - exact
  IN 2 * Scale * error <= base * (amount + Scale)
ScalingIsClose ==
  \A e \in entries : \A n \in DOMAIN e.recipe :
    Close(e.recipe[n].amount, e.servings, e.base_servings)

\* FR-001 to FR-003: the forecast counts an entry exactly if it can still be
\* cooked: its plan is approved, its day is asked for and nobody has cooked it.
\* What it demands is what its lines will consume, optional rows included.
Consumed(e, i) ==
  LET planned == Lines(e).value IN
  SumFunctionOnSet([n \in DOMAIN planned |-> planned[n].actual],
                   {n \in DOMAIN planned : planned[n].ingredient = i})
DemandIsConsumption ==
  Missing.ok =>
    LET lines == project_demand(Due)
        due == {e \in entries : /\ e.plan_state = "approved" /\ ~e.recorded
                                /\ e.planned_date \in window[1]..window[2]}
    IN \A i \in Product \ PantryStaple :
         SumFunctionOnSet([e \in due |-> Consumed(e, i)], due)
           = IF i \in DOMAIN lines THEN total_amount(lines[i]) ELSE 0

\* Forecast, shopping and completion agree: once nothing is missing for a day,
\* every meal of that day can be cooked, in whatever order and whatever the
\* others have taken; what is refused would be refused with a full pantry.
NothingMissingMeansCookable == \A e \in failed : ~Completable(e)

\* spec 017, FR-018 and FR-019: the detail of a meal shows no shortfall, staples
\* aside, exactly when the meal can be cooked on its day, and what it shows of an
\* ingredient that several rows name sums to what is missing of it.
DetailTellsWhatIsMissing ==
  \A e \in entries :
    LET answer == calculate_entry_detail_ingredients(e, pantry, e.planned_date)
        shown == answer.value
        OfIngredient(i) == {n \in DOMAIN shown : shown[n].ingredient = i}
        Needed(i) == SumFunctionOnSet([n \in DOMAIN shown |-> shown[n].required], OfIngredient(i))
        Short(i) == SumFunctionOnSet([n \in DOMAIN shown |-> shown[n].shortfall], OfIngredient(i))
        Held(i) == QuantityOf({lot \in Shelf(i) : lot.expires = NoDate \/ lot.expires >= e.planned_date})
    IN answer.ok =>
         /\ Completable(e) =>
              (Cookable(e, e.planned_date) <=> \A i \in Product \ PantryStaple : Short(i) = 0)
         /\ \A i \in Product \ PantryStaple :
              Short(i) = IF Needed(i) > Held(i) THEN Needed(i) - Held(i) ELSE 0
=============================================================================
