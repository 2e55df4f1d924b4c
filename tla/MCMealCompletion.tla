-------------------------- MODULE MCMealCompletion --------------------------
(***************************************************************************)
(* A kitchen for TLC.  Oil comes in two lots whose order by expiration is  *)
(* the reverse of their order by id, flour in one.  Dinner takes all the   *)
(* oil and some flour, lunch of the same week names its flour twice, and   *)
(* brunch of the next week is cooked with less oil than planned and        *)
(* without its optional salt.                                              *)
(***************************************************************************)
EXTENDS MealCompletion, TLC

CONSTANTS c1, c2, c3, this_week, next_week, dinner, lunch, brunch, oil, flour, salt, k1

MCLot == 1..3
MCLotIngredient == <<oil, oil, flour>>
MCExpirationDate == <<NoDate, 0, NoDate>>
MCInitialQuantity == <<1, 1, 2>>

RecipeRow(i, amount, optional) ==
  [ingredient |-> i, amount |-> amount, optional |-> optional, pantry_staple |-> FALSE]
MCRecipe ==
  dinner :> <<RecipeRow(oil, 2, FALSE), RecipeRow(flour, 1, FALSE)>> @@
  lunch :> <<RecipeRow(flour, 1, TRUE), RecipeRow(oil, 1, FALSE), RecipeRow(flour, 1, FALSE)>> @@
  brunch :> <<RecipeRow(flour, 1, FALSE), RecipeRow(salt, 1, TRUE), RecipeRow(oil, 2, FALSE)>>
MCPlanOf == [e \in Entry |-> IF e = brunch THEN next_week ELSE this_week]
MCServings == [e \in Entry |-> IF e = dinner THEN 2 ELSE 1]
MCBaseServings == MCServings

Cook(e, actuals, key) == [op |-> Complete, entry |-> e, actuals |-> actuals, key |-> key]
SkipMeal(e, key) == [op |-> Skip, entry |-> e, key |-> key]
CorrectLine(m, v, i, amount, key) ==
  [op |-> Correct, completion |-> m, expected_version |-> v, ingredient |-> i,
   amount |-> amount, key |-> key]
ReopenMeal(m, v, key) == [op |-> Reopen, completion |-> m, expected_version |-> v, key |-> key]

Only(i, amount) == <<[ingredient |-> i, amount |-> amount]>>

MCRequest ==
  { Cook(dinner, <<>>, k1), Cook(lunch, <<>>, k1), Cook(brunch, Only(oil, 1), NoKey),
    SkipMeal(dinner, NoKey), CorrectLine(1, 1, oil, 1, k1),
    ReopenMeal(1, 1, k1), ReopenMeal(1, 2, NoKey) }

\* Members reopen and approve the plan of this week only.
MCNext == Next /\ plan_state'[next_week] = plan_state[next_week]
MCSpec == Init /\ [][MCNext]_vars

CallSymmetry == Permutations(Call)
=============================================================================
