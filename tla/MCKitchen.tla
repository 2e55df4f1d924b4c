----------------------------- MODULE MCKitchen -----------------------------
(***************************************************************************)
(* Weeks for TLC: two meals and lots that suffice, that do not and that    *)
(* have expired; and one meal of one row, for every small amount, number   *)
(* of servings and base.                                                   *)
(***************************************************************************)
EXTENDS Kitchen

CONSTANTS
  oil, flour, salt,  \* ingredients, salt being a staple
  MaxQuantity        \* most servings tried

Row(i, amount, optional) ==
  [ingredient |-> i, amount |-> amount, optional |-> optional, pantry_staple |-> i = salt]
Recipes ==
  { <<Row(oil, 1, FALSE), Row(flour, 1, TRUE)>>, <<Row(oil, 2, FALSE), Row(salt, 1, FALSE)>>,
    <<Row(flour, 1, FALSE), Row(salt, 1, TRUE)>>,
    <<Row(oil, 1, FALSE), Row(oil, 1, TRUE)>> }

Meal(id, recipe, servings, base_servings, date, recorded, state) ==
  [id |-> id, recipe |-> recipe, servings |-> servings, base_servings |-> base_servings,
   planned_date |-> date, recorded |-> recorded, plan_state |-> state]

Scalings ==
  {[entries |-> {Meal(1, <<Row(oil, amount, FALSE)>>, servings, base, 0, FALSE, "approved")},
    pantry |-> {}, window |-> <<0, 0>>] :
     amount \in 1..3 * Scale, servings \in 1..MaxQuantity, base \in 1..MaxQuantity}

Lots ==
  {{[id |-> 1, ingredient |-> oil, quantity |-> a, expires |-> d],
    [id |-> 2, ingredient |-> oil, quantity |-> b, expires |-> NoDate],
    [id |-> 3, ingredient |-> flour, quantity |-> f, expires |-> NoDate],
    [id |-> 4, ingredient |-> salt, quantity |-> s, expires |-> NoDate]} :
     a \in 0..2, b \in {0, 1}, d \in {0, 1}, f \in 0..1, s \in 0..1}

Weeks ==
  {[entries |-> {Meal(1, r1, n, 2, 0, FALSE, "approved"), Meal(2, r2, 2, 2, d, other[1], other[2])},
    pantry |-> lots, window |-> w] :
     r1 \in Recipes, r2 \in Recipes, n \in {1, 3}, d \in 0..1,
     other \in {<<FALSE, "approved">>, <<TRUE, "approved">>, <<FALSE, "draft">>},
     lots \in Lots, w \in {<<0, 0>>, <<1, 1>>, <<0, 1>>}}

MCProduct == {oil, flour, salt}
MCPantryStaple == {salt}
MCWeek == Scalings \cup Weeks
=============================================================================
