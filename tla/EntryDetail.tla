---------------------------- MODULE EntryDetail ----------------------------
(***************************************************************************)
(* What get_entry_detail of application/planning_service.py tells of a     *)
(* meal: the lines of domain/planning/entry_detail.py.  The rows of the    *)
(* recipe come in the order of their positions; each takes what it can of  *)
(* the stock that the rows before it have left.  InventoryLot.available is *)
(* never cleared and left out.                                             *)
(***************************************************************************)
EXTENDS Forecast

reference_date(planned_date, local_today) ==
  IF planned_date > local_today THEN planned_date ELSE local_today

\* A row that is no staple takes min(required, remaining).
AllocatedNothing(row, required, remaining) == 0
Allocated(row, required, remaining) ==
  IF row.pantry_staple THEN 0 ELSE Least(required, remaining)

DetailLine(row, required, remaining) ==
  [ingredient |-> row.ingredient, required |-> required, on_hand |-> remaining,
   pantry_staple |-> row.pantry_staple,
   shortfall |-> shortfall_amount([required |-> required, optional |-> 0,
                                   pantry_staple |-> row.pantry_staple], remaining)]

\* remaining_stock maps the ingredients in stock to what is left of them.
Project(projection, row, required) ==
  LET i == row.ingredient
      remaining == projection.remaining_stock[i]
  IN IF required = 0 THEN projection
     ELSE [projected |-> Append(projection.projected, DetailLine(row, required, remaining)),
           remaining_stock |-> [projection.remaining_stock EXCEPT
                                  ![i] = @ - Allocated(row, required, remaining)]]

calculate_entry_detail_ingredients(entry, stock, local_today) ==
  LET day == reference_date(entry.planned_date, local_today)
      named == {entry.recipe[n].ingredient : n \in DOMAIN entry.recipe}
      Required(row) == scaled_amount(row.amount, entry.servings, entry.base_servings)
  IN IF \E n \in DOMAIN entry.recipe : Required(entry.recipe[n]) > MaxAmount
     THEN Refused
     ELSE Result(FoldLeft(LAMBDA projection, row : Project(projection, row, Required(row)),
                          [projected |-> <<>>,
                           remaining_stock |-> [i \in named |-> OnHand(stock, i, day)]],
                          entry.recipe).projected)
=============================================================================
