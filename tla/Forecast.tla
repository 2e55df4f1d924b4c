------------------------------ MODULE Forecast ------------------------------
(***************************************************************************)
(* Demand forecasting: domain/forecast/policies.py and the queries of      *)
(* application/forecast_service.py, as pure operators over what the        *)
(* database holds.  Amounts are counted in their quantum and an element of *)
(* an Ingredient set stands for an (ingredient, unit) pair, as in          *)
(* Consumption, which scales amounts the same way.                         *)
(***************************************************************************)
EXTENDS Consumption

CONSTANT MaxWindow  \* MAX_WINDOW_DAYS

ASSUME WindowAssumption == MaxWindow \in Nat \ {0}

validate_window(from_date, to_date) ==
  from_date <= to_date /\ to_date - from_date + 1 <= MaxWindow

(***************************************************************************)
(* The entries the service hands to project_demand: those of approved      *)
(* plans in the window, without those that have a recorded completion.     *)
(***************************************************************************)
PlannedWithCooked(entries, from_date, to_date) ==
  {e \in entries : e.plan_state = "approved" /\ e.planned_date \in from_date..to_date}
Planned(entries, from_date, to_date) ==
  {e \in entries : /\ e.plan_state = "approved"
                   /\ ~e.recorded
                   /\ e.planned_date \in from_date..to_date}

\* Every recipe row of every planned entry, by the ingredient it demands.
DemandRows(planned) == UNION {{e} \X DOMAIN e.recipe : e \in planned}
Demanding(planned, i) == {x \in DemandRows(planned) : x[1].recipe[x[2]].ingredient = i}
ScaledDemand(x) == scaled_amount(x[1].recipe[x[2]].amount, x[1].servings, x[1].base_servings)
DemandedIngredients(planned) ==
  {x[1].recipe[x[2]].ingredient : x \in DemandRows(planned)}

\* project_demand: a line for every ingredient that something is needed of,
\* with the required and the optional amounts apart.
DemandLine(planned, i) ==
  LET Amount(optional) ==
        SumFunctionOnSet([x \in Demanding(planned, i) |-> ScaledDemand(x)],
                         {x \in Demanding(planned, i) : x[1].recipe[x[2]].optional = optional})
  IN [required |-> Amount(FALSE), optional |-> Amount(TRUE),
      pantry_staple |-> \E x \in Demanding(planned, i) : x[1].recipe[x[2]].pantry_staple]
total_amount(line) == line.required + line.optional

project_demand(planned) ==
  LET demanded == {i \in DemandedIngredients(planned) : total_amount(DemandLine(planned, i)) > 0}
  IN [i \in demanded |-> DemandLine(planned, i)]

\* quantize_amount refuses what NUMERIC(18,6) does not hold.
Projectable(lines) ==
  \A i \in DOMAIN lines : lines[i].required <= MaxAmount /\ lines[i].optional <= MaxAmount

(***************************************************************************)
(* What is on hand: the lots that are not empty and not expired on the     *)
(* first day of the window.                                                *)
(***************************************************************************)
QuantityOf(lots) == SumFunctionOnSet([lot \in lots |-> lot.quantity], lots)
OnHandExpiredToo(stock, i, from_date) == QuantityOf({lot \in stock : lot.ingredient = i})
OnHand(stock, i, from_date) ==
  QuantityOf({lot \in stock : lot.ingredient = i /\ Usable(lot, from_date)})

shortfall_amount(line, available) ==
  IF line.pantry_staple
  THEN IF available = 0 THEN total_amount(line) ELSE 0
  ELSE IF total_amount(line) > available THEN total_amount(line) - available ELSE 0

\* demand_forecast: the shortfall of every line; not ok when a total, or what is
\* on hand of a demanded ingredient, does not fit.
demand_forecast(entries, stock, from_date, to_date) ==
  LET lines == project_demand(Planned(entries, from_date, to_date)) IN
  IF /\ validate_window(from_date, to_date)
     /\ Projectable(lines)
     /\ \A i \in DOMAIN lines : OnHand(stock, i, from_date) <= MaxAmount
  THEN Result([i \in DOMAIN lines |-> shortfall_amount(lines[i], OnHand(stock, i, from_date))])
  ELSE Refused
=============================================================================
