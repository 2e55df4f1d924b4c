---------------------------- MODULE Consumption ----------------------------
(***************************************************************************)
(* The arithmetic of a meal completion: domain/completion/policies.py with *)
(* the scaling of domain/forecast/policies.py and the rounding of          *)
(* domain/inventory/ledger.py.  Amounts are counted in their quantum, so a *)
(* Decimal with Scale quanta per unit is an integer here; an element of    *)
(* Ingredient stands for an (ingredient, unit) pair.                       *)
(***************************************************************************)
EXTENDS Integers, Sequences, FiniteSets, SequencesExt

CONSTANTS
  Scale,      \* quanta per unit: 10^6 in the code
  MaxAmount,  \* MAX_AMOUNT in quanta
  NoDate      \* expiration_date IS NULL

ASSUME ScaleAssumption == Scale \in Nat \ {0} /\ MaxAmount \in Nat \ {0}
ASSUME DateAssumption == NoDate \notin Int

Refused == [ok |-> FALSE, value |-> <<>>]
Result(value) == [ok |-> TRUE, value |-> value]

\* The elements of a finite set in the order of before, a strict total order of
\* them, and the elements of a sequence whose index satisfies a condition.
Sorted(S, before(_, _)) ==
  CHOOSE s \in SetToSeqs(S) : \A i, j \in DOMAIN s : i < j => before(s[i], s[j])
Selected(s, Test(_)) ==
  LET at == Sorted({i \in DOMAIN s : Test(i)}, <) IN [n \in DOMAIN at |-> s[at[n]]]

(***************************************************************************)
(* Scaling a recipe to the servings of a plan entry.  The factor is itself *)
(* rounded to a quantum before the amount is multiplied by it.             *)
(***************************************************************************)
round_down(n, d) == n \div d
round_half_up(n, d) == (2 * n + d) \div (2 * d)

scale_factor(servings, base_servings) == round_half_up(servings * Scale, base_servings)

scaled_amount(amount, servings, base_servings) ==
  round_half_up(amount * scale_factor(servings, base_servings), Scale)

Line(row, amount) ==
  [ingredient |-> row.ingredient, planned |-> amount, actual |-> amount,
   optional |-> row.optional]

planned_lines(recipe, servings, base_servings) ==
  LET Scaled(row) == scaled_amount(row.amount, servings, base_servings)
      Consumable(n) == ~recipe[n].pantry_staple
      kept == Selected(recipe, LAMBDA n : Consumable(n) /\ Scaled(recipe[n]) > 0)
  IN IF \/ recipe = <<>>
        \/ kept = <<>> /\ \E n \in DOMAIN recipe : Consumable(n)
        \/ \E i \in DOMAIN kept : Scaled(kept[i]) > MaxAmount
     THEN Refused
     ELSE Result([i \in DOMAIN kept |-> Line(kept[i], Scaled(kept[i]))])

(***************************************************************************)
(* apply_actual_amounts: a sequence of (ingredient, amount) pairs replaces *)
(* planned amounts; an optional line that is not named is left out.        *)
(***************************************************************************)
apply_actual_amounts(planned, actuals, pantry_staples) ==
  LET Given(line) == {j \in DOMAIN actuals : actuals[j].ingredient = line.ingredient}
      kept == Selected(planned, LAMBDA n : Given(planned[n]) # {} \/ ~planned[n].optional)
  IN IF \E j \in DOMAIN actuals :
          \/ actuals[j].ingredient \in pantry_staples
          \/ \A i \in DOMAIN planned : planned[i].ingredient # actuals[j].ingredient
          \/ \E k \in DOMAIN actuals : k < j /\ actuals[k].ingredient = actuals[j].ingredient
          \/ actuals[j].amount \notin 1..MaxAmount
     THEN Refused
     ELSE Result([i \in DOMAIN kept |->
                    IF Given(kept[i]) = {} THEN kept[i]
                    ELSE [kept[i] EXCEPT !.actual =
                            actuals[CHOOSE j \in Given(kept[i]) : TRUE].amount]])

(***************************************************************************)
(* fefo_allocate: the lots that expire first are used first.               *)
(***************************************************************************)
\* The sort key (no date last, date, id) of fefo_allocate and of _locked_lots.
EarlierById(a, b) == a.id < b.id
Earlier(a, b) ==
  \/ a.expires # NoDate /\ (b.expires = NoDate \/ a.expires < b.expires)
  \/ a.expires = b.expires /\ a.id < b.id

Usable(lot, on_date) ==
  lot.quantity > 0 /\ (lot.expires = NoDate \/ lot.expires >= on_date)

Least(a, b) == IF a < b THEN a ELSE b

TakeFrom(allocation, lot) ==
  LET take == Least(lot.quantity, allocation.remaining) IN
  IF allocation.remaining = 0 THEN allocation
  ELSE [remaining |-> allocation.remaining - take,
        taken |-> Append(allocation.taken, [lot |-> lot.id, amount |-> take])]

fefo_allocate(stock, amount, on_date) ==
  LET eligible == Sorted({lot \in stock : Usable(lot, on_date)}, Earlier)
      allocation == FoldLeft(TakeFrom, [remaining |-> amount, taken |-> <<>>], eligible)
  IN IF amount = 0 \/ allocation.remaining > 0 THEN Refused
     ELSE Result(allocation.taken)
=============================================================================
