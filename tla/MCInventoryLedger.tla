------------------------- MODULE MCInventoryLedger -------------------------
(***************************************************************************)
(* Payloads for TLC: two retries of one adjustment that can empty the lot, *)
(* the same key with another amount and on another lot, a deposit without  *)
(* a key, a wrong unit, and two creations that share a key.                *)
(***************************************************************************)
EXTENDS InventoryLedger

CONSTANTS l1, l2, k1, g, kg

Adjustments ==
  { [operation |-> Adjust, lot |-> l1, amount |-> -2, unit |-> g, key |-> k1],
    [operation |-> Adjust, lot |-> l1, amount |-> -1, unit |-> g, key |-> k1],
    [operation |-> Adjust, lot |-> l2, amount |-> -1, unit |-> g, key |-> k1],
    [operation |-> Adjust, lot |-> l1, amount |-> 1, unit |-> g, key |-> NoKey],
    [operation |-> Adjust, lot |-> l1, amount |-> 1, unit |-> kg, key |-> NoKey] }
Creations ==
  { [operation |-> Create, lot |-> NoLot, amount |-> 2, unit |-> g, key |-> k1],
    [operation |-> Create, lot |-> NoLot, amount |-> 1, unit |-> g, key |-> k1] }

MCPayload == Adjustments \cup Creations
=============================================================================
