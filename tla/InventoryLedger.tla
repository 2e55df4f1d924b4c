-------------------------- MODULE InventoryLedger --------------------------
(***************************************************************************)
(* The inventory ledger of one household: create_lot and apply_adjustment  *)
(* of application/inventory_service.py over the tables inventory_lot and   *)
(* inventory_movement.  Every element of Call is one HTTP or MCP request,  *)
(* run by a worker in a READ COMMITTED transaction of its own.  A call is  *)
(* cut where another transaction can be seen: the unlocked search for the  *)
(* idempotency key, SELECT ... FOR UPDATE on the lot, COMMIT, the second   *)
(* search after an IntegrityError, and the answer.                         *)
(*                                                                         *)
(* Amounts are NUMERIC(18,6) values counted in their quantum, so they are  *)
(* integers here.  A payload has passed the request schema: its amount is  *)
(* not zero, its unit fits the ingredient's dimension.                     *)
(***************************************************************************)
EXTENDS Integers, Sequences, FiniteSets, FiniteSetsExt

CONSTANTS
  Call,          \* requests in flight
  Lot,           \* identifiers of inventory lots
  PurchasedLot,  \* those the shopping flow inserts; the others are create_lot's
  Unit,          \* units of measure
  Key,           \* idempotency keys
  Payload,       \* the payloads the calls carry
  MaxAmount,     \* MAX_AMOUNT, the largest NUMERIC(18,6)
  MaxMovements,  \* bound on the rows other services write
  NoKey, NoCall, NoLot, NoUnit

Create == "inventory_lot_create"
Adjust == "inventory_adjustment"

LotCreate == [operation : {Create}, lot : {NoLot}, amount : 1..MaxAmount,
              unit : Unit, key : Key \cup {NoKey}]
Adjustment == [operation : {Adjust}, lot : Lot, unit : Unit,
               amount : (-MaxAmount..MaxAmount) \ {0}, key : Key \cup {NoKey}]

ASSUME BoundsAssumption ==
  /\ MaxAmount \in Nat \ {0}
  /\ MaxMovements \in Nat
ASSUME ConstantsAssumption ==
  /\ PurchasedLot \subseteq Lot
  /\ Payload \subseteq LotCreate \cup Adjustment
  /\ NoKey \notin Key
  /\ NoCall \notin Call
  /\ NoLot \notin Lot
  /\ NoUnit \notin Unit

VARIABLES
  unit_of,             \* InventoryLot.unit, NoUnit while the row does not exist
  quantity_on_hand,    \* InventoryLot.quantity_on_hand
  inventory_movement,  \* the rows of the append-only table, in commit order
  archived,            \* Ingredient.archived_at IS NOT NULL
  lock,                \* the call that holds the row lock of a lot
  pc, payload,         \* progress of a call and the request it serves
  target,              \* the lot a call locked, inserted or found by its key
  quantity,            \* the balance apply_adjustment computed under the lock
  reply                \* what the caller received

tables == <<unit_of, quantity_on_hand, inventory_movement>>
vars == <<unit_of, quantity_on_hand, inventory_movement, archived, lock, pc,
          payload, target, quantity, reply>>

NoReply == [status |-> "none", lot |-> NoLot, amount |-> 0]
Refusal(status) == [status |-> status, lot |-> NoLot, amount |-> 0]
Accepted(l, q) == [status |-> "ok", lot |-> l, amount |-> q]

(***************************************************************************)
(* One row of inventory_movement.  payload stands for the columns delta,   *)
(* operation, idempotency_key and request_hash; call remembers the request *)
(* that wrote the row (NoCall: another service).                           *)
(***************************************************************************)
Movement(c, l, p, q) == [lot |-> l, payload |-> p, result |-> q, call |-> c]

\* operation_fingerprint: every input of the operation, never the key.
fingerprintWithoutAmount(p) == [p EXCEPT !.key = NoKey, !.amount = 1]
fingerprint(p) == [p EXCEPT !.key = NoKey]

Exists(l) == unit_of[l] # NoUnit

\* The row that uq_inventory_movement_idempotency finds for a payload.
HasKeyOf(row, p) ==
  /\ p.key # NoKey
  /\ row.payload.key = p.key
  /\ row.payload.operation = p.operation
KeyRows(p) ==
  {i \in DOMAIN inventory_movement : HasKeyOf(inventory_movement[i], p)}

\* What the unique constraint sees at COMMIT.
KeyTakenIgnored(p) == FALSE
KeyTaken(p) == KeyRows(p) # {}

\* LedgerBalance.apply refuses another unit, a negative and a too large balance.
CanApplyAnyAmount(l, p) == p.unit = unit_of[l]
CanApply(l, p) ==
  /\ p.unit = unit_of[l]
  /\ quantity_on_hand[l] + p.amount \in 0..MaxAmount

\* FOR UPDATE waits while another transaction holds the row.
FreeIgnored(l) == TRUE
Free(l) == lock[l] = NoCall

\* The end of a transaction frees its row locks.
ReleasedNever(c) == lock
Released(c) == [l \in Lot |-> IF lock[l] = c THEN NoCall ELSE lock[l]]

\* session.add(InventoryMovement(...)).
Added(row) == Append(inventory_movement, row)

Init ==
  /\ unit_of = [l \in Lot |-> NoUnit]
  /\ quantity_on_hand = [l \in Lot |-> 0]
  /\ inventory_movement = <<>>
  /\ archived = FALSE
  /\ lock = [l \in Lot |-> NoCall]
  /\ pc = [c \in Call |-> "received"]
  /\ payload \in [Call -> Payload]
  /\ target = [c \in Call |-> NoLot]
  /\ quantity = [c \in Call |-> 0]
  /\ reply = [c \in Call |-> NoReply]

Answer(c, r) ==
  /\ reply' = [reply EXCEPT ![c] = r]
  /\ pc' = [pc EXCEPT ![c] = "done"]

ReplayedBalanceNow(c, row) == quantity_on_hand[row.lot]
ReplayedBalance(c, row) ==
  IF payload[c].operation = Create THEN quantity_on_hand[row.lot] ELSE row.result

(***************************************************************************)
(* A request that found the row of its key: another fingerprint is a       *)
(* conflict, the same one is replayed.  The replay of an adjustment        *)
(* returns the recorded balance, that of a creation the lot as it is now.  *)
(***************************************************************************)
Replay(c, row) ==
  IF fingerprint(row.payload) # fingerprint(payload[c])
  THEN Answer(c, Refusal("conflict"))
  ELSE Answer(c, Accepted(row.lot, ReplayedBalance(c, row)))

\* create_lot returns before it looks for its key when the ingredient is archived.
RefuseArchived(c) ==
  /\ pc[c] = "received"
  /\ payload[c].operation = Create
  /\ archived
  /\ Answer(c, Refusal("not_found"))
  /\ UNCHANGED <<tables, archived, lock, payload, target, quantity>>

\* The first search for the key finds its row.
LookupHit(c) ==
  /\ pc[c] = "received"
  /\ payload[c].operation = Create => ~archived
  /\ \E i \in KeyRows(payload[c]) : Replay(c, inventory_movement[i])
  /\ UNCHANGED <<tables, archived, lock, payload, target, quantity>>

\* No key, or no row has it: an adjustment goes for its lot, a creation inserts.
LookupMiss(c) ==
  /\ pc[c] = "received"
  /\ payload[c].operation = Create => ~archived
  /\ KeyRows(payload[c]) = {}
  /\ pc' = [pc EXCEPT ![c] = IF payload[c].operation = Create
                             THEN "insert" ELSE "lock"]
  /\ UNCHANGED <<tables, archived, lock, payload, target, quantity, reply>>

\* _get_lot(lock=True) and LedgerBalance.apply succeed; the row lock is kept.
LockLot(c) ==
  LET p == payload[c] IN
  /\ pc[c] = "lock"
  /\ Exists(p.lot)
  /\ Free(p.lot)
  /\ CanApply(p.lot, p)
  /\ lock' = [lock EXCEPT ![p.lot] = c]
  /\ target' = [target EXCEPT ![c] = p.lot]
  /\ quantity' = [quantity EXCEPT ![c] = quantity_on_hand[p.lot] + p.amount]
  /\ pc' = [pc EXCEPT ![c] = "commit"]
  /\ UNCHANGED <<tables, archived, payload, reply>>

\* The lot does not exist, or the balance refuses the movement: nothing is
\* written and closing the session frees the lock just taken.
RefuseAdjustment(c) ==
  LET p == payload[c] IN
  /\ pc[c] = "lock"
  /\ \/ /\ ~Exists(p.lot)
        /\ Answer(c, Refusal("not_found"))
     \/ /\ Exists(p.lot)
        /\ Free(p.lot)
        /\ ~CanApply(p.lot, p)
        /\ Answer(c, Refusal("conflict"))
  /\ UNCHANGED <<tables, archived, lock, payload, target, quantity>>

(***************************************************************************)
(* session.commit() of an adjustment: the balance and the movement become  *)
(* visible together, and the lock is released.                             *)
(***************************************************************************)
CommitAdjustment(c) ==
  LET l == target[c] IN
  /\ pc[c] = "commit"
  /\ ~KeyTaken(payload[c])
  /\ quantity_on_hand' = [quantity_on_hand EXCEPT ![l] = quantity[c]]
  /\ inventory_movement' = Added(Movement(c, l, payload[c], quantity[c]))
  /\ lock' = Released(c)
  /\ pc' = [pc EXCEPT ![c] = "committed"]
  /\ UNCHANGED <<unit_of, archived, payload, target, quantity, reply>>

\* session.commit() of a creation: the lot and its PURCHASE movement.
CommitCreation(c) ==
  LET p == payload[c] IN
  /\ pc[c] = "insert"
  /\ ~KeyTaken(p)
  /\ \E l \in Lot \ PurchasedLot :
       /\ ~Exists(l)
       /\ unit_of' = [unit_of EXCEPT ![l] = p.unit]
       /\ quantity_on_hand' = [quantity_on_hand EXCEPT ![l] = p.amount]
       /\ inventory_movement' = Added(Movement(c, l, p, p.amount))
       /\ target' = [target EXCEPT ![c] = l]
  /\ pc' = [pc EXCEPT ![c] = "committed"]
  /\ UNCHANGED <<archived, lock, payload, quantity, reply>>

\* The unique key was taken meanwhile: IntegrityError, and session.rollback().
CommitRefused(c) ==
  /\ pc[c] \in {"commit", "insert"}
  /\ KeyTaken(payload[c])
  /\ lock' = Released(c)
  /\ pc' = [pc EXCEPT ![c] = "replay"]
  /\ UNCHANGED <<tables, archived, payload, target, quantity, reply>>

\* The second search, in the transaction that follows the rollback.
ReplayAfterRollback(c) ==
  /\ pc[c] = "replay"
  /\ \E i \in KeyRows(payload[c]) : Replay(c, inventory_movement[i])
  /\ UNCHANGED <<tables, archived, lock, payload, target, quantity>>

\* After its commit an adjustment answers the balance it computed; a creation
\* answers the row that session.refresh(lot) reads again.
Respond(c) ==
  /\ pc[c] = "committed"
  /\ Answer(c, Accepted(target[c], IF payload[c].operation = Create
                                   THEN quantity_on_hand[target[c]]
                                   ELSE quantity[c]))
  /\ UNCHANGED <<tables, archived, lock, payload, target, quantity>>

\* The worker dies or the connection is lost: PostgreSQL rolls back what was
\* not committed, and the caller never learns what happened.
Crash(c) ==
  /\ pc[c] # "done" /\ pc[c] # "lost"
  /\ pc' = [pc EXCEPT ![c] = "lost"]
  /\ lock' = Released(c)
  /\ UNCHANGED <<tables, archived, payload, target, quantity, reply>>

Step(c) ==
  \/ RefuseArchived(c) \/ LookupHit(c) \/ LookupMiss(c)
  \/ LockLot(c) \/ RefuseAdjustment(c)
  \/ CommitAdjustment(c) \/ CommitCreation(c) \/ CommitRefused(c)
  \/ ReplayAfterRollback(c) \/ Respond(c)

-----------------------------------------------------------------------------
(***************************************************************************)
(* The other writers of the two tables, each one committed transaction:    *)
(* shopping's purchase_item inserts a lot with its movement, completion's  *)
(* _write_movement changes a balance under the lock of the lot.            *)
(***************************************************************************)
OtherRow(l, d, u) ==
  [operation |-> "other", lot |-> l, amount |-> d, unit |-> u, key |-> NoKey]

PurchaseItem(l, q, u) ==
  /\ Len(inventory_movement) < MaxMovements
  /\ ~Exists(l)
  /\ unit_of' = [unit_of EXCEPT ![l] = u]
  /\ quantity_on_hand' = [quantity_on_hand EXCEPT ![l] = q]
  /\ inventory_movement' = Added(Movement(NoCall, l, OtherRow(l, q, u), q))
  /\ UNCHANGED <<archived, lock, pc, payload, target, quantity, reply>>

WriteMovement(l, d) ==
  LET q == quantity_on_hand[l] + d IN
  /\ Len(inventory_movement) < MaxMovements
  /\ Exists(l)
  /\ Free(l)
  /\ q \in 0..MaxAmount
  /\ quantity_on_hand' = [quantity_on_hand EXCEPT ![l] = q]
  /\ inventory_movement' = Added(Movement(NoCall, l, OtherRow(l, d, unit_of[l]), q))
  /\ UNCHANGED <<unit_of, archived, lock, pc, payload, target, quantity, reply>>

IngredientArchived ==
  /\ ~archived
  /\ archived' = TRUE
  /\ UNCHANGED <<tables, lock, pc, payload, target, quantity, reply>>

Environment ==
  \/ \E l \in PurchasedLot, q \in 1..MaxAmount, u \in Unit : PurchaseItem(l, q, u)
  \/ \E l \in Lot, d \in (-MaxAmount..MaxAmount) \ {0} : WriteMovement(l, d)
  \/ IngredientArchived

\* Every call has been answered or lost.
Terminated == /\ \A c \in Call : pc[c] \in {"done", "lost"}
              /\ UNCHANGED vars

Next == (\E c \in Call : Step(c) \/ Crash(c)) \/ Environment \/ Terminated

\* A worker that does not die keeps running, and PostgreSQL grants a free lock.
Fairness == \A c \in Call : WF_vars(Step(c))

Spec == Init /\ [][Next]_vars
FairSpec == Spec /\ Fairness
-----------------------------------------------------------------------------
Rows == DOMAIN inventory_movement
Row(i) == inventory_movement[i]
MovementType ==
  [lot : Lot, result : 0..MaxAmount, call : Call \cup {NoCall},
   payload : Payload \cup [operation : {"other"}, lot : Lot, unit : Unit,
                           amount : (-MaxAmount..MaxAmount) \ {0}, key : {NoKey}]]
Status == {"none", "ok", "conflict", "not_found"}

\* Every variable has its type; in particular no stored balance is negative or
\* beyond NUMERIC(18,6).
TypeOK ==
  /\ unit_of \in [Lot -> Unit \cup {NoUnit}]
  /\ quantity_on_hand \in [Lot -> 0..MaxAmount]
  /\ inventory_movement \in Seq(MovementType)
  /\ archived \in BOOLEAN
  /\ lock \in [Lot -> Call \cup {NoCall}]
  /\ pc \in [Call -> {"received", "lock", "insert", "commit", "committed",
                     "replay", "done", "lost"}]
  /\ payload \in [Call -> Payload]
  /\ target \in [Call -> Lot \cup {NoLot}]
  /\ quantity \in [Call -> 0..MaxAmount]
  /\ reply \in [Call -> [status : Status, lot : Lot \cup {NoLot},
                        amount : 0..MaxAmount]]

\* Row i is followed by row j on the same lot, with none between.
Follows(i, j) ==
  /\ i < j
  /\ Row(i).lot = Row(j).lot
  /\ \A k \in Rows : i < k /\ k < j => Row(k).lot # Row(i).lot

\* The recorded balances of a lot form a chain that starts at its creation and
\* ends at the cached balance: result_quantity_on_hand is right for every row.
ResultsChain ==
  /\ \A j \in Rows :
       (\A i \in Rows : i < j => Row(i).lot # Row(j).lot)
         => Row(j).result = Row(j).payload.amount
  /\ \A i, j \in Rows :
       Follows(i, j) => Row(j).result = Row(i).result + Row(j).payload.amount
  /\ \A i \in Rows :
       (\A j \in Rows : i < j => Row(j).lot # Row(i).lot)
         => quantity_on_hand[Row(i).lot] = Row(i).result

\* A key takes effect at most once, and so does a call without a key.
EffectAtMostOnce ==
  \A i, j \in Rows :
    \/ HasKeyOf(Row(j), Row(i).payload)
    \/ Row(i).call # NoCall /\ Row(i).call = Row(j).call
    => i = j

\* The balance a call will write is still the one its lock protects.
NoStaleBalance ==
  \A c \in Call : pc[c] = "commit" =>
    /\ lock[target[c]] = c
    /\ quantity[c] = quantity_on_hand[target[c]] + payload[c].amount

\* The row a successful answer reports: the call's own, or the one of its key.
Reported(c, row) ==
  /\ row.lot = reply[c].lot
  /\ \/ row.call = c
     \/ /\ HasKeyOf(row, payload[c])
        /\ fingerprint(row.payload) = fingerprint(payload[c])
  /\ payload[c].operation = Adjust => row.result = reply[c].amount

\* A caller told "ok" finds its movement in the ledger, with the balance it was
\* told; a caller that was refused has changed nothing.
TruthfulAnswers ==
  \A c \in Call :
    /\ reply[c].status = "ok" => \E i \in Rows : Reported(c, Row(i))
    /\ reply[c].status \in {"conflict", "not_found"}
         => \A i \in Rows : Row(i).call # c

\* Every call is answered unless its worker is lost: locks never block for ever.
EveryCallEnds == \A c \in Call : <>(pc[c] \in {"done", "lost"})

Atomic == INSTANCE AtomicLedger
  WITH ledger <- inventory_movement, request <- payload, answer <- reply,
       OtherPayload <- [operation : {"other"}, lot : Lot, unit : Unit,
                        amount : (-MaxAmount..MaxAmount) \ {0}, key : {NoKey}]

\* The locking protocol implements the atomic ledger.
ImplementsAtomicLedger == Atomic!Spec
=============================================================================
