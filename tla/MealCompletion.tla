--------------------------- MODULE MealCompletion ---------------------------
(***************************************************************************)
(* Meal completions: complete_entry, skip_entry, correct_line and          *)
(* reopen_completion of application/completion_service.py.  Each element   *)
(* of Call is one request, run in a READ COMMITTED transaction of its own. *)
(* A transaction takes row locks one at a time: the meal plan or the       *)
(* completion first, then the lots of every line, and keeps them until it  *)
(* ends.  What it writes is visible to itself at once (pending, row,       *)
(* lines) and to the others when it commits.                               *)
(*                                                                         *)
(* A household has a plan for every week, with entries of its own and a    *)
(* row lock of its own; the lots belong to all of them.  A lot exists from *)
(* the start; an empty one and one not bought yet are alike to these       *)
(* queries.                                                                *)
(* InventoryLot.available is never cleared in the source and left out.     *)
(***************************************************************************)
EXTENDS Consumption, FiniteSetsExt

CONSTANTS
  Call,           \* requests in flight
  Plan,           \* the plans, one for each week
  Entry,          \* entries of the plans
  Ingredient,     \* (ingredient, unit) pairs
  Lot,            \* lot identifiers, numbered in the order of their ids
  CompletionId,   \* identifiers of meal_completion rows, a range 1..n
  Key, Request,   \* idempotency keys, and the requests the calls carry
  LotIngredient, ExpirationDate, InitialQuantity,  \* the columns of the lots
  PlanOf,                                          \* the plan of each entry
  Recipe, Servings, BaseServings,                  \* what each entry plans to cook
  LastDay,        \* the clock stops at this day
  MaxOther,       \* bound on the movements of other services
  NoCall, NoKey, NoLine

Complete == "meal_entry_complete"
Skip == "meal_entry_skip"
Correct == "meal_completion_line_correct"
Reopen == "meal_completion_reopen"

\* What the schemas and the foreign keys let through.
RecipeRowType ==
  [ingredient : Ingredient, amount : Nat, optional : BOOLEAN, pantry_staple : BOOLEAN]
WellFormed(q) ==
  /\ q.op \in {Complete, Skip, Correct, Reopen}
  /\ q.op \in {Complete, Skip} => q.entry \in Entry
  /\ q.op \in {Correct, Reopen} => q.completion \in CompletionId
  /\ q.op = Correct => q.ingredient \in Ingredient /\ q.amount \in 1..MaxAmount

ASSUME CompletionAssumption ==
  /\ IsFiniteSet(Lot) /\ IsFiniteSet(Ingredient)
  /\ Lot \subseteq Nat /\ CompletionId \subseteq Nat \ {0}
  /\ LotIngredient \in [Lot -> Ingredient]
  /\ ExpirationDate \in [Lot -> Int \cup {NoDate}]
  /\ InitialQuantity \in [Lot -> 0..MaxAmount]
  /\ PlanOf \in [Entry -> Plan]
  /\ Recipe \in [Entry -> Seq(RecipeRowType)]
  /\ Servings \in [Entry -> Nat \ {0}] /\ BaseServings \in [Entry -> Nat \ {0}]
  /\ LastDay \in Nat
  /\ NoCall \notin Call /\ NoLine \notin CompletionId \X Ingredient
  /\ \A q \in Request : WellFormed(q)

VARIABLES
  today,                 \* date.today()
  plan_state,            \* MealPlan.state of each plan, "approved" or another one
  quantity_on_hand,      \* InventoryLot.quantity_on_hand
  inventory_movement,    \* the committed movement rows
  meal_completion,       \* the committed MealCompletion rows
  actual_amount,         \* MealCompletionLine.actual_amount, 0: no such line
  domain_event,          \* the committed events
  completion_operation,  \* the receipts
  plan_lock, completion_lock, lot_lock,
  pc, request, reply,
  own,      \* the completion a transaction inserted or locked, 0 if none
  row,      \* the version and state it will write to that completion
  lines,    \* the actual amounts it will write to its lines, 0: unchanged
  work,     \* the statements on the inventory it has yet to run
  scan,     \* the lots its current statement has yet to lock
  locked,   \* the lots its current statement has locked
  pending   \* the movements it has written

stock == <<quantity_on_hand, inventory_movement>>
records == <<meal_completion, actual_amount, domain_event, completion_operation>>
world == <<today, plan_state>>
locks == <<plan_lock, completion_lock, lot_lock>>
transaction == <<own, row, lines, work, scan, locked, pending>>
vars == <<stock, records, world, locks, transaction, pc, request, reply>>

NoRow == [version |-> 0, state |-> "absent", outcome |-> "none", entry |-> NoLine]
NoLines == [i \in Ingredient |-> 0]
NoReply == [status |-> "none", completion |-> 0, version |-> 0, state |-> "absent"]
Refusal(status) == [NoReply EXCEPT !.status = status]
Accepted(m, r) ==
  [status |-> "ok", completion |-> m, version |-> r.version, state |-> r.state]

fingerprint(q) == [q EXCEPT !.key = NoKey]

\* The receipt that uq_completion_operation_idempotency finds for a request.
Receipts(q) ==
  {r \in completion_operation :
     q.key # NoKey /\ r.request.op = q.op /\ r.request.key = q.key}

\* ix_meal_completion_recorded_entry: one recorded completion of an entry.
Recorded(e) ==
  {m \in CompletionId : meal_completion[m].state = "recorded" /\ meal_completion[m].entry = e}
HasRecorded(e) == Recorded(e) # {}

\* FOR UPDATE waits while another transaction holds the row.
LockFreeIgnored(holder, c) == TRUE
LockFree(holder, c) == holder \in {NoCall, c}

\* _approved_entry_for_update: the row lock every completion begins with.
PlanFor(c) == PlanOf[request[c].entry]
PlanFreeIgnored(c) == TRUE
PlanFree(c) == LockFree(plan_lock[PlanFor(c)], c)

CompletionFree(c, m) == LockFree(completion_lock[m], c)

Released(lock, c) == [x \in DOMAIN lock |-> IF lock[x] = c THEN NoCall ELSE lock[x]]

\* The movements of a lot or a line, and the sum of their deltas.
SumOfDeltas(movements, rows) == MapThenSumSet(LAMBDA i : movements[i].delta, rows)
OfLot(movements, l) == {i \in DOMAIN movements : movements[i].lot = l}
OfLine(movements, line) == {i \in DOMAIN movements : movements[i].line = line}
OfLineOnLot(movements, line, l) == OfLine(movements, line) \cap OfLot(movements, l)

Balance(c, l) ==
  LET written == OfLot(pending[c], l) IN
  IF written = {} THEN quantity_on_hand[l] ELSE pending[c][Max(written)].result

\* SUM(delta) of a line on a lot, over its consumptions and its reversals.
ConsumedOnly(line, l) ==
  SumOfDeltas(inventory_movement,
              {i \in OfLineOnLot(inventory_movement, line, l) :
                 inventory_movement[i].type = "meal_consumption"})
NetOf(line, l) == SumOfDeltas(inventory_movement, OfLineOnLot(inventory_movement, line, l))

StockLot(c, l) ==
  [id |-> l, quantity |-> Balance(c, l), expires |-> ExpirationDate[l]]
Movement(l, line, delta, result, type) ==
  [lot |-> l, line |-> line, delta |-> delta, result |-> result, type |-> type]

Init ==
  /\ today = 0
  /\ plan_state = [p \in Plan |-> "approved"]
  /\ quantity_on_hand = InitialQuantity
  /\ inventory_movement = <<>>
  /\ meal_completion = [m \in CompletionId |-> NoRow]
  /\ actual_amount = [m \in CompletionId |-> NoLines]
  /\ domain_event = <<>>
  /\ completion_operation = {}
  /\ plan_lock = [p \in Plan |-> NoCall]
  /\ completion_lock = [m \in CompletionId |-> NoCall]
  /\ lot_lock = [l \in Lot |-> NoCall]
  /\ pc = [c \in Call |-> "received"]
  /\ request \in [Call -> Request]
  /\ reply = [c \in Call |-> NoReply]
  /\ own = [c \in Call |-> 0]
  /\ row = [c \in Call |-> NoRow]
  /\ lines = [c \in Call |-> NoLines]
  /\ work = [c \in Call |-> <<>>]
  /\ scan = [c \in Call |-> <<>>]
  /\ locked = [c \in Call |-> {}]
  /\ pending = [c \in Call |-> <<>>]

\* The end of a transaction: its locks and its private state are gone.
EndTransaction(c) ==
  /\ plan_lock' = Released(plan_lock, c)
  /\ completion_lock' = Released(completion_lock, c)
  /\ lot_lock' = Released(lot_lock, c)
  /\ own' = [own EXCEPT ![c] = 0]
  /\ row' = [row EXCEPT ![c] = NoRow]
  /\ lines' = [lines EXCEPT ![c] = NoLines]
  /\ work' = [work EXCEPT ![c] = <<>>]
  /\ scan' = [scan EXCEPT ![c] = <<>>]
  /\ locked' = [locked EXCEPT ![c] = {}]
  /\ pending' = [pending EXCEPT ![c] = <<>>]

Answer(c, r) ==
  /\ reply' = [reply EXCEPT ![c] = r]
  /\ pc' = [pc EXCEPT ![c] = "done"]

\* A DomainError: session.rollback(), and the error goes to the caller.
Refuse(c, status) ==
  /\ Answer(c, Refusal(status))
  /\ EndTransaction(c)
  /\ UNCHANGED <<stock, records, world, request>>

\* _check_receipt: another fingerprint is a conflict, the same one a replay.
Replay(c, r) ==
  IF fingerprint(r.request) # fingerprint(request[c])
  THEN Answer(c, Refusal("key_conflict"))
  ELSE Answer(c, r.result)

FindReceipt(c) ==
  /\ pc[c] = "received"
  /\ \E r \in Receipts(request[c]) : Replay(c, r)
  /\ UNCHANGED <<stock, records, world, locks, transaction, request>>

FindNoReceipt(c) ==
  /\ pc[c] = "received"
  /\ Receipts(request[c]) = {}
  /\ pc' = [pc EXCEPT ![c] = "open"]
  /\ UNCHANGED <<stock, records, world, locks, transaction, request, reply>>

-----------------------------------------------------------------------------
(***************************************************************************)
(* complete_entry and skip_entry up to the insertion of the completion.    *)
(* The row lock on the entry's plan is kept to the end of the transaction. *)
(***************************************************************************)
Approved(c) == plan_state[PlanFor(c)] = "approved"

Deduct(i, amount) == [kind |-> "deduct", ingredient |-> i, amount |-> amount]
Undo(i) == [kind |-> "reverse", ingredient |-> i, amount |-> 0]

Staples(e) == {Recipe[e][i].ingredient : i \in {j \in DOMAIN Recipe[e] : Recipe[e][j].pantry_staple}}
LinesOf(q) ==
  LET planned == planned_lines(Recipe[q.entry], Servings[q.entry], BaseServings[q.entry]) IN
  IF q.op = Skip THEN Result(<<>>)
  ELSE IF ~planned.ok \/ q.actuals = <<>> THEN planned
  ELSE apply_actual_amounts(planned.value, q.actuals, Staples(q.entry))

\* The identifiers are drawn in the order of the insertions.
Unused == {m \in CompletionId : meal_completion[m] = NoRow /\ \A d \in Call : own[d] # m}

RecordCompletion(c) ==
  LET q == request[c]
      m == Min(Unused)
      consumed == LinesOf(q).value
  IN
  /\ pc[c] = "open"
  /\ q.op \in {Complete, Skip}
  /\ PlanFree(c)
  /\ Approved(c)
  /\ LinesOf(q).ok
  /\ ~HasRecorded(q.entry)
  /\ Unused # {}
  /\ plan_lock' = [plan_lock EXCEPT ![PlanFor(c)] = c]
  /\ own' = [own EXCEPT ![c] = m]
  /\ row' = [row EXCEPT ![c] =
               [version |-> 1, state |-> "recorded", entry |-> q.entry,
                outcome |-> IF q.op = Complete THEN "cooked" ELSE "skipped"]]
  /\ work' = [work EXCEPT ![c] = [i \in DOMAIN consumed |->
                                    Deduct(consumed[i].ingredient, consumed[i].actual)]]
  /\ pc' = [pc EXCEPT ![c] = "work"]
  /\ UNCHANGED <<stock, records, world, completion_lock, lot_lock, request, reply,
                 lines, scan, locked, pending>>

RefuseCompletion(c) ==
  LET q == request[c] IN
  /\ pc[c] = "open"
  /\ q.op \in {Complete, Skip}
  /\ PlanFree(c)
  /\ \/ ~Approved(c) /\ Refuse(c, "plan_conflict")
     \/ Approved(c) /\ ~LinesOf(q).ok /\ Refuse(c, "invalid")
     \/ /\ Approved(c) /\ LinesOf(q).ok
        /\ HasRecorded(q.entry)
        /\ Refuse(c, "already_recorded")

(***************************************************************************)
(* correct_line and reopen_completion up to the first reversal.            *)
(***************************************************************************)
assert_version(expected, current) == expected = current

\* assert_version and apply_completion_transition, under the row lock.
CanChange(q) ==
  /\ assert_version(q.expected_version, meal_completion[q.completion].version)
  /\ meal_completion[q.completion].state = "recorded"

LineIngredients(m) == {i \in Ingredient : actual_amount[m][i] > 0}
LineExists(q) == q.op = Correct => q.ingredient \in LineIngredients(q.completion)

\* Lines are reopened in the order the database returns them: any order.
Statements(q) ==
  IF q.op = Correct
  THEN {<<Undo(q.ingredient), Deduct(q.ingredient, q.amount)>>}
  ELSE {[n \in DOMAIN s |-> Undo(s[n])] : s \in SetToSeqs(LineIngredients(q.completion))}

ChangedState(q) == IF q.op = Reopen THEN "reopened" ELSE "recorded"

ChangeCompletion(c) ==
  LET q == request[c]
      m == q.completion
  IN
  /\ pc[c] = "open"
  /\ q.op \in {Correct, Reopen}
  /\ meal_completion[m] # NoRow
  /\ CompletionFree(c, m)
  /\ LineExists(q)
  /\ CanChange(q)
  /\ completion_lock' = [completion_lock EXCEPT ![m] = c]
  /\ own' = [own EXCEPT ![c] = m]
  /\ row' = [row EXCEPT ![c] = [meal_completion[m] EXCEPT
                                  !.version = @ + 1, !.state = ChangedState(q)]]
  /\ \E s \in Statements(q) : work' = [work EXCEPT ![c] = s]
  /\ pc' = [pc EXCEPT ![c] = "work"]
  /\ UNCHANGED <<stock, records, world, plan_lock, lot_lock, request, reply,
                 lines, scan, locked, pending>>

RefuseChange(c) ==
  LET q == request[c] IN
  /\ pc[c] = "open"
  /\ q.op \in {Correct, Reopen}
  /\ \/ meal_completion[q.completion] = NoRow /\ Refuse(c, "not_found")
     \/ /\ meal_completion[q.completion] # NoRow
        /\ CompletionFree(c, q.completion)
        /\ \/ ~LineExists(q) /\ Refuse(c, "not_found")
           \/ LineExists(q) /\ ~CanChange(q) /\ Refuse(c, "changed")
-----------------------------------------------------------------------------
(***************************************************************************)
(* The statements on the inventory: _deduct_line with _locked_lots, and    *)
(* _reverse_line_consumption.  A SELECT ... ORDER BY ... FOR UPDATE finds  *)
(* its rows in one snapshot and locks them one by one in their order.      *)
(***************************************************************************)
ScanFEFO(c, i) ==
  LET found == {l \in Lot : LotIngredient[l] = i /\ Balance(c, l) > 0}
      sorted == Sorted({StockLot(c, l) : l \in found}, Earlier)
  IN [n \in DOMAIN sorted |-> sorted[n].id]
ScanReversed(c, i) ==
  Sorted({l \in Lot : NetOf(<<own[c], i>>, l) < 0}, <)

\* A deduction of complete_entry first inserts its line: a second line with
\* the same ingredient and unit breaks uq_meal_completion_line_ingredient.
DuplicateLine(c) ==
  LET s == Head(work[c]) IN
  request[c].op = Complete /\ lines[c][s.ingredient] > 0

BeginStatement(c) ==
  LET s == Head(work[c]) IN
  /\ pc[c] = "work"
  /\ work[c] # <<>>
  /\ ~DuplicateLine(c)
  /\ scan' = [scan EXCEPT ![c] = IF s.kind = "deduct" THEN ScanFEFO(c, s.ingredient)
                                 ELSE ScanReversed(c, s.ingredient)]
  /\ lines' = [lines EXCEPT ![c][s.ingredient] = s.amount]
  /\ pc' = [pc EXCEPT ![c] = "locking"]
  /\ UNCHANGED <<stock, records, world, locks, own, row, work, locked, pending,
                 request, reply>>

RefuseDuplicateLine(c) ==
  /\ pc[c] = "work"
  /\ work[c] # <<>>
  /\ DuplicateLine(c)
  /\ Refuse(c, "already_recorded")

LockNextLot(c) ==
  LET l == Head(scan[c]) IN
  /\ pc[c] = "locking"
  /\ scan[c] # <<>>
  /\ LockFree(lot_lock[l], c)
  /\ lot_lock' = [lot_lock EXCEPT ![l] = c]
  /\ scan' = [scan EXCEPT ![c] = Tail(@)]
  /\ locked' = [locked EXCEPT ![c] = @ \cup {l}]
  /\ UNCHANGED <<stock, records, world, plan_lock, completion_lock, own, row, lines,
                 work, pending, pc, request, reply>>

\* The rows a waiting SELECT returns are checked again once they are locked.
Consumption(c, s) ==
  fefo_allocate({StockLot(c, l) : l \in {k \in locked[c] : Balance(c, k) > 0}},
                s.amount, today)

EndStatement(c, movements) ==
  /\ pending' = [pending EXCEPT ![c] = @ \o movements]
  /\ work' = [work EXCEPT ![c] = Tail(@)]
  /\ locked' = [locked EXCEPT ![c] = {}]
  /\ pc' = [pc EXCEPT ![c] = "work"]
  /\ UNCHANGED <<stock, records, world, locks, own, row, lines, scan, request, reply>>

DeductLine(c) ==
  LET s == Head(work[c])
      allocation == Consumption(c, s)
  IN
  /\ pc[c] = "locking" /\ scan[c] = <<>> /\ s.kind = "deduct"
  /\ \/ /\ allocation.ok
        /\ EndStatement(c, [n \in DOMAIN allocation.value |->
             LET take == allocation.value[n] IN
             Movement(take.lot, <<own[c], s.ingredient>>, -take.amount,
                      Balance(c, take.lot) - take.amount, "meal_consumption")])
     \/ ~allocation.ok /\ Refuse(c, "insufficient")

Reversal(c, l, i) ==
  LET net == NetOf(<<own[c], i>>, l) IN
  Movement(l, <<own[c], i>>, -net, Balance(c, l) - net, "reversal")

\* LedgerBalance.apply: the balance stays in the range of NUMERIC(18,6).
Fits(movement) == movement.result <= MaxAmount

ReverseLine(c) ==
  LET s == Head(work[c])
      reversals == {Reversal(c, l, s.ingredient) : l \in locked[c]}
  IN
  /\ pc[c] = "locking" /\ scan[c] = <<>> /\ s.kind = "reverse"
  /\ \/ /\ \A v \in reversals : Fits(v)
        /\ EndStatement(c, Sorted(reversals, LAMBDA a, b : a.lot < b.lot))
     \/ /\ \E v \in reversals : ~Fits(v)
        /\ Refuse(c, "balance")
-----------------------------------------------------------------------------
(***************************************************************************)
(* _commit_or_replay.  The event, the receipt and everything written       *)
(* before become visible at once, and the locks are released.              *)
(***************************************************************************)
Kind(op) == CASE op \in {Complete, Skip} -> "meal_completed"
              [] op = Correct -> "meal_line_corrected"
              [] op = Reopen -> "meal_reopened"

Commit(c) ==
  LET q == request[c]
      m == own[c]
      result == Accepted(m, row[c])
  IN
  /\ pc[c] = "work"
  /\ work[c] = <<>>
  /\ Receipts(q) = {}
  /\ quantity_on_hand' = [l \in Lot |-> Balance(c, l)]
  /\ inventory_movement' = inventory_movement \o pending[c]
  /\ meal_completion' = [meal_completion EXCEPT ![m] = row[c]]
  /\ actual_amount' = [actual_amount EXCEPT ![m] =
                         [i \in Ingredient |-> IF lines[c][i] > 0 THEN lines[c][i] ELSE @[i]]]
  /\ domain_event' = Append(domain_event, [kind |-> Kind(q.op), completion |-> m, call |-> c])
  /\ completion_operation' = completion_operation \cup
       (IF q.key = NoKey THEN {} ELSE {[request |-> q, result |-> result]})
  /\ Answer(c, result)
  /\ EndTransaction(c)
  /\ UNCHANGED <<world, request>>

\* IntegrityError on the receipt: rollback, then the receipt is read again.
CommitRefused(c) ==
  /\ pc[c] = "work"
  /\ work[c] = <<>>
  /\ \E r \in Receipts(request[c]) : Replay(c, r)
  /\ EndTransaction(c)
  /\ UNCHANGED <<stock, records, world, request>>

(***************************************************************************)
(* Waiting.  PostgreSQL breaks a cycle of waiting transactions by aborting *)
(* one of them; the OperationalError is not caught and the caller gets an  *)
(* internal error.                                                         *)
(***************************************************************************)
WaitsFor(c) ==
  CASE pc[c] = "open" /\ request[c].op \in {Complete, Skip} -> plan_lock[PlanFor(c)]
    [] pc[c] = "open" /\ request[c].op \in {Correct, Reopen} ->
         completion_lock[request[c].completion]
    [] pc[c] = "locking" /\ scan[c] # <<>> -> lot_lock[Head(scan[c])]
    [] OTHER -> NoCall

Deadlocked(c) ==
  \E S \in SUBSET Call : c \in S /\ {WaitsFor(d) : d \in S} = S /\ WaitsFor(c) # c

AbortDeadlocked(c) == Deadlocked(c) /\ Refuse(c, "error")

\* The worker dies or the connection is lost before the commit.
Crash(c) ==
  /\ pc[c] # "done" /\ pc[c] # "lost"
  /\ pc' = [pc EXCEPT ![c] = "lost"]
  /\ EndTransaction(c)
  /\ UNCHANGED <<stock, records, world, request, reply>>

Step(c) ==
  \/ FindReceipt(c) \/ FindNoReceipt(c)
  \/ RecordCompletion(c) \/ RefuseCompletion(c)
  \/ ChangeCompletion(c) \/ RefuseChange(c)
  \/ BeginStatement(c) \/ RefuseDuplicateLine(c) \/ LockNextLot(c)
  \/ DeductLine(c) \/ ReverseLine(c)
  \/ Commit(c) \/ CommitRefused(c) \/ AbortDeadlocked(c)
-----------------------------------------------------------------------------
(***************************************************************************)
(* The environment: adjustments and purchases of the inventory service,    *)
(* the life cycle of a plan (both under their row locks), and the clock.   *)
(***************************************************************************)
OtherRows == {i \in DOMAIN inventory_movement : inventory_movement[i].line = NoLine}

OtherMovement(l, d) ==
  /\ Cardinality(OtherRows) < MaxOther
  /\ LockFree(lot_lock[l], NoCall)
  /\ quantity_on_hand[l] + d \in 0..MaxAmount
  /\ quantity_on_hand' = [quantity_on_hand EXCEPT ![l] = @ + d]
  /\ inventory_movement' = Append(inventory_movement,
                                    Movement(l, NoLine, d, quantity_on_hand[l] + d, "other"))
  /\ UNCHANGED <<records, world, locks, transaction, pc, request, reply>>

ChangePlan(p) ==
  /\ LockFree(plan_lock[p], NoCall)
  /\ plan_state' = [plan_state EXCEPT ![p] = IF @ = "approved" THEN "draft" ELSE "approved"]
  /\ UNCHANGED <<stock, records, today, locks, transaction, pc, request, reply>>

NextDay ==
  /\ today < LastDay
  /\ today' = today + 1
  /\ UNCHANGED <<stock, records, plan_state, locks, transaction, pc, request, reply>>

Environment ==
  \/ \E l \in Lot, d \in {-1, 1} : OtherMovement(l, d)
  \/ \E p \in Plan : ChangePlan(p)
  \/ NextDay

Terminated == (\A c \in Call : pc[c] \in {"done", "lost"}) /\ UNCHANGED vars

Next == (\E c \in Call : Step(c) \/ Crash(c)) \/ Environment \/ Terminated

Spec == Init /\ [][Next]_vars
-----------------------------------------------------------------------------
LineId == CompletionId \X Ingredient
MovementType ==
  [lot : Lot, line : LineId \cup {NoLine}, delta : -MaxAmount..MaxAmount,
   result : 0..MaxAmount, type : {"meal_consumption", "reversal", "other"}]
State == {"absent", "recorded", "reopened"}
RowType == [version : Nat, state : State, outcome : {"none", "cooked", "skipped"},
            entry : Entry \cup {NoLine}]
Status == {"none", "ok", "key_conflict", "plan_conflict", "invalid", "already_recorded",
           "not_found", "changed", "insufficient", "balance", "error"}

\* Every variable has its type; no stored balance leaves the range of NUMERIC(18,6).
TypeOK ==
  /\ today \in 0..LastDay
  /\ plan_state \in [Plan -> {"approved", "draft"}]
  /\ quantity_on_hand \in [Lot -> 0..MaxAmount]
  /\ inventory_movement \in Seq(MovementType)
  /\ meal_completion \in [CompletionId -> RowType]
  /\ actual_amount \in [CompletionId -> [Ingredient -> 0..MaxAmount]]
  /\ domain_event \in Seq([kind : {"meal_completed", "meal_line_corrected", "meal_reopened"},
                           completion : CompletionId, call : Call])
  /\ plan_lock \in [Plan -> Call \cup {NoCall}]
  /\ completion_lock \in [CompletionId -> Call \cup {NoCall}]
  /\ lot_lock \in [Lot -> Call \cup {NoCall}]
  /\ pc \in [Call -> {"received", "open", "work", "locking", "done", "lost"}]
  /\ reply \in [Call -> [status : Status, completion : CompletionId \cup {0},
                         version : Nat, state : State]]
  /\ own \in [Call -> CompletionId \cup {0}]
  /\ row \in [Call -> RowType]
  /\ lines \in [Call -> [Ingredient -> 0..MaxAmount]]
  /\ \A c \in Call : pending[c] \in Seq(MovementType) /\ locked[c] \subseteq Lot

\* Reconciliation: whatever the transactions interleave, the cached balance of
\* every lot is its initial quantity plus the movements recorded for it.
Reconciliation ==
  \A l \in Lot :
    quantity_on_hand[l] =
      InitialQuantity[l] + SumOfDeltas(inventory_movement, OfLot(inventory_movement, l))

\* FR-005 and FR-006: the movements of a completion line sum to what the line
\* says was consumed while its completion is recorded, and to nothing once it
\* is reopened; on no lot was more given back than taken.
NetConsumption ==
  \A m \in CompletionId, i \in Ingredient :
    LET rows == OfLine(inventory_movement, <<m, i>>)
        on(l) == OfLineOnLot(inventory_movement, <<m, i>>, l)
    IN
    /\ \A l \in Lot : SumOfDeltas(inventory_movement, on(l)) <= 0
    /\ SumOfDeltas(inventory_movement, rows) =
         IF meal_completion[m].state = "recorded" THEN -actual_amount[m][i] ELSE 0

\* Who waits for ever without the database's help waits for a lot.  Completions
\* in a cycle are of different plans.  A cycle of completions alone has lines of
\* different ingredients in it: the lots of one ingredient are locked in one order,
\* whatever they hold when each statement looks, and only the orders of recipes
\* differ.  Every other cycle has a correction or a reopening, which lock by id.
DeadlockTakesTwoOrders ==
  \A S \in (SUBSET Call) \ {{}} :
    {WaitsFor(c) : c \in S} = S =>
      LET completions == {c \in S : request[c].op \in {Complete, Skip}} IN
      /\ \A c \in S : pc[c] = "locking"
      /\ \A c, d \in completions : PlanFor(c) = PlanFor(d) => c = d
      /\ completions = S =>
           \E c, d \in S : Head(work[c]).ingredient # Head(work[d]).ingredient

\* FR-002: a completion appears only while its entry's plan is approved, at the
\* very commit and not only when the request looked at the plan.
RecordedUnderApprovedPlan ==
  [][\A m \in CompletionId :
       meal_completion[m] = NoRow /\ meal_completion'[m] # NoRow
         => plan_state[PlanOf[meal_completion'[m].entry]] = "approved"]_vars

ExpiresSooner(a, b) ==
  /\ ExpirationDate[a] # NoDate
  /\ ExpirationDate[b] = NoDate \/ ExpirationDate[a] < ExpirationDate[b]

\* FR-003: of the lots of an ingredient that a deduction holds, none that
\* expires earlier and is not expired is passed over while a later one is used.
FirstExpiredFirstOut ==
  [][\A c \in Call :
       pc[c] = "locking" /\ pc'[c] = "work" /\ Head(work[c]).kind = "deduct" =>
         \A a, b \in Lot :
           LET used == \E n \in DOMAIN pending'[c] :
                         n > Len(pending[c]) /\ pending'[c][n].lot = b
           IN used =>
                /\ Usable(StockLot(c, b), today)
                /\ \/ LotIngredient[a] # LotIngredient[b] \/ lot_lock[a] # c
                   \/ ~Usable(StockLot(c, a), today)
                   \/ ~ExpiresSooner(a, b)
                   \/ StockLot(c, a)'.quantity = 0]_vars
=============================================================================
