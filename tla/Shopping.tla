------------------------------ MODULE Shopping ------------------------------
(***************************************************************************)
(* The shopping lists of a household: create_shopping_list, purchase_item, *)
(* transition_item and transition_list of application/shopping_service.py, *)
(* over the demand and the stock that demand_forecast reads.               *)
(*                                                                         *)
(* Each element of Call is a worker that serves one request after another, *)
(* each in a READ COMMITTED transaction.  A mutation takes the row lock of *)
(* its list and keeps it until it commits; what it writes is held in write *)
(* until then.  Around the workers meals are planned and cooked.           *)
(*                                                                         *)
(* A request comes over HTTP with the version its client has loaded, or    *)
(* through an MCP tool (mcp |-> TRUE), which loads the list itself.  The   *)
(* session keeps that row: the FOR UPDATE of the service does not refresh  *)
(* it.                                                                     *)
(*                                                                         *)
(* One household and one window are modelled, amounts are whole numbers.   *)
(* An item is known by its list and product (ingredient and unit): the     *)
(* forecast has one line for each.                                         *)
(***************************************************************************)
EXTENDS Integers, Sequences

CONSTANTS
  Call,        \* workers
  ListId,      \* identifiers of shopping_list rows, a range 1..n
  Product,     \* ingredients with their unit
  Amount,      \* amounts a household may demand
  Request,     \* what the members send
  MaxVersion,  \* bound on the mutations of a list: no request is sent beyond it
  MaxLots,     \* bound on the lots that purchases make
  MaxLag,      \* bound on how stale the version of a request is
  NoCall, NoKey

ItemOps == {"purchase", "skip", "restore"}
ListOps == {"complete", "reopen", "archive"}

\* What the request schemas and the arguments of the tools let through.
ASSUME ShoppingAssumption ==
  /\ ListId \subseteq Nat
  /\ Amount \subseteq Nat /\ \A n \in Amount : 0..n \subseteq Amount
  /\ NoCall \notin Call
  /\ \A q \in Request :
       /\ q.mcp \in BOOLEAN
       /\ q.op \in ItemOps \cup ListOps \/ (q.op = "create" /\ ~q.mcp)
       /\ q.op # "create" => q.list \in ListId
       /\ q.op \in ItemOps => q.product \in Product
       /\ q.op = "purchase" => q.quantity \in Nat \ {0}

VARIABLES
  shopping_list,      \* ShoppingList rows: state and version
  shopping_item,      \* ShoppingItem rows, by list and product
  inventory_lot,      \* the lots of purchases with their movements, in order
  shopping_operation, \* receipts
  demand,             \* what approved plans need of each product
  on_hand,            \* what all lots hold of each product
  list_lock,          \* holders of the row locks
  pc, request,
  seen,               \* the row an MCP tool has loaded, without a lock
  projected,          \* the forecast as far as it was read
  write,              \* what the transaction has flushed
  mutations           \* history: how often each list was mutated

rows == <<shopping_list, shopping_item, inventory_lot, shopping_operation>>
kitchen == <<demand, on_hand>>
worker == <<list_lock, pc, request, seen, projected, write>>
vars == <<rows, kitchen, worker, mutations>>

Item == ListId \X Product

NoList == [state |-> "absent", version |-> 0]
NoItem == [status |-> "absent", needed |-> 0, purchased |-> 0]
NoWrite == [list |-> <<>>, item |-> <<>>, lot |-> <<>>]
NoRequest == [op |-> "none", key |-> NoKey, mcp |-> FALSE]
Nothing == [p \in Product |-> 0]

\* A partial function laid over a table, as the rows of an UPDATE are.
Over(changes, table) ==
  [x \in DOMAIN table |-> IF x \in DOMAIN changes THEN changes[x] ELSE table[x]]
Only(x, value) == [y \in {x} |-> value]

Receipts(q) ==
  {r \in shopping_operation : q.key # NoKey /\ r.op = q.op /\ r.key = q.key}

\* SELECT ... FOR UPDATE waits while another transaction holds the row.
ListFreeIgnored(c, l) == TRUE
ListFree(c, l) == list_lock[l] \in {NoCall, c}

\* The end of a transaction releases its locks.
Released(c) == [l \in ListId |-> IF list_lock[l] = c THEN NoCall ELSE list_lock[l]]

Init ==
  /\ shopping_list = [l \in ListId |-> NoList]
  /\ shopping_item = [i \in Item |-> NoItem]
  /\ inventory_lot = <<>>
  /\ shopping_operation = {}
  /\ demand \in [Product -> Amount]
  /\ on_hand = Nothing
  /\ list_lock = [l \in ListId |-> NoCall]
  /\ pc = [c \in Call |-> "idle"]
  /\ request = [c \in Call |-> NoRequest]
  /\ seen = [c \in Call |-> NoList]
  /\ projected = [c \in Call |-> Nothing]
  /\ write = [c \in Call |-> NoWrite]
  /\ mutations = [l \in ListId |-> 0]
-----------------------------------------------------------------------------
(***************************************************************************)
(* A transaction begins with the receipt of its key.  A client names a     *)
(* version that it has loaded.                                             *)
(***************************************************************************)
CanSend(q) ==
  /\ \A l \in ListId : mutations[l] < MaxVersion
  /\ q.op # "create" /\ ~q.mcp =>
       LET version == shopping_list[q.list].version IN
       q.expected_version \in 1..version /\ version - q.expected_version <= MaxLag

Receive(c, q) ==
  /\ pc[c] = "idle"
  /\ CanSend(q)
  /\ Receipts(q) = {}
  /\ pc' = [pc EXCEPT ![c] = IF q.mcp THEN "load" ELSE "open"]
  /\ request' = [request EXCEPT ![c] = q]
  /\ UNCHANGED <<rows, kitchen, list_lock, seen, projected, write, mutations>>

EndTransaction(c) ==
  /\ pc' = [pc EXCEPT ![c] = "idle"]
  /\ request' = [request EXCEPT ![c] = NoRequest]
  /\ seen' = [seen EXCEPT ![c] = NoList]
  /\ projected' = [projected EXCEPT ![c] = Nothing]
  /\ write' = [write EXCEPT ![c] = NoWrite]
  /\ list_lock' = Released(c)

\* A DomainError or a lost connection: everything of the transaction is gone.
Rollback(c) == EndTransaction(c) /\ UNCHANGED <<rows, kitchen, mutations>>

Flush(c, w, locks) ==
  /\ write' = [write EXCEPT ![c] = w]
  /\ pc' = [pc EXCEPT ![c] = "written"]
  /\ list_lock' = locks
  /\ UNCHANGED <<rows, kitchen, request, seen, projected, mutations>>

(***************************************************************************)
(* The tools load the list by its identifier, or the current one (q.list   *)
(* is then the list they find), before they call the service.              *)
(***************************************************************************)
Load(c) ==
  LET l == request[c].list IN
  /\ pc[c] = "load"
  /\ shopping_list[l] # NoList
  /\ seen' = [seen EXCEPT ![c] = shopping_list[l]]
  /\ pc' = [pc EXCEPT ![c] = "open"]
  /\ UNCHANGED <<rows, kitchen, list_lock, request, projected, write, mutations>>

RefuseLoad(c) ==
  pc[c] = "load" /\ shopping_list[request[c].list] = NoList /\ Rollback(c)

\* The row as the session has it under the lock, and the version expected of it.
InSession(c) == IF request[c].mcp THEN seen[c] ELSE shopping_list[request[c].list]
Expected(c) == IF request[c].mcp THEN seen[c].version ELSE request[c].expected_version

-----------------------------------------------------------------------------
(***************************************************************************)
(* create_shopping_list.  The forecast reads demand and stock in           *)
(* statements of their own; what commits between them is seen by halves.   *)
(* The insertion waits for a transaction that has written a list of the    *)
(* window, then ix_shopping_list_active_window decides.                    *)
(***************************************************************************)
ReadDemand(c) ==
  /\ pc[c] = "open" /\ request[c].op = "create"
  /\ projected' = [projected EXCEPT ![c] = demand]
  /\ pc' = [pc EXCEPT ![c] = "demand"]
  /\ UNCHANGED <<rows, kitchen, list_lock, request, seen, write, mutations>>

shortfall_amount(needed, stock) == IF needed > stock THEN needed - stock ELSE 0

ReadStock(c) ==
  /\ pc[c] = "demand"
  /\ projected' = [projected EXCEPT ![c] =
                     [p \in Product |-> shortfall_amount(@[p], on_hand[p])]]
  /\ pc' = [pc EXCEPT ![c] = "projected"]
  /\ UNCHANGED <<rows, kitchen, list_lock, request, seen, write, mutations>>

ActiveLists == {l \in ListId : shopping_list[l].state \in {"open", "completed"}}
WindowSettled(c) == \A d \in Call \ {c} : DOMAIN write[d].list = {}
UnusedLists == {l \in ListId : shopping_list[l] = NoList}

ItemsOf(l, shortfall) ==
  [i \in {<<l, p>> : p \in {p \in Product : shortfall[p] > 0}} |->
     [status |-> "pending", needed |-> shortfall[i[2]], purchased |-> 0]]

CreateList(c) ==
  /\ pc[c] = "projected"
  /\ WindowSettled(c)
  /\ ActiveLists = {}
  /\ \E l \in UnusedLists :
       /\ \A m \in UnusedLists : l <= m
       /\ Flush(c, [NoWrite EXCEPT !.list = Only(l, [state |-> "open", version |-> 1]),
                                   !.item = ItemsOf(l, projected[c])],
                list_lock)

\* The conflict of the flush is raised outside of _commit_or_replay.
RefuseCreation(c) ==
  /\ pc[c] = "projected"
  /\ WindowSettled(c)
  /\ ActiveLists # {} \/ UnusedLists = {}    \* the bound on lists
  /\ Rollback(c)

(***************************************************************************)
(* purchase_item and transition_item, under the lock of the list.          *)
(***************************************************************************)
assert_version(expected, current) == expected = current
can_mutate_items(state) == state = "open"

ItemTransitionOfPurchased(op) ==
  CASE op = "purchase" -> {"pending", "purchased"}
    [] op = "skip" -> {"pending"}
    [] op = "restore" -> {"skipped", "purchased"}
ItemTransition(op) ==
  CASE op \in {"purchase", "skip"} -> {"pending"}
    [] op = "restore" -> {"skipped"}
ItemTarget(op) ==
  CASE op = "purchase" -> "purchased"
    [] op = "skip" -> "skipped"
    [] op = "restore" -> "pending"

CanChangeItem(c) ==
  LET q == request[c] IN
  /\ assert_version(Expected(c), InSession(c).version)
  /\ can_mutate_items(InSession(c).state)
  /\ shopping_item[<<q.list, q.product>>].status \in ItemTransition(q.op)

Bumped(c, state) ==
  Only(request[c].list, [state |-> state, version |-> InSession(c).version + 1])
Locked(c, q) == [list_lock EXCEPT ![q.list] = c]

Lot(q) == [product |-> q.product, amount |-> q.quantity, source |-> <<q.list, q.product>>]

ChangedItem(q) ==
  LET item == shopping_item[<<q.list, q.product>>] IN
  IF q.op = "purchase"
  THEN [item EXCEPT !.status = "purchased", !.purchased = q.quantity]
  ELSE [item EXCEPT !.status = ItemTarget(q.op)]

ChangeItem(c) ==
  LET q == request[c] IN
  /\ pc[c] = "open" /\ q.op \in ItemOps
  /\ ListFree(c, q.list)
  /\ CanChangeItem(c)
  /\ q.op = "purchase" => Len(inventory_lot) < MaxLots
  /\ Flush(c, [list |-> Bumped(c, shopping_list[q.list].state),
               item |-> Only(<<q.list, q.product>>, ChangedItem(q)),
               lot |-> IF q.op = "purchase" THEN <<Lot(q)>> ELSE <<>>],
           Locked(c, q))

RefuseItem(c) ==
  LET q == request[c] IN
  /\ pc[c] = "open" /\ q.op \in ItemOps
  /\ ListFree(c, q.list)
  /\ ~CanChangeItem(c) \/ (q.op = "purchase" /\ Len(inventory_lot) = MaxLots)
  /\ Rollback(c)

(***************************************************************************)
(* transition_list, under the same lock.                                   *)
(***************************************************************************)
Pending(l) == {p \in Product : shopping_item[<<l, p>>].status = "pending"}

ListTransition(op) ==
  CASE op = "complete" -> {"open"}
    [] op = "reopen" -> {"completed"}
    [] op = "archive" -> {"open", "completed"}
ListTarget(op) ==
  CASE op = "complete" -> "completed"
    [] op = "reopen" -> "open"
    [] op = "archive" -> "archived"

\* A row that was archived meanwhile meets ix_shopping_list_active_window.
CanChangeList(c) ==
  LET q == request[c] IN
  /\ assert_version(Expected(c), InSession(c).version)
  /\ InSession(c).state \in ListTransition(q.op)
  /\ q.op = "complete" => Pending(q.list) = {}
  /\ q.op # "archive" => ActiveLists \subseteq {q.list}

ChangeList(c) ==
  LET q == request[c] IN
  /\ pc[c] = "open" /\ q.op \in ListOps
  /\ ListFree(c, q.list)
  /\ q.op # "archive" => WindowSettled(c)
  /\ CanChangeList(c)
  /\ Flush(c, [NoWrite EXCEPT !.list = Bumped(c, ListTarget(q.op))], Locked(c, q))

RefuseList(c) ==
  LET q == request[c] IN
  /\ pc[c] = "open" /\ q.op \in ListOps
  /\ ListFree(c, q.list)
  /\ ~CanChangeList(c)
  /\ Rollback(c)
-----------------------------------------------------------------------------
(***************************************************************************)
(* _commit_or_replay.  The event of a purchase is written beside its       *)
(* movement and left out.                                                  *)
(***************************************************************************)
Bought(lots, p) == IF lots # <<>> /\ lots[1].product = p THEN lots[1].amount ELSE 0

Commit(c) ==
  LET w == write[c]
      q == request[c]
  IN
  /\ pc[c] = "written"
  /\ Receipts(q) = {}
  /\ shopping_list' = Over(w.list, shopping_list)
  /\ shopping_item' = Over(w.item, shopping_item)
  /\ inventory_lot' = inventory_lot \o w.lot
  /\ on_hand' = [p \in Product |-> on_hand[p] + Bought(w.lot, p)]
  /\ shopping_operation' = shopping_operation \cup (IF q.key = NoKey THEN {} ELSE {q})
  /\ mutations' = [l \in ListId |-> mutations[l] + IF l \in DOMAIN w.list THEN 1 ELSE 0]
  /\ EndTransaction(c)
  /\ UNCHANGED demand

\* uq_shopping_operation_idempotency: the stored answer, or a conflict.
CommitRefused(c) ==
  /\ pc[c] = "written"
  /\ Receipts(request[c]) # {}
  /\ Rollback(c)

Crash(c) == pc[c] # "idle" /\ Rollback(c)

Step(c) ==
  \/ Load(c) \/ RefuseLoad(c)
  \/ ReadDemand(c) \/ ReadStock(c) \/ CreateList(c) \/ RefuseCreation(c)
  \/ ChangeItem(c) \/ RefuseItem(c)
  \/ ChangeList(c) \/ RefuseList(c)
  \/ Commit(c) \/ CommitRefused(c)

(***************************************************************************)
(* The kitchen: a meal is planned, or cooked from stock in one transaction *)
(* of the completion service.                                              *)
(***************************************************************************)
Plan(p) ==
  /\ demand[p] + 1 \in Amount
  /\ demand' = [demand EXCEPT ![p] = @ + 1]
  /\ UNCHANGED <<rows, on_hand, worker, mutations>>

Cook(p) ==
  /\ demand[p] > 0 /\ on_hand[p] > 0
  /\ demand' = [demand EXCEPT ![p] = @ - 1]
  /\ on_hand' = [on_hand EXCEPT ![p] = @ - 1]
  /\ UNCHANGED <<rows, worker, mutations>>

\* Nobody has to send another request.
Quiet == (\A c \in Call : pc[c] = "idle") /\ UNCHANGED vars

Next ==
  \/ \E c \in Call : Step(c) \/ Crash(c) \/ \E q \in Request : Receive(c, q)
  \/ \E p \in Product : Plan(p) \/ Cook(p)
  \/ Quiet

Spec == Init /\ [][Next]_vars
-----------------------------------------------------------------------------
ListType == [state : {"open", "completed", "archived"}, version : Nat \ {0}]
ItemType == [status : {"pending", "purchased", "skipped"}, needed : Nat \ {0}, purchased : Nat]

\* Every variable has its type; a stored item needs a positive amount.
TypeOK ==
  /\ shopping_list \in [ListId -> ListType \cup {NoList}]
  /\ shopping_item \in [Item -> ItemType \cup {NoItem}]
  /\ inventory_lot \in Seq([product : Product, amount : Nat \ {0}, source : Item])
  /\ shopping_operation \subseteq Request
  /\ demand \in [Product -> Amount] /\ on_hand \in [Product -> Nat]
  /\ list_lock \in [ListId -> Call \cup {NoCall}]
  /\ pc \in [Call -> {"idle", "load", "open", "demand", "projected", "written"}]
  /\ request \in [Call -> Request \cup {NoRequest}]
  /\ seen \in [Call -> ListType \cup {NoList}]
  /\ projected \in [Call -> [Product -> Nat]]
  /\ mutations \in [ListId -> Nat]

\* FR-004 and FR-008: an item is purchased exactly when one lot came from it,
\* with the amount the item records; no retry and no race buys it twice.
PurchaseIsStocked ==
  \A i \in Item :
    LET lots == {n \in DOMAIN inventory_lot : inventory_lot[n].source = i} IN
    IF shopping_item[i].status = "purchased"
    THEN \E n \in lots : /\ lots = {n} /\ inventory_lot[n].product = i[2]
                         /\ inventory_lot[n].amount = shopping_item[i].purchased
    ELSE lots = {}

\* FR-006: a completed list has nothing pending, whatever was restored while
\* its completion waited.
CompletedHasNoPending ==
  \A l \in ListId : shopping_list[l].state = "completed" => Pending(l) = {}
=============================================================================
