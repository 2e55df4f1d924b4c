--------------------------- MODULE ShoppingProofs ---------------------------
(***************************************************************************)
(* What Shopping promises for any number of workers, lists and products:   *)
(* an item is purchased exactly when one lot came from it, and a completed *)
(* list has nothing pending.  The first holds whatever the members and the *)
(* agents send; the second needs that no agent restores an item.           *)
(***************************************************************************)
EXTENDS Shopping, SequenceTheorems, TLAPS

(***************************************************************************)
(* The inductive invariant.  What a worker has flushed is still what it    *)
(* would flush on the rows as they are: the lock of its list keeps the     *)
(* others away from them until it commits.                                 *)
(***************************************************************************)

CreationWritten(c) ==
  /\ request[c].op = "create"
  /\ \E l \in ListId :
       /\ shopping_list[l] = NoList
       /\ write[c] = [list |-> Only(l, [state |-> "open", version |-> 1]),
                      item |-> ItemsOf(l, projected[c]), lot |-> <<>>]

Purchased(q) == IF q.op = "purchase" THEN <<Lot(q)>> ELSE <<>>

ItemWritten(c) ==
  LET q == request[c] IN
  /\ q.op \in ItemOps
  /\ list_lock[q.list] = c
  /\ shopping_item[<<q.list, q.product>>].status \in ItemTransition(q.op)
  /\ q.op = "restore" /\ ~q.mcp => shopping_list[q.list].state = "open"
  /\ write[c] = [list |-> Bumped(c, shopping_list[q.list].state),
                 item |-> Only(<<q.list, q.product>>, ChangedItem(q)),
                 lot |-> Purchased(q)]

ListWritten(c) ==
  LET q == request[c] IN
  /\ q.op \in ListOps
  /\ list_lock[q.list] = c
  /\ q.op = "complete" => Pending(q.list) = {}
  /\ write[c] = [list |-> Bumped(c, ListTarget(q.op)), item |-> <<>>, lot |-> <<>>]

\* A request that names a list found one: rows are never deleted.
Session(c) ==
  /\ pc[c] # "idle" => request[c] \in Request
  /\ pc[c] \in {"demand", "projected"} => request[c].op = "create"
  /\ pc[c] = "load" => request[c].op # "create"
  /\ pc[c] \in {"open", "written"} /\ request[c].op # "create"
       => shopping_list[request[c].list] # NoList
  /\ pc[c] = "written" => CreationWritten(c) \/ ItemWritten(c) \/ ListWritten(c)

Creates(c) == pc[c] = "written" /\ request[c].op = "create"
OneCreation == \A c, d \in Call : Creates(c) /\ Creates(d) => c = d

ItemsBelong ==
  \A l \in ListId, p \in Product :
    shopping_list[l] = NoList => shopping_item[<<l, p>>] = NoItem

Types == TypeOK /\ write = [c \in Call |-> write[c]]
Sessions == (\A c \in Call : Session(c)) /\ OneCreation
IInv == Types /\ ItemsBelong /\ PurchaseIsStocked /\ Sessions
-----------------------------------------------------------------------------
(***************************************************************************)
(* What the helpers of the module do to a table.                           *)
(***************************************************************************)

LEMMA OverNothing ==
  ASSUME NEW S, NEW T, NEW table \in [S -> T]
  PROVE  Over(<<>>, table) = table
<1>1. DOMAIN <<>> = {}  OBVIOUS
<1> QED  BY <1>1 DEF Over

LEMMA ProductTyped ==
  ASSUME NEW q \in Request
  PROVE  /\ q.mcp \in BOOLEAN
         /\ q.op \in ItemOps \cup ListOps \cup {"create"}
         /\ q.op = "create" => ~q.mcp
         /\ q.op # "create" => q.list \in ListId
         /\ q.op \in ItemOps => <<q.list, q.product>> \in Item /\ q.product \in Product
         /\ q.op = "purchase" => q.quantity \in Nat \ {0}
<1>1. /\ q.mcp \in BOOLEAN
      /\ q.op \in ItemOps \cup ListOps \/ (q.op = "create" /\ ~q.mcp)
      /\ q.op # "create" => q.list \in ListId
      /\ q.op \in ItemOps => q.product \in Product
      /\ q.op = "purchase" => q.quantity \in Nat \ {0}
  BY ShoppingAssumption
<1>2. q.op \in ItemOps => q.op # "create"
  BY DEF ItemOps
<1> QED  BY <1>1, <1>2 DEF Item, ListOps

LEMMA ChangedItemIs ==
  ASSUME NEW q, shopping_item[<<q.list, q.product>>] \in ItemType
  PROVE  /\ ChangedItem(q).status = IF q.op = "purchase" THEN "purchased" ELSE ItemTarget(q.op)
         /\ q.op = "purchase" => ChangedItem(q).purchased = q.quantity
<1> DEFINE item == shopping_item[<<q.list, q.product>>]
<1>1. ChangedItem(q) = IF q.op = "purchase"
                       THEN [item EXCEPT !.status = "purchased", !.purchased = q.quantity]
                       ELSE [item EXCEPT !.status = ItemTarget(q.op)]
  BY DEF ChangedItem
<1> HIDE DEF item
<1>2. item \in ItemType
  BY DEF item
<1> QED  BY <1>1, <1>2 DEF ItemType

LEMMA ListTypes ==
  ASSUME NEW s \in {"open", "completed", "archived"}, NEW n \in Nat \ {0}
  PROVE  [state |-> s, version |-> n] \in ListType
BY DEF ListType

LEMMA NoListIsNone == NoList \notin ListType
BY DEF NoList, ListType

\* The version that a mutation writes is a version of a stored row.
LEMMA BumpedVersion ==
  ASSUME Types, NEW c \in Call, request[c] \in Request, request[c].op # "create"
  PROVE  InSession(c).version + 1 \in Nat \ {0}
<1>1. shopping_list[request[c].list] \in ListType \cup {NoList}
  BY ProductTyped DEF Types, TypeOK
<1>2. seen[c] \in ListType \cup {NoList}
  BY DEF Types, TypeOK
<1>3. InSession(c) \in ListType \cup {NoList}
  BY <1>1, <1>2 DEF InSession
<1>4. InSession(c).version \in Nat
  BY <1>3 DEF ListType, NoList
<1> QED  BY <1>4
-----------------------------------------------------------------------------
(***************************************************************************)
(* The steps of one worker that leave the rows alone.                      *)
(***************************************************************************)

\* The other workers keep their transactions and their locks.
Aside(c) ==
  /\ \A d \in Call \ {c} :
       /\ pc'[d] = pc[d] /\ request'[d] = request[d] /\ seen'[d] = seen[d]
       /\ projected'[d] = projected[d] /\ write'[d] = write[d]
  /\ \A l \in ListId : list_lock[l] \in Call \ {c} => list_lock'[l] = list_lock[l]

LEMMA SessionStays ==
  ASSUME NEW d \in Call, Types, Session(d),
         pc'[d] = pc[d], request'[d] = request[d], seen'[d] = seen[d],
         projected'[d] = projected[d], write'[d] = write[d],
         \A l \in ListId : list_lock[l] = d => list_lock'[l] = d,
         Creates(d) => \A l \in ListId : shopping_list[l] = NoList => shopping_list'[l] = NoList,
         \A l \in ListId : shopping_list[l] # NoList => shopping_list'[l] # NoList,
         \A l \in ListId : list_lock[l] = d /\ shopping_list[l] # NoList =>
            /\ shopping_list'[l] = shopping_list[l]
            /\ \A p \in Product : shopping_item'[<<l, p>>] = shopping_item[<<l, p>>]
  PROVE  Session(d)'
<1> DEFINE q == request[d]
<1>1. /\ pc[d] # "idle" => request[d] \in Request
      /\ pc[d] \in {"demand", "projected"} => request[d].op = "create"
      /\ pc[d] = "load" => request[d].op # "create"
      /\ pc[d] \in {"open", "written"} /\ request[d].op # "create"
           => shopping_list[request[d].list] # NoList
  BY DEF Session
<1>2. pc[d] \in {"open", "written"} => pc[d] # "idle"
  OBVIOUS
<1>3. pc'[d] \in {"open", "written"} /\ request'[d].op # "create"
        => shopping_list'[request'[d].list] # NoList
  BY <1>1, <1>2, ProductTyped
<1>4. ASSUME pc[d] = "written", CreationWritten(d)
      PROVE  CreationWritten(d)'
  BY <1>4 DEF CreationWritten, Creates
<1>5. ASSUME pc[d] = "written", ItemWritten(d)
      PROVE  ItemWritten(d)'
  <2>1. /\ q \in Request /\ q.op \in ItemOps /\ list_lock[q.list] = d
        /\ shopping_list[q.list] # NoList
    BY <1>5, <1>1 DEF ItemWritten, ItemOps
  <2>2. q.list \in ListId /\ q.product \in Product
    BY <2>1, ProductTyped DEF ItemOps
  <2>3. /\ shopping_list'[q.list] = shopping_list[q.list]
        /\ shopping_item'[<<q.list, q.product>>] = shopping_item[<<q.list, q.product>>]
        /\ list_lock'[q.list] = d
    BY <2>1, <2>2
  <2>4. InSession(d)' = InSession(d)
    BY <2>3 DEF InSession
  <2>5. ChangedItem(q)' = ChangedItem(q)
    BY <2>3 DEF ChangedItem
  <2>6. Bumped(d, shopping_list[q.list].state)' = Bumped(d, shopping_list[q.list].state)
    BY <2>3, <2>4 DEF Bumped
  <2> QED  BY <1>5, <2>3, <2>5, <2>6 DEF ItemWritten
<1>6. ASSUME pc[d] = "written", ListWritten(d)
      PROVE  ListWritten(d)'
  <2>1. /\ q \in Request /\ q.op \in ListOps /\ list_lock[q.list] = d
        /\ shopping_list[q.list] # NoList
    BY <1>6, <1>1 DEF ListWritten, ListOps
  <2>2. q.list \in ListId
    BY <2>1, ProductTyped DEF ListOps
  <2>3. /\ shopping_list'[q.list] = shopping_list[q.list]
        /\ \A p \in Product : shopping_item'[<<q.list, p>>] = shopping_item[<<q.list, p>>]
        /\ list_lock'[q.list] = d
    BY <2>1, <2>2
  <2>4. InSession(d)' = InSession(d)
    BY <2>3 DEF InSession
  <2>5. Pending(q.list)' = Pending(q.list)
    BY <2>3 DEF Pending
  <2>6. Bumped(d, ListTarget(q.op))' = Bumped(d, ListTarget(q.op))
    BY <2>4 DEF Bumped
  <2> QED  BY <1>6, <2>3, <2>5, <2>6 DEF ListWritten
<1> QED  BY <1>1, <1>3, <1>4, <1>5, <1>6 DEF Session

\* A step of c that leaves the rows alone has to account for c only.
LEMMA WorkerStep ==
  ASSUME IInv, NEW c \in Call, Aside(c), UNCHANGED rows,
         Types', Session(c)',
         Creates(c)' => \A d \in Call \ {c} : ~Creates(d)
  PROVE  IInv'
<1>1. ASSUME NEW d \in Call PROVE Session(d)'
  <2>1. CASE d = c
    BY <2>1
  <2>2. CASE d # c
    <3>1. \A l \in ListId : list_lock[l] = d => list_lock'[l] = d
      BY <2>2 DEF Aside
    <3>2. Session(d) /\ Types
      BY DEF IInv, Sessions
    <3> QED  BY <2>2, <3>1, <3>2, SessionStays DEF Aside, rows
  <2> QED  BY <2>1, <2>2
<1>2. OneCreation'
  <2>1. ASSUME NEW d \in Call \ {c} PROVE Creates(d)' <=> Creates(d)
    BY DEF Aside, Creates
  <2>2. SUFFICES ASSUME NEW d \in Call, NEW e \in Call, Creates(d)', Creates(e)'
                 PROVE  d = e
    BY DEF OneCreation
  <2> QED  BY <2>1, <2>2 DEF IInv, Sessions, OneCreation
<1>3. ItemsBelong' /\ PurchaseIsStocked'
  BY DEF IInv, ItemsBelong, PurchaseIsStocked, rows
<1> QED  BY <1>1, <1>2, <1>3 DEF IInv, Sessions
-----------------------------------------------------------------------------
LEMMA InitIInv == Init => IInv
<1> SUFFICES ASSUME Init PROVE IInv
  OBVIOUS
<1> USE DEF Init
<1>1. Types
  <2>1. \A p \in Product : Nothing[p] = 0
    BY DEF Nothing
  <2>2. Nothing \in [Product -> Nat]
    BY DEF Nothing
  <2> QED  BY <2>1, <2>2 DEF Types, TypeOK
<1>2. ItemsBelong
  BY DEF ItemsBelong, Item
<1>3. PurchaseIsStocked
  <2>1. \A i \in Item : shopping_item[i].status # "purchased"
    BY DEF NoItem
  <2>2. DOMAIN inventory_lot = {}
    OBVIOUS
  <2> QED  BY <2>1, <2>2 DEF PurchaseIsStocked
<1>4. Sessions
  BY DEF Sessions, Session, OneCreation, Creates
<1> QED  BY <1>1, <1>2, <1>3, <1>4 DEF IInv

LEMMA ReceiveStep ==
  ASSUME IInv, NEW c \in Call, NEW q \in Request, Receive(c, q)
  PROVE  IInv'
<1> USE DEF Receive
<1>1. Types /\ Session(c)
  BY DEF IInv, Sessions
<1>2. Aside(c) /\ UNCHANGED rows
  BY <1>1 DEF Aside, Types, TypeOK
<1>3. Types'
  BY <1>1 DEF Types, TypeOK, rows, kitchen
<1>4. pc'[c] = (IF q.mcp THEN "load" ELSE "open") /\ request'[c] = q
  BY <1>1 DEF Types, TypeOK
<1>5. q.op # "create" /\ ~q.mcp => shopping_list[q.list] # NoList
  <2>1. SUFFICES ASSUME q.op # "create", ~q.mcp, shopping_list[q.list] = NoList
                 PROVE  FALSE
    OBVIOUS
  <2>2. q.expected_version \in 1..0
    BY <2>1 DEF CanSend, NoList
  <2> QED  BY <2>2
<1>6. Session(c)'
  <2>1. q.mcp => q.op # "create"
    BY ProductTyped
  <2> QED  BY <1>4, <1>5, <2>1 DEF Session, rows
<1> QED  BY <1>2, <1>3, <1>4, <1>6, WorkerStep DEF Creates

LEMMA RollbackStep ==
  ASSUME IInv, NEW c \in Call, Rollback(c)
  PROVE  IInv'
<1> USE DEF Rollback, EndTransaction
<1>1. Types
  BY DEF IInv
<1>2. Aside(c) /\ UNCHANGED rows
  BY <1>1 DEF Aside, Types, TypeOK, Released
<1>3. list_lock' \in [ListId -> Call \cup {NoCall}]
  BY <1>1 DEF Released, Types, TypeOK
<1>4. Nothing \in [Product -> Nat]
  BY DEF Nothing
<1>5. Types'
  BY <1>1, <1>3, <1>4 DEF Types, TypeOK, rows, kitchen
<1>6. pc'[c] = "idle"
  BY <1>1 DEF Types, TypeOK
<1> QED  BY <1>2, <1>5, <1>6, WorkerStep DEF Creates, Session

LEMMA ReadStep ==
  ASSUME IInv, NEW c \in Call, Load(c) \/ ReadDemand(c) \/ ReadStock(c)
  PROVE  IInv'
<1>1. Types /\ Session(c)
  BY DEF IInv, Sessions
<1>2. request[c] \in Request /\ (pc[c] = "demand" => request[c].op = "create")
      /\ (pc[c] = "load" => request[c].op # "create" /\ request[c].list \in ListId)
  BY <1>1, ProductTyped DEF Session, Load, ReadDemand, ReadStock
<1>3. CASE Load(c)
  <2> USE <1>3 DEF Load
  <2>1. Aside(c) /\ UNCHANGED rows
    BY <1>1 DEF Aside, Types, TypeOK
  <2>2. shopping_list[request[c].list] \in ListType \cup {NoList}
    BY <1>1, <1>2 DEF Types, TypeOK
  <2>3. Types'
    BY <1>1, <2>2 DEF Types, TypeOK, rows, kitchen
  <2>4. pc'[c] = "open"
    BY <1>1 DEF Types, TypeOK
  <2> QED  BY <1>2, <2>1, <2>3, <2>4, WorkerStep DEF Creates, Session, rows
<1>4. CASE ReadDemand(c)
  <2> USE <1>4 DEF ReadDemand
  <2>1. Aside(c) /\ UNCHANGED rows
    BY <1>1 DEF Aside, Types, TypeOK
  <2>2. demand \in [Product -> Nat]
    BY <1>1, ShoppingAssumption DEF Types, TypeOK
  <2>3. Types'
    BY <1>1, <2>2 DEF Types, TypeOK, rows, kitchen
  <2>4. pc'[c] = "demand"
    BY <1>1 DEF Types, TypeOK
  <2> QED  BY <1>2, <2>1, <2>3, <2>4, WorkerStep DEF Creates, Session, rows
<1>5. CASE ReadStock(c)
  <2> USE <1>5 DEF ReadStock
  <2>1. Aside(c) /\ UNCHANGED rows
    BY <1>1 DEF Aside, Types, TypeOK
  <2> DEFINE short == [p \in Product |-> shortfall_amount(projected[c][p], on_hand[p])]
  <2>2. ASSUME NEW n \in Nat, NEW m \in Nat PROVE shortfall_amount(n, m) \in Nat
    BY DEF shortfall_amount
  <2>3. short \in [Product -> Nat]
    BY <1>1, <2>2 DEF Types, TypeOK
  <2>4. projected' = [projected EXCEPT ![c] = short]
    OBVIOUS
  <2> HIDE DEF short
  <2>5. projected' \in [Call -> [Product -> Nat]]
    BY <1>1, <2>3, <2>4 DEF Types, TypeOK
  <2>6. Types'
    BY <1>1, <2>5 DEF Types, TypeOK, rows, kitchen
  <2>7. pc'[c] = "projected"
    BY <1>1 DEF Types, TypeOK
  <2> QED  BY <1>2, <2>1, <2>6, <2>7, WorkerStep DEF Creates, Session, rows
<1> QED  BY <1>3, <1>4, <1>5

LEMMA CreateStep ==
  ASSUME IInv, NEW c \in Call, CreateList(c)
  PROVE  IInv'
<1> USE DEF CreateList, Flush
<1>1. Types /\ \A d \in Call : Session(d)
  BY DEF IInv, Sessions
<1>2. PICK l \in ListId :
        /\ shopping_list[l] = NoList
        /\ write' = [write EXCEPT ![c] =
                       [NoWrite EXCEPT !.list = Only(l, [state |-> "open", version |-> 1]),
                                       !.item = ItemsOf(l, projected[c])]]
  BY DEF UnusedLists
<1>3. Aside(c) /\ UNCHANGED rows /\ UNCHANGED <<request, projected>>
  BY <1>1 DEF Aside, Types, TypeOK
<1>4. Types'
  BY <1>1 DEF Types, TypeOK, rows, kitchen
<1>5. request[c] \in Request /\ request[c].op = "create"
  BY <1>1 DEF Session
<1>6. write'[c] = [list |-> Only(l, [state |-> "open", version |-> 1]),
                   item |-> ItemsOf(l, projected[c]), lot |-> <<>>]
  <2>1. write'[c] = [NoWrite EXCEPT !.list = Only(l, [state |-> "open", version |-> 1]),
                                    !.item = ItemsOf(l, projected[c])]
    BY <1>1, <1>2 DEF Types
  <2> QED  BY <2>1 DEF NoWrite
<1>8. CreationWritten(c)'
  BY <1>2, <1>3, <1>5, <1>6 DEF CreationWritten, rows
<1>9. Session(c)'
  BY <1>1, <1>3, <1>5, <1>8 DEF Session, Types, TypeOK
<1>10. ASSUME NEW d \in Call \ {c} PROVE ~Creates(d)
  <2>1. SUFFICES ASSUME Creates(d) PROVE FALSE
    OBVIOUS
  <2>2. CreationWritten(d)
    BY <1>1, <2>1 DEF Session, Creates, ItemWritten, ListWritten, ItemOps, ListOps
  <2>3. PICK m \in ListId : write[d].list = Only(m, [state |-> "open", version |-> 1])
    BY <2>2 DEF CreationWritten
  <2>4. m \in DOMAIN write[d].list
    BY <2>3 DEF Only
  <2> QED  BY <2>4 DEF WindowSettled
<1> QED  BY <1>3, <1>4, <1>9, <1>10, WorkerStep

LEMMA ChangeStep ==
  ASSUME IInv, NEW c \in Call, ChangeItem(c) \/ ChangeList(c)
  PROVE  IInv'
<1> DEFINE q == request[c]
<1>1. Types /\ Session(c)
  BY DEF IInv, Sessions
<1>2. /\ pc[c] = "open" /\ q.op \in ItemOps \cup ListOps
      /\ list_lock[q.list] \in {NoCall, c} /\ list_lock' = [list_lock EXCEPT ![q.list] = c]
      /\ UNCHANGED <<rows, kitchen, request, seen, projected, mutations>>
      /\ pc' = [pc EXCEPT ![c] = "written"] /\ write' = [write EXCEPT ![c] = write'[c]]
  <2>1. ASSUME NEW w, write' = [write EXCEPT ![c] = w]
        PROVE  write' = [write EXCEPT ![c] = write'[c]]
    BY <1>1, <2>1 DEF Types
  <2> QED  BY <2>1 DEF ChangeItem, ChangeList, Flush, ListFree, Locked
<1>3. /\ q \in Request /\ q.op # "create" /\ q.list \in ListId
      /\ shopping_list[q.list] # NoList
      /\ q.op \in ItemOps => <<q.list, q.product>> \in Item
  BY <1>1, <1>2, ProductTyped DEF Session, ItemOps, ListOps
<1>4. Aside(c)
  <2>1. ASSUME NEW l \in ListId, list_lock[l] \in Call \ {c}
        PROVE  list_lock'[l] = list_lock[l]
    <3>1. list_lock[l] # NoCall
      BY <2>1, ShoppingAssumption
    <3> QED  BY <1>1, <1>2, <1>3, <2>1, <3>1 DEF Types, TypeOK
  <2> QED  BY <1>1, <1>2, <2>1 DEF Aside, Types, TypeOK
<1>5. Types'
  <2>1. list_lock' \in [ListId -> Call \cup {NoCall}]
    BY <1>1, <1>2 DEF Types, TypeOK
  <2>2. write' = [d \in Call |-> write'[d]]
    BY <1>1, <1>2 DEF Types
  <2>3. pc' \in [Call -> {"idle", "load", "open", "demand", "projected", "written"}]
    BY <1>1, <1>2 DEF Types, TypeOK
  <2> QED  BY <1>1, <1>2, <2>1, <2>2, <2>3 DEF Types, TypeOK, rows, kitchen
<1>6. list_lock'[q.list] = c /\ pc'[c] = "written"
  BY <1>1, <1>2, <1>3 DEF Types, TypeOK
<1>7. InSession(c)' = InSession(c)
  BY <1>2 DEF InSession, rows
<1>8. CASE ChangeItem(c)
  <2>1. write'[c] = [list |-> Bumped(c, shopping_list[q.list].state),
                     item |-> Only(<<q.list, q.product>>, ChangedItem(q)),
                     lot |-> Purchased(q)]
    BY <1>1, <1>8 DEF ChangeItem, Flush, Types, Purchased
  <2>2. /\ shopping_item[<<q.list, q.product>>].status \in ItemTransition(q.op)
        /\ can_mutate_items(InSession(c).state) /\ q.op \in ItemOps
    BY <1>8 DEF ChangeItem, CanChangeItem
  <2>3. ~q.mcp => shopping_list[q.list].state = "open"
    BY <2>2 DEF InSession, can_mutate_items
  <2>4. /\ Bumped(c, shopping_list[q.list].state)' = Bumped(c, shopping_list[q.list].state)
        /\ ChangedItem(q)' = ChangedItem(q)
    BY <1>2, <1>7 DEF Bumped, ChangedItem, rows
  <2>5. ItemWritten(c)'
    BY <1>2, <1>6, <2>1, <2>2, <2>3, <2>4 DEF ItemWritten, rows
  <2> QED  BY <1>2, <1>3, <1>4, <1>5, <1>6, <2>5, WorkerStep DEF Session, Creates, rows
<1>9. CASE ChangeList(c)
  <2>1. write'[c] = [list |-> Bumped(c, ListTarget(q.op)), item |-> <<>>, lot |-> <<>>]
    <3>1. write'[c] = [NoWrite EXCEPT !.list = Bumped(c, ListTarget(q.op))]
      BY <1>1, <1>9 DEF ChangeList, Flush, Types
    <3> QED  BY <3>1 DEF NoWrite
  <2>2. (q.op = "complete" => Pending(q.list) = {}) /\ q.op \in ListOps
    BY <1>9 DEF ChangeList, CanChangeList
  <2>3. /\ Bumped(c, ListTarget(q.op))' = Bumped(c, ListTarget(q.op))
        /\ Pending(q.list)' = Pending(q.list)
    BY <1>2, <1>7 DEF Bumped, Pending, rows
  <2>4. ListWritten(c)'
    BY <1>2, <1>6, <2>1, <2>2, <2>3 DEF ListWritten, rows
  <2> QED  BY <1>2, <1>3, <1>4, <1>5, <1>6, <2>4, WorkerStep DEF Session, Creates, rows
<1> QED  BY <1>8, <1>9
-----------------------------------------------------------------------------
(***************************************************************************)
(* A commit: what the rows are after it, for each kind of transaction.     *)
(***************************************************************************)

LEMMA CommitOfCreation ==
  ASSUME IInv, NEW c \in Call, Commit(c), CreationWritten(c)
  PROVE  \E l \in ListId :
           /\ shopping_list[l] = NoList
           /\ shopping_list' = [shopping_list EXCEPT ![l] = [state |-> "open", version |-> 1]]
           /\ shopping_item' \in [Item -> ItemType \cup {NoItem}]
           /\ \A i \in Item : shopping_item'[i] = shopping_item[i]
                \/ (i[1] = l /\ shopping_item'[i].status = "pending")
           /\ inventory_lot' = inventory_lot
           /\ on_hand' \in [Product -> Nat]
<1> DEFINE w == write[c]
<1>1. Types
  BY DEF IInv
<1>2. PICK l \in ListId :
        /\ shopping_list[l] = NoList
        /\ w = [list |-> Only(l, [state |-> "open", version |-> 1]),
                item |-> ItemsOf(l, projected[c]), lot |-> <<>>]
  BY DEF CreationWritten
<1>3. shopping_list' = [shopping_list EXCEPT ![l] = [state |-> "open", version |-> 1]]
  <2>1. shopping_list' = Over(Only(l, [state |-> "open", version |-> 1]), shopping_list)
    BY <1>2 DEF Commit
  <2>2. shopping_list \in [ListId -> ListType \cup {NoList}]
    BY <1>1 DEF Types, TypeOK
  <2> QED  BY <2>1, <2>2 DEF Over, Only
<1>4. projected[c] \in [Product -> Nat]
  BY <1>1 DEF Types, TypeOK
<1> DEFINE items == ItemsOf(l, projected[c])
<1>5. ASSUME NEW i \in DOMAIN items
      PROVE  items[i] \in ItemType /\ items[i].status = "pending" /\ i[1] = l
  <2>1. PICK p \in Product : i = <<l, p>> /\ projected[c][p] > 0
    BY DEF ItemsOf
  <2>2. items[i] = [status |-> "pending", needed |-> projected[c][p], purchased |-> 0]
    BY <2>1 DEF ItemsOf
  <2>3. projected[c][p] \in Nat \ {0}
    BY <1>4, <2>1
  <2> QED  BY <2>1, <2>2, <2>3 DEF ItemType
<1>6. shopping_item' = [i \in Item |-> IF i \in DOMAIN items THEN items[i]
                                                             ELSE shopping_item[i]]
  BY <1>1, <1>2 DEF Commit, Over, Types, TypeOK
<1> HIDE DEF items
<1>7. shopping_item' \in [Item -> ItemType \cup {NoItem}]
  BY <1>1, <1>5, <1>6 DEF Types, TypeOK
<1>8. inventory_lot' = inventory_lot
  BY <1>1, <1>2, ConcatEmptySeq DEF Commit, Types, TypeOK
<1>9. on_hand' \in [Product -> Nat]
  <2>1. \A p \in Product : Bought(w.lot, p) = 0
    BY <1>2 DEF Bought
  <2> QED  BY <1>1, <2>1 DEF Commit, Types, TypeOK
<1> QED  BY <1>2, <1>3, <1>5, <1>6, <1>7, <1>8, <1>9

LEMMA CommitOfItem ==
  ASSUME IInv, NEW c \in Call, Commit(c), ItemWritten(c)
  PROVE  LET q == request[c]
             i == <<q.list, q.product>>
         IN
         /\ q.list \in ListId /\ shopping_list[q.list] \in ListType /\ list_lock[q.list] = c
         /\ \E row \in ListType : /\ row.state = shopping_list[q.list].state
                                  /\ shopping_list' = [shopping_list EXCEPT ![q.list] = row]
         /\ i \in Item /\ shopping_item[i] \in ItemType
         /\ ChangedItem(q) \in ItemType
         /\ shopping_item' = [shopping_item EXCEPT ![i] = ChangedItem(q)]
         /\ IF q.op = "purchase"
            THEN /\ Lot(q) \in [product : Product, amount : Nat \ {0}, source : Item]
                 /\ inventory_lot' = Append(inventory_lot, Lot(q))
            ELSE inventory_lot' = inventory_lot
         /\ on_hand' \in [Product -> Nat]
<1> DEFINE q == request[c]
           i == <<q.list, q.product>>
           w == write[c]
<1>1. Types /\ Session(c) /\ pc[c] = "written"
  BY DEF IInv, Sessions, Commit
<1>2. /\ q.op \in ItemOps /\ list_lock[q.list] = c
      /\ shopping_item[i].status \in ItemTransition(q.op)
      /\ w = [list |-> Bumped(c, shopping_list[q.list].state),
              item |-> Only(i, ChangedItem(q)), lot |-> Purchased(q)]
  BY DEF ItemWritten
<1>3. /\ q \in Request /\ q.op # "create" /\ q.list \in ListId /\ i \in Item
      /\ q.product \in Product /\ (q.op = "purchase" => q.quantity \in Nat \ {0})
  BY <1>1, <1>2, ProductTyped DEF Session, ItemOps
<1>4. shopping_list[q.list] \in ListType
  BY <1>1, <1>3 DEF Session, Types, TypeOK
<1> DEFINE row == [state |-> shopping_list[q.list].state, version |-> InSession(c).version + 1]
<1>5. row \in ListType /\ row.state = shopping_list[q.list].state
  <2>1. InSession(c).version + 1 \in Nat \ {0}
    BY <1>1, <1>3, BumpedVersion
  <2>2. shopping_list[q.list].state \in {"open", "completed", "archived"}
    BY <1>4 DEF ListType
  <2> QED  BY <2>1, <2>2, ListTypes
<1>6. shopping_list' = [shopping_list EXCEPT ![q.list] = row]
  <2>1. shopping_list' = Over(Only(q.list, row), shopping_list)
    BY <1>2 DEF Commit, Bumped
  <2>2. shopping_list \in [ListId -> ListType \cup {NoList}]
    BY <1>1 DEF Types, TypeOK
  <2> HIDE DEF row
  <2> QED  BY <1>3, <2>1, <2>2 DEF Over, Only
<1>7. shopping_item[i] \in ItemType
  <2>1. shopping_item[i].status # "absent"
    BY <1>2 DEF ItemTransition, ItemOps
  <2> QED  BY <1>1, <1>3, <2>1 DEF Types, TypeOK, NoItem
<1>8. ChangedItem(q) \in ItemType
  <2>1. CASE q.op = "purchase"
    BY <1>3, <1>7, <2>1 DEF ChangedItem, ItemType
  <2>2. CASE q.op # "purchase"
    <3>1. ItemTarget(q.op) \in {"skipped", "pending"}
      BY <1>2, <2>2 DEF ItemTarget, ItemOps
    <3> QED  BY <1>7, <2>2, <3>1 DEF ChangedItem, ItemType
  <2> QED  BY <2>1, <2>2
<1>9. shopping_item' = [shopping_item EXCEPT ![i] = ChangedItem(q)]
  <2>1. shopping_item' = Over(Only(i, ChangedItem(q)), shopping_item)
    BY <1>2 DEF Commit
  <2>2. shopping_item \in [Item -> ItemType \cup {NoItem}]
    BY <1>1 DEF Types, TypeOK
  <2> HIDE DEF i
  <2> QED  BY <1>3, <2>1, <2>2 DEF Over, Only
<1> DEFINE LotType == [product : Product, amount : Nat \ {0}, source : Item]
<1>10. /\ (q.op = "purchase" => Lot(q) \in LotType)
       /\ inventory_lot' = IF q.op = "purchase" THEN Append(inventory_lot, Lot(q))
                                                ELSE inventory_lot
  <2>1. inventory_lot \in Seq(LotType) /\ inventory_lot' = inventory_lot \o Purchased(q)
    <3>1. inventory_lot' = inventory_lot \o w.lot
      BY DEF Commit
    <3>2. w.lot = Purchased(q)
      BY <1>2
    <3> QED  BY <1>1, <3>1, <3>2 DEF Types, TypeOK
  <2>2. CASE q.op = "purchase"
    <3>1. Lot(q) \in LotType
      BY <1>3, <2>2 DEF Lot
    <3>2. inventory_lot' = inventory_lot \o <<Lot(q)>>
      BY <2>1, <2>2 DEF Purchased
    <3> HIDE DEF LotType
    <3>3. Append(inventory_lot, Lot(q)) = inventory_lot \o <<Lot(q)>>
      BY <2>1, <3>1, AppendIsConcat
    <3> QED  BY <2>2, <3>1, <3>2, <3>3
  <2>3. CASE q.op # "purchase"
    <3> HIDE DEF LotType
    <3> QED  BY <2>1, <2>3, ConcatEmptySeq DEF Purchased
  <2> QED  BY <2>2, <2>3
<1>11. on_hand' \in [Product -> Nat]
  <2>1. ASSUME NEW p \in Product PROVE Bought(w.lot, p) \in Nat
    <3>1. CASE q.op = "purchase"
      <4>1. w.lot = <<Lot(q)>>
        BY <1>2, <3>1 DEF Purchased
      <4>2. w.lot[1].amount \in Nat
        BY <1>3, <3>1, <4>1 DEF Lot
      <4> QED  BY <4>2 DEF Bought
    <3>2. CASE q.op # "purchase"
      BY <1>2, <3>2 DEF Bought, Purchased
    <3> QED  BY <3>1, <3>2
  <2>2. on_hand' = [p \in Product |-> on_hand[p] + Bought(w.lot, p)]
    BY DEF Commit
  <2> HIDE DEF w
  <2>3. on_hand \in [Product -> Nat]
    BY <1>1 DEF Types, TypeOK
  <2>4. \A p \in Product : on_hand[p] + Bought(w.lot, p) \in Nat
    BY <2>1, <2>3
  <2> QED  BY <2>2, <2>4
<1> QED  BY <1>2, <1>3, <1>4, <1>5, <1>6, <1>7, <1>8, <1>9, <1>10, <1>11

LEMMA CommitOfList ==
  ASSUME IInv, NEW c \in Call, Commit(c), ListWritten(c)
  PROVE  LET q == request[c] IN
         /\ q.list \in ListId /\ shopping_list[q.list] \in ListType /\ list_lock[q.list] = c
         /\ q.op = "complete" => Pending(q.list) = {}
         /\ \E row \in ListType : /\ row.state = "completed" => q.op = "complete"
                                  /\ shopping_list' = [shopping_list EXCEPT ![q.list] = row]
         /\ UNCHANGED <<shopping_item, inventory_lot>>
         /\ on_hand' \in [Product -> Nat]
<1> DEFINE q == request[c]
           w == write[c]
<1>1. Types /\ Session(c) /\ pc[c] = "written"
  BY DEF IInv, Sessions, Commit
<1>2. /\ q.op \in ListOps /\ list_lock[q.list] = c
      /\ q.op = "complete" => Pending(q.list) = {}
      /\ w = [list |-> Bumped(c, ListTarget(q.op)), item |-> <<>>, lot |-> <<>>]
  BY DEF ListWritten
<1>3. q \in Request /\ q.op # "create" /\ q.list \in ListId
  BY <1>1, <1>2, ProductTyped DEF Session, ListOps
<1>4. shopping_list[q.list] \in ListType
  BY <1>1, <1>3 DEF Session, Types, TypeOK
<1> DEFINE row == [state |-> ListTarget(q.op), version |-> InSession(c).version + 1]
<1>5. row \in ListType /\ (row.state = "completed" => q.op = "complete")
  <2>1. InSession(c).version + 1 \in Nat \ {0}
    BY <1>1, <1>3, BumpedVersion
  <2>2. /\ ListTarget(q.op) \in {"open", "completed", "archived"}
        /\ ListTarget(q.op) = "completed" => q.op = "complete"
    BY <1>2 DEF ListTarget, ListOps
  <2> QED  BY <2>1, <2>2, ListTypes
<1>6. shopping_list' = [shopping_list EXCEPT ![q.list] = row]
  <2>1. shopping_list' = Over(Only(q.list, row), shopping_list)
    BY <1>2 DEF Commit, Bumped
  <2>2. shopping_list \in [ListId -> ListType \cup {NoList}]
    BY <1>1 DEF Types, TypeOK
  <2> HIDE DEF row
  <2> QED  BY <1>3, <2>1, <2>2 DEF Over, Only
<1>7. shopping_item' = shopping_item
  <2>1. shopping_item' = Over(<<>>, shopping_item)
    BY <1>2 DEF Commit
  <2> QED  BY <1>1, <2>1, OverNothing DEF Types, TypeOK
<1>8. inventory_lot' = inventory_lot
  BY <1>1, <1>2, ConcatEmptySeq DEF Commit, Types, TypeOK
<1>9. on_hand' \in [Product -> Nat]
  <2>1. \A p \in Product : Bought(w.lot, p) = 0
    BY <1>2 DEF Bought
  <2> QED  BY <1>1, <2>1 DEF Commit, Types, TypeOK
<1> QED  BY <1>2, <1>3, <1>4, <1>5, <1>6, <1>7, <1>8, <1>9

\* A commit changes one list, which no other worker has changed.
LEMMA OthersAtCommit ==
  ASSUME IInv, NEW c \in Call, Commit(c), NEW l \in ListId,
         \/ Creates(c) /\ shopping_list[l] = NoList
         \/ list_lock[l] = c /\ shopping_list[l] # NoList,
         shopping_list'[l] # NoList,
         \A m \in ListId \ {l} :
           /\ shopping_list'[m] = shopping_list[m]
           /\ \A p \in Product : shopping_item'[<<m, p>>] = shopping_item[<<m, p>>]
  PROVE  Sessions'
<1> USE DEF Commit, EndTransaction
<1>1. Types /\ \A d \in Call : Session(d)
  BY DEF IInv, Sessions
<1>2. Aside(c) /\ pc'[c] = "idle"
  BY <1>1 DEF Aside, Types, TypeOK, Released
<1>3. ASSUME NEW d \in Call PROVE Session(d)'
  <2>1. CASE d = c
    BY <1>2, <2>1 DEF Session
  <2>2. CASE d # c
    <3>1. \A m \in ListId : list_lock[m] = d => list_lock'[m] = d
      BY <1>2, <2>2 DEF Aside
    <3>2. Creates(d) => shopping_list[l] # NoList
      BY <2>2 DEF IInv, Sessions, OneCreation
    <3>3. Creates(d) => \A m \in ListId : shopping_list[m] = NoList => shopping_list'[m] = NoList
      BY <3>2
    <3>4. \A m \in ListId : shopping_list[m] # NoList => shopping_list'[m] # NoList
      OBVIOUS
    <3>5. \A m \in ListId : list_lock[m] = d /\ shopping_list[m] # NoList => m # l
      BY <2>2
    <3> QED  BY <1>1, <1>2, <2>2, <3>1, <3>3, <3>4, <3>5, SessionStays DEF Aside
  <2> QED  BY <2>1, <2>2
<1>4. OneCreation'
  <2>1. ASSUME NEW d \in Call, Creates(d)' PROVE Creates(d)
    BY <1>2, <2>1 DEF Aside, Creates
  <2> QED  BY <2>1 DEF IInv, Sessions, OneCreation
<1> QED  BY <1>3, <1>4 DEF Sessions

\* A lot that is appended is one more lot of its own item.
LEMMA OneMoreLot ==
  ASSUME NEW S, NEW lots \in Seq(S), NEW lot \in S, NEW i
  PROVE  {n \in DOMAIN Append(lots, lot) : Append(lots, lot)[n].source = i}
           = {n \in DOMAIN lots : lots[n].source = i}
               \cup (IF lot.source = i THEN {Len(lots) + 1} ELSE {})
<1> DEFINE more == Append(lots, lot)
<1>1. /\ Len(more) = Len(lots) + 1 /\ more \in Seq(S)
      /\ \A n \in 1..Len(lots) : more[n] = lots[n]
      /\ more[Len(lots) + 1] = lot
  BY AppendProperties
<1>2. DOMAIN lots = 1..Len(lots) /\ DOMAIN more = 1..Len(lots) + 1 /\ Len(lots) \in Nat
  BY <1>1
<1> HIDE DEF more
<1>3. DOMAIN more = DOMAIN lots \cup {Len(lots) + 1}
  BY <1>2
<1>4. \A n \in DOMAIN lots : more[n] = lots[n]
  BY <1>1, <1>2
<1>5. {n \in DOMAIN more : more[n].source = i}
        = {n \in DOMAIN lots : lots[n].source = i}
            \cup (IF lot.source = i THEN {Len(lots) + 1} ELSE {})
  BY <1>1, <1>3, <1>4
<1> QED  BY <1>5 DEF more

LEMMA CommitStep ==
  ASSUME IInv, NEW c \in Call, Commit(c)
  PROVE  IInv'
<1> DEFINE q == request[c]
           i == <<q.list, q.product>>
           LotType == [product : Product, amount : Nat \ {0}, source : Item]
<1>1. Types /\ Session(c) /\ pc[c] = "written" /\ ItemsBelong /\ PurchaseIsStocked
  BY DEF IInv, Sessions, Commit
<1>2. q \in Request
  BY <1>1 DEF Session
<1>3. Types' <=> /\ shopping_list' \in [ListId -> ListType \cup {NoList}]
                 /\ shopping_item' \in [Item -> ItemType \cup {NoItem}]
                 /\ inventory_lot' \in Seq(LotType)
                 /\ on_hand' \in [Product -> Nat]
  <2> USE DEF Commit, EndTransaction
  <2>1. list_lock' \in [ListId -> Call \cup {NoCall}]
    BY <1>1 DEF Released, Types, TypeOK
  <2>2. mutations' \in [ListId -> Nat]
    BY <1>1 DEF Types, TypeOK
  <2>3. shopping_operation' \subseteq Request
    BY <1>1, <1>2 DEF Types, TypeOK
  <2>4. Nothing \in [Product -> Nat]
    BY DEF Nothing
  <2> HIDE DEF LotType
  <2>5. /\ demand' = demand
        /\ pc' \in [Call -> {"idle", "load", "open", "demand", "projected", "written"}]
        /\ request' \in [Call -> Request \cup {NoRequest}]
        /\ seen' \in [Call -> ListType \cup {NoList}]
        /\ projected' \in [Call -> [Product -> Nat]]
        /\ write' = [d \in Call |-> write'[d]]
    BY <1>1, <2>4 DEF Types, TypeOK
  <2>6. demand \in [Product -> Amount]
    BY <1>1 DEF Types, TypeOK
  <2> HIDE DEF Commit, EndTransaction
  <2> QED  BY <2>1, <2>2, <2>3, <2>5, <2>6 DEF Types, TypeOK, LotType
<1>4. /\ shopping_list \in [ListId -> ListType \cup {NoList}]
      /\ shopping_item \in [Item -> ItemType \cup {NoItem}]
      /\ inventory_lot \in Seq(LotType)
  BY <1>1 DEF Types, TypeOK
<1> HIDE DEF LotType
<1>5. CASE CreationWritten(c)
  <2>1. PICK l \in ListId :
          /\ shopping_list[l] = NoList
          /\ shopping_list' = [shopping_list EXCEPT ![l] = [state |-> "open", version |-> 1]]
          /\ shopping_item' \in [Item -> ItemType \cup {NoItem}]
          /\ \A j \in Item : shopping_item'[j] = shopping_item[j]
               \/ (j[1] = l /\ shopping_item'[j].status = "pending")
          /\ inventory_lot' = inventory_lot
          /\ on_hand' \in [Product -> Nat]
    BY <1>5, CommitOfCreation
  <2>2. [state |-> "open", version |-> 1] \in ListType
    BY ListTypes
  <2>3. /\ shopping_list' \in [ListId -> ListType \cup {NoList}]
        /\ shopping_list'[l] \in ListType
    BY <1>4, <2>1, <2>2
  <2>4. Types'
    BY <1>3, <1>4, <2>1, <2>3
  <2>5. \A m \in ListId \ {l} :
          /\ shopping_list'[m] = shopping_list[m]
          /\ \A p \in Product : shopping_item'[<<m, p>>] = shopping_item[<<m, p>>]
    <3>1. \A m \in ListId, p \in Product : <<m, p>> \in Item /\ <<m, p>>[1] = m
      BY DEF Item
    <3> QED  BY <1>4, <2>1, <3>1
  <2>6. Sessions'
    BY <1>1, <1>5, <2>1, <2>3, <2>5, NoListIsNone, OthersAtCommit DEF Creates, CreationWritten
  <2>7. ItemsBelong'
    BY <1>1, <2>3, <2>5, NoListIsNone DEF ItemsBelong
  <2>8. ASSUME NEW j \in Item, shopping_item'[j] # shopping_item[j]
        PROVE  shopping_item[j].status # "purchased" /\ shopping_item'[j].status # "purchased"
    <3>1. j[1] = l /\ shopping_item'[j].status = "pending"
      BY <2>1, <2>8
    <3>2. shopping_item[j] = NoItem
      BY <1>1, <2>1, <3>1 DEF ItemsBelong, Item
    <3> QED  BY <3>1, <3>2 DEF NoItem
  <2>9. PurchaseIsStocked'
    BY <1>1, <2>1, <2>8 DEF PurchaseIsStocked
  <2> QED  BY <2>4, <2>6, <2>7, <2>9 DEF IInv
<1>6. CASE ItemWritten(c)
  <2>1. /\ q.list \in ListId /\ shopping_list[q.list] \in ListType /\ list_lock[q.list] = c
        /\ i \in Item /\ shopping_item[i] \in ItemType
        /\ ChangedItem(q) \in ItemType
        /\ shopping_item' = [shopping_item EXCEPT ![i] = ChangedItem(q)]
        /\ q.op = "purchase" => Lot(q) \in LotType
        /\ inventory_lot' = IF q.op = "purchase" THEN Append(inventory_lot, Lot(q))
                                                 ELSE inventory_lot
        /\ on_hand' \in [Product -> Nat]
    BY <1>6, CommitOfItem DEF LotType
  <2>2. PICK row \in ListType : shopping_list' = [shopping_list EXCEPT ![q.list] = row]
    BY <1>6, CommitOfItem
  <2>3. /\ shopping_list' \in [ListId -> ListType \cup {NoList}]
        /\ shopping_list'[q.list] \in ListType
    BY <1>4, <2>1, <2>2
  <2>4. inventory_lot' \in Seq(LotType)
    BY <1>4, <2>1, AppendProperties
  <2>5. Types'
    BY <1>3, <1>4, <2>1, <2>3, <2>4
  <2>6. /\ q.op \in ItemOps /\ q.op # "create"
        /\ shopping_item[i].status \in ItemTransition(q.op)
    BY <1>6 DEF ItemWritten, ItemOps
  <2>7. \A m \in ListId \ {q.list} :
          /\ shopping_list'[m] = shopping_list[m]
          /\ \A p \in Product : shopping_item'[<<m, p>>] = shopping_item[<<m, p>>]
    <3>1. \A m \in ListId, p \in Product : <<m, p>> \in Item
      BY DEF Item
    <3> QED  BY <1>4, <2>1, <2>2, <3>1
  <2>8. Sessions'
    BY <2>1, <2>3, <2>7, NoListIsNone, OthersAtCommit
  <2>9. ItemsBelong'
    BY <1>1, <2>3, <2>7, NoListIsNone DEF ItemsBelong
  <2>10. ASSUME NEW j \in Item, j # i
         PROVE  /\ shopping_item'[j] = shopping_item[j]
                /\ {n \in DOMAIN inventory_lot' : inventory_lot'[n].source = j}
                     = {n \in DOMAIN inventory_lot : inventory_lot[n].source = j}
    <3>1. CASE q.op = "purchase"
      <4>1. Lot(q).source # j
        BY <2>10 DEF Lot
      <4>2. {n \in DOMAIN Append(inventory_lot, Lot(q)) : Append(inventory_lot, Lot(q))[n].source = j}
              = {n \in DOMAIN inventory_lot : inventory_lot[n].source = j} \cup {}
        BY <1>4, <2>1, <3>1, <4>1, OneMoreLot
      <4> QED  BY <1>4, <2>1, <2>10, <3>1, <4>2
    <3>2. CASE q.op # "purchase"
      BY <1>4, <2>1, <2>10, <3>2
    <3> QED  BY <3>1, <3>2
  <2>11. shopping_item'[i] = ChangedItem(q)
    BY <1>4, <2>1
  <2> DEFINE lots == {n \in DOMAIN inventory_lot : inventory_lot[n].source = i}
             lotsAfter == {n \in DOMAIN inventory_lot' : inventory_lot'[n].source = i}
  <2>12. lots = {}
    <3>1. shopping_item[i].status # "purchased"
      BY <2>6 DEF ItemTransition, ItemOps
    <3> QED  BY <1>1, <2>1, <3>1 DEF PurchaseIsStocked
  <2>13. IF shopping_item'[i].status = "purchased"
         THEN \E n \in lotsAfter : /\ lotsAfter = {n} /\ inventory_lot'[n].product = i[2]
                                   /\ inventory_lot'[n].amount = shopping_item'[i].purchased
         ELSE lotsAfter = {}
    <3>1. CASE q.op = "purchase"
      <4> DEFINE n == Len(inventory_lot) + 1
      <4>1. Lot(q).source = i /\ Lot(q).product = i[2] /\ Lot(q).amount = q.quantity
        BY DEF Lot
      <4>2. inventory_lot' = Append(inventory_lot, Lot(q)) /\ Lot(q) \in LotType
        BY <2>1, <3>1
      <4>3. lotsAfter = {n}
        <5> HIDE DEF n
        <5>1. lotsAfter = lots \cup {Len(inventory_lot) + 1}
          BY <1>4, <4>1, <4>2, OneMoreLot
        <5> QED  BY <2>12, <5>1 DEF n
      <4>4. inventory_lot'[n] = Lot(q)
        BY <1>4, <4>2, AppendProperties
      <4>5. shopping_item'[i].status = "purchased" /\ shopping_item'[i].purchased = q.quantity
        BY <2>1, <2>11, <3>1, ChangedItemIs
      <4> HIDE DEF n, lotsAfter
      <4> QED  BY <4>1, <4>3, <4>4, <4>5
    <3>2. CASE q.op # "purchase"
      <4>1. shopping_item'[i].status = ItemTarget(q.op)
        BY <2>1, <2>11, <3>2, ChangedItemIs
      <4>2. shopping_item'[i].status # "purchased"
        BY <2>6, <3>2, <4>1 DEF ItemTarget, ItemOps
      <4> QED  BY <2>1, <2>12, <3>2, <4>2
    <3> QED  BY <3>1, <3>2
  <2>14. PurchaseIsStocked'
    <3>1. ASSUME NEW j \in Item
          PROVE  LET after == {n \in DOMAIN inventory_lot' : inventory_lot'[n].source = j} IN
                 IF shopping_item'[j].status = "purchased"
                 THEN \E n \in after :
                        /\ after = {n} /\ inventory_lot'[n].product = j[2]
                        /\ inventory_lot'[n].amount = shopping_item'[j].purchased
                 ELSE after = {}
      <4>1. CASE j = i
        BY <2>13, <4>1
      <4>2. CASE j # i
        <5> DEFINE own == {n \in DOMAIN inventory_lot : inventory_lot[n].source = j}
        <5>1. /\ shopping_item'[j] = shopping_item[j]
              /\ {n \in DOMAIN inventory_lot' : inventory_lot'[n].source = j} = own
          BY <2>10, <4>2
        <5>2. IF shopping_item[j].status = "purchased"
              THEN \E n \in own : /\ own = {n} /\ inventory_lot[n].product = j[2]
                                  /\ inventory_lot[n].amount = shopping_item[j].purchased
              ELSE own = {}
          BY <1>1 DEF PurchaseIsStocked
        <5>3. \A n \in own : inventory_lot'[n] = inventory_lot[n]
          BY <1>4, <2>1, AppendProperties
        <5> QED  BY <5>1, <5>2, <5>3
      <4> QED  BY <4>1, <4>2
    <3> QED  BY <3>1 DEF PurchaseIsStocked
  <2> QED  BY <2>5, <2>8, <2>9, <2>14 DEF IInv
<1>7. CASE ListWritten(c)
  <2>1. /\ q.list \in ListId /\ shopping_list[q.list] \in ListType /\ list_lock[q.list] = c
        /\ UNCHANGED <<shopping_item, inventory_lot>>
        /\ on_hand' \in [Product -> Nat]
    BY <1>7, CommitOfList
  <2>2. PICK row \in ListType : shopping_list' = [shopping_list EXCEPT ![q.list] = row]
    BY <1>7, CommitOfList
  <2>3. /\ shopping_list' \in [ListId -> ListType \cup {NoList}]
        /\ shopping_list'[q.list] \in ListType
    BY <1>4, <2>1, <2>2
  <2>4. Types'
    BY <1>3, <1>4, <2>1, <2>3
  <2>5. \A m \in ListId \ {q.list} : shopping_list'[m] = shopping_list[m]
    BY <1>4, <2>1, <2>2
  <2>6. Sessions'
    BY <2>1, <2>3, <2>5, NoListIsNone, OthersAtCommit
  <2>7. ItemsBelong' /\ PurchaseIsStocked'
    BY <1>1, <2>1, <2>3, <2>5, NoListIsNone DEF ItemsBelong, PurchaseIsStocked
  <2> QED  BY <2>4, <2>6, <2>7 DEF IInv
<1> QED  BY <1>1, <1>5, <1>6, <1>7 DEF Session
-----------------------------------------------------------------------------
\* A meal that is planned or cooked touches demand and stock only.
LEMMA KitchenStep ==
  ASSUME IInv, NEW p \in Product, Plan(p) \/ Cook(p)
  PROVE  IInv'
<1>1. UNCHANGED <<rows, worker, mutations>>
  BY DEF Plan, Cook
<1>2. Types
  BY DEF IInv
<1>3. demand' \in [Product -> Amount] /\ on_hand' \in [Product -> Nat]
  <2>1. CASE Plan(p)
    BY <1>2, <2>1 DEF Plan, Types, TypeOK
  <2>2. CASE Cook(p)
    <3>1. demand[p] \in Amount /\ demand[p] > 0 /\ demand[p] \in Nat
      BY <1>2, <2>2, ShoppingAssumption DEF Cook, Types, TypeOK
    <3>2. demand[p] - 1 \in 0..demand[p]
      BY <3>1
    <3>3. demand[p] - 1 \in Amount
      BY <3>1, <3>2, ShoppingAssumption
    <3>4. on_hand[p] - 1 \in Nat
      BY <1>2, <2>2 DEF Cook, Types, TypeOK
    <3> QED  BY <1>2, <2>2, <3>3, <3>4 DEF Cook, Types, TypeOK
  <2> QED  BY <2>1, <2>2
<1>4. Types'
  BY <1>1, <1>2, <1>3 DEF Types, TypeOK, rows, worker
<1>5. ItemsBelong' /\ PurchaseIsStocked'
  BY <1>1 DEF IInv, ItemsBelong, PurchaseIsStocked, rows
<1>6. ASSUME NEW d \in Call PROVE Session(d)'
  BY <1>1, <1>2, SessionStays DEF IInv, Sessions, rows, worker
<1>7. OneCreation'
  BY <1>1 DEF IInv, Sessions, OneCreation, Creates, worker
<1> QED  BY <1>4, <1>5, <1>6, <1>7 DEF IInv, Sessions

LEMMA StutterStep ==
  ASSUME IInv, UNCHANGED vars
  PROVE  IInv'
<1>1. UNCHANGED <<rows, kitchen, worker, mutations>>
  BY DEF vars
<1>2. Types'
  BY <1>1 DEF IInv, Types, TypeOK, rows, kitchen, worker
<1>5. ItemsBelong' /\ PurchaseIsStocked'
  BY <1>1 DEF IInv, ItemsBelong, PurchaseIsStocked, rows
<1>3. ASSUME NEW d \in Call PROVE Session(d)'
  BY <1>1, SessionStays DEF IInv, Sessions, rows, worker
<1>4. OneCreation'
  BY <1>1 DEF IInv, Sessions, OneCreation, Creates, worker
<1> QED  BY <1>2, <1>3, <1>4, <1>5 DEF IInv, Sessions

\* Refusals, lost connections and lost races are all a rollback.
LEMMA RefusalIsRollback ==
  ASSUME NEW c \in Call,
         \/ RefuseLoad(c) \/ RefuseCreation(c) \/ RefuseItem(c) \/ RefuseList(c)
         \/ CommitRefused(c) \/ Crash(c)
  PROVE  Rollback(c)
BY DEF RefuseLoad, RefuseCreation, RefuseItem, RefuseList, CommitRefused, Crash

LEMMA NextIInv == IInv /\ [Next]_vars => IInv'
<1> SUFFICES ASSUME IInv, [Next]_vars PROVE IInv'
  OBVIOUS
<1>1. ASSUME NEW c \in Call, Step(c) PROVE IInv'
  <2>1. CASE Load(c) \/ ReadDemand(c) \/ ReadStock(c)
    BY <2>1, ReadStep
  <2>2. CASE CreateList(c)
    BY <2>2, CreateStep
  <2>3. CASE ChangeItem(c) \/ ChangeList(c)
    BY <2>3, ChangeStep
  <2>4. CASE Commit(c)
    BY <2>4, CommitStep
  <2>5. CASE \/ RefuseLoad(c) \/ RefuseCreation(c) \/ RefuseItem(c) \/ RefuseList(c)
             \/ CommitRefused(c)
    BY <2>5, RefusalIsRollback, RollbackStep
  <2> QED  BY <1>1, <2>1, <2>2, <2>3, <2>4, <2>5 DEF Step
<1>2. ASSUME NEW c \in Call, Crash(c) PROVE IInv'
  BY <1>2, RefusalIsRollback, RollbackStep
<1>3. ASSUME NEW c \in Call, NEW q \in Request, Receive(c, q) PROVE IInv'
  BY <1>3, ReceiveStep
<1>4. ASSUME NEW p \in Product, Plan(p) \/ Cook(p) PROVE IInv'
  BY <1>4, KitchenStep
<1>5. CASE UNCHANGED vars
  BY <1>5, StutterStep
<1> QED  BY <1>1, <1>2, <1>3, <1>4, <1>5 DEF Next, Quiet

LEMMA InductiveInvariant == Spec => []IInv
BY InitIInv, NextIInv, PTL DEF Spec

\* FR-004 and FR-008: whatever members and agents send, retry and race, an item
\* of a shopping list is purchased exactly when one lot of the inventory came
\* from it, and the lot has the item's product and the amount it records.
THEOREM PurchasesAreStocked == Spec => []PurchaseIsStocked
<1>1. IInv => PurchaseIsStocked
  BY DEF IInv
<1> QED  BY <1>1, InductiveInvariant, PTL

\* The rows of lists, items and lots and what the workers hold keep their types.
THEOREM TypeCorrect == Spec => []TypeOK
<1>1. IInv => TypeOK
  BY DEF IInv, Types
<1> QED  BY <1>1, InductiveInvariant, PTL
-----------------------------------------------------------------------------
(***************************************************************************)
(* Completed lists.  restore goes through MCP with the row of the list     *)
(* that the tool loaded before the lock: an agent may restore an item of a *)
(* list that was completed meanwhile.  Every other request is safe.        *)
(***************************************************************************)

NoAgentRestores == \A q \in Request : q.op = "restore" => ~q.mcp

LEMMA InitCompleted == Init => CompletedHasNoPending
BY DEF Init, CompletedHasNoPending, NoList

LEMMA NextCompleted ==
  ASSUME NoAgentRestores, IInv, CompletedHasNoPending, [Next]_vars
  PROVE  CompletedHasNoPending'
<1>1. CASE UNCHANGED <<shopping_list, shopping_item>>
  BY <1>1 DEF CompletedHasNoPending, Pending
<1>2. ASSUME NEW c \in Call, Commit(c)
      PROVE  CompletedHasNoPending'
  <2> DEFINE q == request[c]
             i == <<q.list, q.product>>
  <2>1. Types /\ Session(c) /\ pc[c] = "written" /\ ItemsBelong
    BY <1>2 DEF IInv, Sessions, Commit
  <2>2. q \in Request
    BY <2>1 DEF Session
  <2>3. /\ shopping_list \in [ListId -> ListType \cup {NoList}]
        /\ shopping_item \in [Item -> ItemType \cup {NoItem}]
    BY <2>1 DEF Types, TypeOK
  <2>4. \A m \in ListId, p \in Product : <<m, p>> \in Item /\ <<m, p>>[1] = m
    BY DEF Item
  <2>5. SUFFICES ASSUME NEW l \in ListId, shopping_list'[l].state = "completed",
                        NEW p \in Product, shopping_item'[<<l, p>>].status = "pending"
                 PROVE  FALSE
    BY DEF CompletedHasNoPending, Pending
  <2>6. ~(shopping_list[l].state = "completed" /\ shopping_item[<<l, p>>].status = "pending")
    BY DEF CompletedHasNoPending, Pending
  <2>7. CASE CreationWritten(c)
    <3>1. PICK m \in ListId :
            /\ shopping_list' = [shopping_list EXCEPT ![m] = [state |-> "open", version |-> 1]]
            /\ \A j \in Item : shopping_item'[j] = shopping_item[j]
                 \/ (j[1] = m /\ shopping_item'[j].status = "pending")
      BY <1>2, <2>7, CommitOfCreation
    <3>2. l # m
      BY <2>3, <2>5, <3>1
    <3> QED  BY <2>3, <2>4, <2>5, <2>6, <3>1, <3>2
  <2>8. CASE ItemWritten(c)
    <3>1. /\ q.list \in ListId /\ i \in Item
          /\ shopping_item' = [shopping_item EXCEPT ![i] = ChangedItem(q)]
          /\ shopping_item[i] \in ItemType
      BY <1>2, <2>8, CommitOfItem
    <3>2. PICK row \in ListType : /\ row.state = shopping_list[q.list].state
                                  /\ shopping_list' = [shopping_list EXCEPT ![q.list] = row]
      BY <1>2, <2>8, CommitOfItem
    <3>3. shopping_list[l].state = "completed"
      BY <2>3, <2>5, <3>1, <3>2
    <3>4. <<l, p>> = i
      BY <2>3, <2>4, <2>5, <2>6, <3>1, <3>3
    <3>5. shopping_item'[i].status = IF q.op = "purchase" THEN "purchased" ELSE ItemTarget(q.op)
      BY <2>3, <3>1, ChangedItemIs
    <3>6. q.op \in ItemOps
      BY <2>8 DEF ItemWritten
    <3>7. q.op = "restore"
      BY <2>5, <3>4, <3>5, <3>6 DEF ItemTarget, ItemOps
    <3>8. shopping_list[q.list].state = "open"
      BY <2>2, <2>8, <3>7 DEF NoAgentRestores, ItemWritten
    <3> QED  BY <3>3, <3>4, <3>8
  <2>9. CASE ListWritten(c)
    <3>1. /\ q.list \in ListId /\ shopping_item' = shopping_item
          /\ q.op = "complete" => Pending(q.list) = {}
      BY <1>2, <2>9, CommitOfList
    <3>2. PICK row \in ListType : /\ row.state = "completed" => q.op = "complete"
                                  /\ shopping_list' = [shopping_list EXCEPT ![q.list] = row]
      BY <1>2, <2>9, CommitOfList
    <3>3. CASE l = q.list
      BY <2>3, <2>5, <3>1, <3>2, <3>3 DEF Pending
    <3>4. CASE l # q.list
      BY <2>3, <2>5, <2>6, <3>1, <3>2, <3>4
    <3> QED  BY <3>3, <3>4
  <2> QED  BY <2>1, <2>7, <2>8, <2>9 DEF Session
<1>3. ASSUME NEW c \in Call, Step(c), ~Commit(c)
      PROVE  UNCHANGED rows
  BY <1>3 DEF Step, Load, ReadDemand, ReadStock, CreateList, ChangeItem, ChangeList, Flush,
              RefuseLoad, RefuseCreation, RefuseItem, RefuseList, CommitRefused, Rollback
<1>4. ASSUME \/ \E c \in Call : Crash(c) \/ \E q \in Request : Receive(c, q)
             \/ \E p \in Product : Plan(p) \/ Cook(p)
             \/ UNCHANGED vars
      PROVE  UNCHANGED rows
  BY <1>4 DEF Crash, Rollback, Receive, Plan, Cook, vars
<1> QED  BY <1>1, <1>2, <1>3, <1>4 DEF Next, Quiet, rows

\* FR-006: as long as agents restore nothing, a completed list has no pending
\* item, whatever was bought, skipped and restored while its completion waited.
THEOREM CompletedListsAreDone ==
  ASSUME NoAgentRestores
  PROVE  Spec => []CompletedHasNoPending
<1>1. IInv /\ CompletedHasNoPending /\ [Next]_vars => CompletedHasNoPending'
  BY NextCompleted
<1> QED  BY <1>1, InitCompleted, InductiveInvariant, PTL DEF Spec
=============================================================================
