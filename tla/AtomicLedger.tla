---------------------------- MODULE AtomicLedger ----------------------------
(***************************************************************************)
(* What the inventory ledger promises: one history of movements, to which  *)
(* a request adds one row in one indivisible step, its recorded balance    *)
(* being the previous balance of the lot plus its amount; and answers that *)
(* only report rows of that history.  There are no locks, no transactions  *)
(* and no cached balance here, and a request may be refused at any moment. *)
(***************************************************************************)
EXTENDS Integers, Sequences

CONSTANTS Call, Lot, Payload, OtherPayload, MaxAmount, NoKey, NoCall, NoLot

Create == "inventory_lot_create"

VARIABLES
  ledger,   \* the movements, in the order in which they took effect
  request,  \* the payload each call carries
  answer    \* what each caller was told

vars == <<ledger, request, answer>>

NoReply == [status |-> "none", lot |-> NoLot, amount |-> 0]

Init ==
  /\ ledger = <<>>
  /\ request \in [Call -> Payload]
  /\ answer = [c \in Call |-> NoReply]

IsFresh(l) == \A i \in DOMAIN ledger : ledger[i].lot # l

\* Row i holds the current balance of its lot.
IsCurrent(i) ==
  /\ i \in DOMAIN ledger
  /\ \A j \in DOMAIN ledger : ledger[j].lot = ledger[i].lot => j <= i

SameKey(p, r) == p.key # NoKey /\ p.key = r.key /\ p.operation = r.operation
SameRequest(p, r) == SameKey(p, r) /\ [p EXCEPT !.key = NoKey] = [r EXCEPT !.key = NoKey]

Row(c, l, p, q) == [lot |-> l, payload |-> p, result |-> q, call |-> c]

\* The first movement of a lot records its amount, a later one adds it.
Movement(c, l, p) ==
  \/ /\ IsFresh(l)
     /\ p.amount \in 1..MaxAmount
     /\ ledger' = Append(ledger, Row(c, l, p, p.amount))
  \/ \E i \in DOMAIN ledger :
       /\ IsCurrent(i)
       /\ ledger[i].lot = l
       /\ ledger[i].result + p.amount \in 0..MaxAmount
       /\ ledger' = Append(ledger, Row(c, l, p, ledger[i].result + p.amount))

\* A call takes effect: once, and never after another call with its key.
TakeEffect(c, l) ==
  /\ answer[c] = NoReply
  /\ \A i \in DOMAIN ledger :
       ledger[i].call # c /\ ~SameKey(request[c], ledger[i].payload)
  /\ Movement(c, l, request[c])
  /\ UNCHANGED <<request, answer>>

OtherEffect(l, p) == Movement(NoCall, l, p) /\ UNCHANGED <<request, answer>>

\* A success names a row that the call wrote, or that its earlier twin wrote;
\* an adjustment is told the balance of that row, a creation the current one.
Report(c, i) ==
  /\ answer[c] = NoReply
  /\ ledger[i].call = c \/ SameRequest(request[c], ledger[i].payload)
  /\ \E j \in DOMAIN ledger :
       /\ IF request[c].operation = Create
          THEN IsCurrent(j) /\ ledger[j].lot = ledger[i].lot ELSE j = i
       /\ answer' = [answer EXCEPT ![c] = [status |-> "ok", lot |-> ledger[i].lot,
                                           amount |-> ledger[j].result]]
  /\ UNCHANGED <<ledger, request>>

\* A refusal is never given to a call that took effect.
Refuse(c, status) ==
  /\ answer[c] = NoReply
  /\ \A i \in DOMAIN ledger : ledger[i].call # c
  /\ answer' = [answer EXCEPT ![c] = [status |-> status, lot |-> NoLot, amount |-> 0]]
  /\ UNCHANGED <<ledger, request>>

Next ==
  \/ \E c \in Call :
       \/ \E l \in Lot : TakeEffect(c, l)
       \/ \E i \in DOMAIN ledger : Report(c, i)
       \/ \E status \in {"conflict", "not_found"} : Refuse(c, status)
  \/ \E l \in Lot, p \in OtherPayload : OtherEffect(l, p)

Spec == Init /\ [][Next]_vars
=============================================================================
