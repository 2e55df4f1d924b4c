----------------------- MODULE InventoryLedgerProofs -----------------------
(***************************************************************************)
(* Proofs about InventoryLedger for any number of calls, lots, keys and    *)
(* amounts, and, in the second part, about the catalog of the ingredients  *)
(* that the lots hold (Ingredients), for any number of workers, requests,  *)
(* ingredients, recipes and lines.                                         *)
(***************************************************************************)
EXTENDS InventoryLedger, Ingredients, SequenceTheorems, FiniteSetTheorems, WellFoundedInduction, TLAPS

\* The types of the payload that a call carries, in the form the provers use.
LEMMA PayloadFields ==
  ASSUME NEW p \in Payload
  PROVE  /\ p.amount \in -MaxAmount..MaxAmount
         /\ p.unit \in Unit
         /\ p.operation \in {Create, Adjust}
         /\ p.operation = Create => p.amount \in 1..MaxAmount
         /\ p.operation = Adjust => p.lot \in Lot
         /\ MaxAmount \in Nat
<1>1. p \in LotCreate \cup Adjustment
  BY ConstantsAssumption
<1>2. CASE p \in LotCreate
  BY <1>2, BoundsAssumption DEF LotCreate, Create, Adjust
<1>3. CASE p \in Adjustment
  BY <1>3, BoundsAssumption DEF Adjustment, Create, Adjust
<1>4. QED
  BY <1>1, <1>2, <1>3

LEMMA InitTypeOK == Init => TypeOK
<1>1. SUFFICES ASSUME Init PROVE TypeOK
  OBVIOUS
<1>2. 0 \in 0..MaxAmount
  BY BoundsAssumption
<1>3. inventory_movement \in Seq(MovementType)
  BY <1>1 DEF Init
<1>4. reply \in [Call -> [status : Status, lot : Lot \cup {NoLot},
                        amount : 0..MaxAmount]]
  BY <1>1, <1>2 DEF Init, NoReply, Status
<1>5. QED
  BY <1>1, <1>2, <1>3, <1>4 DEF Init, TypeOK

\* An answer keeps the types when it names a lot and a legal amount.
LEMMA AnswerType ==
  ASSUME TypeOK, NEW c \in Call, NEW st \in Status,
         NEW l \in Lot \cup {NoLot}, NEW q \in 0..MaxAmount,
         Answer(c, [status |-> st, lot |-> l, amount |-> q])
  PROVE  /\ reply' \in [Call -> [status : Status, lot : Lot \cup {NoLot},
                                 amount : 0..MaxAmount]]
         /\ pc' \in [Call -> {"received", "lock", "insert", "commit",
                              "committed", "replay", "done", "lost"}]
BY DEF TypeOK, Answer

LEMMA ReplayType ==
  ASSUME TypeOK, NEW c \in Call, NEW i \in Rows, Replay(c, Row(i))
  PROVE  /\ reply' \in [Call -> [status : Status, lot : Lot \cup {NoLot},
                                 amount : 0..MaxAmount]]
         /\ pc' \in [Call -> {"received", "lock", "insert", "commit",
                              "committed", "replay", "done", "lost"}]
<1>1. Row(i) \in MovementType
  BY DEF TypeOK, Rows, Row
<1>2. Row(i).lot \in Lot /\ Row(i).result \in 0..MaxAmount
  BY <1>1 DEF MovementType
<1>3. ReplayedBalance(c, Row(i)) \in 0..MaxAmount
  BY <1>2 DEF ReplayedBalance, TypeOK
<1>4. CASE fingerprint(Row(i).payload) # fingerprint(payload[c])
  <2>1. Answer(c, [status |-> "conflict", lot |-> NoLot, amount |-> 0])
    BY <1>4 DEF Replay, Refusal
  <2>2. QED
    BY <2>1, AnswerType, BoundsAssumption DEF Status
<1>5. CASE fingerprint(Row(i).payload) = fingerprint(payload[c])
  <2>1. Answer(c, [status |-> "ok", lot |-> Row(i).lot,
                   amount |-> ReplayedBalance(c, Row(i))])
    BY <1>5 DEF Replay, Accepted
  <2>2. QED
    BY <2>1, <1>2, <1>3, AnswerType DEF Status
<1>6. QED
  BY <1>4, <1>5

-----------------------------------------------------------------------------
(***************************************************************************)
(* The inductive invariant: to what the theorems state it adds what the    *)
(* calls rely on between two of their steps.                               *)
(***************************************************************************)
\* A row lock belongs to a call about to commit on that very lot, and the
\* balance that call computed is still current.
LockDiscipline ==
  /\ \A l \in Lot :
       lock[l] # NoCall => pc[lock[l]] = "commit" /\ target[lock[l]] = l
  /\ \A c \in Call : pc[c] = "commit" =>
       /\ payload[c].operation = Adjust
       /\ target[c] \in Lot
       /\ Exists(target[c])

\* What a call has done by the time it reaches each of its steps.
Phases ==
  \A c \in Call :
    /\ pc[c] = "lock" => payload[c].operation = Adjust
    /\ pc[c] = "insert" => payload[c].operation = Create
    /\ pc[c] \in {"received", "lock", "insert", "commit", "replay"}
         => \A i \in Rows : Row(i).call # c
    /\ pc[c] # "done" => reply[c] = NoReply
    /\ pc[c] = "committed" =>
         \E i \in Rows :
           /\ Row(i).call = c
           /\ Row(i).lot = target[c]
           /\ payload[c].operation = Adjust => Row(i).result = quantity[c]

\* A row belongs to a lot that exists.
RowsBelong == \A i \in Rows : Exists(Row(i).lot)

\* A lot that exists has a newest row.
NewestRows ==
  \A l \in Lot : Exists(l) =>
    \E i \in Rows : Row(i).lot = l /\ \A j \in Rows : i < j => Row(j).lot # l

IInv ==
  /\ TypeOK
  /\ LockDiscipline
  /\ NoStaleBalance
  /\ Phases
  /\ RowsBelong
  /\ NewestRows
  /\ ResultsChain
  /\ EffectAtMostOnce
  /\ TruthfulAnswers

-----------------------------------------------------------------------------
\* A step that leaves the tables alone leaves what is said of them alone.
LEMMA SameTables ==
  ASSUME RowsBelong, NewestRows, ResultsChain, EffectAtMostOnce, UNCHANGED tables
  PROVE  RowsBelong' /\ NewestRows' /\ ResultsChain' /\ EffectAtMostOnce'
<1>1. RowsBelong'
  BY DEF RowsBelong, Rows, Row, Exists, tables
<1>2. NewestRows'
  BY DEF NewestRows, Rows, Row, Exists, tables
<1>3. ResultsChain'
  BY DEF ResultsChain, Follows, Rows, Row, tables
<1>4. EffectAtMostOnce'
  BY DEF EffectAtMostOnce, HasKeyOf, Rows, Row, tables
<1>5. QED
  BY <1>1, <1>2, <1>3, <1>4

\* What appending one row does to the table.
LEMMA AddedRow ==
  ASSUME inventory_movement \in Seq(MovementType), NEW row \in MovementType,
         inventory_movement' = Added(row)
  PROVE  /\ inventory_movement' \in Seq(MovementType)
         /\ Len(inventory_movement) \in Nat
         /\ Rows = 1..Len(inventory_movement)
         /\ Rows' = 1..(Len(inventory_movement) + 1)
         /\ \A i \in Rows : inventory_movement'[i] = inventory_movement[i]
         /\ inventory_movement'[Len(inventory_movement) + 1] = row
<1>1. inventory_movement' = Append(inventory_movement, row)
  BY DEF Added
<1>2. inventory_movement' \in Seq(MovementType)
  BY <1>1
<1>3. Len(inventory_movement) \in Nat
  OBVIOUS
<1>4. Rows = 1..Len(inventory_movement)
  BY DEF Rows
<1>5. Len(inventory_movement') = Len(inventory_movement) + 1
  BY <1>1
<1>6. Rows' = 1..Len(inventory_movement')
  BY <1>2 DEF Rows
<1>7. \A i \in Rows : inventory_movement'[i] = inventory_movement[i]
  BY <1>1, <1>4
<1>8. inventory_movement'[Len(inventory_movement) + 1] = row
  BY <1>1
<1>9. QED
  BY <1>2, <1>3, <1>4, <1>5, <1>6, <1>7, <1>8

LEMMA RowType ==
  ASSUME TypeOK, NEW i \in Rows
  PROVE  /\ inventory_movement[i] \in MovementType
         /\ inventory_movement[i].lot \in Lot
         /\ inventory_movement[i].result \in 0..MaxAmount
<1>1. inventory_movement \in Seq(MovementType)
  BY DEF TypeOK
<1>2. inventory_movement[i] \in MovementType
  BY <1>1 DEF Rows
<1>3. QED
  BY <1>2 DEF MovementType

\* A row whose recorded balance continues its lot's chain keeps the ledger right.
LEMMA AddedRowChain ==
  ASSUME TypeOK, TypeOK', RowsBelong, NewestRows, ResultsChain,
         NEW row \in MovementType, inventory_movement' = Added(row),
         quantity_on_hand' = [quantity_on_hand EXCEPT ![row.lot] = row.result],
         \/ /\ ~Exists(row.lot)
            /\ row.result = row.payload.amount
            /\ \E u \in Unit : unit_of' = [unit_of EXCEPT ![row.lot] = u]
         \/ /\ Exists(row.lot)
            /\ row.result = quantity_on_hand[row.lot] + row.payload.amount
            /\ unit_of' = unit_of
  PROVE  RowsBelong' /\ NewestRows' /\ ResultsChain'
<1> DEFINE n == Len(inventory_movement) + 1
<1>1. /\ n \in Nat \ {0} /\ Rows = 1..(n - 1) /\ Rows' = 1..n
      /\ \A i \in Rows : inventory_movement'[i] = inventory_movement[i]
      /\ inventory_movement'[n] = row
  BY AddedRow DEF TypeOK
<1> USE DEF Row
<1>2. row.lot \in Lot
  BY DEF MovementType
<1>3. \A l \in Lot : Exists(l)' <=> Exists(l) \/ l = row.lot
  BY <1>2, ConstantsAssumption DEF Exists, TypeOK
<1>4. \A i \in Rows : Row(i).lot \in Lot
  BY RowType
<1> HIDE DEF n
<1>5. RowsBelong'
  BY <1>1, <1>2, <1>3, <1>4 DEF RowsBelong
<1>6. NewestRows'
  <2> SUFFICES ASSUME NEW l \in Lot, Exists(l)'
               PROVE  \E i \in Rows' : Row(i)'.lot = l
                        /\ \A j \in Rows' : i < j => Row(j)'.lot # l
    BY DEF NewestRows
  <2>1. CASE l = row.lot
    BY <1>1, <2>1
  <2>2. CASE l # row.lot
    <3>1. PICK i \in Rows : Row(i).lot = l /\ \A j \in Rows : i < j => Row(j).lot # l
      BY <1>3, <2>2 DEF NewestRows
    <3>2. QED
      BY <1>1, <2>2, <3>1
  <2>3. QED
    BY <2>1, <2>2
<1>7. ResultsChain'
  <2>1. ASSUME NEW j \in Rows', \A i \in Rows' : i < j => Row(i)'.lot # Row(j)'.lot
        PROVE  Row(j)'.result = Row(j)'.payload.amount
    <3>1. CASE j = n
      <4>1. \A i \in Rows : Row(i).lot # row.lot
        BY <1>1, <2>1, <3>1
      <4>2. ~Exists(row.lot)
        BY <1>2, <4>1 DEF NewestRows
      <4>3. QED
        BY <1>1, <3>1, <4>2
    <3>2. CASE j \in Rows
      <4>1. \A i \in Rows : i < j => Row(i).lot # Row(j).lot
        BY <1>1, <2>1, <3>2
      <4>2. QED
        BY <1>1, <3>2, <4>1 DEF ResultsChain
    <3>3. QED
      BY <1>1, <3>1, <3>2
  <2>2. ASSUME NEW i \in Rows', NEW j \in Rows', Follows(i, j)'
        PROVE  Row(j)'.result = Row(i)'.result + Row(j)'.payload.amount
    <3>1. i \in Rows /\ i < j
      BY <1>1, <2>2 DEF Follows
    <3>2. CASE j = n
      <4>1. Row(i).lot = row.lot /\ \A k \in Rows : i < k => Row(k).lot # row.lot
        BY <1>1, <2>2, <3>1, <3>2 DEF Follows
      <4>2. quantity_on_hand[row.lot] = Row(i).result
        BY <3>1, <4>1 DEF ResultsChain
      <4>3. Exists(row.lot)
        BY <3>1, <4>1 DEF RowsBelong
      <4>4. QED
        BY <1>1, <3>1, <3>2, <4>2, <4>3
    <3>3. CASE j \in Rows
      <4>1. Follows(i, j)
        BY <1>1, <2>2, <3>1, <3>3 DEF Follows
      <4>2. QED
        BY <1>1, <3>1, <3>3, <4>1 DEF ResultsChain
    <3>4. QED
      BY <1>1, <3>2, <3>3
  <2>3. ASSUME NEW i \in Rows', \A j \in Rows' : i < j => Row(j)'.lot # Row(i)'.lot
        PROVE  quantity_on_hand'[Row(i)'.lot] = Row(i)'.result
    <3>1. CASE i = n
      BY <1>1, <1>2, <3>1 DEF TypeOK
    <3>2. CASE i \in Rows
      <4>1. Row(i).lot # row.lot /\ \A j \in Rows : i < j => Row(j).lot # Row(i).lot
        BY <1>1, <2>3, <3>2
      <4>2. QED
        BY <1>1, <1>2, <1>4, <3>2, <4>1 DEF ResultsChain, TypeOK
    <3>3. QED
      BY <1>1, <3>1, <3>2
  <2>4. QED
    BY <2>1, <2>2, <2>3 DEF ResultsChain
<1>8. QED
  BY <1>5, <1>6, <1>7

\* A row with a fresh key, written by a call that wrote none, repeats no effect.
LEMMA AddedRowOnce ==
  ASSUME TypeOK, EffectAtMostOnce, NEW row \in MovementType,
         inventory_movement' = Added(row), KeyRows(row.payload) = {},
         row.call # NoCall => \A i \in Rows : Row(i).call # row.call
  PROVE  EffectAtMostOnce'
<1> DEFINE n == Len(inventory_movement) + 1
<1>1. /\ n \in Nat \ {0} /\ Rows = 1..(n - 1) /\ Rows' = 1..n
      /\ \A i \in Rows : inventory_movement'[i] = inventory_movement[i]
      /\ inventory_movement'[n] = row
  BY AddedRow DEF TypeOK
<1> HIDE DEF n
<1> USE DEF Row
<1>2. \A i \in Rows : ~HasKeyOf(Row(i), row.payload) /\ ~HasKeyOf(row, Row(i).payload)
  BY DEF KeyRows, HasKeyOf, Rows
<1> SUFFICES ASSUME NEW i \in Rows', NEW j \in Rows', i # j,
                    \/ HasKeyOf(inventory_movement'[j], inventory_movement'[i].payload)
                    \/ /\ inventory_movement'[i].call # NoCall
                       /\ inventory_movement'[i].call = inventory_movement'[j].call
             PROVE  FALSE
  BY DEF EffectAtMostOnce, HasKeyOf
<1>3. CASE i \in Rows /\ j \in Rows
  BY <1>1, <1>3 DEF EffectAtMostOnce
<1>4. CASE i = n
  BY <1>1, <1>2, <1>4
<1>5. CASE j = n
  BY <1>1, <1>2, <1>5
<1>6. QED
  BY <1>1, <1>3, <1>4, <1>5

-----------------------------------------------------------------------------
\* What the four invariants about calls say, for a step that only answers one.
CallsOK == LockDiscipline /\ NoStaleBalance /\ Phases /\ TruthfulAnswers

LEMMA AnswerKeeps ==
  ASSUME TypeOK, CallsOK, NEW c \in Call, NEW r, Answer(c, r),
         UNCHANGED <<tables, lock, payload, target, quantity>>,
         pc[c] \in {"received", "lock", "replay", "committed"},
         r.status = "ok" =>
           \E i \in Rows :
             /\ Row(i).lot = r.lot
             /\ \/ Row(i).call = c
                \/ /\ HasKeyOf(Row(i), payload[c])
                   /\ fingerprint(Row(i).payload) = fingerprint(payload[c])
             /\ payload[c].operation = Adjust => Row(i).result = r.amount,
         r.status \in {"conflict", "not_found"} => \A i \in Rows : Row(i).call # c
  PROVE  CallsOK'
<1> USE DEF CallsOK, Answer, tables
<1>1. /\ pc' = [pc EXCEPT ![c] = "done"]
      /\ reply' = [reply EXCEPT ![c] = r]
      /\ DOMAIN pc = Call /\ DOMAIN reply = Call
  BY DEF TypeOK
<1>2. LockDiscipline'
  BY <1>1 DEF LockDiscipline, Exists, TypeOK
<1>3. NoStaleBalance'
  BY <1>1 DEF NoStaleBalance
<1>4. Phases'
  BY <1>1 DEF Phases, Rows, Row
<1>5. TruthfulAnswers'
  <2> SUFFICES ASSUME NEW d \in Call
               PROVE  /\ reply'[d].status = "ok" => \E i \in Rows : Reported(d, Row(i))'
                      /\ reply'[d].status \in {"conflict", "not_found"}
                           => \A i \in Rows : Row(i).call # d
    BY DEF TruthfulAnswers, Rows, Row
  <2>1. CASE d = c
    BY <1>1, <2>1 DEF Reported, Rows, Row, HasKeyOf, fingerprint
  <2>2. CASE d # c
    BY <1>1, <2>2 DEF TruthfulAnswers, Reported, Rows, Row, HasKeyOf, fingerprint
  <2>3. QED
    BY <2>1, <2>2
<1>6. QED
  BY <1>2, <1>3, <1>4, <1>5

\* Replaying the row that holds the call's key is a truthful answer.
LEMMA ReplayKeeps ==
  ASSUME TypeOK, CallsOK, NEW c \in Call, NEW i \in KeyRows(payload[c]),
         Replay(c, inventory_movement[i]),
         UNCHANGED <<tables, lock, payload, target, quantity>>,
         pc[c] \in {"received", "replay"}
  PROVE  CallsOK'
<1>1. /\ i \in Rows /\ Row(i) = inventory_movement[i]
      /\ HasKeyOf(Row(i), payload[c])
      /\ \A j \in Rows : Row(j).call # c
  BY DEF KeyRows, Rows, Row, CallsOK, Phases
<1>2. CASE fingerprint(Row(i).payload) # fingerprint(payload[c])
  <2> DEFINE r == Refusal("conflict")
  <2>1. Answer(c, r)
    BY <1>1, <1>2 DEF Replay
  <2>2. r.status = "conflict"
    BY DEF Refusal
  <2> HIDE DEF r
  <2>3. QED
    BY <1>1, <2>1, <2>2, AnswerKeeps
<1>3. CASE fingerprint(Row(i).payload) = fingerprint(payload[c])
  <2> DEFINE r == Accepted(Row(i).lot, ReplayedBalance(c, Row(i)))
  <2>1. Answer(c, r)
    BY <1>1, <1>3 DEF Replay
  <2>2. r.status = "ok" /\ r.lot = Row(i).lot
    BY DEF Accepted
  <2>3. payload[c].operation = Adjust => Row(i).result = r.amount
    BY DEF Accepted, ReplayedBalance, Create, Adjust
  <2> HIDE DEF r
  <2>4. QED
    BY <1>1, <1>3, <2>1, <2>2, <2>3, AnswerKeeps
<1>4. QED
  BY <1>2, <1>3

\* Reporting the row that the call itself committed is a truthful answer.
LEMMA RespondKeeps ==
  ASSUME TypeOK, CallsOK, NEW c \in Call, Respond(c)
  PROVE  CallsOK'
<1> DEFINE q == IF payload[c].operation = Create
                THEN quantity_on_hand[target[c]] ELSE quantity[c]
           r == Accepted(target[c], q)
<1>1. Answer(c, r) /\ pc[c] = "committed"
      /\ UNCHANGED <<tables, lock, payload, target, quantity>>
  BY DEF Respond
<1>2. PICK i \in Rows : /\ Row(i).call = c
                        /\ Row(i).lot = target[c]
                        /\ payload[c].operation = Adjust => Row(i).result = quantity[c]
  BY <1>1 DEF CallsOK, Phases
<1>3. r.status = "ok" /\ r.lot = target[c]
      /\ (payload[c].operation = Adjust => r.amount = quantity[c])
  BY DEF Accepted, Create, Adjust
<1> HIDE DEF r
<1>4. QED
  BY <1>1, <1>2, <1>3, AnswerKeeps

\* A refusal is truthful: the call has written nothing.
LEMMA RefusalKeeps ==
  ASSUME TypeOK, CallsOK, NEW c \in Call, NEW st \in {"conflict", "not_found"},
         Answer(c, Refusal(st)), pc[c] \in {"received", "lock"},
         UNCHANGED <<tables, lock, payload, target, quantity>>
  PROVE  CallsOK'
<1> DEFINE r == Refusal(st)
<1>1. r.status = st
  BY DEF Refusal
<1>2. \A i \in Rows : Row(i).call # c
  BY DEF CallsOK, Phases
<1>3. Answer(c, r)
  OBVIOUS
<1> HIDE DEF r
<1>4. QED
  BY <1>1, <1>2, <1>3, AnswerKeeps

-----------------------------------------------------------------------------
\* Steps that change neither the tables nor an answer.
LEMMA LookupMissKeeps ==
  ASSUME TypeOK, CallsOK, NEW c \in Call, LookupMiss(c)
  PROVE  CallsOK'
<1> USE DEF CallsOK, LookupMiss, tables
<1>1. payload[c].operation \in {Create, Adjust}
  BY PayloadFields DEF TypeOK
<1>2. LockDiscipline'
  BY DEF LockDiscipline, Exists, TypeOK
<1>3. NoStaleBalance'
  BY DEF NoStaleBalance, TypeOK
<1>4. Phases'
  BY <1>1 DEF Phases, Rows, Row, TypeOK, Create, Adjust
<1>5. TruthfulAnswers'
  BY DEF TruthfulAnswers, Reported, HasKeyOf, fingerprint, Rows, Row
<1>6. QED
  BY <1>2, <1>3, <1>4, <1>5

LEMMA LockLotKeeps ==
  ASSUME TypeOK, CallsOK, NEW c \in Call, LockLot(c)
  PROVE  CallsOK'
<1> DEFINE l == payload[c].lot
<1> USE DEF CallsOK, LockLot, tables
<1>1. /\ payload[c].operation = Adjust
      /\ l \in Lot
      /\ lock[l] = NoCall
      /\ NoCall \notin Call
  BY PayloadFields, ConstantsAssumption DEF Phases, Free, TypeOK
<1>2. LockDiscipline'
  BY <1>1 DEF LockDiscipline, Exists, TypeOK
<1>3. NoStaleBalance'
  BY <1>1 DEF NoStaleBalance, LockDiscipline, TypeOK
<1>4. Phases'
  BY DEF Phases, Rows, Row, TypeOK
<1>5. TruthfulAnswers'
  BY DEF TruthfulAnswers, Reported, HasKeyOf, fingerprint, Rows, Row
<1>6. QED
  BY <1>2, <1>3, <1>4, <1>5

LEMMA ReleaseKeeps ==
  ASSUME TypeOK, CallsOK, NEW c \in Call, CommitRefused(c) \/ Crash(c)
  PROVE  CallsOK'
<1> USE DEF CallsOK
<1>1. PICK v \in {"replay", "lost"} :
        /\ pc' = [pc EXCEPT ![c] = v]
        /\ v = "replay" => pc[c] \in {"commit", "insert"}
        /\ pc[c] # "done"
  BY DEF CommitRefused, Crash
<1>2. /\ lock' = [l \in Lot |-> IF lock[l] = c THEN NoCall ELSE lock[l]]
      /\ UNCHANGED <<unit_of, quantity_on_hand, inventory_movement, payload,
                     target, quantity, reply>>
  BY DEF CommitRefused, Crash, Released, tables
<1>3. NoCall \notin Call /\ DOMAIN pc = Call
  BY ConstantsAssumption DEF TypeOK
<1>4. LockDiscipline'
  BY <1>1, <1>2, <1>3 DEF LockDiscipline, Exists
<1>5. NoStaleBalance'
  BY <1>1, <1>2, <1>3 DEF NoStaleBalance, LockDiscipline
<1>6. Phases'
  BY <1>1, <1>2, <1>3 DEF Phases, Rows, Row
<1>7. TruthfulAnswers'
  BY <1>2 DEF TruthfulAnswers, Reported, HasKeyOf, fingerprint, Rows, Row
<1>8. QED
  BY <1>4, <1>5, <1>6, <1>7

-----------------------------------------------------------------------------
\* Steps that add a row: by call c, or by another service (c = NoCall).
LEMMA AddedRowAnswers ==
  ASSUME TypeOK, TruthfulAnswers, NEW row \in MovementType,
         inventory_movement' = Added(row), UNCHANGED <<payload, reply>>,
         row.call \in Call => reply[row.call].status = "none"
  PROVE  TruthfulAnswers'
<1> DEFINE n == Len(inventory_movement) + 1
<1>1. /\ n \in Nat \ {0} /\ Rows = 1..(n - 1) /\ Rows' = 1..n
      /\ \A i \in Rows : inventory_movement'[i] = inventory_movement[i]
      /\ inventory_movement'[n] = row
  BY AddedRow DEF TypeOK
<1> HIDE DEF n
<1> SUFFICES ASSUME NEW d \in Call
             PROVE  /\ reply[d].status = "ok" =>
                         \E i \in Rows' : Reported(d, inventory_movement[i])'
                    /\ reply[d].status \in {"conflict", "not_found"} =>
                         \A i \in Rows' : inventory_movement'[i].call # d
  BY DEF TruthfulAnswers, Row
<1>2. ASSUME reply[d].status = "ok"
      PROVE  \E i \in Rows' : Reported(d, inventory_movement[i])'
  <2>1. PICK i \in Rows : Reported(d, inventory_movement[i])
    BY <1>2 DEF TruthfulAnswers, Row
  <2>2. i \in Rows' /\ inventory_movement'[i] = inventory_movement[i]
    BY <1>1
  <2>3. Reported(d, inventory_movement[i])'
    BY <2>1, <2>2 DEF Reported, HasKeyOf, fingerprint
  <2>4. QED
    BY <2>2, <2>3
<1>3. ASSUME reply[d].status \in {"conflict", "not_found"}
      PROVE  \A i \in Rows' : inventory_movement'[i].call # d
  BY <1>1, <1>3 DEF TruthfulAnswers, Row
<1>4. QED
  BY <1>2, <1>3

LEMMA CommitAdjustmentKeeps ==
  ASSUME TypeOK, CallsOK, NEW c \in Call, CommitAdjustment(c)
  PROVE  /\ CallsOK'
         /\ Movement(c, target[c], payload[c], quantity[c]) \in MovementType
<1> DEFINE l == target[c]
           row == Movement(c, l, payload[c], quantity[c])
           n == Len(inventory_movement) + 1
<1> USE DEF CallsOK, CommitAdjustment, Released
<1>1. /\ l \in Lot /\ Exists(l)
      /\ payload[c].operation = Adjust
      /\ lock[l] = c
      /\ NoCall \notin Call
      /\ reply[c] = NoReply
      /\ \A i \in Rows : Row(i).call # c
  BY ConstantsAssumption DEF LockDiscipline, NoStaleBalance, Phases
<1>2. row \in MovementType /\ row.call = c /\ row.lot = l /\ row.result = quantity[c]
  BY <1>1 DEF Movement, MovementType, TypeOK
<1>3. inventory_movement' = Added(row)
  OBVIOUS
<1> HIDE DEF row
<1>4. /\ n \in Nat \ {0} /\ Rows = 1..(n - 1) /\ Rows' = 1..n
      /\ \A i \in Rows : inventory_movement'[i] = inventory_movement[i]
      /\ inventory_movement'[n] = row
  BY <1>2, <1>3, AddedRow DEF TypeOK
<1> HIDE DEF n
<1>5. LockDiscipline'
  BY <1>1 DEF LockDiscipline, Exists, TypeOK
<1>6. NoStaleBalance'
  BY <1>1 DEF NoStaleBalance, LockDiscipline, TypeOK
<1>7. Phases'
  <2> SUFFICES ASSUME NEW d \in Call
      PROVE  /\ pc'[d] = "lock" => payload[d].operation = Adjust
             /\ pc'[d] = "insert" => payload[d].operation = Create
             /\ pc'[d] \in {"received", "lock", "insert", "commit", "replay"}
                  => \A i \in Rows' : inventory_movement'[i].call # d
             /\ pc'[d] # "done" => reply[d] = NoReply
             /\ pc'[d] = "committed" =>
                  \E i \in Rows' :
                    /\ inventory_movement'[i].call = d
                    /\ inventory_movement'[i].lot = target[d]
                    /\ payload[d].operation = Adjust
                         => inventory_movement'[i].result = quantity[d]
    BY DEF Phases, Row, NoReply
  <2>1. CASE d = c
    BY <1>1, <1>2, <1>4, <2>1 DEF TypeOK
  <2>2. CASE d # c
    <3>1. pc'[d] = pc[d]
      BY <2>2 DEF TypeOK
    <3>2. QED
      BY <1>2, <1>4, <2>2, <3>1 DEF Phases, Row
  <2>3. QED
    BY <2>1, <2>2
<1>8. TruthfulAnswers'
  BY <1>1, <1>2, <1>3, AddedRowAnswers DEF NoReply
<1>9. QED
  BY <1>2, <1>5, <1>6, <1>7, <1>8 DEF row

LEMMA CommitCreationKeeps ==
  ASSUME TypeOK, CallsOK, NEW c \in Call, NEW l \in Lot, ~Exists(l),
         pc[c] = "insert",
         NEW row \in MovementType, row.call = c, row.lot = l,
         inventory_movement' = Added(row),
         unit_of' = [unit_of EXCEPT ![l] = payload[c].unit],
         quantity_on_hand' = [quantity_on_hand EXCEPT ![l] = payload[c].amount],
         target' = [target EXCEPT ![c] = l],
         pc' = [pc EXCEPT ![c] = "committed"],
         UNCHANGED <<lock, payload, quantity, reply>>
  PROVE  CallsOK'
<1> DEFINE n == Len(inventory_movement) + 1
<1> USE DEF CallsOK
<1>1. /\ n \in Nat \ {0} /\ Rows = 1..(n - 1) /\ Rows' = 1..n
      /\ \A i \in Rows : inventory_movement'[i] = inventory_movement[i]
      /\ inventory_movement'[n] = row
  BY AddedRow DEF TypeOK
<1> HIDE DEF n
<1>2. /\ DOMAIN pc = Call /\ DOMAIN target = Call
      /\ DOMAIN unit_of = Lot /\ DOMAIN quantity_on_hand = Lot
      /\ payload[c].operation = Create
      /\ reply[c] = NoReply
      /\ Create # Adjust
  BY DEF TypeOK, Phases, Create, Adjust
<1>3. payload[c].unit # NoUnit
  BY PayloadFields, ConstantsAssumption DEF TypeOK
<1>4. \A k \in Lot : Exists(k) => Exists(k)' /\ k # l
  BY <1>2, <1>3 DEF Exists
<1>5. \A k \in Lot : lock[k] # NoCall => lock[k] \in Call /\ lock[k] # c /\ k # l
  BY <1>4 DEF LockDiscipline, TypeOK
<1>6. LockDiscipline'
  BY <1>2, <1>4, <1>5 DEF LockDiscipline
<1>7. NoStaleBalance'
  BY <1>2, <1>4 DEF NoStaleBalance, LockDiscipline
<1>8. Phases'
  <2> SUFFICES ASSUME NEW d \in Call
      PROVE  /\ pc'[d] = "lock" => payload[d].operation = Adjust
             /\ pc'[d] = "insert" => payload[d].operation = Create
             /\ pc'[d] \in {"received", "lock", "insert", "commit", "replay"}
                  => \A i \in Rows' : inventory_movement'[i].call # d
             /\ pc'[d] # "done" => reply[d] = NoReply
             /\ pc'[d] = "committed" =>
                  \E i \in Rows' :
                    /\ inventory_movement'[i].call = d
                    /\ inventory_movement'[i].lot = target'[d]
                    /\ payload[d].operation = Adjust
                         => inventory_movement'[i].result = quantity[d]
    BY DEF Phases, Row, NoReply
  <2>1. CASE d = c
    BY <1>1, <1>2, <2>1
  <2>2. CASE d # c
    <3>1. pc'[d] = pc[d] /\ target'[d] = target[d]
      BY <2>2 DEF TypeOK
    <3>2. QED
      BY <1>1, <2>2, <3>1 DEF Phases, Row
  <2>3. QED
    BY <2>1, <2>2
<1>9. TruthfulAnswers'
  BY <1>2, AddedRowAnswers DEF NoReply
<1>10. QED
  BY <1>6, <1>7, <1>8, <1>9

LEMMA OtherRowKeeps ==
  ASSUME TypeOK, CallsOK, NEW row \in MovementType, row.call = NoCall,
         inventory_movement' = Added(row),
         UNCHANGED <<lock, pc, payload, target, quantity, reply>>,
         \A l \in Lot : Exists(l) => Exists(l)',
         \A l \in Lot : lock[l] # NoCall => quantity_on_hand'[l] = quantity_on_hand[l]
  PROVE  CallsOK'
<1> DEFINE n == Len(inventory_movement) + 1
<1> USE DEF CallsOK
<1>1. /\ n \in Nat \ {0} /\ Rows = 1..(n - 1) /\ Rows' = 1..n
      /\ \A i \in Rows : inventory_movement'[i] = inventory_movement[i]
      /\ inventory_movement'[n] = row
  BY AddedRow DEF TypeOK
<1> HIDE DEF n
<1>2. NoCall \notin Call
  BY ConstantsAssumption
<1>3. LockDiscipline'
  BY DEF LockDiscipline
<1>4. NoStaleBalance'
  BY <1>2 DEF NoStaleBalance, LockDiscipline
<1>5. Phases'
  BY <1>1, <1>2 DEF Phases, Row, NoReply
<1>6. TruthfulAnswers'
  BY <1>2, AddedRowAnswers
<1>7. QED
  BY <1>3, <1>4, <1>5, <1>6

-----------------------------------------------------------------------------
\* The induction step, one lemma per kind of action.
LEMMA AnswerStep ==
  ASSUME IInv, NEW c \in Call,
         \/ RefuseArchived(c) \/ LookupHit(c) \/ RefuseAdjustment(c)
         \/ ReplayAfterRollback(c) \/ Respond(c)
  PROVE  IInv'
<1>1. /\ UNCHANGED <<tables, archived, lock, payload, target, quantity>>
      /\ TypeOK /\ CallsOK
  BY DEF IInv, CallsOK, RefuseArchived, LookupHit, RefuseAdjustment,
         ReplayAfterRollback, Respond
<1> DEFINE Goal ==
      /\ reply' \in [Call -> [status : Status, lot : Lot \cup {NoLot}, amount : 0..MaxAmount]]
      /\ pc' \in [Call -> {"received", "lock", "insert", "commit", "committed",
                          "replay", "done", "lost"}]
      /\ CallsOK'
<1>2. Goal
  <2>1. ASSUME NEW st \in {"conflict", "not_found"}, Answer(c, Refusal(st)),
               pc[c] \in {"received", "lock"}
        PROVE  Goal
    <3>1. Answer(c, [status |-> st, lot |-> NoLot, amount |-> 0])
      BY <2>1 DEF Refusal
    <3>2. 0 \in 0..MaxAmount /\ st \in Status
      BY BoundsAssumption DEF Status
    <3>3. QED
      BY <1>1, <2>1, <3>1, <3>2, AnswerType, RefusalKeeps
  <2>2. ASSUME NEW i \in KeyRows(payload[c]), Replay(c, inventory_movement[i]),
               pc[c] \in {"received", "replay"}
        PROVE  Goal
    <3>1. i \in Rows /\ Row(i) = inventory_movement[i]
      BY DEF KeyRows, Rows, Row
    <3>2. QED
      BY <1>1, <2>2, <3>1, ReplayType, ReplayKeeps
  <2>3. CASE RefuseArchived(c)
    BY <2>1, <2>3 DEF RefuseArchived
  <2>4. CASE LookupHit(c)
    BY <2>2, <2>4 DEF LookupHit
  <2>5. CASE RefuseAdjustment(c)
    BY <2>1, <2>5 DEF RefuseAdjustment
  <2>6. CASE ReplayAfterRollback(c)
    BY <2>2, <2>6 DEF ReplayAfterRollback
  <2>7. CASE Respond(c)
    <3> DEFINE q == IF payload[c].operation = Create
                    THEN quantity_on_hand[target[c]] ELSE quantity[c]
    <3>1. Answer(c, [status |-> "ok", lot |-> target[c], amount |-> q])
          /\ pc[c] = "committed"
      BY <2>7 DEF Respond, Accepted
    <3>2. PICK i \in Rows : Row(i).lot = target[c]
      BY <1>1, <3>1 DEF CallsOK, Phases
    <3>3. target[c] \in Lot
      BY <1>1, <3>2, RowType DEF Row
    <3>4. q \in 0..MaxAmount
      BY <1>1, <3>3 DEF TypeOK
    <3> HIDE DEF q
    <3>5. QED
      BY <1>1, <2>7, <3>1, <3>3, <3>4, AnswerType, RespondKeeps DEF Status
  <2>8. QED
    BY <2>3, <2>4, <2>5, <2>6, <2>7
<1>3. TypeOK'
  BY <1>1, <1>2 DEF TypeOK, tables
<1>4. QED
  BY <1>1, <1>2, <1>3, SameTables DEF IInv, CallsOK

LEMMA QuietStep ==
  ASSUME IInv, NEW c \in Call,
         LookupMiss(c) \/ LockLot(c) \/ CommitRefused(c) \/ Crash(c)
  PROVE  IInv'
<1>1. UNCHANGED <<tables, archived, payload, reply>> /\ TypeOK /\ CallsOK
  BY DEF IInv, CallsOK, LookupMiss, LockLot, CommitRefused, Crash
<1>2. CallsOK'
  BY <1>1, LookupMissKeeps, LockLotKeeps, ReleaseKeeps
<1>3. TypeOK'
  <2>1. CASE LookupMiss(c)
    BY <1>1, <2>1 DEF TypeOK, LookupMiss, tables
  <2>2. CASE LockLot(c)
    <3>1. payload[c].lot \in Lot
      BY <1>1, <2>2, PayloadFields DEF LockLot, CallsOK, Phases, TypeOK
    <3>2. quantity_on_hand[payload[c].lot] + payload[c].amount \in 0..MaxAmount
      BY <2>2 DEF LockLot, CanApply
    <3>3. QED
      BY <1>1, <2>2, <3>1, <3>2 DEF TypeOK, LockLot, tables
  <2>3. CASE CommitRefused(c)
    BY <1>1, <2>3 DEF TypeOK, CommitRefused, Released, tables
  <2>4. CASE Crash(c)
    BY <1>1, <2>4 DEF TypeOK, Crash, Released, tables
  <2>5. QED
    BY <2>1, <2>2, <2>3, <2>4
<1>4. QED
  BY <1>1, <1>2, <1>3, SameTables DEF IInv, CallsOK

LEMMA CommitAdjustmentStep ==
  ASSUME IInv, NEW c \in Call, CommitAdjustment(c)
  PROVE  IInv'
<1> DEFINE l == target[c]
           row == Movement(c, l, payload[c], quantity[c])
<1>1. TypeOK /\ CallsOK
  BY DEF IInv, CallsOK
<1>2. row \in MovementType /\ CallsOK'
  BY <1>1, CommitAdjustmentKeeps
<1>3. /\ inventory_movement' = Added(row)
      /\ quantity_on_hand' = [quantity_on_hand EXCEPT ![l] = quantity[c]]
      /\ lock' = [k \in Lot |-> IF lock[k] = c THEN NoCall ELSE lock[k]]
      /\ pc' = [pc EXCEPT ![c] = "committed"]
      /\ pc[c] = "commit"
      /\ KeyRows(payload[c]) = {}
      /\ UNCHANGED <<unit_of, archived, payload, target, quantity, reply>>
  BY DEF CommitAdjustment, Released, KeyTaken
<1>4. row.lot = l /\ row.call = c /\ row.result = quantity[c] /\ row.payload = payload[c]
  BY DEF Movement
<1> HIDE DEF row
<1>5. /\ l \in Lot /\ Exists(l)
      /\ quantity[c] = quantity_on_hand[l] + payload[c].amount
      /\ \A i \in Rows : Row(i).call # c
  BY <1>1, <1>3 DEF CallsOK, LockDiscipline, NoStaleBalance, Phases
<1>6. TypeOK'
  <2>1. inventory_movement' \in Seq(MovementType)
    BY <1>1, <1>2, <1>3, AddedRow DEF TypeOK
  <2>2. QED
    BY <1>1, <1>3, <2>1 DEF TypeOK
<1>7. RowsBelong' /\ NewestRows' /\ ResultsChain'
  BY <1>1, <1>2, <1>3, <1>4, <1>5, <1>6, AddedRowChain DEF IInv
<1>8. EffectAtMostOnce'
  BY <1>1, <1>2, <1>3, <1>4, <1>5, AddedRowOnce DEF IInv
<1>9. QED
  BY <1>2, <1>6, <1>7, <1>8 DEF IInv, CallsOK

LEMMA CommitCreationStep ==
  ASSUME IInv, NEW c \in Call, CommitCreation(c)
  PROVE  IInv'
<1> DEFINE p == payload[c]
<1>1. TypeOK /\ CallsOK
  BY DEF IInv, CallsOK
<1>2. PICK l \in Lot :
        /\ ~Exists(l)
        /\ unit_of' = [unit_of EXCEPT ![l] = p.unit]
        /\ quantity_on_hand' = [quantity_on_hand EXCEPT ![l] = p.amount]
        /\ inventory_movement' = Added(Movement(c, l, p, p.amount))
        /\ target' = [target EXCEPT ![c] = l]
  BY DEF CommitCreation
<1>3. /\ pc[c] = "insert"
      /\ KeyRows(p) = {}
      /\ pc' = [pc EXCEPT ![c] = "committed"]
      /\ UNCHANGED <<archived, lock, payload, quantity, reply>>
  BY DEF CommitCreation, KeyTaken
<1>4. p \in Payload /\ p.unit \in Unit /\ p.amount \in 1..MaxAmount
      /\ p.amount \in 0..MaxAmount
  <2>1. p \in Payload /\ p.operation = Create
    BY <1>1, <1>3 DEF TypeOK, CallsOK, Phases
  <2>2. QED
    BY <2>1, PayloadFields
<1>5. \A i \in Rows : Row(i).call # c
  BY <1>1, <1>3 DEF CallsOK, Phases
<1> DEFINE row == Movement(c, l, p, p.amount)
<1>6. row \in MovementType /\ row.lot = l /\ row.call = c /\ row.result = p.amount
      /\ row.payload = p
  BY <1>4 DEF Movement, MovementType
<1>7. inventory_movement' = Added(row)
  BY <1>2
<1> HIDE DEF row
<1>8. CallsOK'
  BY <1>1, <1>2, <1>3, <1>6, <1>7, CommitCreationKeeps
<1>9. TypeOK'
  <2>1. inventory_movement' \in Seq(MovementType)
    BY <1>1, <1>6, <1>7, AddedRow DEF TypeOK
  <2>2. QED
    BY <1>1, <1>2, <1>3, <1>4, <2>1 DEF TypeOK
<1>10. RowsBelong' /\ NewestRows' /\ ResultsChain'
  BY <1>1, <1>2, <1>4, <1>6, <1>7, <1>9, AddedRowChain DEF IInv
<1>11. EffectAtMostOnce'
  BY <1>1, <1>3, <1>5, <1>6, <1>7, AddedRowOnce DEF IInv
<1>12. QED
  BY <1>8, <1>9, <1>10, <1>11 DEF IInv, CallsOK

LEMMA EnvironmentStep ==
  ASSUME IInv, Environment
  PROVE  IInv'
<1>1. TypeOK /\ CallsOK /\ MaxAmount \in Nat \ {0}
  BY BoundsAssumption DEF IInv, CallsOK
<1>2. ASSUME NEW l \in PurchasedLot, NEW q \in 1..MaxAmount, NEW u \in Unit,
             PurchaseItem(l, q, u)
      PROVE  IInv'
  <2> DEFINE row == Movement(NoCall, l, OtherRow(l, q, u), q)
  <2>1. /\ inventory_movement' = Added(row)
        /\ ~Exists(l)
        /\ unit_of' = [unit_of EXCEPT ![l] = u]
        /\ quantity_on_hand' = [quantity_on_hand EXCEPT ![l] = q]
        /\ UNCHANGED <<archived, lock, pc, payload, target, quantity, reply>>
    BY <1>2 DEF PurchaseItem
  <2>2. l \in Lot /\ u # NoUnit
    BY ConstantsAssumption
  <2>3. /\ row \in MovementType /\ row.lot = l /\ row.result = q
        /\ row.call = NoCall /\ row.payload = OtherRow(l, q, u)
    BY <1>1, <2>2 DEF Movement, MovementType, OtherRow
  <2>4. row.payload.amount = q /\ row.payload.key = NoKey
    BY <2>3 DEF OtherRow
  <2> HIDE DEF row
  <2>5. \A k \in Lot : Exists(k) => Exists(k)' /\ k # l
    BY <1>1, <2>1, <2>2 DEF Exists, TypeOK
  <2>6. \A k \in Lot : lock[k] # NoCall => quantity_on_hand'[k] = quantity_on_hand[k]
    BY <1>1, <2>1, <2>2, <2>5 DEF CallsOK, LockDiscipline, TypeOK
  <2>7. CallsOK'
    BY <1>1, <2>1, <2>3, <2>5, <2>6, OtherRowKeeps
  <2>8. TypeOK'
    <3>1. inventory_movement' \in Seq(MovementType)
      BY <1>1, <2>1, <2>3, AddedRow DEF TypeOK
    <3>2. q \in 0..MaxAmount
      BY <1>1
    <3>3. QED
      BY <1>1, <2>1, <2>2, <3>1, <3>2 DEF TypeOK
  <2>9. RowsBelong' /\ NewestRows' /\ ResultsChain'
    BY <1>1, <2>1, <2>3, <2>4, <2>8, AddedRowChain DEF IInv
  <2>10. EffectAtMostOnce'
    <3>1. KeyRows(row.payload) = {}
      BY <2>4 DEF KeyRows, HasKeyOf
    <3>2. QED
      BY <1>1, <2>1, <2>3, <3>1, AddedRowOnce DEF IInv
  <2>11. QED
    BY <2>7, <2>8, <2>9, <2>10 DEF IInv, CallsOK
<1>3. ASSUME NEW l \in Lot, NEW d \in (-MaxAmount..MaxAmount) \ {0},
             WriteMovement(l, d)
      PROVE  IInv'
  <2> DEFINE q == quantity_on_hand[l] + d
             row == Movement(NoCall, l, OtherRow(l, d, unit_of[l]), q)
  <2>1. /\ inventory_movement' = Added(row)
        /\ Exists(l) /\ lock[l] = NoCall /\ q \in 0..MaxAmount
        /\ quantity_on_hand' = [quantity_on_hand EXCEPT ![l] = q]
        /\ UNCHANGED <<unit_of, archived, lock, pc, payload, target, quantity, reply>>
    BY <1>3 DEF WriteMovement, Free
  <2>2. unit_of[l] \in Unit
    BY <1>1, <2>1 DEF TypeOK, Exists
  <2>3. /\ row \in MovementType /\ row.lot = l /\ row.result = q
        /\ row.call = NoCall /\ row.payload = OtherRow(l, d, unit_of[l])
    BY <2>1, <2>2 DEF Movement, MovementType, OtherRow
  <2>4. row.payload.amount = d /\ row.payload.key = NoKey
    BY <2>3 DEF OtherRow
  <2>5. row.result = quantity_on_hand[l] + d
    BY <2>3
  <2> HIDE DEF row, q
  <2>6. \A k \in Lot : Exists(k) => Exists(k)'
    BY <2>1 DEF Exists
  <2>7. \A k \in Lot : lock[k] # NoCall => quantity_on_hand'[k] = quantity_on_hand[k]
    BY <1>1, <2>1 DEF TypeOK
  <2>8. CallsOK'
    BY <1>1, <2>1, <2>3, <2>6, <2>7, OtherRowKeeps
  <2>9. TypeOK'
    <3>1. inventory_movement' \in Seq(MovementType)
      BY <1>1, <2>1, <2>3, AddedRow DEF TypeOK
    <3>2. QED
      BY <1>1, <2>1, <3>1 DEF TypeOK
  <2>10. RowsBelong' /\ NewestRows' /\ ResultsChain'
    BY <1>1, <2>1, <2>3, <2>4, <2>5, <2>9, AddedRowChain DEF IInv
  <2>11. EffectAtMostOnce'
    <3>1. KeyRows(row.payload) = {}
      BY <2>4 DEF KeyRows, HasKeyOf
    <3>2. QED
      BY <1>1, <2>1, <2>3, <3>1, AddedRowOnce DEF IInv
  <2>12. QED
    BY <2>8, <2>9, <2>10, <2>11 DEF IInv, CallsOK
<1>4. CASE IngredientArchived
  <2>1. archived' \in BOOLEAN
        /\ UNCHANGED <<tables, lock, pc, payload, target, quantity, reply>>
    BY <1>4 DEF IngredientArchived
  <2>2. TypeOK'
    BY <1>1, <2>1 DEF TypeOK, tables
  <2>3. CallsOK'
    BY <1>1, <2>1 DEF CallsOK, LockDiscipline, NoStaleBalance, Phases, TruthfulAnswers,
       Reported, HasKeyOf, fingerprint, Rows, Row, Exists, tables
  <2>4. QED
    BY <2>1, <2>2, <2>3, SameTables DEF IInv, CallsOK
<1>5. QED
  BY <1>2, <1>3, <1>4 DEF Environment

LEMMA InitIInv == Init => IInv
<1> SUFFICES ASSUME Init PROVE IInv
  OBVIOUS
<1>1. TypeOK
  BY InitTypeOK
<1>2. Rows = {}
  BY DEF Init, Rows
<1>3. /\ \A l \in Lot : ~Exists(l) /\ lock[l] = NoCall
      /\ \A c \in Call : pc[c] = "received" /\ reply[c] = NoReply
  BY DEF Init, Exists
<1>4. LockDiscipline /\ NoStaleBalance /\ Phases
  BY <1>2, <1>3 DEF LockDiscipline, NoStaleBalance, Phases
<1>5. RowsBelong /\ NewestRows /\ ResultsChain /\ EffectAtMostOnce
  BY <1>2, <1>3 DEF RowsBelong, NewestRows, ResultsChain, EffectAtMostOnce
<1>6. TruthfulAnswers
  BY <1>2, <1>3 DEF TruthfulAnswers, NoReply
<1>7. QED
  BY <1>1, <1>4, <1>5, <1>6 DEF IInv

LEMMA StutterIInv == ASSUME IInv, UNCHANGED vars PROVE IInv'
<1>1. UNCHANGED tables
  BY DEF vars, tables
<1>2. TypeOK'
  BY DEF IInv, TypeOK, vars
<1>3. CallsOK'
  BY DEF IInv, CallsOK, LockDiscipline, NoStaleBalance, Phases, TruthfulAnswers,
     Reported, HasKeyOf, fingerprint, Rows, Row, Exists, vars
<1>4. QED
  BY <1>1, <1>2, <1>3, SameTables DEF IInv, CallsOK

LEMMA NextIInv == IInv /\ [Next]_vars => IInv'
<1> SUFFICES ASSUME IInv, [Next]_vars PROVE IInv'
  OBVIOUS
<1>1. ASSUME NEW c \in Call, Step(c) \/ Crash(c) PROVE IInv'
  BY <1>1, AnswerStep, QuietStep, CommitAdjustmentStep, CommitCreationStep DEF Step
<1>2. CASE Environment
  BY <1>2, EnvironmentStep
<1>3. CASE UNCHANGED vars
  BY <1>3, StutterIInv
<1>4. QED
  BY <1>1, <1>2, <1>3 DEF Next, Terminated

LEMMA InductiveInvariant == Spec => []IInv
BY InitIInv, NextIInv, PTL DEF Spec

-----------------------------------------------------------------------------
\* No reachable state has an ill-typed row, balance, lock or answer.
THEOREM TypeCorrectness == Spec => []TypeOK
<1>1. IInv => TypeOK
  BY DEF IInv
<1>2. QED
  BY <1>1, InductiveInvariant, PTL

\* Every row records the balance its lot had, and the cached balance of a lot
\* is the one its newest row records.
THEOREM LedgerConsistency == Spec => []ResultsChain
<1>1. IInv => ResultsChain
  BY DEF IInv
<1>2. QED
  BY <1>1, InductiveInvariant, PTL

\* Between its lock and its commit no call holds an outdated balance.
THEOREM NoLostUpdate == Spec => []NoStaleBalance
<1>1. IInv => NoStaleBalance
  BY DEF IInv
<1>2. QED
  BY <1>1, InductiveInvariant, PTL

\* Two calls that share a key, and a call that is answered after a rollback,
\* change the ledger at most once.
THEOREM IdempotentEffect == Spec => []EffectAtMostOnce
<1>1. IInv => EffectAtMostOnce
  BY DEF IInv
<1>2. QED
  BY <1>1, InductiveInvariant, PTL

\* What callers are told is what the ledger holds.
THEOREM AnswersAreTrue == Spec => []TruthfulAnswers
<1>1. IInv => TruthfulAnswers
  BY DEF IInv
<1>2. QED
  BY <1>1, InductiveInvariant, PTL

-----------------------------------------------------------------------------
(***************************************************************************)
(* Refinement: with the rows as the ledger and the replies as the answers, *)
(* the two commits of a call and the other services' writes are the steps  *)
(* of AtomicLedger that add a row, the answers are its reports and         *)
(* refusals, and all that the locks and transactions do is a stutter.      *)
(***************************************************************************)
\* The newest row of a lot that exists is the one AtomicLedger calls current,
\* and it records the cached balance.
LEMMA CurrentRow ==
  ASSUME IInv, NEW l \in Lot, Exists(l)
  PROVE  \E i \in Rows : /\ Atomic!IsCurrent(i)
                         /\ inventory_movement[i].lot = l
                         /\ inventory_movement[i].result = quantity_on_hand[l]
<1>1. PICK i \in Rows : Row(i).lot = l /\ \A j \in Rows : i < j => Row(j).lot # l
  BY DEF IInv, NewestRows
<1>2. Row(i).result = quantity_on_hand[l]
  BY <1>1 DEF IInv, ResultsChain
<1>3. Rows = 1..Len(inventory_movement) /\ Len(inventory_movement) \in Nat
  BY DEF IInv, TypeOK, Rows
<1>4. \A j \in Rows : inventory_movement[j].lot = inventory_movement[i].lot => j <= i
  BY <1>1, <1>3 DEF Row
<1>5. Atomic!IsCurrent(i)
  BY <1>4 DEF Atomic!IsCurrent, Rows
<1>6. QED
  BY <1>1, <1>2, <1>5 DEF Row

\* A row that continues the balance of its lot, or starts the lot, is a
\* movement of the atomic ledger.
LEMMA AddedRowIsMovement ==
  ASSUME IInv, NEW c, NEW l \in Lot, NEW p, NEW q,
         inventory_movement' = Added(Movement(c, l, p, q)),
         \/ ~Exists(l) /\ q = p.amount /\ p.amount \in 1..MaxAmount
         \/ /\ Exists(l) /\ q = quantity_on_hand[l] + p.amount
            /\ q \in 0..MaxAmount
  PROVE  Atomic!Movement(c, l, p)
<1>1. inventory_movement' = Append(inventory_movement, Atomic!Row(c, l, p, q))
  BY DEF Added, Movement, Atomic!Row
<1>2. CASE ~Exists(l)
  <2>1. Atomic!IsFresh(l)
    BY <1>2 DEF Atomic!IsFresh, IInv, RowsBelong, Rows, Row
  <2>2. QED
    BY <1>1, <1>2, <2>1 DEF Atomic!Movement
<1>3. CASE Exists(l)
  <2>1. PICK i \in Rows : /\ Atomic!IsCurrent(i)
                          /\ inventory_movement[i].lot = l
                          /\ inventory_movement[i].result = quantity_on_hand[l]
    BY <1>3, CurrentRow
  <2>2. QED
    BY <1>1, <1>3, <2>1 DEF Atomic!Movement, Rows
<1>4. QED
  BY <1>2, <1>3

\* A commit is the step in which its call takes effect.
LEMMA CommitTakesEffect ==
  ASSUME IInv, NEW c \in Call, NEW l \in Lot, NEW q,
         inventory_movement' = Added(Movement(c, l, payload[c], q)),
         UNCHANGED <<payload, reply>>,
         pc[c] \in {"commit", "insert"}, ~KeyTaken(payload[c]),
         \/ ~Exists(l) /\ q = payload[c].amount /\ payload[c].amount \in 1..MaxAmount
         \/ /\ Exists(l) /\ q = quantity_on_hand[l] + payload[c].amount
            /\ q \in 0..MaxAmount
  PROVE  Atomic!TakeEffect(c, l)
<1>1. reply[c] = Atomic!NoReply
  BY DEF IInv, Phases, NoReply, Atomic!NoReply
<1>2. \A i \in Rows : inventory_movement[i].call # c
  BY DEF IInv, Phases, Row
<1>3. \A i \in Rows : ~Atomic!SameKey(payload[c], inventory_movement[i].payload)
  BY DEF KeyTaken, KeyRows, HasKeyOf, Atomic!SameKey, Rows
<1>4. Atomic!Movement(c, l, payload[c])
  BY AddedRowIsMovement
<1>5. QED
  BY <1>1, <1>2, <1>3, <1>4 DEF Atomic!TakeEffect, Rows

\* A refusal is one of AtomicLedger's, for its call has written nothing.
LEMMA RefusalIsRefuse ==
  ASSUME IInv, NEW c \in Call, NEW st, Answer(c, Refusal(st)),
         UNCHANGED <<inventory_movement, payload>>,
         pc[c] \in {"received", "lock", "replay"}
  PROVE  Atomic!Refuse(c, st)
<1>1. reply[c] = Atomic!NoReply
  BY DEF IInv, Phases, NoReply, Atomic!NoReply
<1>2. \A i \in DOMAIN inventory_movement : inventory_movement[i].call # c
  BY DEF IInv, Phases, Row, Rows
<1>3. QED
  BY <1>1, <1>2 DEF Atomic!Refuse, Answer, Refusal

\* A success that names row i, with the balance the request is owed, is a report.
LEMMA SuccessIsReport ==
  ASSUME IInv, NEW c \in Call, NEW i \in Rows, NEW q,
         Answer(c, Accepted(inventory_movement[i].lot, q)),
         UNCHANGED <<inventory_movement, payload>>,
         pc[c] # "done",
         \/ inventory_movement[i].call = c
         \/ /\ HasKeyOf(inventory_movement[i], payload[c])
            /\ fingerprint(inventory_movement[i].payload) = fingerprint(payload[c]),
         q = IF payload[c].operation = Create
             THEN quantity_on_hand[inventory_movement[i].lot]
             ELSE inventory_movement[i].result
  PROVE  Atomic!Report(c, i)
<1> DEFINE l == inventory_movement[i].lot
<1>1. reply[c] = Atomic!NoReply
  BY DEF IInv, Phases, NoReply, Atomic!NoReply
<1>2. \/ inventory_movement[i].call = c
      \/ Atomic!SameRequest(payload[c], inventory_movement[i].payload)
  BY DEF HasKeyOf, fingerprint, Atomic!SameRequest, Atomic!SameKey
<1>3. l \in Lot /\ Exists(l)
  BY RowType DEF IInv, RowsBelong, Row
<1>4. reply' = [reply EXCEPT ![c] = [status |-> "ok", lot |-> l, amount |-> q]]
  BY DEF Answer, Accepted
<1>5. \E j \in Rows :
        /\ IF payload[c].operation = Create
           THEN Atomic!IsCurrent(j) /\ inventory_movement[j].lot = l ELSE j = i
        /\ inventory_movement[j].result = q
  <2>1. CASE payload[c].operation = Create
    BY <1>3, <2>1, CurrentRow
  <2>2. CASE payload[c].operation # Create
    BY <2>2
  <2>3. QED
    BY <2>1, <2>2
<1>6. QED
  BY <1>1, <1>2, <1>4, <1>5 DEF Atomic!Report, Atomic!Create, Create, Rows

\* The replay of the row that holds the key is a report or a refusal.
LEMMA ReplayIsAnswer ==
  ASSUME IInv, NEW c \in Call, NEW i \in KeyRows(payload[c]),
         Replay(c, inventory_movement[i]),
         UNCHANGED <<inventory_movement, payload>>,
         pc[c] \in {"received", "replay"}
  PROVE  Atomic!Report(c, i) \/ Atomic!Refuse(c, "conflict")
<1>1. i \in Rows /\ HasKeyOf(inventory_movement[i], payload[c])
  BY DEF KeyRows, Rows
<1>2. CASE fingerprint(inventory_movement[i].payload) # fingerprint(payload[c])
  BY <1>2, RefusalIsRefuse DEF Replay
<1>3. CASE fingerprint(inventory_movement[i].payload) = fingerprint(payload[c])
  <2> DEFINE q == ReplayedBalance(c, inventory_movement[i])
  <2>1. Answer(c, Accepted(inventory_movement[i].lot, q))
    BY <1>3 DEF Replay
  <2>2. q = IF payload[c].operation = Create
            THEN quantity_on_hand[inventory_movement[i].lot]
            ELSE inventory_movement[i].result
    BY DEF ReplayedBalance
  <2> HIDE DEF q
  <2>3. QED
    BY <1>1, <1>3, <2>1, <2>2, SuccessIsReport
<1>4. QED
  BY <1>2, <1>3

\* A step of a call is a step of AtomicLedger, or one it does not see.
LEMMA CallStepIsAtomic ==
  ASSUME IInv, NEW c \in Call, Step(c) \/ Crash(c)
  PROVE  Atomic!Next \/ UNCHANGED Atomic!vars
<1>1. ASSUME NEW st \in {"conflict", "not_found"}, Answer(c, Refusal(st)),
             UNCHANGED <<inventory_movement, payload>>, pc[c] \in {"received", "lock"}
      PROVE  Atomic!Next
  <2>1. Atomic!Refuse(c, st)
    BY <1>1, RefusalIsRefuse
  <2>2. QED
    BY <1>1, <2>1 DEF Atomic!Next
<1>2. ASSUME NEW i \in KeyRows(payload[c]), Replay(c, inventory_movement[i]),
             UNCHANGED <<inventory_movement, payload>>, pc[c] \in {"received", "replay"}
      PROVE  Atomic!Next
  <2>1. Atomic!Report(c, i) \/ Atomic!Refuse(c, "conflict")
    BY <1>2, ReplayIsAnswer
  <2>2. i \in DOMAIN inventory_movement
    BY DEF KeyRows
  <2>3. QED
    BY <2>1, <2>2 DEF Atomic!Next
<1>3. CASE RefuseArchived(c)
  BY <1>1, <1>3 DEF RefuseArchived, tables
<1>4. CASE LookupHit(c)
  BY <1>2, <1>4 DEF LookupHit, tables
<1>5. CASE RefuseAdjustment(c)
  BY <1>1, <1>5 DEF RefuseAdjustment, tables
<1>6. CASE ReplayAfterRollback(c)
  BY <1>2, <1>6 DEF ReplayAfterRollback, tables
<1>7. CASE Respond(c)
  <2> DEFINE q == IF payload[c].operation = Create
                  THEN quantity_on_hand[target[c]] ELSE quantity[c]
  <2>1. /\ Answer(c, Accepted(target[c], q)) /\ pc[c] = "committed"
        /\ UNCHANGED <<inventory_movement, payload>>
    BY <1>7 DEF Respond, tables
  <2>2. PICK i \in Rows : /\ inventory_movement[i].call = c
                          /\ inventory_movement[i].lot = target[c]
                          /\ payload[c].operation = Adjust
                               => inventory_movement[i].result = quantity[c]
    BY <2>1 DEF IInv, Phases, Row
  <2>3. payload[c].operation \in {Create, Adjust}
    BY PayloadFields DEF IInv, TypeOK
  <2>4. q = IF payload[c].operation = Create
            THEN quantity_on_hand[inventory_movement[i].lot]
            ELSE inventory_movement[i].result
    BY <2>2, <2>3
  <2> HIDE DEF q
  <2>5. Atomic!Report(c, i)
    BY <2>1, <2>2, <2>4, SuccessIsReport
  <2>6. QED
    BY <2>5 DEF Atomic!Next, Rows
<1>8. CASE CommitAdjustment(c)
  <2> DEFINE l == target[c]
  <2>1. /\ inventory_movement' = Added(Movement(c, l, payload[c], quantity[c]))
        /\ UNCHANGED <<payload, reply>> /\ pc[c] = "commit" /\ ~KeyTaken(payload[c])
    BY <1>8 DEF CommitAdjustment
  <2>2. /\ l \in Lot /\ Exists(l)
        /\ quantity[c] = quantity_on_hand[l] + payload[c].amount
        /\ quantity[c] \in 0..MaxAmount
    BY <2>1 DEF IInv, LockDiscipline, NoStaleBalance, TypeOK
  <2> HIDE DEF l
  <2>3. Atomic!TakeEffect(c, l)
    BY <2>1, <2>2, CommitTakesEffect
  <2>4. QED
    BY <2>2, <2>3 DEF Atomic!Next
<1>9. CASE CommitCreation(c)
  <2>1. PICK l \in Lot : /\ ~Exists(l)
                         /\ inventory_movement' =
                              Added(Movement(c, l, payload[c], payload[c].amount))
    BY <1>9 DEF CommitCreation
  <2>2. UNCHANGED <<payload, reply>> /\ pc[c] = "insert" /\ ~KeyTaken(payload[c])
    BY <1>9 DEF CommitCreation
  <2>3. payload[c].amount \in 1..MaxAmount
    BY <2>2, PayloadFields DEF IInv, Phases, TypeOK
  <2>4. Atomic!TakeEffect(c, l)
    BY <2>1, <2>2, <2>3, CommitTakesEffect
  <2>5. QED
    BY <2>4 DEF Atomic!Next
<1>10. CASE LookupMiss(c) \/ LockLot(c) \/ CommitRefused(c) \/ Crash(c)
  BY <1>10 DEF LookupMiss, LockLot, CommitRefused, Crash, tables, Atomic!vars
<1>11. QED
  BY <1>3, <1>4, <1>5, <1>6, <1>7, <1>8, <1>9, <1>10 DEF Step

\* So is a write of shopping or of meal completion.
LEMMA EnvironmentIsAtomic ==
  ASSUME IInv, Environment
  PROVE  Atomic!Next \/ UNCHANGED Atomic!vars
<1>1. ASSUME NEW l \in PurchasedLot, NEW q \in 1..MaxAmount, NEW u \in Unit,
             PurchaseItem(l, q, u)
      PROVE  Atomic!Next
  <2> DEFINE p == OtherRow(l, q, u)
  <2>1. /\ l \in Lot /\ p.amount = q
        /\ p \in [operation : {"other"}, lot : Lot, unit : Unit,
                  amount : (-MaxAmount..MaxAmount) \ {0}, key : {NoKey}]
    BY ConstantsAssumption, BoundsAssumption DEF OtherRow
  <2>2. /\ inventory_movement' = Added(Movement(NoCall, l, p, q))
        /\ ~Exists(l) /\ UNCHANGED <<payload, reply>>
    BY <1>1 DEF PurchaseItem
  <2> HIDE DEF p
  <2>3. Atomic!OtherEffect(l, p)
    BY <2>1, <2>2, AddedRowIsMovement DEF Atomic!OtherEffect
  <2>4. QED
    BY <2>1, <2>3 DEF Atomic!Next
<1>2. ASSUME NEW l \in Lot, NEW d \in (-MaxAmount..MaxAmount) \ {0}, WriteMovement(l, d)
      PROVE  Atomic!Next
  <2> DEFINE p == OtherRow(l, d, unit_of[l])
             q == quantity_on_hand[l] + d
  <2>1. /\ inventory_movement' = Added(Movement(NoCall, l, p, q))
        /\ Exists(l) /\ q \in 0..MaxAmount /\ UNCHANGED <<payload, reply>>
    BY <1>2 DEF WriteMovement
  <2>2. unit_of[l] \in Unit
    BY <2>1 DEF IInv, TypeOK, Exists
  <2>3. /\ p.amount = d
        /\ p \in [operation : {"other"}, lot : Lot, unit : Unit,
                  amount : (-MaxAmount..MaxAmount) \ {0}, key : {NoKey}]
    BY <2>2 DEF OtherRow
  <2>4. q = quantity_on_hand[l] + p.amount
    BY <2>3
  <2> HIDE DEF p, q
  <2>5. Atomic!OtherEffect(l, p)
    BY <2>1, <2>4, AddedRowIsMovement DEF Atomic!OtherEffect
  <2>6. QED
    BY <2>3, <2>5 DEF Atomic!Next
<1>3. CASE IngredientArchived
  BY <1>3 DEF IngredientArchived, tables, Atomic!vars
<1>4. QED
  BY <1>1, <1>2, <1>3 DEF Environment

\* Calls that search, lock, commit, roll back, replay and crash in any
\* interleaving are indivisible requests to one history of movements: no
\* interleaving shows a row, a balance or an answer that a sequence of whole
\* requests could not.
THEOREM RequestsAreIndivisible == Spec => ImplementsAtomicLedger
<1>1. Init => Atomic!Init
  BY DEF Init, Atomic!Init, NoReply, Atomic!NoReply
<1>2. ASSUME IInv, [Next]_vars PROVE [Atomic!Next]_(Atomic!vars)
  BY <1>2, CallStepIsAtomic, EnvironmentIsAtomic DEF Next, Terminated, vars, Atomic!vars
<1>3. QED
  BY <1>1, <1>2, InductiveInvariant, PTL DEF Spec, ImplementsAtomicLedger, Atomic!Spec
-----------------------------------------------------------------------------
(***************************************************************************)
(* The catalog.  Least elements of finite sets of naturals, and of finite  *)
(* ordered sets, by way of the well-foundedness of the naturals.           *)
(***************************************************************************)
LEMMA LeastNatural ==
  ASSUME NEW S \in SUBSET Nat, S # {}
  PROVE  \E n \in S : \A m \in S : n <= m
<1>1. PICK n \in S : \A m \in S : <<m, n>> \notin OpToRel(<, Nat)
  BY NatLessThanWellFounded, WFMin, Zenon
<1>2. \A m \in S : ~(m < n)
  BY <1>1 DEF OpToRel
<1> HIDE <1>1
<1> QED  BY <1>2

LEMMA NaturalsReached ==
  ASSUME NEW F, 0 \in F, \A n \in Nat : n \in F => n + 1 \in F
  PROVE  Nat \subseteq F
<1> SUFFICES ASSUME Nat \ F # {} PROVE FALSE
  OBVIOUS
<1>1. PICK n \in Nat \ F : \A m \in Nat \ F : n <= m
  BY LeastNatural
<1>2. n # 0 /\ n - 1 \in Nat /\ n - 1 \in F
  BY <1>1
<1> QED  BY <1>1, <1>2

\* A family of subsets of a finite set has a member that includes no other.
LEMMA SmallestSubset ==
  ASSUME NEW S, IsFiniteSet(S), NEW F \in SUBSET (SUBSET S), F # {}
  PROVE  \E T \in F : \A U \in SUBSET T : U # T => U \notin F
<1> DEFINE sizes == {Cardinality(T) : T \in F}
<1>1. \A T \in F : IsFiniteSet(T) /\ Cardinality(T) \in Nat
  BY FS_Subset, FS_CardinalityType
<1>2. PICK n \in sizes : \A m \in sizes : n <= m
  <2>1. sizes \in SUBSET Nat /\ sizes # {}
    BY <1>1
  <2> HIDE DEF sizes
  <2> QED  BY <2>1, LeastNatural
<1>3. PICK T \in F : Cardinality(T) = n
  BY <1>2
<1>4. ASSUME NEW U \in SUBSET T, U # T PROVE U \notin F
  <2>1. Cardinality(U) < Cardinality(T) 
    BY <1>1, <1>4, FS_Subset, FS_CardinalityType
  <2> QED  BY <1>1, <1>2, <1>3, <2>1
<1> QED  BY <1>4

LEMMA SubsetsReached ==
  ASSUME NEW S, IsFiniteSet(S), NEW F, {} \in F,
         \A T \in SUBSET S, x \in S : T \in F /\ x \notin T => T \cup {x} \in F
  PROVE  S \in F
<1> SUFFICES ASSUME S \notin F PROVE FALSE
  OBVIOUS
<1> DEFINE missed == {T \in SUBSET S : T \notin F}
<1>1. missed \in SUBSET (SUBSET S) /\ S \in missed
  OBVIOUS
<1>2. PICK T \in missed : \A U \in SUBSET T : U # T => U \notin missed
  <2> HIDE DEF missed
  <2> QED  BY <1>1, SmallestSubset
<1>3. PICK x \in T : TRUE
  <2>1. T # {}
    BY <1>2
  <2> QED  BY <2>1
<1>4. T \ {x} \in F /\ (T \ {x}) \cup {x} = T /\ x \in S /\ T \ {x} \in SUBSET S
  BY <1>2, <1>3
<1> QED  BY <1>2, <1>4

TotalOrder(S, R) ==
  /\ \A x, y \in S : x # y => <<x, y>> \in R \/ <<y, x>> \in R
  /\ \A x, y, z \in S : <<x, y>> \in R /\ <<y, z>> \in R => <<x, z>> \in R
LEMMA Greatest ==
  ASSUME NEW S, IsFiniteSet(S), NEW R, TotalOrder(S, R), S # {}
  PROVE  \E g \in S : \A y \in S : y = g \/ <<y, g>> \in R
<1> DEFINE F == {T \in SUBSET S : T = {} \/ \E g \in T : \A y \in T : y = g \/ <<y, g>> \in R}
<1>1. {} \in F
  OBVIOUS
<1>2. ASSUME NEW T \in SUBSET S, NEW x \in S, T \in F, x \notin T PROVE T \cup {x} \in F
  <2>1. CASE T = {}
    BY <2>1
  <2>2. CASE T # {}
    <3>1. PICK g \in T : \A y \in T : y = g \/ <<y, g>> \in R
      BY <1>2, <2>2
    <3>2. CASE <<g, x>> \in R
      BY <3>1, <3>2 DEF TotalOrder
    <3>3. CASE <<x, g>> \in R
      BY <3>1, <3>3
    <3> QED  BY <1>2, <3>1, <3>2, <3>3 DEF TotalOrder
  <2> QED  BY <2>1, <2>2
<1>3. S \in F
  <2> HIDE DEF F
  <2> QED  BY <1>1, <1>2, SubsetsReached
<1> QED  BY <1>3

(***************************************************************************)
(* The inductive invariant of the catalog.  Types first: a row is one that *)
(* was never written or one with a household and a dimension of its own.   *)
(***************************************************************************)
RecipeRow ==
  [household : Household, name : Nat, archived : BOOLEAN, versions : Nat, drafts : SUBSET Nat]
InsertedRow == [id : IngredientId, name : Nat, dimension : Dimension]
RecipeLine ==
  [recipe : RecipeId, version : Nat, ingredient : IngredientId, dimension : Dimension]
Stages == {"idle", "open", "paging", "told", "loaded", "resolving", "locked", "validated"}

TableTypes ==
  /\ ingredient \in [IngredientId -> IngredientRow \cup {NoIngredient}]
  /\ recipe \in [RecipeId -> RecipeRow \cup {NoRecipe}]
  /\ recipe_version_ingredient \subseteq RecipeLine
WorkerTypes ==
  /\ stage \in [Worker -> Stages]
  /\ asked \in [Worker -> CatalogRequest \cup {NoRequest}]
  /\ resolved \in [Worker -> Seq(IngredientId \cup {Omitted})]
  /\ inserted \in [Worker -> SUBSET InsertedRow]
  /\ cursor \in [Worker -> [name : Nat, id : Nat]]
  /\ listed \in [Worker -> [IngredientId -> Nat]]
  /\ stayed \in [Worker -> SUBSET IngredientId]
CatalogTypes == TableTypes /\ WorkerTypes

(***************************************************************************)
(* Where a worker is, what it serves, and what it still has to write.      *)
(***************************************************************************)
Blank(c) == resolved[c] = <<>> /\ inserted[c] = {}
Serves(c, ops) == asked[c] \in CatalogRequest /\ asked[c].op \in ops
OwnsRecipe(c) == recipe[asked[c].recipe].household = asked[c].household
Looked(c) == DOMAIN resolved[c] = DOMAIN asked[c].lines /\ Missing(c) = {}

Progress(c) ==
  /\ stage[c] # "idle" => asked[c] \in CatalogRequest
  /\ stage[c] \in {"idle", "open", "paging", "told", "loaded"} => Blank(c)
  /\ stage[c] \in {"paging", "told"} => Serves(c, {"list"})
  /\ stage[c] = "loaded" =>
       /\ Serves(c, {"update", "archive"})
       /\ asked[c].id \in IngredientId /\ ingredient[asked[c].id] # NoIngredient
       /\ ingredient[asked[c].id].household = asked[c].household
  /\ stage[c] = "resolving" => Serves(c, ToolOps)
  /\ stage[c] = "locked" =>
       /\ Serves(c, RecipeOps \cup {"mcp_update"}) /\ OwnsRecipe(c)
       /\ IF asked[c].op = "mcp_update" THEN Looked(c) ELSE Blank(c)
  /\ stage[c] = "validated" =>
       Serves(c, {"lines", "revise"}) /\ OwnsRecipe(c) /\ Looked(c) /\ inserted[c] = {}

\* What stands for a line: nothing yet, an ingredient that fits, or one that the
\* worker has inserted.
Fits(c, k) ==
  LET i == resolved[c][k]
      line == asked[c].lines[k]
  IN \/ i = Omitted /\ line.name \in Nat
     \/ /\ i \in IngredientId /\ ingredient[i] # NoIngredient
        /\ ingredient[i].household \in {asked[c].household, Global}
        /\ ingredient[i].dimension = line.dimension
     \/ \E made \in inserted[c] : made.id = i /\ made.dimension = line.dimension

MissingAgree(c) ==
  \A k, n \in Missing(c) :
    asked[c].lines[k].name = asked[c].lines[n].name
      => asked[c].lines[k].dimension = asked[c].lines[n].dimension

Resolution(c) ==
  /\ \A k \in DOMAIN resolved[c] : k \in DOMAIN asked[c].lines /\ Fits(c, k)
  /\ MissingAgree(c)

Insertion(c) ==
  /\ \A made \in inserted[c] : ingredient[made.id] = NoIngredient
  /\ \A made \in inserted[c] : \E k \in DOMAIN resolved[c] : resolved[c][k] = made.id
  /\ \A made, other \in inserted[c] : made.id = other.id => made = other

Apart ==
  \A c, d \in Worker : c # d =>
    \A made \in inserted[c], other \in inserted[d] : made.id # other.id

Works == (\A c \in Worker : Progress(c) /\ Resolution(c) /\ Insertion(c)) /\ Apart

\* The unique index on active names, and the names that open transactions have
\* taken in it.
Indexed ==
  \A i, j \in IngredientId : SameKey(ingredient[i], ingredient[j]) => i = j
Reserved ==
  /\ \A c \in Worker : \A made \in inserted[c] : ~Clash(asked[c].household, made.name)
  /\ \A c, d \in Worker : \A made \in inserted[c], other \in inserted[d] :
       asked[c].household = asked[d].household /\ made.name = other.name => made = other
  /\ \A c \in Worker : \A made \in inserted[c] :
       /\ DOMAIN resolved[c] = DOMAIN asked[c].lines
       /\ \A k \in Missing(c) : asked[c].lines[k].name # made.name

\* The lines of recipes name recipes and ingredients that exist.
LinesStand ==
  \A line \in recipe_version_ingredient :
    recipe[line.recipe] # NoRecipe /\ ingredient[line.ingredient] # NoIngredient

(***************************************************************************)
(* The pages of a listing so far have shown what stayed up to the cursor,  *)
(* once, and nothing of it beyond.                                         *)
(***************************************************************************)
Pages(c) ==
  stage[c] # "idle" /\ asked[c].op = "list" =>
    /\ stayed[c] \subseteq Scope(asked[c])
    /\ stage[c] = "open" => cursor[c] = Start /\ listed[c] = [i \in IngredientId |-> 0]
    /\ \A i \in stayed[c] :
         listed[c][i] = IF stage[c] # "told" /\ Beyond(i, cursor[c]) THEN 0 ELSE 1
Listings ==
  \A c \in Worker :
    /\ Pages(c)
    /\ stage[c] = "idle" => cursor[c] = Start /\ listed[c] = [i \in IngredientId |-> 0]

CatalogInv ==
  /\ CatalogTypes /\ Works /\ Indexed /\ Reserved /\ Listings
  /\ LinesStand /\ LinesFitTheirIngredient

(***************************************************************************)
(* What a step of a worker comes to.                                       *)
(***************************************************************************)
Looks(c, next) == Goto(c, next) /\ UNCHANGED <<asked, resolved, inserted, recipe_lock>>

Loads(c) ==
  /\ stage[c] = "open" /\ asked[c].op \in {"update", "archive"}
  /\ asked[c].id \in Active(asked[c].household)
  /\ Looks(c, "loaded")
Renames(c) ==
  /\ stage[c] = "loaded" /\ asked[c].op = "update"
  /\ Reindexed(asked[c]) => /\ Settled(c, asked[c].household, asked[c].name)
                            /\ ~Clash(asked[c].household, asked[c].name)
  /\ Write([ingredient EXCEPT ![asked[c].id].name = asked[c].name])
  /\ Ended(c)
  /\ UNCHANGED <<recipe, recipe_version_ingredient>>
BeginsResolving(c) ==
  stage[c] = "open" /\ asked[c].op \in ToolOps /\ Looks(c, "resolving")
Resolves(c) ==
  LET q == asked[c]
      line == q.lines[Len(resolved[c]) + 1]
      meant == Meant(q.household, line)
  IN
  /\ stage[c] = "resolving" /\ Len(resolved[c]) < Len(q.lines)
  /\ \/ \E i \in meant : ingredient[i].dimension = line.dimension
     \/ /\ meant = {} /\ line.id = Omitted
        /\ PendingDimensions(c, line.name) \subseteq {line.dimension}
  /\ resolved' = [resolved EXCEPT ![c] =
                    Append(@, IF meant = {} THEN Omitted ELSE CHOOSE i \in meant : TRUE)]
  /\ Goto(c, "resolving") /\ UNCHANGED <<asked, inserted, recipe_lock>>
Locks(c) ==
  /\ AsksForLock(c) /\ Editable(c) /\ AsDraft(asked[c])
  /\ recipe_lock[asked[c].recipe] = Nobody
  /\ recipe_lock' = [recipe_lock EXCEPT ![asked[c].recipe] = c]
  /\ Goto(c, "locked") /\ UNCHANGED <<asked, resolved, inserted>>
Validates(c) ==
  LET q == asked[c] IN
  /\ stage[c] = "locked" /\ q.op \in {"lines", "revise"}
  /\ \A k \in DOMAIN q.lines : Validated(q.household, q.lines[k])
  /\ resolved' = [resolved EXCEPT ![c] = [k \in DOMAIN q.lines |-> q.lines[k].id]]
  /\ Goto(c, "validated") /\ UNCHANGED <<asked, inserted, recipe_lock>>
CreatesRecipe(c, r) ==
  LET q == asked[c] IN
  /\ r \in RecipeId /\ recipe[r] = NoRecipe
  /\ AllLooked(c) /\ Missing(c) = {} /\ q.op = "mcp_create"
  /\ recipe' = [recipe EXCEPT ![r] =
                  WithVersion([NoRecipe EXCEPT !.household = q.household, !.name = q.name,
                                               !.archived = FALSE], 1, q.publish)]
  /\ CommitLines(c, r, 1)

Reads(c) ==
  \/ Loads(c) \/ BeginsResolving(c) \/ Resolves(c) \/ CreateMissing(c) \/ Locks(c) \/ Validates(c)
Writes(c) ==
  \/ CreateIngredient(c) \/ Renames(c) \/ ArchiveIngredient(c)
  \/ (\E r \in RecipeId : CreatesRecipe(c, r)) \/ ReplaceLines(c)
  \/ ChangeVersions(c) \/ ArchiveRecipe(c)

LEMMA MinOfSet ==
  ASSUME NEW S \in SUBSET Nat, S # {}
  PROVE  Min(S) \in S
<1>1. PICK n \in S : \A m \in S : n <= m
  BY LeastNatural
<1>2. \E x \in S : \A y \in S : x =< y
  BY <1>1
<1> QED  BY <1>2 DEF Min

LEMMA CatalogStepCases ==
  ASSUME NEW c \in Worker, CatalogStep(c) \/ Abort(c)
  PROVE  Rollback(c) \/ ListPage(c) \/ Reads(c) \/ Writes(c)
<1>1. CASE ListPage(c)
  BY <1>1
<1>2. CASE TellListing(c) \/ RefuseCreation(c) \/ RefuseMissing(c) \/ Abort(c)
  BY <1>2 DEF TellListing, RefuseCreation, RefuseMissing, Abort
<1>3. CASE LoadIngredient(c)
  BY <1>3 DEF LoadIngredient, Loads, Looks, Reads
<1>4. CASE UpdateIngredient(c)
  BY <1>4 DEF UpdateIngredient, Renames, Writes
<1>5. CASE \/ CreateIngredient(c) \/ ArchiveIngredient(c) \/ ReplaceLines(c)
           \/ ChangeVersions(c) \/ ArchiveRecipe(c)
  BY <1>5 DEF Writes
<1>6. CASE LookAtRecipe(c)
  BY <1>6 DEF LookAtRecipe, BeginsResolving, Looks, Reads
<1>7. CASE ResolveLine(c)
  BY <1>7 DEF ResolveLine, Resolves, Reads
<1>8. CASE CreateMissing(c)
  BY <1>8 DEF Reads
<1>9. CASE LockRecipe(c)
  BY <1>9 DEF LockRecipe, Locks, Reads
<1>10. CASE ValidateLines(c)
  BY <1>10 DEF ValidateLines, Validates, Reads
<1>11. CASE CreateRecipe(c)
  <2> DEFINE unused == {r \in RecipeId : recipe[r] = NoRecipe}
  <2>1. CASE unused = {}
    BY <1>11, <2>1 DEF CreateRecipe
  <2>2. CASE unused # {}
    <3>1. Min(unused) \in unused
      BY <2>2, MinOfSet, CatalogAssumption
    <3>2. CreatesRecipe(c, Min(unused))
      BY <1>11, <2>2, <3>1 DEF CreateRecipe, CreatesRecipe
    <3> QED  BY <3>1, <3>2 DEF Writes
  <2> QED  BY <2>1, <2>2
<1> QED  BY <1>1, <1>2, <1>3, <1>4, <1>5, <1>6, <1>7, <1>8, <1>9, <1>10, <1>11 DEF CatalogStep

(***************************************************************************)
(* What a worker's step leaves of the rows and of the other workers.       *)
(***************************************************************************)
Same(d) ==
  /\ stage'[d] = stage[d] /\ asked'[d] = asked[d]
  /\ resolved'[d] = resolved[d] /\ inserted'[d] = inserted[d]
  /\ cursor'[d] = cursor[d] /\ listed'[d] = listed[d]
RowsKept ==
  /\ \A i \in IngredientId : ingredient[i] # NoIngredient =>
       /\ ingredient'[i] # NoIngredient
       /\ ingredient'[i].household = ingredient[i].household
       /\ ingredient'[i].dimension = ingredient[i].dimension
  /\ \A r \in RecipeId : recipe[r] # NoRecipe =>
       recipe'[r] # NoRecipe /\ recipe'[r].household = recipe[r].household
StillStayed(d) == \A i \in stayed'[d] : i \in stayed[d] /\ ingredient'[i] = ingredient[i]

LEMMA RowFacts ==
  ASSUME CatalogTypes
  PROVE  /\ \A i \in IngredientId : ingredient[i] # NoIngredient => ingredient[i] \in IngredientRow
         /\ \A i \in IngredientId : ingredient[i].household \in Household \cup {Global}
                                      => ingredient[i] # NoIngredient
         /\ \A r \in RecipeId : recipe[r] # NoRecipe => recipe[r] \in RecipeRow
         /\ \A r \in RecipeId : recipe[r].household \in Household => recipe[r] # NoRecipe
         /\ NoIngredient \notin IngredientRow /\ NoRecipe \notin RecipeRow
<1>1. NoIngredient.household = Omitted /\ NoRecipe.household = Omitted
  BY DEF NoIngredient, NoRecipe
<1>2. Omitted \notin Household \cup {Global}
  BY CatalogAssumption
<1>3. \A made \in IngredientRow : made.household \in Household \cup {Global}
  BY DEF IngredientRow
<1>4. \A made \in RecipeRow : made.household \in Household
  BY DEF RecipeRow
<1> QED  BY <1>1, <1>2, <1>3, <1>4 DEF CatalogTypes, TableTypes

LEMMA RequestShape ==
  ASSUME CatalogTypes, Works, NEW c \in Worker, stage[c] # "idle"
  PROVE  asked[c] \in CatalogRequest /\ WellFormed(asked[c])
BY CatalogAssumption DEF Works, Progress

LEMMA EndedWorker ==
  ASSUME CatalogTypes, NEW c \in Worker, Ended(c)
  PROVE  /\ stage'[c] = "idle" /\ asked'[c] = NoRequest /\ resolved'[c] = <<>> /\ inserted'[c] = {}
         /\ cursor'[c] = Start /\ listed'[c] = [i \in IngredientId |-> 0]
         /\ \A d \in Worker : d # c => Same(d)
BY DEF Ended, CatalogTypes, WorkerTypes, Same

\* The rows a committed insertion leaves.
LEMMA CommittedRows ==
  ASSUME CatalogTypes, Works, NEW c \in Worker, NEW r, NEW version,
         CommitLines(c, r, version)
  PROVE  /\ ingredient' = [i \in IngredientId |-> ingredient'[i]]
         /\ \A made \in inserted[c] :
              ingredient'[made.id] = NewIngredient(asked[c].household, made.name, made.dimension)
         /\ \A i \in IngredientId :
              (\A made \in inserted[c] : made.id # i) => ingredient'[i] = ingredient[i]
<1> DEFINE Committed ==
      [i \in IngredientId |->
         IF \E made \in inserted[c] : made.id = i
         THEN LET made == CHOOSE made \in inserted[c] : made.id = i
              IN NewIngredient(asked[c].household, made.name, made.dimension)
         ELSE ingredient[i]]
<1>1. ingredient' = Committed
  BY Zenon DEF CommitLines, Write
<1>2. inserted[c] \subseteq InsertedRow /\ \A made, other \in inserted[c] : made.id = other.id => made = other
  BY DEF CatalogTypes, WorkerTypes, Works, Insertion
<1>3. ASSUME NEW made \in inserted[c]
      PROVE  Committed[made.id] = NewIngredient(asked[c].household, made.name, made.dimension)
  <2>1. made.id \in IngredientId
    BY <1>2 DEF InsertedRow
  <2>2. (CHOOSE x \in inserted[c] : x.id = made.id) = made
    BY <1>2
  <2> QED  BY <2>1, <2>2
<1>4. \A i \in IngredientId : (\A made \in inserted[c] : made.id # i) => Committed[i] = ingredient[i]
  OBVIOUS
<1>5. Committed = [i \in IngredientId |-> Committed[i]]
  OBVIOUS
<1> QED  BY <1>1, <1>3, <1>4, <1>5

\* What is written to the ingredients, and what a listing can still rely on.
IngredientsKept ==
  /\ ingredient' \in [IngredientId -> IngredientRow \cup {NoIngredient}]
  /\ \A i \in IngredientId : ingredient[i] # NoIngredient =>
       /\ ingredient'[i] # NoIngredient
       /\ ingredient'[i].household = ingredient[i].household
       /\ ingredient'[i].dimension = ingredient[i].dimension
OthersRowsKept(c) ==
  \A d \in Worker : d # c => \A made \in inserted[d] : ingredient'[made.id] = ingredient[made.id]
StayedTrue ==
  /\ stayed' \in [Worker -> SUBSET IngredientId]
  /\ \A d \in Worker : StillStayed(d)

LEMMA WrittenStayed ==
  ASSUME CatalogTypes, NEW rows, Write(rows)
  PROVE  StayedTrue
BY DEF CatalogTypes, WorkerTypes, Write, StayedTrue, StillStayed

LEMMA InsertedIds ==
  ASSUME CatalogTypes, Works, NEW d \in Worker, NEW made \in inserted[d]
  PROVE  /\ made \in InsertedRow /\ made.id \in IngredientId /\ made.name \in Nat
         /\ made.dimension \in Dimension /\ ingredient[made.id] = NoIngredient
BY DEF CatalogTypes, WorkerTypes, Works, Insertion, InsertedRow

LEMMA CreateKeeps ==
  ASSUME CatalogTypes, Works, NEW c \in Worker, CreateIngredient(c)
  PROVE  IngredientsKept /\ OthersRowsKept(c) /\ StayedTrue
<1> DEFINE q == asked[c]
<1>1. PICK i \in FreeIds : Write([ingredient EXCEPT ![i] = NewIngredient(q.household, q.name, q.dimension)])
  BY DEF CreateIngredient
<1>2. i \in IngredientId /\ ingredient[i] = NoIngredient
      /\ \A d \in Worker : \A made \in inserted[d] : made.id # i
  BY DEF FreeIds
<1>3. NewIngredient(q.household, q.name, q.dimension) \in IngredientRow
  <2>1. WellFormed(q) /\ q.op = "create"
    BY RequestShape DEF CreateIngredient
  <2> QED  BY <2>1 DEF WellFormed, NewIngredient, IngredientRow
<1>4. ingredient' = [ingredient EXCEPT ![i] = NewIngredient(q.household, q.name, q.dimension)]
  BY <1>1 DEF Write
<1>5. StayedTrue
  BY <1>1, WrittenStayed
<1> HIDE DEF q
<1>6. IngredientsKept
  BY <1>2, <1>3, <1>4, RowFacts DEF IngredientsKept, CatalogTypes, TableTypes
<1>7. OthersRowsKept(c)
  BY <1>2, <1>4, InsertedIds DEF OthersRowsKept, CatalogTypes, TableTypes
<1> QED  BY <1>5, <1>6, <1>7

\* A change of an ingredient in place: its name or its archival.
LEMMA ChangeKeeps ==
  ASSUME CatalogTypes, Works, NEW c \in Worker, NEW i \in IngredientId, ingredient[i] # NoIngredient,
         NEW new \in IngredientRow, new.household = ingredient[i].household,
         new.dimension = ingredient[i].dimension, Write([ingredient EXCEPT ![i] = new])
  PROVE  IngredientsKept /\ OthersRowsKept(c) /\ StayedTrue
<1>1. ingredient' = [ingredient EXCEPT ![i] = new]
  BY DEF Write
<1>2. IngredientsKept
  BY <1>1, RowFacts DEF IngredientsKept, CatalogTypes, TableTypes
<1>3. OthersRowsKept(c)
  BY <1>1, InsertedIds DEF OthersRowsKept, CatalogTypes, TableTypes
<1> QED  BY <1>2, <1>3, WrittenStayed

LEMMA RenameKeeps ==
  ASSUME CatalogTypes, Works, NEW c \in Worker, Renames(c)
  PROVE  IngredientsKept /\ OthersRowsKept(c) /\ StayedTrue
<1> DEFINE i == asked[c].id
           new == [ingredient[i] EXCEPT !.name = asked[c].name]
<1>1. i \in IngredientId /\ ingredient[i] # NoIngredient
  BY DEF Renames, Works, Progress
<1>2. WellFormed(asked[c]) /\ asked[c].op = "update" /\ ingredient[i] \in IngredientRow
  BY <1>1, RequestShape, RowFacts DEF Renames
<1>3. asked[c].name \in Nat
  BY <1>2 DEF WellFormed
<1>4. new \in IngredientRow /\ new.household = ingredient[i].household
      /\ new.dimension = ingredient[i].dimension
  BY <1>2, <1>3 DEF IngredientRow
<1>5. Write([ingredient EXCEPT ![i] = new])
  BY DEF Renames
<1> HIDE DEF i, new
<1> QED  BY <1>1, <1>4, <1>5, ChangeKeeps

LEMMA ArchiveKeeps ==
  ASSUME CatalogTypes, Works, NEW c \in Worker, ArchiveIngredient(c)
  PROVE  IngredientsKept /\ OthersRowsKept(c) /\ StayedTrue
<1> DEFINE i == asked[c].id
           new == [ingredient[i] EXCEPT !.archived = TRUE]
<1>1. i \in IngredientId /\ ingredient[i] # NoIngredient
  BY DEF ArchiveIngredient, Works, Progress
<1>2. ingredient[i] \in IngredientRow
  BY <1>1, RowFacts
<1>4. new \in IngredientRow /\ new.household = ingredient[i].household
      /\ new.dimension = ingredient[i].dimension
  BY <1>2 DEF IngredientRow
<1>5. Write([ingredient EXCEPT ![i] = new])
  BY DEF ArchiveIngredient
<1> HIDE DEF i, new
<1> QED  BY <1>1, <1>4, <1>5, ChangeKeeps

LEMMA CommitKeeps ==
  ASSUME CatalogTypes, Works, NEW c \in Worker, stage[c] # "idle", NEW r, NEW version,
         CommitLines(c, r, version)
  PROVE  IngredientsKept /\ OthersRowsKept(c) /\ StayedTrue
<1>1. asked[c].household \in Household
  BY RequestShape DEF WellFormed
<1>2. \A made \in inserted[c] : ingredient'[made.id] = NewIngredient(asked[c].household, made.name, made.dimension)
                                /\ NewIngredient(asked[c].household, made.name, made.dimension) \in IngredientRow
  BY <1>1, CommittedRows, InsertedIds DEF NewIngredient, IngredientRow
<1>3. /\ ingredient' = [i \in IngredientId |-> ingredient'[i]]
      /\ \A i \in IngredientId :
           (\A made \in inserted[c] : made.id # i) => ingredient'[i] = ingredient[i]
  BY CommittedRows
<1>4. ASSUME NEW i \in IngredientId
      PROVE  /\ ingredient'[i] \in IngredientRow \cup {NoIngredient}
             /\ ingredient[i] # NoIngredient => ingredient'[i] = ingredient[i]
  <2>1. CASE \E made \in inserted[c] : made.id = i
    BY <1>2, <2>1, InsertedIds
  <2>2. CASE ~\E made \in inserted[c] : made.id = i
    BY <1>3, <2>2 DEF CatalogTypes, TableTypes
  <2> QED  BY <2>1, <2>2
<1>5. IngredientsKept
  BY <1>3, <1>4 DEF IngredientsKept
<1>6. OthersRowsKept(c)
  <2> SUFFICES ASSUME NEW d \in Worker, d # c, NEW made \in inserted[d]
               PROVE  ingredient'[made.id] = ingredient[made.id]
    BY DEF OthersRowsKept
  <2>1. \A x \in inserted[c] : x.id # made.id
    BY DEF Works, Apart
  <2> QED  BY <1>3, <2>1, InsertedIds
<1>7. StayedTrue
  BY WrittenStayed DEF CommitLines
<1> QED  BY <1>5, <1>6, <1>7

LEMMA WritesKeepIngredients ==
  ASSUME CatalogTypes, Works, NEW c \in Worker, Writes(c)
  PROVE  IngredientsKept /\ OthersRowsKept(c) /\ StayedTrue
<1>1. CASE CreateIngredient(c) \/ Renames(c) \/ ArchiveIngredient(c)
  BY <1>1, CreateKeeps, RenameKeeps, ArchiveKeeps
<1>2. CASE (\E r \in RecipeId : CreatesRecipe(c, r)) \/ ReplaceLines(c)
  <2>1. stage[c] # "idle"
    BY <1>2 DEF CreatesRecipe, ReplaceLines, AllLooked
  <2> QED  BY <1>2, <2>1, CommitKeeps DEF CreatesRecipe, ReplaceLines
<1>3. CASE ChangeVersions(c) \/ ArchiveRecipe(c)
  <2>1. UNCHANGED <<ingredient, stayed>>
    BY <1>3 DEF ChangeVersions, ArchiveRecipe
  <2> QED  BY <2>1 DEF IngredientsKept, OthersRowsKept, StayedTrue, StillStayed, CatalogTypes,
                       TableTypes, WorkerTypes
<1> QED  BY <1>1, <1>2, <1>3 DEF Writes

RecipesKept ==
  /\ recipe' \in [RecipeId -> RecipeRow \cup {NoRecipe}]
  /\ \A r \in RecipeId : recipe[r] # NoRecipe =>
       recipe'[r] # NoRecipe /\ recipe'[r].household = recipe[r].household

LEMMA VersionAdded ==
  ASSUME NEW row \in RecipeRow, NEW v \in Nat, NEW published
  PROVE  LET new == WithVersion(row, v, published) IN
         /\ new \in RecipeRow /\ new.household = row.household
         /\ new.versions >= row.versions /\ new.versions >= v
<1> DEFINE versions == IF v > row.versions THEN v ELSE row.versions
           drafts == IF published THEN row.drafts \ {v} ELSE row.drafts \cup {v}
<1>1. /\ row.household \in Household /\ row.name \in Nat /\ row.archived \in BOOLEAN
      /\ row.versions \in Nat /\ row.drafts \in SUBSET Nat
      /\ row = [household |-> row.household, name |-> row.name, archived |-> row.archived,
                versions |-> row.versions, drafts |-> row.drafts]
  BY DEF RecipeRow
<1>2. WithVersion(row, v, published) =
        [household |-> row.household, name |-> row.name, archived |-> row.archived,
         versions |-> versions, drafts |-> drafts]
  <2>1. WithVersion(row, v, published) = [row EXCEPT !.versions = versions, !.drafts = drafts]
    BY Zenon DEF WithVersion
  <2> HIDE DEF versions, drafts
  <2> QED  BY <1>1, <2>1
<1>3. versions \in Nat /\ drafts \in SUBSET Nat /\ versions >= row.versions /\ versions >= v
  BY <1>1
<1> HIDE DEF versions, drafts
<1> QED  BY <1>1, <1>2, <1>3 DEF RecipeRow

\* A worker under a recipe's lock works on a recipe of its household.
LEMMA LockedRecipe ==
  ASSUME CatalogTypes, Works, NEW c \in Worker, stage[c] \in {"locked", "validated"}
  PROVE  /\ asked[c] \in CatalogRequest /\ WellFormed(asked[c])
         /\ asked[c].op \in RecipeOps \cup {"mcp_update"}
         /\ asked[c].recipe \in RecipeId /\ asked[c].household \in Household
         /\ OwnsRecipe(c) /\ recipe[asked[c].recipe] \in RecipeRow
<1>1. /\ asked[c] \in CatalogRequest /\ WellFormed(asked[c]) /\ OwnsRecipe(c)
      /\ asked[c].op \in RecipeOps \cup {"mcp_update"}
  BY RequestShape DEF Works, Progress, Serves, RecipeOps
<1>2. asked[c].recipe \in RecipeId /\ asked[c].household \in Household
  BY <1>1 DEF WellFormed
<1> QED  BY <1>1, <1>2, RowFacts DEF OwnsRecipe

\* The version whose lines are replaced: a draft, or one that is added.
LEMMA ReplacedLines ==
  ASSUME CatalogTypes, Works, NEW c \in Worker, ReplaceLines(c)
  PROVE  LET r == asked[c].recipe IN
         /\ stage[c] \in {"locked", "validated"}
         /\ r \in RecipeId /\ recipe[r] \in RecipeRow /\ OwnsRecipe(c) /\ Missing(c) = {}
         /\ asked[c].lines \in Seq(LineType) /\ asked[c].household \in Household
         /\ \E v \in Nat, published \in BOOLEAN :
              /\ recipe' = [recipe EXCEPT ![r] = WithVersion(recipe[r], v, published)]
              /\ CommitLines(c, r, v)
              /\ \/ asked[c].op = "lines" /\ v = asked[c].version
                 \/ v \in recipe[r].drafts
                 \/ v = recipe[r].versions + 1
<1> DEFINE q == asked[c]
           row == recipe[q.recipe]
           version == IF q.op = "lines" THEN q.version ELSE Revised(row)
<1>1. /\ \/ stage[c] = "locked" /\ q.op = "mcp_update"
         \/ stage[c] = "validated"
      /\ recipe' = [recipe EXCEPT ![q.recipe] = WithVersion(row, version, q.op # "lines" /\ q.publish)]
      /\ CommitLines(c, q.recipe, version)
  BY DEF ReplaceLines
<1>2. /\ stage[c] \in {"locked", "validated"} /\ q.recipe \in RecipeId /\ row \in RecipeRow
      /\ OwnsRecipe(c) /\ q.household \in Household /\ WellFormed(q)
  BY <1>1, LockedRecipe
<1>3. Missing(c) = {} /\ q.op \in {"mcp_update", "lines", "revise"}
  BY <1>1 DEF Works, Progress, Serves, Looked
<1>4. q.lines \in Seq(LineType) /\ (q.op = "lines" => q.version \in Nat)
  BY <1>2, <1>3 DEF WellFormed, RecipeOps
<1>5. row.versions \in Nat
  BY <1>2 DEF RecipeRow
<1>6. /\ version \in Nat
      /\ \/ q.op = "lines" /\ version = q.version
         \/ version \in row.drafts
         \/ version = row.versions + 1
  BY <1>4, <1>5 DEF Revised
<1> HIDE DEF version
<1> QED  BY <1>1, <1>2, <1>3, <1>4, <1>6

LEMMA ChangedVersions ==
  ASSUME CatalogTypes, Works, NEW c \in Worker, ChangeVersions(c)
  PROVE  LET r == asked[c].recipe IN
         /\ stage[c] = "locked" /\ r \in RecipeId /\ recipe[r] \in RecipeRow
         /\ \E v \in Nat, published \in BOOLEAN :
              recipe' = [recipe EXCEPT ![r] = WithVersion(recipe[r], v, published)]
<1> DEFINE q == asked[c]
           row == recipe[q.recipe]
<1>1. /\ stage[c] = "locked"
      /\ \/ recipe' = [recipe EXCEPT ![q.recipe] = WithVersion(row, row.versions + 1, FALSE)]
         \/ /\ q.op = "publish"
            /\ recipe' = [recipe EXCEPT ![q.recipe] = WithVersion(row, q.version, TRUE)]
  BY DEF ChangeVersions
<1>2. q.recipe \in RecipeId /\ row \in RecipeRow /\ WellFormed(q)
  BY <1>1, LockedRecipe
<1>3. row.versions + 1 \in Nat /\ (q.op = "publish" => q.version \in Nat)
  BY <1>2 DEF RecipeRow, WellFormed
<1> QED  BY <1>1, <1>2, <1>3

LEMMA WritesKeepRecipes ==
  ASSUME CatalogTypes, Works, NEW c \in Worker, Writes(c)
  PROVE  RecipesKept
<1>1. CASE UNCHANGED recipe
  BY <1>1 DEF RecipesKept, CatalogTypes, TableTypes
<1>2. CASE \E r \in RecipeId : CreatesRecipe(c, r)
  <2>1. PICK r \in RecipeId : CreatesRecipe(c, r)
    BY <1>2
  <2> DEFINE bare == [NoRecipe EXCEPT !.household = asked[c].household, !.name = asked[c].name,
                                      !.archived = FALSE]
             new == WithVersion(bare, 1, asked[c].publish)
  <2>2. WellFormed(asked[c]) /\ asked[c].op = "mcp_create"
    BY <2>1, RequestShape DEF CreatesRecipe, AllLooked
  <2>2a. bare \in RecipeRow
    BY <2>2 DEF WellFormed, RecipeRow, NoRecipe
  <2>3. new \in RecipeRow
    <3> HIDE DEF bare
    <3> QED  BY <2>2a, VersionAdded
  <2>4. recipe' = [recipe EXCEPT ![r] = new] /\ recipe[r] = NoRecipe
    BY <2>1 DEF CreatesRecipe
  <2> HIDE DEF new
  <2> QED  BY <2>3, <2>4, RowFacts DEF RecipesKept, CatalogTypes, TableTypes
<1>3. CASE ArchiveRecipe(c)
  <2> DEFINE r == asked[c].recipe
             new == [recipe[r] EXCEPT !.archived = TRUE]
  <2>1. stage[c] = "locked"
    BY <1>3 DEF ArchiveRecipe
  <2>3. r \in RecipeId /\ recipe[r] \in RecipeRow
    BY <2>1, LockedRecipe
  <2>5. new \in RecipeRow /\ new.household = recipe[r].household
    BY <2>3 DEF RecipeRow
  <2>6. recipe' = [recipe EXCEPT ![r] = new]
    BY <1>3 DEF ArchiveRecipe
  <2> HIDE DEF r, new
  <2> QED  BY <2>3, <2>5, <2>6, RowFacts DEF RecipesKept, CatalogTypes, TableTypes
<1>4. CASE ReplaceLines(c) \/ ChangeVersions(c)
  <2> DEFINE r == asked[c].recipe
  <2>1. /\ r \in RecipeId /\ recipe[r] \in RecipeRow
        /\ \E v \in Nat, published \in BOOLEAN : recipe' = [recipe EXCEPT ![r] = WithVersion(recipe[r], v, published)]
    BY <1>4, ReplacedLines, ChangedVersions
  <2>2. PICK v \in Nat, published \in BOOLEAN : recipe' = [recipe EXCEPT ![r] = WithVersion(recipe[r], v, published)]
    BY <2>1
  <2>3. /\ WithVersion(recipe[r], v, published) \in RecipeRow
        /\ WithVersion(recipe[r], v, published).household = recipe[r].household
    BY <2>1, VersionAdded
  <2> HIDE DEF r
  <2> QED  BY <2>1, <2>2, <2>3, RowFacts DEF RecipesKept, CatalogTypes, TableTypes
<1> QED
  BY <1>1, <1>2, <1>3, <1>4 DEF Writes, CreateIngredient, Renames, ArchiveIngredient

\* The ingredient a committed line names.
LEMMA LineNamed ==
  ASSUME CatalogTypes, Works, NEW c \in Worker, stage[c] # "idle", NEW r, NEW version,
         CommitLines(c, r, version), Missing(c) = {}, NEW k \in DOMAIN resolved[c]
  PROVE  LET i == resolved[c][k] IN
         /\ i \in IngredientId /\ ingredient'[i] # NoIngredient
         /\ ingredient'[i].household \in {asked[c].household, Global}
         /\ ingredient'[i].dimension = asked[c].lines[k].dimension
<1> DEFINE i == resolved[c][k]
<1>1. i # Omitted /\ Fits(c, k)
  BY DEF Missing, Works, Resolution
<1>2. CASE i \in IngredientId /\ ingredient[i] # NoIngredient
           /\ ingredient[i].household \in {asked[c].household, Global}
           /\ ingredient[i].dimension = asked[c].lines[k].dimension
  <2>1. IngredientsKept
    BY CommitKeeps
  <2> HIDE DEF i
  <2>2. /\ ingredient'[i] # NoIngredient
        /\ ingredient'[i].household = ingredient[i].household
        /\ ingredient'[i].dimension = ingredient[i].dimension
    BY <1>2, <2>1 DEF IngredientsKept
  <2>3. /\ i \in IngredientId /\ ingredient'[i] # NoIngredient
        /\ ingredient'[i].household \in {asked[c].household, Global}
        /\ ingredient'[i].dimension = asked[c].lines[k].dimension
    BY <1>2, <2>2
  <2> QED  BY <2>3 DEF i
<1>3. CASE \E made \in inserted[c] : made.id = i /\ made.dimension = asked[c].lines[k].dimension
  <2>1. PICK made \in inserted[c] : made.id = i /\ made.dimension = asked[c].lines[k].dimension
    BY <1>3
  <2>2. ingredient'[made.id] = NewIngredient(asked[c].household, made.name, made.dimension)
    BY CommittedRows
  <2>3. made.id \in IngredientId /\ asked[c].household \in Household
    BY InsertedIds, RequestShape DEF WellFormed
  <2>4. NoIngredient.household \notin Household
    BY CatalogAssumption DEF NoIngredient
  <2> QED  BY <2>1, <2>2, <2>3, <2>4 DEF NewIngredient
<1> QED  BY <1>1, <1>2, <1>3 DEF Fits

\* The lines a commit writes, in a recipe of the worker's household.
LEMMA CommitFits ==
  ASSUME CatalogTypes, Works, LinesStand, LinesFitTheirIngredient,
         IngredientsKept, RecipesKept, NEW c \in Worker, stage[c] # "idle",
         NEW r \in RecipeId, NEW version \in Nat, CommitLines(c, r, version), Missing(c) = {},
         asked[c].lines \in Seq(LineType),
         recipe'[r] # NoRecipe, recipe'[r].household = asked[c].household
  PROVE  /\ recipe_version_ingredient' \subseteq RecipeLine
         /\ LinesStand' /\ LinesFitTheirIngredient'
<1>1. recipe_version_ingredient' =
        (recipe_version_ingredient \ LinesOf(r, version)) \cup Lines(c, r, version)
  BY DEF CommitLines
<1>2. ASSUME NEW line \in Lines(c, r, version)
      PROVE  /\ line \in RecipeLine /\ line.recipe = r /\ ingredient'[line.ingredient] # NoIngredient
             /\ ingredient'[line.ingredient].household \in {asked[c].household, Global}
             /\ ingredient'[line.ingredient].dimension = line.dimension
  <2>1. PICK k \in DOMAIN resolved[c] :
          line = [recipe |-> r, version |-> version, ingredient |-> resolved[c][k],
                  dimension |-> asked[c].lines[k].dimension]
    BY DEF Lines
  <2>2. k \in DOMAIN asked[c].lines
    BY DEF Works, Resolution
  <2>3. asked[c].lines[k].dimension \in Dimension
    <3> DEFINE q == asked[c]
    <3>1. q.lines \in Seq(LineType) /\ k \in DOMAIN q.lines
      BY <2>2
    <3> HIDE DEF q
    <3>2. q.lines[k] \in LineType
      BY <3>1
    <3> QED  BY <3>2 DEF LineType, q
  <2> QED  BY <2>1, <2>3, LineNamed DEF RecipeLine
<1>3. ASSUME NEW line \in recipe_version_ingredient
      PROVE  /\ line \in RecipeLine /\ recipe'[line.recipe] # NoRecipe
             /\ ingredient'[line.ingredient] # NoIngredient
             /\ ingredient'[line.ingredient].household \in {recipe'[line.recipe].household, Global}
             /\ ingredient'[line.ingredient].dimension = line.dimension
  <2>1. line \in RecipeLine /\ line.recipe \in RecipeId /\ line.ingredient \in IngredientId
    BY DEF CatalogTypes, TableTypes, RecipeLine
  <2>2. /\ recipe[line.recipe] # NoRecipe /\ ingredient[line.ingredient] # NoIngredient
        /\ ingredient[line.ingredient].household \in {recipe[line.recipe].household, Global}
        /\ ingredient[line.ingredient].dimension = line.dimension
    BY DEF LinesStand, LinesFitTheirIngredient
  <2> QED  BY <2>1, <2>2 DEF IngredientsKept, RecipesKept
<1>5. ASSUME NEW line \in recipe_version_ingredient'
      PROVE  /\ line \in RecipeLine /\ recipe'[line.recipe] # NoRecipe
             /\ ingredient'[line.ingredient] # NoIngredient
             /\ ingredient'[line.ingredient].household \in {recipe'[line.recipe].household, Global}
             /\ ingredient'[line.ingredient].dimension = line.dimension
  <2>1. CASE line \in recipe_version_ingredient
    BY <1>3, <2>1
  <2>2. CASE line \in Lines(c, r, version)
    BY <1>2, <2>2
  <2> QED  BY <1>1, <2>1, <2>2
<1>6. LinesStand' /\ recipe_version_ingredient' \subseteq RecipeLine
  BY <1>5 DEF LinesStand
<1>7. LinesFitTheirIngredient'
  BY <1>5 DEF LinesFitTheirIngredient
<1> QED  BY <1>6, <1>7

\* A step that writes no line leaves every line right.
LEMMA LinesKept ==
  ASSUME CatalogTypes, LinesStand, LinesFitTheirIngredient,
         IngredientsKept, RecipesKept, UNCHANGED recipe_version_ingredient
  PROVE  /\ recipe_version_ingredient' \subseteq RecipeLine
         /\ LinesStand' /\ LinesFitTheirIngredient'
<1>1. ASSUME NEW line \in recipe_version_ingredient
      PROVE  /\ recipe'[line.recipe] # NoRecipe
             /\ ingredient'[line.ingredient] # NoIngredient
             /\ ingredient'[line.ingredient].household \in {recipe'[line.recipe].household, Global}
             /\ ingredient'[line.ingredient].dimension = line.dimension
  <2>1. line.recipe \in RecipeId /\ line.ingredient \in IngredientId
    BY DEF CatalogTypes, TableTypes, RecipeLine
  <2>2. /\ recipe[line.recipe] # NoRecipe /\ ingredient[line.ingredient] # NoIngredient
        /\ ingredient[line.ingredient].household \in {recipe[line.recipe].household, Global}
        /\ ingredient[line.ingredient].dimension = line.dimension
    BY DEF LinesStand, LinesFitTheirIngredient
  <2> QED  BY <2>1, <2>2 DEF IngredientsKept, RecipesKept
<1>2. LinesStand' /\ LinesFitTheirIngredient'
  BY <1>1 DEF LinesStand, LinesFitTheirIngredient
<1> QED  BY <1>2 DEF CatalogTypes, TableTypes

LEMMA WritesKeepLines ==
  ASSUME CatalogTypes, Works, LinesStand, LinesFitTheirIngredient, NEW c \in Worker, Writes(c)
  PROVE  /\ recipe_version_ingredient' \subseteq RecipeLine
         /\ LinesStand' /\ LinesFitTheirIngredient'
<1>1. IngredientsKept /\ RecipesKept
  BY WritesKeepIngredients, WritesKeepRecipes
<1>2. CASE UNCHANGED recipe_version_ingredient
  BY <1>1, <1>2, LinesKept
<1>3. CASE \E r \in RecipeId : CreatesRecipe(c, r)
  <2>1. PICK r \in RecipeId : CreatesRecipe(c, r)
    BY <1>3
  <2>2. stage[c] # "idle" /\ asked[c].op = "mcp_create" /\ CommitLines(c, r, 1) /\ Missing(c) = {}
    BY <2>1 DEF CreatesRecipe, AllLooked
  <2>3. asked[c].lines \in Seq(LineType) /\ asked[c].household \in Household
    BY <2>2, RequestShape DEF WellFormed
  <2>4. recipe'[r].household = asked[c].household
    BY <2>1 DEF CreatesRecipe, WithVersion, NoRecipe, CatalogTypes, TableTypes
  <2>5. recipe'[r] # NoRecipe
    BY <2>3, <2>4, CatalogAssumption DEF NoRecipe
  <2> QED  BY <1>1, <2>2, <2>3, <2>4, <2>5, CommitFits
<1>4. CASE ReplaceLines(c)
  <2> DEFINE r == asked[c].recipe
  <2>1. PICK v \in Nat, published \in BOOLEAN :
          /\ recipe' = [recipe EXCEPT ![r] = WithVersion(recipe[r], v, published)]
          /\ CommitLines(c, r, v)
    BY <1>4, ReplacedLines
  <2>2. /\ stage[c] # "idle" /\ r \in RecipeId /\ recipe[r] \in RecipeRow /\ Missing(c) = {}
        /\ asked[c].lines \in Seq(LineType) /\ asked[c].household = recipe[r].household
    BY <1>4, ReplacedLines DEF OwnsRecipe
  <2> HIDE DEF r
  <2>3. recipe[r] # NoRecipe
    BY <2>2, RowFacts
  <2>4. recipe'[r] # NoRecipe /\ recipe'[r].household = asked[c].household
    BY <1>1, <2>2, <2>3 DEF RecipesKept
  <2> QED  BY <1>1, <2>1, <2>2, <2>4, CommitFits
<1> QED
  BY <1>2, <1>3, <1>4
  DEF Writes, CreateIngredient, Renames, ArchiveIngredient, ChangeVersions, ArchiveRecipe

(***************************************************************************)
(* The other workers, and those whose request ends.                        *)
(***************************************************************************)
\* What a step does to the rows, as the other workers see it.
RowsMove(c) == IngredientsKept /\ RecipesKept /\ OthersRowsKept(c)

LEMMA FitsKept ==
  ASSUME IngredientsKept, NEW d \in Worker, Same(d), NEW k, Fits(d, k)
  PROVE  Fits(d, k)'
<1> DEFINE i == resolved[d][k]
<1>1. i' = i /\ asked'[d] = asked[d] /\ inserted'[d] = inserted[d]
  BY DEF Same
<1>2. CASE i \in IngredientId /\ ingredient[i] # NoIngredient
  <2>1. /\ ingredient'[i] # NoIngredient
        /\ ingredient'[i].household = ingredient[i].household
        /\ ingredient'[i].dimension = ingredient[i].dimension
    BY <1>2 DEF IngredientsKept
  <2> HIDE DEF i
  <2>2. Fits(d, k) <=>
          \/ i = Omitted /\ asked[d].lines[k].name \in Nat
          \/ /\ i \in IngredientId /\ ingredient[i] # NoIngredient
             /\ ingredient[i].household \in {asked[d].household, Global}
             /\ ingredient[i].dimension = asked[d].lines[k].dimension
          \/ \E made \in inserted[d] : made.id = i /\ made.dimension = asked[d].lines[k].dimension
    BY DEF Fits, i
  <2>3. Fits(d, k)' <=>
          \/ i' = Omitted /\ asked'[d].lines[k].name \in Nat
          \/ /\ i' \in IngredientId /\ ingredient'[i'] # NoIngredient
             /\ ingredient'[i'].household \in {asked'[d].household, Global}
             /\ ingredient'[i'].dimension = asked'[d].lines[k].dimension
          \/ \E made \in inserted'[d] : made.id = i' /\ made.dimension = asked'[d].lines[k].dimension
    BY DEF Fits, i
  <2> QED  BY <1>1, <2>1, <2>2, <2>3
<1>3. CASE ~(i \in IngredientId /\ ingredient[i] # NoIngredient)
  BY <1>1, <1>3 DEF Fits
<1> QED  BY <1>2, <1>3

LEMMA WorkerKept ==
  ASSUME CatalogTypes, Works, NEW c \in Worker, RowsMove(c), NEW d \in Worker, d # c, Same(d)
  PROVE  (Progress(d) /\ Resolution(d) /\ Insertion(d))'
<1>1. /\ stage'[d] = stage[d] /\ asked'[d] = asked[d]
      /\ resolved'[d] = resolved[d] /\ inserted'[d] = inserted[d]
  BY DEF Same
<1>2. Missing(d)' = Missing(d)
  BY <1>1 DEF Missing
<1>3. (Blank(d) => Blank(d)') /\ (Looked(d) => Looked(d)')
  BY <1>1, <1>2 DEF Blank, Looked
<1>4. \A ops : Serves(d, ops)' <=> Serves(d, ops)
  BY <1>1 DEF Serves
<1>5. Serves(d, RecipeOps \cup {"mcp_update"}) /\ OwnsRecipe(d) => OwnsRecipe(d)'
  <2> SUFFICES ASSUME Serves(d, RecipeOps \cup {"mcp_update"}), OwnsRecipe(d)
               PROVE  OwnsRecipe(d)'
    OBVIOUS
  <2>1. asked[d].recipe \in RecipeId /\ asked[d].household \in Household
    BY CatalogAssumption DEF Serves, WellFormed
  <2>2. recipe[asked[d].recipe] # NoRecipe
    BY <2>1, RowFacts DEF OwnsRecipe
  <2>3. recipe'[asked[d].recipe].household = recipe[asked[d].recipe].household
    BY <2>1, <2>2 DEF RowsMove, RecipesKept
  <2> QED  BY <1>1, <2>3 DEF OwnsRecipe
<1>6. Progress(d)'
  <2>1. Progress(d)
    BY DEF Works
  <2>2. Serves(d, {"lines", "revise"}) => Serves(d, RecipeOps \cup {"mcp_update"})
    BY DEF Serves, RecipeOps
  <2>3. asked[d].id \in IngredientId /\ ingredient[asked[d].id] # NoIngredient
          => /\ ingredient'[asked[d].id] # NoIngredient
             /\ ingredient'[asked[d].id].household = ingredient[asked[d].id].household
    BY DEF RowsMove, IngredientsKept
  <2> QED  BY <1>1, <1>3, <1>4, <1>5, <2>1, <2>2, <2>3 DEF Progress
<1>7. Resolution(d)'
  <2>1. Resolution(d)
    BY DEF Works
  <2>2. MissingAgree(d)'
    BY <1>1, <1>2, <2>1 DEF Resolution, MissingAgree
  <2>3. \A k \in DOMAIN resolved'[d] : k \in DOMAIN asked'[d].lines /\ Fits(d, k)'
    BY <1>1, <2>1, FitsKept DEF Resolution, RowsMove
  <2> QED  BY <2>2, <2>3 DEF Resolution
<1>8. Insertion(d)'
  BY <1>1 DEF Works, Insertion, RowsMove, OthersRowsKept
<1> QED  BY <1>6, <1>7, <1>8

LEMMA IdleWorker ==
  ASSUME NEW c \in Worker, stage'[c] = "idle", resolved'[c] = <<>>, inserted'[c] = {}
  PROVE  (Progress(c) /\ Resolution(c) /\ Insertion(c))'
BY DEF Progress, Resolution, Insertion, Blank, MissingAgree, Missing

LEMMA WorksAssembled ==
  ASSUME CatalogTypes, Works, NEW c \in Worker, RowsMove(c), \A d \in Worker : d # c => Same(d),
         (Progress(c) /\ Resolution(c) /\ Insertion(c))',
         \A made \in inserted'[c] : made \in inserted[c]
           \/ \A d \in Worker : d # c => \A other \in inserted[d] : other.id # made.id
  PROVE  Works'
<1>1. \A d \in Worker : (Progress(d) /\ Resolution(d) /\ Insertion(d))'
  BY WorkerKept
<1>2. Apart'
  <2> SUFFICES ASSUME NEW a \in Worker, NEW b \in Worker, a # b,
                      NEW made \in inserted'[a], NEW other \in inserted'[b]
               PROVE  made.id # other.id
    BY DEF Apart
  <2>1. \A d \in Worker : d # c => inserted'[d] = inserted[d]
    BY DEF Same
  <2>2. CASE a = c
    BY <2>1, <2>2 DEF Works, Apart
  <2>3. CASE b = c
    BY <2>1, <2>3 DEF Works, Apart
  <2>4. CASE a # c /\ b # c
    BY <2>1, <2>4 DEF Works, Apart
  <2> QED  BY <2>2, <2>3, <2>4
<1> QED  BY <1>1, <1>2 DEF Works

LEMMA EndedWorks ==
  ASSUME CatalogTypes, Works, NEW c \in Worker, RowsMove(c), Ended(c)
  PROVE  Works'
<1>1. stage'[c] = "idle" /\ resolved'[c] = <<>> /\ inserted'[c] = {} /\ \A d \in Worker : d # c => Same(d)
  BY EndedWorker
<1>2. (Progress(c) /\ Resolution(c) /\ Insertion(c))'
  BY <1>1, IdleWorker
<1> QED  BY <1>1, <1>2, WorksAssembled

LEMMA TablesStill ==
  ASSUME CatalogTypes, UNCHANGED <<ingredient, recipe>>, NEW c \in Worker
  PROVE  RowsMove(c)
BY DEF RowsMove, IngredientsKept, RecipesKept, OthersRowsKept, CatalogTypes, TableTypes

LEMMA WritesWorks ==
  ASSUME CatalogTypes, Works, NEW c \in Worker, Writes(c)
  PROVE  Works'
<1>1. RowsMove(c)
  BY WritesKeepIngredients, WritesKeepRecipes DEF RowsMove
<1>2. Ended(c)
  BY DEF Writes, CreateIngredient, Renames, ArchiveIngredient, CreatesRecipe, ReplaceLines,
         ChangeVersions, ArchiveRecipe, CommitLines
<1> QED  BY <1>1, <1>2, EndedWorks

(***************************************************************************)
(* The worker that reads.                                                  *)
(***************************************************************************)
LEMMA ActiveRow ==
  ASSUME CatalogTypes, NEW h \in Household \cup {Global}, NEW i \in Active(h)
  PROVE  i \in IngredientId /\ ingredient[i] # NoIngredient /\ ingredient[i].household = h
         /\ ingredient[i] \in IngredientRow /\ ~ingredient[i].archived
BY RowFacts DEF Active

LEMMA LooksSame ==
  ASSUME CatalogTypes, NEW c \in Worker, NEW next \in Stages, Goto(c, next),
         UNCHANGED asked, NEW s, resolved' = [resolved EXCEPT ![c] = s],
         NEW m, inserted' = [inserted EXCEPT ![c] = m]
  PROVE  /\ stage'[c] = next /\ resolved'[c] = s /\ inserted'[c] = m
         /\ \A d \in Worker : d # c => Same(d)
         /\ RowsMove(c)
         /\ UNCHANGED <<ingredient, recipe, recipe_version_ingredient, listing, stayed, asked>>
<1>1. UNCHANGED <<catalog_tables, listing, stayed>> /\ stage' = [stage EXCEPT ![c] = next]
  BY DEF Goto
<1>2. RowsMove(c)
  BY <1>1, TablesStill DEF catalog_tables
<1> QED  BY <1>1, <1>2 DEF CatalogTypes, WorkerTypes, Same, listing, catalog_tables

\* A worker that has looked at something and keeps what it has resolved.
LEMMA LooksOnly ==
  ASSUME CatalogTypes, NEW c \in Worker, NEW next \in Stages, Goto(c, next),
         UNCHANGED <<asked, resolved, inserted>>
  PROVE  /\ stage'[c] = next /\ resolved'[c] = resolved[c] /\ inserted'[c] = inserted[c]
         /\ \A d \in Worker : d # c => Same(d)
         /\ RowsMove(c)
         /\ UNCHANGED <<ingredient, recipe, recipe_version_ingredient, listing, stayed, asked>>
<1>1. /\ resolved' = [resolved EXCEPT ![c] = resolved[c]]
      /\ inserted' = [inserted EXCEPT ![c] = inserted[c]]
  BY DEF CatalogTypes, WorkerTypes
<1> QED  BY <1>1, LooksSame

LEMMA ResolutionStays ==
  ASSUME Works, NEW c \in Worker, UNCHANGED <<ingredient, asked>>,
         resolved'[c] = resolved[c], inserted'[c] = inserted[c]
  PROVE  Resolution(c)' /\ Insertion(c)'
BY DEF Works, Resolution, Insertion, MissingAgree, Missing, Fits

LEMMA LoadsWorks ==
  ASSUME CatalogTypes, Works, NEW c \in Worker, Loads(c)
  PROVE  Works'
<1>1. Goto(c, "loaded") /\ UNCHANGED <<asked, resolved, inserted>>
  BY DEF Loads, Looks
<1>2. /\ stage'[c] = "loaded" /\ resolved'[c] = resolved[c] /\ inserted'[c] = inserted[c]
      /\ \A d \in Worker : d # c => Same(d)
      /\ RowsMove(c) /\ UNCHANGED <<ingredient, asked>>
  BY <1>1, LooksOnly DEF Stages
<1>3. Resolution(c)' /\ Insertion(c)'
  BY <1>2, ResolutionStays
<1>4. asked[c] \in CatalogRequest /\ asked[c].household \in Household /\ Blank(c)
  BY RequestShape DEF Loads, WellFormed, Works, Progress
<1>5. /\ asked[c].id \in IngredientId /\ ingredient[asked[c].id] # NoIngredient
      /\ ingredient[asked[c].id].household = asked[c].household
  BY <1>4, ActiveRow DEF Loads
<1>6. Progress(c)'
  BY <1>2, <1>4, <1>5 DEF Progress, Loads, Serves, Blank
<1> QED  BY <1>2, <1>3, <1>6, WorksAssembled

LEMMA BeginsResolvingWorks ==
  ASSUME CatalogTypes, Works, NEW c \in Worker, BeginsResolving(c)
  PROVE  Works'
<1>1. Goto(c, "resolving") /\ UNCHANGED <<asked, resolved, inserted>>
  BY DEF BeginsResolving, Looks
<1>2. /\ stage'[c] = "resolving" /\ resolved'[c] = resolved[c] /\ inserted'[c] = inserted[c]
      /\ \A d \in Worker : d # c => Same(d)
      /\ RowsMove(c) /\ UNCHANGED <<ingredient, asked>>
  BY <1>1, LooksOnly DEF Stages
<1>3. Resolution(c)' /\ Insertion(c)'
  BY <1>2, ResolutionStays
<1>4. asked[c] \in CatalogRequest
  BY RequestShape DEF BeginsResolving
<1>6. Progress(c)'
  BY <1>2, <1>4 DEF Progress, BeginsResolving, Serves
<1> QED  BY <1>2, <1>3, <1>6, WorksAssembled

LEMMA LocksWorks ==
  ASSUME CatalogTypes, Works, NEW c \in Worker, Locks(c)
  PROVE  Works'
<1>1. Goto(c, "locked") /\ UNCHANGED <<asked, resolved, inserted>>
  BY DEF Locks
<1>2. /\ stage'[c] = "locked" /\ resolved'[c] = resolved[c] /\ inserted'[c] = inserted[c]
      /\ \A d \in Worker : d # c => Same(d)
      /\ RowsMove(c) /\ UNCHANGED <<ingredient, recipe, asked>>
  BY <1>1, LooksOnly DEF Stages
<1>3. Resolution(c)' /\ Insertion(c)'
  BY <1>2, ResolutionStays
<1>4. asked[c] \in CatalogRequest /\ WellFormed(asked[c])
  BY RequestShape DEF Locks, AsksForLock, AllLooked
<1>5. OwnsRecipe(c)
  BY DEF Locks, Editable, OwnsRecipe
<1>6. CASE asked[c].op = "mcp_update"
  <2>1. AllLooked(c) /\ Missing(c) = {}
    BY <1>6 DEF Locks, AsksForLock, RecipeOps
  <2>2. DOMAIN resolved[c] = DOMAIN asked[c].lines
    <3>1. asked[c].lines \in Seq(LineType) /\ resolved[c] \in Seq(IngredientId \cup {Omitted})
      BY <1>4, <1>6 DEF WellFormed, CatalogTypes, WorkerTypes
    <3>2. Len(resolved[c]) = Len(asked[c].lines)
      BY <2>1 DEF AllLooked
    <3> QED  BY <3>1, <3>2
  <2>3. Looked(c)'
    BY <1>2, <2>1, <2>2 DEF Looked, Missing
  <2>4. Progress(c)'
    BY <1>2, <1>4, <1>5, <1>6, <2>3 DEF Progress, Serves, OwnsRecipe
  <2> QED  BY <1>2, <1>3, <2>4, WorksAssembled
<1>7. CASE asked[c].op # "mcp_update"
  <2>1. stage[c] = "open" /\ asked[c].op \in RecipeOps
    BY <1>7 DEF Locks, AsksForLock
  <2>2. Blank(c)'
    BY <1>2, <2>1 DEF Blank, Works, Progress
  <2>4. Progress(c)'
    BY <1>2, <1>4, <1>5, <1>7, <2>1, <2>2 DEF Progress, Serves, OwnsRecipe
  <2> QED  BY <1>2, <1>3, <2>4, WorksAssembled
<1> QED  BY <1>6, <1>7

LEMMA ValidatesWorks ==
  ASSUME CatalogTypes, Works, NEW c \in Worker, Validates(c)
  PROVE  Works'
<1> DEFINE q == asked[c]
           s == [k \in DOMAIN q.lines |-> q.lines[k].id]
<1>1. Goto(c, "validated") /\ UNCHANGED <<asked, inserted>> /\ resolved' = [resolved EXCEPT ![c] = s]
  BY DEF Validates
<1>2. inserted' = [inserted EXCEPT ![c] = inserted[c]]
  BY <1>1 DEF CatalogTypes, WorkerTypes
<1>3. /\ stage'[c] = "validated" /\ resolved'[c] = s /\ inserted'[c] = inserted[c]
      /\ \A d \in Worker : d # c => Same(d)
      /\ RowsMove(c) /\ UNCHANGED <<ingredient, recipe, asked>>
  <2> HIDE DEF s
  <2> QED  BY <1>1, <1>2, LooksSame DEF Stages
<1>4. /\ q \in CatalogRequest /\ q.op \in {"lines", "revise"} /\ q.household \in Household
      /\ OwnsRecipe(c) /\ inserted[c] = {}
  BY RequestShape DEF Validates, Works, Progress, Blank, WellFormed
<1>5. ASSUME NEW k \in DOMAIN q.lines
      PROVE  LET i == q.lines[k].id IN
             /\ i \in IngredientId /\ ingredient[i] # NoIngredient
             /\ ingredient[i].household \in {q.household, Global}
             /\ ingredient[i].dimension = q.lines[k].dimension
  <2> DEFINE i == q.lines[k].id
  <2>1. i \in Active(q.household) \cup Active(Global) /\ ingredient[i].dimension = q.lines[k].dimension
    BY DEF Validates, Validated, Available
  <2> QED  BY <1>4, <2>1, ActiveRow
<1>6. Omitted \notin IngredientId
  BY CatalogAssumption
<1>7. DOMAIN s = DOMAIN q.lines /\ \A k \in DOMAIN s : s[k] = q.lines[k].id /\ s[k] \in IngredientId
  BY <1>5
<1> HIDE DEF s
<1>8. Missing(c)' = {}
  BY <1>3, <1>6, <1>7 DEF Missing
<1>9. Resolution(c)'
  <2>1. MissingAgree(c)'
    BY <1>8 DEF MissingAgree
  <2>2. ASSUME NEW k \in DOMAIN resolved'[c] PROVE k \in DOMAIN asked'[c].lines /\ Fits(c, k)'
    <3>1. /\ k \in DOMAIN q.lines /\ resolved'[c][k] = q.lines[k].id
          /\ asked'[c] = q /\ ingredient' = ingredient
      BY <1>3, <1>7
    <3> DEFINE i == q.lines[k].id
    <3>2. /\ i \in IngredientId /\ ingredient[i] # NoIngredient
          /\ ingredient[i].household \in {q.household, Global}
          /\ ingredient[i].dimension = q.lines[k].dimension
      BY <1>5, <3>1
    <3> HIDE DEF q, i
    <3>3. resolved'[c][k] = i
      BY <3>1 DEF i
    <3> QED  BY <3>1, <3>2, <3>3 DEF Fits
  <2> QED  BY <2>1, <2>2 DEF Resolution
<1>10. Insertion(c)'
  BY <1>3, <1>4 DEF Insertion
<1>11. Progress(c)'
  BY <1>3, <1>4, <1>7, <1>8 DEF Progress, Serves, OwnsRecipe, Looked
<1> QED  BY <1>3, <1>9, <1>10, <1>11, WorksAssembled

\* The ingredient a line means is one that fits it, or there is none.
LEMMA MeantRow ==
  ASSUME CatalogTypes, NEW h \in Household, NEW line, NEW i \in Meant(h, line)
  PROVE  i \in IngredientId /\ ingredient[i] # NoIngredient /\ ingredient[i].household \in {h, Global}
<1>1. i \in Active(h) \cup Active(Global)
  BY DEF Meant, Available, FindByName, Named
<1> QED  BY <1>1, ActiveRow

LEMMA MeantOne ==
  ASSUME CatalogTypes, Indexed, NEW h \in Household, NEW line,
         NEW i \in Meant(h, line), NEW j \in Meant(h, line)
  PROVE  i = j
<1>1. CASE line.id # Omitted
  BY <1>1 DEF Meant
<1>2. CASE line.id = Omitted
  <2>1. PICK g \in Household \cup {Global} : i \in Named(g, line.name) /\ j \in Named(g, line.name)
    BY <1>2 DEF Meant, FindByName
  <2>2. SameKey(ingredient[i], ingredient[j])
    BY <2>1, ActiveRow DEF Named, SameKey
  <2> QED  BY <2>1, <2>2, ActiveRow DEF Indexed, Named
<1> QED  BY <1>1, <1>2

LEMMA ResolvesWorks ==
  ASSUME CatalogTypes, Works, Indexed, NEW c \in Worker, Resolves(c)
  PROVE  Works' /\ resolved'[c] \in Seq(IngredientId \cup {Omitted})
<1> DEFINE q == asked[c]
           n == Len(resolved[c]) + 1
           line == q.lines[n]
           meant == Meant(q.household, line)
           v == IF meant = {} THEN Omitted ELSE CHOOSE i \in meant : TRUE
           s == Append(resolved[c], v)
<1>1. /\ Goto(c, "resolving") /\ UNCHANGED <<asked, inserted>>
      /\ resolved' = [resolved EXCEPT ![c] = s]
  BY DEF Resolves, CatalogTypes, WorkerTypes
<1>2. inserted' = [inserted EXCEPT ![c] = inserted[c]]
  BY <1>1 DEF CatalogTypes, WorkerTypes
<1>3. /\ stage'[c] = "resolving" /\ resolved'[c] = s /\ inserted'[c] = inserted[c]
      /\ \A d \in Worker : d # c => Same(d)
      /\ RowsMove(c) /\ UNCHANGED <<ingredient, recipe, asked>>
  <2> HIDE DEF s
  <2> QED  BY <1>1, <1>2, LooksSame DEF Stages
<1>4. /\ q \in CatalogRequest /\ q.household \in Household /\ Serves(c, ToolOps)
      /\ q.lines \in Seq(LineType)
      /\ \A k \in DOMAIN q.lines : q.lines[k].id = Omitted => q.lines[k].name \in Nat
  <2>1. Progress(c) /\ stage[c] = "resolving" /\ WellFormed(q)
    BY RequestShape DEF Resolves, Works
  <2> QED  BY <2>1 DEF Progress, Serves, WellFormed, ToolOps
<1>5. resolved[c] \in Seq(IngredientId \cup {Omitted}) /\ n \in DOMAIN q.lines
  <2>1. resolved[c] \in Seq(IngredientId \cup {Omitted})
    BY DEF CatalogTypes, WorkerTypes
  <2>2. Len(resolved[c]) < Len(q.lines)
    BY DEF Resolves
  <2> QED  BY <1>4, <2>1, <2>2
<1>6. \/ meant = {} /\ v = Omitted /\ line.name \in Nat
           /\ PendingDimensions(c, line.name) \subseteq {line.dimension}
      \/ /\ v \in IngredientId /\ ingredient[v] # NoIngredient
         /\ ingredient[v].household \in {q.household, Global}
         /\ ingredient[v].dimension = line.dimension
  <2>1. CASE meant = {}
    <3>1. line.id = Omitted /\ PendingDimensions(c, line.name) \subseteq {line.dimension}
      BY <2>1 DEF Resolves
    <3> QED  BY <1>4, <1>5, <2>1, <3>1
  <2>2. CASE meant # {}
    <3>1. PICK i \in meant : ingredient[i].dimension = line.dimension
      BY <2>2 DEF Resolves
    <3>2. v \in meant
      BY <2>2
    <3> HIDE DEF line, v
    <3>3. v = i
      BY <1>4, <3>1, <3>2, MeantOne
    <3>4. i \in IngredientId /\ ingredient[i] # NoIngredient /\ ingredient[i].household \in {q.household, Global}
      BY <1>4, <3>1, MeantRow
    <3> QED  BY <3>1, <3>3, <3>4
  <2> QED  BY <2>1, <2>2
<1>7. v \in IngredientId \cup {Omitted}
  BY <1>6, Zenon
<1> HIDE DEF v, line, q
<1>8. /\ s \in Seq(IngredientId \cup {Omitted}) /\ DOMAIN s = DOMAIN resolved[c] \cup {n}
      /\ n \notin DOMAIN resolved[c] /\ s[n] = v
      /\ \A k \in DOMAIN resolved[c] : s[k] = resolved[c][k]
  BY <1>5, <1>7
<1> HIDE DEF s, n
<1>9. asked'[c] = q /\ asked[c] = q /\ ingredient' = ingredient /\ line = q.lines[n]
  BY <1>3 DEF q, line
<1>10. Resolution(c)'
  <2>1. Resolution(c)
    BY DEF Works
  <2>2. ASSUME NEW k \in DOMAIN s PROVE k \in DOMAIN q.lines /\ Fits(c, k)'
    <3>1. CASE k \in DOMAIN resolved[c]
      <4>1. k \in DOMAIN q.lines /\ Fits(c, k)
        BY <1>9, <2>1, <3>1 DEF Resolution
      <4>2. resolved'[c][k] = resolved[c][k]
        BY <1>3, <1>8, <3>1
      <4> QED  BY <1>3, <4>1, <4>2 DEF Fits
    <3>2. CASE k = n
      <4>1. resolved'[c][k] = v
        BY <1>3, <1>8, <3>2
      <4> QED  BY <1>5, <1>6, <1>9, <3>2, <4>1 DEF Fits, q, n
    <3> QED  BY <1>8, <3>1, <3>2
  <2>3. MissingAgree(c)'
    <3> SUFFICES ASSUME NEW k \in Missing(c)', NEW j \in Missing(c)', q.lines[k].name = q.lines[j].name
                 PROVE  q.lines[k].dimension = q.lines[j].dimension
      BY <1>9 DEF MissingAgree
    <3>1. \A m \in Missing(c)' : m = n \/ m \in Missing(c)
      BY <1>3, <1>8 DEF Missing
    <3>2. ASSUME n \in Missing(c)', NEW m \in Missing(c), q.lines[m].name = q.lines[n].name
          PROVE  q.lines[m].dimension = q.lines[n].dimension
      <4>1. v = Omitted
        BY <1>3, <1>8, <3>2 DEF Missing
      <4>2. PendingDimensions(c, line.name) \subseteq {line.dimension}
        BY <1>6, <4>1, CatalogAssumption
      <4>3. q.lines[m].dimension \in PendingDimensions(c, line.name)
        BY <1>9, <3>2 DEF PendingDimensions, Missing
      <4> QED  BY <1>9, <4>2, <4>3
    <3>3. MissingAgree(c)
      BY <2>1 DEF Resolution
    <3>4. CASE k = n
      BY <3>1, <3>2, <3>4
    <3>5. CASE j = n
      BY <3>1, <3>2, <3>5
    <3>6. CASE k # n /\ j # n
      BY <1>9, <3>1, <3>3, <3>6 DEF MissingAgree
    <3> QED  BY <3>4, <3>5, <3>6
  <2> QED  BY <1>3, <1>9, <2>2, <2>3 DEF Resolution
<1>11. Insertion(c)'
  <2>1. Insertion(c)
    BY DEF Works
  <2>2. \A k \in DOMAIN resolved[c] : k \in DOMAIN s /\ s[k] = resolved[c][k]
    BY <1>8
  <2> QED  BY <1>3, <2>1, <2>2 DEF Insertion
<1>12. Progress(c)'
  BY <1>3, <1>4 DEF Progress, Serves
<1>13. Works'
  BY <1>3, <1>10, <1>11, <1>12, WorksAssembled
<1> QED  BY <1>3, <1>8, <1>13

LEMMA FirstMissingFound ==
  ASSUME CatalogTypes, Works, NEW c \in Worker, Missing(c) # {}
  PROVE  /\ Min(Missing(c)) \in Missing(c)
         /\ FirstMissing(c) = asked[c].lines[Min(Missing(c))]
         /\ Min(Missing(c)) \in DOMAIN asked[c].lines /\ FirstMissing(c).name \in Nat
<1>1. resolved[c] \in Seq(IngredientId \cup {Omitted})
  BY DEF CatalogTypes, WorkerTypes
<1>2. Missing(c) \in SUBSET Nat
  BY <1>1 DEF Missing
<1>3. Min(Missing(c)) \in Missing(c)
  BY <1>2, MinOfSet
<1> DEFINE k == Min(Missing(c))
<1>4. k \in DOMAIN resolved[c] /\ resolved[c][k] = Omitted
  BY <1>3 DEF Missing
<1> HIDE DEF k
<1>5. k \in DOMAIN asked[c].lines /\ Fits(c, k)
  BY <1>4 DEF Works, Resolution
<1>6. asked[c].lines[k].name \in Nat
  BY <1>4, <1>5, CatalogAssumption, InsertedIds DEF Fits
<1> QED  BY <1>3, <1>5, <1>6 DEF k, FirstMissing

LEMMA CreateMissingWorks ==
  ASSUME CatalogTypes, Works, NEW c \in Worker, CreateMissing(c)
  PROVE  /\ Works' /\ resolved'[c] \in Seq(IngredientId \cup {Omitted})
         /\ inserted'[c] \subseteq InsertedRow
<1> DEFINE q == asked[c]
           f == Min(Missing(c))
           line == q.lines[f]
<1>1. AllLooked(c) /\ Missing(c) # {} /\ Goto(c, "resolving") /\ UNCHANGED asked
  BY DEF CreateMissing
<1>2. /\ f \in Missing(c) /\ FirstMissing(c) = line /\ f \in DOMAIN q.lines /\ line.name \in Nat
  BY <1>1, FirstMissingFound
<1>3. PICK i \in FreeIds :
        /\ inserted' = [inserted EXCEPT ![c] =
                          @ \cup {[id |-> i, name |-> FirstMissing(c).name, dimension |-> FirstMissing(c).dimension]}]
        /\ resolved' = [resolved EXCEPT ![c] = ResolvedTo(c, i)]
  BY DEF CreateMissing
<1> DEFINE new == [id |-> i, name |-> line.name, dimension |-> line.dimension]
           s == ResolvedTo(c, i)
           m == inserted[c] \cup {new}
<1>4. inserted' = [inserted EXCEPT ![c] = m] /\ resolved' = [resolved EXCEPT ![c] = s]
  BY <1>2, <1>3 DEF CatalogTypes, WorkerTypes
<1>5. i \in IngredientId /\ ingredient[i] = NoIngredient /\ i # Omitted
      /\ \A d \in Worker : \A made \in inserted[d] : made.id # i
  BY CatalogAssumption DEF FreeIds
<1>6. /\ stage'[c] = "resolving" /\ resolved'[c] = s /\ inserted'[c] = m
      /\ \A d \in Worker : d # c => Same(d)
      /\ RowsMove(c) /\ UNCHANGED <<ingredient, recipe, asked>>
  <2> HIDE DEF s, m
  <2> QED  BY <1>1, <1>4, LooksSame DEF Stages
<1>7. /\ q \in CatalogRequest /\ Serves(c, ToolOps) /\ q.lines \in Seq(LineType)
  <2>1. Progress(c) /\ stage[c] = "resolving" /\ WellFormed(q)
    BY RequestShape DEF AllLooked, CreateMissing, Works
  <2> QED  BY <2>1 DEF Progress, Serves, WellFormed, ToolOps
<1>8. line.dimension \in Dimension
  <2>1. line \in LineType
    <3> HIDE DEF q, f
    <3> QED  BY <1>2, <1>7
  <2> QED  BY <2>1 DEF LineType
<1>9. new \in InsertedRow /\ new.id = i /\ new.name = line.name /\ new.dimension = line.dimension
  BY <1>2, <1>5, <1>8 DEF InsertedRow
<1>10. /\ DOMAIN s = DOMAIN resolved[c]
       /\ \A k \in DOMAIN s :
            /\ k \in Missing(c) /\ q.lines[k].name = line.name => s[k] = i
            /\ ~(k \in Missing(c) /\ q.lines[k].name = line.name) => s[k] = resolved[c][k]
  BY <1>2 DEF ResolvedTo
<1>11. s \in Seq(IngredientId \cup {Omitted})
  <2>1. resolved[c] \in Seq(IngredientId \cup {Omitted})
    BY DEF CatalogTypes, WorkerTypes
  <2>2. s = [k \in 1..Len(resolved[c]) |-> s[k]]
    BY <2>1 DEF ResolvedTo
  <2> HIDE DEF s
  <2>3. \A k \in DOMAIN s : s[k] \in IngredientId \cup {Omitted}
    BY <1>5, <1>10, <2>1
  <2>4. DOMAIN s = 1..Len(resolved[c]) /\ Len(resolved[c]) \in Nat
    BY <1>10, <2>1
  <2> QED  BY <2>2, <2>3, <2>4, SMTT(60)
<1> HIDE DEF s, new
<1>12. new \in m /\ \A made \in m : made = new \/ made \in inserted[c]
  OBVIOUS
<1>12a. \A made \in inserted[c] : made \in m
  OBVIOUS
<1> HIDE DEF m, line, f
<1>13. asked'[c] = q /\ asked[c] = q /\ ingredient' = ingredient
  BY <1>6
<1> HIDE DEF q
<1>14. Resolution(c)'
  <2>1. Resolution(c)
    BY DEF Works
  <2>2. \A k \in Missing(c) : q.lines[k].name = line.name => q.lines[k].dimension = line.dimension
    <3>1. MissingAgree(c) /\ line = q.lines[f]
      BY <2>1 DEF Resolution, line
    <3> QED  BY <1>2, <1>13, <3>1 DEF MissingAgree
  <2>3. ASSUME NEW k \in DOMAIN s PROVE k \in DOMAIN q.lines /\ Fits(c, k)'
    <3>0. k \in DOMAIN q.lines /\ Fits(c, k)
      BY <1>10, <1>13, <2>1 DEF Resolution
    <3>1. CASE k \in Missing(c) /\ q.lines[k].name = line.name
      <4>1. resolved'[c][k] = new.id /\ new.dimension = q.lines[k].dimension
        BY <1>6, <1>9, <1>10, <2>2, <3>1
      <4>2. \E made \in inserted'[c] : made.id = resolved'[c][k] /\ made.dimension = asked'[c].lines[k].dimension
        BY <1>6, <1>12, <1>13, <4>1
      <4> QED  BY <3>0, <4>2 DEF Fits
    <3>2. CASE ~(k \in Missing(c) /\ q.lines[k].name = line.name)
      <4>1. resolved'[c][k] = resolved[c][k]
        BY <1>6, <1>10, <3>2
      <4> QED  BY <1>6, <1>12a, <3>0, <4>1 DEF Fits
    <3> QED  BY <3>1, <3>2
  <2>4. MissingAgree(c)'
    <3>1. \A k \in Missing(c)' : k \in Missing(c)
      BY <1>5, <1>6, <1>10 DEF Missing
    <3>2. MissingAgree(c)
      BY <2>1 DEF Resolution
    <3> QED  BY <1>6, <3>1, <3>2 DEF MissingAgree
  <2> QED  BY <1>6, <1>13, <2>3, <2>4 DEF Resolution
<1>15. Insertion(c)'
  <2>1. Insertion(c)
    BY DEF Works
  <2>2. ASSUME NEW made \in m PROVE \E k \in DOMAIN s : s[k] = made.id
    <3>1. CASE made = new
      <4>1. f \in DOMAIN s /\ s[f] = i
        BY <1>2, <1>10 DEF Missing, line
      <4> QED  BY <1>9, <3>1, <4>1
    <3>2. CASE made \in inserted[c]
      <4>1. PICK k \in DOMAIN resolved[c] : resolved[c][k] = made.id
        BY <2>1, <3>2 DEF Insertion
      <4>2. made.id # Omitted
        BY <3>2, InsertedIds, CatalogAssumption
      <4>3. k \in DOMAIN s /\ k \notin Missing(c)
        BY <1>10, <4>1, <4>2 DEF Missing
      <4> QED  BY <1>10, <4>1, <4>3
    <3> QED  BY <1>12, <3>1, <3>2
  <2>3. \A made \in m : ingredient[made.id] = NoIngredient
    BY <1>5, <1>9, <1>12, <2>1 DEF Insertion
  <2>4. \A made, other \in m : made.id = other.id => made = other
    BY <1>5, <1>9, <1>12, <2>1 DEF Insertion
  <2> QED  BY <1>6, <2>2, <2>3, <2>4 DEF Insertion
<1>16. Progress(c)'
  BY <1>6, <1>7, <1>13 DEF Progress, Serves
<1>17. \A made \in inserted'[c] : made \in inserted[c]
         \/ \A d \in Worker : d # c => \A other \in inserted[d] : other.id # made.id
  BY <1>5, <1>6, <1>9, <1>12
<1>18. Works'
  BY <1>6, <1>14, <1>15, <1>16, <1>17, WorksAssembled
<1>19. inserted'[c] \subseteq InsertedRow
  BY <1>6, <1>9, <1>12, InsertedIds
<1> QED  BY <1>6, <1>11, <1>18, <1>19

(***************************************************************************)
(* The other steps, and the types of every step.                           *)
(***************************************************************************)
LEMMA RollbackWorks ==
  ASSUME CatalogTypes, Works, NEW c \in Worker, Rollback(c)
  PROVE  Works'
<1>1. UNCHANGED <<ingredient, recipe>> /\ Ended(c)
  BY DEF Rollback, catalog_tables
<1> QED  BY <1>1, TablesStill, EndedWorks

LEMMA ReceiveWorks ==
  ASSUME CatalogTypes, Works, NEW c \in Worker, NEW q \in CatalogRequest, Receive(c, q)
  PROVE  Works'
<1>1. /\ stage'[c] = "open" /\ asked'[c] = q /\ resolved'[c] = resolved[c] /\ inserted'[c] = inserted[c]
      /\ \A d \in Worker : d # c => Same(d)
      /\ UNCHANGED <<ingredient, recipe>>
  BY DEF Receive, CatalogTypes, WorkerTypes, Same, catalog_tables, listing
<1>2. RowsMove(c)
  BY <1>1, TablesStill
<1>3. resolved[c] = <<>> /\ inserted[c] = {}
  BY DEF Receive, Works, Progress, Blank
<1>4. Progress(c)' /\ Resolution(c)' /\ Insertion(c)'
  BY <1>1, <1>3 DEF Progress, Resolution, Insertion, Blank, MissingAgree, Missing
<1> QED  BY <1>1, <1>2, <1>3, <1>4, WorksAssembled

LEMMA ListPageWorks ==
  ASSUME CatalogTypes, Works, NEW c \in Worker, ListPage(c)
  PROVE  Works'
<1>1. /\ stage'[c] \in {"paging", "told"} /\ asked'[c] = asked[c] /\ asked[c].op = "list"
      /\ stage[c] \in {"open", "paging"}
      /\ resolved'[c] = resolved[c] /\ inserted'[c] = inserted[c]
      /\ \A d \in Worker : d # c => Same(d)
      /\ UNCHANGED <<ingredient, recipe, asked>>
  <2>1. /\ \A d \in Worker : d # c => stage'[d] = stage[d] /\ cursor'[d] = cursor[d] /\ listed'[d] = listed[d]
        /\ stage'[c] \in {"paging", "told"}
    BY DEF ListPage, CatalogTypes, WorkerTypes
  <2>2. /\ asked[c].op = "list" /\ stage[c] \in {"open", "paging"}
        /\ UNCHANGED <<catalog_tables, asked, resolved, inserted>>
    BY DEF ListPage
  <2> QED  BY <2>1, <2>2 DEF Same, catalog_tables
<1>2. RowsMove(c)
  BY <1>1, TablesStill
<1>3. Resolution(c)' /\ Insertion(c)'
  BY <1>1, ResolutionStays
<1>4. asked[c] \in CatalogRequest /\ Blank(c)
  BY <1>1 DEF Works, Progress
<1>5. Progress(c)'
  BY <1>1, <1>4 DEF Progress, Serves, Blank
<1> QED  BY <1>1, <1>2, <1>3, <1>5, WorksAssembled

LEMMA EndedTypes ==
  ASSUME CatalogTypes, NEW c \in Worker, Ended(c), stayed' \in [Worker -> SUBSET IngredientId]
  PROVE  WorkerTypes'
<1>1. Start \in [name : Nat, id : Nat] /\ [i \in IngredientId |-> 0] \in [IngredientId -> Nat]
  BY DEF Start
<1>2. <<>> \in Seq(IngredientId \cup {Omitted}) /\ "idle" \in Stages
  BY DEF Stages
<1>3. cursor' \in [Worker -> [name : Nat, id : Nat]] /\ listed' \in [Worker -> [IngredientId -> Nat]]
  BY <1>1, Zenon DEF Ended, CatalogTypes, WorkerTypes
<1>4. resolved' \in [Worker -> Seq(IngredientId \cup {Omitted})]
  BY <1>2, Zenon DEF Ended, CatalogTypes, WorkerTypes
<1>5. /\ stage' \in [Worker -> Stages]
      /\ asked' \in [Worker -> CatalogRequest \cup {NoRequest}]
      /\ inserted' \in [Worker -> SUBSET InsertedRow]
  BY <1>2 DEF Ended, CatalogTypes, WorkerTypes
<1> QED  BY <1>3, <1>4, <1>5 DEF WorkerTypes

LEMMA LooksTypes ==
  ASSUME CatalogTypes, NEW c \in Worker, NEW next \in Stages, Goto(c, next), UNCHANGED asked,
         NEW s \in Seq(IngredientId \cup {Omitted}), resolved' = [resolved EXCEPT ![c] = s],
         NEW m \in SUBSET InsertedRow, inserted' = [inserted EXCEPT ![c] = m]
  PROVE  CatalogTypes'
<1>1. resolved' \in [Worker -> Seq(IngredientId \cup {Omitted})]
  BY Zenon DEF CatalogTypes, WorkerTypes
<1>2. inserted' \in [Worker -> SUBSET InsertedRow] /\ stage' \in [Worker -> Stages]
  BY DEF CatalogTypes, WorkerTypes, Goto
<1>3. UNCHANGED <<ingredient, recipe, recipe_version_ingredient, cursor, listed, stayed>>
  BY DEF Goto, catalog_tables, listing
<1> QED  BY <1>1, <1>2, <1>3 DEF CatalogTypes, WorkerTypes, TableTypes

LEMMA ReadsTypes ==
  ASSUME CatalogTypes, Works, Indexed, NEW c \in Worker, Reads(c)
  PROVE  CatalogTypes'
<1>0. /\ resolved[c] \in Seq(IngredientId \cup {Omitted}) /\ inserted[c] \in SUBSET InsertedRow
      /\ resolved = [resolved EXCEPT ![c] = resolved[c]]
      /\ inserted = [inserted EXCEPT ![c] = inserted[c]]
  BY DEF CatalogTypes, WorkerTypes
<1>1. CASE Loads(c) \/ BeginsResolving(c) \/ Locks(c)
  <2>1. PICK next \in Stages : Goto(c, next) /\ UNCHANGED <<asked, resolved, inserted>>
    BY <1>1 DEF Loads, BeginsResolving, Locks, Looks, Stages
  <2> QED  BY <1>0, <2>1, LooksTypes
<1>2. CASE Resolves(c)
  <2>1. PICK s : /\ Goto(c, "resolving") /\ UNCHANGED <<asked, inserted>>
                 /\ resolved' = [resolved EXCEPT ![c] = s]
    BY <1>0, <1>2 DEF Resolves
  <2>2. s = resolved'[c]
    BY <2>1 DEF CatalogTypes, WorkerTypes
  <2>3. s \in Seq(IngredientId \cup {Omitted}) /\ "resolving" \in Stages
    BY <1>2, <2>2, ResolvesWorks DEF Stages
  <2> QED  BY <1>0, <2>1, <2>3, LooksTypes
<1>3. CASE CreateMissing(c)
  <2>1. PICK s, m : /\ Goto(c, "resolving") /\ UNCHANGED asked
                    /\ resolved' = [resolved EXCEPT ![c] = s]
                    /\ inserted' = [inserted EXCEPT ![c] = m]
    BY <1>3 DEF CreateMissing
  <2>2. s = resolved'[c] /\ m = inserted'[c]
    BY <2>1 DEF CatalogTypes, WorkerTypes
  <2>3. s \in Seq(IngredientId \cup {Omitted}) /\ m \in SUBSET InsertedRow /\ "resolving" \in Stages
    BY <1>3, <2>2, CreateMissingWorks DEF Stages
  <2> QED  BY <2>1, <2>3, LooksTypes
<1>4. CASE Validates(c)
  <2> DEFINE q == asked[c]
             s == [k \in DOMAIN q.lines |-> q.lines[k].id]
  <2>1. Goto(c, "validated") /\ UNCHANGED <<asked, inserted>> /\ resolved' = [resolved EXCEPT ![c] = s]
    BY <1>4 DEF Validates
  <2>2. q.lines \in Seq(LineType)
    BY <1>4, RequestShape DEF Validates, WellFormed
  <2>3. \A k \in DOMAIN q.lines : q.lines[k].id \in IngredientId \cup {Omitted}
    <3> HIDE DEF q
    <3>1. \A k \in DOMAIN q.lines : q.lines[k] \in LineType
      BY <2>2
    <3> QED  BY <3>1 DEF LineType
  <2>4. s \in Seq(IngredientId \cup {Omitted}) /\ "validated" \in Stages
    <3> HIDE DEF q
    <3> QED  BY <2>2, <2>3 DEF Stages
  <2> HIDE DEF s
  <2> QED  BY <1>0, <2>1, <2>4, LooksTypes
<1> QED  BY <1>1, <1>2, <1>3, <1>4 DEF Reads

LEMMA ReadsWorks ==
  ASSUME CatalogTypes, Works, Indexed, NEW c \in Worker, Reads(c)
  PROVE  Works'
BY LoadsWorks, BeginsResolvingWorks, ResolvesWorks, CreateMissingWorks, LocksWorks, ValidatesWorks
   DEF Reads

LEMMA WritesTypes ==
  ASSUME CatalogTypes, Works, LinesStand, LinesFitTheirIngredient, NEW c \in Worker, Writes(c)
  PROVE  CatalogTypes'
<1>1. IngredientsKept /\ StayedTrue /\ RecipesKept
  BY WritesKeepIngredients, WritesKeepRecipes
<1>2. recipe_version_ingredient' \subseteq RecipeLine
  BY WritesKeepLines
<1>3. Ended(c)
  BY DEF Writes, CreateIngredient, Renames, ArchiveIngredient, CreatesRecipe, ReplaceLines,
         ChangeVersions, ArchiveRecipe, CommitLines
<1>4. WorkerTypes'
  BY <1>1, <1>3, EndedTypes DEF StayedTrue
<1> QED  BY <1>1, <1>2, <1>4 DEF CatalogTypes, TableTypes, IngredientsKept, RecipesKept

LEMMA RollbackTypes ==
  ASSUME CatalogTypes, NEW c \in Worker, Rollback(c)
  PROVE  CatalogTypes'
<1>1. Ended(c) /\ UNCHANGED <<ingredient, recipe, recipe_version_ingredient, stayed>>
  BY DEF Rollback, catalog_tables
<1>2. WorkerTypes'
  BY <1>1, EndedTypes DEF CatalogTypes, WorkerTypes
<1> QED  BY <1>1, <1>2 DEF CatalogTypes, TableTypes

LEMMA ReceiveTypes ==
  ASSUME CatalogTypes, NEW c \in Worker, NEW q \in CatalogRequest, Receive(c, q)
  PROVE  CatalogTypes'
<1>1. Scope(q) \subseteq IngredientId
  BY DEF Scope, Available, Active
<1>2. /\ UNCHANGED <<ingredient, recipe, recipe_version_ingredient, resolved, inserted, cursor, listed>>
      /\ stage' \in [Worker -> Stages]
      /\ asked' \in [Worker -> CatalogRequest \cup {NoRequest}]
      /\ stayed' \in [Worker -> SUBSET IngredientId]
  BY <1>1 DEF Receive, CatalogTypes, WorkerTypes, Stages, catalog_tables, listing
<1> QED  BY <1>2 DEF CatalogTypes, TableTypes, WorkerTypes

(***************************************************************************)
(* The pages of a listing.  Names and ids order the rows, so a page is the *)
(* first PageSize of the rows beyond the cursor.                           *)
(***************************************************************************)
LEMMA NameTypes ==
  ASSUME CatalogTypes, NEW i \in IngredientId
  PROVE  ingredient[i].name \in Nat /\ i \in Nat /\ i > 0
<1>1. NoIngredient.name \in Nat
  BY DEF NoIngredient
<1>2. \A r \in IngredientRow : r.name \in Nat
  BY DEF IngredientRow
<1>3. ingredient[i] \in IngredientRow \cup {NoIngredient}
  BY DEF CatalogTypes, TableTypes
<1> QED  BY <1>1, <1>2, <1>3, CatalogAssumption

LEMMA BeforeIsOrder ==
  ASSUME CatalogTypes
  PROVE  /\ \A i, j \in IngredientId : i # j => Before(i, j) \/ Before(j, i)
         /\ \A i, j \in IngredientId : Before(i, j) => ~Before(j, i) /\ i # j
         /\ \A i, j, k \in IngredientId : Before(i, j) /\ Before(j, k) => Before(i, k)
BY NameTypes DEF Before

LEMMA BeyondIsBefore ==
  ASSUME CatalogTypes
  PROVE  /\ \A i, j \in IngredientId : Beyond(j, Cursor(i)) <=> Before(i, j)
         /\ \A i, j \in IngredientId : \A place \in [name : Nat, id : Nat] :
              Beyond(i, place) /\ Before(i, j) => Beyond(j, place)
BY NameTypes DEF Before, Beyond, Cursor

LEMMA FirstRow ==
  ASSUME CatalogTypes, NEW rows \in SUBSET IngredientId, IsFiniteSet(rows), rows # {}
  PROVE  \E i \in rows : \A j \in rows : j = i \/ Before(i, j)
<1> DEFINE R == {p \in rows \X rows : Before(p[2], p[1])}
<1>1. \A a, b \in rows : <<a, b>> \in R <=> Before(b, a)
  OBVIOUS
<1> HIDE DEF R
<1>2. TotalOrder(rows, R)
  BY <1>1, BeforeIsOrder DEF TotalOrder
<1>3. \E g \in rows : \A y \in rows : y = g \/ <<y, g>> \in R
  BY <1>2, Greatest
<1> QED  BY <1>1, <1>3

LEMMA LastRow ==
  ASSUME CatalogTypes, NEW rows \in SUBSET IngredientId, IsFiniteSet(rows), rows # {}
  PROVE  \E i \in rows : \A j \in rows : j = i \/ Before(j, i)
<1> DEFINE R == {p \in rows \X rows : Before(p[1], p[2])}
<1>1. \A a, b \in rows : <<a, b>> \in R <=> Before(a, b)
  OBVIOUS
<1> HIDE DEF R
<1>2. TotalOrder(rows, R)
  BY <1>1, BeforeIsOrder DEF TotalOrder
<1>3. \E g \in rows : \A y \in rows : y = g \/ <<y, g>> \in R
  BY <1>2, Greatest
<1> QED  BY <1>1, <1>3

Earliest(rows) == {i \in rows : Cardinality({j \in rows : Before(j, i)}) < PageSize}

LEMMA PageIsInitial ==
  ASSUME CatalogTypes, NEW rows \in SUBSET IngredientId
  PROVE  /\ Cardinality(rows) <= PageSize => Earliest(rows) = rows
         /\ rows # {} => Earliest(rows) # {}
         /\ \A i \in Earliest(rows), j \in rows : Before(j, i) => j \in Earliest(rows)
<1> DEFINE under(i) == {j \in rows : Before(j, i)}
<1>1. IsFiniteSet(rows) /\ \A T \in SUBSET rows : IsFiniteSet(T) /\ Cardinality(T) \in Nat
  <2>1. IsFiniteSet(rows)
    BY CatalogAssumption, FS_Subset
  <2> QED  BY <2>1, FS_Subset, FS_CardinalityType
<1>2. PageSize \in Nat \ {0} /\ Cardinality(rows) \in Nat
  BY <1>1, CatalogAssumption
<1>3. ASSUME Cardinality(rows) <= PageSize, NEW i \in rows
      PROVE  Cardinality(under(i)) < PageSize
  <2>1. under(i) \subseteq rows /\ i \notin under(i)
    BY BeforeIsOrder
  <2> HIDE DEF under
  <2>2. Cardinality(under(i)) < Cardinality(rows)
    BY <1>1, <2>1, FS_Subset
  <2>3. Cardinality(under(i)) \in Nat
    BY <1>1, <2>1
  <2> QED  BY <1>2, <1>3, <2>2, <2>3
<1>4. ASSUME rows # {} PROVE Earliest(rows) # {}
  <2>1. PICK i \in rows : \A j \in rows : j = i \/ Before(i, j)
    BY <1>1, <1>4, FirstRow
  <2>2. under(i) = {}
    BY <2>1, BeforeIsOrder
  <2>3. Cardinality(under(i)) = 0
    BY <2>2, FS_EmptySet
  <2> QED  BY <1>2, <2>1, <2>3 DEF Earliest
<1>5. ASSUME NEW i \in Earliest(rows), NEW j \in rows, Before(j, i)
      PROVE  j \in Earliest(rows)
  <2>1. under(j) \subseteq under(i)
    BY <1>5, BeforeIsOrder DEF Earliest
  <2>2. under(i) \in SUBSET rows /\ under(j) \in SUBSET rows
    OBVIOUS
  <2>3. Cardinality(under(i)) < PageSize
    BY <1>5 DEF Earliest
  <2>4. Cardinality(under(j)) < PageSize
    <3> HIDE DEF under
    <3>1. Cardinality(under(j)) <= Cardinality(under(i))
      BY <1>1, <2>1, <2>2, FS_Subset
    <3> QED  BY <1>1, <1>2, <2>2, <2>3, <3>1
  <2> QED  BY <2>4 DEF Earliest
<1> QED  BY <1>3, <1>4, <1>5 DEF Earliest

\* What one page comes to.
LEMMA PageShown ==
  ASSUME CatalogTypes, NEW c \in Worker, ListPage(c)
  PROVE  LET rows == {i \in Scope(asked[c]) : Beyond(i, cursor[c])}
             items == Earliest(rows)
         IN
         /\ rows \subseteq IngredientId
         /\ listed'[c] \in [IngredientId -> Nat]
         /\ \A i \in IngredientId : listed'[c][i] = listed[c][i] + (IF i \in items THEN 1 ELSE 0)
         /\ \/ stage'[c] = "told" /\ items = rows /\ UNCHANGED cursor
            \/ /\ stage'[c] = "paging"
               /\ \E last \in items :
                    /\ cursor' = [cursor EXCEPT ![c] = Cursor(last)]
                    /\ \A i \in items : ~Before(last, i)
                    /\ \A i \in rows \ items : Before(last, i)
<1> DEFINE rows == {i \in Scope(asked[c]) : Beyond(i, cursor[c])}
           items == Earliest(rows)
           last == CHOOSE i \in items : \A j \in items : j = i \/ Before(j, i)
<1>1. rows \subseteq IngredientId
  BY DEF Scope, Available, Active
<1>2. items \subseteq rows
  BY DEF Earliest
<1>3. listed' = [listed EXCEPT ![c] = [i \in IngredientId |-> @[i] + IF i \in items THEN 1 ELSE 0]]
  BY DEF ListPage, Earliest
<1>4. /\ \A i \in IngredientId : listed'[c][i] = listed[c][i] + (IF i \in items THEN 1 ELSE 0)
      /\ listed'[c] \in [IngredientId -> Nat]
  <2> HIDE DEF items
  <2>1. listed[c] \in [IngredientId -> Nat]
    BY DEF CatalogTypes, WorkerTypes
  <2>2. listed'[c] = [i \in IngredientId |-> listed[c][i] + IF i \in items THEN 1 ELSE 0]
    BY <1>3 DEF CatalogTypes, WorkerTypes
  <2> QED  BY <2>1, <2>2
<1>5. CASE Cardinality(rows) > PageSize
  <2>1. stage'[c] = "paging" /\ cursor' = [cursor EXCEPT ![c] = Cursor(last)]
    BY <1>5 DEF ListPage, Earliest, CatalogTypes, WorkerTypes
  <2>2. rows # {}
    <3> HIDE DEF rows
    <3>1. Cardinality({}) = 0 /\ PageSize \in Nat
      BY FS_EmptySet, CatalogAssumption
    <3>2. ASSUME rows = {} PROVE FALSE
      <4>1. Cardinality(rows) = 0
        BY <3>1, <3>2
      <4> QED  BY <1>5, <3>1, <4>1
    <3> QED  BY <3>2
  <2> HIDE DEF rows
  <2>3. items # {} /\ \A i \in items, j \in rows : Before(j, i) => j \in items
    BY <1>1, <2>2, PageIsInitial
  <2>4. IsFiniteSet(items) /\ items \in SUBSET IngredientId
    BY <1>1, <1>2, CatalogAssumption, FS_Subset
  <2> HIDE DEF items
  <2>5. \E i \in items : \A j \in items : j = i \/ Before(j, i)
    BY <2>3, <2>4, LastRow
  <2>6. last \in items /\ \A j \in items : j = last \/ Before(j, last)
    BY <2>5
  <2> HIDE DEF last
  <2>7. \A i \in items : ~Before(last, i)
    BY <2>4, <2>6, BeforeIsOrder
  <2>8. \A i \in rows \ items : Before(last, i)
    BY <1>1, <2>3, <2>4, <2>6, BeforeIsOrder
  <2> QED  BY <1>1, <1>4, <2>1, <2>6, <2>7, <2>8 DEF items, rows
<1>6. CASE ~(Cardinality(rows) > PageSize)
  <2>1. stage'[c] = "told" /\ UNCHANGED cursor
    BY <1>6 DEF ListPage, Earliest, CatalogTypes, WorkerTypes
  <2>2. Cardinality(rows) \in Nat /\ PageSize \in Nat
    <3>1. IsFiniteSet(rows)
      BY <1>1, CatalogAssumption, FS_Subset
    <3> QED  BY <3>1, FS_CardinalityType, CatalogAssumption
  <2> HIDE DEF rows
  <2>3. items = rows
    BY <1>1, <1>6, <2>2, PageIsInitial
  <2> HIDE DEF items
  <2> QED  BY <1>1, <1>4, <2>1, <2>3 DEF items, rows
<1> QED  BY <1>5, <1>6

LEMMA ListPageTypes ==
  ASSUME CatalogTypes, NEW c \in Worker, ListPage(c)
  PROVE  CatalogTypes'
<1>1. /\ listed'[c] \in [IngredientId -> Nat] /\ stage'[c] \in {"paging", "told"}
      /\ \/ UNCHANGED cursor
         \/ \E last \in IngredientId : cursor' = [cursor EXCEPT ![c] = Cursor(last)]
  BY PageShown DEF Earliest
<1>2. cursor' \in [Worker -> [name : Nat, id : Nat]]
  <2>1. \A i \in IngredientId : Cursor(i) \in [name : Nat, id : Nat]
    BY NameTypes DEF Cursor
  <2> QED  BY <1>1, <2>1 DEF CatalogTypes, WorkerTypes
<1>3. PICK s, t : stage' = [stage EXCEPT ![c] = s] /\ listed' = [listed EXCEPT ![c] = t]
  BY DEF ListPage
<1>4. s = stage'[c] /\ t = listed'[c]
  BY <1>3 DEF CatalogTypes, WorkerTypes
<1>5. stage' \in [Worker -> Stages] /\ listed' \in [Worker -> [IngredientId -> Nat]]
  BY <1>1, <1>3, <1>4 DEF CatalogTypes, WorkerTypes, Stages
<1>6. UNCHANGED <<ingredient, recipe, recipe_version_ingredient, asked, resolved, inserted, stayed>>
  BY DEF ListPage, catalog_tables
<1> QED  BY <1>2, <1>5, <1>6 DEF CatalogTypes, TableTypes, WorkerTypes

\* A listing whose worker does not step.
LEMMA PagesKept ==
  ASSUME CatalogTypes, NEW d \in Worker, Same(d), StillStayed(d),
         Pages(d), stage[d] = "idle" => cursor[d] = Start /\ listed[d] = [i \in IngredientId |-> 0]
  PROVE  Pages(d)' /\ (stage'[d] = "idle" => cursor'[d] = Start /\ listed'[d] = [i \in IngredientId |-> 0])
<1> SUFFICES ASSUME stage[d] # "idle", asked[d].op = "list" PROVE Pages(d)'
  BY DEF Same, Pages
<1>1. /\ stage'[d] = stage[d] /\ asked'[d] = asked[d] /\ cursor'[d] = cursor[d] /\ listed'[d] = listed[d]
      /\ \A i \in stayed'[d] : i \in stayed[d] /\ ingredient'[i] = ingredient[i]
  BY DEF Same, StillStayed
<1>2. /\ stayed[d] \subseteq Scope(asked[d])
      /\ \A i \in stayed[d] :
           listed[d][i] = IF stage[d] # "told" /\ Beyond(i, cursor[d]) THEN 0 ELSE 1
  BY DEF Pages
<1>3. stayed'[d] \subseteq Scope(asked[d])'
  BY <1>1, <1>2 DEF Scope, Available, Active
<1>4. \A i \in stayed'[d] : Beyond(i, cursor[d])' <=> Beyond(i, cursor[d])
  BY <1>1 DEF Beyond
<1> QED  BY <1>1, <1>2, <1>3, <1>4 DEF Pages

LEMMA OthersListings ==
  ASSUME CatalogTypes, Listings, NEW c \in Worker, \A d \in Worker : d # c => Same(d),
         \A d \in Worker : d # c => StillStayed(d), Pages(c)',
         stage'[c] = "idle" => cursor'[c] = Start /\ listed'[c] = [i \in IngredientId |-> 0]
  PROVE  Listings'
BY PagesKept DEF Listings

LEMMA EndedListings ==
  ASSUME CatalogTypes, Listings, NEW c \in Worker, Ended(c), \A d \in Worker : StillStayed(d)
  PROVE  Listings'
BY EndedWorker, OthersListings DEF Pages

LEMMA ReadsListings ==
  ASSUME CatalogTypes, Works, Indexed, Listings, NEW c \in Worker, Reads(c)
  PROVE  Listings'
<1>1. PICK next \in Stages : Goto(c, next)
  BY DEF Reads, Loads, BeginsResolving, Resolves, CreateMissing, Locks, Validates, Looks, Stages
<1>2. stage[c] # "idle" /\ asked[c].op # "list" /\ UNCHANGED asked
  <2>1. stage[c] = "resolving" => asked[c].op \in ToolOps
    BY DEF Works, Progress, Serves
  <2> QED  BY <2>1 DEF Reads, Loads, BeginsResolving, Resolves, CreateMissing, Locks, Validates, Looks,
                       ToolOps, RecipeOps, AllLooked, AsksForLock
<1>3. /\ next # "idle" /\ UNCHANGED <<ingredient, cursor, listed, stayed>>
      /\ stage'[c] = next /\ \A d \in Worker : d # c => stage'[d] = stage[d]
  BY <1>1 DEF Reads, Loads, BeginsResolving, Resolves, CreateMissing, Locks, Validates, Looks,
              Goto, CatalogTypes, WorkerTypes, catalog_tables, listing
<1>4. \A d \in Worker : d # c => resolved'[d] = resolved[d] /\ inserted'[d] = inserted[d]
  BY DEF Reads, Loads, BeginsResolving, Resolves, CreateMissing, Locks, Validates, Looks,
         CatalogTypes, WorkerTypes
<1>5. (\A d \in Worker : d # c => Same(d)) /\ \A d \in Worker : StillStayed(d)
  BY <1>2, <1>3, <1>4 DEF Same, StillStayed
<1>6. Pages(c)'
  BY <1>2 DEF Pages
<1> QED  BY <1>3, <1>5, <1>6, OthersListings

LEMMA WritesListings ==
  ASSUME CatalogTypes, Works, Listings, NEW c \in Worker, Writes(c)
  PROVE  Listings'
<1>1. Ended(c)
  BY DEF Writes, CreateIngredient, Renames, ArchiveIngredient, CreatesRecipe, ReplaceLines,
         ChangeVersions, ArchiveRecipe, CommitLines
<1> QED  BY <1>1, EndedListings, WritesKeepIngredients DEF StayedTrue

LEMMA RollbackListings ==
  ASSUME CatalogTypes, Listings, NEW c \in Worker, Rollback(c)
  PROVE  Listings'
<1>1. \A d \in Worker : StillStayed(d)
  BY DEF Rollback, StillStayed, catalog_tables
<1> QED  BY <1>1, EndedListings DEF Rollback

LEMMA ReceiveListings ==
  ASSUME CatalogTypes, Listings, NEW c \in Worker, NEW q \in CatalogRequest, Receive(c, q)
  PROVE  Listings'
<1>1. /\ stage'[c] = "open" /\ asked'[c] = q /\ stayed'[c] = IF q.op = "list" THEN Scope(q) ELSE {}
      /\ \A d \in Worker : d # c => Same(d) /\ stayed'[d] = stayed[d]
      /\ UNCHANGED <<ingredient, cursor, listed>>
  BY DEF Receive, CatalogTypes, WorkerTypes, Same, catalog_tables, listing
<1>2. cursor[c] = Start /\ listed[c] = [i \in IngredientId |-> 0]
  BY DEF Receive, Listings
<1>3. \A d \in Worker : d # c => StillStayed(d)
  BY <1>1 DEF StillStayed
<1>4. ASSUME q.op = "list" PROVE Pages(c)'
  <2>1. stayed'[c] \subseteq Scope(asked[c])' /\ stayed'[c] \subseteq IngredientId
    BY <1>1, <1>4 DEF Scope, Available, Active
  <2>2. \A i \in IngredientId : Beyond(i, cursor[c])'
    BY <1>1, <1>2, NameTypes DEF Beyond, Start
  <2> QED  BY <1>1, <1>2, <2>1, <2>2 DEF Pages
<1>5. Pages(c)'
  BY <1>1, <1>4 DEF Pages
<1> QED  BY <1>1, <1>3, <1>5, OthersListings

LEMMA ListPageListings ==
  ASSUME CatalogTypes, Listings, NEW c \in Worker, ListPage(c)
  PROVE  Listings'
<1> DEFINE rows == {i \in Scope(asked[c]) : Beyond(i, cursor[c])}
           items == Earliest(rows)
<1>1. /\ rows \subseteq IngredientId
      /\ \A i \in IngredientId : listed'[c][i] = listed[c][i] + (IF i \in items THEN 1 ELSE 0)
      /\ \/ stage'[c] = "told" /\ items = rows /\ UNCHANGED cursor
         \/ /\ stage'[c] = "paging"
            /\ \E last \in items :
                 /\ cursor' = [cursor EXCEPT ![c] = Cursor(last)]
                 /\ \A i \in items : ~Before(last, i)
                 /\ \A i \in rows \ items : Before(last, i)
  BY PageShown
<1>2. items \subseteq rows
  BY DEF Earliest
<1>3. /\ UNCHANGED <<ingredient, asked, resolved, inserted, stayed>>
      /\ stage[c] \in {"open", "paging"} /\ asked[c].op = "list"
      /\ \A d \in Worker : d # c => stage'[d] = stage[d] /\ cursor'[d] = cursor[d] /\ listed'[d] = listed[d]
  BY DEF ListPage, CatalogTypes, WorkerTypes, catalog_tables
<1>4. (\A d \in Worker : d # c => Same(d)) /\ \A d \in Worker : StillStayed(d)
  BY <1>3 DEF Same, StillStayed
<1>5. /\ stayed[c] \subseteq Scope(asked[c]) /\ stayed[c] \subseteq IngredientId
      /\ \A i \in stayed[c] : listed[c][i] = IF Beyond(i, cursor[c]) THEN 0 ELSE 1
  BY <1>3 DEF Listings, Pages, Scope, Available, Active
<1>6. \A i \in stayed[c] : i \in rows <=> Beyond(i, cursor[c])
  BY <1>5
<1>7. cursor[c] \in [name : Nat, id : Nat]
  BY DEF CatalogTypes, WorkerTypes
<1>8. \A i \in rows : i \in IngredientId /\ Beyond(i, cursor[c])
  BY <1>1
<1> HIDE DEF items, rows
<1>9. \A i \in stayed[c] : listed'[c][i] = IF i \in rows /\ i \notin items THEN 0 ELSE 1
  BY <1>1, <1>2, <1>5, <1>6
<1>10. CASE stage'[c] = "told" /\ items = rows
  BY <1>3, <1>4, <1>5, <1>9, <1>10, OthersListings DEF Pages, Scope, Available, Active
<1>11. CASE stage'[c] = "paging"
            /\ \E last \in items :
                 /\ cursor' = [cursor EXCEPT ![c] = Cursor(last)]
                 /\ \A i \in items : ~Before(last, i)
                 /\ \A i \in rows \ items : Before(last, i)
  <2>1. PICK last \in items :
          /\ cursor' = [cursor EXCEPT ![c] = Cursor(last)]
          /\ \A i \in items : ~Before(last, i)
          /\ \A i \in rows \ items : Before(last, i)
    BY <1>11
  <2>2. cursor'[c] = Cursor(last) /\ last \in IngredientId /\ Beyond(last, cursor[c])
    BY <1>2, <1>8, <2>1 DEF CatalogTypes, WorkerTypes
  <2>3. ASSUME NEW i \in stayed[c]
        PROVE  Beyond(i, cursor[c])' <=> i \in rows /\ i \notin items
    <3>1. i \in IngredientId
      BY <1>5
    <3>2. Beyond(i, cursor[c])' <=> Beyond(i, Cursor(last))
      BY <1>3, <2>2 DEF Beyond
    <3>3. Beyond(i, Cursor(last)) <=> Before(last, i)
      BY <2>2, <3>1, BeyondIsBefore
    <3>4. Before(last, i) => i \in rows
      BY <1>6, <1>7, <2>2, <3>1, BeyondIsBefore
    <3> QED  BY <2>1, <3>2, <3>3, <3>4
  <2>4. Pages(c)'
    <3>1. Scope(asked[c])' = Scope(asked[c])
      BY <1>3 DEF Scope, Available, Active
    <3> QED  BY <1>3, <1>5, <1>9, <1>11, <2>3, <3>1 DEF Pages
  <2> QED  BY <1>4, <1>11, <2>4, OthersListings
<1> QED  BY <1>1, <1>10, <1>11

(***************************************************************************)
(* The unique index, and the names that open transactions have in it.      *)
(***************************************************************************)
LEMMA RowWrittenIndexed ==
  ASSUME CatalogTypes, Indexed, NEW i \in IngredientId, NEW new,
         ingredient' = [ingredient EXCEPT ![i] = new],
         \A j \in IngredientId \ {i} : ~SameKey(ingredient[j], new)
  PROVE  Indexed'
<1>1. ingredient'[i] = new /\ \A j \in IngredientId \ {i} : ingredient'[j] = ingredient[j]
  BY DEF CatalogTypes, TableTypes
<1>2. ASSUME NEW a \in IngredientId, NEW b \in IngredientId, SameKey(ingredient'[a], ingredient'[b])
      PROVE  a = b
  <2>1. SameKey(ingredient'[b], ingredient'[a])
    BY <1>2 DEF SameKey
  <2> QED  BY <1>1, <1>2, <2>1 DEF Indexed
<1> QED  BY <1>2 DEF Indexed

\* What an index entry of a written row must respect.
KeyFree(c, new) ==
  \A d \in Worker \ {c} : \A made \in inserted[d] :
    ~(asked[d].household = new.household /\ made.name = new.name)

LEMMA ReservedKept ==
  ASSUME CatalogTypes, Reserved, NEW c \in Worker, inserted'[c] = {},
         \A d \in Worker : d # c => Same(d),
         \A j \in IngredientId :
           \/ SameKey(ingredient'[j], ingredient[j]) \/ ingredient'[j].archived
           \/ KeyFree(c, ingredient'[j])
  PROVE  Reserved'
<1>1. \A d \in Worker \ {c} : inserted'[d] = inserted[d] /\ asked'[d] = asked[d] /\ resolved'[d] = resolved[d]
  BY DEF Same
<1>2. ASSUME NEW d \in Worker, NEW made \in inserted'[d]
      PROVE  ~Clash(asked[d].household, made.name)'
  <2>1. d # c /\ made \in inserted[d] /\ asked'[d] = asked[d]
    BY <1>1, <1>2
  <2>2. ASSUME NEW j \in IngredientId, ~ingredient'[j].archived,
               ingredient'[j].household = asked[d].household, ingredient'[j].name = made.name
        PROVE  FALSE
    <3>1. ~KeyFree(c, ingredient'[j])
      BY <2>1, <2>2 DEF KeyFree
    <3>2. SameKey(ingredient'[j], ingredient[j])
      BY <2>2, <3>1
    <3>3. j \in Active(asked[d].household) /\ ingredient[j].name = made.name
      BY <2>2, <3>2 DEF SameKey, Active
    <3>4. Clash(asked[d].household, made.name)
      BY <3>3 DEF Clash
    <3> QED  BY <2>1, <3>4 DEF Reserved
  <2> QED  BY <2>1, <2>2 DEF Clash, Active
<1>3. \A d \in Worker \ {c} : Missing(d)' = Missing(d)
  BY <1>1 DEF Missing
<1>4. \A d \in Worker : \A made \in inserted'[d] :
        /\ DOMAIN resolved'[d] = DOMAIN asked'[d].lines
        /\ \A k \in Missing(d)' : asked'[d].lines[k].name # made.name
  BY <1>1, <1>3 DEF Reserved
<1>5. \A a, b \in Worker : \A made \in inserted'[a], other \in inserted'[b] :
        asked'[a].household = asked'[b].household /\ made.name = other.name => made = other
  BY <1>1 DEF Reserved
<1> QED  BY <1>2, <1>4, <1>5 DEF Reserved

\* A single row is written and the request ends.
LEMMA RowWrittenReserved ==
  ASSUME CatalogTypes, Works, Indexed, Reserved, NEW c \in Worker, NEW i \in IngredientId, NEW new,
         ingredient' = [ingredient EXCEPT ![i] = new], new.archived \in BOOLEAN, Ended(c),
         \/ new.archived \/ SameKey(new, ingredient[i])
         \/ KeyFree(c, new) /\ ~Clash(new.household, new.name)
  PROVE  Indexed' /\ Reserved'
<1>1. ingredient'[i] = new /\ \A j \in IngredientId \ {i} : ingredient'[j] = ingredient[j]
  BY DEF CatalogTypes, TableTypes
<1>2. \A j \in IngredientId \ {i} : ~SameKey(ingredient[j], new)
  <2>1. CASE new.archived
    BY <2>1 DEF SameKey
  <2>2. CASE SameKey(new, ingredient[i])
    BY <2>2 DEF SameKey, Indexed
  <2>3. CASE ~Clash(new.household, new.name)
    BY <2>3 DEF SameKey, Clash, Active
  <2> QED  BY <2>1, <2>2, <2>3
<1>3. Indexed'
  BY <1>2, RowWrittenIndexed
<1>4. \A j \in IngredientId : ingredient[j].archived \/ SameKey(ingredient[j], ingredient[j])
  BY DEF SameKey
<1>5. inserted'[c] = {} /\ \A d \in Worker : d # c => Same(d)
  BY EndedWorker
<1>6. Reserved'
  BY <1>1, <1>4, <1>5, ReservedKept
<1> QED  BY <1>3, <1>6

LEMMA CreateIndexed ==
  ASSUME CatalogTypes, Works, Indexed, Reserved, NEW c \in Worker, CreateIngredient(c)
  PROVE  Indexed' /\ Reserved'
<1> DEFINE q == asked[c]
           new == NewIngredient(q.household, q.name, q.dimension)
<1>1. PICK i \in FreeIds : ingredient' = [ingredient EXCEPT ![i] = new]
  BY DEF CreateIngredient, Write
<1>2. i \in IngredientId
  BY DEF FreeIds
<1>3. KeyFree(c, new) /\ ~Clash(new.household, new.name) /\ new.archived = FALSE
  BY DEF CreateIngredient, KeyFree, Settled, NewIngredient
<1>4. Ended(c)
  BY DEF CreateIngredient
<1> HIDE DEF new
<1> QED  BY <1>1, <1>2, <1>3, <1>4, RowWrittenReserved

LEMMA RenameIndexed ==
  ASSUME CatalogTypes, Works, Indexed, Reserved, NEW c \in Worker, Renames(c)
  PROVE  Indexed' /\ Reserved'
<1> DEFINE i == asked[c].id
           new == [ingredient[i] EXCEPT !.name = asked[c].name]
<1>1. /\ i \in IngredientId /\ ingredient[i] # NoIngredient
      /\ ingredient[i].household = asked[c].household
  BY DEF Renames, Works, Progress
<1>2. ingredient[i] \in IngredientRow
  BY <1>1, RowFacts
<1>3. /\ new.household = asked[c].household /\ new.name = asked[c].name
      /\ new.archived = ingredient[i].archived /\ new.archived \in BOOLEAN
  BY <1>1, <1>2 DEF IngredientRow
<1>4. ingredient' = [ingredient EXCEPT ![i] = new] /\ Ended(c)
  BY DEF Renames, Write
<1>5. CASE Reindexed(asked[c])
  <2>1. KeyFree(c, new) /\ ~Clash(new.household, new.name)
    BY <1>3, <1>5 DEF Renames, KeyFree, Settled
  <2> HIDE DEF i, new
  <2> QED  BY <1>1, <1>3, <1>4, <2>1, RowWrittenReserved
<1>6. CASE ~Reindexed(asked[c])
  <2>1. new.archived \/ SameKey(new, ingredient[i])
    BY <1>1, <1>3, <1>6 DEF Reindexed, SameKey
  <2> HIDE DEF i, new
  <2> QED  BY <1>1, <1>3, <1>4, <2>1, RowWrittenReserved
<1> QED  BY <1>5, <1>6

LEMMA ArchiveIndexed ==
  ASSUME CatalogTypes, Works, Indexed, Reserved, NEW c \in Worker, ArchiveIngredient(c)
  PROVE  Indexed' /\ Reserved'
<1> DEFINE i == asked[c].id
           new == [ingredient[i] EXCEPT !.archived = TRUE]
<1>1. i \in IngredientId /\ ingredient[i] # NoIngredient
  BY DEF ArchiveIngredient, Works, Progress
<1>2. ingredient[i] \in IngredientRow
  BY <1>1, RowFacts
<1>3. new.archived = TRUE
  BY <1>2 DEF IngredientRow
<1>4. ingredient' = [ingredient EXCEPT ![i] = new] /\ Ended(c)
  BY DEF ArchiveIngredient, Write
<1> HIDE DEF i, new
<1> QED  BY <1>1, <1>3, <1>4, RowWrittenReserved

LEMMA CommitIndexed ==
  ASSUME CatalogTypes, Works, Indexed, Reserved, NEW c \in Worker, stage[c] # "idle",
         NEW r, NEW version,
         CommitLines(c, r, version)
  PROVE  Indexed' /\ Reserved'
<1>1. \A made \in inserted[c] :
        /\ made.id \in IngredientId
        /\ ingredient'[made.id].household = asked[c].household
        /\ ingredient'[made.id].name = made.name
        /\ ingredient'[made.id].archived = FALSE
  <2>1. \A made \in inserted[c] :
          ingredient'[made.id] = NewIngredient(asked[c].household, made.name, made.dimension)
    BY CommittedRows
  <2>2. \A made \in inserted[c] : made.id \in IngredientId
    BY InsertedIds
  <2>3. \A h, n, d : /\ NewIngredient(h, n, d).household = h /\ NewIngredient(h, n, d).name = n
                     /\ NewIngredient(h, n, d).archived = FALSE
    BY DEF NewIngredient
  <2> QED  BY <2>1, <2>2, <2>3
<1>2. \A i \in IngredientId : (\A made \in inserted[c] : made.id # i) => ingredient'[i] = ingredient[i]
  BY CommittedRows
<1>3. ASSUME NEW made \in inserted[c], NEW j \in IngredientId, ~ingredient[j].archived,
             ingredient[j].household = asked[c].household, ingredient[j].name = made.name
      PROVE  FALSE
  BY <1>3 DEF Reserved, Clash, Active
<1>4. ASSUME NEW i \in IngredientId, NEW j \in IngredientId, SameKey(ingredient'[i], ingredient'[j])
      PROVE  i = j
  <2>1. CASE (\E made \in inserted[c] : made.id = i) /\ \E made \in inserted[c] : made.id = j
    <3>1. PICK a \in inserted[c], b \in inserted[c] : a.id = i /\ b.id = j
      BY <2>1
    <3>2. a.name = b.name
      BY <1>1, <1>4, <3>1 DEF SameKey
    <3> QED  BY <3>1, <3>2 DEF Reserved
  <2>2. CASE (\E made \in inserted[c] : made.id = i) /\ \A made \in inserted[c] : made.id # j
    <3>1. PICK a \in inserted[c] : a.id = i
      BY <2>2
    <3>2. /\ ~ingredient[j].archived /\ ingredient[j].household = asked[c].household
          /\ ingredient[j].name = a.name
      BY <1>1, <1>2, <1>4, <2>2, <3>1 DEF SameKey
    <3> QED  BY <1>3, <3>2
  <2>3. CASE (\A made \in inserted[c] : made.id # i) /\ \E made \in inserted[c] : made.id = j
    <3>1. PICK b \in inserted[c] : b.id = j
      BY <2>3
    <3>2. /\ ~ingredient[i].archived /\ ingredient[i].household = asked[c].household
          /\ ingredient[i].name = b.name
      BY <1>1, <1>2, <1>4, <2>3, <3>1 DEF SameKey
    <3> QED  BY <1>3, <3>2
  <2>4. CASE (\A made \in inserted[c] : made.id # i) /\ \A made \in inserted[c] : made.id # j
    BY <1>2, <1>4, <2>4 DEF Indexed
  <2> QED  BY <2>1, <2>2, <2>3, <2>4
<1>5. ASSUME NEW j \in IngredientId
      PROVE  \/ SameKey(ingredient'[j], ingredient[j]) \/ ingredient'[j].archived
             \/ KeyFree(c, ingredient'[j])
  <2>1. CASE \A made \in inserted[c] : made.id # j
    BY <1>2, <2>1 DEF SameKey
  <2>2. CASE \E made \in inserted[c] : made.id = j
    <3>1. PICK made \in inserted[c] : made.id = j
      BY <2>2
    <3>2. ASSUME NEW d \in Worker \ {c}, NEW other \in inserted[d],
                 asked[d].household = asked[c].household, other.name = made.name
          PROVE  FALSE
      <4>1. other = made
        BY <3>2 DEF Reserved
      <4>2. other.id # made.id
        BY <3>2 DEF Works, Apart
      <4> QED  BY <4>1, <4>2
    <3> QED  BY <1>1, <3>1, <3>2 DEF KeyFree
  <2> QED  BY <2>1, <2>2
<1>6. inserted'[c] = {} /\ \A d \in Worker : d # c => Same(d)
  BY EndedWorker DEF CommitLines
<1>7. Reserved'
  BY <1>5, <1>6, ReservedKept
<1> QED  BY <1>4, <1>7 DEF Indexed

LEMMA TablesStillIndexed ==
  ASSUME Indexed, UNCHANGED ingredient
  PROVE  Indexed'
BY DEF Indexed

\* A request ends or begins, a page is shown: nothing is written.
LEMMA StillReserved ==
  ASSUME CatalogTypes, Reserved, NEW c \in Worker, inserted'[c] = {},
         \A d \in Worker : d # c => Same(d), UNCHANGED ingredient
  PROVE  Reserved'
<1>1. \A j \in IngredientId : SameKey(ingredient'[j], ingredient[j]) \/ ingredient'[j].archived
  BY DEF SameKey
<1> QED  BY <1>1, ReservedKept

LEMMA WritesIndexed ==
  ASSUME CatalogTypes, Works, Indexed, Reserved, NEW c \in Worker, Writes(c)
  PROVE  Indexed' /\ Reserved'
<1>1. CASE CreateIngredient(c) \/ Renames(c) \/ ArchiveIngredient(c)
  BY <1>1, CreateIndexed, RenameIndexed, ArchiveIndexed
<1>2. CASE (\E r \in RecipeId : CreatesRecipe(c, r)) \/ ReplaceLines(c)
  <2>1. stage[c] # "idle"
    BY <1>2 DEF CreatesRecipe, ReplaceLines, AllLooked
  <2> QED  BY <1>2, <2>1, CommitIndexed DEF CreatesRecipe, ReplaceLines
<1>3. CASE ChangeVersions(c) \/ ArchiveRecipe(c)
  <2>1. UNCHANGED ingredient /\ Ended(c)
    BY <1>3 DEF ChangeVersions, ArchiveRecipe
  <2> QED  BY <2>1, EndedWorker, StillReserved, TablesStillIndexed
<1> QED  BY <1>1, <1>2, <1>3 DEF Writes

\* A worker that has inserted nothing, or goes on with what it has.
LEMMA LooksReserved ==
  ASSUME CatalogTypes, Reserved, NEW c \in Worker, UNCHANGED <<ingredient, asked>>,
         \A d \in Worker : d # c => Same(d), inserted'[c] = inserted[c],
         resolved'[c] = resolved[c] \/ inserted[c] = {}
  PROVE  Reserved'
<1>1. CASE inserted[c] = {}
  BY <1>1, StillReserved
<1>2. CASE resolved'[c] = resolved[c]
  <2>1. \A d \in Worker : inserted'[d] = inserted[d] /\ resolved'[d] = resolved[d] /\ asked'[d] = asked[d]
    BY <1>2 DEF Same
  <2>2. \A d \in Worker : Missing(d)' = Missing(d)
    BY <2>1 DEF Missing
  <2>3. \A h, name : Clash(h, name)' <=> Clash(h, name)
    BY DEF Clash, Active
  <2> QED  BY <2>1, <2>2, <2>3 DEF Reserved
<1> QED  BY <1>1, <1>2

LEMMA CreateMissingReserved ==
  ASSUME CatalogTypes, Works, Reserved, NEW c \in Worker, CreateMissing(c)
  PROVE  Reserved'
<1> DEFINE q == asked[c]
           line == FirstMissing(c)
<1>1. /\ AllLooked(c) /\ Missing(c) # {} /\ Goto(c, "resolving") /\ UNCHANGED asked
      /\ Settled(c, q.household, line.name) /\ ~Clash(q.household, line.name)
  BY DEF CreateMissing
<1>3. PICK i \in FreeIds :
        /\ inserted' = [inserted EXCEPT ![c] =
                          @ \cup {[id |-> i, name |-> FirstMissing(c).name, dimension |-> FirstMissing(c).dimension]}]
        /\ resolved' = [resolved EXCEPT ![c] = ResolvedTo(c, i)]
  BY DEF CreateMissing
<1> DEFINE new == [id |-> i, name |-> line.name, dimension |-> line.dimension]
           s == ResolvedTo(c, i)
           m == inserted[c] \cup {new}
<1>4. inserted' = [inserted EXCEPT ![c] = m] /\ resolved' = [resolved EXCEPT ![c] = s]
  BY <1>3 DEF CatalogTypes, WorkerTypes
<1>5. i \in IngredientId /\ i # Omitted
  BY CatalogAssumption DEF FreeIds
<1>6. /\ resolved'[c] = s /\ inserted'[c] = m /\ \A d \in Worker : d # c => Same(d)
      /\ UNCHANGED <<ingredient, asked>>
  <2> HIDE DEF s, m
  <2> QED  BY <1>1, <1>4, LooksSame DEF Stages
<1>7. /\ DOMAIN s = DOMAIN resolved[c]
      /\ \A k \in DOMAIN s :
           /\ k \in Missing(c) /\ q.lines[k].name = line.name => s[k] = i
           /\ ~(k \in Missing(c) /\ q.lines[k].name = line.name) => s[k] = resolved[c][k]
  BY DEF ResolvedTo
<1>8. DOMAIN resolved[c] = DOMAIN q.lines
  <2>1. WellFormed(q) /\ q.op \in ToolOps
    BY <1>1, RequestShape DEF AllLooked, Works, Progress, Serves
  <2>2. q.lines \in Seq(LineType) /\ resolved[c] \in Seq(IngredientId \cup {Omitted})
    BY <2>1 DEF WellFormed, ToolOps, CatalogTypes, WorkerTypes
  <2>3. Len(resolved[c]) = Len(q.lines)
    BY <1>1 DEF AllLooked
  <2> HIDE DEF q
  <2> QED  BY <2>2, <2>3
<1> HIDE DEF s
<1>9. \A k \in Missing(c)' : k \in Missing(c) /\ q.lines[k].name # line.name
  BY <1>5, <1>6, <1>7 DEF Missing
<1>10. /\ new.name = line.name
       /\ \A made \in m : made = new \/ made \in inserted[c]
  OBVIOUS
<1>11. ASSUME NEW made \in inserted[c] PROVE made.name # line.name
  <2>1. \A k \in Missing(c) : q.lines[k].name # made.name
    BY DEF Reserved
  <2> QED  BY <1>1, <2>1, FirstMissingFound
<1> HIDE DEF m, new, line
<1>12. \A d \in Worker \ {c} : inserted'[d] = inserted[d] /\ resolved'[d] = resolved[d] /\ Missing(d)' = Missing(d)
  BY <1>6 DEF Same, Missing
<1>13. asked' = asked /\ asked[c] = q /\ ingredient' = ingredient
  BY <1>6
<1>14. ASSUME NEW d \in Worker, NEW made \in inserted'[d]
       PROVE  /\ ~Clash(asked[d].household, made.name)'
              /\ DOMAIN resolved'[d] = DOMAIN asked[d].lines
              /\ \A k \in Missing(d)' : asked[d].lines[k].name # made.name
  <2>0. \A h, name : Clash(h, name)' <=> Clash(h, name)
    BY <1>13 DEF Clash, Active
  <2>1. CASE d = c
    <3>1. CASE made = new
      BY <1>1, <1>6, <1>7, <1>8, <1>9, <1>10, <1>13, <2>0, <2>1, <3>1
    <3>2. CASE made \in inserted[c]
      BY <1>6, <1>7, <1>8, <1>9, <1>13, <2>0, <2>1, <3>2 DEF Reserved
    <3> QED  BY <1>6, <1>10, <1>14, <2>1, <3>1, <3>2
  <2>2. CASE d # c
    BY <1>12, <1>13, <1>14, <2>0, <2>2 DEF Reserved
  <2> QED  BY <2>1, <2>2
<1>15. \A d \in Worker \ {c} : \A other \in inserted[d] : asked[d].household = q.household => other.name # line.name
  BY <1>1 DEF Settled
<1>16. ASSUME NEW a \in Worker, NEW b \in Worker, NEW made \in inserted'[a], NEW other \in inserted'[b],
              asked[a].household = asked[b].household, made.name = other.name
       PROVE  made = other
  <2>1. made \in inserted[a] \/ (a = c /\ made = new)
    <3>1. CASE a = c
      <4>1. made \in m
        BY <1>6, <3>1
      <4> QED  BY <1>10, <3>1, <4>1
    <3>2. CASE a # c
      BY <1>12, <3>2
    <3> QED  BY <3>1, <3>2
  <2>2. other \in inserted[b] \/ (b = c /\ other = new)
    <3>1. CASE b = c
      <4>1. other \in m
        BY <1>6, <3>1
      <4> QED  BY <1>10, <3>1, <4>1
    <3>2. CASE b # c
      BY <1>12, <3>2
    <3> QED  BY <3>1, <3>2
  <2>3. CASE made \in inserted[a] /\ other \in inserted[b]
    BY <1>16, <2>3 DEF Reserved
  <2>4. CASE a = c /\ made = new /\ other \in inserted[b]
    BY <1>10, <1>11, <1>13, <1>15, <1>16, <2>4
  <2>5. CASE b = c /\ other = new /\ made \in inserted[a]
    BY <1>10, <1>11, <1>13, <1>15, <1>16, <2>5
  <2> QED  BY <2>1, <2>2, <2>3, <2>4, <2>5
<1> QED  BY <1>13, <1>14, <1>16 DEF Reserved

LEMMA ReadsIndexed ==
  ASSUME CatalogTypes, Works, Indexed, Reserved, NEW c \in Worker, Reads(c)
  PROVE  Indexed' /\ Reserved'
<1>1. CASE Loads(c) \/ BeginsResolving(c) \/ Locks(c)
  <2>1. PICK next \in Stages : Goto(c, next) /\ UNCHANGED <<asked, resolved, inserted>>
    BY <1>1 DEF Loads, BeginsResolving, Locks, Looks, Stages
  <2>2. /\ resolved'[c] = resolved[c] /\ inserted'[c] = inserted[c]
        /\ \A d \in Worker : d # c => Same(d)
        /\ UNCHANGED <<ingredient, asked>>
    BY <2>1, LooksOnly
  <2> QED  BY <2>2, LooksReserved, TablesStillIndexed
<1>2. CASE Resolves(c) \/ Validates(c)
  <2>1. PICK next, s : /\ next \in Stages /\ Goto(c, next) /\ UNCHANGED <<asked, inserted>>
                       /\ resolved' = [resolved EXCEPT ![c] = s]
    <3>1. "resolving" \in Stages /\ "validated" \in Stages
      BY DEF Stages
    <3>2. CASE Resolves(c)
      BY <3>1, <3>2 DEF Resolves, CatalogTypes, WorkerTypes
    <3>3. CASE Validates(c)
      BY <3>1, <3>3 DEF Validates
    <3> QED  BY <1>2, <3>2, <3>3
  <2>2. inserted' = [inserted EXCEPT ![c] = inserted[c]]
    BY <2>1 DEF CatalogTypes, WorkerTypes
  <2>3. /\ inserted'[c] = inserted[c] /\ \A d \in Worker : d # c => Same(d)
        /\ UNCHANGED <<ingredient, asked>>
    BY <2>1, <2>2, LooksSame
  <2>4. inserted[c] = {}
    <3>1. CASE Validates(c)
      BY <3>1 DEF Validates, Works, Progress, Blank
    <3>2. CASE Resolves(c)
      <4>1. WellFormed(asked[c]) /\ asked[c].op \in ToolOps
        BY <3>2, RequestShape DEF Resolves, Works, Progress, Serves
      <4>2. asked[c].lines \in Seq(LineType) /\ resolved[c] \in Seq(IngredientId \cup {Omitted})
        BY <4>1 DEF WellFormed, ToolOps, CatalogTypes, WorkerTypes
      <4>3. Len(resolved[c]) < Len(asked[c].lines)
        BY <3>2 DEF Resolves
      <4>4. DOMAIN resolved[c] # DOMAIN asked[c].lines
        BY <4>2, <4>3
      <4> QED  BY <4>4 DEF Reserved
    <3> QED  BY <1>2, <3>1, <3>2
  <2> QED  BY <2>3, <2>4, LooksReserved, TablesStillIndexed
<1>3. CASE CreateMissing(c)
  <2>1. UNCHANGED ingredient
    BY <1>3 DEF CreateMissing, Goto, catalog_tables
  <2> QED  BY <1>3, <2>1, CreateMissingReserved, TablesStillIndexed
<1> QED  BY <1>1, <1>2, <1>3 DEF Reads

LEMMA CatalogInitial ==
  ASSUME CatalogInit
  PROVE  CatalogInv
<1>1. \A i \in IngredientId : ingredient[i] = NoIngredient \/ (ingredient[i] = Initial[i] /\ i \in DOMAIN Initial)
  BY DEF CatalogInit
<1>2. CatalogTypes
  <2>1. ingredient \in [IngredientId -> IngredientRow \cup {NoIngredient}]
    <3>1. \A i \in IngredientId : (IF i \in DOMAIN Initial THEN Initial[i] ELSE NoIngredient)
                                    \in IngredientRow \cup {NoIngredient}
      BY CatalogAssumption
    <3> QED  BY <3>1 DEF CatalogInit
  <2>2. TableTypes
    BY <2>1 DEF CatalogInit, TableTypes
  <2>3. /\ stage \in [Worker -> Stages] /\ inserted \in [Worker -> SUBSET InsertedRow]
        /\ asked \in [Worker -> CatalogRequest \cup {NoRequest}]
        /\ stayed \in [Worker -> SUBSET IngredientId]
    BY DEF CatalogInit, Stages
  <2>4. resolved \in [Worker -> Seq(IngredientId \cup {Omitted})]
    <3>1. <<>> \in Seq(IngredientId \cup {Omitted})
      OBVIOUS
    <3> QED  BY <3>1, Zenon DEF CatalogInit
  <2>5. cursor \in [Worker -> [name : Nat, id : Nat]] /\ listed \in [Worker -> [IngredientId -> Nat]]
    BY DEF CatalogInit, Start
  <2> QED  BY <2>2, <2>3, <2>4, <2>5 DEF CatalogTypes, WorkerTypes
<1>3. Works
  BY DEF CatalogInit, Works, Progress, Blank, Resolution, MissingAgree, Missing, Insertion, Apart
<1>4. Indexed
  <2> SUFFICES ASSUME NEW i \in IngredientId, NEW j \in IngredientId, SameKey(ingredient[i], ingredient[j])
               PROVE  i = j
    BY DEF Indexed
  <2>1. ingredient[i] # NoIngredient /\ ingredient[j] # NoIngredient
    BY DEF SameKey, NoIngredient
  <2> QED  BY <1>1, <2>1, CatalogAssumption
<1>5. Reserved /\ LinesStand /\ LinesFitTheirIngredient
  BY DEF CatalogInit, Reserved, LinesStand, LinesFitTheirIngredient
<1>6. Listings
  BY DEF CatalogInit, Listings, Pages
<1> QED  BY <1>2, <1>3, <1>4, <1>5, <1>6 DEF CatalogInv

LEMMA CatalogStepInv ==
  ASSUME CatalogInv, [CatalogNext]_catalog_vars
  PROVE  CatalogInv'
<1> USE DEF CatalogInv
<1>1. ASSUME NEW c \in Worker, Rollback(c) PROVE CatalogInv'
  <2>1. CatalogTypes' /\ Works' /\ Listings'
    BY <1>1, RollbackTypes, RollbackWorks, RollbackListings
  <2>2. /\ UNCHANGED <<ingredient, recipe, recipe_version_ingredient>>
        /\ inserted'[c] = {} /\ \A d \in Worker : d # c => Same(d)
    BY <1>1, EndedWorker DEF Rollback, catalog_tables
  <2>3. Indexed' /\ Reserved'
    BY <2>2, StillReserved, TablesStillIndexed
  <2>4. LinesStand' /\ LinesFitTheirIngredient'
    BY <2>2 DEF LinesStand, LinesFitTheirIngredient
  <2> QED  BY <2>1, <2>3, <2>4
<1>2. ASSUME NEW c \in Worker, ListPage(c) PROVE CatalogInv'
  <2>1. CatalogTypes' /\ Works' /\ Listings'
    BY <1>2, ListPageTypes, ListPageWorks, ListPageListings
  <2>2. /\ UNCHANGED <<ingredient, recipe, recipe_version_ingredient, asked, inserted, resolved>>
        /\ stage[c] \in {"open", "paging"}
    BY <1>2 DEF ListPage, catalog_tables
  <2>3. inserted[c] = {} /\ \A d \in Worker : d # c => Same(d)
    BY <1>2, <2>2 DEF Works, Progress, Blank, Same, ListPage, CatalogTypes, WorkerTypes
  <2>4. Indexed' /\ Reserved'
    BY <2>2, <2>3, StillReserved, TablesStillIndexed
  <2>5. LinesStand' /\ LinesFitTheirIngredient'
    BY <2>2 DEF LinesStand, LinesFitTheirIngredient
  <2> QED  BY <2>1, <2>4, <2>5
<1>3. ASSUME NEW c \in Worker, Reads(c) PROVE CatalogInv'
  <2>1. CatalogTypes' /\ Works' /\ Listings' /\ Indexed' /\ Reserved'
    BY <1>3, ReadsTypes, ReadsWorks, ReadsListings, ReadsIndexed
  <2>2. UNCHANGED <<ingredient, recipe, recipe_version_ingredient>>
    BY <1>3 DEF Reads, Loads, BeginsResolving, Resolves, CreateMissing, Locks, Validates, Looks,
                Goto, catalog_tables
  <2>3. LinesStand' /\ LinesFitTheirIngredient'
    BY <2>2 DEF LinesStand, LinesFitTheirIngredient
  <2> QED  BY <2>1, <2>3
<1>4. ASSUME NEW c \in Worker, Writes(c) PROVE CatalogInv'
  BY <1>4, WritesTypes, WritesWorks, WritesListings, WritesIndexed, WritesKeepLines
<1>5. ASSUME NEW c \in Worker, NEW q \in CatalogRequest, Receive(c, q) PROVE CatalogInv'
  <2>1. CatalogTypes' /\ Works' /\ Listings'
    BY <1>5, ReceiveTypes, ReceiveWorks, ReceiveListings
  <2>2. /\ UNCHANGED <<ingredient, recipe, recipe_version_ingredient, inserted, resolved>>
        /\ stage[c] = "idle"
    BY <1>5 DEF Receive, catalog_tables
  <2>3. inserted[c] = {} /\ \A d \in Worker : d # c => Same(d)
    BY <1>5, <2>2 DEF Works, Progress, Blank, Same, Receive, CatalogTypes, WorkerTypes, listing
  <2>4. Indexed' /\ Reserved'
    BY <2>2, <2>3, StillReserved, TablesStillIndexed
  <2>5. LinesStand' /\ LinesFitTheirIngredient'
    BY <2>2 DEF LinesStand, LinesFitTheirIngredient
  <2> QED  BY <2>1, <2>4, <2>5
<1>6. CASE UNCHANGED catalog_vars
  BY <1>6 DEF catalog_vars, catalog_tables, worker, listing, CatalogTypes, TableTypes, WorkerTypes,
              Works, Progress, Blank, Serves, OwnsRecipe, Looked, Missing, Resolution, Fits, MissingAgree,
              Insertion, Apart, Indexed, Reserved, Clash, Active, LinesStand, LinesFitTheirIngredient,
              Listings, Pages, Scope, Available, Beyond
<1>7. CASE CatalogNext
  <2>1. PICK c \in Worker : CatalogStep(c) \/ Abort(c) \/ \E q \in CatalogRequest : Receive(c, q)
    BY <1>7 DEF CatalogNext
  <2> QED  BY <2>1, <1>1, <1>2, <1>3, <1>4, <1>5, CatalogStepCases
<1> QED  BY <1>6, <1>7

\* The catalog, its indexes, its listings and the lines of recipes fit together,
\* whatever the workers are in the midst of.
THEOREM CatalogStaysConsistent == CatalogSpec => []CatalogInv
<1>1. CatalogInit => CatalogInv
  BY CatalogInitial
<1>2. CatalogInv /\ [CatalogNext]_catalog_vars => CatalogInv'
  BY CatalogStepInv
<1> QED  BY <1>1, <1>2, PTL DEF CatalogSpec

\* list_ingredients, page by page: an ingredient that stayed as it was from the
\* first page to the last is on exactly one of them.
THEOREM NothingIsSkipped == CatalogSpec => []ListedOnce
<1>1. CatalogInv => ListedOnce
  BY DEF CatalogInv, Listings, Pages, ListedOnce, Works, Progress, Serves
<1> QED  BY <1>1, CatalogStaysConsistent, PTL

(***************************************************************************)
(* Who has a recipe's lock has it alone, so the version it was to change is *)
(* still a draft; and no line is of a version that the recipe has not yet. *)
(***************************************************************************)
Held ==
  /\ recipe_lock \in [RecipeId -> Worker \cup {Nobody}]
  /\ \A c \in Worker : stage[c] \in {"locked", "validated"} =>
       recipe_lock[asked[c].recipe] = c /\ AsDraft(asked[c])
Numbered ==
  \A line \in recipe_version_ingredient : line.version <= recipe[line.recipe].versions

\* One recipe changes at most: one that is new, or one whose lock the worker has.
ChangesOwn(c) ==
  \E r \in RecipeId : \E new :
    /\ recipe' = [recipe EXCEPT ![r] = new]
    /\ \/ recipe[r] = NoRecipe
       \/ new = recipe[r]
       \/ r = asked[c].recipe /\ stage[c] \in {"locked", "validated"}

LEMMA WritesChangeOwn ==
  ASSUME CatalogInv, NEW c \in Worker, Writes(c)
  PROVE  (UNCHANGED recipe \/ ChangesOwn(c)) /\ Ended(c)
<1>1. Ended(c)
  BY DEF Writes, CreateIngredient, Renames, ArchiveIngredient, CreatesRecipe, ReplaceLines,
         ChangeVersions, ArchiveRecipe, CommitLines
<1>2. CASE CreateIngredient(c) \/ Renames(c) \/ ArchiveIngredient(c)
  BY <1>1, <1>2 DEF CreateIngredient, Renames, ArchiveIngredient
<1>3. CASE \E r \in RecipeId : CreatesRecipe(c, r)
  <2>1. ChangesOwn(c)
    BY <1>3 DEF CreatesRecipe, ChangesOwn
  <2> QED  BY <1>1, <2>1
<1>4. CASE ReplaceLines(c)
  <2>1. ChangesOwn(c)
    BY <1>4, ReplacedLines DEF ChangesOwn, CatalogInv
  <2> QED  BY <1>1, <2>1
<1>5. CASE ChangeVersions(c)
  <2>1. ChangesOwn(c)
    BY <1>5, ChangedVersions DEF ChangesOwn, CatalogInv
  <2> QED  BY <1>1, <2>1
<1>6. CASE ArchiveRecipe(c)
  <2>1. stage[c] = "locked" /\ recipe' = [recipe EXCEPT ![asked[c].recipe] =
                                            [recipe[asked[c].recipe] EXCEPT !.archived = TRUE]]
    BY <1>6 DEF ArchiveRecipe
  <2>2. ChangesOwn(c)
    BY <2>1, LockedRecipe DEF ChangesOwn, CatalogInv
  <2> QED  BY <1>1, <2>2
<1> QED  BY <1>2, <1>3, <1>4, <1>5, <1>6 DEF Writes

LEMMA EndedHeld ==
  ASSUME CatalogInv, Held, NEW c \in Worker, Ended(c), UNCHANGED recipe \/ ChangesOwn(c)
  PROVE  Held'
<1>1. /\ recipe_lock' = [r \in RecipeId |-> IF recipe_lock[r] = c THEN Nobody ELSE recipe_lock[r]]
      /\ stage'[c] = "idle" /\ \A d \in Worker : d # c => Same(d)
  BY EndedWorker DEF Ended, CatalogInv
<1>2. recipe_lock' \in [RecipeId -> Worker \cup {Nobody}]
  BY <1>1 DEF Held
<1>3. ASSUME NEW d \in Worker, stage'[d] \in {"locked", "validated"}
      PROVE  recipe_lock'[asked'[d].recipe] = d /\ AsDraft(asked[d])'
  <2> DEFINE mine == asked[d].recipe
  <2>1. d # c /\ stage[d] \in {"locked", "validated"} /\ asked'[d] = asked[d]
    BY <1>1, <1>3 DEF Same
  <2>2. recipe_lock[mine] = d /\ AsDraft(asked[d])
    BY <2>1 DEF Held
  <2>3. mine \in RecipeId /\ recipe[mine] \in RecipeRow
    BY <2>1, LockedRecipe DEF CatalogInv
  <2>4. recipe[mine] # NoRecipe
    BY <2>3, RowFacts DEF CatalogInv
  <2>5. recipe'[mine] = recipe[mine]
    <3>1. ASSUME NEW r \in RecipeId, NEW new, recipe' = [recipe EXCEPT ![r] = new],
                 \/ recipe[r] = NoRecipe
                 \/ new = recipe[r]
                 \/ r = asked[c].recipe /\ stage[c] \in {"locked", "validated"}
          PROVE  recipe'[mine] = recipe[mine]
      <4>1. r = asked[c].recipe /\ stage[c] \in {"locked", "validated"} => recipe_lock[r] = c
        BY DEF Held
      <4> HIDE DEF mine
      <4>2. r # mine \/ new = recipe[r]
        BY <2>1, <2>2, <2>4, <3>1, <4>1
      <4> QED  BY <2>3, <3>1, <4>2 DEF CatalogInv, CatalogTypes, TableTypes
    <3> QED  BY <3>1 DEF ChangesOwn
  <2>6. recipe_lock'[mine] = d
    <3> HIDE DEF mine
    <3> QED  BY <1>1, <2>1, <2>2, <2>3
  <2> QED  BY <2>1, <2>2, <2>5, <2>6 DEF AsDraft
<1> QED  BY <1>2, <1>3 DEF Held

\* A worker that moves on without a lock of its own.
LEMMA StillHeld ==
  ASSUME Held, NEW c \in Worker, UNCHANGED <<recipe, recipe_lock>>,
         \A d \in Worker \ {c} : stage'[d] = stage[d] /\ asked'[d] = asked[d],
         stage'[c] \in {"locked", "validated"} =>
           stage[c] \in {"locked", "validated"} /\ asked'[c] = asked[c]
  PROVE  Held'
BY DEF Held, AsDraft

LEMMA ReadsHeld ==
  ASSUME CatalogInv, Held, NEW c \in Worker, Reads(c)
  PROVE  Held'
<1>1. /\ UNCHANGED <<recipe, asked>> /\ \E next : stage' = [stage EXCEPT ![c] = next]
  BY DEF Reads, Loads, BeginsResolving, Resolves, CreateMissing, Locks, Validates, Looks, Goto,
         catalog_tables
<1>2. \A d \in Worker \ {c} : stage'[d] = stage[d] /\ asked'[d] = asked[d]
  BY <1>1 DEF CatalogInv, CatalogTypes, WorkerTypes
<1>3. CASE Loads(c) \/ BeginsResolving(c) \/ Resolves(c) \/ CreateMissing(c)
  <2>1. UNCHANGED recipe_lock /\ stage'[c] \in {"loaded", "resolving"}
    BY <1>3 DEF Loads, BeginsResolving, Resolves, CreateMissing, Looks, Goto,
                CatalogInv, CatalogTypes, WorkerTypes
  <2> QED  BY <1>1, <1>2, <2>1, StillHeld
<1>4. CASE Validates(c)
  <2>1. UNCHANGED recipe_lock /\ stage[c] = "locked"
    BY <1>4 DEF Validates
  <2> QED  BY <1>1, <1>2, <2>1, StillHeld
<1>5. CASE Locks(c)
  <2> DEFINE r == asked[c].recipe
  <2>1. /\ AsDraft(asked[c]) /\ recipe_lock[r] = Nobody
        /\ recipe_lock' = [recipe_lock EXCEPT ![r] = c]
    BY <1>5 DEF Locks
  <2>2. r \in RecipeId
    <3>1. WellFormed(asked[c]) /\ asked[c].op \in RecipeOps \cup {"mcp_update"}
      BY <1>5, RequestShape DEF Locks, AsksForLock, AllLooked, CatalogInv
    <3> QED  BY <3>1 DEF WellFormed
  <2> HIDE DEF r
  <2>3. recipe_lock' \in [RecipeId -> Worker \cup {Nobody}] /\ recipe_lock'[r] = c
    BY <2>1, <2>2 DEF Held
  <2>4. ASSUME NEW d \in Worker \ {c}, stage'[d] \in {"locked", "validated"}
        PROVE  recipe_lock'[asked'[d].recipe] = d /\ AsDraft(asked[d])'
    <3>1. stage[d] \in {"locked", "validated"} /\ asked'[d] = asked[d]
      BY <1>2, <2>4
    <3>2. recipe_lock[asked[d].recipe] = d /\ AsDraft(asked[d]) /\ asked[d].recipe \in RecipeId
      BY <3>1, LockedRecipe DEF Held, CatalogInv
    <3>3. asked[d].recipe # r
      BY <2>1, <3>2, CatalogAssumption
    <3>4. recipe_lock'[asked[d].recipe] = d
      BY <2>1, <3>2, <3>3 DEF Held
    <3> QED  BY <1>1, <3>1, <3>2, <3>4 DEF AsDraft
  <2>5. recipe_lock'[asked'[c].recipe] = c /\ AsDraft(asked[c])'
    BY <1>1, <2>1, <2>3 DEF r, AsDraft
  <2> QED  BY <2>3, <2>4, <2>5 DEF Held
<1> QED  BY <1>3, <1>4, <1>5 DEF Reads

LEMMA StepHeld ==
  ASSUME CatalogInv, Held, [CatalogNext]_catalog_vars
  PROVE  Held'
<1>1. ASSUME NEW c \in Worker, Rollback(c) PROVE Held'
  BY <1>1, EndedHeld DEF Rollback, catalog_tables
<1>2. ASSUME NEW c \in Worker, ListPage(c) PROVE Held'
  <2>1. /\ UNCHANGED <<recipe, recipe_lock, asked>> /\ stage'[c] \in {"paging", "told"}
        /\ \A d \in Worker \ {c} : stage'[d] = stage[d]
    BY <1>2 DEF ListPage, catalog_tables, CatalogInv, CatalogTypes, WorkerTypes
  <2> QED  BY <2>1, StillHeld
<1>3. ASSUME NEW c \in Worker, NEW q \in CatalogRequest, Receive(c, q) PROVE Held'
  <2>1. /\ UNCHANGED <<recipe, recipe_lock>> /\ stage'[c] = "open"
        /\ \A d \in Worker \ {c} : stage'[d] = stage[d] /\ asked'[d] = asked[d]
    BY <1>3 DEF Receive, catalog_tables, CatalogInv, CatalogTypes, WorkerTypes
  <2> QED  BY <2>1, StillHeld
<1>4. ASSUME NEW c \in Worker, Writes(c) PROVE Held'
  BY <1>4, WritesChangeOwn, EndedHeld
<1>5. CASE UNCHANGED catalog_vars
  BY <1>5 DEF catalog_vars, catalog_tables, worker, Held, AsDraft
<1>6. CASE CatalogNext
  <2>1. PICK c \in Worker : CatalogStep(c) \/ Abort(c) \/ \E q \in CatalogRequest : Receive(c, q)
    BY <1>6 DEF CatalogNext
  <2> QED  BY <2>1, <1>1, <1>2, <1>3, <1>4, ReadsHeld, CatalogStepCases
<1> QED  BY <1>5, <1>6

\* What becomes of the tables in a step.
LEMMA TablesWritten ==
  ASSUME CatalogInv, [CatalogNext]_catalog_vars
  PROVE  \/ UNCHANGED <<ingredient, recipe, recipe_version_ingredient>>
         \/ \E c \in Worker : Writes(c)
<1>1. ASSUME NEW c \in Worker, Rollback(c) \/ ListPage(c) \/ Reads(c)
      PROVE  UNCHANGED <<ingredient, recipe, recipe_version_ingredient>>
  BY <1>1 DEF Rollback, ListPage, Reads, Loads, BeginsResolving, Resolves, CreateMissing, Locks,
              Validates, Looks, Goto, catalog_tables
<1>2. ASSUME NEW c \in Worker, NEW q \in CatalogRequest, Receive(c, q)
      PROVE  UNCHANGED <<ingredient, recipe, recipe_version_ingredient>>
  BY <1>2 DEF Receive, catalog_tables
<1>3. CASE UNCHANGED catalog_vars
  BY <1>3 DEF catalog_vars, catalog_tables
<1>4. CASE CatalogNext
  <2>1. PICK c \in Worker : CatalogStep(c) \/ Abort(c) \/ \E q \in CatalogRequest : Receive(c, q)
    BY <1>4 DEF CatalogNext
  <2> QED  BY <2>1, <1>1, <1>2, CatalogStepCases
<1> QED  BY <1>3, <1>4

\* A commit's lines are of a version that its recipe then has, and the lines it
\* deletes are of a draft.
LEMMA CommitNumbered ==
  ASSUME CatalogInv, Held, Numbered, NEW c \in Worker,
         ReplaceLines(c) \/ \E r \in RecipeId : CreatesRecipe(c, r)
  PROVE  /\ Numbered'
         /\ \A line \in recipe_version_ingredient \ recipe_version_ingredient' :
              line.version \in recipe[line.recipe].drafts
         /\ \E r \in RecipeId, v \in Nat : CommitLines(c, r, v)
<1>1. \E r \in RecipeId, v \in Nat, row \in RecipeRow, published \in BOOLEAN :
        /\ recipe' = [recipe EXCEPT ![r] = WithVersion(row, v, published)]
        /\ CommitLines(c, r, v)
        /\ \/ recipe[r] = NoRecipe
           \/ /\ row = recipe[r]
              /\ v \in row.drafts \/ v = row.versions + 1
  <2>1. CASE ReplaceLines(c)
    <3>1. asked[c].op = "lines" => asked[c].version \in recipe[asked[c].recipe].drafts
      BY <2>1, ReplacedLines DEF Held, AsDraft, CatalogInv
    <3> QED  BY <2>1, <3>1, ReplacedLines DEF CatalogInv
  <2>2. CASE \E r \in RecipeId : CreatesRecipe(c, r)
    <3>1. PICK r \in RecipeId : CreatesRecipe(c, r)
      BY <2>2
    <3> DEFINE bare == [NoRecipe EXCEPT !.household = asked[c].household, !.name = asked[c].name,
                                        !.archived = FALSE]
    <3>2. WellFormed(asked[c]) /\ asked[c].op = "mcp_create"
      BY <3>1, RequestShape DEF CreatesRecipe, AllLooked, CatalogInv
    <3>3. bare \in RecipeRow /\ asked[c].publish \in BOOLEAN
      BY <3>2 DEF WellFormed, RecipeRow, NoRecipe
    <3>4. /\ recipe' = [recipe EXCEPT ![r] = WithVersion(bare, 1, asked[c].publish)]
          /\ CommitLines(c, r, 1) /\ recipe[r] = NoRecipe
      BY <3>1 DEF CreatesRecipe
    <3> HIDE DEF bare
    <3> QED  BY <3>3, <3>4
  <2> QED  BY <2>1, <2>2
<1>2. PICK r \in RecipeId, v \in Nat, row \in RecipeRow, published \in BOOLEAN :
        /\ recipe' = [recipe EXCEPT ![r] = WithVersion(row, v, published)]
        /\ CommitLines(c, r, v)
        /\ \/ recipe[r] = NoRecipe
           \/ /\ row = recipe[r]
              /\ v \in row.drafts \/ v = row.versions + 1
  BY <1>1
<1>3. recipe_version_ingredient' = (recipe_version_ingredient \ LinesOf(r, v)) \cup Lines(c, r, v)
  BY <1>2 DEF CommitLines
<1> DEFINE new == WithVersion(row, v, published)
<1>4. new.versions >= row.versions /\ new.versions >= v /\ row.versions \in Nat /\ new.versions \in Nat
  BY VersionAdded DEF RecipeRow
<1> HIDE DEF new
<1>5. recipe'[r] = new /\ \A x \in RecipeId \ {r} : recipe'[x] = recipe[x]
  BY <1>2 DEF CatalogInv, CatalogTypes, TableTypes, new
<1>6. ASSUME NEW line \in recipe_version_ingredient
      PROVE  /\ line.recipe \in RecipeId /\ line.version \in Nat
             /\ recipe[line.recipe] # NoRecipe /\ line.version <= recipe[line.recipe].versions
  BY DEF CatalogInv, CatalogTypes, TableTypes, RecipeLine, LinesStand, Numbered
<1>7. ASSUME NEW line \in recipe_version_ingredient PROVE line.version <= recipe'[line.recipe].versions
  BY <1>2, <1>4, <1>5, <1>6
<1>8. ASSUME NEW line \in Lines(c, r, v) PROVE line.version <= recipe'[line.recipe].versions
  <2>1. line.recipe = r /\ line.version = v
    BY DEF Lines
  <2> QED  BY <1>4, <1>5, <2>1
<1>9. Numbered'
  BY <1>3, <1>7, <1>8 DEF Numbered
<1>10. ASSUME NEW line \in recipe_version_ingredient \ recipe_version_ingredient'
       PROVE  line.version \in recipe[line.recipe].drafts
  <2>1. line.recipe = r /\ line.version = v
    BY <1>3 DEF LinesOf
  <2> QED  BY <1>2, <1>4, <1>6, <2>1
<1> QED  BY <1>2, <1>9, <1>10

LEMMA StepNumbered ==
  ASSUME CatalogInv, Held, Numbered, [CatalogNext]_catalog_vars
  PROVE  Numbered'
<1>1. CASE UNCHANGED <<recipe, recipe_version_ingredient>>
  BY <1>1 DEF Numbered
<1>2. ASSUME NEW c \in Worker, ReplaceLines(c) \/ \E r \in RecipeId : CreatesRecipe(c, r)
      PROVE  Numbered'
  BY <1>2, CommitNumbered
<1>3. ASSUME NEW c \in Worker, ChangeVersions(c) \/ ArchiveRecipe(c)
      PROVE  Numbered'
  <2> DEFINE r == asked[c].recipe
  <2>1. stage[c] = "locked" /\ UNCHANGED recipe_version_ingredient
    BY <1>3 DEF ChangeVersions, ArchiveRecipe
  <2>2. r \in RecipeId /\ recipe[r] \in RecipeRow
    BY <2>1, LockedRecipe DEF CatalogInv
  <2>3. \E new : recipe' = [recipe EXCEPT ![r] = new] /\ new.versions >= recipe[r].versions
                 /\ new.versions \in Nat
    <3>1. CASE ChangeVersions(c)
      <4>1. PICK v \in Nat, published \in BOOLEAN : recipe' = [recipe EXCEPT ![r] = WithVersion(recipe[r], v, published)]
        BY <3>1, ChangedVersions DEF CatalogInv
      <4>2. /\ WithVersion(recipe[r], v, published).versions >= recipe[r].versions
            /\ WithVersion(recipe[r], v, published).versions \in Nat
        BY <2>2, VersionAdded DEF RecipeRow
      <4> QED  BY <4>1, <4>2
    <3>2. CASE ArchiveRecipe(c)
      <4> DEFINE gone == [recipe[r] EXCEPT !.archived = TRUE]
      <4>1. recipe' = [recipe EXCEPT ![r] = gone]
        BY <3>2 DEF ArchiveRecipe
      <4>2. recipe[r].versions \in Nat /\ gone.versions = recipe[r].versions
        BY <2>2 DEF RecipeRow
      <4> HIDE DEF gone, r
      <4>3. gone.versions >= recipe[r].versions /\ gone.versions \in Nat
        BY <4>2
      <4> QED  BY <4>1, <4>3
    <3> QED  BY <1>3, <3>1, <3>2
  <2>4. PICK new : recipe' = [recipe EXCEPT ![r] = new] /\ new.versions >= recipe[r].versions
                   /\ new.versions \in Nat
    BY <2>3
  <2> HIDE DEF r
  <2>5. recipe'[r] = new /\ \A x \in RecipeId \ {r} : recipe'[x] = recipe[x]
    BY <2>2, <2>4 DEF CatalogInv, CatalogTypes, TableTypes
  <2>6. recipe[r].versions \in Nat
    BY <2>2 DEF RecipeRow
  <2>7. ASSUME NEW line \in recipe_version_ingredient PROVE line.version <= recipe'[line.recipe].versions
    <3>1. line.recipe \in RecipeId /\ line.version \in Nat /\ line.version <= recipe[line.recipe].versions
      BY DEF CatalogInv, CatalogTypes, TableTypes, RecipeLine, Numbered
    <3> QED  BY <2>4, <2>5, <2>6, <3>1
  <2> QED  BY <2>1, <2>7 DEF Numbered
<1>4. ASSUME NEW c \in Worker, Writes(c) PROVE Numbered'
  <2>1. CreateIngredient(c) \/ Renames(c) \/ ArchiveIngredient(c) =>
          UNCHANGED <<recipe, recipe_version_ingredient>>
    BY DEF CreateIngredient, Renames, ArchiveIngredient
  <2> QED  BY <1>1, <1>2, <1>3, <1>4, <2>1 DEF Writes
<1> QED  BY <1>1, <1>4, TablesWritten

\* A new row comes with the answer to its creation or with a line.
LEMMA NewRowHasLine ==
  ASSUME CatalogInv, NEW c \in Worker, Writes(c), NEW i \in IngredientId,
         ingredient[i] = NoIngredient, ingredient'[i] # NoIngredient
  PROVE  \/ asked[c].op = "create" /\ asked'[c] = NoRequest
         \/ \E line \in recipe_version_ingredient' : line.ingredient = i
<1>1. CASE CreateIngredient(c)
  BY <1>1, EndedWorker DEF CreateIngredient, CatalogInv
<1>2. CASE Renames(c) \/ ArchiveIngredient(c)
  <2>1. \E new : ingredient' = [ingredient EXCEPT ![asked[c].id] = new]
    BY <1>2 DEF Renames, ArchiveIngredient, Write
  <2>2. ingredient[asked[c].id] # NoIngredient
    BY <1>2 DEF Renames, ArchiveIngredient, CatalogInv, Works, Progress
  <2> QED  BY <2>1, <2>2 DEF CatalogInv, CatalogTypes, TableTypes
<1>3. CASE ReplaceLines(c) \/ \E r \in RecipeId : CreatesRecipe(c, r)
  <2>1. PICK r, v : CommitLines(c, r, v)
    BY <1>3 DEF ReplaceLines, CreatesRecipe
  <2>2. PICK made \in inserted[c] : made.id = i
    BY <2>1, CommittedRows DEF CatalogInv
  <2>3. PICK k \in DOMAIN resolved[c] : resolved[c][k] = i
    BY <2>2 DEF CatalogInv, Works, Insertion
  <2> DEFINE line == [recipe |-> r, version |-> v, ingredient |-> resolved[c][k],
                      dimension |-> asked[c].lines[k].dimension]
  <2>4. line \in Lines(c, r, v) /\ line.ingredient = i
    BY <2>3 DEF Lines
  <2> HIDE DEF line
  <2>5. Lines(c, r, v) \subseteq recipe_version_ingredient'
    BY <2>1 DEF CommitLines
  <2> QED  BY <2>4, <2>5
<1>4. CASE ChangeVersions(c) \/ ArchiveRecipe(c)
  BY <1>4 DEF ChangeVersions, ArchiveRecipe
<1> QED  BY <1>1, <1>2, <1>3, <1>4 DEF Writes

LEMMA StepCreatesForALine ==
  ASSUME CatalogInv, Held, Numbered, [CatalogNext]_catalog_vars
  PROVE  /\ \A i \in IngredientId : ingredient[i] = NoIngredient /\ ingredient'[i] # NoIngredient =>
              \/ \E c \in Worker : asked[c].op = "create" /\ asked'[c] = NoRequest
              \/ \E line \in recipe_version_ingredient' : line.ingredient = i
         /\ \A line \in recipe_version_ingredient \ recipe_version_ingredient' :
              line.version \in recipe[line.recipe].drafts
<1>1. CASE UNCHANGED <<ingredient, recipe, recipe_version_ingredient>>
  BY <1>1
<1>2. ASSUME NEW c \in Worker, Writes(c)
      PROVE  /\ \A i \in IngredientId : ingredient[i] = NoIngredient /\ ingredient'[i] # NoIngredient =>
                  \/ \E d \in Worker : asked[d].op = "create" /\ asked'[d] = NoRequest
                  \/ \E line \in recipe_version_ingredient' : line.ingredient = i
             /\ \A line \in recipe_version_ingredient \ recipe_version_ingredient' :
                  line.version \in recipe[line.recipe].drafts
  <2>1. \A i \in IngredientId : ingredient[i] = NoIngredient /\ ingredient'[i] # NoIngredient =>
          \/ asked[c].op = "create" /\ asked'[c] = NoRequest
          \/ \E line \in recipe_version_ingredient' : line.ingredient = i
    BY <1>2, NewRowHasLine
  <2>2. CASE UNCHANGED recipe_version_ingredient
    BY <2>1, <2>2
  <2>3. CASE ReplaceLines(c) \/ \E r \in RecipeId : CreatesRecipe(c, r)
    BY <2>1, <2>3, CommitNumbered
  <2> QED
    BY <1>2, <2>2, <2>3
    DEF Writes, CreateIngredient, Renames, ArchiveIngredient, ChangeVersions, ArchiveRecipe
<1> QED  BY <1>1, <1>2, TablesWritten

\* create_recipe and update_recipe: an ingredient appears with the line it was made
\* for or because it was asked for, and lines are only ever deleted from a draft.
THEOREM NoStrayIngredients == CatalogSpec => CreatedForALine
<1>1. CatalogInit => Held /\ Numbered
  BY DEF CatalogInit, Held, Numbered
<1>2. CatalogInv /\ Held /\ Numbered /\ [CatalogNext]_catalog_vars => (Held /\ Numbered)'
  BY StepHeld, StepNumbered
<1>3. CatalogInv /\ Held /\ Numbered /\ [CatalogNext]_catalog_vars =>
        [/\ \A i \in IngredientId : ingredient[i] = NoIngredient /\ ingredient'[i] # NoIngredient =>
              \/ \E c \in Worker : asked[c].op = "create" /\ asked'[c] = NoRequest
              \/ \E line \in recipe_version_ingredient' : line.ingredient = i
         /\ \A line \in recipe_version_ingredient \ recipe_version_ingredient' :
              line.version \in recipe[line.recipe].drafts]_catalog_vars
  BY StepCreatesForALine
<1> QED  BY <1>1, <1>2, <1>3, CatalogStaysConsistent, PTL DEF CatalogSpec, CreatedForALine

\* Every line of a recipe is in a unit of its ingredient's dimension, and the
\* ingredient is the household's or global.
THEOREM LinesFit == CatalogSpec => []LinesFitTheirIngredient
<1>1. CatalogInv => LinesFitTheirIngredient
  BY DEF CatalogInv
<1> QED  BY <1>1, CatalogStaysConsistent, PTL
=============================================================================
