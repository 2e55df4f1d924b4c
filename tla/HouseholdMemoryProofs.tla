----------------------- MODULE HouseholdMemoryProofs -----------------------
(***************************************************************************)
(* What HouseholdMemory promises for any number of workers, diners and     *)
(* memories: a memory is given only to a diner that is active, a late      *)
(* retry is answered with the row of its first attempt, and a profile      *)
(* shows all that stayed while it was read.                                *)
(***************************************************************************)
EXTENDS HouseholdMemory, TLAPS

(***************************************************************************)
(* The inductive invariant.                                                *)
(***************************************************************************)

Named == Updates \cup Archivals

Types ==
  /\ household_diner = [d \in DinerId |-> household_diner[d]]
  /\ household_memory = [m \in MemoryId |-> household_memory[m]]
  /\ \A d \in DinerId : household_diner[d].version \in Nat
  /\ \A m \in MemoryId : household_memory[m].version \in Nat
  /\ diner_lock \in [DinerId -> Call \cup {NoCall}]
  /\ memory_lock \in [MemoryId -> Call \cup {NoCall}]
  /\ pc = [c \in Call |-> pc[c]] /\ request = [c \in Call |-> request[c]]
  /\ seen = [c \in Call |-> seen[c]] /\ write = [c \in Call |-> write[c]]
  /\ profile = [c \in Call |-> profile[c]] /\ steady = [c \in Call |-> steady[c]]
  /\ late = [c \in Call |-> late[c]] /\ answer = [c \in Call |-> answer[c]]
  /\ \A c \in Call : seen[c].version \in Nat

\* A key is used up by the first creation that commits with it.
OneReceipt ==
  \A r, s \in meal_plan_operation : r.op = s.op /\ r.key = s.key => r = s

\* Which requests come to which statement.
Path(c) ==
  LET op == request[c].op IN
  /\ pc[c] \notin {"idle", "told"} => WellFormed(request[c])
  /\ pc[c] \in {"memories", "diners"} => op = "profile"
  /\ pc[c] \in {"replay", "find"} => op = "remember"
  /\ pc[c] \in {"receipt", "again"} => op \in Creations
  /\ pc[c] \in {"load", "lock"} => op \in Named
  /\ pc[c] \in {"name", "member", "link"} => op \in {"create_diner", "update_diner"}
  /\ pc[c] = "scope" => op \in {"create_memory", "remember", "update_memory"}
  /\ pc[c] \in {"flush", "written"} => op \in OfDiner \cup OfMemory

\* From the lock of its row to its commit a worker keeps that row.
Keeps(c) ==
  LET q == request[c] IN
  pc[c] \in {"name", "member", "link", "scope", "flush", "written"} /\ q.op \in Named =>
    IF q.op \in OfDiner THEN diner_lock[q.id] = c
    ELSE memory_lock[q.id] = c /\ household_memory[q.id].version # 0

\* So it does with the diner that a memory is given.
Scoped(c) ==
  pc[c] \in {"flush", "written"} /\ request[c].op \in OfMemory \ Archivals /\ ScopeIsDiner(c) =>
    /\ request[c].changes.diner \in ActiveDiners
    /\ diner_lock[request[c].changes.diner] = c

WrittenDiner(c) ==
  /\ write[c].memory = <<>>
  /\ \E d \in DinerId :
       /\ DOMAIN write[c].diner = {d}
       /\ write[c].diner[d].version \in Nat
       /\ IF request[c].op = "create_diner" THEN Active(write[c].diner[d]) ELSE d = request[c].id

WrittenMemory(c) ==
  LET q == request[c] IN
  /\ write[c].diner = <<>>
  /\ \E m \in MemoryId :
       /\ DOMAIN write[c].memory = {m}
       /\ write[c].memory[m].version \in Nat \ {0}
       /\ IF q.op \in Creations THEN household_memory[m].version = 0 ELSE m = q.id
       /\ \/ write[c].memory[m].diner \in {household_memory[m].diner, Household}
          \/ /\ q.op \notin Archivals /\ ScopeIsDiner(c)
             /\ write[c].memory[m].diner = q.changes.diner

Written(c) ==
  pc[c] = "written" =>
    IF request[c].op \in OfDiner THEN WrittenDiner(c) ELSE WrittenMemory(c)

\* The receipt that a late retry found on arrival is the one it will find.
Replayed(c) ==
  late[c] # 0 =>
    \/ pc[c] = "told" /\ answer[c] = late[c]
    \/ /\ pc[c] \in {"replay", "receipt"} /\ request[c].op \in Creations
       /\ \E r \in Same(request[c]) : r.id = late[c]

\* What stayed is in the profile that was read and still in the tables.
Shown(c) ==
  IF pc[c] = "diners" THEN steady[c] \subseteq profile[c] \cap InProfile
  ELSE IF pc[c] = "told" THEN steady[c] \subseteq profile[c]
  ELSE steady[c] = {}

CreatesMemory(c) == pc[c] = "written" /\ request[c].op \in {"create_memory", "remember"}
OwnMemories ==
  \A c, d \in Call : c # d /\ CreatesMemory(c) /\ CreatesMemory(d)
                       => DOMAIN write[c].memory \cap DOMAIN write[d].memory = {}

Session(c) == Path(c) /\ Keeps(c) /\ Scoped(c) /\ Written(c) /\ Replayed(c) /\ Shown(c)
IInv == Types /\ OneReceipt /\ OwnMemories /\ \A c \in Call : Session(c)
-----------------------------------------------------------------------------
LEMMA OpsAre ==
  /\ Creations = {"create_diner", "create_memory", "remember"}
  /\ Named = {"update_diner", "update_memory", "archive_diner", "archive_memory"}
  /\ Archivals = {"archive_diner", "archive_memory"}
  /\ Updates = {"update_diner", "update_memory"}
  /\ OfDiner = {"create_diner", "update_diner", "archive_diner"}
  /\ OfMemory = {"create_memory", "remember", "update_memory", "archive_memory"}
BY DEF Creations, Named, Archivals, Updates, OfDiner, OfMemory

\* Only who has been answered, or waits for a receipt, has come late.
LEMMA NotLate ==
  ASSUME NEW c \in Call, Session(c), pc[c] \notin {"replay", "receipt", "told"}
  PROVE  late[c] = 0
BY DEF Session, Replayed

\* The receipt of a late retry is the only one of its key.
LEMMA LateReceipt ==
  ASSUME OneReceipt, NEW c \in Call, Session(c), late[c] # 0, pc[c] \in {"replay", "receipt"}
  PROVE  /\ Receipts(request[c]) # {}
         /\ \A r \in Receipts(request[c]) : r \in Same(request[c]) /\ r.id = late[c]
<1>1. PICK s \in Same(request[c]) : s.id = late[c]
  BY DEF Session, Replayed
<1>2. s \in Receipts(request[c]) /\ s \in meal_plan_operation
  BY <1>1 DEF Same, Receipts
<1>3. ASSUME NEW r \in Receipts(request[c]) PROVE r = s
  BY <1>2 DEF Receipts, OneReceipt
<1> QED  BY <1>1, <1>2, <1>3

(***************************************************************************)
(* What a step of another worker leaves of a transaction.                  *)
(***************************************************************************)

LEMMA SessionStays ==
  ASSUME NEW d \in Call, Session(d),
         pc'[d] = pc[d], request'[d] = request[d], write'[d] = write[d],
         profile'[d] = profile[d], late'[d] = late[d], answer'[d] = answer[d],
         \A x \in DinerId : diner_lock[x] = d => diner_lock'[x] = d,
         \A m \in MemoryId : memory_lock[m] = d => memory_lock'[m] = d,
         \A x \in ActiveDiners : diner_lock[x] = d => x \in ActiveDiners',
         \A m \in MemoryId : memory_lock[m] = d /\ household_memory[m].version # 0
                             => household_memory'[m] = household_memory[m],
         CreatesMemory(d) => \A m \in MemoryId \cap DOMAIN write[d].memory :
                               household_memory'[m] = household_memory[m],
         meal_plan_operation \subseteq meal_plan_operation',
         \/ steady'[d] = steady[d] \cap InProfile'
         \/ steady'[d] = steady[d] /\ InProfile' = InProfile
  PROVE  Session(d)'
<1> DEFINE q == request[d]
<1>1. Path(d)'
  BY DEF Session, Path, WellFormed
<1>2. Keeps(d)'
  <2>1. SUFFICES ASSUME pc[d] \in {"name", "member", "link", "scope", "flush", "written"},
                        q.op \in Named
                 PROVE  IF q.op \in OfDiner THEN diner_lock'[q.id] = d
                        ELSE memory_lock'[q.id] = d /\ household_memory'[q.id].version # 0
    BY DEF Keeps
  <2>2. q.id \in IF q.op \in OfDiner THEN DinerId ELSE MemoryId
    BY <2>1 DEF Session, Path, WellFormed, Named
  <2>3. IF q.op \in OfDiner THEN diner_lock[q.id] = d
        ELSE memory_lock[q.id] = d /\ household_memory[q.id].version # 0
    BY <2>1 DEF Session, Keeps
  <2> QED  BY <2>2, <2>3
<1>3. Scoped(d)'
  <2>1. ScopeIsDiner(d)' <=> ScopeIsDiner(d)
    BY DEF ScopeIsDiner, Given
  <2>2. ActiveDiners \subseteq DinerId
    BY DEF ActiveDiners
  <2> QED  BY <2>1, <2>2 DEF Session, Scoped
<1>4. Written(d)'
  <2>1. SUFFICES ASSUME pc[d] = "written"
                 PROVE  Written(d)'
    BY DEF Written
  <2>2. CASE q.op \in OfDiner
    BY <2>1, <2>2 DEF Session, Written, WrittenDiner, Active
  <2>3. CASE q.op \notin OfDiner
    <3>1. WrittenMemory(d)
      BY <2>1, <2>3 DEF Session, Written
    <3>2. PICK m \in MemoryId :
            /\ DOMAIN write[d].memory = {m}
            /\ write[d].memory[m].version \in Nat \ {0}
            /\ IF q.op \in Creations THEN household_memory[m].version = 0 ELSE m = q.id
            /\ \/ write[d].memory[m].diner \in {household_memory[m].diner, Household}
               \/ /\ q.op \notin Archivals /\ ScopeIsDiner(d)
                  /\ write[d].memory[m].diner = q.changes.diner
      BY <3>1 DEF WrittenMemory
    <3>3. household_memory'[m] = household_memory[m]
      <4>1. CASE q.op \in Creations
        <5>1. CreatesMemory(d)
          BY <2>1, <2>3, <4>1, OpsAre DEF CreatesMemory
        <5> QED  BY <3>2, <5>1
      <4>2. CASE q.op \notin Creations
        <5>1. q.op \in Named
          BY <2>1, <2>3, <4>2, OpsAre DEF Session, Path
        <5>2. memory_lock[m] = d /\ household_memory[m].version # 0
          BY <2>1, <2>3, <3>2, <4>2, <5>1 DEF Session, Keeps
        <5> QED  BY <5>2
      <4> QED  BY <4>1, <4>2
    <3>4. ScopeIsDiner(d)' <=> ScopeIsDiner(d)
      BY DEF ScopeIsDiner, Given
    <3> QED  BY <2>3, <3>1, <3>2, <3>3, <3>4 DEF Written, WrittenMemory
  <2> QED  BY <2>2, <2>3
<1>5. Replayed(d)'
  <2>1. Same(q) \subseteq Same(q)'
    BY DEF Same, Receipts
  <2> QED  BY <2>1 DEF Session, Replayed
<1>6. Shown(d)'
  BY DEF Session, Shown
<1> QED  BY <1>1, <1>2, <1>3, <1>4, <1>5, <1>6 DEF Session

\* The other workers keep their transactions and their locks.
Aside(c) ==
  /\ \A d \in Call \ {c} :
       /\ pc'[d] = pc[d] /\ request'[d] = request[d] /\ write'[d] = write[d]
       /\ profile'[d] = profile[d] /\ late'[d] = late[d] /\ answer'[d] = answer[d]
  /\ \A x \in DinerId : diner_lock[x] \in Call \ {c} => diner_lock'[x] = diner_lock[x]
  /\ \A m \in MemoryId : memory_lock[m] \in Call \ {c} => memory_lock'[m] = memory_lock[m]

SteadyAside(c) == \A d \in Call \ {c} : steady'[d] = steady[d]

\* A step of c that leaves the rows alone has to account for c only.
LEMMA WorkerStep ==
  ASSUME IInv, NEW c \in Call, Aside(c), SteadyAside(c), UNCHANGED rows,
         Types', Session(c)',
         CreatesMemory(c)' =>
           \A d \in Call \ {c} :
             CreatesMemory(d) => DOMAIN write'[c].memory \cap DOMAIN write[d].memory = {}
  PROVE  IInv'
<1>1. InProfile' = InProfile /\ ActiveDiners' = ActiveDiners
  BY DEF InProfile, ActiveMemories, ActiveDiners, rows
<1>2. ASSUME NEW d \in Call PROVE Session(d)'
  <2>1. CASE d = c
    BY <2>1
  <2>2. CASE d # c
    <3>1. Session(d)
      BY DEF IInv
    <3> QED  BY <1>1, <2>2, <3>1, SessionStays DEF Aside, SteadyAside, rows
  <2> QED  BY <2>1, <2>2
<1>3. OwnMemories'
  <2>1. ASSUME NEW d \in Call \ {c} PROVE CreatesMemory(d)' <=> CreatesMemory(d)
    BY DEF Aside, CreatesMemory
  <2>2. SUFFICES ASSUME NEW d \in Call, NEW e \in Call, d # e,
                        CreatesMemory(d)', CreatesMemory(e)'
                 PROVE  DOMAIN write'[d].memory \cap DOMAIN write'[e].memory = {}
    BY DEF OwnMemories
  <2>3. CASE d # c /\ e # c
    BY <2>1, <2>2, <2>3 DEF IInv, OwnMemories, Aside
  <2>4. CASE d = c
    BY <2>1, <2>2, <2>4 DEF Aside
  <2>5. CASE e = c
    BY <2>1, <2>2, <2>5 DEF Aside
  <2> QED  BY <2>3, <2>4, <2>5
<1>4. OneReceipt'
  BY DEF IInv, OneReceipt, rows
<1> QED  BY <1>2, <1>3, <1>4 DEF IInv
-----------------------------------------------------------------------------
LEMMA InitIInv == Init => IInv
<1> SUFFICES ASSUME Init PROVE IInv
  OBVIOUS
<1> USE DEF Init
<1>1. Types
  BY DEF Types, NoDiner, NoMemory
<1>2. OneReceipt /\ OwnMemories
  BY DEF OneReceipt, OwnMemories, CreatesMemory
<1>3. ASSUME NEW c \in Call PROVE Session(c)
  BY DEF Session, Path, Keeps, Scoped, Written, Replayed, Shown
<1> QED  BY <1>1, <1>2, <1>3 DEF IInv

(***************************************************************************)
(* The ends of a transaction.                                              *)
(***************************************************************************)

LEMMA EndIsAside ==
  ASSUME Types, NEW c \in Call, EndTransaction(c)
  PROVE  /\ diner_lock' \in [DinerId -> Call \cup {NoCall}]
         /\ memory_lock' \in [MemoryId -> Call \cup {NoCall}]
         /\ \A x \in DinerId : diner_lock[x] \in Call \ {c} => diner_lock'[x] = diner_lock[x]
         /\ \A m \in MemoryId : memory_lock[m] \in Call \ {c} => memory_lock'[m] = memory_lock[m]
         /\ seen' = [d \in Call |-> seen'[d]] /\ write' = [d \in Call |-> write'[d]]
         /\ \A d \in Call \ {c} : write'[d] = write[d]
         /\ \A d \in Call : seen'[d].version \in Nat
<1>1. DOMAIN diner_lock = DinerId /\ DOMAIN memory_lock = MemoryId
  BY DEF Types
<1>2. /\ diner_lock' = [x \in DinerId |-> IF diner_lock[x] = c THEN NoCall ELSE diner_lock[x]]
      /\ memory_lock' = [m \in MemoryId |-> IF memory_lock[m] = c THEN NoCall ELSE memory_lock[m]]
  BY <1>1 DEF EndTransaction, Released
<1>3. \A d \in Call : seen'[d].version \in Nat
  BY DEF EndTransaction, Types, NoDiner
<1> QED  BY <1>2, <1>3 DEF EndTransaction, Types

\* An answer is an end; late retries have to be told their row.
LEMMA TellStep ==
  ASSUME IInv, NEW c \in Call, NEW id, Tell(c, id),
         pc[c] \notin {"idle", "diners", "told"},
         late[c] # 0 => id = late[c]
  PROVE  IInv'
<1> USE DEF Tell, Answered
<1>1. Types /\ Session(c)
  BY DEF IInv
<1>2. Aside(c) /\ SteadyAside(c) /\ UNCHANGED rows
  BY <1>1, EndIsAside DEF Aside, SteadyAside, Types
<1>3. Types'
  BY <1>1, EndIsAside DEF Types, rows
<1>4. pc'[c] = "told" /\ answer'[c] = id
  BY <1>1 DEF Types
<1>5. Path(c)' /\ Keeps(c)' /\ Scoped(c)' /\ Written(c)'
  BY <1>4 DEF Path, Keeps, Scoped, Written
<1>6. Replayed(c)'
  BY <1>4 DEF Replayed
<1>7. Shown(c)'
  BY <1>1, <1>4 DEF Session, Shown
<1> QED  BY <1>2, <1>3, <1>4, <1>5, <1>6, <1>7, WorkerStep DEF CreatesMemory, Session

LEMMA RefuseStep ==
  ASSUME IInv, NEW c \in Call, Refuse(c),
         pc[c] \notin {"idle", "replay", "receipt", "diners", "told"}
  PROVE  IInv'
BY NotLate, TellStep DEF Refuse, IInv

LEMMA ForgetStep ==
  ASSUME IInv, NEW c \in Call, Forget(c)
  PROVE  IInv'
<1> USE DEF Forget
<1>1. Types
  BY DEF IInv
<1>2. Aside(c) /\ SteadyAside(c) /\ UNCHANGED rows
  BY <1>1, EndIsAside DEF Aside, SteadyAside, Types
<1>3. Types'
  BY <1>1, EndIsAside DEF Types, rows
<1>4. pc'[c] = "idle" /\ late'[c] = 0 /\ steady'[c] = {}
  BY <1>1 DEF Types
<1>5. Session(c)'
  BY <1>4 DEF Session, Path, Keeps, Scoped, Written, Replayed, Shown
<1> QED  BY <1>2, <1>3, <1>4, <1>5, WorkerStep DEF CreatesMemory

\* The rollback of a failed insertion.
LEMMA FailStep ==
  ASSUME IInv, NEW c \in Call, Fail(c), pc[c] \in {"flush", "written"}
  PROVE  IInv'
<1>1. CASE request[c].op \in Creations /\ request[c].key # NoKey
  <2>1. /\ pc' = [pc EXCEPT ![c] = "again"] /\ EndTransaction(c)
        /\ UNCHANGED <<rows, member, request, history>>
    BY <1>1 DEF Fail
  <2>2. Types /\ Session(c)
    BY DEF IInv
  <2>3. Aside(c) /\ SteadyAside(c) /\ UNCHANGED rows
    BY <2>1, <2>2, EndIsAside DEF Aside, SteadyAside, Types, history
  <2>4. Types'
    BY <2>1, <2>2, EndIsAside DEF Types, rows, history
  <2>5. pc'[c] = "again" /\ late'[c] = 0 /\ steady'[c] = {} /\ request'[c] = request[c]
    BY <2>1, <2>2, NotLate DEF Types, history, Session, Shown
  <2>6. WellFormed(request[c])
    BY <2>2 DEF Session, Path
  <2>7. Path(c)'
    BY <1>1, <2>5, <2>6 DEF Path, WellFormed
  <2>8. Session(c)'
    BY <2>5, <2>7 DEF Session, Keeps, Scoped, Written, Replayed, Shown
  <2> QED  BY <2>3, <2>4, <2>5, <2>8, WorkerStep DEF CreatesMemory
<1>2. CASE ~(request[c].op \in Creations /\ request[c].key # NoKey)
  BY <1>2, RefuseStep DEF Fail
<1> QED  BY <1>1, <1>2
-----------------------------------------------------------------------------
(***************************************************************************)
(* The statements of a transaction.                                        *)
(***************************************************************************)

LEMMA FirstStepIs ==
  ASSUME NEW q, WellFormed(q)
  PROVE  /\ FirstStep(q) = "memories" => q.op = "profile"
         /\ FirstStep(q) = "replay" => q.op = "remember"
         /\ FirstStep(q) = "receipt" => q.op \in Creations
         /\ FirstStep(q) \in {"load", "lock"} => q.op \in Named
         /\ FirstStep(q) \in {"memories", "replay", "receipt", "load", "lock"}
         /\ q.op \in Creations => FirstStep(q) \in {"replay", "receipt"}
<1> USE OpsAre
<1>1. q.op \in {"profile", "remember"} \cup (Creations \ {"remember"}) \cup Named
  BY DEF WellFormed
<1>2. CASE q.op = "profile"
  <2>1. FirstStep(q) = "memories"
    BY <1>2 DEF FirstStep
  <2> QED  BY <1>2, <2>1
<1>3. CASE q.op = "remember"
  <2>1. FirstStep(q) = "replay"
    BY <1>3 DEF FirstStep
  <2> QED  BY <1>3, <2>1
<1>4. CASE q.op \in Creations \ {"remember"}
  <2>1. FirstStep(q) = "receipt"
    BY <1>4 DEF FirstStep
  <2> QED  BY <1>4, <2>1
<1>5. CASE q.op \in Named
  <2>1. FirstStep(q) = IF q.mcp THEN "load" ELSE "lock"
    BY <1>5 DEF FirstStep
  <2> QED  BY <1>5, <2>1
<1> QED  BY <1>1, <1>2, <1>3, <1>4, <1>5

LEMMA ReceiveStep ==
  ASSUME IInv, NEW c \in Call, NEW q \in Request, Receive(c, q)
  PROVE  IInv'
<1> USE DEF Receive
<1>1. Types /\ Session(c)
  BY DEF IInv
<1>2. Aside(c) /\ SteadyAside(c) /\ UNCHANGED rows
  BY <1>1 DEF Aside, SteadyAside, Types
<1>3. Types'
  BY <1>1 DEF Types, rows
<1>4. pc'[c] = FirstStep(q) /\ request'[c] = q /\ steady'[c] = {}
  BY <1>1 DEF Types, Session, Shown
<1>5. WellFormed(q)
  BY MemoryAssumption
<1>6. WellFormed(q)'
  BY <1>5 DEF WellFormed
<1>7. Path(c)' /\ Keeps(c)' /\ Scoped(c)' /\ Written(c)' /\ Shown(c)'
  BY <1>4, <1>5, <1>6, FirstStepIs DEF Path, Keeps, Scoped, Written, Shown
<1>8. Replayed(c)'
  <2>1. late'[c] = IF q.op \in Creations /\ Same(q) # {} THEN (CHOOSE r \in Same(q) : TRUE).id ELSE 0
    BY <1>1 DEF Types
  <2>2. Same(q)' = Same(q)
    BY DEF Same, Receipts, rows
  <2>3. SUFFICES ASSUME late'[c] # 0
                 PROVE  /\ pc'[c] \in {"replay", "receipt"} /\ q.op \in Creations
                        /\ \E r \in Same(q) : r.id = late'[c]
    BY <1>4, <2>2 DEF Replayed
  <2> QED  BY <1>4, <1>5, <2>1, <2>3, FirstStepIs
<1> QED  BY <1>2, <1>3, <1>4, <1>5, <1>7, <1>8, WorkerStep, FirstStepIs DEF CreatesMemory, Session

\* A statement that reads and goes on.
LEMMA ContinueStep ==
  ASSUME IInv, NEW c \in Call, NEW step, Continue(c, step),
         late[c] = 0, pc[c] \notin {"idle", "diners", "told"},
         step \in {"find", "name", "scope", "member", "link", "flush"},
         (Path(c) /\ Keeps(c) /\ Scoped(c))'
  PROVE  IInv'
<1> USE DEF Continue, history
<1>1. Types /\ Session(c)
  BY DEF IInv
<1>2. Aside(c) /\ SteadyAside(c) /\ UNCHANGED rows
  BY <1>1 DEF Aside, SteadyAside, Types
<1>3. Types'
  BY <1>1 DEF Types, rows
<1>4. pc'[c] = step /\ late'[c] = 0 /\ steady'[c] = {}
  BY <1>1 DEF Types, Session, Shown
<1>5. Written(c)' /\ Replayed(c)' /\ Shown(c)'
  BY <1>4 DEF Written, Replayed, Shown
<1> QED  BY <1>2, <1>3, <1>4, <1>5, WorkerStep DEF CreatesMemory, Session

LEMMA LookupStep ==
  ASSUME IInv, NEW c \in Call, LookupByName(c) \/ LookupReceipt(c)
  PROVE  IInv'
<1> DEFINE q == request[c]
<1>1. Types /\ Session(c) /\ OneReceipt /\ pc[c] \in {"replay", "receipt"}
  BY DEF IInv, LookupByName, LookupReceipt
<1>2. WellFormed(q)
  BY <1>1 DEF Session, Path
<1>4. CASE Receipts(q) = {}
  <2>1. late[c] = 0
    BY <1>1, <1>4, LateReceipt
  <2>2. PICK step \in {"find", "name", "scope"} :
          /\ Continue(c, step)
          /\ step = "find" => q.op = "remember"
          /\ step = "name" => q.op = "create_diner"
          /\ step = "scope" => q.op \in {"create_memory", "remember"}
          /\ q.op \in Creations
    BY <1>1, <1>4, OpsAre DEF LookupByName, LookupReceipt, Session, Path
  <2>3. pc'[c] = step /\ request'[c] = q
    BY <1>1, <2>2 DEF Continue, Types
  <2>4. Path(c)' /\ Keeps(c)' /\ Scoped(c)'
    BY <1>2, <2>2, <2>3, OpsAre DEF Path, Keeps, Scoped, WellFormed
  <2> QED  BY <1>1, <2>1, <2>2, <2>4, ContinueStep
<1>5. CASE Receipts(q) # {}
  <2>1. PICK r \in Receipts(q) : IF r \in Same(q) THEN Tell(c, r.id) ELSE Refuse(c)
    BY <1>5 DEF LookupByName, LookupReceipt
  <2>2. late[c] # 0 => r \in Same(q) /\ r.id = late[c]
    BY <1>1, LateReceipt
  <2> QED  BY <1>1, <2>1, <2>2, TellStep DEF Refuse
<1> QED  BY <1>4, <1>5

LEMMA FindStep ==
  ASSUME IInv, NEW c \in Call, FindDiner(c)
  PROVE  IInv'
<1> USE DEF FindDiner, history
<1>1. Types /\ Session(c)
  BY DEF IInv
<1>2. Aside(c) /\ SteadyAside(c) /\ UNCHANGED rows
  BY <1>1 DEF Aside, SteadyAside, Types
<1>3. Types'
  BY <1>1 DEF Types, rows
<1>4. pc'[c] = "receipt" /\ late'[c] = 0 /\ steady'[c] = {}
  BY <1>1, NotLate DEF Types, Session, Shown
<1>5. PICK d : request' = [request EXCEPT ![c].changes.diner = d]
  OBVIOUS
<1>6. WellFormed(request[c]) /\ request[c].op = "remember"
  BY <1>1 DEF Session, Path
<1>7. request'[c] = [request[c] EXCEPT !.changes = [@ EXCEPT !.diner = d]]
  BY <1>1, <1>5 DEF Types
<1>8. request'[c].op = "remember" /\ DOMAIN request'[c].changes = DOMAIN request[c].changes
  BY <1>6, <1>7
<1>9. Path(c)'
  BY <1>4, <1>6, <1>8, OpsAre DEF Path, WellFormed
<1>10. Session(c)'
  BY <1>4, <1>9 DEF Session, Keeps, Scoped, Written, Replayed, Shown
<1> QED  BY <1>2, <1>3, <1>4, <1>10, WorkerStep DEF CreatesMemory

LEMMA LoadStep ==
  ASSUME IInv, NEW c \in Call, Load(c)
  PROVE  IInv'
<1> USE DEF Load, history
<1>1. Types /\ Session(c)
  BY DEF IInv
<1>2. Aside(c) /\ SteadyAside(c) /\ UNCHANGED rows
  BY <1>1 DEF Aside, SteadyAside, Types
<1>3. WellFormed(request[c]) /\ request[c].op \in Named
  BY <1>1 DEF Session, Path
<1>4. RowOf(request[c]).version \in Nat
  BY <1>1, <1>3 DEF RowOf, Table, WellFormed, Types, Named
<1>5. Types'
  BY <1>1, <1>4 DEF Types, rows
<1>6. pc'[c] = "lock" /\ late'[c] = 0 /\ steady'[c] = {} /\ request'[c] = request[c]
  BY <1>1, NotLate DEF Types, Session, Shown
<1>7. Path(c)'
  BY <1>3, <1>6 DEF Path, WellFormed
<1>8. Session(c)'
  BY <1>6, <1>7 DEF Session, Keeps, Scoped, Written, Replayed, Shown
<1> QED  BY <1>2, <1>5, <1>6, <1>8, WorkerStep DEF CreatesMemory

LEMMA LockRowStep ==
  ASSUME IInv, NEW c \in Call, LockRow(c)
  PROVE  IInv'
<1> USE DEF LockRow, history
<1> DEFINE q == request[c]
<1>1. Types /\ Session(c) /\ NoCall \notin Call
  BY MemoryAssumption DEF IInv
<1>2. WellFormed(q) /\ q.op \in Named
  BY <1>1 DEF Session, Path
<1>3. q.id \in IF q.op \in OfDiner THEN DinerId ELSE MemoryId
  BY <1>2 DEF WellFormed, Named
<1>4. Aside(c) /\ SteadyAside(c) /\ UNCHANGED rows
  BY <1>1, <1>3 DEF Aside, SteadyAside, Types, RowFree, DinerFree, MemoryFree
<1>5. Types'
  BY <1>1 DEF Types, rows
<1>6. /\ pc'[c] = IF q.op \in Archivals THEN "flush"
                  ELSE IF q.op \in OfDiner THEN "name" ELSE "scope"
      /\ late'[c] = 0 /\ steady'[c] = {} /\ request'[c] = q
  BY <1>1, NotLate DEF Types, Session, Shown
<1>7. Path(c)'
  <2>1. q.op \in Archivals => q.op \in OfDiner \cup OfMemory
    BY OpsAre
  <2>2. q.op \in OfDiner \ Archivals => q.op = "update_diner"
    BY <1>2, OpsAre
  <2>3. q.op \notin OfDiner \cup Archivals => q.op = "update_memory"
    BY <1>2, OpsAre
  <2> QED  BY <1>2, <1>6, <2>1, <2>2, <2>3 DEF Path, WellFormed
<1>8. Keeps(c)'
  <2>1. CASE q.op \in OfDiner
    BY <1>1, <1>3, <1>6, <2>1 DEF Keeps, Types
  <2>2. CASE q.op \notin OfDiner
    <3>1. household_memory[q.id].version # 0
      BY <1>1, <1>3, <2>2 DEF CanChange, Active, RowOf, Table, Types
    <3> QED  BY <1>1, <1>3, <1>6, <2>2, <3>1 DEF Keeps, Types, rows
  <2> QED  BY <2>1, <2>2
<1>9. Scoped(c)' /\ Written(c)' /\ Replayed(c)' /\ Shown(c)'
  BY <1>6 DEF Scoped, Written, Replayed, Shown
<1> QED  BY <1>4, <1>5, <1>6, <1>7, <1>8, <1>9, WorkerStep DEF CreatesMemory, Session

LEMMA CheckStep ==
  ASSUME IInv, NEW c \in Call, CheckName(c) \/ CheckMember(c) \/ CheckLink(c)
  PROVE  IInv'
<1>1. Types /\ Session(c) /\ pc[c] \in {"name", "member", "link"} /\ late[c] = 0
  BY NotLate DEF IInv, CheckName, CheckMember, CheckLink
<1>2. Refuse(c) \/ \E step \in {"member", "link", "flush"} : Continue(c, step)
  BY DEF CheckName, CheckMember, CheckLink
<1>3. CASE Refuse(c)
  BY <1>1, <1>3, RefuseStep
<1>4. ASSUME NEW step \in {"member", "link", "flush"}, Continue(c, step)
      PROVE  IInv'
  <2>1. /\ pc'[c] = step /\ request'[c] = request[c]
        /\ UNCHANGED <<diner_lock, memory_lock, household_memory>>
    BY <1>1, <1>4 DEF Continue, Types, rows
  <2>2. WellFormed(request[c]) /\ request[c].op \in {"create_diner", "update_diner"}
    BY <1>1 DEF Session, Path
  <2>3. Path(c)'
    BY <2>1, <2>2, OpsAre DEF Path, WellFormed
  <2>4. Keeps(c)'
    BY <1>1, <2>1 DEF Session, Keeps
  <2>5. Scoped(c)'
    BY <2>1, <2>2, OpsAre DEF Scoped
  <2> QED  BY <1>1, <1>4, <2>3, <2>4, <2>5, ContinueStep
<1> QED  BY <1>2, <1>3, <1>4

LEMMA LockScopeStep ==
  ASSUME IInv, NEW c \in Call, LockScope(c)
  PROVE  IInv'
<1> DEFINE q == request[c]
           d == q.changes.diner
<1>1. Types /\ Session(c) /\ pc[c] = "scope" /\ late[c] = 0 /\ NoCall \notin Call
  BY NotLate, MemoryAssumption DEF IInv, LockScope
<1>2. WellFormed(q) /\ q.op \in {"create_memory", "remember", "update_memory"}
  BY <1>1 DEF Session, Path
<1>3. q.op \in OfMemory \ Archivals /\ q.op \notin OfDiner
  BY <1>2, OpsAre
<1>4. CASE ~ScopeIsDiner(c)
  <2>1. Continue(c, "flush")
    BY <1>4 DEF LockScope
  <2>2. /\ pc'[c] = "flush" /\ request'[c] = request[c]
        /\ UNCHANGED <<diner_lock, memory_lock, household_memory>>
    BY <1>1, <2>1 DEF Continue, Types, rows
  <2>3. Path(c)'
    BY <1>2, <1>3, <2>2 DEF Path, WellFormed
  <2>4. Keeps(c)'
    BY <1>1, <2>2 DEF Session, Keeps
  <2>5. Scoped(c)'
    BY <1>4, <2>2 DEF Scoped, ScopeIsDiner, Given
  <2> QED  BY <1>1, <2>1, <2>3, <2>4, <2>5, ContinueStep
<1>5. CASE ScopeIsDiner(c) /\ d \notin ActiveDiners
  BY <1>1, <1>5, RefuseStep DEF LockScope
<1>6. CASE ScopeIsDiner(c) /\ d \in ActiveDiners
  <2>1. /\ DinerFree(c, d) /\ diner_lock' = [diner_lock EXCEPT ![d] = c]
        /\ pc' = [pc EXCEPT ![c] = "flush"]
        /\ UNCHANGED <<rows, member, memory_lock, request, seen, write, history>>
    BY <1>6 DEF LockScope
  <2>2. d \in DinerId
    BY <1>6 DEF ActiveDiners
  <2>3. Aside(c) /\ SteadyAside(c) /\ UNCHANGED rows
    BY <1>1, <2>1, <2>2 DEF Aside, SteadyAside, Types, history, DinerFree
  <2>4. Types'
    BY <1>1, <2>1 DEF Types, rows, history
  <2>5. /\ pc'[c] = "flush" /\ late'[c] = 0 /\ steady'[c] = {} /\ request'[c] = q
        /\ diner_lock'[d] = c
    BY <1>1, <2>1, <2>2 DEF Types, history, Session, Shown
  <2>6. Path(c)'
    BY <1>2, <1>3, <2>5 DEF Path, WellFormed
  <2>7. Keeps(c)'
    BY <1>1, <1>3, <2>1, <2>5 DEF Session, Keeps, rows
  <2>8. d \in ActiveDiners'
    BY <1>6, <2>1 DEF ActiveDiners, rows
  <2>9. Scoped(c)'
    BY <2>5, <2>8 DEF Scoped
  <2>10. Written(c)' /\ Replayed(c)' /\ Shown(c)'
    BY <2>5 DEF Written, Replayed, Shown
  <2> QED  BY <2>3, <2>4, <2>5, <2>6, <2>7, <2>9, <2>10, WorkerStep DEF CreatesMemory, Session
<1> QED  BY <1>4, <1>5, <1>6

LEMMA ReadProfileStep ==
  ASSUME IInv, NEW c \in Call, ReadMemories(c) \/ ReadDiners(c)
  PROVE  IInv'
<1>1. Types /\ Session(c) /\ late[c] = 0
  BY NotLate DEF IInv, ReadMemories, ReadDiners
<1>2. WellFormed(request[c]) /\ request[c].op = "profile"
  BY <1>1 DEF Session, Path, ReadMemories, ReadDiners
<1>3. CASE ReadMemories(c)
  <2> USE <1>3 DEF ReadMemories
  <2>1. Aside(c) /\ SteadyAside(c) /\ UNCHANGED rows
    BY <1>1 DEF Aside, SteadyAside, Types
  <2>2. Types'
    BY <1>1 DEF Types, rows
  <2>3. /\ pc'[c] = "diners" /\ late'[c] = 0 /\ request'[c] = request[c]
        /\ steady'[c] = InProfile /\ profile'[c] = InProfile
    BY <1>1 DEF Types
  <2>4. InProfile' = InProfile
    BY DEF InProfile, ActiveMemories, ActiveDiners, rows
  <2>5. Path(c)'
    BY <1>2, <2>3 DEF Path, WellFormed
  <2>6. Session(c)'
    BY <2>3, <2>4, <2>5 DEF Session, Keeps, Scoped, Written, Replayed, Shown
  <2> QED  BY <2>1, <2>2, <2>3, <2>6, WorkerStep DEF CreatesMemory
<1>4. CASE ReadDiners(c)
  <2> USE <1>4 DEF ReadDiners, Answered
  <2>1. Aside(c) /\ SteadyAside(c) /\ UNCHANGED rows
    BY <1>1, EndIsAside DEF Aside, SteadyAside, Types
  <2>2. Types'
    BY <1>1, EndIsAside DEF Types, rows
  <2>3. /\ pc'[c] = "told" /\ late'[c] = 0 /\ steady'[c] = steady[c]
        /\ profile'[c] = {p \in profile[c] : p[2] \in ActiveDiners \cup {Household}}
    BY <1>1 DEF Types
  <2>4. steady[c] \subseteq profile[c] /\ steady[c] \subseteq InProfile
    BY <1>1 DEF Session, Shown
  <2>5. \A p \in InProfile : p[2] \in ActiveDiners \cup {Household}
    BY DEF InProfile, ActiveMemories
  <2>6. Shown(c)'
    BY <2>3, <2>4, <2>5 DEF Shown
  <2>7. Session(c)'
    BY <2>3, <2>6 DEF Session, Path, Keeps, Scoped, Written, Replayed
  <2> QED  BY <2>1, <2>2, <2>3, <2>7, WorkerStep DEF CreatesMemory
<1> QED  BY <1>3, <1>4

(***************************************************************************)
(* The rows that are flushed.                                              *)
(***************************************************************************)

LEMMA NextVersionIs ==
  ASSUME Types, NEW c \in Call, WellFormed(request[c]), request[c].op \in Named
  PROVE  NextVersion(c) \in Nat \ {0}
<1>1. RowOf(request[c]).version \in Nat
  BY DEF RowOf, Table, WellFormed, Types, Named
<1>2. InSession(c).version \in Nat
  BY <1>1 DEF InSession, Types
<1> QED  BY <1>2 DEF NextVersion

LEMMA FlushStep ==
  ASSUME IInv, NEW c \in Call, NEW w, Flush(c, w), pc[c] = "flush",
         write' = [write EXCEPT ![c] = w] => Written(c)',
         request[c].op \in {"create_memory", "remember"} =>
           \A d \in Call : DOMAIN w.memory \cap DOMAIN write[d].memory = {}
  PROVE  IInv'
<1> USE DEF Flush, history
<1>1. Types /\ Session(c)
  BY DEF IInv
<1>2. Aside(c) /\ SteadyAside(c) /\ UNCHANGED rows
  BY <1>1 DEF Aside, SteadyAside, Types
<1>3. Types'
  BY <1>1 DEF Types, rows
<1>4. /\ pc'[c] = "written" /\ request'[c] = request[c] /\ write'[c] = w
      /\ late'[c] = 0 /\ steady'[c] = {}
  BY <1>1, NotLate DEF Types, Session, Shown
<1>5. WellFormed(request[c]) /\ request[c].op \in OfDiner \cup OfMemory
  BY <1>1 DEF Session, Path
<1>6. Path(c)'
  BY <1>4, <1>5 DEF Path, WellFormed
<1>7. Keeps(c)'
  BY <1>1, <1>4 DEF Session, Keeps, rows
<1>8. Scoped(c)'
  BY <1>1, <1>4 DEF Session, Scoped, ScopeIsDiner, Given, ActiveDiners, rows
<1>9. Replayed(c)' /\ Shown(c)'
  BY <1>4 DEF Replayed, Shown
<1> QED  BY <1>2, <1>3, <1>4, <1>6, <1>7, <1>8, <1>9, WorkerStep DEF CreatesMemory, Session

LEMMA FlushDinerStep ==
  ASSUME IInv, NEW c \in Call, FlushDiner(c)
  PROVE  IInv'
<1> DEFINE q == request[c]
<1>1. Types /\ Session(c) /\ pc[c] = "flush" /\ q.op \in OfDiner
  BY DEF IInv, FlushDiner
<1>2. WellFormed(q)
  BY <1>1 DEF Session, Path
<1>3. PICK d \in IF q.op = "create_diner" THEN NewDiner ELSE {q.id} :
        IF Clashes(d, DinerRow(c)) THEN Fail(c)
        ELSE Flush(c, [NoWrite EXCEPT !.diner = Only(d, DinerRow(c))])
  BY DEF FlushDiner
<1>4. CASE Fail(c)
  BY <1>1, <1>4, FailStep
<1>5. CASE Flush(c, [NoWrite EXCEPT !.diner = Only(d, DinerRow(c))])
  <2>1. d \in DinerId /\ (q.op # "create_diner" => d = q.id)
    <3>1. CASE q.op = "create_diner"
      BY <1>1, <1>3, <3>1 DEF NewDiner, Unused, Types
    <3>2. CASE q.op # "create_diner"
      BY <1>1, <1>2, <1>3, <3>2, OpsAre DEF WellFormed
    <3> QED  BY <3>1, <3>2
  <2>2. DinerRow(c).version \in Nat /\ (q.op = "create_diner" => Active(DinerRow(c)))
    <3>1. CASE q.op = "create_diner"
      BY <3>1 DEF DinerRow, Active
    <3>2. CASE q.op # "create_diner"
      <4>1. NextVersion(c) \in Nat
        BY <1>1, <1>2, <3>2, OpsAre, NextVersionIs
      <4> QED  BY <3>2, <4>1 DEF DinerRow
    <3> QED  BY <3>1, <3>2
  <2> DEFINE w == [NoWrite EXCEPT !.diner = Only(d, DinerRow(c))]
  <2>3. w.memory = <<>> /\ DOMAIN w.diner = {d} /\ w.diner[d] = DinerRow(c)
    BY DEF NoWrite, Only
  <2> HIDE DEF w
  <2>4. ASSUME write' = [write EXCEPT ![c] = w] PROVE Written(c)'
    <3>1. write'[c] = w /\ request' = request
      BY <1>1, <1>5, <2>4 DEF Types, Flush
    <3>2. WrittenDiner(c)'
      BY <2>1, <2>2, <2>3, <3>1 DEF WrittenDiner, Active
    <3> QED  BY <1>1, <3>1, <3>2 DEF Written
  <2>5. q.op \notin {"create_memory", "remember"}
    BY <1>1, OpsAre
  <2> QED  BY <1>1, <1>5, <2>4, <2>5, FlushStep DEF w
<1> QED  BY <1>3, <1>4, <1>5

LEMMA FlushMemoryStep ==
  ASSUME IInv, NEW c \in Call, FlushMemory(c)
  PROVE  IInv'
<1> DEFINE q == request[c]
           row == MemoryRow(c)
<1>1. Types /\ Session(c) /\ pc[c] = "flush" /\ q.op \notin OfDiner
  BY DEF IInv, FlushMemory
<1>2. WellFormed(q) /\ q.op \in OfMemory
  BY <1>1 DEF Session, Path
<1>3. PICK m \in IF q.op \in Creations THEN NewMemory ELSE {q.id} :
        Flush(c, [NoWrite EXCEPT !.memory = Only(m, row)])
  BY DEF FlushMemory
<1>4. /\ m \in MemoryId
      /\ IF q.op \in Creations
         THEN /\ household_memory[m].version = 0
              /\ \A d \in Call : m \notin DOMAIN write[d].memory
         ELSE m = q.id
  <2>1. CASE q.op \in Creations
    BY <1>1, <1>3, <2>1 DEF NewMemory, Unused, Types
  <2>2. CASE q.op \notin Creations
    BY <1>1, <1>2, <1>3, <2>2, OpsAre DEF WellFormed
  <2> QED  BY <2>1, <2>2
<1>5. row.version \in Nat \ {0}
  <2>1. CASE q.op \in Creations
    BY <2>1 DEF MemoryRow
  <2>2. CASE q.op \notin Creations
    <3>1. NextVersion(c) \in Nat \ {0}
      BY <1>1, <1>2, <2>2, OpsAre, NextVersionIs
    <3> QED  BY <2>2, <3>1 DEF MemoryRow
  <2> QED  BY <2>1, <2>2
<1>6. \/ row.diner \in {household_memory[m].diner, Household}
      \/ q.op \notin Archivals /\ ScopeIsDiner(c) /\ row.diner = q.changes.diner
  <2>1. CASE q.op \in Creations
    <3>1. row.diner = q.changes.diner /\ "diner" \in DOMAIN q.changes /\ q.op \notin Archivals
      BY <1>1, <1>2, <2>1, OpsAre DEF MemoryRow, WellFormed
    <3> QED  BY <3>1 DEF ScopeIsDiner, Given
  <2>2. CASE q.op \notin Creations
    <3>1. row.diner = Column(c, "diner") /\ RowOf(q) = household_memory[m]
      BY <1>1, <1>4, <2>2 DEF MemoryRow, RowOf, Table
    <3>2. \/ Column(c, "diner") = household_memory[m].diner
          \/ /\ q.op \in Updates /\ Given(c, "diner")
             /\ Column(c, "diner") = q.changes.diner
      BY <3>1 DEF Column
    <3> QED  BY <3>1, <3>2, OpsAre DEF ScopeIsDiner
  <2> QED  BY <2>1, <2>2
<1> DEFINE w == [NoWrite EXCEPT !.memory = Only(m, row)]
<1> HIDE DEF row
<1>7. w.diner = <<>> /\ DOMAIN w.memory = {m} /\ w.memory[m] = row
  BY DEF NoWrite, Only
<1> HIDE DEF w
<1>8. ASSUME write' = [write EXCEPT ![c] = w] PROVE Written(c)'
  <2>1. write'[c] = w /\ UNCHANGED <<request, household_memory>>
    BY <1>1, <1>3, <1>8 DEF Types, Flush, rows, w
  <2>2. WrittenMemory(c)'
    BY <1>4, <1>5, <1>6, <1>7, <2>1 DEF WrittenMemory, ScopeIsDiner, Given
  <2> QED  BY <1>1, <2>1, <2>2 DEF Written
<1>9. q.op \in {"create_memory", "remember"} =>
        \A d \in Call : DOMAIN w.memory \cap DOMAIN write[d].memory = {}
  BY <1>4, <1>7, OpsAre
<1> QED  BY <1>1, <1>3, <1>8, <1>9, FlushStep DEF w

(***************************************************************************)
(* The commit.                                                             *)
(***************************************************************************)

LEMMA CommitRows ==
  ASSUME IInv, NEW c \in Call, Commit(c)
  PROVE  /\ household_diner' = [d \in DinerId |-> household_diner'[d]]
         /\ household_memory' = [m \in MemoryId |-> household_memory'[m]]
         /\ request[c].op \in OfDiner =>
              /\ household_memory' = household_memory
              /\ \E d \in DinerId :
                   /\ household_diner'[d].version \in Nat
                   /\ \A e \in DinerId \ {d} : household_diner'[e] = household_diner[e]
                   /\ \/ request[c].op = "create_diner" /\ Active(household_diner'[d])
                      \/ diner_lock[d] = c
         /\ request[c].op \notin OfDiner =>
              /\ household_diner' = household_diner
              /\ \E m \in MemoryId :
                   /\ household_memory'[m].version \in Nat \ {0}
                   /\ \A n \in MemoryId \ {m} : household_memory'[n] = household_memory[n]
                   /\ \/ household_memory[m].version = 0 /\ CreatesMemory(c)
                                                         /\ m \in DOMAIN write[c].memory
                      \/ memory_lock[m] = c /\ household_memory[m].version # 0
                   /\ \/ household_memory'[m].diner \in {household_memory[m].diner, Household}
                      \/ household_memory'[m].diner \in ActiveDiners
<1> DEFINE q == request[c]
<1>1. Types /\ Session(c) /\ pc[c] = "written"
  BY DEF IInv, Commit
<1>2. WellFormed(q) /\ q.op \in OfDiner \cup OfMemory
  BY <1>1 DEF Session, Path
<1>3. /\ household_diner' = [d \in DinerId |-> IF d \in DOMAIN write[c].diner
                                               THEN write[c].diner[d] ELSE household_diner[d]]
      /\ household_memory' = [m \in MemoryId |-> IF m \in DOMAIN write[c].memory
                                                 THEN write[c].memory[m] ELSE household_memory[m]]
  <2>1. DOMAIN household_diner = DinerId /\ DOMAIN household_memory = MemoryId
    BY <1>1 DEF Types
  <2>2. /\ household_diner' = Over(write[c].diner, household_diner)
        /\ household_memory' = Over(write[c].memory, household_memory)
    BY DEF Commit
  <2> QED  BY <2>1, <2>2 DEF Over
<1>4. DOMAIN <<>> = {}
  OBVIOUS
<1>5. ASSUME q.op \in OfDiner
      PROVE  /\ household_memory' = household_memory
             /\ \E d \in DinerId :
                  /\ household_diner'[d].version \in Nat
                  /\ \A e \in DinerId \ {d} : household_diner'[e] = household_diner[e]
                  /\ (q.op = "create_diner" /\ Active(household_diner'[d])) \/ diner_lock[d] = c
  <2>1. WrittenDiner(c)
    BY <1>1, <1>5 DEF Session, Written
  <2>2. household_memory' = household_memory
    BY <1>1, <1>3, <1>4, <2>1 DEF WrittenDiner, Types
  <2>3. PICK d \in DinerId :
          /\ DOMAIN write[c].diner = {d}
          /\ write[c].diner[d].version \in Nat
          /\ IF q.op = "create_diner" THEN Active(write[c].diner[d]) ELSE d = q.id
    BY <2>1 DEF WrittenDiner
  <2>4. q.op # "create_diner" => diner_lock[d] = c
    BY <1>1, <1>5, <2>3, OpsAre DEF Session, Keeps
  <2> QED  BY <1>3, <2>2, <2>3, <2>4
<1>6. ASSUME q.op \notin OfDiner
      PROVE  /\ household_diner' = household_diner
             /\ \E m \in MemoryId :
                  /\ household_memory'[m].version \in Nat \ {0}
                  /\ \A n \in MemoryId \ {m} : household_memory'[n] = household_memory[n]
                  /\ \/ household_memory[m].version = 0 /\ CreatesMemory(c)
                                                        /\ m \in DOMAIN write[c].memory
                     \/ memory_lock[m] = c /\ household_memory[m].version # 0
                  /\ \/ household_memory'[m].diner \in {household_memory[m].diner, Household}
                     \/ household_memory'[m].diner \in ActiveDiners
  <2>1. WrittenMemory(c)
    BY <1>1, <1>6 DEF Session, Written
  <2>2. household_diner' = household_diner
    BY <1>1, <1>3, <1>4, <2>1 DEF WrittenMemory, Types
  <2>3. PICK m \in MemoryId :
          /\ DOMAIN write[c].memory = {m}
          /\ write[c].memory[m].version \in Nat \ {0}
          /\ IF q.op \in Creations THEN household_memory[m].version = 0 ELSE m = q.id
          /\ \/ write[c].memory[m].diner \in {household_memory[m].diner, Household}
             \/ /\ q.op \notin Archivals /\ ScopeIsDiner(c)
                /\ write[c].memory[m].diner = q.changes.diner
    BY <2>1 DEF WrittenMemory
  <2>4. household_memory'[m] = write[c].memory[m]
    BY <1>3, <2>3
  <2>5. q.op \in Creations => CreatesMemory(c)
    BY <1>1, <1>6, OpsAre DEF CreatesMemory
  <2>6. q.op \notin Creations => memory_lock[m] = c /\ household_memory[m].version # 0
    BY <1>1, <1>2, <1>6, <2>3, OpsAre DEF Session, Keeps
  <2>7. \/ household_memory'[m].diner \in {household_memory[m].diner, Household}
        \/ household_memory'[m].diner \in ActiveDiners
    BY <1>1, <1>2, <1>6, <2>3, <2>4 DEF Session, Scoped
  <2>8. \A n \in MemoryId \ {m} : household_memory'[n] = household_memory[n]
    BY <1>3, <2>3
  <2> QED  BY <2>2, <2>3, <2>4, <2>5, <2>6, <2>7, <2>8
<1> QED  BY <1>3, <1>5, <1>6

LEMMA CommitStep ==
  ASSUME IInv, NEW c \in Call, Commit(c)
  PROVE  IInv'
<1> DEFINE q == request[c]
<1>1. Types /\ Session(c) /\ OneReceipt /\ OwnMemories /\ pc[c] = "written"
  BY DEF IInv, Commit
<1>2. /\ household_diner' = [d \in DinerId |-> household_diner'[d]]
      /\ household_memory' = [m \in MemoryId |-> household_memory'[m]]
  BY CommitRows
<1>3. late[c] = 0 /\ steady[c] = {}
  BY <1>1, NotLate DEF Session, Shown
<1>4. PICK id : Answered(c, id)
  BY DEF Commit
<1>5. /\ \A d \in Call \ {c} :
           /\ pc'[d] = pc[d] /\ request'[d] = request[d] /\ write'[d] = write[d]
           /\ profile'[d] = profile[d] /\ late'[d] = late[d] /\ answer'[d] = answer[d]
      /\ pc'[c] = "told" /\ late'[c] = 0
      /\ \A x \in DinerId : diner_lock[x] \in Call \ {c} => diner_lock'[x] = diner_lock[x]
      /\ \A m \in MemoryId : memory_lock[m] \in Call \ {c} => memory_lock'[m] = memory_lock[m]
      /\ \A d \in Call : steady'[d] = steady[d] \cap InProfile'
  BY <1>1, <1>3, <1>4, EndIsAside DEF Answered, Types, Commit
<1>6. /\ \A d \in DinerId : household_diner'[d].version \in Nat
      /\ \A m \in MemoryId : household_memory'[m].version \in Nat
  <2>1. CASE q.op \in OfDiner
    <3>1. household_memory' = household_memory
      BY <2>1, CommitRows
    <3>2. PICK d \in DinerId :
            /\ household_diner'[d].version \in Nat
            /\ \A e \in DinerId \ {d} : household_diner'[e] = household_diner[e]
      BY <2>1, CommitRows
    <3> QED  BY <1>1, <3>1, <3>2 DEF Types
  <2>2. CASE q.op \notin OfDiner
    <3>1. household_diner' = household_diner
      BY <2>2, CommitRows
    <3>2. PICK m \in MemoryId :
            /\ household_memory'[m].version \in Nat \ {0}
            /\ \A n \in MemoryId \ {m} : household_memory'[n] = household_memory[n]
      BY <2>2, CommitRows
    <3> QED  BY <1>1, <3>1, <3>2 DEF Types
  <2> QED  BY <2>1, <2>2
<1>7. Types'
  <2>1. /\ steady' = [o \in Call |-> steady'[o]]
        /\ UNCHANGED <<profile, late>>
    BY DEF Commit
  <2>2. /\ pc' = [d \in Call |-> pc'[d]] /\ request' = [d \in Call |-> request'[d]]
        /\ answer' = [d \in Call |-> answer'[d]]
    BY <1>1, <1>4 DEF Answered, Types
  <2>3. /\ profile' = [d \in Call |-> profile'[d]] /\ late' = [d \in Call |-> late'[d]]
    BY <1>1, <2>1 DEF Types
  <2>4. EndTransaction(c)
    BY <1>4 DEF Answered
  <2> QED  BY <1>1, <1>2, <1>6, <2>1, <2>2, <2>3, <2>4, EndIsAside DEF Types
<1>8. OneReceipt'
  <2>1. PICK receipt : /\ receipt.op = Operation(q) /\ receipt.key = q.key
                       /\ meal_plan_operation' = meal_plan_operation \cup
                            IF q.op \in Creations /\ q.key # NoKey THEN {receipt} ELSE {}
    <3> DEFINE x == CHOOSE x \in DOMAIN write[c].diner \cup DOMAIN write[c].memory : TRUE
    <3>1. meal_plan_operation' = meal_plan_operation \cup
            IF q.op \in Creations /\ q.key # NoKey THEN {Receipt(c, x)} ELSE {}
      BY DEF Commit
    <3> HIDE DEF x
    <3>2. Receipt(c, x).op = Operation(q) /\ Receipt(c, x).key = q.key
      BY DEF Receipt
    <3> QED  BY <3>1, <3>2
  <2>2. q.op \in Creations => Receipts(q) = {}
    BY DEF Commit
  <2>3. q.op \in Creations /\ q.key # NoKey =>
          \A r \in meal_plan_operation : ~(r.op = Operation(q) /\ r.key = q.key)
    BY <2>2 DEF Receipts
  <2> QED  BY <1>1, <2>1, <2>3 DEF OneReceipt
<1>9. meal_plan_operation \subseteq meal_plan_operation'
  BY DEF Commit
<1>10. ASSUME NEW d \in Call \ {c}, NEW x \in ActiveDiners, diner_lock[x] = d
       PROVE  x \in ActiveDiners'
  <2>1. x \in DinerId /\ Active(household_diner[x])
    BY DEF ActiveDiners
  <2>2. Active(household_diner'[x])
    <3>1. CASE q.op \in OfDiner
      <4>1. PICK e \in DinerId :
              /\ \A y \in DinerId \ {e} : household_diner'[y] = household_diner[y]
              /\ Active(household_diner'[e]) \/ diner_lock[e] = c
        BY <3>1, CommitRows
      <4> QED  BY <1>10, <2>1, <4>1
    <3>2. CASE q.op \notin OfDiner
      BY <2>1, <3>2, CommitRows
    <3> QED  BY <3>1, <3>2
  <2> QED  BY <2>1, <2>2 DEF ActiveDiners, Active
<1>11. ASSUME NEW d \in Call \ {c}, NEW m \in MemoryId,
              \/ memory_lock[m] = d /\ household_memory[m].version # 0
              \/ CreatesMemory(d) /\ m \in DOMAIN write[d].memory
       PROVE  household_memory'[m] = household_memory[m]
  <2>1. CASE q.op \in OfDiner
    BY <2>1, CommitRows
  <2>2. CASE q.op \notin OfDiner
    <3>1. PICK n \in MemoryId :
            /\ \A k \in MemoryId \ {n} : household_memory'[k] = household_memory[k]
            /\ \/ household_memory[n].version = 0 /\ CreatesMemory(c) /\ n \in DOMAIN write[c].memory
               \/ memory_lock[n] = c /\ household_memory[n].version # 0
      BY <2>2, CommitRows
    <3>2. CASE memory_lock[m] = d /\ household_memory[m].version # 0
      BY <3>1, <3>2
    <3>3. CASE CreatesMemory(d) /\ m \in DOMAIN write[d].memory
      <4>1. CASE CreatesMemory(c) /\ n \in DOMAIN write[c].memory
        BY <1>1, <3>1, <3>3, <4>1 DEF OwnMemories
      <4>2. CASE memory_lock[n] = c /\ household_memory[n].version # 0
        <5>1. household_memory[m].version = 0
          BY <3>3, OpsAre DEF IInv, Session, Written, WrittenMemory, CreatesMemory
        <5> QED  BY <3>1, <4>2, <5>1
      <4> QED  BY <3>1, <4>1, <4>2
    <3> QED  BY <1>11, <3>2, <3>3
  <2> QED  BY <2>1, <2>2
<1>12. ASSUME NEW d \in Call PROVE Session(d)'
  <2>1. CASE d = c
    <3>1. pc'[c] = "told" /\ late'[c] = 0 /\ steady'[c] = {}
      BY <1>3, <1>5
    <3> QED  BY <2>1, <3>1 DEF Session, Path, Keeps, Scoped, Written, Replayed, Shown
  <2>2. CASE d # c
    <3>1. Session(d)
      BY DEF IInv
    <3>2. \A x \in ActiveDiners : diner_lock[x] = d => x \in ActiveDiners'
      BY <1>10, <2>2
    <3>3. \A m \in MemoryId : memory_lock[m] = d /\ household_memory[m].version # 0
                              => household_memory'[m] = household_memory[m]
      BY <1>11, <2>2
    <3>4. CreatesMemory(d) => \A m \in MemoryId \cap DOMAIN write[d].memory :
                                household_memory'[m] = household_memory[m]
      BY <1>11, <2>2
    <3> QED  BY <1>5, <1>9, <2>2, <3>1, <3>2, <3>3, <3>4, SessionStays
  <2> QED  BY <2>1, <2>2
<1>13. OwnMemories'
  <2>1. ASSUME NEW d \in Call, CreatesMemory(d)'
        PROVE  CreatesMemory(d) /\ d # c /\ write'[d] = write[d]
    BY <1>5, <2>1 DEF CreatesMemory
  <2> QED  BY <1>1, <2>1 DEF OwnMemories
<1> QED  BY <1>7, <1>8, <1>12, <1>13 DEF IInv
-----------------------------------------------------------------------------
LEMMA StutterStep ==
  ASSUME IInv, UNCHANGED <<rows, session, history>>
  PROVE  IInv'
<1>1. InProfile' = InProfile /\ ActiveDiners' = ActiveDiners
  BY DEF InProfile, ActiveMemories, ActiveDiners, rows
<1>2. ASSUME NEW d \in Call PROVE Session(d)'
  <2>1. Session(d)
    BY DEF IInv
  <2> QED  BY <1>1, <2>1, SessionStays DEF rows, session, history
<1>3. Types'
  BY DEF IInv, Types, rows, session, history
<1>4. OneReceipt' /\ OwnMemories'
  BY DEF IInv, OneReceipt, OwnMemories, CreatesMemory, rows, session
<1> QED  BY <1>2, <1>3, <1>4 DEF IInv

LEMMA NextIInv == IInv /\ [Next]_vars => IInv'
<1> SUFFICES ASSUME IInv, [Next]_vars PROVE IInv'
  OBVIOUS
<1>1. ASSUME NEW c \in Call, Step(c) PROVE IInv'
  <2>0. Session(c)
    BY DEF IInv
  <2>1. CASE Respond(c)
    BY <2>1, ForgetStep DEF Respond
  <2>2. CASE LookupByName(c) \/ LookupReceipt(c)
    BY <2>2, LookupStep
  <2>3. CASE FindDiner(c)
    BY <2>3, FindStep
  <2>4. CASE RefuseName(c) \/ RefuseLoad(c) \/ NoRoom(c)
    BY <2>4, RefuseStep DEF RefuseName, RefuseLoad, NoRoom
  <2>5. CASE Load(c)
    BY <2>5, LoadStep
  <2>6. CASE LockRow(c)
    BY <2>6, LockRowStep
  <2>7. CASE RefuseLock(c)
    <3>1. late[c] = 0 /\ pc[c] = "lock"
      BY <2>0, <2>7, NotLate DEF RefuseLock
    <3> QED  BY <2>7, <3>1, TellStep, RefuseStep DEF RefuseLock
  <2>8. CASE CheckName(c) \/ CheckMember(c) \/ CheckLink(c)
    BY <2>8, CheckStep
  <2>9. CASE LockScope(c)
    BY <2>9, LockScopeStep
  <2>10. CASE FlushDiner(c) \/ FlushMemory(c)
    BY <2>10, FlushDinerStep, FlushMemoryStep
  <2>11. CASE Commit(c)
    BY <2>11, CommitStep
  <2>12. CASE CommitRefused(c)
    BY <2>12, FailStep DEF CommitRefused
  <2>13. CASE ReplayAfterRollback(c)
    <3>1. late[c] = 0 /\ pc[c] = "again"
      BY <2>0, <2>13, NotLate DEF ReplayAfterRollback
    <3> QED  BY <2>13, <3>1, TellStep, RefuseStep DEF ReplayAfterRollback
  <2>14. CASE ReadMemories(c) \/ ReadDiners(c)
    BY <2>14, ReadProfileStep
  <2> QED  BY <1>1, <2>1, <2>2, <2>3, <2>4, <2>5, <2>6, <2>7, <2>8, <2>9, <2>10, <2>11,
              <2>12, <2>13, <2>14 DEF Step
<1>2. ASSUME NEW c \in Call, Crash(c) PROVE IInv'
  BY <1>2, ForgetStep DEF Crash
<1>3. ASSUME NEW c \in Call, NEW q \in Request, Receive(c, q) PROVE IInv'
  BY <1>3, ReceiveStep
<1>4. ASSUME \/ \E u \in User : Leave(u) \/ Join(u)
             \/ UNCHANGED vars
      PROVE  IInv'
  BY <1>4, StutterStep DEF Leave, Join, vars
<1> QED  BY <1>1, <1>2, <1>3, <1>4 DEF Next, Quiet

LEMMA InductiveInvariant == Spec => []IInv
BY InitIInv, NextIInv, PTL DEF Spec

\* US2, scenario 9: a creation that is repeated after its first attempt was
\* committed is answered with the row of that attempt and nothing else, though
\* the diner it named may be renamed, archived or replaced by now.
THEOREM LateRetriesAreReplayed == Spec => []LateRetryIsReplayed
<1>1. IInv => LateRetryIsReplayed
  BY DEF IInv, Session, Replayed, LateRetryIsReplayed
<1> QED  BY <1>1, InductiveInvariant, PTL

\* FR-008 and FR-018: the two statements of a profile omit nothing that was
\* active with the same active diner from the first to the last of them.
THEOREM ProfilesAreComplete == Spec => []ProfileShowsWhatStayed
<1>1. IInv => ProfileShowsWhatStayed
  BY DEF IInv, Session, Shown, ProfileShowsWhatStayed
<1> QED  BY <1>1, InductiveInvariant, PTL

\* FR-011: whoever archives diners meanwhile, a memory is given only to a diner
\* that is active when the memory is committed.
THEOREM MemoriesJoinActiveDiners == Spec => MemoryJoinsActiveDiner
<1> DEFINE Joins ==
      \A m \in MemoryId :
        household_memory'[m].diner \notin {household_memory[m].diner, Household}
          => household_memory'[m].diner \in ActiveDiners'
<1>1. ASSUME IInv, [Next]_vars
      PROVE  [Joins]_vars
  <2>1. ASSUME NEW c \in Call, Commit(c) PROVE Joins
    <3>1. CASE request[c].op \in OfDiner
      BY <1>1, <2>1, <3>1, CommitRows
    <3>2. CASE request[c].op \notin OfDiner
      <4>1. PICK m \in MemoryId :
              /\ \A n \in MemoryId \ {m} : household_memory'[n] = household_memory[n]
              /\ \/ household_memory'[m].diner \in {household_memory[m].diner, Household}
                 \/ household_memory'[m].diner \in ActiveDiners
        BY <1>1, <2>1, <3>2, CommitRows
      <4>2. household_diner' = household_diner
        BY <1>1, <2>1, <3>2, CommitRows
      <4>3. ActiveDiners' = ActiveDiners
        BY <4>2 DEF ActiveDiners
      <4> QED  BY <4>1, <4>3
    <3> QED  BY <3>1, <3>2
  <2>2. CASE household_memory' = household_memory
    BY <2>2
  <2>3. ASSUME NEW c \in Call, Step(c), ~Commit(c)
        PROVE  household_memory' = household_memory
    BY <2>3 DEF Step, Respond, LookupByName, FindDiner, RefuseName, LookupReceipt, Load,
                RefuseLoad, LockRow, RefuseLock, CheckName, CheckMember, CheckLink, LockScope,
                FlushDiner, FlushMemory, NoRoom, CommitRefused, ReplayAfterRollback,
                ReadMemories, ReadDiners, Forget, Tell, Refuse, Continue, Flush, Fail, rows
  <2>4. ASSUME \/ \E c \in Call : Crash(c) \/ \E q \in Request : Receive(c, q)
               \/ \E u \in User : Leave(u) \/ Join(u)
               \/ UNCHANGED vars
        PROVE  household_memory' = household_memory
    BY <2>4 DEF Crash, Forget, Receive, Leave, Join, vars, rows
  <2> HIDE DEF Joins
  <2> QED  BY <1>1, <2>1, <2>2, <2>3, <2>4 DEF Next, Quiet
<1>2. MemoryJoinsActiveDiner <=> [][Joins]_vars
  BY DEF MemoryJoinsActiveDiner
<1> QED  BY <1>1, <1>2, InductiveInvariant, PTL DEF Spec
=============================================================================
