--------------------------- MODULE HouseholdMemory ---------------------------
(***************************************************************************)
(* The diners of a household and what it remembers of them: the mutations  *)
(* and the profile of application/memory_service.py, as the routes of      *)
(* api/memory.py and the tools of mcp/tools_memory.py call them.           *)
(*                                                                         *)
(* Each element of Call is a worker that serves one request after another, *)
(* each in a READ COMMITTED transaction.  Names and links of diners are    *)
(* checked by plain reads and enforced by two unique indexes when the row  *)
(* is flushed; updates and archivals hold the row lock of the diner or the *)
(* memory, and a memory that is given a diner holds the diner's lock too.  *)
(*                                                                         *)
(* An MCP tool (mcp |-> TRUE) loads the row before it calls the service,   *)
(* and its session keeps that row.  Names are what lower() makes of them.  *)
(* Domain events, written in the same transactions, are left out.          *)
(***************************************************************************)
EXTENDS Integers, FiniteSets

CONSTANTS
  Call,        \* workers
  DinerId,     \* identifiers of household_diner rows, a range 1..n
  MemoryId,    \* identifiers of household_memory rows, a range 1..n
  User,        \* accounts that are or were members of the household
  Request,     \* what the members and their agents send
  MaxVersion,  \* bound on the mutations of a row: no request is sent beyond it
  NoCall, NoKey,
  NoUser,      \* a diner without an account
  Household    \* the diner_id NULL: a memory of the whole household

VARIABLES
  household_diner, household_memory,  \* the tables
  member,                             \* the users whose membership is active
  meal_plan_operation,                \* receipts: operation, key, hash, row
  diner_lock, memory_lock,            \* holders of the row locks
  pc, request,
  seen,    \* the row an MCP tool has loaded, without a lock
  write,   \* what the transaction has flushed
  profile, \* the memories a profile has read; a profile that was answered
  late,    \* history: the row of the receipt that was there on arrival
  answer,  \* history: the row the last request was answered with
  steady   \* history: what has stayed in the active profile since its first read

rows == <<household_diner, household_memory, meal_plan_operation>>
session == <<diner_lock, memory_lock, pc, request, seen, write>>
history == <<profile, late, answer, steady>>
vars == <<rows, member, session, history>>

NoDiner == [name |-> "absent", link |-> NoUser, archived |-> FALSE, version |-> 0]
NoMemory == [content |-> "absent", diner |-> Household, archived |-> FALSE, version |-> 0]
NoWrite == [diner |-> <<>>, memory |-> <<>>]
NoRequest == [op |-> "none", key |-> NoKey, mcp |-> FALSE]
Refused == 0

OfDiner == {"create_diner", "update_diner", "archive_diner"}
OfMemory == {"create_memory", "remember", "update_memory", "archive_memory"}
Creations == {"create_diner", "create_memory", "remember"}
Updates == {"update_diner", "update_memory"}
Archivals == {"archive_diner", "archive_memory"}

\* What the request schemas and the arguments of the tools let through.
WellFormed(q) ==
  /\ q.op \in OfDiner \cup OfMemory \cup {"profile"}
  /\ q.op \in Updates \cup Archivals
       => q.id \in IF q.op \in OfDiner THEN DinerId ELSE MemoryId
  /\ q.op \in {"create_memory", "remember"} => "diner" \in DOMAIN q.changes

ASSUME MemoryAssumption == NoCall \notin Call /\ \A q \in Request : WellFormed(q)

Over(changes, table) ==
  [x \in DOMAIN table |-> IF x \in DOMAIN changes THEN changes[x] ELSE table[x]]
Only(x, value) == [y \in {x} |-> value]

Active(row) == row.version > 0 /\ ~row.archived
ActiveDiners == {d \in DinerId : Active(household_diner[d])}

\* SELECT ... FOR UPDATE waits while another transaction holds the row.
DinerFreeIgnored(c, d) == TRUE
DinerFree(c, d) == diner_lock[d] \in {NoCall, c}
MemoryFree(c, m) == memory_lock[m] \in {NoCall, c}
Released(c, lock) == [x \in DOMAIN lock |-> IF lock[x] = c THEN NoCall ELSE lock[x]]

(***************************************************************************)
(* Receipts.  A memory that is remembered by a diner's name is known by    *)
(* that name, whatever diner it was resolved to, and uses the keys of      *)
(* create_memory.                                                          *)
(***************************************************************************)
Operation(q) == IF q.op = "create_diner" THEN "diner_create" ELSE "memory_create"

Fingerprint(q) ==
  CASE q.op = "create_diner" -> <<"diner", q.changes.name, q.changes.link>>
    [] q.op = "create_memory" -> <<"by id", q.changes.content, q.changes.diner>>
    [] q.op = "remember" -> <<"by name", q.changes.content, q.diner_name>>

Receipts(q) ==
  {r \in meal_plan_operation : q.key # NoKey /\ r.op = Operation(q) /\ r.key = q.key}
Same(q) == {r \in Receipts(q) : r.hash = Fingerprint(q)}

Init ==
  /\ household_diner = [d \in DinerId |-> NoDiner]
  /\ household_memory = [m \in MemoryId |-> NoMemory]
  /\ member = User
  /\ meal_plan_operation = {}
  /\ diner_lock = [d \in DinerId |-> NoCall]
  /\ memory_lock = [m \in MemoryId |-> NoCall]
  /\ pc = [c \in Call |-> "idle"]
  /\ request = [c \in Call |-> NoRequest]
  /\ seen = [c \in Call |-> NoDiner]
  /\ write = [c \in Call |-> NoWrite]
  /\ profile = [c \in Call |-> {}]
  /\ late = [c \in Call |-> 0]
  /\ answer = [c \in Call |-> 0]
  /\ steady = [c \in Call |-> {}]
-----------------------------------------------------------------------------
(***************************************************************************)
(* A request arrives; a client names a version that it has loaded, a tool  *)
(* may name none (0).  Creations begin with their receipt.                 *)
(***************************************************************************)
Table(q) == IF q.op \in OfDiner THEN household_diner ELSE household_memory
RowOf(q) == Table(q)[q.id]

CanSend(q) ==
  q.op \in Updates =>
    /\ RowOf(q).version \in 1..MaxVersion - 1
    /\ q.expected_version \in (IF q.mcp THEN 0 ELSE 1)..RowOf(q).version

FirstStep(q) ==
  CASE q.op = "profile" -> "memories"
    [] q.op = "remember" -> "replay"
    [] q.op \in Creations \ {"remember"} -> "receipt"
    [] q.op \in Updates \cup Archivals -> IF q.mcp THEN "load" ELSE "lock"

Receive(c, q) ==
  /\ pc[c] = "idle"
  /\ CanSend(q)
  /\ pc' = [pc EXCEPT ![c] = FirstStep(q)]
  /\ request' = [request EXCEPT ![c] = q]
  /\ late' = [late EXCEPT ![c] =
       IF q.op \in Creations /\ Same(q) # {} THEN (CHOOSE r \in Same(q) : TRUE).id ELSE 0]
  /\ UNCHANGED <<rows, member, diner_lock, memory_lock, seen, write, profile, answer, steady>>

\* The transaction ends: locks are released, what was not committed is gone.
EndTransaction(c) ==
  /\ write' = [write EXCEPT ![c] = NoWrite]
  /\ seen' = [seen EXCEPT ![c] = NoDiner]
  /\ diner_lock' = Released(c, diner_lock)
  /\ memory_lock' = Released(c, memory_lock)

Answered(c, id) ==
  /\ pc' = [pc EXCEPT ![c] = "told"]
  /\ request' = [request EXCEPT ![c] = NoRequest]
  /\ answer' = [answer EXCEPT ![c] = id]
  /\ EndTransaction(c)

Tell(c, id) == Answered(c, id) /\ UNCHANGED <<rows, member, profile, late, steady>>
Refuse(c) == Tell(c, Refused)

Forget(c) ==
  /\ pc' = [pc EXCEPT ![c] = "idle"]
  /\ request' = [request EXCEPT ![c] = NoRequest]
  /\ late' = [late EXCEPT ![c] = 0]
  /\ answer' = [answer EXCEPT ![c] = 0]
  /\ profile' = [profile EXCEPT ![c] = {}]
  /\ steady' = [steady EXCEPT ![c] = {}]
  /\ EndTransaction(c)
  /\ UNCHANGED <<rows, member>>

Respond(c) == pc[c] = "told" /\ Forget(c)
Crash(c) == pc[c] \notin {"idle", "told"} /\ Forget(c)

Continue(c, step) ==
  /\ pc' = [pc EXCEPT ![c] = step]
  /\ UNCHANGED <<rows, member, diner_lock, memory_lock, request, seen, write, history>>

(***************************************************************************)
(* uribap_remember.  A retry is answered before the name is looked up,     *)
(* since the diner may have been renamed or archived meanwhile.            *)
(***************************************************************************)
LookupByNameSkipped(c) == pc[c] = "replay" /\ Continue(c, "find")
LookupByName(c) ==
  LET q == request[c] IN
  /\ pc[c] = "replay"
  /\ IF Receipts(q) = {} THEN Continue(c, "find")
     ELSE \E r \in Receipts(q) : IF r \in Same(q) THEN Tell(c, r.id) ELSE Refuse(c)

FindDiner(c) ==
  /\ pc[c] = "find"
  /\ \E d \in ActiveDiners :
       /\ household_diner[d].name = request[c].diner_name
       /\ request' = [request EXCEPT ![c].changes.diner = d]
  /\ pc' = [pc EXCEPT ![c] = "receipt"]
  /\ UNCHANGED <<rows, member, diner_lock, memory_lock, seen, write, history>>

RefuseName(c) ==
  /\ pc[c] = "find"
  /\ \A d \in ActiveDiners : household_diner[d].name # request[c].diner_name
  /\ Refuse(c)

\* create_diner and create_memory.
LookupReceipt(c) ==
  LET q == request[c] IN
  /\ pc[c] = "receipt"
  /\ IF Receipts(q) = {} THEN Continue(c, IF q.op = "create_diner" THEN "name" ELSE "scope")
     ELSE \E r \in Receipts(q) : IF r \in Same(q) THEN Tell(c, r.id) ELSE Refuse(c)

(***************************************************************************)
(* The rows of updates and archivals.  The tools load an active row; FOR   *)
(* UPDATE finds it only if it is active then, but the session goes on with *)
(* the row it has loaded.  An archival that finds its row archived is done.*)
(***************************************************************************)
Load(c) ==
  LET q == request[c] IN
  /\ pc[c] = "load"
  /\ Active(RowOf(q))
  /\ seen' = [seen EXCEPT ![c] = RowOf(q)]
  /\ pc' = [pc EXCEPT ![c] = "lock"]
  /\ UNCHANGED <<rows, member, diner_lock, memory_lock, request, write, history>>

RefuseLoad(c) == pc[c] = "load" /\ ~Active(RowOf(request[c])) /\ Refuse(c)

InSession(c) == IF request[c].mcp THEN seen[c] ELSE RowOf(request[c])
Expected(c) ==
  LET q == request[c] IN
  IF q.mcp /\ q.expected_version = 0 THEN seen[c].version ELSE q.expected_version

RowFree(c) ==
  LET q == request[c] IN
  IF q.op \in OfDiner THEN DinerFree(c, q.id) ELSE MemoryFree(c, q.id)

CanChange(c) ==
  /\ Active(RowOf(request[c]))
  /\ request[c].op \in Updates => InSession(c).version = Expected(c)

LockRow(c) ==
  LET q == request[c] IN
  /\ pc[c] = "lock" /\ RowFree(c) /\ CanChange(c)
  /\ diner_lock' = IF q.op \in OfDiner THEN [diner_lock EXCEPT ![q.id] = c] ELSE diner_lock
  /\ memory_lock' = IF q.op \in OfDiner THEN memory_lock ELSE [memory_lock EXCEPT ![q.id] = c]
  /\ pc' = [pc EXCEPT ![c] = IF q.op \in Archivals THEN "flush"
                             ELSE IF q.op \in OfDiner THEN "name" ELSE "scope"]
  /\ UNCHANGED <<rows, member, request, seen, write, history>>

RefuseLock(c) ==
  LET q == request[c] IN
  /\ pc[c] = "lock" /\ RowFree(c) /\ ~CanChange(c)
  /\ IF q.op \in Archivals /\ RowOf(q).archived THEN Tell(c, q.id) ELSE Refuse(c)

(***************************************************************************)
(* _assert_unique_name, the two reads of _validate_member_link, and the    *)
(* diner of a memory, which is locked (_validate_memory_diner).            *)
(***************************************************************************)
Given(c, column) == column \in DOMAIN request[c].changes
Others(c) ==
  IF request[c].op = "create_diner" THEN DinerId ELSE DinerId \ {request[c].id}

NameTaken(c) ==
  /\ Given(c, "name")
  /\ \E d \in Others(c) \cap ActiveDiners : household_diner[d].name = request[c].changes.name
CheckName(c) ==
  pc[c] = "name" /\ IF NameTaken(c) THEN Refuse(c) ELSE Continue(c, "member")

LinkGiven(c) == Given(c, "link") /\ request[c].changes.link # NoUser
CheckMember(c) ==
  /\ pc[c] = "member"
  /\ IF LinkGiven(c) /\ request[c].changes.link \notin member
     THEN Refuse(c) ELSE Continue(c, "link")

LinkTaken(c) ==
  LinkGiven(c) /\ \E d \in Others(c) : household_diner[d].link = request[c].changes.link
CheckLink(c) ==
  pc[c] = "link" /\ IF LinkTaken(c) THEN Refuse(c) ELSE Continue(c, "flush")

ScopeIsDiner(c) == Given(c, "diner") /\ request[c].changes.diner # Household
LockScope(c) ==
  LET d == request[c].changes.diner IN
  /\ pc[c] = "scope"
  /\ IF ~ScopeIsDiner(c) THEN Continue(c, "flush")
     ELSE /\ DinerFree(c, d)
          /\ IF d \notin ActiveDiners THEN Refuse(c)
             ELSE /\ diner_lock' = [diner_lock EXCEPT ![d] = c]
                  /\ pc' = [pc EXCEPT ![c] = "flush"]
                  /\ UNCHANGED <<rows, member, memory_lock, request, seen, write, history>>
-----------------------------------------------------------------------------
(***************************************************************************)
(* The row as it is flushed.  An UPDATE writes the columns that differ     *)
(* from what the session has; the version is always one of them.           *)
(***************************************************************************)
Unused(table, pending) ==
  LET free == {x \in DOMAIN table : table[x].version = 0} \ pending
  IN  {x \in free : \A y \in free : x <= y}
NewDiner == Unused(household_diner, UNION {DOMAIN write[o].diner : o \in Call})
NewMemory == Unused(household_memory, UNION {DOMAIN write[o].memory : o \in Call})

Column(c, column) ==
  LET q == request[c] IN
  IF q.op \in Updates /\ Given(c, column) /\ q.changes[column] # InSession(c)[column]
  THEN q.changes[column] ELSE RowOf(q)[column]

Archived(c) == RowOf(request[c]).archived \/ request[c].op \in Archivals
NextVersion(c) == InSession(c).version + 1

DinerRow(c) ==
  IF request[c].op = "create_diner"
  THEN [name |-> request[c].changes.name, link |-> request[c].changes.link,
        archived |-> FALSE, version |-> 1]
  ELSE [name |-> Column(c, "name"), link |-> Column(c, "link"),
        archived |-> Archived(c), version |-> NextVersion(c)]

MemoryRow(c) ==
  IF request[c].op \in Creations
  THEN [content |-> request[c].changes.content, diner |-> request[c].changes.diner,
        archived |-> FALSE, version |-> 1]
  ELSE [content |-> Column(c, "content"), diner |-> Column(c, "diner"),
        archived |-> Archived(c), version |-> NextVersion(c)]

(***************************************************************************)
(* uq_household_diner_active_name and uq_household_diner_member.  A row    *)
(* that clashes with one that another transaction is writing waits for the *)
(* end of that transaction; one that clashes with a stored row fails.      *)
(***************************************************************************)
Clash(a, b) ==
  \/ Active(a) /\ Active(b) /\ a.name = b.name
  \/ a.version > 0 /\ b.version > 0 /\ a.link = b.link /\ a.link # NoUser

Settled(c, d, row) ==
  \A o \in Call \ {c} : \A e \in DOMAIN write[o].diner \ {d} :
    ~Clash(row, write[o].diner[e]) /\ ~Clash(row, household_diner[e])
Clashes(d, row) == \E e \in DinerId \ {d} : Clash(row, household_diner[e])

Flush(c, w) ==
  /\ write' = [write EXCEPT ![c] = w]
  /\ pc' = [pc EXCEPT ![c] = "written"]
  /\ UNCHANGED <<rows, member, diner_lock, memory_lock, request, seen, history>>

\* The transaction of an insertion that failed is rolled back; a creation with
\* a key then looks for its receipt once more.
Fail(c) ==
  IF request[c].op \in Creations /\ request[c].key # NoKey
  THEN /\ pc' = [pc EXCEPT ![c] = "again"]
       /\ EndTransaction(c)
       /\ UNCHANGED <<rows, member, request, history>>
  ELSE Refuse(c)

FlushDiner(c) ==
  /\ pc[c] = "flush" /\ request[c].op \in OfDiner
  /\ \E d \in IF request[c].op = "create_diner" THEN NewDiner ELSE {request[c].id} :
       /\ Settled(c, d, DinerRow(c))
       /\ IF Clashes(d, DinerRow(c)) THEN Fail(c)
          ELSE Flush(c, [NoWrite EXCEPT !.diner = Only(d, DinerRow(c))])

FlushMemory(c) ==
  /\ pc[c] = "flush" /\ request[c].op \notin OfDiner
  /\ \E m \in IF request[c].op \in Creations THEN NewMemory ELSE {request[c].id} :
       Flush(c, [NoWrite EXCEPT !.memory = Only(m, MemoryRow(c))])

\* The bound on rows: nothing is created when the identifiers are used up.
NoRoom(c) ==
  /\ pc[c] = "flush" /\ request[c].op \in Creations
  /\ IF request[c].op = "create_diner" THEN NewDiner = {} ELSE NewMemory = {}
  /\ Refuse(c)

Receipt(c, id) ==
  [op |-> Operation(request[c]), key |-> request[c].key, hash |-> Fingerprint(request[c]),
   id |-> id]

ActiveMemories ==
  {m \in MemoryId : Active(household_memory[m])
                    /\ household_memory[m].diner \in ActiveDiners \cup {Household}}
InProfile == {<<m, household_memory[m].diner>> : m \in ActiveMemories}

Commit(c) ==
  LET q == request[c]
      id == CHOOSE x \in DOMAIN write[c].diner \cup DOMAIN write[c].memory : TRUE
  IN
  /\ pc[c] = "written"
  /\ q.op \in Creations => Receipts(q) = {}
  /\ household_diner' = Over(write[c].diner, household_diner)
  /\ household_memory' = Over(write[c].memory, household_memory)
  /\ meal_plan_operation' = meal_plan_operation \cup
       (IF q.op \in Creations /\ q.key # NoKey THEN {Receipt(c, id)} ELSE {})
  /\ steady' = [o \in Call |-> steady[o] \cap InProfile']
  /\ Answered(c, id)
  /\ UNCHANGED <<member, profile, late>>

\* The receipt's own unique constraint.
CommitRefused(c) ==
  /\ pc[c] = "written"
  /\ request[c].op \in Creations /\ Receipts(request[c]) # {}
  /\ Fail(c)

ReplayAfterRollback(c) ==
  /\ pc[c] = "again"
  /\ IF Same(request[c]) = {} THEN Refuse(c)
     ELSE \E r \in Same(request[c]) : Tell(c, r.id)

(***************************************************************************)
(* get_memory_profile: the memories with their diners, then the diners.    *)
(***************************************************************************)
ReadDinerScope(c) ==
  /\ pc[c] = "memories"
  /\ profile' = [profile EXCEPT ![c] = {p \in InProfile : p[2] # Household}]
  /\ steady' = [steady EXCEPT ![c] = InProfile]
  /\ pc' = [pc EXCEPT ![c] = "diners"]
  /\ UNCHANGED <<rows, member, diner_lock, memory_lock, request, seen, write, late, answer>>

ReadMemories(c) ==
  /\ pc[c] = "memories"
  /\ profile' = [profile EXCEPT ![c] = InProfile]
  /\ steady' = [steady EXCEPT ![c] = InProfile]
  /\ pc' = [pc EXCEPT ![c] = "diners"]
  /\ UNCHANGED <<rows, member, diner_lock, memory_lock, request, seen, write, late, answer>>

ReadDiners(c) ==
  /\ pc[c] = "diners"
  /\ profile' = [profile EXCEPT ![c] = {p \in @ : p[2] \in ActiveDiners \cup {Household}}]
  /\ Answered(c, 0)
  /\ UNCHANGED <<rows, member, late, steady>>
-----------------------------------------------------------------------------
(***************************************************************************)
(* The household and invitation services: a membership ends, or is taken   *)
(* up again.                                                               *)
(***************************************************************************)
Leave(u) == member' = member \ {u} /\ u \in member /\ UNCHANGED <<rows, session, history>>
Join(u) == member' = member \cup {u} /\ u \notin member /\ UNCHANGED <<rows, session, history>>

Step(c) ==
  \/ Respond(c)
  \/ LookupByName(c) \/ FindDiner(c) \/ RefuseName(c) \/ LookupReceipt(c)
  \/ Load(c) \/ RefuseLoad(c) \/ LockRow(c) \/ RefuseLock(c)
  \/ CheckName(c) \/ CheckMember(c) \/ CheckLink(c) \/ LockScope(c)
  \/ FlushDiner(c) \/ FlushMemory(c) \/ NoRoom(c)
  \/ Commit(c) \/ CommitRefused(c) \/ ReplayAfterRollback(c)
  \/ ReadMemories(c) \/ ReadDiners(c)

\* Nobody has to send another request.
Quiet == (\A c \in Call : pc[c] = "idle") /\ UNCHANGED vars

Next ==
  \/ \E c \in Call : Step(c) \/ Crash(c) \/ \E q \in Request : Receive(c, q)
  \/ \E u \in User : Leave(u) \/ Join(u)
  \/ Quiet

Spec == Init /\ [][Next]_vars
-----------------------------------------------------------------------------

\* FR-011: a memory is given only to a diner that is active when the memory
\* is committed, whoever archives diners meanwhile.
MemoryJoinsActiveDiner ==
  [][\A m \in MemoryId :
       household_memory'[m].diner \notin {household_memory[m].diner, Household}
         => household_memory'[m].diner \in ActiveDiners']_vars

\* US2, scenario 9: a retry that arrives after its first attempt was committed
\* is answered with the row of that attempt, although its diner may have been
\* renamed or archived, or its name may be in use by now.
LateRetryIsReplayed ==
  \A c \in Call : pc[c] = "told" /\ late[c] # 0 => answer[c] = late[c]

\* FR-008 and FR-018: what is active, with the same active diner, as long as a
\* profile is read is in the profile, which takes two statements.
ProfileShowsWhatStayed ==
  \A c \in Call : pc[c] = "told" => steady[c] \subseteq profile[c]
=============================================================================
