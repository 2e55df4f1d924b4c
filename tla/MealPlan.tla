------------------------------ MODULE MealPlan ------------------------------
(***************************************************************************)
(* The weekly meal plan of a household and the preparation tasks derived   *)
(* from it: create_plan, add_entry, update_entry, delete_entry and         *)
(* transition_plan of application/planning_service.py, with                *)
(* reconcile_derived_tasks, create_manual_task and transition_task of      *)
(* preparation_service.py.                                                 *)
(*                                                                         *)
(* Each element of Call is a worker that serves one request after another, *)
(* each in a READ COMMITTED transaction of its own.  A transaction takes   *)
(* the row lock of its plan (or task) and keeps it until it ends; what it  *)
(* writes is held in write and becomes visible when it commits.  Around    *)
(* the workers members join and leave and recipes are archived.            *)
(*                                                                         *)
(* A request comes over HTTP with the version its client has loaded, or    *)
(* through an MCP tool (mcp |-> TRUE), which loads the plan itself and     *)
(* passes its version on.  The session keeps the plan the tool holds: the  *)
(* later SELECT ... FOR UPDATE locks the row and does not refresh it.  The *)
(* tool on tasks holds only a response, its session reads the task again.  *)
(*                                                                         *)
(* One household and one week are modelled.  A slot stands for the date,   *)
(* meal type and position of an entry, servings and notes are left out.    *)
(***************************************************************************)
EXTENDS Integers, Sequences, FiniteSets

CONSTANTS
  Call,        \* workers
  User,        \* the people who are or may become members of the household
  PlanId,      \* identifiers of meal_plan rows, a range 1..n
  EntryId,     \* identifiers of meal_plan_entry rows, a range 1..n
  Slot,        \* places an entry can have in the week
  Recipe,      \* published recipe versions
  Rule,        \* preparation rules
  RulesOf,     \* the rules of every recipe version
  MaxManual,   \* bound on the tasks that members add themselves
  Request,     \* what the members send
  MaxVersion,  \* bound on the mutations of a plan: no request is sent beyond it
  MaxLag,      \* bound on how stale the version of a request is
  NoCall, NoKey, Unset

EntryOps == {"add_entry", "update_entry", "delete_entry"}
TransitionOps == {"propose", "approve", "reopen", "archive"}
PlanOps == EntryOps \cup TransitionOps
TaskOps == {"complete", "cancel"}

\* A derived task is known by its entry and its rule, the two its fingerprint
\* is made of; a task that a member has added belongs to no entry.
DerivedTask == EntryId \X Rule
ManualTask == {0} \X (1..MaxManual)
Task == DerivedTask \cup ManualTask

\* What the schemas of the API and of the tools let through.
WellFormed(q) ==
  /\ q.op \in PlanOps \cup TaskOps \cup {"create", "create_task"}
  /\ q.actor \in User
  /\ q.mcp \in BOOLEAN /\ (q.mcp => q.op \in PlanOps)
  /\ q.op \in PlanOps => q.plan \in PlanId
  /\ q.op = "add_entry" => q.recipe # Unset /\ q.slot # Unset
  /\ q.op \in {"update_entry", "delete_entry"} => q.entry \in EntryId
  /\ q.op \in TaskOps => q.task \in Task

ASSUME PlanAssumption ==
  /\ RulesOf \in [Recipe -> SUBSET Rule]
  /\ PlanId \cup EntryId \subseteq Nat \ {0}
  /\ NoCall \notin Call \cup User
  /\ \A q \in Request : WellFormed(q)

VARIABLES
  meal_plan,              \* MealPlan rows: state and version
  meal_plan_entry,        \* MealPlanEntry rows
  meal_plan_state_event,  \* MealPlanStateEvent rows, in the order of commits
  preparation_task,       \* PreparationTask rows
  operation_receipt,      \* MealPlanOperation and PreparationOperation rows
  active,                 \* members whose status is active
  published,              \* recipe versions that may be planned
  plan_lock, task_lock,   \* holders of the row locks
  pc, request,
  seen,                   \* the plan an MCP tool has loaded, without a lock
  started,                \* state events committed when the transaction began
  write,                  \* what the transaction has flushed
  together,               \* history: two members were active ever since
  mutations               \* history: how often each plan was mutated

rows == <<meal_plan, meal_plan_entry, meal_plan_state_event, preparation_task,
          operation_receipt>>
household == <<active, published>>
locks == <<plan_lock, task_lock>>
vars == <<rows, household, locks, pc, request, seen, started, write, together, mutations>>

NoPlan == [state |-> "absent", version |-> 0]
NoEntry == [plan |-> 0, recipe |-> Unset, slot |-> 0]
NoTask == [status |-> "absent", version |-> 0, due |-> 0]
NoWrite == [plan |-> <<>>, entry |-> <<>>, task |-> <<>>, event |-> <<>>]
NoRequest == [op |-> "none", key |-> NoKey, mcp |-> FALSE]

\* A partial function laid over a table, as the rows of an UPDATE are.
Over(changes, table) ==
  [x \in DOMAIN table |-> IF x \in DOMAIN changes THEN changes[x] ELSE table[x]]
Only(x, value) == [y \in {x} |-> value]

fingerprint(q) == [q EXCEPT !.key = NoKey]
Receipts(q) ==
  {r \in operation_receipt : q.key # NoKey /\ r.op = q.op /\ r.key = q.key}

\* FOR UPDATE waits while another transaction holds the row.
PlanFreeIgnored(c, p) == TRUE
PlanFree(c, p) == plan_lock[p] \in {NoCall, c}
TaskFreeIgnored(c, t) == TRUE
TaskFree(c, t) == task_lock[t] \in {NoCall, c}

\* The end of a transaction releases its locks.
Released(lock, c) == [x \in DOMAIN lock |-> IF lock[x] = c THEN NoCall ELSE lock[x]]

EntriesOf(p) == {e \in EntryId : meal_plan_entry[e].plan = p}

Init ==
  /\ meal_plan = [p \in PlanId |-> NoPlan]
  /\ meal_plan_entry = [e \in EntryId |-> NoEntry]
  /\ meal_plan_state_event = <<>>
  /\ preparation_task = [t \in Task |-> NoTask]
  /\ operation_receipt = {}
  /\ active \in (SUBSET User) \ {{}}
  /\ published = Recipe
  /\ plan_lock = [p \in PlanId |-> NoCall]
  /\ task_lock = [t \in Task |-> NoCall]
  /\ pc = [c \in Call |-> "idle"]
  /\ request = [c \in Call |-> NoRequest]
  /\ seen = [c \in Call |-> NoPlan]
  /\ started = [c \in Call |-> 0]
  /\ write = [c \in Call |-> NoWrite]
  /\ together = [c \in Call |-> FALSE]
  /\ mutations = [p \in PlanId |-> 0]

-----------------------------------------------------------------------------
(***************************************************************************)
(* A transaction begins with the membership of the caller and the receipt  *)
(* of its key.  The version a request names was loaded by the client, so   *)
(* it is one the row has had.  An answered worker is idle again.           *)
(***************************************************************************)
Loaded(expected, version) == expected \in 1..version /\ version - expected <= MaxLag

CanSend(q) ==
  /\ q.actor \in active
  /\ q.op \in PlanOps /\ ~q.mcp => Loaded(q.expected_version, meal_plan[q.plan].version)
  /\ q.op \in TaskOps => Loaded(q.expected_version, preparation_task[q.task].version)
  /\ \A p \in PlanId : mutations[p] < MaxVersion

Receive(c, q) ==
  /\ pc[c] = "idle"
  /\ CanSend(q)
  /\ Receipts(q) = {}
  /\ pc' = [pc EXCEPT ![c] = IF q.mcp THEN "load" ELSE "open"]
  /\ request' = [request EXCEPT ![c] = q]
  /\ started' = [started EXCEPT ![c] = Len(meal_plan_state_event)]
  /\ together' = [together EXCEPT ![c] = Cardinality(active) >= 2]
  /\ UNCHANGED <<rows, household, locks, seen, write, mutations>>

EndTransaction(c) ==
  /\ pc' = [pc EXCEPT ![c] = "idle"]
  /\ request' = [request EXCEPT ![c] = NoRequest]
  /\ seen' = [seen EXCEPT ![c] = NoPlan]
  /\ started' = [started EXCEPT ![c] = 0]
  /\ together' = [together EXCEPT ![c] = FALSE]
  /\ write' = [write EXCEPT ![c] = NoWrite]
  /\ plan_lock' = Released(plan_lock, c)
  /\ task_lock' = Released(task_lock, c)

\* A DomainError or a lost connection: everything of the transaction is gone.
Rollback(c) == EndTransaction(c) /\ UNCHANGED <<rows, household, mutations>>

Flush(c, w, next) ==
  /\ write' = [write EXCEPT ![c] = w]
  /\ pc' = [pc EXCEPT ![c] = next]
  /\ UNCHANGED <<rows, household, request, seen, started, together, mutations>>

(***************************************************************************)
(* The tools load their plan before they call the service.  Those that     *)
(* name a week do not find a plan that is archived.                        *)
(***************************************************************************)
Found(q) ==
  /\ meal_plan[q.plan] # NoPlan
  /\ q.op \in TransitionOps \cup {"add_entry"} => meal_plan[q.plan].state # "archived"

Load(c) ==
  /\ pc[c] = "load" /\ Found(request[c])
  /\ seen' = [seen EXCEPT ![c] = meal_plan[request[c].plan]]
  /\ pc' = [pc EXCEPT ![c] = "open"]
  /\ UNCHANGED <<rows, household, locks, request, started, write, together, mutations>>

RefuseLoad(c) == pc[c] = "load" /\ ~Found(request[c]) /\ Rollback(c)

\* The plan as the session has it under the lock, and the version expected of it.
InSession(c) == IF request[c].mcp THEN seen[c] ELSE meal_plan[request[c].plan]
Expected(c) == IF request[c].mcp THEN seen[c].version ELSE request[c].expected_version
-----------------------------------------------------------------------------
(***************************************************************************)
(* create_plan.  The insertion waits for a transaction that has written a  *)
(* plan of the week, then ix_meal_plan_active_week decides.                *)
(***************************************************************************)
ActivePlans == {p \in PlanId : meal_plan[p].state \notin {"absent", "archived"}}
WeekSettled(c) == \A d \in Call \ {c} : DOMAIN write[d].plan = {}
UnusedPlans == {p \in PlanId : meal_plan[p] = NoPlan}

StateEvent(c, p, from, to) ==
  [plan |-> p, from |-> from, to |-> to, actor |-> request[c].actor, at |-> started[c]]

CreatePlan(c) ==
  /\ pc[c] = "open" /\ request[c].op = "create"
  /\ WeekSettled(c)
  /\ ActivePlans = {}
  /\ \E p \in UnusedPlans :
       /\ \A o \in UnusedPlans : p <= o
       /\ Flush(c, [NoWrite EXCEPT !.plan = Only(p, [state |-> "draft", version |-> 1]),
                                   !.event = <<StateEvent(c, p, "absent", "draft")>>],
                "written")
  /\ UNCHANGED locks

RefuseCreation(c) ==
  /\ pc[c] = "open" /\ request[c].op = "create"
  /\ WeekSettled(c)
  /\ ActivePlans # {}
  /\ Rollback(c)

(***************************************************************************)
(* add_entry, update_entry and delete_entry, under the lock of the plan.   *)
(***************************************************************************)
assert_version(expected, current) == expected = current
can_edit_entries(state) == state = "draft"

\* uq_meal_plan_entry_slot
SlotTaken(p, slot, e) == \E o \in EntriesOf(p) \ {e} : meal_plan_entry[o].slot = slot
UnusedEntries ==
  {e \in EntryId : /\ meal_plan_entry[e] = NoEntry
                   /\ \A r \in Rule : preparation_task[<<e, r>>] = NoTask
                   /\ \A d \in Call : e \notin DOMAIN write[d].entry}

\* What an update leaves unset stays as it is.
Patched(q) ==
  LET entry == meal_plan_entry[q.entry] IN
  [entry EXCEPT !.recipe = IF q.recipe = Unset THEN @ ELSE q.recipe,
                !.slot = IF q.slot = Unset THEN @ ELSE q.slot]

\* fk_preparation_task_entry_household has no ON DELETE: a task of whatever
\* status keeps its entry.
Removable(e) == \A r \in Rule : preparation_task[<<e, r>>] = NoTask

CanEdit(c) ==
  LET q == request[c] IN
  /\ assert_version(Expected(c), InSession(c).version)
  /\ can_edit_entries(InSession(c).state)
  /\ q.op # "add_entry" => q.entry \in EntriesOf(q.plan)
  /\ q.op # "delete_entry" =>
       /\ q.slot \in Slot \cup {Unset}
       /\ q.recipe \in published \cup {Unset}
  /\ q.op = "add_entry" => ~SlotTaken(q.plan, q.slot, 0)
  /\ q.op = "update_entry" => ~SlotTaken(q.plan, Patched(q).slot, q.entry)
  /\ q.op = "delete_entry" => Removable(q.entry)

\* The entry that an edit is about, and what becomes of it.
Changed(q) ==
  IF q.op = "add_entry" THEN {e \in UnusedEntries : \A o \in UnusedEntries : e <= o}
  ELSE {q.entry}
Edited(q) ==
  CASE q.op = "add_entry" -> [plan |-> q.plan, recipe |-> q.recipe, slot |-> q.slot]
    [] q.op = "update_entry" -> Patched(q)
    [] q.op = "delete_entry" -> NoEntry

EditEntry(c) ==
  LET q == request[c] IN
  /\ pc[c] = "open" /\ q.op \in EntryOps
  /\ PlanFree(c, q.plan)
  /\ CanEdit(c)
  /\ plan_lock' = [plan_lock EXCEPT ![q.plan] = c]
  /\ \E e \in Changed(q) :
       Flush(c, [NoWrite EXCEPT
                   !.plan = Only(q.plan, [meal_plan[q.plan] EXCEPT
                                            !.version = InSession(c).version + 1]),
                   !.entry = Only(e, Edited(q))],
             "written")
  /\ UNCHANGED task_lock

RefuseEdit(c) ==
  LET q == request[c] IN
  /\ pc[c] = "open" /\ q.op \in EntryOps
  /\ PlanFree(c, q.plan)
  /\ ~CanEdit(c)
  /\ Rollback(c)

(***************************************************************************)
(* transition_plan.  The latest proposal is the one whose transaction      *)
(* began last: created_at defaults to now(), the start of the transaction. *)
(***************************************************************************)
Allowed(op) ==
  CASE op = "propose" -> {"draft"}
    [] op = "approve" -> {"proposed"}
    [] op = "reopen" -> {"proposed", "approved"}
    [] op = "archive" -> {"draft", "proposed", "approved"}
Target(op) ==
  CASE op = "propose" -> "proposed"
    [] op = "approve" -> "approved"
    [] op = "reopen" -> "draft"
    [] op = "archive" -> "archived"

Proposals(p) ==
  {i \in DOMAIN meal_plan_state_event :
     meal_plan_state_event[i].plan = p /\ meal_plan_state_event[i].to = "proposed"}
ProposedFirst(p) ==
  {meal_plan_state_event[i].actor : i \in
     {j \in Proposals(p) : \A k \in Proposals(p) : meal_plan_state_event[j].at <= meal_plan_state_event[k].at}}
ProposedBy(p) ==
  {meal_plan_state_event[i].actor : i \in
     {j \in Proposals(p) : \A k \in Proposals(p) : meal_plan_state_event[k].at <= meal_plan_state_event[j].at}}

apply_transition(q, state, proposed_by, active_member_count) ==
  /\ state \in Allowed(q.op)
  /\ q.op = "approve" /\ active_member_count >= 2 => proposed_by # q.actor
  /\ q.op = "reopen" /\ state = "approved" => q.note

\* A plan that was archived since a tool has loaded it meets
\* ix_meal_plan_active_week.
WeekIsFree(q) == Target(q.op) = "archived" \/ ActivePlans \subseteq {q.plan}

CanTransition(c, proposed_by) ==
  /\ assert_version(Expected(c), InSession(c).version)
  /\ WeekIsFree(request[c])
  /\ apply_transition(request[c], InSession(c).state, proposed_by, Cardinality(active))

\* NoCall stands for a plan that was never proposed.
LatestProposer(p) == IF Proposals(p) = {} THEN {NoCall} ELSE ProposedBy(p)

TransitionPlan(c) ==
  LET q == request[c]
      p == q.plan
  IN
  /\ pc[c] = "open" /\ q.op \in TransitionOps
  /\ PlanFree(c, p)
  /\ q.op # "archive" => WeekSettled(c)
  /\ \E u \in LatestProposer(p) : CanTransition(c, u)
  /\ plan_lock' = [plan_lock EXCEPT ![p] = c]
  /\ Flush(c, [NoWrite EXCEPT
                 !.plan = Only(p, [state |-> Target(q.op), version |-> InSession(c).version + 1]),
                 !.event = <<StateEvent(c, p, InSession(c).state, Target(q.op))>>],
           IF q.op = "approve" THEN "derive" ELSE "written")
  /\ UNCHANGED task_lock

RefuseTransition(c) ==
  LET q == request[c] IN
  /\ pc[c] = "open" /\ q.op \in TransitionOps
  /\ PlanFree(c, q.plan)
  /\ \E u \in LatestProposer(q.plan) : ~CanTransition(c, u)
  /\ Rollback(c)
-----------------------------------------------------------------------------
(***************************************************************************)
(* reconcile_derived_tasks, in the transaction of the approval.  It waits  *)
(* for members who complete or cancel a task of the plan.                  *)
(***************************************************************************)
Desired(p) == {t \in DerivedTask : t[1] \in EntriesOf(p) /\ t[2] \in RulesOf[meal_plan_entry[t[1]].recipe]}
Existing(p) == {t \in DerivedTask : t[1] \in EntriesOf(p) /\ preparation_task[t] # NoTask}

StaleNever(p) == {}
Stale(p) == {t \in Existing(p) \ Desired(p) : preparation_task[t].status = "pending"}

Missing(p) == Desired(p) \ Existing(p)

Reconciled(p) ==
  [t \in Stale(p) \cup Missing(p) |->
     IF t \in Stale(p)
     THEN [preparation_task[t] EXCEPT !.status = "cancelled", !.version = @ + 1]
     ELSE [status |-> "pending", version |-> 1, due |-> meal_plan_entry[t[1]].slot]]

DeriveTasks(c) ==
  LET p == request[c].plan IN
  /\ pc[c] = "derive"
  /\ \A t \in Existing(p) : TaskFree(c, t)
  /\ task_lock' = [t \in Task |-> IF t \in Existing(p) THEN c ELSE task_lock[t]]
  /\ Flush(c, [write[c] EXCEPT !.task = Reconciled(p)], "written")
  /\ UNCHANGED plan_lock

(***************************************************************************)
(* create_manual_task locks nothing; what its payload may hold is reduced  *)
(* to whether it is valid.                                                 *)
(***************************************************************************)
UnusedTasks ==
  {t \in ManualTask : preparation_task[t] = NoTask /\ \A d \in Call : t \notin DOMAIN write[d].task}

CreateTask(c) ==
  /\ pc[c] = "open" /\ request[c].op = "create_task"
  /\ request[c].valid
  /\ UnusedTasks # {}
  /\ \E t \in UnusedTasks :
       Flush(c, [NoWrite EXCEPT !.task = Only(t, [status |-> "pending", version |-> 1, due |-> 0])],
             "written")
  /\ UNCHANGED locks

RefuseTaskCreation(c) ==
  /\ pc[c] = "open" /\ request[c].op = "create_task"
  /\ ~request[c].valid
  /\ Rollback(c)

(***************************************************************************)
(* transition_task, under the lock of the task alone: the plan of a        *)
(* derived task may change meanwhile.                                      *)
(***************************************************************************)
CanResolve(q) ==
  /\ assert_version(q.expected_version, preparation_task[q.task].version)
  /\ preparation_task[q.task].status = "pending"

Resolved(q) ==
  [preparation_task[q.task] EXCEPT
     !.version = @ + 1,
     !.status = IF q.op = "complete" THEN "completed" ELSE "cancelled"]

TransitionTask(c) ==
  LET q == request[c] IN
  /\ pc[c] = "open" /\ q.op \in TaskOps
  /\ TaskFree(c, q.task)
  /\ CanResolve(q)
  /\ task_lock' = [task_lock EXCEPT ![q.task] = c]
  /\ Flush(c, [NoWrite EXCEPT !.task = Only(q.task, Resolved(q))], "written")
  /\ UNCHANGED plan_lock

RefuseTask(c) ==
  LET q == request[c] IN
  /\ pc[c] = "open" /\ q.op \in TaskOps
  /\ TaskFree(c, q.task)
  /\ ~CanResolve(q)
  /\ Rollback(c)
-----------------------------------------------------------------------------
(***************************************************************************)
(* _commit_or_replay.  The domain events of an approval or a reopening are *)
(* written beside its state event and left out.                            *)
(***************************************************************************)
Commit(c) ==
  LET w == write[c]
      q == request[c]
  IN
  /\ pc[c] = "written"
  /\ Receipts(q) = {}
  /\ meal_plan' = Over(w.plan, meal_plan)
  /\ meal_plan_entry' = Over(w.entry, meal_plan_entry)
  /\ preparation_task' = Over(w.task, preparation_task)
  /\ meal_plan_state_event' = meal_plan_state_event \o w.event
  /\ operation_receipt' = operation_receipt \cup (IF q.key = NoKey THEN {} ELSE {q})
  /\ mutations' = [p \in PlanId |-> mutations[p] + IF p \in DOMAIN w.plan THEN 1 ELSE 0]
  /\ EndTransaction(c)
  /\ UNCHANGED household

\* uq_meal_plan_operation_idempotency: the stored answer, or a conflict.
CommitRefused(c) ==
  /\ pc[c] = "written"
  /\ Receipts(request[c]) # {}
  /\ Rollback(c)

Crash(c) == pc[c] # "idle" /\ Rollback(c)

Step(c) ==
  \/ Load(c) \/ RefuseLoad(c)
  \/ CreatePlan(c) \/ RefuseCreation(c)
  \/ EditEntry(c) \/ RefuseEdit(c)
  \/ TransitionPlan(c) \/ RefuseTransition(c) \/ DeriveTasks(c)
  \/ CreateTask(c) \/ RefuseTaskCreation(c)
  \/ TransitionTask(c) \/ RefuseTask(c)
  \/ Commit(c) \/ CommitRefused(c)
-----------------------------------------------------------------------------
(***************************************************************************)
(* The household around the workers: invitations accepted, members         *)
(* revoked, recipes archived or superseded by another version.             *)
(***************************************************************************)
ChangeMembers(members) ==
  /\ active' = members
  /\ together' = [c \in Call |-> together[c] /\ Cardinality(members) >= 2]
  /\ UNCHANGED <<rows, published, locks, pc, request, seen, started, write, mutations>>
Join(u) == u \notin active /\ ChangeMembers(active \cup {u})
Leave(u) == u \in active /\ Cardinality(active) >= 2 /\ ChangeMembers(active \ {u})

Unpublish(r) ==
  /\ r \in published
  /\ published' = published \ {r}
  /\ UNCHANGED <<rows, active, locks, pc, request, seen, started, write, together, mutations>>

Environment == (\E u \in User : Join(u) \/ Leave(u)) \/ \E r \in Recipe : Unpublish(r)

\* Nobody has to send another request.
Quiet == (\A c \in Call : pc[c] = "idle") /\ UNCHANGED vars

Next ==
  \/ \E c \in Call : Step(c) \/ Crash(c) \/ \E q \in Request : Receive(c, q)
  \/ Environment
  \/ Quiet

Spec == Init /\ [][Next]_vars
-----------------------------------------------------------------------------
State == {"draft", "proposed", "approved", "archived"}
PlanType == [state : State, version : Nat \ {0}]
EntryType == [plan : PlanId, recipe : Recipe, slot : Slot]
TaskType == [status : {"pending", "completed", "cancelled"}, version : Nat \ {0},
             due : Slot \cup {0}]
EventType == [plan : PlanId, from : State \cup {"absent"}, to : State, actor : User, at : Nat]

\* Every row has its type, and so has what the transactions have flushed.
RowTypes ==
  /\ meal_plan \in [PlanId -> PlanType \cup {NoPlan}]
  /\ meal_plan_entry \in [EntryId -> EntryType \cup {NoEntry}]
  /\ meal_plan_state_event \in Seq(EventType)
  /\ preparation_task \in [Task -> TaskType \cup {NoTask}]
  /\ operation_receipt \subseteq Request
  /\ active \subseteq User /\ published \subseteq Recipe
  /\ mutations \in [PlanId -> Nat]

WorkerTypes ==
  /\ plan_lock \in [PlanId -> Call \cup {NoCall}]
  /\ task_lock \in [Task -> Call \cup {NoCall}]
  /\ pc \in [Call -> {"idle", "load", "open", "derive", "written"}]
  /\ request \in [Call -> Request \cup {NoRequest}]
  /\ seen \in [Call -> PlanType \cup {NoPlan}]
  /\ started \in [Call -> Nat]
  /\ together \in [Call -> BOOLEAN]

WriteTyped(w) ==
  /\ \A p \in DOMAIN w.plan : p \in PlanId /\ w.plan[p] \in PlanType
  /\ \A e \in DOMAIN w.entry : e \in EntryId /\ w.entry[e] \in EntryType \cup {NoEntry}
  /\ \A t \in DOMAIN w.task : t \in Task /\ w.task[t] \in TaskType
  /\ w.event \in Seq(EventType)

TypeOK == RowTypes /\ WorkerTypes /\ \A c \in Call : WriteTyped(write[c])

\* FR-004 and US5: while a plan is approved, every rule of every entry has its
\* task, and no task of another rule is still pending.
ApprovedPlanIsPrepared ==
  \A p \in PlanId :
    meal_plan[p].state = "approved" =>
      \A e \in EntriesOf(p), r \in Rule :
        IF r \in RulesOf[meal_plan_entry[e].recipe]
        THEN preparation_task[<<e, r>>].status # "absent"
        ELSE preparation_task[<<e, r>>].status # "pending"

\* US4: who approves a plan is not who proposed it last, unless the household
\* was down to one active member at some time while the approval ran.
FourEyes ==
  [][\A p \in PlanId, c \in Call :
       /\ pc[c] = "written" /\ request[c].op = "approve" /\ request[c].plan = p
       /\ meal_plan[p].state = "proposed" /\ meal_plan'[p].state = "approved"
       /\ together[c]
       => \A i \in Proposals(p) :
            (\A j \in Proposals(p) : j <= i)
              => meal_plan_state_event[i].actor # request[c].actor]_vars

\* FR-003: entries change only while their plan is a draft, at the very commit.
EntriesChangeInDraft ==
  [][\A e \in EntryId :
       meal_plan_entry'[e] # meal_plan_entry[e] =>
         \A p \in {meal_plan_entry[e].plan, meal_plan_entry'[e].plan} \cap PlanId :
           meal_plan[p].state = "draft"]_vars

\* FR-004 and FR-005: derivation and members resolve a task once; a completed
\* or cancelled task never changes again, and no task disappears.
ResolvedIsFinal ==
  [][\A t \in Task :
       LET old == preparation_task[t]
           new == preparation_task'[t]
       IN
       /\ old.status \in {"completed", "cancelled"} => new = old
       /\ old.status = "pending" /\ new # old =>
            new.status \in {"completed", "cancelled"} /\ new.version = old.version + 1]_vars
=============================================================================
