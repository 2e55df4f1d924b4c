--------------------------- MODULE MealPlanProofs ---------------------------
(***************************************************************************)
(* What MealPlan promises for any number of workers, people, plans and     *)
(* entries: a resolved task never changes again, entries change in drafts, *)
(* an approved plan is prepared, and two pairs of eyes see a plan.  The    *)
(* first holds whatever is sent; the others name the requests of agents    *)
(* that break them.                                                        *)
(***************************************************************************)
EXTENDS MealPlan, SequenceTheorems, TLAPS

(***************************************************************************)
(* The inductive invariant.  What a worker has flushed is still what it    *)
(* would flush on the rows as they are: the locks of its plan and tasks    *)
(* keep the others away from them until it commits.                        *)
(***************************************************************************)
PlanRow(c, state) == [state |-> state, version |-> InSession(c).version + 1]

CreationWritten(c) ==
  /\ request[c].op = "create"
  /\ \E p \in PlanId :
       /\ meal_plan[p] = NoPlan
       /\ write[c] = [plan |-> Only(p, [state |-> "draft", version |-> 1]), entry |-> <<>>,
                      task |-> <<>>, event |-> <<StateEvent(c, p, "absent", "draft")>>]

EditWritten(c) ==
  LET q == request[c] IN
  /\ q.op \in EntryOps
  /\ plan_lock[q.plan] = c
  /\ ~q.mcp => /\ meal_plan[q.plan].state = "draft"
               /\ q.expected_version = meal_plan[q.plan].version
  /\ \E e \in EntryId, row \in EntryType \cup {NoEntry} :
       /\ IF q.op = "add_entry" THEN meal_plan_entry[e] = NoEntry
                                ELSE meal_plan_entry[e].plan = q.plan
       /\ row.plan \in {q.plan, 0}
       /\ write[c] = [plan |-> Only(q.plan, PlanRow(c, meal_plan[q.plan].state)),
                      entry |-> Only(e, row), task |-> <<>>, event |-> <<>>]

Derived(c) == request[c].op = "approve" /\ pc[c] = "written"
TransitionWritten(c) ==
  LET q == request[c] IN
  /\ q.op \in TransitionOps
  /\ plan_lock[q.plan] = c
  /\ ~q.mcp => q.expected_version = meal_plan[q.plan].version
  /\ Derived(c) => \A t \in Existing(q.plan) : task_lock[t] = c
  /\ write[c] = [plan |-> Only(q.plan, PlanRow(c, Target(q.op))), entry |-> <<>>,
                 task |-> IF Derived(c) THEN Reconciled(q.plan) ELSE <<>>,
                 event |-> <<StateEvent(c, q.plan, InSession(c).state, Target(q.op))>>]

TaskCreationWritten(c) ==
  /\ request[c].op = "create_task"
  /\ \E t \in ManualTask :
       /\ preparation_task[t] = NoTask
       /\ write[c] = [plan |-> <<>>, entry |-> <<>>, event |-> <<>>,
                      task |-> Only(t, [status |-> "pending", version |-> 1, due |-> 0])]

ResolutionWritten(c) ==
  LET q == request[c] IN
  /\ q.op \in TaskOps
  /\ task_lock[q.task] = c
  /\ preparation_task[q.task].status = "pending"
  /\ write[c] = [plan |-> <<>>, entry |-> <<>>, event |-> <<>>,
                 task |-> Only(q.task, Resolved(q))]

Written(c) ==
  \/ CreationWritten(c) \/ EditWritten(c) \/ TransitionWritten(c)
  \/ TaskCreationWritten(c) \/ ResolutionWritten(c)

\* A request about a plan found it: plans are never deleted.
Session(c) ==
  LET q == request[c] IN
  /\ pc[c] # "idle" => q \in Request
  /\ pc[c] = "load" => q.mcp
  /\ pc[c] \in {"open", "derive", "written"} /\ q.op \in PlanOps =>
       meal_plan[q.plan] # NoPlan /\ (q.mcp => seen[c] # NoPlan)
  /\ pc[c] \in {"idle", "load", "open"} => write[c] = NoWrite
  /\ pc[c] = "derive" => q.op = "approve" /\ TransitionWritten(c)
  /\ pc[c] = "written" => Written(c)

\* Two workers never write one row.
Creates(c) == pc[c] = "written" /\ request[c].op = "create"
OneCreation == \A c, d \in Call : Creates(c) /\ Creates(d) => c = d
OwnEntries ==
  \A c, d \in Call : c # d => DOMAIN write[c].entry \cap DOMAIN write[d].entry = {}
OwnTasks ==
  \A c, d \in Call : c # d => DOMAIN write[c].task \cap DOMAIN write[d].task = {}
Apart == OneCreation /\ OwnEntries /\ OwnTasks

Types == TypeOK /\ write = [c \in Call |-> write[c]]

IInv == Types /\ Apart /\ \A c \in Call : Session(c)
-----------------------------------------------------------------------------
(***************************************************************************)
(* Requests, rows and tables.                                              *)
(***************************************************************************)

LEMMA RequestTyped ==
  ASSUME NEW q \in Request
  PROVE  /\ q.op \in PlanOps \cup TaskOps \cup {"create", "create_task"}
         /\ q.actor \in User
         /\ q.mcp \in BOOLEAN /\ (q.mcp => q.op \in PlanOps)
         /\ q.op \in PlanOps => q.plan \in PlanId
         /\ q.op = "add_entry" => q.recipe # Unset /\ q.slot # Unset
         /\ q.op \in {"update_entry", "delete_entry"} => q.entry \in EntryId
         /\ q.op \in TaskOps => q.task \in Task
BY PlanAssumption DEF WellFormed

LEMMA OpsAreApart ==
  /\ EntryOps \subseteq PlanOps /\ TransitionOps \subseteq PlanOps
  /\ EntryOps \cap TransitionOps = {} /\ PlanOps \cap TaskOps = {}
  /\ {"create", "create_task", "none"} \cap (PlanOps \cup TaskOps) = {}
BY DEF EntryOps, TransitionOps, PlanOps, TaskOps

LEMMA TasksAreApart ==
  /\ DerivedTask \cap ManualTask = {}
  /\ \A t \in DerivedTask : t[1] \in EntryId /\ t[2] \in Rule /\ t = <<t[1], t[2]>>
  /\ \A e \in EntryId, r \in Rule : <<e, r>> \in DerivedTask
  /\ Task = DerivedTask \cup ManualTask
<1>1. 0 \notin EntryId
  BY PlanAssumption
<1> QED  BY <1>1 DEF DerivedTask, ManualTask, Task

LEMMA NoRowIsOne ==
  /\ NoPlan \notin PlanType /\ NoEntry \notin EntryType /\ NoTask \notin TaskType
  /\ \A row \in PlanType : row.state \in State /\ row.version \in Nat \ {0}
  /\ \A row \in EntryType : row.plan \in PlanId
  /\ 0 \notin PlanId /\ NoEntry.plan = 0 /\ NoPlan.version = 0 /\ NoTask.status = "absent"
  /\ \A row \in TaskType : row.status \in {"pending", "completed", "cancelled"}
  /\ \A row \in TaskType : row.version \in Nat \ {0} /\ row.due \in Slot \cup {0}
<1>1. 0 \notin PlanId
  BY PlanAssumption
<1> QED  BY <1>1 DEF NoPlan, PlanType, NoEntry, EntryType, NoTask, TaskType

LEMMA EmptyDomain == DOMAIN <<>> = {}
OBVIOUS

LEMMA OverTyped ==
  ASSUME NEW S, NEW T, NEW table \in [S -> T], NEW changes,
         \A x \in DOMAIN changes : x \in S /\ changes[x] \in T
  PROVE  /\ Over(changes, table) \in [S -> T]
         /\ \A x \in S : x \in DOMAIN changes => Over(changes, table)[x] = changes[x]
         /\ \A x \in S : x \notin DOMAIN changes => Over(changes, table)[x] = table[x]
BY DEF Over

LEMMA StateEventTyped ==
  ASSUME Types, NEW c \in Call, request[c] \in Request, NEW p \in PlanId,
         NEW from \in State \cup {"absent"}, NEW to \in State
  PROVE  StateEvent(c, p, from, to) \in EventType
<1>1. request[c].actor \in User /\ started[c] \in Nat
  BY RequestTyped DEF Types, TypeOK, WorkerTypes
<1> QED  BY <1>1 DEF StateEvent, EventType

LEMMA OneEvent ==
  ASSUME NEW event \in EventType
  PROVE  <<event>> \in Seq(EventType)
OBVIOUS

LEMMA NoEvents == <<>> \in Seq(EventType)
OBVIOUS

\* What a request about a plan has in hand.
LEMMA InSessionTyped ==
  ASSUME Types, NEW c \in Call, Session(c), pc[c] \in {"open", "derive", "written"},
         request[c].op \in PlanOps
  PROVE  /\ request[c] \in Request /\ request[c].plan \in PlanId
         /\ meal_plan[request[c].plan] \in PlanType
         /\ InSession(c) \in PlanType
         /\ \A s \in State : PlanRow(c, s) \in PlanType
<1>1. request[c] \in Request /\ request[c].plan \in PlanId
  BY RequestTyped DEF Session
<1>2. meal_plan[request[c].plan] \in PlanType
  BY <1>1 DEF Session, Types, TypeOK, RowTypes
<1>3. request[c].mcp => seen[c] \in PlanType
  BY DEF Session, Types, TypeOK, WorkerTypes
<1>4. InSession(c) \in PlanType
  BY <1>2, <1>3 DEF InSession
<1>5. InSession(c).version + 1 \in Nat \ {0}
  BY <1>4, NoRowIsOne
<1> QED  BY <1>1, <1>2, <1>4, <1>5 DEF PlanRow, PlanType

LEMMA TargetIs ==
  ASSUME NEW op \in TransitionOps
  PROVE  /\ Target(op) \in State
         /\ Target(op) = "proposed" <=> op = "propose"
         /\ Target(op) = "approved" <=> op = "approve"
BY DEF Target, TransitionOps, State

\* What the derivation writes: it cancels the pending tasks of rules that the
\* entries do not have any more and adds those that are missing.
LEMMA ReconciledIs ==
  ASSUME Types, NEW p \in PlanId
  PROVE  /\ DOMAIN Reconciled(p) = Stale(p) \cup Missing(p)
         /\ Existing(p) \subseteq DerivedTask
         /\ \A t \in DOMAIN Reconciled(p) :
              /\ t \in DerivedTask /\ t[1] \in EntriesOf(p)
              /\ Reconciled(p)[t] \in TaskType
              /\ \/ /\ t \in Existing(p) \ Desired(p)
                    /\ preparation_task[t] \in TaskType /\ preparation_task[t].status = "pending"
                    /\ Reconciled(p)[t].status = "cancelled"
                    /\ Reconciled(p)[t].version = preparation_task[t].version + 1
                 \/ preparation_task[t] = NoTask /\ Reconciled(p)[t].status = "pending"
<1>1. /\ DOMAIN Reconciled(p) = Stale(p) \cup Missing(p)
      /\ Existing(p) \subseteq DerivedTask /\ Stale(p) \subseteq Existing(p)
      /\ Missing(p) \subseteq DerivedTask \ Existing(p)
  BY DEF Reconciled, Existing, Stale, Missing, Desired
<1>2. \A t \in Existing(p) \cup Missing(p) : t[1] \in EntriesOf(p)
  BY DEF Existing, Missing, Desired
<1>3. ASSUME NEW t \in Stale(p)
      PROVE  /\ preparation_task[t] \in TaskType /\ preparation_task[t].status = "pending"
             /\ Reconciled(p)[t] \in TaskType
             /\ Reconciled(p)[t].status = "cancelled"
             /\ Reconciled(p)[t].version = preparation_task[t].version + 1
  <2>1. t \in Task /\ preparation_task[t] # NoTask
    BY <1>1, <1>3, TasksAreApart DEF Existing, Stale
  <2>2. preparation_task[t] \in TaskType
    BY <2>1 DEF Types, TypeOK, RowTypes
  <2> DEFINE row == preparation_task[t]
  <2>3. Reconciled(p)[t] = [row EXCEPT !.status = "cancelled", !.version = row.version + 1]
    BY <1>3 DEF Reconciled
  <2> HIDE DEF row
  <2>4. row \in TaskType
    BY <2>2 DEF row
  <2>5. row.version + 1 \in Nat \ {0}
    BY <2>4, NoRowIsOne
  <2>6. /\ Reconciled(p)[t] \in TaskType
        /\ Reconciled(p)[t].status = "cancelled" /\ Reconciled(p)[t].version = row.version + 1
    BY <2>3, <2>4, <2>5 DEF TaskType
  <2>7. row.status = "pending"
    BY <1>3 DEF Stale, row
  <2> QED  BY <2>2, <2>6, <2>7 DEF row
<1>4. ASSUME NEW t \in Missing(p)
      PROVE  /\ preparation_task[t] = NoTask
             /\ Reconciled(p)[t] \in TaskType /\ Reconciled(p)[t].status = "pending"
  <2>1. t \notin Stale(p) /\ t[1] \in EntriesOf(p) /\ t \in DerivedTask
    BY <1>1, <1>2, <1>4
  <2>2. preparation_task[t] = NoTask
    BY <1>1, <1>4, <2>1 DEF Existing, Missing
  <2>3. meal_plan_entry[t[1]] \in EntryType
    BY <2>1, NoRowIsOne DEF EntriesOf, Types, TypeOK, RowTypes
  <2>4. meal_plan_entry[t[1]].slot \in Slot
    BY <2>3 DEF EntryType
  <2>5. Reconciled(p)[t] = [status |-> "pending", version |-> 1, due |-> meal_plan_entry[t[1]].slot]
    BY <1>4, <2>1 DEF Reconciled
  <2> QED  BY <2>2, <2>4, <2>5 DEF TaskType
<1>5. Stale(p) \subseteq Existing(p) \ Desired(p)
  BY DEF Stale
<1> QED  BY <1>1, <1>2, <1>3, <1>4, <1>5

\* It depends on the entries of its plan and on their tasks only.
LEMMA ReconciledStays ==
  ASSUME NEW p \in PlanId,
         \A e \in EntryId : meal_plan_entry'[e].plan = p <=> meal_plan_entry[e].plan = p,
         \A e \in EntriesOf(p) : meal_plan_entry'[e] = meal_plan_entry[e],
         \A t \in DerivedTask : t[1] \in EntriesOf(p) => preparation_task'[t] = preparation_task[t]
  PROVE  Reconciled(p)' = Reconciled(p) /\ Existing(p)' = Existing(p)
<1>1. EntriesOf(p)' = EntriesOf(p)
  BY DEF EntriesOf
<1>2. Existing(p)' = Existing(p)
  BY <1>1 DEF Existing
<1>3. Desired(p)' = Desired(p)
  BY <1>1 DEF Desired
<1>4. Existing(p) \subseteq DerivedTask /\ \A t \in Existing(p) : t[1] \in EntriesOf(p)
  BY DEF Existing
<1>5. Desired(p) \subseteq DerivedTask /\ \A t \in Desired(p) : t[1] \in EntriesOf(p)
  BY DEF Desired
<1>6. Stale(p)' = Stale(p) /\ Missing(p)' = Missing(p)
  BY <1>2, <1>3, <1>4 DEF Stale, Missing
<1>7. \A t \in Stale(p) \cup Missing(p) :
        t[1] \in EntriesOf(p) /\ preparation_task'[t] = preparation_task[t]
  BY <1>4, <1>5 DEF Stale, Missing
<1> DEFINE old(t) == IF t \in Stale(p)
                     THEN [preparation_task[t] EXCEPT !.status = "cancelled", !.version = @ + 1]
                     ELSE [status |-> "pending", version |-> 1, due |-> meal_plan_entry[t[1]].slot]
           new(t) == IF t \in Stale(p)
                     THEN [preparation_task'[t] EXCEPT !.status = "cancelled", !.version = @ + 1]
                     ELSE [status |-> "pending", version |-> 1, due |-> meal_plan_entry'[t[1]].slot]
<1>8. \A t \in Stale(p) \cup Missing(p) : new(t) = old(t)
  BY <1>7
<1>9. Reconciled(p) = [t \in Stale(p) \cup Missing(p) |-> old(t)]
  BY DEF Reconciled
<1>10. Reconciled(p)' = [t \in Stale(p) \cup Missing(p) |-> new(t)]
  BY <1>6 DEF Reconciled
<1> HIDE DEF old, new
<1> QED  BY <1>2, <1>8, <1>9, <1>10
-----------------------------------------------------------------------------
(***************************************************************************)
(* What a step of one worker leaves the others.                            *)
(***************************************************************************)

\* The other workers keep their transactions and their locks.
Aside(c) ==
  /\ \A d \in Call \ {c} :
       /\ pc'[d] = pc[d] /\ request'[d] = request[d] /\ seen'[d] = seen[d]
       /\ started'[d] = started[d] /\ write'[d] = write[d]
  /\ \A p \in PlanId : plan_lock[p] \in Call \ {c} => plan_lock'[p] = plan_lock[p]
  /\ \A t \in Task : task_lock[t] \in Call \ {c} => task_lock'[t] = task_lock[t]

\* The rows that a worker has locked, or has flushed without a lock, are as
\* they were.
RowsKept(d) ==
  /\ \A p \in PlanId : meal_plan[p] # NoPlan => meal_plan'[p] # NoPlan
  /\ Creates(d) => \A p \in PlanId : meal_plan[p] = NoPlan => meal_plan'[p] = NoPlan
  /\ \A p \in PlanId : plan_lock[p] = d /\ meal_plan[p] # NoPlan =>
       /\ meal_plan'[p] = meal_plan[p]
       /\ \A e \in EntryId : meal_plan_entry'[e].plan = p <=> meal_plan_entry[e].plan = p
       /\ \A e \in EntriesOf(p) : meal_plan_entry'[e] = meal_plan_entry[e]
       /\ request[d].plan = p /\ Derived(d) =>
            \A t \in DerivedTask :
              t[1] \in EntriesOf(p) => preparation_task'[t] = preparation_task[t]
  /\ \A e \in DOMAIN write[d].entry : meal_plan_entry'[e] = meal_plan_entry[e]
  /\ \A t \in DOMAIN write[d].task : preparation_task'[t] = preparation_task[t]

LEMMA SessionStays ==
  ASSUME NEW d \in Call, Types, Session(d),
         pc'[d] = pc[d], request'[d] = request[d], seen'[d] = seen[d],
         started'[d] = started[d], write'[d] = write[d],
         \A p \in PlanId : plan_lock[p] = d => plan_lock'[p] = d,
         \A t \in Task : task_lock[t] = d => task_lock'[t] = d,
         RowsKept(d)
  PROVE  Session(d)'
<1> DEFINE q == request[d]
           p == request[d].plan
<1>1. \A u, v, from, to : StateEvent(d, u, from, to)' = StateEvent(d, u, from, to)
  BY DEF StateEvent
<1>2. ASSUME pc[d] \in {"open", "derive", "written"}, q.op \in PlanOps
      PROVE  /\ q \in Request /\ p \in PlanId /\ meal_plan[p] # NoPlan /\ meal_plan'[p] # NoPlan
             /\ q.mcp => seen[d] # NoPlan
  <2>1. q \in Request /\ p \in PlanId
    BY <1>2, RequestTyped DEF Session
  <2> QED  BY <1>2, <2>1 DEF Session, RowsKept
<1>3. ASSUME p \in PlanId, plan_lock[p] = d, meal_plan[p] # NoPlan
      PROVE  /\ meal_plan'[p] = meal_plan[p] /\ InSession(d)' = InSession(d)
             /\ \A s : PlanRow(d, s)' = PlanRow(d, s)
  <2>1. meal_plan'[p] = meal_plan[p]
    BY <1>3 DEF RowsKept
  <2>2. InSession(d)' = InSession(d)
    BY <2>1 DEF InSession
  <2> QED  BY <2>1, <2>2 DEF PlanRow
<1>4. ASSUME pc[d] = "written", CreationWritten(d)
      PROVE  CreationWritten(d)'
  <2>1. PICK n \in PlanId :
          /\ meal_plan[n] = NoPlan
          /\ write[d] = [plan |-> Only(n, [state |-> "draft", version |-> 1]), entry |-> <<>>,
                         task |-> <<>>, event |-> <<StateEvent(d, n, "absent", "draft")>>]
    BY <1>4 DEF CreationWritten
  <2>2. meal_plan'[n] = NoPlan
    BY <1>4, <2>1 DEF RowsKept, Creates, CreationWritten
  <2>3. StateEvent(d, n, "absent", "draft")' = StateEvent(d, n, "absent", "draft")
    BY DEF StateEvent
  <2> QED  BY <1>4, <2>1, <2>2, <2>3 DEF CreationWritten
<1>5. ASSUME pc[d] = "written", EditWritten(d)
      PROVE  EditWritten(d)'
  <2>1. q.op \in EntryOps /\ plan_lock[p] = d
    BY <1>5 DEF EditWritten
  <2>2. /\ p \in PlanId /\ meal_plan[p] # NoPlan /\ plan_lock'[p] = d
        /\ meal_plan'[p] = meal_plan[p] /\ \A s : PlanRow(d, s)' = PlanRow(d, s)
    BY <1>2, <1>3, <1>5, <2>1, OpsAreApart
  <2>3. PICK e \in EntryId, row \in EntryType \cup {NoEntry} :
          /\ IF q.op = "add_entry" THEN meal_plan_entry[e] = NoEntry
                                   ELSE meal_plan_entry[e].plan = p
          /\ row.plan \in {p, 0}
          /\ write[d] = [plan |-> Only(p, PlanRow(d, meal_plan[p].state)),
                         entry |-> Only(e, row), task |-> <<>>, event |-> <<>>]
    BY <1>5 DEF EditWritten
  <2>4. e \in DOMAIN write[d].entry
    BY <2>3 DEF Only
  <2>5. meal_plan_entry'[e] = meal_plan_entry[e]
    BY <2>4 DEF RowsKept
  <2>6. PlanRow(d, meal_plan[p].state)' = PlanRow(d, meal_plan[p].state)
    BY <2>2, <1>3, <2>1 DEF PlanRow
  <2> QED  BY <1>5, <2>1, <2>2, <2>3, <2>5, <2>6 DEF EditWritten
<1>6. ASSUME pc[d] \in {"derive", "written"}, TransitionWritten(d)
      PROVE  TransitionWritten(d)'
  <2>1. q.op \in TransitionOps /\ plan_lock[p] = d
    BY <1>6 DEF TransitionWritten
  <2>2. /\ q \in Request /\ p \in PlanId /\ meal_plan[p] # NoPlan /\ plan_lock'[p] = d
        /\ meal_plan'[p] = meal_plan[p] /\ InSession(d)' = InSession(d)
    BY <1>2, <1>3, <1>6, <2>1, OpsAreApart
  <2>3. PlanRow(d, Target(q.op))' = PlanRow(d, Target(q.op))
    BY <2>2 DEF PlanRow
  <2>4. StateEvent(d, p, InSession(d).state, Target(q.op))'
          = StateEvent(d, p, InSession(d).state, Target(q.op))
    BY <2>2 DEF StateEvent
  <2>5. Derived(d)' <=> Derived(d)
    BY DEF Derived
  <2>6. ASSUME Derived(d)
        PROVE  /\ Reconciled(p)' = Reconciled(p)
               /\ \A t \in Existing(p)' : task_lock'[t] = d
    <3>1. /\ \A e \in EntryId : meal_plan_entry'[e].plan = p <=> meal_plan_entry[e].plan = p
          /\ \A e \in EntriesOf(p) : meal_plan_entry'[e] = meal_plan_entry[e]
          /\ \A t \in DerivedTask :
               t[1] \in EntriesOf(p) => preparation_task'[t] = preparation_task[t]
      BY <2>1, <2>2, <2>6 DEF RowsKept
    <3>2. PICK k \in PlanId : k = p
      BY <2>2
    <3>3. Reconciled(k)' = Reconciled(k) /\ Existing(k)' = Existing(k)
      BY <3>1, <3>2, ReconciledStays
    <3>4. Reconciled(p)' = Reconciled(p) /\ Existing(p)' = Existing(p)
      BY <3>2, <3>3
    <3>5. \A t \in Existing(p) : task_lock[t] = d /\ t \in Task
      BY <1>6, <2>6, TasksAreApart DEF TransitionWritten, Existing
    <3> QED  BY <3>4, <3>5
  <2>7. request'[d].plan = p /\ request'[d] = q
    OBVIOUS
  <2> QED  BY <1>6, <2>1, <2>2, <2>3, <2>4, <2>5, <2>6, <2>7 DEF TransitionWritten
<1>7. ASSUME pc[d] = "written", TaskCreationWritten(d)
      PROVE  TaskCreationWritten(d)'
  <2>1. PICK t \in ManualTask :
          /\ preparation_task[t] = NoTask
          /\ write[d] = [plan |-> <<>>, entry |-> <<>>, event |-> <<>>,
                         task |-> Only(t, [status |-> "pending", version |-> 1, due |-> 0])]
    BY <1>7 DEF TaskCreationWritten
  <2>2. t \in DOMAIN write[d].task
    BY <2>1 DEF Only
  <2> QED  BY <1>7, <2>1, <2>2 DEF TaskCreationWritten, RowsKept
<1>8. ASSUME pc[d] = "written", ResolutionWritten(d)
      PROVE  ResolutionWritten(d)'
  <2>1. q.op \in TaskOps /\ q \in Request /\ q.task \in Task /\ task_lock[q.task] = d
    BY <1>8, RequestTyped DEF ResolutionWritten, Session
  <2>2. q.task \in DOMAIN write[d].task
    BY <1>8 DEF ResolutionWritten, Only
  <2>3. preparation_task'[q.task] = preparation_task[q.task]
    BY <2>2 DEF RowsKept
  <2>4. Resolved(q)' = Resolved(q)
    BY <2>3 DEF Resolved
  <2> QED  BY <1>8, <2>1, <2>3, <2>4 DEF ResolutionWritten
<1>9. pc[d] = "written" => Written(d)'
  BY <1>4, <1>5, <1>6, <1>7, <1>8 DEF Session, Written
<1>10. pc[d] = "derive" => q.op = "approve" /\ TransitionWritten(d)'
  BY <1>6 DEF Session
<1> QED  BY <1>2, <1>9, <1>10 DEF Session

\* A step of c has to account for c and for the rows of the others.
LEMMA WorkerStep ==
  ASSUME IInv, NEW c \in Call, Aside(c),
         \/ UNCHANGED <<meal_plan, meal_plan_entry, preparation_task>>
         \/ \A d \in Call \ {c} : RowsKept(d),
         Types', Session(c)',
         Creates(c)' => \A d \in Call \ {c} : ~Creates(d),
         \A d \in Call \ {c} : /\ DOMAIN write'[c].entry \cap DOMAIN write[d].entry = {}
                               /\ DOMAIN write'[c].task \cap DOMAIN write[d].task = {}
  PROVE  IInv'
<1>1. ASSUME NEW d \in Call PROVE Session(d)'
  <2>1. CASE d = c
    BY <2>1
  <2>2. CASE d # c
    <3>1. /\ \A p \in PlanId : plan_lock[p] = d => plan_lock'[p] = d
          /\ \A t \in Task : task_lock[t] = d => task_lock'[t] = d
      BY <2>2 DEF Aside
    <3>2. Session(d) /\ Types
      BY DEF IInv
    <3>3. RowsKept(d)
      BY <2>2 DEF RowsKept
    <3> QED  BY <2>2, <3>1, <3>2, <3>3, SessionStays DEF Aside
  <2> QED  BY <2>1, <2>2
<1>2. OneCreation'
  <2>1. ASSUME NEW d \in Call \ {c} PROVE Creates(d)' <=> Creates(d)
    BY DEF Aside, Creates
  <2>2. SUFFICES ASSUME NEW d \in Call, NEW e \in Call, Creates(d)', Creates(e)'
                 PROVE  d = e
    BY DEF OneCreation
  <2> QED  BY <2>1, <2>2 DEF IInv, Apart, OneCreation
<1>3. OwnEntries' /\ OwnTasks'
  <2>1. \A d \in Call \ {c} : write'[d] = write[d]
    BY DEF Aside
  <2>2. SUFFICES ASSUME NEW d \in Call, NEW e \in Call, d # e
                 PROVE  /\ DOMAIN write'[d].entry \cap DOMAIN write'[e].entry = {}
                        /\ DOMAIN write'[d].task \cap DOMAIN write'[e].task = {}
    BY DEF OwnEntries, OwnTasks
  <2>3. CASE d = c
    BY <2>1, <2>2, <2>3
  <2>4. CASE e = c
    BY <2>1, <2>2, <2>4
  <2>5. CASE d # c /\ e # c
    BY <2>1, <2>2, <2>5 DEF IInv, Apart, OwnEntries, OwnTasks
  <2> QED  BY <2>3, <2>4, <2>5
<1> QED  BY <1>1, <1>2, <1>3 DEF IInv, Apart
-----------------------------------------------------------------------------
LEMMA InitIInv == Init => IInv
<1> SUFFICES ASSUME Init PROVE IInv
  OBVIOUS
<1> USE DEF Init
<1>1. /\ DOMAIN NoWrite.plan = {} /\ DOMAIN NoWrite.entry = {} /\ DOMAIN NoWrite.task = {}
      /\ NoWrite.event = <<>>
  BY EmptyDomain DEF NoWrite
<1>2. TypeOK
  <2>1. RowTypes
    BY NoEvents DEF RowTypes
  <2>2. WorkerTypes
    BY DEF WorkerTypes
  <2>3. \A c \in Call : WriteTyped(write[c])
    BY <1>1, NoEvents DEF WriteTyped
  <2> QED  BY <2>1, <2>2, <2>3 DEF TypeOK
<1>3. Apart
  BY <1>1 DEF Apart, OneCreation, Creates, OwnEntries, OwnTasks
<1>4. \A c \in Call : Session(c)
  BY OpsAreApart DEF Session, NoRequest
<1> QED  BY <1>2, <1>3, <1>4 DEF IInv, Types

\* A transaction that has written nothing is apart from all others.
LEMMA NothingWritten ==
  ASSUME NEW c \in Call, NEW d \in Call, write'[c] = NoWrite
  PROVE  /\ DOMAIN write'[c].entry \cap DOMAIN write[d].entry = {}
         /\ DOMAIN write'[c].task \cap DOMAIN write[d].task = {}
BY EmptyDomain DEF NoWrite

LEMMA NoWriteTyped == WriteTyped(NoWrite)
BY EmptyDomain, NoEvents DEF WriteTyped, NoWrite

LEMMA ReceiveStep ==
  ASSUME IInv, NEW c \in Call, NEW q \in Request, Receive(c, q)
  PROVE  IInv'
<1> USE DEF Receive
<1>1. Types /\ Session(c)
  BY DEF IInv
<1>2. Aside(c) /\ UNCHANGED <<meal_plan, meal_plan_entry, preparation_task>>
  BY <1>1 DEF Aside, Types, TypeOK, WorkerTypes, locks, rows
<1>3. Types'
  <2>1. RowTypes'
    BY <1>1 DEF Types, TypeOK, RowTypes, rows, household
  <2>2. started' \in [Call -> Nat]
    <3>1. Len(meal_plan_state_event) \in Nat
      BY <1>1 DEF Types, TypeOK, RowTypes
    <3> QED  BY <1>1, <3>1 DEF Types, TypeOK, WorkerTypes
  <2>3. WorkerTypes'
    BY <1>1, <2>2 DEF Types, TypeOK, WorkerTypes, locks
  <2>4. UNCHANGED write
    OBVIOUS
  <2> QED  BY <1>1, <2>1, <2>3, <2>4 DEF Types, TypeOK, WriteTyped
<1>4. pc'[c] = (IF q.mcp THEN "load" ELSE "open") /\ request'[c] = q
  BY <1>1 DEF Types, TypeOK, WorkerTypes
<1>5. q.op \in PlanOps /\ ~q.mcp => q.plan \in PlanId /\ meal_plan[q.plan] # NoPlan
  <2>1. SUFFICES ASSUME q.op \in PlanOps, ~q.mcp, meal_plan[q.plan] = NoPlan
                 PROVE  FALSE
    BY RequestTyped
  <2>2. q.expected_version \in 1..0
    BY <2>1 DEF CanSend, Loaded, NoPlan
  <2> QED  BY <2>2
<1>6. write'[c] = NoWrite
  BY <1>1 DEF Session
<1>7. Session(c)'
  BY <1>2, <1>4, <1>5, <1>6 DEF Session
<1>8. ~Creates(c)'
  BY <1>4 DEF Creates
<1> QED  BY <1>2, <1>3, <1>6, <1>7, <1>8, NothingWritten, WorkerStep

\* The end of a transaction leaves the others their locks.
LEMMA TransactionEnds ==
  ASSUME Types, NEW c \in Call, EndTransaction(c)
  PROVE  /\ Aside(c) /\ WorkerTypes' /\ pc'[c] = "idle" /\ write'[c] = NoWrite
         /\ write' = [d \in Call |-> write'[d]]
         /\ \A d \in Call : WriteTyped(write'[d])
         /\ Session(c)'
         /\ \A d \in Call : started'[d] = (IF d = c THEN 0 ELSE started[d])
         /\ \A d \in Call : together'[d] = (IF d = c THEN FALSE ELSE together[d])
<1> USE DEF EndTransaction
<1>1. plan_lock' \in [PlanId -> Call \cup {NoCall}] /\ task_lock' \in [Task -> Call \cup {NoCall}]
  BY DEF Released, Types, TypeOK, WorkerTypes
<1>2. Aside(c)
  BY DEF Aside, Released, Types, TypeOK, WorkerTypes
<1>3. WorkerTypes'
  BY <1>1 DEF Types, TypeOK, WorkerTypes
<1>4. pc'[c] = "idle" /\ write'[c] = NoWrite /\ write' = [d \in Call |-> write'[d]]
  BY DEF Types, TypeOK, WorkerTypes
<1>5. ASSUME NEW d \in Call PROVE WriteTyped(write'[d])
  <2>1. write'[d] = NoWrite \/ write'[d] = write[d]
    BY DEF Types
  <2> QED  BY <2>1, NoWriteTyped DEF Types, TypeOK
<1>6. Session(c)'
  BY <1>4 DEF Session
<1>7. \A d \in Call : /\ started'[d] = (IF d = c THEN 0 ELSE started[d])
                      /\ together'[d] = (IF d = c THEN FALSE ELSE together[d])
  BY DEF Types, TypeOK, WorkerTypes
<1> QED  BY <1>2, <1>3, <1>4, <1>5, <1>6, <1>7

LEMMA RollbackStep ==
  ASSUME IInv, NEW c \in Call, Rollback(c)
  PROVE  IInv'
<1>1. Types /\ EndTransaction(c) /\ UNCHANGED <<rows, household, mutations>>
  BY DEF IInv, Rollback
<1>2. RowTypes'
  BY <1>1 DEF Types, TypeOK, RowTypes, rows, household
<1>3. Types'
  BY <1>1, <1>2, TransactionEnds DEF Types, TypeOK
<1>4. Aside(c) /\ pc'[c] = "idle" /\ write'[c] = NoWrite /\ Session(c)'
  BY <1>1, TransactionEnds
<1>5. ~Creates(c)'
  BY <1>4 DEF Creates
<1>6. UNCHANGED <<meal_plan, meal_plan_entry, preparation_task>>
  BY <1>1 DEF rows
<1> QED  BY <1>3, <1>4, <1>5, <1>6, NothingWritten, WorkerStep

LEMMA LoadStep ==
  ASSUME IInv, NEW c \in Call, Load(c)
  PROVE  IInv'
<1> USE DEF Load
<1>1. Types /\ Session(c)
  BY DEF IInv
<1>2. Aside(c) /\ UNCHANGED <<meal_plan, meal_plan_entry, preparation_task>>
  BY <1>1 DEF Aside, Types, TypeOK, WorkerTypes, locks, rows
<1>3. request[c] \in Request /\ request[c].plan \in PlanId
  BY <1>1, RequestTyped DEF Session
<1>4. meal_plan[request[c].plan] \in PlanType
  BY <1>1, <1>3 DEF Found, Types, TypeOK, RowTypes
<1>5. Types'
  <2>1. RowTypes'
    BY <1>1 DEF Types, TypeOK, RowTypes, rows, household
  <2>2. WorkerTypes'
    BY <1>1, <1>4 DEF Types, TypeOK, WorkerTypes, locks
  <2> QED  BY <1>1, <2>1, <2>2 DEF Types, TypeOK, WriteTyped
<1>6. pc'[c] = "open" /\ request'[c] = request[c] /\ seen'[c] = meal_plan[request[c].plan]
  BY <1>1 DEF Types, TypeOK, WorkerTypes
<1>7. write'[c] = NoWrite
  BY <1>1 DEF Session
<1>8. Session(c)'
  BY <1>2, <1>3, <1>4, <1>6, <1>7, NoRowIsOne DEF Session
<1>9. ~Creates(c)'
  BY <1>6 DEF Creates
<1> QED  BY <1>2, <1>5, <1>7, <1>8, <1>9, NothingWritten, WorkerStep
-----------------------------------------------------------------------------
(***************************************************************************)
(* The steps that flush rows under a lock.                                 *)
(***************************************************************************)
LocksTaken(c) ==
  /\ plan_lock' \in [PlanId -> Call \cup {NoCall}] /\ task_lock' \in [Task -> Call \cup {NoCall}]
  /\ \A p \in PlanId : plan_lock[p] \in Call \ {c} => plan_lock'[p] = plan_lock[p]
  /\ \A t \in Task : task_lock[t] \in Call \ {c} => task_lock'[t] = task_lock[t]

LEMMA FlushStep ==
  ASSUME IInv, NEW c \in Call, NEW w, NEW next \in {"derive", "written"}, Flush(c, w, next),
         LocksTaken(c), WriteTyped(w),
         pc'[c] = next /\ write'[c] = w => Session(c)',
         next = "written" /\ request[c].op = "create" => \A d \in Call \ {c} : ~Creates(d),
         \A d \in Call \ {c} : /\ DOMAIN w.entry \cap DOMAIN write[d].entry = {}
                               /\ DOMAIN w.task \cap DOMAIN write[d].task = {}
  PROVE  IInv'
<1>1. /\ UNCHANGED <<rows, household, request, seen, started, together, mutations>>
      /\ write' = [write EXCEPT ![c] = w] /\ pc' = [pc EXCEPT ![c] = next]
  BY DEF Flush
<1>2. Types
  BY DEF IInv
<1>3. pc'[c] = next /\ write'[c] = w /\ \A d \in Call \ {c} : write'[d] = write[d]
  BY <1>1, <1>2 DEF Types, TypeOK, WorkerTypes
<1>4. Aside(c) /\ UNCHANGED <<meal_plan, meal_plan_entry, preparation_task>>
  BY <1>1, <1>2, <1>3 DEF Aside, LocksTaken, rows, Types, TypeOK, WorkerTypes
<1>5. RowTypes'
  BY <1>1, <1>2 DEF Types, TypeOK, RowTypes, rows, household
<1>6. WorkerTypes'
  BY <1>1, <1>2 DEF Types, TypeOK, WorkerTypes, LocksTaken
<1>7. write' = [d \in Call |-> write'[d]]
  BY <1>1, <1>2 DEF Types
<1>8. \A d \in Call : WriteTyped(write'[d])
  BY <1>2, <1>3 DEF Types, TypeOK
<1>9. Types'
  BY <1>5, <1>6, <1>7, <1>8 DEF Types, TypeOK
<1>10. Creates(c)' => \A d \in Call \ {c} : ~Creates(d)
  BY <1>1, <1>3 DEF Creates
<1> QED  BY <1>3, <1>4, <1>9, <1>10, WorkerStep

LEMMA LocksAreTaken ==
  ASSUME Types, NEW c \in Call
  PROVE  /\ UNCHANGED locks => LocksTaken(c)
         /\ \A p \in PlanId :
              PlanFree(c, p) /\ plan_lock' = [plan_lock EXCEPT ![p] = c] /\ UNCHANGED task_lock
                => LocksTaken(c) /\ plan_lock'[p] = c
         /\ \A t \in Task :
              TaskFree(c, t) /\ task_lock' = [task_lock EXCEPT ![t] = c] /\ UNCHANGED plan_lock
                => LocksTaken(c) /\ task_lock'[t] = c
<1>1. NoCall \notin Call
  BY PlanAssumption
<1>2. /\ plan_lock \in [PlanId -> Call \cup {NoCall}]
      /\ task_lock \in [Task -> Call \cup {NoCall}]
  BY DEF Types, TypeOK, WorkerTypes
<1> QED  BY <1>1, <1>2 DEF LocksTaken, locks, PlanFree, TaskFree

LEMMA OpenWritesNothing ==
  ASSUME IInv, NEW c \in Call, pc[c] = "open"
  PROVE  Types /\ Session(c) /\ request[c] \in Request /\ write[c] = NoWrite
BY DEF IInv, Session

LEMMA CreatorWritesCreation ==
  ASSUME IInv, NEW c \in Call, Creates(c)
  PROVE  CreationWritten(c)
<1>1. Written(c) /\ request[c].op = "create"
  BY DEF IInv, Session, Creates
<1>2. ~EditWritten(c) /\ ~TransitionWritten(c) /\ ~TaskCreationWritten(c) /\ ~ResolutionWritten(c)
  BY <1>1, OpsAreApart DEF EditWritten, TransitionWritten, TaskCreationWritten, ResolutionWritten
<1> QED  BY <1>1, <1>2 DEF Written

LEMMA CreatePlanStep ==
  ASSUME IInv, NEW c \in Call, CreatePlan(c)
  PROVE  IInv'
<1> USE DEF CreatePlan
<1>1. Types /\ Session(c) /\ request[c] \in Request
  BY OpenWritesNothing
<1> DEFINE w(p) == [plan |-> Only(p, [state |-> "draft", version |-> 1]), entry |-> <<>>,
                    task |-> <<>>, event |-> <<StateEvent(c, p, "absent", "draft")>>]
<1>2. PICK p \in PlanId : meal_plan[p] = NoPlan /\ Flush(c, w(p), "written")
  <2>1. ASSUME NEW p,
               NEW f, f = [NoWrite EXCEPT !.plan = Only(p, [state |-> "draft", version |-> 1]),
                                          !.event = <<StateEvent(c, p, "absent", "draft")>>]
        PROVE  f = w(p)
    BY <2>1 DEF NoWrite
  <2> HIDE DEF w
  <2> QED  BY <2>1 DEF UnusedPlans
<1>3. WriteTyped(w(p))
  <2>1. [state |-> "draft", version |-> 1] \in PlanType
    BY DEF PlanType, State
  <2>2. <<StateEvent(c, p, "absent", "draft")>> \in Seq(EventType)
    BY <1>1, StateEventTyped, OneEvent DEF State
  <2> QED  BY <2>1, <2>2, EmptyDomain DEF WriteTyped, Only
<1>4. ASSUME pc'[c] = "written", write'[c] = w(p)
      PROVE  Session(c)'
  <2>1. UNCHANGED <<request, seen, meal_plan, started>>
    BY <1>2 DEF Flush, rows
  <2>2. StateEvent(c, p, "absent", "draft")' = StateEvent(c, p, "absent", "draft")
    BY <2>1 DEF StateEvent
  <2>3. CreationWritten(c)'
    BY <1>2, <1>4, <2>1, <2>2 DEF CreationWritten
  <2> QED  BY <1>1, <1>4, <2>1, <2>3, OpsAreApart DEF Session, Written
<1>5. ASSUME NEW d \in Call \ {c} PROVE ~Creates(d)
  <2>1. SUFFICES ASSUME Creates(d) PROVE FALSE
    OBVIOUS
  <2>2. CreationWritten(d)
    BY <2>1, CreatorWritesCreation
  <2>3. PICK m \in PlanId : write[d].plan = Only(m, [state |-> "draft", version |-> 1])
    BY <2>2 DEF CreationWritten
  <2> QED  BY <2>3 DEF WeekSettled, Only
<1>6. \A d \in Call \ {c} : /\ DOMAIN w(p).entry \cap DOMAIN write[d].entry = {}
                            /\ DOMAIN w(p).task \cap DOMAIN write[d].task = {}
  BY EmptyDomain
<1>7. LocksTaken(c)
  BY <1>1, LocksAreTaken
<1> HIDE DEF w
<1> QED  BY <1>2, <1>3, <1>4, <1>5, <1>6, <1>7, FlushStep

\* What a worker that has flushed holds: the lock of its plan, of the plan of
\* the entry it writes, and of the tasks it writes unless they are new.
LEMMA Holds ==
  ASSUME IInv, NEW c \in Call
  PROVE  /\ \A e \in DOMAIN write[c].entry :
              /\ e \in EntryId
              /\ meal_plan_entry[e] = NoEntry \/ plan_lock[meal_plan_entry[e].plan] = c
              /\ write[c].entry[e].plan = 0 \/ plan_lock[write[c].entry[e].plan] = c
         /\ \A t \in DOMAIN write[c].task :
              /\ t \in Task
              /\ \/ preparation_task[t] # NoTask /\ task_lock[t] = c
                 \/ /\ preparation_task[t] = NoTask /\ t \in DerivedTask
                    /\ meal_plan_entry[t[1]].plan \in PlanId
                    /\ plan_lock[meal_plan_entry[t[1]].plan] = c
                 \/ preparation_task[t] = NoTask /\ t \in ManualTask
<1>1. Types /\ Session(c)
  BY DEF IInv
<1> DEFINE q == request[c]
<1>2. CASE pc[c] \in {"idle", "load", "open"}
  BY <1>1, <1>2, EmptyDomain DEF Session, NoWrite
<1>3. CASE pc[c] = "derive"
  <2>1. TransitionWritten(c) /\ ~Derived(c)
    BY <1>1, <1>3 DEF Session, Derived
  <2> QED  BY <2>1, EmptyDomain DEF TransitionWritten
<1>4. CASE pc[c] = "written"
  <2>1. CASE CreationWritten(c)
    BY <2>1, EmptyDomain DEF CreationWritten
  <2>2. CASE EditWritten(c)
    <3>1. PICK e \in EntryId, row \in EntryType \cup {NoEntry} :
            /\ IF q.op = "add_entry" THEN meal_plan_entry[e] = NoEntry
                                     ELSE meal_plan_entry[e].plan = q.plan
            /\ row.plan \in {q.plan, 0}
            /\ write[c].entry = Only(e, row) /\ write[c].task = <<>>
      BY <2>2 DEF EditWritten
    <3> QED  BY <2>2, <3>1, EmptyDomain DEF EditWritten, Only
  <2>3. CASE TransitionWritten(c)
    <3>1. write[c].entry = <<>> /\ q.plan \in PlanId /\ plan_lock[q.plan] = c
      BY <1>1, <1>4, <2>3, OpsAreApart, RequestTyped DEF TransitionWritten, Session
    <3>2. CASE ~Derived(c)
      BY <2>3, <3>1, <3>2, EmptyDomain DEF TransitionWritten
    <3>3. CASE Derived(c)
      <4>1. /\ write[c].task = Reconciled(q.plan)
            /\ \A t \in Existing(q.plan) : task_lock[t] = c
        BY <2>3, <3>3 DEF TransitionWritten
      <4>2. ASSUME NEW t \in DOMAIN write[c].task
            PROVE  /\ t \in DerivedTask /\ t[1] \in EntriesOf(q.plan)
                   /\ \/ preparation_task[t] # NoTask /\ task_lock[t] = c
                      \/ preparation_task[t] = NoTask
        BY <1>1, <3>1, <4>1, <4>2, ReconciledIs, NoRowIsOne
      <4>3. \A t \in DOMAIN write[c].task : meal_plan_entry[t[1]].plan = q.plan
        BY <4>2 DEF EntriesOf
      <4> QED  BY <3>1, <4>2, <4>3, EmptyDomain, TasksAreApart
    <3> QED  BY <3>2, <3>3
  <2>4. CASE TaskCreationWritten(c)
    <3>1. PICK t \in ManualTask :
            /\ preparation_task[t] = NoTask
            /\ DOMAIN write[c].task = {t} /\ write[c].entry = <<>>
      BY <2>4 DEF TaskCreationWritten, Only
    <3> QED  BY <3>1, EmptyDomain, TasksAreApart
  <2>5. CASE ResolutionWritten(c)
    <3>1. /\ DOMAIN write[c].task = {q.task} /\ write[c].entry = <<>>
          /\ task_lock[q.task] = c /\ preparation_task[q.task].status = "pending"
      BY <2>5 DEF ResolutionWritten, Only
    <3>2. q.task \in Task
      BY <1>1, <1>4, <2>5, RequestTyped DEF Session, ResolutionWritten
    <3> QED  BY <3>1, <3>2, EmptyDomain, NoRowIsOne
  <2> QED  BY <1>1, <1>4, <2>1, <2>2, <2>3, <2>4, <2>5 DEF Session, Written
<1> QED  BY <1>1, <1>2, <1>3, <1>4 DEF Types, TypeOK, WorkerTypes

\* A row whose lock is free, or is c's own, is written by nobody else.
LEMMA NobodyElse ==
  ASSUME IInv, NEW c \in Call, NEW d \in Call \ {c}
  PROVE  /\ \A p \in PlanId : PlanFree(c, p) => plan_lock[p] # d
         /\ \A t \in Task : TaskFree(c, t) => task_lock[t] # d
         /\ \A p \in PlanId, e \in EntryId :
              plan_lock[p] # d /\ meal_plan_entry[e].plan = p => e \notin DOMAIN write[d].entry
         /\ \A p \in PlanId, t \in DerivedTask :
              plan_lock[p] # d /\ meal_plan_entry[t[1]].plan = p /\ preparation_task[t] = NoTask
                => t \notin DOMAIN write[d].task
         /\ \A t \in Task :
              task_lock[t] # d /\ preparation_task[t] # NoTask => t \notin DOMAIN write[d].task
<1>1. NoCall \notin Call
  BY PlanAssumption
<1>2. /\ \A p \in PlanId : PlanFree(c, p) => plan_lock[p] # d
      /\ \A t \in Task : TaskFree(c, t) => task_lock[t] # d
  BY <1>1 DEF PlanFree, TaskFree
<1>3. ASSUME NEW p \in PlanId, NEW e \in EntryId, plan_lock[p] # d, meal_plan_entry[e].plan = p
      PROVE  e \notin DOMAIN write[d].entry
  BY <1>3, Holds, NoRowIsOne
<1>4. ASSUME NEW p \in PlanId, NEW t \in DerivedTask, plan_lock[p] # d,
             meal_plan_entry[t[1]].plan = p, preparation_task[t] = NoTask
      PROVE  t \notin DOMAIN write[d].task
  BY <1>4, Holds, TasksAreApart
<1>5. ASSUME NEW t \in Task, task_lock[t] # d, preparation_task[t] # NoTask
      PROVE  t \notin DOMAIN write[d].task
  BY <1>5, Holds
<1> QED  BY <1>2, <1>3, <1>4, <1>5

LEMMA PatchedTyped ==
  ASSUME Types, NEW q \in Request, q.op = "update_entry", q.entry \in EntriesOf(q.plan),
         q.slot \in Slot \cup {Unset}, q.recipe \in published \cup {Unset}, q.plan \in PlanId
  PROVE  Patched(q) \in EntryType /\ Patched(q).plan = q.plan
<1> DEFINE entry == meal_plan_entry[q.entry]
           recipe == IF q.recipe = Unset THEN entry.recipe ELSE q.recipe
           slot == IF q.slot = Unset THEN entry.slot ELSE q.slot
<1>1. entry \in EntryType /\ entry.plan = q.plan
  BY NoRowIsOne DEF EntriesOf, Types, TypeOK, RowTypes
<1>2. published \subseteq Recipe
  BY DEF Types, TypeOK, RowTypes
<1>3. recipe \in Recipe /\ slot \in Slot
  BY <1>1, <1>2 DEF EntryType
<1>4. Patched(q) = [entry EXCEPT !.recipe = recipe, !.slot = slot]
  BY DEF Patched
<1> HIDE DEF entry, recipe, slot
<1> QED  BY <1>1, <1>3, <1>4 DEF EntryType

LEMMA EditStep ==
  ASSUME IInv, NEW c \in Call, EditEntry(c)
  PROVE  IInv'
<1> USE DEF EditEntry
<1> DEFINE q == request[c]
           p == request[c].plan
<1>1. Types /\ Session(c) /\ q \in Request /\ q.op \in EntryOps /\ q.op \in PlanOps
  BY OpenWritesNothing, OpsAreApart
<1>2. /\ p \in PlanId /\ meal_plan[p] \in PlanType
      /\ InSession(c) \in PlanType /\ \A s \in State : PlanRow(c, s) \in PlanType
  BY <1>1, InSessionTyped
<1> DEFINE w(e) == [plan |-> Only(p, PlanRow(c, meal_plan[p].state)),
                    entry |-> Only(e, Edited(q)), task |-> <<>>, event |-> <<>>]
<1>3. [meal_plan[p] EXCEPT !.version = InSession(c).version + 1] = PlanRow(c, meal_plan[p].state)
  BY <1>2 DEF PlanRow, PlanType
<1>4. PICK e \in Changed(q) : Flush(c, w(e), "written")
  <2>1. ASSUME NEW e,
               NEW f, f = [NoWrite EXCEPT
                             !.plan = Only(p, [meal_plan[p] EXCEPT !.version = InSession(c).version + 1]),
                             !.entry = Only(e, Edited(q))]
        PROVE  f = w(e)
    BY <1>3, <2>1 DEF NoWrite
  <2> HIDE DEF w
  <2> QED  BY <2>1
<1>5. LocksTaken(c) /\ plan_lock'[p] = c
  BY <1>1, <1>2, LocksAreTaken
<1>6. /\ e \in EntryId /\ Edited(q) \in EntryType \cup {NoEntry} /\ Edited(q).plan \in {p, 0}
      /\ IF q.op = "add_entry" THEN meal_plan_entry[e] = NoEntry
                               ELSE meal_plan_entry[e].plan = p
      /\ \A d \in Call \ {c} : e \notin DOMAIN write[d].entry
  <2>1. CASE q.op = "add_entry"
    <3>1. e \in UnusedEntries
      BY <2>1 DEF Changed
    <3>2. q.slot \in Slot /\ q.recipe \in Recipe
      BY <1>1, <2>1, RequestTyped DEF CanEdit, Types, TypeOK, RowTypes
    <3>3. Edited(q) = [plan |-> p, recipe |-> q.recipe, slot |-> q.slot]
      BY <2>1 DEF Edited
    <3>4. Edited(q) \in EntryType /\ Edited(q).plan = p
      BY <1>2, <3>2, <3>3 DEF EntryType
    <3> QED  BY <2>1, <3>1, <3>4 DEF UnusedEntries
  <2>2. CASE q.op \in {"update_entry", "delete_entry"}
    <3>1. e = q.entry /\ e \in EntriesOf(p)
      BY <2>2 DEF Changed, CanEdit
    <3>2. e \in EntryId /\ meal_plan_entry[e].plan = p
      BY <3>1 DEF EntriesOf
    <3>3. \A d \in Call \ {c} : e \notin DOMAIN write[d].entry
      BY <1>2, <3>2, NobodyElse
    <3>4. CASE q.op = "update_entry"
      <4>1. Edited(q) = Patched(q)
        BY <3>4 DEF Edited
      <4>2. q.slot \in Slot \cup {Unset} /\ q.recipe \in published \cup {Unset}
        BY <3>4 DEF CanEdit
      <4>3. Patched(q) \in EntryType /\ Patched(q).plan = p
        BY <1>1, <1>2, <3>1, <3>4, <4>2, PatchedTyped
      <4> QED  BY <3>2, <3>3, <3>4, <4>1, <4>3
    <3>5. CASE q.op = "delete_entry"
      <4>1. Edited(q) = NoEntry
        BY <3>5 DEF Edited
      <4> QED  BY <3>2, <3>3, <3>5, <4>1, NoRowIsOne
    <3> QED  BY <2>2, <3>4, <3>5
  <2> QED  BY <1>1, <2>1, <2>2 DEF EntryOps
<1>7. WriteTyped(w(e))
  <2>1. PlanRow(c, meal_plan[p].state) \in PlanType
    BY <1>2, NoRowIsOne
  <2> QED  BY <1>2, <1>6, <2>1, EmptyDomain, NoEvents DEF WriteTyped, Only
<1>8. ASSUME pc'[c] = "written", write'[c] = w(e)
      PROVE  Session(c)'
  <2>1. UNCHANGED <<request, seen, meal_plan, meal_plan_entry>>
    BY <1>4 DEF Flush, rows
  <2>2. InSession(c)' = InSession(c)
    BY <2>1 DEF InSession
  <2>3. PlanRow(c, meal_plan[p].state)' = PlanRow(c, meal_plan[p].state)
    BY <2>1, <2>2 DEF PlanRow
  <2>4. ~q.mcp => meal_plan[p].state = "draft" /\ q.expected_version = meal_plan[p].version
    BY DEF CanEdit, InSession, Expected, can_edit_entries, assert_version
  <2>5. /\ write'[c].plan = Only(p, PlanRow(c, meal_plan[p].state))
        /\ write'[c] = [plan |-> Only(p, PlanRow(c, meal_plan[p].state)),
                        entry |-> Only(e, Edited(q)), task |-> <<>>, event |-> <<>>]
    BY <1>8
  <2> DEFINE row == Edited(q)
  <2>6. row \in EntryType \cup {NoEntry} /\ row.plan \in {p, 0}
    BY <1>6
  <2>7. write'[c] = [plan |-> Only(p, PlanRow(c, meal_plan[p].state)),
                     entry |-> Only(e, row), task |-> <<>>, event |-> <<>>]
    BY <2>5
  <2> HIDE DEF row
  <2>8. EditWritten(c)'
    BY <1>1, <1>5, <1>6, <2>1, <2>3, <2>4, <2>6, <2>7 DEF EditWritten
  <2> QED  BY <1>1, <1>8, <2>1, <2>8 DEF Session, Written
<1>9. \A d \in Call \ {c} : /\ DOMAIN w(e).entry \cap DOMAIN write[d].entry = {}
                            /\ DOMAIN w(e).task \cap DOMAIN write[d].task = {}
  BY <1>6, EmptyDomain DEF Only
<1>10. request[c].op # "create"
  BY <1>1, OpsAreApart
<1> HIDE DEF w
<1> QED  BY <1>4, <1>5, <1>7, <1>8, <1>9, <1>10, FlushStep

LEMMA TransitionStep ==
  ASSUME IInv, NEW c \in Call, TransitionPlan(c)
  PROVE  IInv'
<1> USE DEF TransitionPlan
<1> DEFINE q == request[c]
           p == request[c].plan
           next == IF q.op = "approve" THEN "derive" ELSE "written"
           w == [plan |-> Only(p, PlanRow(c, Target(q.op))), entry |-> <<>>, task |-> <<>>,
                 event |-> <<StateEvent(c, p, InSession(c).state, Target(q.op))>>]
<1>1. Types /\ Session(c) /\ q \in Request /\ q.op \in TransitionOps /\ q.op \in PlanOps
  BY OpenWritesNothing, OpsAreApart
<1>2. /\ p \in PlanId /\ meal_plan[p] \in PlanType
      /\ InSession(c) \in PlanType /\ \A s \in State : PlanRow(c, s) \in PlanType
  BY <1>1, InSessionTyped
<1>3. Flush(c, w, next)
  <2>1. ASSUME NEW f, f = [NoWrite EXCEPT
                             !.plan = Only(p, [state |-> Target(q.op),
                                               version |-> InSession(c).version + 1]),
                             !.event = <<StateEvent(c, p, InSession(c).state, Target(q.op))>>]
        PROVE  f = w
    BY <2>1 DEF NoWrite, PlanRow
  <2> HIDE DEF w
  <2> QED  BY <2>1
<1>4. LocksTaken(c) /\ plan_lock'[p] = c
  BY <1>1, <1>2, LocksAreTaken
<1>5. WriteTyped(w)
  <2>1. Target(q.op) \in State /\ InSession(c).state \in State
    BY <1>1, <1>2, TargetIs, NoRowIsOne
  <2>2. <<StateEvent(c, p, InSession(c).state, Target(q.op))>> \in Seq(EventType)
    BY <1>1, <1>2, <2>1, StateEventTyped, OneEvent
  <2>3. PlanRow(c, Target(q.op)) \in PlanType
    BY <1>2, <2>1
  <2> QED  BY <1>2, <2>2, <2>3, EmptyDomain DEF WriteTyped, Only
<1>6. ASSUME pc'[c] = next, write'[c] = w
      PROVE  Session(c)'
  <2>1. UNCHANGED <<request, seen, started, meal_plan>>
    BY <1>3 DEF Flush, rows
  <2>2. InSession(c)' = InSession(c)
    BY <2>1 DEF InSession
  <2>3. /\ PlanRow(c, Target(q.op))' = PlanRow(c, Target(q.op))
        /\ StateEvent(c, p, InSession(c).state, Target(q.op))'
             = StateEvent(c, p, InSession(c).state, Target(q.op))
    BY <2>1, <2>2 DEF PlanRow, StateEvent
  <2>4. ~q.mcp => q.expected_version = meal_plan[p].version
    BY DEF CanTransition, InSession, Expected, assert_version
  <2>5. ~Derived(c)'
    BY <1>6, <2>1 DEF Derived
  <2>6. write'[c] = [plan |-> Only(p, PlanRow(c, Target(q.op))), entry |-> <<>>, task |-> <<>>,
                     event |-> <<StateEvent(c, p, InSession(c).state, Target(q.op))>>]
    BY <1>6
  <2>7. TransitionWritten(c)'
    BY <1>1, <1>4, <2>1, <2>3, <2>4, <2>5, <2>6 DEF TransitionWritten
  <2>8. meal_plan'[p] # NoPlan /\ (q.mcp => seen'[c] # NoPlan)
    BY <1>1, <2>1 DEF Session
  <2> QED  BY <1>1, <1>6, <2>1, <2>7, <2>8 DEF Session, Written
<1>7. \A d \in Call \ {c} : /\ DOMAIN w.entry \cap DOMAIN write[d].entry = {}
                            /\ DOMAIN w.task \cap DOMAIN write[d].task = {}
  BY EmptyDomain
<1>8. request[c].op # "create" /\ next \in {"derive", "written"}
  BY <1>1, OpsAreApart
<1> HIDE DEF w, next
<1> QED  BY <1>3, <1>4, <1>5, <1>6, <1>7, <1>8, FlushStep

LEMMA DeriveStep ==
  ASSUME IInv, NEW c \in Call, DeriveTasks(c)
  PROVE  IInv'
<1> USE DEF DeriveTasks
<1> DEFINE q == request[c]
           p == request[c].plan
           w == [write[c] EXCEPT !.task = Reconciled(p)]
<1>1. /\ Types /\ Session(c) /\ pc[c] = "derive" /\ q.op = "approve" /\ TransitionWritten(c)
      /\ Flush(c, w, "written")
  BY DEF IInv, Session
<1>2. q \in Request /\ p \in PlanId /\ q.op \in PlanOps
  BY <1>1, RequestTyped, OpsAreApart DEF Session, TransitionWritten
<1>3. /\ plan_lock[p] = c /\ ~Derived(c)
      /\ write[c] = [plan |-> Only(p, PlanRow(c, Target(q.op))), entry |-> <<>>, task |-> <<>>,
                     event |-> <<StateEvent(c, p, InSession(c).state, Target(q.op))>>]
  BY <1>1 DEF TransitionWritten, Derived
<1>4. w = [plan |-> Only(p, PlanRow(c, Target(q.op))), entry |-> <<>>, task |-> Reconciled(p),
           event |-> <<StateEvent(c, p, InSession(c).state, Target(q.op))>>]
  BY <1>3
<1>5. Existing(p) \subseteq Task
  BY TasksAreApart DEF Existing
<1>6. LocksTaken(c)
  <2>1. NoCall \notin Call
    BY PlanAssumption
  <2>2. \A t \in Task : task_lock'[t] = IF t \in Existing(p) THEN c ELSE task_lock[t]
    OBVIOUS
  <2>3. task_lock' \in [Task -> Call \cup {NoCall}]
    BY <1>1 DEF Types, TypeOK, WorkerTypes
  <2> QED  BY <1>1, <2>1, <2>2, <2>3 DEF LocksTaken, TaskFree, Types, TypeOK, WorkerTypes
<1>7. WriteTyped(w)
  <2>1. WriteTyped(write[c])
    BY <1>1 DEF Types, TypeOK
  <2>2. \A t \in DOMAIN Reconciled(p) : t \in Task /\ Reconciled(p)[t] \in TaskType
    BY <1>1, <1>2, <1>5, ReconciledIs, TasksAreApart
  <2>3. w.task = Reconciled(p) /\ w.plan = write[c].plan /\ w.entry = write[c].entry
        /\ w.event = write[c].event
    BY <1>3, <1>4
  <2> HIDE DEF w
  <2> QED  BY <2>1, <2>2, <2>3 DEF WriteTyped
<1>8. ASSUME pc'[c] = "written", write'[c] = w
      PROVE  Session(c)'
  <2>1. UNCHANGED <<request, seen, started, meal_plan, meal_plan_entry, preparation_task, plan_lock>>
    BY <1>1 DEF Flush, rows
  <2>2. InSession(c)' = InSession(c)
    BY <2>1 DEF InSession
  <2>3. /\ PlanRow(c, Target(q.op))' = PlanRow(c, Target(q.op))
        /\ StateEvent(c, p, InSession(c).state, Target(q.op))'
             = StateEvent(c, p, InSession(c).state, Target(q.op))
    BY <2>1, <2>2 DEF PlanRow, StateEvent
  <2>4. /\ \A e \in EntryId : meal_plan_entry'[e].plan = p <=> meal_plan_entry[e].plan = p
        /\ \A e \in EntriesOf(p) : meal_plan_entry'[e] = meal_plan_entry[e]
        /\ \A t \in DerivedTask : t[1] \in EntriesOf(p) => preparation_task'[t] = preparation_task[t]
    BY <2>1
  <2>5. Reconciled(p)' = Reconciled(p) /\ Existing(p)' = Existing(p)
    <3>1. PICK k \in PlanId : k = p
      BY <1>2
    <3>2. Reconciled(k)' = Reconciled(k) /\ Existing(k)' = Existing(k)
      BY <2>4, <3>1, ReconciledStays
    <3> QED  BY <2>1, <3>1, <3>2
  <2>6. Derived(c)'
    BY <1>1, <1>8, <2>1 DEF Derived
  <2>7. \A t \in Existing(p) : task_lock'[t] = c
    BY <1>5
  <2>8. ~q.mcp => q.expected_version = meal_plan[p].version
    BY <1>1 DEF TransitionWritten
  <2>9. write'[c] = [plan |-> Only(p, PlanRow(c, Target(q.op))), entry |-> <<>>,
                     task |-> Reconciled(p),
                     event |-> <<StateEvent(c, p, InSession(c).state, Target(q.op))>>]
    BY <1>4, <1>8
  <2>10. q.op \in TransitionOps
    BY <1>1 DEF TransitionWritten
  <2>11. TransitionWritten(c)'
    BY <1>3, <2>1, <2>3, <2>5, <2>6, <2>7, <2>8, <2>9, <2>10 DEF TransitionWritten
  <2>12. meal_plan'[p] # NoPlan /\ (q.mcp => seen'[c] # NoPlan)
    BY <1>1, <1>2, <2>1 DEF Session
  <2> QED  BY <1>2, <1>8, <2>1, <2>11, <2>12 DEF Session, Written
<1>9. ASSUME NEW d \in Call \ {c}
      PROVE  /\ DOMAIN w.entry \cap DOMAIN write[d].entry = {}
             /\ DOMAIN w.task \cap DOMAIN write[d].task = {}
  <2>1. w.entry = <<>> /\ w.task = Reconciled(p)
    BY <1>4
  <2>2. ASSUME NEW t \in DOMAIN Reconciled(p) PROVE t \notin DOMAIN write[d].task
    <3>1. /\ t \in DerivedTask /\ t \in Task /\ t[1] \in EntriesOf(p)
          /\ preparation_task[t] # NoTask => t \in Existing(p)
      <4>1. t[1] \in EntriesOf(p) /\ t \in DerivedTask
        BY <1>1, <1>2, <2>2, ReconciledIs
      <4> QED  BY <4>1, TasksAreApart DEF Existing
    <3>2. CASE preparation_task[t] # NoTask
      BY <3>1, <3>2, NobodyElse
    <3>3. CASE preparation_task[t] = NoTask
      <4>1. plan_lock[p] # d /\ meal_plan_entry[t[1]].plan = p
        BY <1>3, <3>1 DEF EntriesOf
      <4> QED  BY <1>2, <3>1, <3>3, <4>1, NobodyElse
    <3> QED  BY <3>2, <3>3
  <2> QED  BY <2>1, <2>2, EmptyDomain
<1>10. request[c].op # "create"
  BY <1>1
<1> HIDE DEF w
<1> QED  BY <1>1, <1>6, <1>7, <1>8, <1>9, <1>10, FlushStep

LEMMA CreateTaskStep ==
  ASSUME IInv, NEW c \in Call, CreateTask(c)
  PROVE  IInv'
<1> USE DEF CreateTask
<1>1. Types /\ Session(c) /\ request[c] \in Request /\ request[c].op = "create_task"
  BY OpenWritesNothing
<1> DEFINE row == [status |-> "pending", version |-> 1, due |-> 0]
           w(t) == [plan |-> <<>>, entry |-> <<>>, event |-> <<>>, task |-> Only(t, row)]
<1>2. PICK t \in UnusedTasks : Flush(c, w(t), "written")
  BY DEF NoWrite
<1>3. /\ t \in ManualTask /\ t \in Task /\ preparation_task[t] = NoTask
      /\ \A d \in Call : t \notin DOMAIN write[d].task
  BY TasksAreApart DEF UnusedTasks
<1>4. WriteTyped(w(t))
  <2>1. row \in TaskType
    BY DEF TaskType
  <2> QED  BY <1>3, <2>1, EmptyDomain, NoEvents DEF WriteTyped, Only
<1>5. ASSUME pc'[c] = "written", write'[c] = w(t)
      PROVE  Session(c)'
  <2>1. UNCHANGED <<request, seen, preparation_task>>
    BY <1>2 DEF Flush, rows
  <2>2. TaskCreationWritten(c)'
    BY <1>1, <1>3, <1>5, <2>1 DEF TaskCreationWritten
  <2> QED  BY <1>1, <1>5, <2>1, <2>2, OpsAreApart DEF Session, Written
<1>6. \A d \in Call \ {c} : /\ DOMAIN w(t).entry \cap DOMAIN write[d].entry = {}
                            /\ DOMAIN w(t).task \cap DOMAIN write[d].task = {}
  BY <1>3, EmptyDomain DEF Only
<1>7. LocksTaken(c)
  BY <1>1, LocksAreTaken
<1> HIDE DEF w
<1> QED  BY <1>1, <1>2, <1>4, <1>5, <1>6, <1>7, FlushStep

LEMMA ResolvedIs ==
  ASSUME NEW q, preparation_task[q.task] \in TaskType
  PROVE  /\ Resolved(q) \in TaskType
         /\ Resolved(q).status \in {"completed", "cancelled"}
         /\ Resolved(q).version = preparation_task[q.task].version + 1
<1> DEFINE row == preparation_task[q.task]
           status == IF q.op = "complete" THEN "completed" ELSE "cancelled"
<1>1. Resolved(q) = [row EXCEPT !.version = row.version + 1, !.status = status]
  BY DEF Resolved
<1>2. status \in {"completed", "cancelled"}
  OBVIOUS
<1> HIDE DEF row, status
<1>3. row \in TaskType /\ row.version + 1 \in Nat \ {0}
  BY NoRowIsOne DEF row
<1>4. /\ Resolved(q) \in TaskType /\ Resolved(q).status = status
      /\ Resolved(q).version = row.version + 1
  BY <1>1, <1>2, <1>3 DEF TaskType
<1> QED  BY <1>2, <1>4 DEF row

LEMMA ResolveStep ==
  ASSUME IInv, NEW c \in Call, TransitionTask(c)
  PROVE  IInv'
<1> USE DEF TransitionTask
<1> DEFINE q == request[c]
           w == [plan |-> <<>>, entry |-> <<>>, event |-> <<>>, task |-> Only(q.task, Resolved(q))]
<1>1. Types /\ Session(c) /\ q \in Request /\ q.op \in TaskOps /\ q.task \in Task
  BY OpenWritesNothing, RequestTyped
<1>2. Flush(c, w, "written")
  BY DEF NoWrite
<1>3. preparation_task[q.task] \in TaskType /\ preparation_task[q.task].status = "pending"
  BY <1>1, NoRowIsOne DEF CanResolve, Types, TypeOK, RowTypes
<1>4. LocksTaken(c) /\ task_lock'[q.task] = c
  BY <1>1, LocksAreTaken
<1>5. WriteTyped(w)
  BY <1>1, <1>3, ResolvedIs, EmptyDomain, NoEvents DEF WriteTyped, Only
<1>6. ASSUME pc'[c] = "written", write'[c] = w
      PROVE  Session(c)'
  <2>1. UNCHANGED <<request, seen, preparation_task>>
    BY <1>2 DEF Flush, rows
  <2>2. Resolved(q)' = Resolved(q)
    BY <2>1 DEF Resolved
  <2>3. ResolutionWritten(c)'
    BY <1>1, <1>3, <1>4, <1>6, <2>1, <2>2 DEF ResolutionWritten
  <2>4. q.op \notin PlanOps
    BY <1>1, OpsAreApart
  <2> QED  BY <1>1, <1>6, <2>1, <2>3, <2>4 DEF Session, Written
<1>7. ASSUME NEW d \in Call \ {c}
      PROVE  /\ DOMAIN w.entry \cap DOMAIN write[d].entry = {}
             /\ DOMAIN w.task \cap DOMAIN write[d].task = {}
  <2>1. q.task \notin DOMAIN write[d].task
    BY <1>1, <1>3, NobodyElse, NoRowIsOne
  <2> QED  BY <2>1, EmptyDomain DEF Only
<1>8. request[c].op # "create"
  BY <1>1, OpsAreApart
<1> HIDE DEF w
<1> QED  BY <1>2, <1>4, <1>5, <1>6, <1>7, <1>8, FlushStep
-----------------------------------------------------------------------------
(***************************************************************************)
(* The commit.                                                             *)
(***************************************************************************)

\* What a worker that commits writes to the plans: a new one, or its own.
LEMMA PlansWritten ==
  ASSUME IInv, NEW c \in Call, pc[c] = "written", NEW p \in DOMAIN write[c].plan
  PROVE  /\ p \in PlanId
         /\ \/ Creates(c) /\ meal_plan[p] = NoPlan
            \/ /\ meal_plan[p] # NoPlan /\ plan_lock[p] = c /\ request[c].plan = p
               /\ EditWritten(c) \/ TransitionWritten(c)
<1>1. Types /\ Session(c) /\ Written(c)
  BY DEF IInv, Session
<1>2. CASE CreationWritten(c)
  BY <1>2 DEF CreationWritten, Creates, Only
<1>3. CASE EditWritten(c) \/ TransitionWritten(c)
  <2>1. request[c].op \in PlanOps
    BY <1>3, OpsAreApart DEF EditWritten, TransitionWritten
  <2>2. request[c].plan \in PlanId /\ meal_plan[request[c].plan] # NoPlan
    BY <1>1, <2>1, RequestTyped DEF Session
  <2>3. plan_lock[request[c].plan] = c
    BY <1>3 DEF EditWritten, TransitionWritten
  <2>4. p = request[c].plan
    <3>1. CASE EditWritten(c)
      <4>1. PICK row : write[c].plan = Only(request[c].plan, row)
        BY <3>1 DEF EditWritten
      <4> QED  BY <4>1 DEF Only
    <3>2. CASE TransitionWritten(c)
      <4>1. write[c].plan = Only(request[c].plan, PlanRow(c, Target(request[c].op)))
        BY <3>2 DEF TransitionWritten
      <4> QED  BY <4>1 DEF Only
    <3> QED  BY <1>3, <3>1, <3>2
  <2> QED  BY <1>3, <2>2, <2>3, <2>4
<1>4. CASE TaskCreationWritten(c) \/ ResolutionWritten(c)
  <2>1. write[c].plan = <<>>
    <3>1. CASE TaskCreationWritten(c)
      BY <3>1 DEF TaskCreationWritten
    <3>2. CASE ResolutionWritten(c)
      BY <3>2 DEF ResolutionWritten
    <3> QED  BY <1>4, <3>1, <3>2
  <2> QED  BY <2>1, EmptyDomain
<1> QED  BY <1>1, <1>2, <1>3, <1>4 DEF Written

\* What a worker that commits writes to the tasks: a new one, or one that was
\* pending and is so no more.
LEMMA TasksWritten ==
  ASSUME IInv, NEW c \in Call, pc[c] = "written", NEW t \in DOMAIN write[c].task
  PROVE  \/ preparation_task[t] = NoTask /\ write[c].task[t].status = "pending"
         \/ /\ preparation_task[t].status = "pending"
            /\ write[c].task[t].status \in {"completed", "cancelled"}
            /\ write[c].task[t].version = preparation_task[t].version + 1
<1>1. Types /\ Session(c) /\ Written(c)
  BY DEF IInv, Session
<1> DEFINE q == request[c]
<1>2. CASE CreationWritten(c) \/ EditWritten(c)
  <2>1. write[c].task = <<>>
    <3>1. CASE CreationWritten(c)
      BY <3>1 DEF CreationWritten
    <3>2. CASE EditWritten(c)
      BY <3>2 DEF EditWritten
    <3> QED  BY <1>2, <3>1, <3>2
  <2> QED  BY <2>1, EmptyDomain
<1>3. CASE TransitionWritten(c)
  <2>1. q.plan \in PlanId
    BY <1>1, <1>3, OpsAreApart, RequestTyped DEF TransitionWritten, Session
  <2>2. Derived(c) /\ write[c].task = Reconciled(q.plan)
    BY <1>3, EmptyDomain DEF TransitionWritten
  <2> QED  BY <1>1, <2>1, <2>2, ReconciledIs
<1>4. CASE TaskCreationWritten(c)
  <2>1. PICK u \in ManualTask :
          /\ preparation_task[u] = NoTask
          /\ write[c].task = Only(u, [status |-> "pending", version |-> 1, due |-> 0])
    BY <1>4 DEF TaskCreationWritten
  <2> QED  BY <2>1 DEF Only
<1>5. CASE ResolutionWritten(c)
  <2>1. q.op \in TaskOps /\ q.task \in Task /\ preparation_task[q.task].status = "pending"
    BY <1>1, <1>5, RequestTyped DEF ResolutionWritten, Session
  <2>2. preparation_task[q.task] \in TaskType
    BY <1>1, <2>1, NoRowIsOne DEF Types, TypeOK, RowTypes
  <2>3. t = q.task /\ write[c].task[t] = Resolved(q)
    BY <1>5 DEF ResolutionWritten, Only
  <2> QED  BY <2>1, <2>2, <2>3, ResolvedIs
<1> QED  BY <1>1, <1>2, <1>3, <1>4, <1>5 DEF Written

\* The tables after a commit.
LEMMA Committed ==
  ASSUME IInv, NEW c \in Call, Commit(c)
  PROVE  /\ pc[c] = "written" /\ EndTransaction(c) /\ RowTypes'
         /\ \A p \in PlanId :
              /\ p \in DOMAIN write[c].plan =>
                   meal_plan'[p] = write[c].plan[p] /\ meal_plan'[p] \in PlanType
              /\ p \notin DOMAIN write[c].plan => meal_plan'[p] = meal_plan[p]
         /\ \A e \in EntryId :
              /\ e \in DOMAIN write[c].entry => meal_plan_entry'[e] = write[c].entry[e]
              /\ e \notin DOMAIN write[c].entry => meal_plan_entry'[e] = meal_plan_entry[e]
         /\ \A t \in Task :
              /\ t \in DOMAIN write[c].task => preparation_task'[t] = write[c].task[t]
              /\ t \notin DOMAIN write[c].task => preparation_task'[t] = preparation_task[t]
         /\ meal_plan_state_event' = meal_plan_state_event \o write[c].event
         /\ meal_plan_state_event \in Seq(EventType) /\ write[c].event \in Seq(EventType)
<1>1. Types /\ WriteTyped(write[c])
  BY DEF IInv, Types, TypeOK
<1>2. /\ pc[c] = "written" /\ EndTransaction(c) /\ UNCHANGED household
      /\ meal_plan' = Over(write[c].plan, meal_plan)
      /\ meal_plan_entry' = Over(write[c].entry, meal_plan_entry)
      /\ preparation_task' = Over(write[c].task, preparation_task)
      /\ meal_plan_state_event' = meal_plan_state_event \o write[c].event
  BY DEF Commit
<1>3. /\ meal_plan' \in [PlanId -> PlanType \cup {NoPlan}]
      /\ \A p \in PlanId :
           /\ p \in DOMAIN write[c].plan =>
                meal_plan'[p] = write[c].plan[p] /\ meal_plan'[p] \in PlanType
           /\ p \notin DOMAIN write[c].plan => meal_plan'[p] = meal_plan[p]
  BY <1>1, <1>2 DEF Over, WriteTyped, Types, TypeOK, RowTypes
<1>4. /\ meal_plan_entry' \in [EntryId -> EntryType \cup {NoEntry}]
      /\ \A e \in EntryId :
           /\ e \in DOMAIN write[c].entry => meal_plan_entry'[e] = write[c].entry[e]
           /\ e \notin DOMAIN write[c].entry => meal_plan_entry'[e] = meal_plan_entry[e]
  BY <1>1, <1>2 DEF Over, WriteTyped, Types, TypeOK, RowTypes
<1>5. /\ preparation_task' \in [Task -> TaskType \cup {NoTask}]
      /\ \A t \in Task :
           /\ t \in DOMAIN write[c].task => preparation_task'[t] = write[c].task[t]
           /\ t \notin DOMAIN write[c].task => preparation_task'[t] = preparation_task[t]
  BY <1>1, <1>2 DEF Over, WriteTyped, Types, TypeOK, RowTypes
<1>6. /\ meal_plan_state_event \in Seq(EventType) /\ write[c].event \in Seq(EventType)
      /\ meal_plan_state_event' \in Seq(EventType)
  BY <1>1, <1>2 DEF WriteTyped, Types, TypeOK, RowTypes
<1>7. operation_receipt' \subseteq Request
  <2>1. request[c] \in Request
    BY <1>2 DEF IInv, Session
  <2>2. operation_receipt' \subseteq operation_receipt \cup {request[c]}
    BY DEF Commit
  <2> QED  BY <1>1, <2>1, <2>2 DEF Types, TypeOK, RowTypes
<1>8. mutations' \in [PlanId -> Nat]
  BY <1>1 DEF Commit, Types, TypeOK, RowTypes
<1>9. active' \subseteq User /\ published' \subseteq Recipe
  BY <1>1, <1>2 DEF household, Types, TypeOK, RowTypes
<1>10. RowTypes'
  BY <1>3, <1>4, <1>5, <1>6, <1>7, <1>8, <1>9 DEF RowTypes
<1> QED  BY <1>2, <1>3, <1>4, <1>5, <1>6, <1>10

\* A commit changes no row that another worker relies on.
LEMMA CommitKeeps ==
  ASSUME IInv, NEW c \in Call, Commit(c), NEW d \in Call \ {c}
  PROVE  RowsKept(d)
<1>1. Types /\ Session(d) /\ Apart
  BY DEF IInv
<1>2. \A p \in PlanId : meal_plan[p] # NoPlan => meal_plan'[p] # NoPlan
  BY Committed, NoRowIsOne
<1>3. ASSUME Creates(d), NEW p \in PlanId, meal_plan[p] = NoPlan
      PROVE  meal_plan'[p] = NoPlan
  <2>1. ~Creates(c)
    BY <1>1, <1>3 DEF Apart, OneCreation
  <2>2. p \notin DOMAIN write[c].plan
    BY <1>3, <2>1, Committed, PlansWritten
  <2> QED  BY <1>3, <2>2, Committed
<1>4. ASSUME NEW p \in PlanId, plan_lock[p] = d, meal_plan[p] # NoPlan
      PROVE  /\ meal_plan'[p] = meal_plan[p]
             /\ \A e \in EntryId : meal_plan_entry'[e].plan = p <=> meal_plan_entry[e].plan = p
             /\ \A e \in EntriesOf(p) : meal_plan_entry'[e] = meal_plan_entry[e]
  <2>1. p \notin DOMAIN write[c].plan
    BY <1>4, Committed, PlansWritten
  <2>2. ASSUME NEW e \in EntryId
        PROVE  /\ meal_plan_entry'[e].plan = p <=> meal_plan_entry[e].plan = p
               /\ meal_plan_entry[e].plan = p => meal_plan_entry'[e] = meal_plan_entry[e]
    <3>1. CASE e \notin DOMAIN write[c].entry
      BY <2>2, <3>1, Committed
    <3>2. CASE e \in DOMAIN write[c].entry
      <4>1. /\ meal_plan_entry[e] = NoEntry \/ plan_lock[meal_plan_entry[e].plan] = c
            /\ meal_plan_entry'[e].plan = 0 \/ plan_lock[meal_plan_entry'[e].plan] = c
        BY <2>2, <3>2, Holds, Committed
      <4> QED  BY <1>4, <4>1, NoRowIsOne
    <3> QED  BY <3>1, <3>2
  <2>3. meal_plan'[p] = meal_plan[p]
    BY <2>1, Committed
  <2> QED  BY <2>2, <2>3 DEF EntriesOf
<1>5. ASSUME NEW p \in PlanId, plan_lock[p] = d, meal_plan[p] # NoPlan,
             request[d].plan = p, Derived(d),
             NEW t \in DerivedTask, t[1] \in EntriesOf(p)
      PROVE  preparation_task'[t] = preparation_task[t]
  <2>1. \A u \in Existing(p) : task_lock[u] = d
    <3>1. Written(d) /\ request[d].op = "approve"
      BY <1>1, <1>5 DEF Derived, Session
    <3>2. TransitionWritten(d)
      <4>1. "approve" \notin EntryOps \cup TaskOps \cup {"create", "create_task"}
        BY DEF EntryOps, TaskOps
      <4> QED  BY <3>1, <4>1 DEF Written, CreationWritten, EditWritten, TaskCreationWritten,
                  ResolutionWritten
    <3> QED  BY <1>5, <3>2 DEF TransitionWritten
  <2>2. SUFFICES t \notin DOMAIN write[c].task
    BY Committed, TasksAreApart
  <2>3. SUFFICES ASSUME t \in DOMAIN write[c].task PROVE FALSE
    OBVIOUS
  <2>4. meal_plan_entry[t[1]].plan = p /\ t \notin ManualTask
    BY <1>5, TasksAreApart DEF EntriesOf
  <2>5. CASE preparation_task[t] # NoTask
    <3>1. t \in Existing(p)
      BY <1>5, <2>5 DEF Existing
    <3> QED  BY <2>1, <2>3, <2>5, <3>1, Holds
  <2>6. CASE preparation_task[t] = NoTask
    BY <1>5, <2>3, <2>4, <2>6, Holds
  <2> QED  BY <2>5, <2>6
<1>6. \A e \in DOMAIN write[d].entry : meal_plan_entry'[e] = meal_plan_entry[e]
  <2>1. \A e \in DOMAIN write[d].entry : e \in EntryId /\ e \notin DOMAIN write[c].entry
    BY <1>1, Holds DEF Apart, OwnEntries
  <2> QED  BY <2>1, Committed
<1>7. \A t \in DOMAIN write[d].task : preparation_task'[t] = preparation_task[t]
  <2>1. \A t \in DOMAIN write[d].task : t \in Task /\ t \notin DOMAIN write[c].task
    BY <1>1, Holds DEF Apart, OwnTasks
  <2> QED  BY <2>1, Committed
<1> QED  BY <1>2, <1>3, <1>4, <1>5, <1>6, <1>7 DEF RowsKept

LEMMA CommitStep ==
  ASSUME IInv, NEW c \in Call, Commit(c)
  PROVE  IInv'
<1>1. Types /\ EndTransaction(c) /\ RowTypes'
  BY Committed DEF IInv
<1>2. /\ Aside(c) /\ WorkerTypes' /\ pc'[c] = "idle" /\ write'[c] = NoWrite /\ Session(c)'
      /\ write' = [d \in Call |-> write'[d]] /\ \A d \in Call : WriteTyped(write'[d])
  BY <1>1, TransactionEnds
<1>3. Types'
  BY <1>1, <1>2 DEF Types, TypeOK
<1>4. \A d \in Call \ {c} : RowsKept(d)
  BY CommitKeeps
<1>5. ~Creates(c)'
  BY <1>2 DEF Creates
<1> QED  BY <1>2, <1>3, <1>4, <1>5, NothingWritten, WorkerStep

LEMMA EnvironmentStep ==
  ASSUME IInv, Environment \/ UNCHANGED vars
  PROVE  IInv'
<1>1. Types
  BY DEF IInv
<1>2. UNCHANGED <<rows, locks, pc, request, seen, started, write, mutations>>
  BY DEF Environment, Join, Leave, ChangeMembers, Unpublish, vars, household
<1>3. active' \subseteq User /\ published' \subseteq Recipe /\ together' \in [Call -> BOOLEAN]
  BY <1>1 DEF Environment, Join, Leave, ChangeMembers, Unpublish, vars, household,
     Types, TypeOK, RowTypes, WorkerTypes
<1>4. Types'
  <2>1. RowTypes' /\ WorkerTypes'
    BY <1>1, <1>2, <1>3 DEF rows, locks, Types, TypeOK, RowTypes, WorkerTypes
  <2> QED  BY <1>1, <1>2, <2>1 DEF Types, TypeOK, WriteTyped
<1>5. Apart'
  BY <1>2 DEF IInv, Apart, OneCreation, OwnEntries, OwnTasks, Creates
<1>6. ASSUME NEW d \in Call PROVE Session(d)'
  <2>1. RowsKept(d)
    BY <1>2 DEF RowsKept, rows
  <2>2. /\ pc'[d] = pc[d] /\ request'[d] = request[d] /\ seen'[d] = seen[d]
        /\ started'[d] = started[d] /\ write'[d] = write[d]
        /\ plan_lock' = plan_lock /\ task_lock' = task_lock
    BY <1>2 DEF locks
  <2> QED  BY <1>1, <2>1, <2>2, SessionStays DEF IInv
<1> QED  BY <1>4, <1>5, <1>6 DEF IInv

LEMMA RefusalIsRollback ==
  ASSUME NEW c \in Call,
         \/ RefuseLoad(c) \/ RefuseCreation(c) \/ RefuseEdit(c) \/ RefuseTransition(c)
         \/ RefuseTaskCreation(c) \/ RefuseTask(c) \/ CommitRefused(c) \/ Crash(c)
  PROVE  Rollback(c)
BY DEF RefuseLoad, RefuseCreation, RefuseEdit, RefuseTransition, RefuseTaskCreation, RefuseTask,
   CommitRefused, Crash

LEMMA NextIInv ==
  ASSUME IInv, [Next]_vars
  PROVE  IInv'
<1>1. ASSUME NEW c \in Call, NEW q \in Request, Receive(c, q) PROVE IInv'
  BY <1>1, ReceiveStep
<1>2. ASSUME NEW c \in Call, Crash(c) PROVE IInv'
  BY <1>2, RefusalIsRollback, RollbackStep
<1>3. ASSUME NEW c \in Call, Step(c) PROVE IInv'
  <2>1. CASE Load(c)
    BY <2>1, LoadStep
  <2>2. CASE CreatePlan(c)
    BY <2>2, CreatePlanStep
  <2>3. CASE EditEntry(c)
    BY <2>3, EditStep
  <2>4. CASE TransitionPlan(c)
    BY <2>4, TransitionStep
  <2>5. CASE DeriveTasks(c)
    BY <2>5, DeriveStep
  <2>6. CASE CreateTask(c)
    BY <2>6, CreateTaskStep
  <2>7. CASE TransitionTask(c)
    BY <2>7, ResolveStep
  <2>8. CASE Commit(c)
    BY <2>8, CommitStep
  <2>9. CASE \/ RefuseLoad(c) \/ RefuseCreation(c) \/ RefuseEdit(c) \/ RefuseTransition(c)
             \/ RefuseTaskCreation(c) \/ RefuseTask(c) \/ CommitRefused(c)
    BY <2>9, RefusalIsRollback, RollbackStep
  <2> QED  BY <1>3, <2>1, <2>2, <2>3, <2>4, <2>5, <2>6, <2>7, <2>8, <2>9 DEF Step
<1>4. CASE Environment \/ Quiet \/ UNCHANGED vars
  BY <1>4, EnvironmentStep DEF Quiet
<1> QED  BY <1>1, <1>2, <1>3, <1>4 DEF Next

\* Whatever is sent, what the workers have flushed stays true to the rows.
THEOREM InductiveInvariant == Spec => []IInv
BY InitIInv, NextIInv, PTL DEF Spec

\* The rows, the locks and what the transactions have flushed have their types.
THEOREM TypeCorrect == Spec => []TypeOK
<1>1. IInv => TypeOK
  BY DEF IInv, Types
<1> QED  BY <1>1, InductiveInvariant, PTL
-----------------------------------------------------------------------------
(***************************************************************************)
(* The rows change at commits only, and what is written tells how.         *)
(***************************************************************************)
LEMMA OnlyCommitsWrite ==
  ASSUME [Next]_vars
  PROVE  UNCHANGED rows \/ \E c \in Call : Commit(c)
<1>1. ASSUME NEW c \in Call, NEW q \in Request, Receive(c, q) PROVE UNCHANGED rows
  BY <1>1 DEF Receive
<1>2. ASSUME NEW c \in Call, Crash(c) PROVE UNCHANGED rows
  BY <1>2 DEF Crash, Rollback
<1>3. ASSUME NEW c \in Call, Step(c), ~Commit(c) PROVE UNCHANGED rows
  <2>1. CASE \/ RefuseLoad(c) \/ RefuseCreation(c) \/ RefuseEdit(c) \/ RefuseTransition(c)
             \/ RefuseTaskCreation(c) \/ RefuseTask(c) \/ CommitRefused(c)
    BY <2>1, RefusalIsRollback DEF Rollback
  <2>2. CASE Load(c)
    BY <2>2 DEF Load
  <2>3. CASE CreatePlan(c)
    BY <2>3 DEF CreatePlan, Flush
  <2>4. CASE EditEntry(c)
    BY <2>4 DEF EditEntry, Flush
  <2>5. CASE TransitionPlan(c)
    BY <2>5 DEF TransitionPlan, Flush
  <2>6. CASE DeriveTasks(c)
    BY <2>6 DEF DeriveTasks, Flush
  <2>7. CASE CreateTask(c)
    BY <2>7 DEF CreateTask, Flush
  <2>8. CASE TransitionTask(c)
    BY <2>8 DEF TransitionTask, Flush
  <2> QED  BY <1>3, <2>1, <2>2, <2>3, <2>4, <2>5, <2>6, <2>7, <2>8 DEF Step
<1>4. CASE Environment
  BY <1>4 DEF Environment, Join, Leave, ChangeMembers, Unpublish
<1>5. CASE Quiet \/ UNCHANGED vars
  BY <1>5 DEF Quiet, vars
<1> QED  BY <1>1, <1>2, <1>3, <1>4, <1>5 DEF Next

\* A completed or cancelled task never changes again, a pending one is resolved
\* in one step and no task disappears: the derivation and the members hold the
\* lock of a task from before they look at its status until they commit.
THEOREM TasksResolveOnce == Spec => ResolvedIsFinal
<1> DEFINE Resolves(old, new) ==
             /\ old.status \in {"completed", "cancelled"} => new = old
             /\ old.status = "pending" /\ new # old =>
                  new.status \in {"completed", "cancelled"} /\ new.version = old.version + 1
           AllResolve == \A t \in Task : Resolves(preparation_task[t], preparation_task'[t])
<1>1. ASSUME IInv, [Next]_vars, NEW t \in Task
      PROVE  Resolves(preparation_task[t], preparation_task'[t])
  <2>1. CASE UNCHANGED rows
    BY <2>1 DEF rows
  <2>2. CASE \E c \in Call : Commit(c)
    <3>1. PICK c \in Call : Commit(c)
      BY <2>2
    <3>2. CASE t \notin DOMAIN write[c].task
      BY <1>1, <3>1, <3>2, Committed
    <3>3. CASE t \in DOMAIN write[c].task
      <4>1. pc[c] = "written" /\ preparation_task'[t] = write[c].task[t]
        BY <1>1, <3>1, <3>3, Committed
      <4>2. \/ preparation_task[t] = NoTask
            \/ /\ preparation_task[t].status = "pending"
               /\ write[c].task[t].status \in {"completed", "cancelled"}
               /\ write[c].task[t].version = preparation_task[t].version + 1
        BY <1>1, <3>3, <4>1, TasksWritten
      <4> QED  BY <4>1, <4>2, NoRowIsOne
    <3> QED  BY <3>2, <3>3
  <2> QED  BY <1>1, <2>1, <2>2, OnlyCommitsWrite
<1>2. ASSUME IInv, [Next]_vars
      PROVE  [AllResolve]_vars
  BY <1>1, <1>2
<1>3. ResolvedIsFinal <=> [][AllResolve]_vars
  BY DEF ResolvedIsFinal
<1> HIDE DEF AllResolve
<1> QED  BY <1>2, <1>3, InductiveInvariant, PTL DEF Spec
-----------------------------------------------------------------------------
(***************************************************************************)
(* Plans that members edit over HTTP.  A tool edits the plan that it has   *)
(* loaded without a lock and that may have been approved meanwhile.        *)
(***************************************************************************)
NoAgentEdits == \A q \in Request : q.op \in EntryOps => ~q.mcp

\* An entry is written with the lock of its plan, which is a draft.
LEMMA EntriesWritten ==
  ASSUME IInv, NEW c \in Call, pc[c] = "written", NEW e \in DOMAIN write[c].entry
  PROVE  LET p == request[c].plan IN
         /\ EditWritten(c) /\ p \in PlanId /\ p \in DOMAIN write[c].plan
         /\ meal_plan_entry[e].plan \in {p, 0} /\ write[c].entry[e].plan \in {p, 0}
         /\ NoAgentEdits => meal_plan[p].state = "draft" /\ write[c].plan[p].state = "draft"
<1>1. Types /\ Session(c) /\ Written(c) /\ request[c] \in Request
  BY DEF IInv, Session
<1>2. EditWritten(c)
  <2>1. write[c].entry # <<>>
    BY EmptyDomain
  <2>2. ASSUME CreationWritten(c) PROVE FALSE
    <3>1. write[c].entry = <<>>
      BY <2>2 DEF CreationWritten
    <3> QED  BY <2>1, <3>1
  <2>3. ~TransitionWritten(c)
    BY <2>1 DEF TransitionWritten
  <2>4. ASSUME TaskCreationWritten(c) PROVE FALSE
    <3>1. write[c].entry = <<>>
      BY <2>4 DEF TaskCreationWritten
    <3> QED  BY <2>1, <3>1
  <2>5. ~ResolutionWritten(c)
    BY <2>1 DEF ResolutionWritten
  <2> QED  BY <1>1, <2>2, <2>3, <2>4, <2>5 DEF Written
<1>3. request[c].op \in EntryOps /\ request[c].plan \in PlanId
  BY <1>1, <1>2, OpsAreApart, RequestTyped DEF EditWritten
<1> DEFINE p == request[c].plan
<1>4. PICK n \in EntryId, row \in EntryType \cup {NoEntry} :
        /\ IF request[c].op = "add_entry" THEN meal_plan_entry[n] = NoEntry
                                          ELSE meal_plan_entry[n].plan = p
        /\ row.plan \in {p, 0}
        /\ write[c] = [plan |-> Only(p, PlanRow(c, meal_plan[p].state)),
                       entry |-> Only(n, row), task |-> <<>>, event |-> <<>>]
  BY <1>2 DEF EditWritten
<1>5. e = n /\ write[c].entry[e] = row
  BY <1>4 DEF Only
<1>6. p \in DOMAIN write[c].plan /\ write[c].plan[p] = PlanRow(c, meal_plan[p].state)
  BY <1>4 DEF Only
<1>7. NoAgentEdits => meal_plan[p].state = "draft"
  BY <1>1, <1>2, <1>3 DEF EditWritten, NoAgentEdits
<1> QED  BY <1>2, <1>3, <1>4, <1>5, <1>6, <1>7, NoRowIsOne DEF PlanRow

\* Where no agent edits entries, they change while their plan is a draft: the
\* version and the state that are checked under the lock of the plan are those
\* of the row until the commit.
THEOREM EditsMeetADraft ==
  ASSUME NoAgentEdits
  PROVE  Spec => EntriesChangeInDraft
<1> DEFINE EditsDrafts ==
             \A e \in EntryId :
               meal_plan_entry'[e] # meal_plan_entry[e] =>
                 \A p \in {meal_plan_entry[e].plan, meal_plan_entry'[e].plan} \cap PlanId :
                   meal_plan[p].state = "draft"
<1>1. ASSUME IInv, [Next]_vars, NEW e \in EntryId, meal_plan_entry'[e] # meal_plan_entry[e],
             NEW p \in {meal_plan_entry[e].plan, meal_plan_entry'[e].plan} \cap PlanId
      PROVE  meal_plan[p].state = "draft"
  <2>1. ~UNCHANGED rows
    BY <1>1 DEF rows
  <2>2. PICK c \in Call : Commit(c)
    BY <1>1, <2>1, OnlyCommitsWrite
  <2>3. e \in DOMAIN write[c].entry /\ meal_plan_entry'[e] = write[c].entry[e] /\ pc[c] = "written"
    BY <1>1, <2>2, Committed
  <2>4. p = request[c].plan /\ meal_plan[request[c].plan].state = "draft"
    BY <1>1, <2>3, EntriesWritten, NoRowIsOne
  <2> QED  BY <2>4
<1>2. ASSUME IInv, [Next]_vars
      PROVE  [EditsDrafts]_vars
  BY <1>1, <1>2
<1>3. EntriesChangeInDraft <=> [][EditsDrafts]_vars
  BY DEF EntriesChangeInDraft
<1> HIDE DEF EditsDrafts
<1> QED  BY <1>2, <1>3, InductiveInvariant, PTL DEF Spec

\* What a commit writes to the tasks of an entry: those that an approval has
\* derived for its plan, or a task that was pending and that a member resolves.
LEMMA DerivedTasksWritten ==
  ASSUME IInv, NEW c \in Call, pc[c] = "written", NEW t \in DerivedTask,
         t \in DOMAIN write[c].task
  PROVE  \/ TransitionWritten(c) /\ Derived(c) /\ t[1] \in EntriesOf(request[c].plan)
         \/ write[c].task[t].status \in {"completed", "cancelled"}
<1>1. Types /\ Session(c) /\ Written(c)
  BY DEF IInv, Session
<1>2. CASE CreationWritten(c)
  <2>1. write[c].task = <<>>
    BY <1>2 DEF CreationWritten
  <2> QED  BY <2>1, EmptyDomain
<1>3. CASE EditWritten(c)
  <2>1. write[c].task = <<>>
    BY <1>3 DEF EditWritten
  <2> QED  BY <2>1, EmptyDomain
<1>4. CASE TransitionWritten(c)
  <2>1. request[c].plan \in PlanId
    BY <1>1, <1>4, OpsAreApart, RequestTyped DEF TransitionWritten, Session
  <2>2. Derived(c) /\ write[c].task = Reconciled(request[c].plan)
    BY <1>4, EmptyDomain DEF TransitionWritten
  <2> QED  BY <1>1, <1>4, <2>1, <2>2, ReconciledIs
<1>5. CASE TaskCreationWritten(c)
  <2>1. PICK u \in ManualTask : DOMAIN write[c].task = {u}
    BY <1>5 DEF TaskCreationWritten, Only
  <2> QED  BY <2>1, TasksAreApart
<1>6. CASE ResolutionWritten(c)
  <2>1. request[c].op \in TaskOps /\ request[c].task \in Task
        /\ preparation_task[request[c].task].status = "pending"
    BY <1>1, <1>6, RequestTyped DEF ResolutionWritten, Session
  <2>2. preparation_task[request[c].task] \in TaskType
    BY <1>1, <2>1, NoRowIsOne DEF Types, TypeOK, RowTypes
  <2>3. t = request[c].task /\ write[c].task[t] = Resolved(request[c])
    BY <1>6 DEF ResolutionWritten, Only
  <2> QED  BY <2>2, <2>3, ResolvedIs
<1> QED  BY <1>1, <1>2, <1>3, <1>4, <1>5, <1>6 DEF Written

Fits(e, r) ==
  IF r \in RulesOf[meal_plan_entry[e].recipe]
  THEN preparation_task[<<e, r>>].status # "absent"
  ELSE preparation_task[<<e, r>>].status # "pending"

\* The derivation leaves every entry of its plan with the tasks of its rules.
LEMMA ReconciledFits ==
  ASSUME IInv, NEW p \in PlanId, NEW e \in EntriesOf(p), NEW r \in Rule,
         NEW t, t = <<e, r>>
  PROVE  LET row == IF t \in DOMAIN Reconciled(p) THEN Reconciled(p)[t] ELSE preparation_task[t]
         IN  IF r \in RulesOf[meal_plan_entry[e].recipe] THEN row.status # "absent"
                                                         ELSE row.status # "pending"
<1>1. Types
  BY DEF IInv
<1>2. e \in EntryId /\ t \in DerivedTask /\ t \in Task /\ t[1] = e /\ t[2] = r
  BY TasksAreApart DEF EntriesOf
<1>3. preparation_task[t] \in TaskType \/ preparation_task[t] = NoTask
  BY <1>1, <1>2 DEF Types, TypeOK, RowTypes
<1>4. CASE r \in RulesOf[meal_plan_entry[e].recipe]
  <2>1. t \in Desired(p)
    BY <1>2, <1>4 DEF Desired
  <2>2. CASE t \in DOMAIN Reconciled(p)
    BY <1>1, <1>4, <2>1, <2>2, ReconciledIs
  <2>3. CASE t \notin DOMAIN Reconciled(p)
    <3>1. t \notin Missing(p)
      BY <1>1, <2>3, ReconciledIs
    <3>2. preparation_task[t] # NoTask
      BY <2>1, <3>1 DEF Missing, Existing
    <3> QED  BY <1>3, <1>4, <2>3, <3>2, NoRowIsOne
  <2> QED  BY <2>2, <2>3
<1>5. CASE r \notin RulesOf[meal_plan_entry[e].recipe]
  <2>1. t \notin Desired(p)
    BY <1>2, <1>5 DEF Desired
  <2>2. CASE t \in DOMAIN Reconciled(p)
    <3>1. t \notin Missing(p)
      BY <2>1 DEF Missing
    <3>2. t \in Stale(p)
      BY <1>1, <2>2, <3>1, ReconciledIs
    <3>3. preparation_task[t] # NoTask
      BY <3>2 DEF Stale, Existing
    <3> QED  BY <1>1, <1>5, <2>2, <3>3, ReconciledIs
  <2>3. CASE t \notin DOMAIN Reconciled(p)
    <3>1. t \notin Stale(p)
      BY <1>1, <2>3, ReconciledIs
    <3>2. preparation_task[t].status # "pending" \/ preparation_task[t] = NoTask
      BY <1>2, <2>1, <3>1 DEF Stale, Existing
    <3> QED  BY <1>5, <2>3, <3>2, NoRowIsOne
  <2> QED  BY <2>2, <2>3
<1> QED  BY <1>4, <1>5

LEMMA NextPrepared ==
  ASSUME NoAgentEdits, IInv, ApprovedPlanIsPrepared, [Next]_vars
  PROVE  ApprovedPlanIsPrepared'
<1>1. CASE UNCHANGED rows
  BY <1>1 DEF ApprovedPlanIsPrepared, EntriesOf, rows
<1>2. CASE \E c \in Call : Commit(c)
  <2>1. PICK c \in Call : Commit(c)
    BY <1>2
  <2>2. pc[c] = "written" /\ Session(c) /\ Types /\ Written(c)
    BY <2>1, Committed DEF IInv, Session
  <2>3. SUFFICES ASSUME NEW p \in PlanId, meal_plan'[p].state = "approved",
                        NEW e \in EntryId, meal_plan_entry'[e].plan = p, NEW r \in Rule
                 PROVE  Fits(e, r)'
    BY DEF ApprovedPlanIsPrepared, EntriesOf, Fits
  <2>4. PICK t \in DerivedTask : t = <<e, r>> /\ t \in Task /\ t[1] = e
    BY TasksAreApart
  <2>5. e \notin DOMAIN write[c].entry
    <3>1. SUFFICES ASSUME e \in DOMAIN write[c].entry PROVE FALSE
      OBVIOUS
    <3>2. meal_plan_entry'[e] = write[c].entry[e]
      BY <2>1, <3>1, Committed
    <3>3. /\ request[c].plan = p /\ p \in DOMAIN write[c].plan
          /\ write[c].plan[p].state = "draft"
      BY <2>2, <2>3, <3>1, <3>2, EntriesWritten, NoRowIsOne
    <3> QED  BY <2>1, <2>3, <3>3, Committed
  <2>6. meal_plan_entry'[e] = meal_plan_entry[e] /\ e \in EntriesOf(p)
    BY <2>1, <2>3, <2>5, Committed DEF EntriesOf
  <2>7. CASE p \in DOMAIN write[c].plan
    <3>1. meal_plan'[p] = write[c].plan[p]
      BY <2>1, <2>7, Committed
    <3>2. ~CreationWritten(c)
      <4>1. SUFFICES ASSUME CreationWritten(c) PROVE FALSE
        OBVIOUS
      <4>2. PICK n \in PlanId : write[c].plan = Only(n, [state |-> "draft", version |-> 1])
        BY <4>1 DEF CreationWritten
      <4> QED  BY <2>3, <2>7, <3>1, <4>2 DEF Only
    <3>3. ~EditWritten(c)
      <4>1. SUFFICES ASSUME EditWritten(c) PROVE FALSE
        OBVIOUS
      <4>2. PICK n \in EntryId : DOMAIN write[c].entry = {n}
        BY <4>1 DEF EditWritten, Only
      <4>3. n \in DOMAIN write[c].entry
        BY <4>2
      <4>4. write[c].plan[request[c].plan].state = "draft"
        BY <2>2, <4>3, EntriesWritten
      <4>5. p = request[c].plan
        BY <2>2, <2>3, <2>7, <4>1, PlansWritten DEF EditWritten, Creates, EntryOps
      <4> QED  BY <2>3, <3>1, <4>4, <4>5
    <3>4. TransitionWritten(c) /\ request[c].plan = p
      <4>1. ~Creates(c)
        BY <2>2, <3>2, <3>3, OpsAreApart DEF Creates, Written, TransitionWritten,
           TaskCreationWritten, ResolutionWritten
      <4> QED  BY <2>2, <2>7, <3>3, <4>1, PlansWritten
    <3>5. request[c].op = "approve"
      <4>1. meal_plan'[p] = PlanRow(c, Target(request[c].op))
        BY <3>1, <3>4 DEF TransitionWritten, Only
      <4> QED  BY <2>3, <3>4, <4>1, TargetIs DEF TransitionWritten, PlanRow
    <3>6. write[c].task = Reconciled(p)
      BY <2>2, <3>4, <3>5 DEF TransitionWritten, Derived
    <3>7. preparation_task'[t] = IF t \in DOMAIN Reconciled(p) THEN Reconciled(p)[t]
                                                              ELSE preparation_task[t]
      BY <2>1, <2>4, <3>6, Committed
    <3> QED  BY <2>4, <2>6, <3>7, ReconciledFits DEF Fits
  <2>8. CASE p \notin DOMAIN write[c].plan
    <3>1. meal_plan[p].state = "approved"
      BY <2>1, <2>3, <2>8, Committed
    <3>2. Fits(e, r)
      BY <2>6, <3>1 DEF ApprovedPlanIsPrepared, Fits
    <3>3. CASE t \notin DOMAIN write[c].task
      <4>1. preparation_task'[t] = preparation_task[t]
        BY <2>1, <3>3, <2>4, Committed
      <4> QED  BY <2>4, <2>6, <3>2, <4>1 DEF Fits
    <3>4. CASE t \in DOMAIN write[c].task
      <4>1. preparation_task'[t] = write[c].task[t]
        BY <2>1, <2>4, <3>4, Committed
      <4>2. ~(TransitionWritten(c) /\ t[1] \in EntriesOf(request[c].plan))
        <5>1. SUFFICES ASSUME TransitionWritten(c), t[1] \in EntriesOf(request[c].plan)
                       PROVE  FALSE
          OBVIOUS
        <5>2. request[c].plan = p
          BY <2>4, <2>6, <5>1 DEF EntriesOf
        <5>3. p \in DOMAIN write[c].plan
          BY <5>1, <5>2 DEF TransitionWritten, Only
        <5> QED  BY <2>8, <5>3
      <4>3. preparation_task'[t].status \in {"completed", "cancelled"}
        BY <2>2, <3>4, <4>1, <4>2, DerivedTasksWritten
      <4> QED  BY <2>4, <4>3 DEF Fits
    <3> QED  BY <3>3, <3>4
  <2> QED  BY <2>7, <2>8
<1> QED  BY <1>1, <1>2, OnlyCommitsWrite

\* Where no agent edits entries, an approved plan has a task for every rule of
\* every entry and no pending task of another rule.  The approval derives the
\* tasks from entries that its lock keeps as they are, and from tasks that it
\* holds; afterwards nobody edits the plan until it is reopened.
THEOREM ApprovalPrepares ==
  ASSUME NoAgentEdits
  PROVE  Spec => []ApprovedPlanIsPrepared
<1>1. Init => ApprovedPlanIsPrepared
  BY DEF Init, ApprovedPlanIsPrepared, NoPlan
<1>2. IInv /\ ApprovedPlanIsPrepared /\ [Next]_vars => ApprovedPlanIsPrepared'
  BY NextPrepared
<1> QED  BY <1>1, <1>2, InductiveInvariant, PTL DEF Spec
-----------------------------------------------------------------------------
(***************************************************************************)
(* Households in which only members plan.  The latest proposal is the one  *)
(* whose transaction began last.  A member's proposal begins after what it *)
(* has loaded, which is what the row still is when it commits, so the      *)
(* proposals of a plan begin in the order in which they commit.  The tools *)
(* begin before they load, and the version they write may be an old one.   *)
(***************************************************************************)
NoAgentPlanners == \A q \in Request : q.op \in PlanOps => ~q.mcp

Counted == \A i \in DOMAIN meal_plan_state_event : meal_plan_state_event[i].at < i

ProposedInOrder ==
  \A p \in PlanId : \A i, j \in Proposals(p) :
    i < j => meal_plan_state_event[i].at < meal_plan_state_event[j].at

\* Nothing has happened to a plan since a request began, if the version that it
\* names is still the plan's.
Fresh(c) ==
  LET p == request[c].plan
      v == request[c].expected_version
  IN
  pc[c] # "idle" /\ request[c].op \in PlanOps =>
    /\ v \in Nat /\ v <= meal_plan[p].version
    /\ v = meal_plan[p].version =>
         \A i \in DOMAIN meal_plan_state_event :
           meal_plan_state_event[i].plan = p => i <= started[c]

Approving(c) == pc[c] \in {"derive", "written"} /\ request[c].op = "approve"
SeenByTwo(c) ==
  Approving(c) /\ together[c] =>
    \A i \in Proposals(request[c].plan) :
      (\A j \in Proposals(request[c].plan) : j <= i)
        => meal_plan_state_event[i].actor # request[c].actor

Watched(c) ==
  /\ started[c] <= Len(meal_plan_state_event)
  /\ together[c] => Cardinality(active) >= 2
  /\ Fresh(c) /\ SeenByTwo(c)

Eyed == Counted /\ ProposedInOrder /\ \A c \in Call : Watched(c)

LEMMA EventsTyped ==
  ASSUME Types
  PROVE  LET ev == meal_plan_state_event IN
         /\ Len(ev) \in Nat /\ DOMAIN ev = 1..Len(ev)
         /\ \A i \in DOMAIN ev : ev[i].at \in Nat /\ ev[i].plan \in PlanId
<1>1. meal_plan_state_event \in Seq(EventType)
  BY DEF Types, TypeOK, RowTypes
<1>2. \A event \in EventType : event.at \in Nat /\ event.plan \in PlanId
  BY DEF EventType
<1> QED  BY <1>1, <1>2

\* A step that leaves plans and events alone and begins nothing.
LEMMA WatchedStays ==
  ASSUME NEW d \in Call, Watched(d), UNCHANGED <<meal_plan, meal_plan_state_event>>,
         request'[d] = request[d], started'[d] = started[d],
         pc'[d] # "idle" => pc[d] # "idle", Approving(d)' => Approving(d),
         together'[d] => together[d] /\ Cardinality(active') >= 2
  PROVE  Watched(d)'
<1> DEFINE p == request[d].plan
<1>1. Fresh(d)'
  BY DEF Watched, Fresh
<1>2. Proposals(p)' = Proposals(p)
  BY DEF Proposals
<1>3. SeenByTwo(d)'
  BY <1>2 DEF Watched, SeenByTwo, Proposals
<1> QED  BY <1>1, <1>3 DEF Watched

LEMMA OrderStays ==
  ASSUME Counted, ProposedInOrder, UNCHANGED meal_plan_state_event
  PROVE  (Counted /\ ProposedInOrder)'
BY DEF Counted, ProposedInOrder, Proposals

LEMMA EndIsWatched ==
  ASSUME Types, Types', NEW c \in Call, EndTransaction(c)
  PROVE  Watched(c)'
<1>1. pc'[c] = "idle" /\ started'[c] = 0 /\ ~together'[c]
  BY DEF EndTransaction, Types, TypeOK, WorkerTypes
<1>2. Len(meal_plan_state_event') \in Nat
  BY DEF Types, TypeOK, RowTypes
<1> QED  BY <1>1, <1>2 DEF Watched, Fresh, SeenByTwo, Approving

\* Who checks an approval sees the last proposal.
LEMMA TransitionSeen ==
  ASSUME IInv, Eyed, NEW c \in Call, TransitionPlan(c)
  PROVE  SeenByTwo(c)'
<1> USE DEF TransitionPlan
<1> DEFINE ev == meal_plan_state_event
           p == request[c].plan
<1>1. UNCHANGED <<meal_plan_state_event, request, together, active>>
  BY DEF Flush, rows, household
<1>2. SUFFICES ASSUME request[c].op = "approve", together[c],
                      NEW i \in Proposals(p), \A j \in Proposals(p) : j <= i
               PROVE  ev[i].actor # request[c].actor
  BY <1>1 DEF SeenByTwo, Approving, Proposals
<1>3. p \in PlanId
  BY <1>2, RequestTyped, OpsAreApart DEF IInv, Session
<1>4. PICK u \in LatestProposer(p) : CanTransition(c, u)
  OBVIOUS
<1>5. u # request[c].actor
  BY <1>2, <1>4 DEF CanTransition, apply_transition, Eyed, Watched
<1>6. u \in ProposedBy(p)
  BY <1>2, <1>4 DEF LatestProposer
<1>7. PICK j \in Proposals(p) : u = ev[j].actor /\ \A k \in Proposals(p) : ev[k].at <= ev[j].at
  BY <1>6 DEF ProposedBy
<1>8. /\ i \in Nat /\ j \in Nat /\ ev[i].at \in Nat /\ ev[j].at \in Nat
      /\ j <= i /\ ev[i].at <= ev[j].at
  BY <1>2, <1>7, EventsTyped DEF IInv, Proposals
<1>9. j < i => ev[j].at < ev[i].at
  BY <1>2, <1>3, <1>7 DEF Eyed, ProposedInOrder
<1>10. i = j
  BY <1>8, <1>9
<1> QED  BY <1>5, <1>7, <1>10

LEMMA ReceiveIsWatched ==
  ASSUME NoAgentPlanners, IInv, Eyed, NEW c \in Call, NEW q \in Request, Receive(c, q)
  PROVE  Watched(c)'
<1> DEFINE ev == meal_plan_state_event
           p == q.plan
<1>1. /\ request'[c] = q /\ pc'[c] \in {"load", "open"} /\ started'[c] = Len(ev)
      /\ together'[c] = (Cardinality(active) >= 2)
      /\ UNCHANGED <<meal_plan, meal_plan_state_event, active>> /\ CanSend(q)
  BY DEF Receive, IInv, Types, TypeOK, WorkerTypes, rows, household
<1>2. Len(ev) \in Nat /\ DOMAIN ev = 1..Len(ev)
  BY EventsTyped DEF IInv
<1>3. Fresh(c)'
  <2>1. SUFFICES ASSUME q.op \in PlanOps
                 PROVE  /\ q.expected_version \in Nat /\ q.expected_version <= meal_plan[p].version
                        /\ \A i \in DOMAIN ev : i <= Len(ev)
    BY <1>1 DEF Fresh
  <2>2. p \in PlanId /\ ~q.mcp
    BY <2>1, RequestTyped DEF NoAgentPlanners
  <2>3. meal_plan[p].version \in Nat
    BY <2>2, NoRowIsOne DEF IInv, Types, TypeOK, RowTypes
  <2>4. q.expected_version \in 1..meal_plan[p].version
    BY <1>1, <2>1, <2>2 DEF CanSend, Loaded
  <2> QED  BY <1>2, <2>3, <2>4
<1>4. SeenByTwo(c)'
  BY <1>1 DEF SeenByTwo, Approving
<1>5. started'[c] <= Len(meal_plan_state_event')
  BY <1>1, <1>2
<1>6. together'[c] => Cardinality(active') >= 2
  <2>1. together'[c] => Cardinality(active) >= 2
    BY <1>1
  <2> QED  BY <1>1, <2>1
<1> QED  BY <1>3, <1>4, <1>5, <1>6 DEF Watched

\* The event that a commit appends is about the plan it writes.
LEMMA EventsWritten ==
  ASSUME IInv, NEW c \in Call, pc[c] = "written"
  PROVE  \/ write[c].event = <<>>
         \/ \E p \in DOMAIN write[c].plan, event \in EventType :
              /\ write[c].event = <<event>> /\ event.plan = p /\ event.at = started[c]
              /\ event.to = "proposed" =>
                   /\ request[c].op \in PlanOps /\ request[c].plan = p
                   /\ ~request[c].mcp => request[c].expected_version = meal_plan[p].version
<1>1. Types /\ Session(c) /\ Written(c) /\ request[c] \in Request
  BY DEF IInv, Session
<1>2. CASE CreationWritten(c)
  <2>1. PICK n \in PlanId :
          /\ write[c].plan = Only(n, [state |-> "draft", version |-> 1])
          /\ write[c].event = <<StateEvent(c, n, "absent", "draft")>>
    BY <1>2 DEF CreationWritten
  <2>2. n \in DOMAIN write[c].plan
    BY <2>1 DEF Only
  <2>3. StateEvent(c, n, "absent", "draft") \in EventType
    BY <1>1, StateEventTyped DEF State
  <2>4. /\ StateEvent(c, n, "absent", "draft").plan = n
        /\ StateEvent(c, n, "absent", "draft").at = started[c]
        /\ StateEvent(c, n, "absent", "draft").to # "proposed"
    BY DEF StateEvent
  <2> QED  BY <2>1, <2>2, <2>3, <2>4
<1>3. CASE EditWritten(c)
  BY <1>3 DEF EditWritten
<1>4. CASE TransitionWritten(c)
  <2> DEFINE q == request[c]
             event == StateEvent(c, q.plan, InSession(c).state, Target(q.op))
  <2>1. /\ q.op \in TransitionOps /\ q.op \in PlanOps /\ q.plan \in PlanId
        /\ ~q.mcp => q.expected_version = meal_plan[q.plan].version
    BY <1>1, <1>4, OpsAreApart, RequestTyped DEF TransitionWritten
  <2>2. q.plan \in DOMAIN write[c].plan /\ write[c].event = <<event>>
    BY <1>4 DEF TransitionWritten, Only
  <2>3. InSession(c).state \in State /\ Target(q.op) \in State
    BY <1>1, <2>1, InSessionTyped, NoRowIsOne, TargetIs
  <2>4. event \in EventType
    BY <1>1, <2>1, <2>3, StateEventTyped
  <2>5. event.plan = q.plan /\ event.at = started[c]
    BY DEF StateEvent
  <2> HIDE DEF event
  <2> QED  BY <2>1, <2>2, <2>4, <2>5
<1>5. CASE TaskCreationWritten(c)
  BY <1>5 DEF TaskCreationWritten
<1>6. CASE ResolutionWritten(c)
  BY <1>6 DEF ResolutionWritten
<1> QED  BY <1>1, <1>2, <1>3, <1>4, <1>5, <1>6 DEF Written

\* Where only members plan, every mutation of a plan counts its version up.
LEMMA VersionGrows ==
  ASSUME NoAgentPlanners, IInv, NEW c \in Call, Commit(c), NEW p \in DOMAIN write[c].plan
  PROVE  p \in PlanId /\ meal_plan'[p].version = meal_plan[p].version + 1
<1>1. pc[c] = "written" /\ meal_plan'[p] = write[c].plan[p] /\ p \in PlanId
  BY Committed, PlansWritten
<1>2. CASE Creates(c) /\ meal_plan[p] = NoPlan
  <2>1. CreationWritten(c)
    BY <1>2, CreatorWritesCreation
  <2>2. PICK n \in PlanId : write[c].plan = Only(n, [state |-> "draft", version |-> 1])
    BY <2>1 DEF CreationWritten
  <2>3. write[c].plan[p] = [state |-> "draft", version |-> 1]
    BY <2>2 DEF Only
  <2> QED  BY <1>1, <1>2, <2>3, NoRowIsOne
<1>3. CASE request[c].plan = p /\ (EditWritten(c) \/ TransitionWritten(c))
  <2>1. request[c].op \in PlanOps /\ ~request[c].mcp
    BY <1>1, <1>3, OpsAreApart DEF EditWritten, TransitionWritten, NoAgentPlanners, IInv, Session
  <2>2. InSession(c) = meal_plan[p]
    BY <1>3, <2>1 DEF InSession
  <2>3. write[c].plan[p].version = InSession(c).version + 1
    <3>1. CASE EditWritten(c)
      <4>1. write[c].plan = Only(p, PlanRow(c, meal_plan[p].state))
        BY <1>3, <3>1 DEF EditWritten
      <4> QED  BY <4>1 DEF Only, PlanRow
    <3>2. CASE TransitionWritten(c)
      <4>1. write[c].plan = Only(p, PlanRow(c, Target(request[c].op)))
        BY <1>3, <3>2 DEF TransitionWritten
      <4> QED  BY <4>1 DEF Only, PlanRow
    <3> QED  BY <1>3, <3>1, <3>2
  <2> QED  BY <1>1, <2>2, <2>3
<1> QED  BY <1>1, <1>2, <1>3, PlansWritten

\* The events after a commit: those before it, and at most one about its plan.
LEMMA EventsCommitted ==
  ASSUME IInv, NEW c \in Call, Commit(c)
  PROVE  LET old == meal_plan_state_event
             new == meal_plan_state_event'
             n == Len(old)
         IN
         \/ new = old
         \/ /\ Len(new) = n + 1 /\ DOMAIN new = 1..n + 1
            /\ \A i \in 1..n : new[i] = old[i]
            /\ new[n + 1].plan \in DOMAIN write[c].plan
            /\ new[n + 1].at = started[c]
            /\ new[n + 1].to = "proposed" =>
                 /\ request[c].op \in PlanOps /\ request[c].plan = new[n + 1].plan
                 /\ ~request[c].mcp =>
                      request[c].expected_version = meal_plan[new[n + 1].plan].version
<1> DEFINE old == meal_plan_state_event
           new == meal_plan_state_event'
<1>1. pc[c] = "written" /\ old \in Seq(EventType) /\ new = old \o write[c].event
  BY Committed
<1>2. CASE write[c].event = <<>>
  BY <1>1, <1>2
<1>3. CASE write[c].event # <<>>
  <2>1. PICK p \in DOMAIN write[c].plan, event \in EventType :
              /\ write[c].event = <<event>> /\ event.plan = p /\ event.at = started[c]
              /\ event.to = "proposed" =>
                   /\ request[c].op \in PlanOps /\ request[c].plan = p
                   /\ ~request[c].mcp => request[c].expected_version = meal_plan[p].version
    BY <1>1, <1>3, EventsWritten
  <2>2. /\ Len(old) \in Nat /\ new = old \o <<event>>
        /\ Len(new) = Len(old) + 1 /\ DOMAIN new = 1..Len(old) + 1
        /\ \A i \in 1..Len(old) : new[i] = old[i]
        /\ new[Len(old) + 1] = event
    BY <1>1, <2>1
  <2> HIDE DEF new
  <2> QED  BY <2>1, <2>2 DEF new
<1> QED  BY <1>2, <1>3

LEMMA CommitEyed ==
  ASSUME NoAgentPlanners, IInv, IInv', Eyed, NEW c \in Call, Commit(c)
  PROVE  Eyed'
<1> DEFINE old == meal_plan_state_event
           new == meal_plan_state_event'
           n == Len(old)
<1>1. /\ pc[c] = "written" /\ EndTransaction(c) /\ Types /\ Types' /\ UNCHANGED active
  BY Committed DEF IInv, Commit, household
<1>2. /\ n \in Nat /\ DOMAIN old = 1..n
      /\ \A i \in DOMAIN old : old[i].at \in Nat /\ old[i].plan \in PlanId
  BY <1>1, EventsTyped
<1>3. \/ new = old
      \/ /\ Len(new) = n + 1 /\ DOMAIN new = 1..n + 1
         /\ \A i \in 1..n : new[i] = old[i]
         /\ new[n + 1].plan \in DOMAIN write[c].plan
         /\ new[n + 1].at = started[c]
         /\ new[n + 1].to = "proposed" =>
              /\ request[c].op \in PlanOps /\ request[c].plan = new[n + 1].plan
              /\ ~request[c].mcp =>
                   request[c].expected_version = meal_plan[new[n + 1].plan].version
  BY EventsCommitted
<1>4. /\ Len(new) >= n /\ \A i \in 1..n : i \in DOMAIN new /\ new[i] = old[i]
      /\ \A i \in DOMAIN new \ (1..n) : i = n + 1 /\ new[i].plan \in DOMAIN write[c].plan
  BY <1>2, <1>3
<1>5. Watched(c) /\ started[c] \in Nat
  BY <1>1 DEF Eyed, Types, TypeOK, WorkerTypes
<1>6. Counted'
  <2>1. ASSUME NEW i \in DOMAIN new PROVE new[i].at < i
    <3>1. CASE i \in 1..n
      BY <1>2, <1>4, <3>1 DEF Eyed, Counted
    <3>2. CASE i \notin 1..n
      BY <1>2, <1>3, <1>4, <1>5, <2>1, <3>2 DEF Watched
    <3> QED  BY <3>1, <3>2
  <2> QED  BY <2>1 DEF Counted
<1>7. ProposedInOrder'
  <2>1. SUFFICES ASSUME NEW p \in PlanId, NEW i \in DOMAIN new, NEW j \in DOMAIN new, i < j,
                        new[i].plan = p, new[j].plan = p,
                        new[i].to = "proposed", new[j].to = "proposed"
                 PROVE  new[i].at < new[j].at
    BY DEF ProposedInOrder, Proposals
  <2>2. i \in 1..n
    <3>1. i \in Nat /\ j \in Nat
      BY <1>2, <1>4
    <3> QED  BY <1>2, <1>3, <2>1, <3>1
  <2>3. new[i] = old[i]
    BY <1>4, <2>2
  <2>4. CASE j \in 1..n
    <3>1. i \in Proposals(p) /\ j \in Proposals(p) /\ new[j] = old[j]
      BY <1>2, <1>4, <2>1, <2>2, <2>3, <2>4 DEF Proposals
    <3> QED  BY <2>1, <2>3, <3>1 DEF Eyed, ProposedInOrder
  <2>5. CASE j \notin 1..n
    <3>1. /\ j = n + 1 /\ new[j].at = started[c]
          /\ request[c].op \in PlanOps /\ request[c].plan = p
          /\ ~request[c].mcp => request[c].expected_version = meal_plan[p].version
      BY <1>2, <1>3, <1>4, <2>1, <2>5
    <3>2. request[c].expected_version = meal_plan[p].version
      BY <1>1, <3>1 DEF NoAgentPlanners, IInv, Session
    <3>3. i <= started[c]
      BY <1>1, <1>2, <1>5, <2>1, <2>2, <2>3, <3>1, <3>2 DEF Watched, Fresh
    <3>4. old[i].at < i /\ old[i].at \in Nat /\ i \in Nat
      BY <1>2, <2>2 DEF Eyed, Counted
    <3> QED  BY <1>5, <2>3, <3>1, <3>3, <3>4
  <2> QED  BY <2>4, <2>5
<1>8. ASSUME NEW d \in Call \ {c} PROVE Watched(d)'
  <2> DEFINE p == request[d].plan
  <2>1. /\ pc'[d] = pc[d] /\ request'[d] = request[d] /\ started'[d] = started[d]
        /\ together'[d] = together[d] /\ Watched(d) /\ started[d] \in Nat
        /\ Session(d) /\ Session(d)'
    BY <1>1 DEF EndTransaction, Types, TypeOK, WorkerTypes, Eyed, IInv
  <2>2. started'[d] <= Len(new) /\ (together'[d] => Cardinality(active') >= 2)
    BY <1>1, <1>2, <1>3, <2>1 DEF Watched
  <2>3. Fresh(d)'
    <3>1. SUFFICES ASSUME pc[d] # "idle", request[d].op \in PlanOps
                   PROVE  LET v == request[d].expected_version IN
                          /\ v \in Nat /\ v <= meal_plan'[p].version
                          /\ v = meal_plan'[p].version =>
                               \A i \in DOMAIN new : new[i].plan = p => i <= started[d]
      BY <2>1 DEF Fresh
    <3> DEFINE v == request[d].expected_version
    <3>2. /\ v \in Nat /\ v <= meal_plan[p].version
          /\ v = meal_plan[p].version =>
               \A i \in DOMAIN old : old[i].plan = p => i <= started[d]
      BY <2>1, <3>1 DEF Watched, Fresh
    <3>3. p \in PlanId /\ meal_plan[p].version \in Nat
      <4>1. p \in PlanId
        BY <2>1, <3>1, RequestTyped DEF Session
      <4> QED  BY <1>1, <4>1, NoRowIsOne DEF Types, TypeOK, RowTypes
    <3>4. CASE p \in DOMAIN write[c].plan
      <4>1. meal_plan'[p].version = meal_plan[p].version + 1
        BY <3>4, VersionGrows
      <4> QED  BY <3>2, <3>3, <4>1
    <3>5. CASE p \notin DOMAIN write[c].plan
      <4>1. meal_plan'[p] = meal_plan[p]
        BY <3>3, <3>5, Committed
      <4>2. \A i \in DOMAIN new : new[i].plan = p => i \in DOMAIN old /\ old[i].plan = p
        BY <1>2, <1>4, <3>5
      <4> QED  BY <3>2, <4>1, <4>2
    <3> QED  BY <3>4, <3>5
  <2>4. SeenByTwo(d)'
    <3>1. SUFFICES ASSUME Approving(d), together[d]
                   PROVE  \A i \in Proposals(p)' :
                            (\A j \in Proposals(p)' : j <= i) => new[i].actor # request[d].actor
      BY <2>1 DEF SeenByTwo, Approving
    <3>2. plan_lock[p] = d /\ p \in PlanId /\ meal_plan[p] # NoPlan
      <4>1. "approve" \in PlanOps
        BY DEF PlanOps, TransitionOps
      <4>2. meal_plan[p] # NoPlan /\ p \in PlanId
        BY <2>1, <3>1, <4>1, RequestTyped DEF Session, Approving
      <4>3. TransitionWritten(d)
        <5>1. "approve" \notin EntryOps \cup TaskOps \cup {"create", "create_task"}
          BY DEF EntryOps, TaskOps
        <5> QED  BY <2>1, <3>1, <5>1 DEF Session, Approving, Written, CreationWritten,
                    EditWritten, TaskCreationWritten, ResolutionWritten
      <4> QED  BY <4>2, <4>3 DEF TransitionWritten
    <3>3. p \notin DOMAIN write[c].plan
      BY <1>1, <3>2, PlansWritten
    <3>4. Proposals(p)' = Proposals(p) /\ \A i \in Proposals(p) : new[i] = old[i]
      <4>1. request'[d].plan = p
        BY <2>1
      <4>2. \A i \in DOMAIN new : new[i].plan = p => i \in 1..n
        BY <1>2, <1>4, <3>3
      <4> QED  BY <1>2, <1>4, <4>1, <4>2 DEF Proposals
    <3> QED  BY <2>1, <3>1, <3>4 DEF Watched, SeenByTwo
  <2> QED  BY <2>2, <2>3, <2>4 DEF Watched
<1>9. Watched(c)'
  BY <1>1, EndIsWatched
<1> QED  BY <1>6, <1>7, <1>8, <1>9 DEF Eyed

LEMMA NextEyed ==
  ASSUME NoAgentPlanners, IInv, IInv', Eyed, [Next]_vars
  PROVE  Eyed'
<1>1. Types /\ Types'
  BY DEF IInv
<1>2. ASSUME NEW c \in Call, NEW q \in Request, Receive(c, q) PROVE Eyed'
  <2>1. /\ UNCHANGED <<meal_plan, meal_plan_state_event, active>>
        /\ \A d \in Call \ {c} :
             /\ pc'[d] = pc[d] /\ request'[d] = request[d] /\ started'[d] = started[d]
             /\ together'[d] = together[d]
    BY <1>1, <1>2 DEF Receive, rows, household, Types, TypeOK, WorkerTypes
  <2>2. ASSUME NEW d \in Call \ {c} PROVE Watched(d)'
    BY <2>1, WatchedStays DEF Approving, Eyed, Watched
  <2>3. Watched(c)'
    BY <1>2, ReceiveIsWatched
  <2> QED  BY <2>1, <2>2, <2>3, OrderStays DEF Eyed
<1>3. ASSUME NEW c \in Call, Rollback(c) PROVE Eyed'
  <2>1. /\ UNCHANGED <<meal_plan, meal_plan_state_event, active>> /\ EndTransaction(c)
        /\ \A d \in Call \ {c} :
             /\ pc'[d] = pc[d] /\ request'[d] = request[d] /\ started'[d] = started[d]
             /\ together'[d] = together[d]
    BY <1>1, <1>3 DEF Rollback, EndTransaction, rows, household, Types, TypeOK, WorkerTypes
  <2>2. ASSUME NEW d \in Call \ {c} PROVE Watched(d)'
    BY <2>1, WatchedStays DEF Approving, Eyed, Watched
  <2>3. Watched(c)'
    BY <1>1, <2>1, EndIsWatched
  <2> QED  BY <2>1, <2>2, <2>3, OrderStays DEF Eyed
<1>4. ASSUME NEW c \in Call, Load(c) \/ CreatePlan(c) \/ EditEntry(c) \/ TransitionPlan(c)
                             \/ DeriveTasks(c) \/ CreateTask(c) \/ TransitionTask(c)
      PROVE  Eyed'
  <2>1. /\ UNCHANGED <<meal_plan, meal_plan_state_event, active, request, started, together>>
        /\ \A d \in Call \ {c} : pc'[d] = pc[d]
    <3>1. CASE Load(c)
      BY <1>1, <3>1 DEF Load, rows, household, Types, TypeOK, WorkerTypes
    <3>2. ASSUME NEW w, NEW next, Flush(c, w, next)
          PROVE  /\ UNCHANGED <<meal_plan, meal_plan_state_event, active, request, started, together>>
                 /\ \A d \in Call \ {c} : pc'[d] = pc[d]
      BY <1>1, <3>2 DEF Flush, rows, household, Types, TypeOK, WorkerTypes
    <3>3. CASE CreatePlan(c)
      BY <3>2, <3>3 DEF CreatePlan
    <3>4. CASE EditEntry(c)
      BY <3>2, <3>4 DEF EditEntry
    <3>5. CASE TransitionPlan(c)
      BY <3>2, <3>5 DEF TransitionPlan
    <3>6. CASE DeriveTasks(c)
      BY <3>2, <3>6 DEF DeriveTasks
    <3>7. CASE CreateTask(c)
      BY <3>2, <3>7 DEF CreateTask
    <3>8. CASE TransitionTask(c)
      BY <3>2, <3>8 DEF TransitionTask
    <3> QED  BY <1>4, <3>1, <3>3, <3>4, <3>5, <3>6, <3>7, <3>8
  <2>2. ASSUME NEW d \in Call \ {c} PROVE Watched(d)'
    BY <2>1, WatchedStays DEF Approving, Eyed, Watched
  <2>3. pc[c] # "idle"
    BY <1>4 DEF Load, CreatePlan, EditEntry, TransitionPlan, DeriveTasks, CreateTask, TransitionTask
  <2>4. Watched(c)'
    <3>1. CASE TransitionPlan(c)
      <4>1. SeenByTwo(c)'
        BY <3>1, TransitionSeen
      <4>2. Fresh(c)'
        BY <2>1, <2>3 DEF Eyed, Watched, Fresh
      <4> QED  BY <2>1, <4>1, <4>2 DEF Eyed, Watched
    <3>2. CASE ~TransitionPlan(c)
      <4>1. Approving(c)' => Approving(c)
        <5>1. CASE Load(c)
          BY <1>1, <5>1 DEF Load, Approving, Types, TypeOK, WorkerTypes
        <5>2. CASE DeriveTasks(c)
          BY <1>1, <2>1, <5>2 DEF DeriveTasks, Approving
        <5>3. CASE CreatePlan(c) \/ EditEntry(c) \/ CreateTask(c) \/ TransitionTask(c)
          <6>1. "approve" \notin EntryOps \cup TaskOps \cup {"create", "create_task"}
            BY DEF EntryOps, TaskOps
          <6> QED  BY <2>1, <5>3, <6>1 DEF CreatePlan, EditEntry, CreateTask, TransitionTask, Approving
        <5> QED  BY <1>4, <3>2, <5>1, <5>2, <5>3
      <4> QED  BY <2>1, <2>3, <4>1, WatchedStays DEF Eyed, Watched
    <3> QED  BY <3>1, <3>2
  <2> QED  BY <2>1, <2>2, <2>4, OrderStays DEF Eyed
<1>5. ASSUME NEW c \in Call, Commit(c) PROVE Eyed'
  BY <1>5, CommitEyed
<1>6. ASSUME Environment \/ Quiet \/ UNCHANGED vars PROVE Eyed'
  <2>1. UNCHANGED <<meal_plan, meal_plan_state_event, request, started, pc>>
    BY <1>6 DEF Environment, Join, Leave, ChangeMembers, Unpublish, Quiet, vars, rows
  <2>2. ASSUME NEW d \in Call
        PROVE  together'[d] => together[d] /\ Cardinality(active') >= 2
    <3>1. ASSUME NEW members, ChangeMembers(members)
          PROVE  together'[d] => together[d] /\ Cardinality(active') >= 2
      BY <3>1 DEF ChangeMembers
    <3>2. CASE UNCHANGED <<active, together>>
      BY <3>2 DEF Eyed, Watched
    <3>3. UNCHANGED <<active, together>> \/ \E members : ChangeMembers(members)
      BY <1>6 DEF Environment, Join, Leave, Unpublish, Quiet, vars, household
    <3> QED  BY <3>1, <3>2, <3>3
  <2>3. ASSUME NEW d \in Call PROVE Watched(d)'
    BY <2>1, <2>2, WatchedStays DEF Approving, Eyed
  <2> QED  BY <2>1, <2>3, OrderStays DEF Eyed
<1>7. ASSUME NEW c \in Call, Step(c) PROVE Eyed'
  BY <1>3, <1>4, <1>5, <1>7, RefusalIsRollback DEF Step
<1>8. ASSUME NEW c \in Call, Crash(c) PROVE Eyed'
  BY <1>3, <1>8, RefusalIsRollback
<1> QED  BY <1>2, <1>6, <1>7, <1>8 DEF Next

\* Where only members plan, nobody approves the plan that they have proposed
\* themselves, if the household had two active members ever since the approval
\* began: the events that the approval reads are in the order of the commits,
\* and the lock of the plan keeps another proposal away until it commits.
THEOREM TwoPairsOfEyes ==
  ASSUME NoAgentPlanners
  PROVE  Spec => FourEyes
<1> DEFINE ApprovedByAnother ==
      \A p \in PlanId, c \in Call :
       /\ pc[c] = "written" /\ request[c].op = "approve" /\ request[c].plan = p
       /\ meal_plan[p].state = "proposed" /\ meal_plan'[p].state = "approved"
       /\ together[c]
       => \A i \in Proposals(p) :
            (\A j \in Proposals(p) : j <= i)
              => meal_plan_state_event[i].actor # request[c].actor
<1>1. ASSUME Eyed
      PROVE  [ApprovedByAnother]_vars
  BY <1>1 DEF Eyed, Watched, SeenByTwo, Approving
<1>2. Init => Eyed
  <2>1. ASSUME Init PROVE DOMAIN meal_plan_state_event = {} /\ Len(meal_plan_state_event) = 0
    BY <2>1 DEF Init
  <2>2. ASSUME Init, NEW c \in Call PROVE Watched(c)
    BY <2>1, <2>2 DEF Init, Watched, Fresh, SeenByTwo, Approving
  <2> QED  BY <2>1, <2>2 DEF Eyed, Counted, ProposedInOrder, Proposals
<1>3. IInv /\ Eyed /\ [Next]_vars => Eyed'
  BY NextIInv, NextEyed
<1>4. FourEyes <=> [][ApprovedByAnother]_vars
  BY DEF FourEyes
<1> HIDE DEF ApprovedByAnother
<1> QED  BY <1>1, <1>2, <1>3, <1>4, InductiveInvariant, PTL DEF Spec
=============================================================================
