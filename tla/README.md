# A verification development for uribap-api

`uribap-api` is the backend of a household meal planner: a FastAPI application and
an MCP server over the same services, which keep everything in PostgreSQL through
synchronous SQLAlchemy sessions. This directory holds TLA+ modules translated from
`src/src/uribap_api`, the TLC configurations that check them on small instances, and
theorems about them with proofs for TLAPS. `PROJECT.json` lists the components, the
runs, the mutants that show what each property is sensitive to, the lines of the source
every definition stands for, the findings, the hazards and the theorems.

```
tlasany M.tla                            parse a module
tlc -workers 2 -config X.cfg M           check a configuration of module M
tlapm M.tla                              check the proofs of a module M (..Proofs)
```

## 1. Inventory

### What runs, and what it shares

A request comes in over HTTP (`api/`) or as an MCP tool call (`mcp/`). A dependency
authenticates the user and opens one database session for the request; the handler
calls one or more functions of `application/`, which read and write rows, add a domain
event and a receipt in the same transaction, and commit. Nothing is shared between
requests but the database and an in-process cache of signing keys. What makes the
system hard is therefore the database under concurrency:

* **Isolation is READ COMMITTED.** Every statement sees what was committed when it
  started. A handler that loads a row, decides and writes may decide on a row that has
  changed since.
* **Row locks.** Most services take `SELECT ... FOR UPDATE` on one aggregate row (plan,
  list, recipe, completion, lot) and decide under it; some load the row without a lock
  and only wait when they write. Completions take several locks one after another and
  can deadlock; PostgreSQL then aborts one of them, and its caller gets an internal error.
* **Sessions keep objects.** The sessions are made with `autoflush=False` and
  `expire_on_commit=False`. A row that a session loaded before is not refreshed by a
  later `SELECT ... FOR UPDATE`, so a lock does not always bring the current row.
* **An UPDATE writes the columns that changed.** Two handlers that change different
  columns of one row do not overwrite each other; two that change the same column do.
* **Receipts make retries idempotent.** A mutation with an idempotency key looks for a
  receipt first, does its work, inserts the receipt in the same transaction and, if
  another request inserted the same key, gets an `IntegrityError`, rolls back and
  answers from the other's receipt.
* **Versions detect stale clients.** Plans, lists, completions, members, invitations
  and tasks carry a version that every mutation compares and increments.

### Components

| component | source | state it keeps | operations | what makes it correct |
|---|---|---|---|---|
| Inventory ledger | `application/inventory_service.py` | `inventory_lot`, append-only `inventory_movement` | create a lot, adjust it; list lots and movements | the cached balance is the sum of the movements; a key takes effect once; what a caller is told is true |
| Meal completion | `application/completion_service.py`, `domain/completion/policies.py` | `meal_completion`, its lines, receipts, events; consumes lots | complete, skip, correct a line, reopen | one recorded completion per entry; net consumption equals the lines; earliest expiry first; reversals restore stock |
| Meal planning | `application/planning_service.py`, `domain/planning` | `meal_plan`, entries, state events, receipts | create, add/update/delete entry, propose, approve, reopen, archive | entries change in drafts only; who proposed does not approve when others can; one active plan per week |
| Preparation | `application/preparation_service.py` | rules of recipe versions; `preparation_task` | rules; derive tasks at approval; add a task; complete and cancel tasks | approved plans have a task for every rule and none that is stale; resolved tasks are not touched |
| Demand forecast | `application/forecast_service.py`, `domain/forecast/policies.py`, `domain/planning/entry_detail.py` | none | project demand, shortfall, a meal's ingredients | demand is what completions would consume; buying the shortfall lets every meal be cooked |
| Households, members | `application/household_service.py` | `household`, `household_member` | create, settings, role changes, revocation | a member is who founded the household or accepted an invitation, and was not revoked since; a stale update conflicts |
| Invitations, delivery | `application/invitation_service.py`, `api/invitations.py`, `infrastructure/identity/zitadel_users.py` | `household_invitation`, `email_outbox_entry`, accounts of the identity provider | create, resend, revoke, accept, expire, deliver | an invitation is consumed once; only the current token works; one delivery at a time |
| Shopping lists | `application/shopping_service.py` | `shopping_list`, items, receipts; creates lots | create from the forecast, purchase, skip, restore, complete, reopen, archive | what was purchased is in stock, once; a completed list has nothing pending |
| Recipes | `application/recipe_service.py`, `mcp/tools_catalog.py` | `recipe`, `recipe_version`, lines, favorites | create, rename, version, lines, revise, publish, archive | at most one published version; published versions are immutable; an archived recipe is not edited (it can be, through MCP) |
| Ingredient catalog | `application/ingredient_service.py`, `mcp/tools_catalog.py` | `ingredient`, the lines of recipes | create, update, archive, list in pages; resolve, create and check the ingredients of a recipe's lines | pages neither skip nor repeat what stays; a recipe that fails leaves no ingredient behind; lines name available ingredients in a unit that fits |
| Household memory | `application/memory_service.py`, `mcp/tools_memory.py` | `household_diner`, `household_memory`, receipts | create, update, archive; the profile | a memory joins active diners only; a retry gets the first answer; the profile shows what stayed |
| Outbox dispatcher | `tools/process_outbox.py`, `application/event_service.py`, `infrastructure/email` | `email_outbox_entry`, `email_delivery_intent` | claim a batch, suppress, send, retry, give up | bounded attempts, one intent for each; no entry handled by two runs; every entry settled |
| Identity | `application/identity_service.py`, `infrastructure/identity`, `mcp/tokens.py` | `app_user`, `user_identity`, `mcp_token`; signing keys in the process | provision, refresh keys, issue and revoke tokens, check | published keys are known and withdrawn ones expire; who lost access does not act |
| MCP server | `mcp/` | MCP tokens | one tool per service function | a tool does what the route does |
| Domain events and audit | `application/event_service.py`, `audit_service.py` | `domain_event`, `audit` rows | record, publish | an event exists exactly when its mutation committed |
| HTTP API, schema, configuration, documentation | `api/`, `migrations/`, `config.py`, `docs/`, `specs/` | – | – | – |

They interact in few places, and those are where the modules meet. Completions consume
the lots that the ledger and the shopping lists make, under plans that planning
approves. The forecast reads plans, completions and lots; a shopping list is made from
it and its purchases go into stock. Approval derives tasks from the rules of recipe
versions, and plans refer to versions that were published when they were planned.
Revoking a member changes who must approve and which diner may be linked to an account.
An accepted invitation makes a member. Recipe lines make ingredients.
All of them write domain events, which nothing reads back into a decision.

`PROJECT.json` lists under `hazards` what is hard to test here, each at its line, with
the properties that would catch it or the reason why there is none.

## 2. Plan

The order puts first what the rest of the system depends on and what goes wrong in the
most ways: stock, then the two flows that change it, then what they are computed from.

| # | module | models | composed with | state |
|---|---|---|---|---|
| 1 | `AtomicLedger`, `InventoryLedger`, `InventoryLedgerProofs` | the ledger, its abstract specification; the proofs, those of `Ingredients` too | `AtomicLedger` by `INSTANCE` | checked and proved |
| 2 | `Consumption`, `MealCompletion`, `MealCompletionProofs` | amounts, FEFO allocation; completions; the proofs | `MealCompletion` extends `Consumption` | checked and proved |
| 3 | `MealPlan`, `MealPlanProofs` | plans, entries, approval, derived tasks; the proofs | – | checked and proved |
| 4 | `Forecast`, `EntryDetail`, `Kitchen` | demand, shortfall, the detail of a meal; what these promise each other; the proofs in `MealCompletionProofs` | each extends the one before and `Consumption`; `Kitchen` composes all with buying and cooking | checked and proved |
| 5 | `Household`, `HouseholdProofs` | settings, members, invitations, delivery; the proofs, those of `Outbox` too | – | checked and proved |
| 6 | `Shopping`, `ShoppingProofs` | lists, purchases, lots; the proofs | – | checked and proved |
| 7 | `RecipeVersions`, `AtomicRecipes`, `Recipes` | versions, the abstract specification, sessions | `AtomicRecipes` by `INSTANCE` | checked and proved |
| 8 | `Outbox` | `process_outbox`: batches, `SKIP LOCKED`, backoff, lost runs and answers | – | checked and proved |
| 9 | `HouseholdMemory`, `HouseholdMemoryProofs` | diners, memories, the profile; the proofs | – | checked and proved |
| 10 | `SigningKeys`, `Identity`, `IdentityProofs` | the key cache; provisioning, tokens, the checks of a request; the proofs | `Identity` extends `SigningKeys` | checked and proved |
| 11 | `Ingredients` | the catalog, its pages, the ingredients of recipe lines | – | checked and proved |
| 12 | `RecipesProofs` | the invariant of `Recipes`, its refinement of `AtomicRecipes` | – | proved |

Two abstract specifications carry most of the meaning: `AtomicLedger` (a request adds
one row to one history in one step, answers report rows of it) and `AtomicRecipes` (a
request takes effect on a recipe and all its versions in one step).

Theorems, in the order of their worth: the ledger's invariants and its refinement of
the atomic ledger; the accounts of completions and what they use first; the atomicity of
recipe requests; the dispatcher's accounts; who is a member and what is mailed to whom;
what is purchased is in stock; the keys and who may act; the pages and lines of the
catalog; memories join active diners; tasks, edits and approvals of a plan. All of these
are proved (section 5), and last that forecast, detail and completion agree in the kitchen.
Only liveness is left to TLC. No module declares a `RECURSIVE` operator.

## 3. Modules and the code

The modules that describe requests share one way of cutting them. An element of `Call`
is a worker with a transaction of its own. A step ends where another transaction can
be seen: at a statement that reads rows without a lock, at a `SELECT ... FOR UPDATE`
(which waits, as a guard, until the row is free), at `COMMIT`, and at the second receipt
lookup after an `IntegrityError`. Between these points a handler only computes. What it
flushes is visible to itself and is kept in `write` or `pending` until the commit;
`Rollback` and `Crash` drop it and release the locks. Refusals (`DomainError`) are actions of
their own with the negated guard, so a request that cannot succeed ends.

Columns are fields of records, tables functions from identifiers. Amounts are
`NUMERIC(18,6)` counted in their quantum. Dates, names, emails and units are elements
of small sets. Domain events and audit rows, which are added in the same transaction
and read by nobody, are left out where no property needs them.

**InventoryLedger.** `unit_of`, `quantity_on_hand` are the columns of a lot,
`inventory_movement` the append-only table in commit order, `lock` the row locks. The
path of an adjustment is `LookupMiss`, `LockLot`, `CommitAdjustment`, `Respond`; that of
a creation skips the lock. `CommitRefused` is the unique constraint on the key,
`ReplayAfterRollback` the second lookup. Other services (shopping, completions) appear
as `PurchaseItem` and `WriteMovement`, which take the same lock. A lost worker
(`Crash`) may have committed or not: its caller gets no answer.

**AtomicLedger.** No locks and no cached balance. `InventoryLedger` maps its movements,
payloads and replies to it; locks, progress and the cached balance are hidden.

**Consumption, MealCompletion.** `Consumption` holds the pure functions of
`domain/completion/policies.py`: scaling with two roundings half up, planned lines,
actual amounts, allocation by expiration. `MealCompletion` runs them under locks. There
is a plan for every week, with entries and a row lock of its own; the lots are the household's. A
transaction locks its entry's plan (`RecordCompletion`) or the completion (`ChangeCompletion`),
then works through `work`, one statement per line: `BeginStatement`, `LockNextLot` for
every lot in the order of the statement, `DeductLine` or `ReverseLine`. As in
PostgreSQL, the rows a statement will lock are chosen when it starts and looked at
again after the wait. `AbortDeadlocked` ends a transaction that waits in a cycle.

**MealPlan.** `CreatePlan`, `EditEntry`, `TransitionPlan`, `DeriveTasks` (part of the
approval's transaction), `TransitionTask`; `Join`, `Leave` and `Unpublish` are what the
household and recipe services do meanwhile. State events keep the start time of their
transaction, because the code finds the last proposer by a column that defaults to
`now()`. `CreateTask` adds a task that belongs to no entry and that `TransitionTask`
resolves like a derived one. An MCP request (`mcp`) first loads the plan without a lock (`Load`), and its
session keeps what it has loaded: `InSession` and `Expected` say what the service then
sees.

**Forecast, EntryDetail.** Functions from entries and lots to demand, shortfall and the
lines of one meal's detail. They are written from `forecast_service.py`,
`domain/forecast/policies.py` and `domain/planning/entry_detail.py`, not from
`Consumption`; that both sides agree is a property of `Kitchen`.

**Kitchen.** `entries` and `pantry` are what the services read, `window` the days that are
asked for. `Buy` purchases what the forecast says is missing of an ingredient
(`purchase_item` with that quantity); `StartCooking` stops buying once nothing is missing
for a day; `Cook` is `complete_entry` without actual amounts, `RefuseToCook` the same request
refused. One request follows another here: `MealCompletion` and `Shopping` are the modules
in which their statements interleave.

**Household.** `CreateHousehold` makes the household and its owner; until then, and after
a revocation, a person has no membership. `Load`s without locks and writes that wait for
the row are kept apart,
since most of these handlers decide before they lock. `seen` is what the handler has
loaded. Delivery walks through the identity provider's calls (find, create, resend,
mail), each of which can fail or lose its answer; the directory is external and modelled
from how the code uses it. `PassExpiry` lets an invitation expire at any time but during
its delivery, which has just renewed the expiry.
`began`, `acceptances` and `left` remember, for each person, what made and ended a
membership, `mailed` which token went out for which invitation; nothing in the code
reads them.

**Shopping.** `ReadDemand` and `ReadStock` are two statements of the forecast, with
planning and cooking (`Plan`, `Cook`) free between them; `CreateList`, `ChangeItem`,
`ChangeList` and the commit. MCP requests as in `MealPlan`.

**RecipeVersions, Recipes, AtomicRecipes.** `RecipeVersions` says what each operation
does to a row and its versions, once. `AtomicRecipes` applies it in one step; `Recipes`
applies it to what its session holds: `Load`, `Lock`, `Commit`. REST routes load
nothing before they lock, MCP tools load the recipe first.

**Ingredients.** A worker is an element of `Worker` and `stage` says where its transaction is. `ListPage` is one request of a listing, and `cursor` what its client passes
on; ingredients change between pages. A recipe's lines are resolved one statement at a
time (`ResolveLine`), the missing ones created in savepoints in the order of the lines
(`CreateMissing`), then checked again by the service (`ValidateLines`). The lines of a draft
are deleted and written anew (`CommitLines`); a revision of a version that is no draft adds one
(`Revised`), and `ChangeVersions` adds a draft without lines or publishes one. An insertion waits for
whoever has inserted the same name (`Settled`); two recipes that create two names in
opposite orders wait for each other, and `Abort` is PostgreSQL ending one of them.

**HouseholdMemory.** A mutation passes `LookupReceipt`, `LockRow`, `CheckName`, `CheckMember`,
`CheckLink`, `LockScope`, a flush and `Commit`, each a statement others may come
between; the unique indexes wait for uncommitted rows (`Settled`) and fail the flush.
The tool that remembers by a diner's name looks for its receipt before and after it
resolves the name. A profile is `ReadMemories` and `ReadDiners`.

**SigningKeys, Identity.** A task of the event loop runs until it awaits: the cache's lock
(`StartFetch`) or the provider (`ProviderAnswers`, `FetchEnds`), whose document may be old by
the time it arrives: `timeout_seconds` bounds the silence of a connection, not the fetch, so
`Tick` lets any time pass. `took` remembers how long the fetch of the cached document lasted. `Identity` follows a request from its token to the act: key,
provisioning (two first requests at once: the unique constraint, `Retry`), user, membership;
an agent's request from its token. `entitled` remembers what was in order at some time
since the request arrived.

**Outbox.** `Claim` takes the oldest due entries that nobody has locked. `Suppress`, `Send`,
`SendFails`, `AnswerLost` handle one entry and keep what they write in `handled` until
`Commit`; `letters` cannot be taken back. Ages are counted down: `wait` of a row,
`elapsed` of a run, because a retry is put off from the start of the run that failed.

`PROJECT.json` maps every definition to its lines. Definitions that a mutant uses
(`PlanFreeIgnored`, `UsableAlways`, ...) stand before the one they would replace and
occur in no action.

## 4. Runs

A run is `tlc -config <cfg> <module>`. Each ends in a few minutes with two workers. Each
property is listed in `PROJECT.json` with a mutant, a plausible slip in a mapped
definition, under which TLC finds the property violated.

| run | configuration | what it shows |
|---|---|---|
| `inventory_ledger` | `MCInventoryLedger.cfg` | Two calls draw from seven payloads: retries of one key, the key with another amount and another lot, deposits, a wrong unit, two creations. `ResultsChain`: no lost update. `EffectAtMostOnce`, `TruthfulAnswers`: a key acts once and the answer is true after every race and rollback. `ImplementsAtomicLedger`: the locking protocol is an atomic ledger. `EveryCallEnds`: nobody waits for ever. |
| `meal_completion` | `MCMealCompletion.cfg` | Three calls over three meals of two weeks, three lots and a clock. `NetConsumption`, `Reconciliation`: after any sequence of completions, corrections and reopenings the movements of a line are what it says and the balances their sums. `RecordedUnderApprovedPlan`: the plan's lock makes the early check hold at the commit. `FirstExpiredFirstOut`, although lots are locked one by one while others change them. `DeadlockTakesTwoOrders`: what closes a cycle of waiting calls, which `AbortDeadlocked` breaks, is a correction or a reopening (which lock by id, where completions lock by expiration), or completions of different weeks whose recipes name their ingredients in different orders; the dinner of one week and the brunch of the next do so here. |
| `meal_plan` | `MCMealPlan.cfg` | Three stories. *Members*: two people, two plan rows of one week, proposals, approvals and reopenings while people join and leave. *Tasks*: one person, two entries, two rules, tasks resolved during approvals, an approval through MCP. *Chores*: two people resolve tasks of their own. `FourEyes`: whoever approves is not the last proposer while two members were active throughout. `ApprovedPlanIsPrepared`, `ResolvedIsFinal`, `EntriesChangeInDraft`. |
| `meal_plan_tool` | `MCMealPlanTool.cfg` | Violation: an entry added through MCP lands in a proposed plan (section 6). |
| `kitchen` | `MCKitchen.cfg` | The scaling of amounts over all small inputs (`ScalingIsClose`), and weeks of two meals. `DemandIsConsumption`, `NothingMissingMeansCookable`, `DetailTellsWhatIsMissing`: forecast, detail, shopping and completion agree to the quantum, whichever meal is cooked first. |
| `household` | `MCHousehold.cfg` | Four stories. *Couple*: an owner and an administrator change roles, revoke each other, invite and accept through two invitations. *Revoking*: an invitation is revoked while it is sent again and accepted. *Directory*: one person is invited again and again through a directory that may fail or lose answers at every call. *Founding*: a household from its creation. `MembershipFollowsInvitations`; `DeliveryIsExclusive`, `SentWasMailed`, `ExistingIsNotMailed`. |
| `shopping` | `MCShopping.cfg` | One list and its successor, two products, HTTP and MCP requests, one key used for two items. `PurchaseIsStocked`: an item is purchased exactly when one lot of its amount came from it. `CompletedHasNoPending`. |
| `recipes` | `MCRecipes.cfg` | One recipe, up to three versions, edited over REST and MCP, planned, with a rule and a favorite. `OnePublished`, `PublishedIsImmutable`, `ImplementsAtomicRecipes`. |
| `household_memory` | `MCHouseholdMemory.cfg` | Two diners who want one name and one account, two memories, a key used for a creation, its retry and another creation. `MemoryJoinsActiveDiner`: no memory is committed for a diner archived meanwhile. `LateRetryIsReplayed`: a retry after the commit gets the first answer, by the diner's name too. `ProfileShowsWhatStayed`: two statements lose nothing that stayed. |
| `outbox` | `MCOutbox.cfg` | Two overlapping runs, two entries, three attempts, two losses. `IntentsExplainTheEntry`: rows and intents tell one story. `MailedOnceUnlessLost`: one letter each, and one more at most per lost run or answer. `EveryEntryIsSettled`: no entry stays pending for ever. |
| `ingredients` | `MCIngredients.cfg` | Pages of one item over a catalog in motion, recipes that create the same ingredients in opposite orders. `ListedOnce`; `CreatedForALine`: a recipe that fails leaves no ingredient, and lines disappear from drafts only; `LinesFitTheirIngredient`. |
| `identity` | `MCIdentity.cfg` | Two tasks, a key that is published and one that comes and goes, a first sign-in that may come twice, an agent's token. `PublishedKeyIsKnown`, `WithdrawnKeyExpires`: rotation is noticed in both directions, a withdrawal within `Ttl` and the time its document was under way. `EntitledToAct`: what was revoked, disabled or ended before a request arrived stays so. |

**Bounds, and why they are enough.** Two workers meet in every pair of steps, and no
decision of the code involves more than the row, the key and one competitor;
completions get a third because a cycle of locks and a bystander need one. Two lots
make an order (and its reverse by id), two users a proposer and an approver, two plan or
list rows one archived and its successor. Versions and mutations are bounded
(`MaxVersion`) at the length of the longest interesting sequence: in
the tasks of `meal_plan`, create, add, propose, approve, reopen, change, propose and approve
again. `MaxVersions`, `MaxLots`, `MaxMovements`, `MaxOther` and `LastDay` bound what
others may add. `MaxLag = 0` lets a client send only the version that is current when
the request arrives; it goes stale while the request runs, and a version that is stale
on arrival is refused by the same comparison. `MaxAmount = 2` makes both ends of the
range of a balance reachable. Workers are symmetric where no liveness is checked.

`meal_plan` and `household` are unions of stories: a variable `story` of the MC module,
chosen at the start, limits the requests that are sent (and, in `household`, who is there,
the versions and the invitations). One configuration with all requests at once would
be too large to finish. What the stories leave out are combinations, of two members
who share a plan with derived tasks for one; such requests meet at the row lock of the
plan, or at the row of a member, for which the requests of every story contend.

`MaxAttempts = 3` with delays of 1 and 2 units is the code's five attempts, whose delays
double from 30 seconds, with two removed; `MaxMishaps = 2` loses a run and an answer, or
one of them twice.
In the kitchen, two meals share each product or do not, among lots that suffice, that do not and that
have expired; `Scale = 4` makes the second rounding differ from the first.
`MaxVersions = 2` in the catalog: a recipe is a draft that is edited in place, one that is published, and the
next draft after it.
`PageSize = 1` puts a page boundary between any two ingredients, equal names included.
`Ttl = MaxFetch = 1`: a document is fresh for one unit; a fetch lasts none, one, or longer
than is counted. `MaxFetch` is no limit of the code: the property speaks of the fetches up to it,
and the theorem is for every `MaxFetch`.

**Fairness.** `InventoryLedger` assumes `WF_vars(Step(c))` for every call: a worker that
is not lost runs on, and PostgreSQL wakes a waiter when the lock is released. Weak
fairness is enough because each call is served once, so that nobody can be overtaken
for ever. `Outbox` assumes that an operator starts the dispatcher again while something
is due (`WF` of a claim by any process), that a run goes on unless it is lost (the mailer's
calls end by `smtp_timeout_seconds`), and that time passes. Runs and answers are lost
finitely often (`MaxMishaps`); a run that is lost before every commit would retry for
ever, in the code as in the model. No fairness is assumed for crashes, for other
services or for clients. The other modules serve request after request and promise
nothing about progress; there only safety is checked.

**Deadlock.** `CHECK_DEADLOCK FALSE` stands in `MCHousehold.cfg`, where clients send no more
requests once the bound on versions or invitations is reached and the system is then
at rest, and in `MCKitchen.cfg`, where cooking ends with the last meal of the day.
Elsewhere rest is an action (`Terminated`, `Quiet`, `Done`), or clients can
always send another request or time can pass, and any other halt is an error.

**Type invariants.** `TypeOK` is checked where it says something about the code, in
`inventory_ledger`, where it includes the range of the balances. In the other modules
that define it, it documents the columns and can be added to a configuration. It is
proved for the ledger, for `MealCompletion`, `Shopping`, `Household` and `MealPlan`; the other
proofs have the types they need among the conjuncts of their inductive invariants.

## 5. Proofs

### The ledger

`InventoryLedgerProofs` proves for any sets of calls, lots, units, keys and payloads,
and any `MaxAmount` and `MaxMovements`:

| theorem | statement |
|---|---|
| `TypeCorrectness` | `Spec => []TypeOK`: balances stay in `0..MaxAmount`, rows name existing lots |
| `LedgerConsistency` | `Spec => []ResultsChain`: every row records the balance its lot had, the cached balance is the newest row's |
| `NoLostUpdate` | `Spec => []NoStaleBalance`: what a call will write was computed from the current balance |
| `IdempotentEffect` | `Spec => []EffectAtMostOnce` |
| `AnswersAreTrue` | `Spec => []TruthfulAnswers` |
| `RequestsAreIndivisible` | `Spec => ImplementsAtomicLedger` |

They assume `BoundsAssumption` (the bounds are natural numbers, `MaxAmount` positive) and
`ConstantsAssumption` (payloads have passed the request schema, sentinels are not
elements of the sets they extend). TLC evaluates both in `inventory_ledger`.

None of the first five is inductive by itself. `ResultsChain` survives a commit only if the
balance computed under the lock is current (`NoStaleBalance`); that holds only if a
locked lot is changed by nobody else, which needs `LockDiscipline` (a row lock belongs
to a call that is about to commit on that lot). A new row extends the chain only if the
lot's newest row exists and carries the cached balance (`NewestRows`, `RowsBelong`). That a
call writes once, and that its answer is true, depends on what it has done by the time
it reaches each step (`Phases`). `IInv` is the conjunction of these with the theorems'
invariants. The proof has lemmas on the table (`AddedRow`, `AddedRowChain`,
`AddedRowOnce`, `AddedRowAnswers`), on the calls (one per action, `...Keeps`), and
`...Step` lemmas that put them together; `NextIInv` splits `Next` over them, and PTL
does the temporal step.

`RequestsAreIndivisible` is the refinement. The rows of the table and the replies are the
variables of the atomic ledger as they are; a commit is its `TakeEffect`, or `OtherEffect`
when shopping or a completion writes; an answer, replayed or fresh, is `Report`; a refusal
is `Refuse`, and every other step, `Crash` among them, stutters. The step that needs the invariant is the
commit: the atomic ledger computes the balance from the newest row of the lot, the code
from the cached column it locked, and the two agree by `NewestRows`, `RowsBelong` and
`ResultsChain`; that the call had not taken effect before is in `Phases`.

The ledger states no sum over its movements: `ResultsChain` says more, row by row. The sum
is a theorem about completions (`Reconciles`, below), whose tables other services write to as
well.

### Meal completions

`MealCompletionProofs` proves for any number of calls, entries, lots, ingredients and
completions, any recipes, and any `Scale` and `MaxAmount`:

| theorem | statement |
|---|---|
| `TypeCorrect` | `Spec => []TypeOK`: no balance leaves `0..MaxAmount`, seen or stored |
| `Reconciles` | `Spec => []Reconciliation`: a balance is what the lot began with and the sum of its movements |
| `ConsumptionAddsUp` | `Spec => []NetConsumption`: the movements of a line sum to what the line says, on no lot above zero |
| `DeadlocksNeedTwoOrders` | `Spec => []DeadlockTakesTwoOrders` |
| `ApprovedAtTheCommit` | `Spec => RecordedUnderApprovedPlan` (an action property) |
| `FirstToExpireIsUsedFirst` | `Spec => FirstExpiredFirstOut` (an action property) |

They assume `ScaleAssumption`, `DateAssumption` (`NoDate` is no day) and `CompletionAssumption` (finitely many lots and ingredients, rows and
requests as the schema and the request schemas let them through). The inductive
invariant `Inv` has a part for every layer of the transaction. `Types`. `Control`: a call
outside a transaction holds nothing; a completion or a skip holds the row of its entry's plan,
which is approved, a correction or reopening that of its recorded completion, and every call the lots
of what it has yet to commit. With that a lot changes under one call at a time, and
`ApprovedAtTheCommit` follows. `Listing`: the lots that a statement has
selected before it began to wait are still all that matter when it has them: a lot of the
ingredient that it does not list is empty to it or another call's, and what
a reversal lists is what the line has drawn on; and what a deduction has locked and will lock
is in the order of expiration and id, whatever the lots hold. `DeadlocksNeedTwoOrders` rests
on both: one plan's row has one holder, so two completions in a deadlock are of two plans; and were
all in the deadlock at one ingredient, the lot each waits for would come before the lot that its
holder waits for (`WaitsInOrder`), which finitely many lots cannot do (`NoEndlessQueue`). `BalanceInvariant`: what a call sees of a lot is what is stored and
what it has written itself. `Reconciliation` survives a commit by it, since the
call's movements of a lot, and nobody else's, make up the difference. `CallAccounts`
carries `NetConsumption` from statement to statement: how far the movements written so far are from
what the line will say, in each phase of a completion (line after line), a correction (lot by
lot back, then anew) and a reopening. `LineAccounts` says that what was never consumed
has no movements.

Under all of them are lemmas about the operators: `SumWithout`, `SumMoved`, `SumUnion` (sums over a
set of rows do not depend on their order or place), `SortedByExpiration` (what sorting a set returns),
`FefoAllocates` (what `fefo_allocate` takes, from which lots, in which order). They are
inductions over data; where the library states induction for an operator, which the
provers cannot use, these proofs take a least counterexample in a well-founded order
(`SmallestSubset`, from `WFMin`) and refute it.

### The kitchen

The last parts of `MealCompletionProofs` prove for any number of products, lots, entries and recipe rows,
any weeks, and any `Scale`, `MaxAmount` and `MaxWindow`:

| theorem | statement |
|---|---|
| `ForecastIsWhatCookingTakes` | `KitchenSpec => []DemandIsConsumption` |
| `EveryMealOfTheDayIsCooked` | `KitchenSpec => []NothingMissingMeansCookable` |
| `DetailIsRight` | `KitchenSpec => []DetailTellsWhatIsMissing` |
| `ScalingStaysClose` | `KitchenSpec => []ScalingIsClose` |

They assume `ScaleAssumption`, `DateAssumption` and `WeekAssumption`: the weeks a household
starts from are finite, their entries and lots as the schema has them, ids distinct, and
whether something is a staple a column of the ingredient. Three of the four need no more of a state
than that (`KitchenTypes`). The second needs an invariant: what the forecast found holds when cooking
starts, but later meals are cooked from what earlier ones have left. `Covered` says that as
long as there is cooking, the window is one day, and the demand of the entries that are due, of every
ingredient that is no staple, is at most what is on hand that day. `CookStep` keeps it: the demand
falls by what the entry's line took (`DemandIsRows`), and what is on hand by the same
(`TakenOnce`, `TakenTotal`, `WhatIsLeft`). Then no line of a completable entry
can be refused: `EnoughIsAllocated` says that the first-to-expire allocation succeeds exactly if the
amount is positive and the usable lots sum to it. A staple has no line, whatever it
is short of.

The forecast sums rows of all entries by ingredient, completion sums lines entry by entry:
`ConsumedIsRows` and the `Total` lemmas move a sum over a finite set along a bijection and split it
over a partition. The detail of a meal goes row by row and carries what earlier rows have left;
`DetailOneMore` and `DetailFolds` say of the rows so far that what they show missing is
what they need above the stock, and what remains is the stock above what they need.

### The ingredient catalog

The second part of `InventoryLedgerProofs` proves for any number of workers, households, ingredients,
recipes and requests, and any page size:

| theorem | statement |
|---|---|
| `CatalogStaysConsistent` | `CatalogSpec => []CatalogInv`, the inductive invariant |
| `NothingIsSkipped` | `CatalogSpec => []ListedOnce` |
| `NoStrayIngredients` | `CatalogSpec => CreatedForALine` (an action property) |
| `LinesFit` | `CatalogSpec => []LinesFitTheirIngredient` |

The assumption is `CatalogAssumption` (the schemas, the initial rows satisfy the unique index). `Pages` says of a
listing what its pages have shown so far: of the ingredients that have stayed, those up to
the cursor once and those beyond it not at all. It survives a page because a page is
an initial segment, in the order of names and ids, of what lies beyond the cursor, and
the next cursor its greatest element (`Greatest`: a finite set that is totally ordered has
one). `Resolution` follows the lines of a recipe from statement to statement: each stands
for an ingredient that fits it, for one that its worker has inserted with the line's dimension, or is still
missing, and lines that name one missing ingredient agree on the dimension. For
inserted rows `Indexed` and `Reserved` are what PostgreSQL's unique index guarantees
across open transactions: nobody else has the name, so that the commit keeps the index
and the ids of inserted rows stay free until then (`Apart`).
`LinesStand` keeps what a committed line refers to. An ingredient is created for a recipe in the
transaction of its lines, which is half of `CreatedForALine`. The other half is about the lines
that a commit replaces: `Held` says that the version a worker has found to be a draft under the
recipe's lock is one until it commits, and `Numbered` that no line belongs to a version yet to
come, so that a revision which adds a version replaces nothing.

### Meal plans

`MealPlanProofs` proves for any number of workers, people, plans, entries and rules:

| theorem | statement |
|---|---|
| `TypeCorrect` | `Spec => []TypeOK` |
| `TasksResolveOnce` | `Spec => ResolvedIsFinal` (an action property) |
| `EditsMeetADraft` | `NoAgentEdits`, hence `Spec => EntriesChangeInDraft` (an action property) |
| `ApprovalPrepares` | `NoAgentEdits`, hence `Spec => []ApprovedPlanIsPrepared` |
| `TwoPairsOfEyes` | `NoAgentPlanners`, hence `Spec => FourEyes` (an action property) |

The assumption is `PlanAssumption`, what the request schemas let through and that identifiers
are positive. Every handler computes what it writes, flushes it, and commits later. The
inductive invariant `IInv` says of each worker between the two that what it has flushed is what
it would flush on the rows as they are now (`Session`), and that no two workers write one
row (`Apart`: the unique index of the week for plans, locks and fresh identifiers for entries
and tasks). Only a commit changes a row (`OnlyCommitsWrite`); it leaves alone what another worker's
session depends on, since that worker holds the lock of it (`CommitKeeps`). Then the two action
properties of tasks and entries follow from what a commit writes. `ApprovedPlanIsPrepared` is
inductive together with `IInv`: the tasks an approval has derived fit the entries as they are
(`ReconciledFits`), and a member who resolves a task afterwards turns a pending
task of a rule into a completed or cancelled one of the same rule, which still fits.

`TwoPairsOfEyes` needs a second invariant, `Eyed`. The approval takes the proposal with the
latest `created_at`, the start of its transaction, for the last one. `ProposedInOrder` says that the
proposals of a plan began in the order in which they were committed. It survives a proposal because of
`Fresh`: a request whose version is still the plan's began when nothing of what
the plan has been through was missing. `SeenByTwo` carries what the approval has read
(`TransitionSeen`) to its commit.

The hypotheses are about the sessions of MCP tools, which load the plan before they lock it
and compare the version of what they have loaded with itself (section 6). An entry that
such a tool writes may land in a plan that was proposed or approved meanwhile: run
`meal_plan_tool` shows it, and neither `EntriesChangeInDraft` nor `ApprovedPlanIsPrepared`
holds then. `NoAgentEdits` excludes these requests and nothing else; tools may propose,
approve, reopen and archive. `NoAgentPlanners` is stronger. If `propose` is sent through MCP as
well, TLC violates `FourEyes` in fifteen steps: the agent's transaction begins, a member
proposes, the agent's proposal commits after it with an earlier `created_at`, and the
agent's user approves what they were the last to propose. All requests of
`meal_plan` satisfy `NoAgentEdits`. Those of its stories with two people satisfy `NoAgentPlanners`;
the one request through MCP, an approval, is in the story of one person.

### The dispatcher

The second part of `HouseholdProofs` proves for any number of processes and entries, any
limit, number of attempts, delay and number of losses:

| theorem | statement |
|---|---|
| `EveryAttemptIsAccountedFor` | `OutboxSpec => []IntentsExplainTheEntry` |
| `NoLetterTwice` | `OutboxSpec => []MailedOnceUnlessLost` |
| `OneRunAtATime` | `OutboxSpec => []LockDiscipline`: what a run has claimed is locked by it and pending until it ends |

The assumption is `OutboxAssumption`: the numbers are positive, entries are numbers, and
`Nobody` is no process. That rows and intents agree survives a commit because what a
run has handled is still pending with the number of attempts it was claimed with
(`LockDiscipline`), and fewer than the maximum of them (`AttemptsLeft`). The count of
letters needs more than its bound: `UnrecordedLettersWereLost` says that an entry which
neither its row nor a run calls sent has had no more letters than runs and answers
were lost, so that the next letter still keeps within the bound. The column `wait` is
typed as an integer, because that 2^n is
a natural number is out of the provers' reach; nothing depends on it.

### Recipes

`RecipesProofs` proves for any number of workers, recipes, rules, users and requests:

| theorem | statement |
|---|---|
| `NeverTwoPublished` | `Spec => []OnePublished` |
| `PublishedForEver` | `Spec => PublishedIsImmutable` |
| `RequestsAreAtomic` | `Spec => ImplementsAtomicRecipes` |

The assumption is `RequestAssumption`: what the request schemas let through (a creation
names the recipe, another request is about one). The proof has two halves. The first is
about the operators of `RecipeVersions` on one well-formed list of versions (numbered in
order, at most one published): each request leaves it well formed, no shorter, and with
the versions that have left draft as they were or archived (`NewVersionsKeep`, from
`PublishedOne`, `DraftEdited`, `RevisedKeeps`). The second is about sessions: `Session` says
that a worker which holds the lock has the versions that the rows still have, and the
row, unless an MCP tool has loaded it before. `WorkerStep` shows that no step takes a
lock or a session from another worker, `RowsStep` that a step changes only rows that its
own worker has locked or that did not exist. Then `WrittenAsComputed`: an UPDATE of
rows that are as they were loaded writes what the request computes, so a commit is a
step of `AtomicRecipes` (`CommitChanges`), and every other step stutters
(`StepShape`). That the MCP tool's old row does no harm beyond `McpChange` is part of
`CommitChanges`. `SameOperators` says that the operators of the instance are these.

### Households and invitations

`HouseholdProofs` proves for any number of people, workers, invitations and requests:

| theorem | statement |
|---|---|
| `TypeCorrect` | `Spec => []TypeOK` |
| `MembersWereInvited` | `Spec => []MembershipFollowsInvitations`: who is an active member founded the household, or began with it, or accepted once more than they were removed |
| `DeliveriesAreExclusive` | `Spec => []DeliveryIsExclusive` |
| `SentLettersWereMailed` | `Spec => []SentWasMailed` |
| `AccountHoldersAreNotMailed` | `Spec => []ExistingIsNotMailed` |

They assume `RequestAssumption` (what the request schemas let through), `StartAssumption` and
`AccountAssumption`. In these handlers a decision is often made on a row that was loaded
without a lock, so the invariant says what of it is still true: a row that was loaded
exists still, since nothing is deleted (`LoadedRow`); a row that was locked is as it was
found (`LockedRow`, `LockedInvitation`), because `Locks` gives a row to one transaction. Members change
status only under the lock of their row or as a new row, which is why `acceptances` and
`left` keep pace with `member`. Deliveries are held together by the outbox entry:
while a worker delivers, it is `suppressed` and the invitation has not expired
(`Delivery`), and `Resendable` asks for a failed entry or an expired invitation, so that
the token that is sent is the token of the row. `Founding` says that before the household exists there
is nothing else, and that one request founds it.

### Shopping

`ShoppingProofs` proves for any number of workers, lists, products and requests:

| theorem | statement |
|---|---|
| `TypeCorrect` | `Spec => []TypeOK` |
| `PurchasesAreStocked` | `Spec => []PurchaseIsStocked` |
| `CompletedListsAreDone` | `NoAgentRestores`, hence `Spec => []CompletedHasNoPending` |

The assumption is `ShoppingAssumption` (the schemas; amounts are closed downwards, since a
shortfall is what is needed less what is there). `Session` says that what a worker has flushed is
what it would flush on the rows as they are now, because the lock of its list has kept
everybody else away; for the creation that `OneCreation` does it, the unique index.
The first two theorems are about every request. The third has a hypothesis,
`NoAgentRestores`: an agent's `restore` judges the state of the list that its session has
loaded before the lock, and reopens an item of a list completed meanwhile (section 6). The
proof shows that this is the only request that can do it; all others, purchases and
completions through MCP included, are harmless.

### Household memory

`HouseholdMemoryProofs` proves for any number of workers, diners, memories and requests:

| theorem | statement |
|---|---|
| `MemoriesJoinActiveDiners` | `Spec => MemoryJoinsActiveDiner` (an action property) |
| `LateRetriesAreReplayed` | `Spec => []LateRetryIsReplayed` |
| `ProfilesAreComplete` | `Spec => []ProfileShowsWhatStayed` |

The assumption is `MemoryAssumption`. `Keeps` and `Scoped` say which rows a worker has
locked from which statement on, and that the diner a memory will be given is active and
locked from the check to the commit; an archival needs the same lock. `Replayed` follows
the receipt that a late retry found on arrival through the statements that look for it,
`OneReceipt` says there is no other of that key. `Shown` holds what stayed between the two
statements of a profile.

### Keys and identity

`IdentityProofs` proves for any number of tasks, keys, users, tokens and requests, and any
`Ttl` and `MaxFetch`:

| theorem | statement |
|---|---|
| `PublishedKeysAreKnown` | `Spec => []PublishedKeyIsKnown` |
| `WithdrawnKeysExpire` | `Spec => WithdrawnKeyExpires` (an action property) |
| `OnlyTheEntitledAct` | `Spec => []EntitledToAct` |

They assume `KeysAssumption` (the lifetime is positive; sentinels are no keys) and
`IdentityAssumption` (the shapes of requests). For the keys, `Documents` bounds the age of what a
fetch has in its hands by the time the fetch has lasted, and `CacheAge` carries that bound over to the
cache: a cached key was withdrawn before its document arrived by no more than the fetch
`took`, and the document lasts `Ttl`. `SteadyKeys` follows a key that was published all the time through
every document. For the rest, `Sessions` says at each statement of a request what was found
in order at some time since the request arrived; a membership or token that is revoked
later does not take that back, one that was revoked before cannot be found.

### What only TLC checks

Liveness and `ENABLED` are out of the provers' reach: `EveryCallEnds`,
`EveryEntryIsSettled`.
Every other property that a run finds to hold is stated by a theorem above.

## 6. Findings and other divergences

The violation run shows a disagreement between the code and its specification:
**a meal is added to a proposed plan** (`meal_plan_tool`). The MCP tool loads the plan,
then the service locks the row, but the session returns the object it already
holds. The version is compared with itself and the state is the old one. The same
cause shows in transitions through MCP, in shopping lists (an item can be restored
in a list completed meanwhile, increments of the version are lost, an archived list
can come back), in recipes (one archived meanwhile is edited), and in diners and memories
(the update overwrites a newer one without a conflict). The passing runs
therefore say what holds in spite of it: they send over HTTP every request, and
through MCP the approval of a plan, the purchase of an item, the completion of a
list, the creation and update of a recipe, and the update of diners and memories.
`AtomicRecipes` promises less for the MCP update (`McpChange`).

These were met while modelling. The modules do what the code does; no run states the
promise:

| code | what it does | what the documents say |
|---|---|---|
| `application/household_service.py:85` | the version is compared on a row loaded without a lock: of two updates of the settings with one version both succeed, and the later one overwrites the earlier | `specs/002-identity-households/spec.md:44` |
| `application/inventory_service.py:218`, `completion_service.py:433` | a retry that waits for the lock while its first attempt commits is judged again (stock, version, state) before its key is: it can be told a conflict, not the first result | `specs/004-inventory-ledger/spec.md:9`, `specs/009-completion/spec.md:50` |
| `inventory_service.py:101` | a replayed creation reports the balance of now | `specs/004-inventory-ledger/data-model.md:9` |
| `completion_service.py:540` | a recipe that names an ingredient twice in one unit cannot be completed: "already has a completion" | nothing |
| `domain/completion/policies.py:178` | a required ingredient that explicit lines do not name is completed with its planned amount, where it should be demanded | `specs/009-completion/spec.md:31` |
| `planning_service.py:821` | the last proposer is the one whose transaction began last; an agent whose tool loaded the plan before a member proposed it can propose it again, and its user approve it | `specs/005-meal-planning/spec.md:32` |
| `preparation_service.py:558` | a task keeps its due time when its entry moves | `specs/008-preparation/spec.md:17` |
| `planning_service.py:754` | an entry that has tasks cannot be deleted | `specs/008-preparation/spec.md:29` |
| `preparation_service.py:409` | the version is found to be a draft without a lock: a rule is added to a version published meanwhile, or removed from it | `specs/008-preparation/spec.md:7` |
| `invitation_service.py:162` | a revocation overwrites an acceptance that came between: the member stays, the invitation reads revoked | nothing says it, the guard above it does ("Only pending invitations can be revoked.") |
| `invitation_service.py:55` | two invitations of one email can be pending | `specs/002-identity-households/data-model.md:88` |
| `api/invitations.py:137` | an account whose creation was not answered is taken for one that existed before | `specs/016-zitadel-invitations/spec.md:75` |
| `recipe_service.py:464` | marking one favorite twice at once: the second fails on the unique constraint | `specs/003-ingredients-units-recipes/spec.md:69` |
| `mcp/tools_catalog.py:492` | the name is looked up before the insertion and no constraint follows: two creations at once make two recipes of one name | `specs/014-recipe-lifecycle-mcp/spec.md:45` |
| `mcp/tools_catalog.py:590`, `recipe_service.py:438` | a recipe archived meanwhile is edited | `specs/014-recipe-lifecycle-mcp/spec.md:22` |
| `event_service.py:208` | a dispatcher lost before its commit sends a whole batch again | `specs/010-events/spec.md:18` |
| `mcp/tools_memory.py:102`, `:211` | an update without a version is compared with the row the tool loaded before the lock, which its session keeps: it overwrites a newer one | nothing |
| `application/memory_service.py:391` | a retry that races its first attempt at `create_diner` finds the name taken before it finds the receipt, and is told a conflict | `specs/018-household-memory/spec.md:66` |
| `application/memory_service.py:351` | the profile reads memories and then diners: a memory that moves from one diner to another between the two statements is shown under a diner it has left, or not at all if that one was archived | `specs/018-household-memory/spec.md:133` |
| `ingredient_service.py:151` | an ingredient renamed while a client pages through the catalog can be listed twice or never (`ListedOnce` is about those that stay) | nothing |
| `mcp/tools_catalog.py:88`, `recipe_service.py:229` | ingredients are checked without a lock: a line may name one archived meanwhile (`LinesFitTheirIngredient` does not ask that it is active) | nothing |
| `recipe_service.py:301` | a draft's lines are replaced and the ingredients created for them stay in the catalog, named by no line (`CreatedForALine` is about the commit that creates them) | nothing |
| `completion_service.py:366` | completions lock the plan of their own week and then the lots in the order of the recipe's lines: two of different weeks can deadlock, and one caller gets an internal error (`DeadlockTakesTwoOrders` says when) | nothing |
| `application/ingredient_service.py:205` | the empty name of an update passes the schema and raises `ValueError` in the normalization: a 500 | nothing |
| `infrastructure/identity/jwks_cache.py:57` | the timeout bounds each wait for the provider, not the fetch, and `_expires_at` counts from the arrival: a document that trickles in is trusted for `ttl_seconds` more, however old it is (`WithdrawnKeyExpires` adds the duration of the fetch) | nothing |
| `infrastructure/identity/claims.py:31` | the expiry is compared again without the leeway that the decoder was given | nothing |
| `application/identity_service.py:30` | of two requests with tokens of different age, the one that commits last decides the profile, the older one too | nothing |
| MCP tools that take a key | a retry after success names the new version, so its fingerprint differs and it is told a conflict | – |

## 7. What is not modelled, and why

* **MCP tools for stock, tasks, completions and members**: they call the services that
  the modules model and keep no row of their own over the call, or one that the service
  locks by a session that has not loaded it.
* **Categories, staples, package sizes, notes, texts**: data that no decision here reads;
  what staples change in a shortfall is in `Forecast`.
* **The content of tokens**: signatures, claims and scopes are judged by a library. A token
  is valid for its subject when its key is found.
* **HTTP, parsing, serialization, configuration, logging**: no decisions on shared state.
  The request schemas are the sets of payloads.
* **Migrations**: the constraints and triggers they create appear as guards
  (`CommitRefused`, `WeekSettled`, `Removable`, the append-only movements).
* **The identity provider**: a service; its keys and its directory are modelled as far as
  the cache and the deliveries use them.
* **Filters, listings other than the catalog's, domain events, audit**: read-only or write-only.
