------------------------------ MODULE Recipes ------------------------------
(***************************************************************************)
(* The recipes of a household: recipe_service.py as the REST routes and    *)
(* the MCP tools call it, the preparation rules of preparation_service.py, *)
(* the favorites, and the planning of a version by planning_service.py.    *)
(*                                                                         *)
(* Each element of Call is a worker that serves one request after another, *)
(* each in a READ COMMITTED transaction with an SQLAlchemy session.  The   *)
(* session keeps the rows it has loaded: SELECT ... FOR UPDATE waits for   *)
(* the row, but leaves a loaded object as it is.                           *)
(***************************************************************************)
EXTENDS RecipeVersions, FiniteSets, FiniteSetsExt

CONSTANTS
  Call,         \* workers
  User,         \* members
  RecipeId,     \* identifiers of recipes, a range 1..n
  RuleId,       \* identifiers of preparation rules, a range 1..n
  Request,      \* what the members send
  MaxVersions,  \* bound: no request that adds a version is sent beyond it
  NoCall

\* What the request schemas let through: a new recipe has a name, every other
\* request is about a recipe.
ASSUME RequestAssumption ==
  /\ NoCall \notin Call
  /\ \A q \in Request : IF q.op \in CreateOps THEN q.name # Omitted ELSE q.recipe \in RecipeId

VARIABLES
  recipe,                  \* Recipe rows
  recipe_version,          \* RecipeVersion rows of each recipe
  recipe_preparation_rule, \* RecipePreparationRule rows: id, recipe and version
  recipe_favorite,         \* RecipeFavorite rows: user and recipe
  planned,                 \* the versions that entries of meal plans refer to
  recipe_lock,             \* holders of the row locks
  pc, request,
  seen                     \* the rows the session has loaded

recipes == <<recipe, recipe_version>>
others == <<recipe_preparation_rule, recipe_favorite, planned>>
worker == <<recipe_lock, pc, request, seen>>
vars == <<recipes, others, worker>>

NoRequest == [op |-> "none"]
Unseen == [row |-> NoRecipe, versions |-> <<>>]

Init ==
  /\ recipe = [r \in RecipeId |-> NoRecipe]
  /\ recipe_version = [r \in RecipeId |-> <<>>]
  /\ recipe_preparation_rule = {}
  /\ recipe_favorite = {}
  /\ planned = {}
  /\ recipe_lock = [r \in RecipeId |-> NoCall]
  /\ pc = [c \in Call |-> "idle"]
  /\ request = [c \in Call |-> NoRequest]
  /\ seen = [c \in Call |-> Unseen]

\* SELECT ... FOR UPDATE waits while another transaction holds the row.
FreeIgnored(c, r) == TRUE
Free(c, r) == recipe_lock[r] \in {NoCall, c}

Released(c) == [r \in RecipeId |-> IF recipe_lock[r] = c THEN NoCall ELSE recipe_lock[r]]
-----------------------------------------------------------------------------
CanSend(q) ==
  IF q.op \in CreateOps THEN TRUE
  ELSE /\ recipe[q.recipe] # NoRecipe
       /\ Len(recipe_version[q.recipe]) >= MaxVersions =>
            q.op \notin {"version", "revise", "mcp_update"}

Receive(c, q) ==
  /\ pc[c] = "idle"
  /\ CanSend(q)
  /\ pc' = [pc EXCEPT ![c] = "open"]
  /\ request' = [request EXCEPT ![c] = q]
  /\ UNCHANGED <<recipes, others, recipe_lock, seen>>

Goto(c, next) ==
  /\ pc' = [pc EXCEPT ![c] = next]
  /\ UNCHANGED <<recipes, others, recipe_lock, request, seen>>

EndRequest(c) ==
  /\ pc' = [pc EXCEPT ![c] = "idle"]
  /\ request' = [request EXCEPT ![c] = NoRequest]
  /\ seen' = [seen EXCEPT ![c] = Unseen]
  /\ recipe_lock' = Released(c)

\* A DomainError or a lost connection: the transaction is undone.
Rollback(c) == EndRequest(c) /\ UNCHANGED <<recipes, others>>

\* An IntegrityError that no handler catches: the client gets a 500.
Fail(c) == Rollback(c)

-----------------------------------------------------------------------------
(***************************************************************************)
(* Creation.  The MCP tool first looks for an active recipe of that name.  *)
(***************************************************************************)
ActiveNames == {recipe[r].name : r \in {r \in RecipeId : ~recipe[r].archived}}
Unused == {r \in RecipeId : recipe[r] = NoRecipe}

FindName(c) ==
  /\ pc[c] = "open" /\ request[c].op = "mcp_create"
  /\ request[c].name \notin ActiveNames
  /\ Goto(c, "unnamed")

RefuseName(c) ==
  /\ pc[c] = "open" /\ request[c].op = "mcp_create"
  /\ request[c].name \in ActiveNames
  /\ Rollback(c)

Insert(c) ==
  LET q == request[c] IN
  /\ \E r \in Unused :
       /\ \A s \in Unused : r <= s
       /\ recipe' = [recipe EXCEPT ![r] = [name |-> q.name, archived |-> FALSE]]
       /\ recipe_version' = [recipe_version EXCEPT ![r] = VersionsOfNew(q)]
  /\ EndRequest(c)
  /\ UNCHANGED others

CreateRecipe(c) == pc[c] = "open" /\ request[c].op = "create" /\ Insert(c)
McpCreateRecipe(c) == pc[c] = "unnamed" /\ Insert(c)

\* The bound on recipes.
RefuseCreation(c) ==
  /\ pc[c] = "unnamed" \/ (pc[c] = "open" /\ request[c].op = "create")
  /\ Unused = {}
  /\ Rollback(c)

(***************************************************************************)
(* Everything else that changes a recipe or a version takes the lock of    *)
(* the recipe and then reads.  The MCP tool has read the recipe before.    *)
(***************************************************************************)
Load(c) ==
  LET row == recipe[request[c].recipe] IN
  /\ pc[c] = "open" /\ request[c].op = "mcp_update"
  /\ IF row.archived
     THEN Rollback(c)
     ELSE /\ pc' = [pc EXCEPT ![c] = "loaded"]
          /\ seen' = [seen EXCEPT ![c].row = row]
          /\ UNCHANGED <<recipes, others, recipe_lock, request>>

AsksForLock(c) ==
  \/ pc[c] = "open" /\ request[c].op \in LockedOps \ {"mcp_update"}
  \/ pc[c] = "loaded"

RowInSession(c) == IF seen[c].row = NoRecipe THEN recipe[request[c].recipe] ELSE seen[c].row

Lock(c) ==
  LET r == request[c].recipe IN
  /\ AsksForLock(c)
  /\ Free(c, r)
  /\ Allowed(request[c], RowInSession(c), recipe_version[r])
  /\ seen' = [seen EXCEPT ![c] = [row |-> RowInSession(c), versions |-> recipe_version[r]]]
  /\ recipe_lock' = [recipe_lock EXCEPT ![r] = c]
  /\ pc' = [pc EXCEPT ![c] = "locked"]
  /\ UNCHANGED <<recipes, others, request>>

Refuse(c) ==
  LET r == request[c].recipe IN
  /\ AsksForLock(c)
  /\ Free(c, r)
  /\ ~Allowed(request[c], RowInSession(c), recipe_version[r])
  /\ Rollback(c)

\* An UPDATE names the columns, and the rows, that the session has changed.
Assigned(current, loaded, value) == IF value = loaded THEN current ELSE value

UpdatedRow(current, loaded, value) ==
  [name |-> Assigned(current.name, loaded.name, value.name),
   archived |-> Assigned(current.archived, loaded.archived, value.archived)]

Inserted(loaded, value) == SubSeq(value, Len(loaded) + 1, Len(value))
UpdatedVersions(current, loaded, value) ==
  [i \in DOMAIN current |->
     IF i \in DOMAIN loaded THEN Assigned(current[i], loaded[i], value[i]) ELSE current[i]]
  \o Inserted(loaded, value)

Result(c) == NewVersions(request[c], seen[c].versions)

\* uq_recipe_version_number
DuplicateNumber(c) ==
  LET current == recipe_version[request[c].recipe]
      inserted == Inserted(seen[c].versions, Result(c))
  IN \E i \in DOMAIN current, j \in DOMAIN inserted : current[i].number = inserted[j].number

WriteBack(c) ==
  LET q == request[c] IN
  /\ recipe' = [recipe EXCEPT ![q.recipe] = UpdatedRow(@, seen[c].row, NewRow(q, seen[c].row))]
  /\ recipe_version' =
       [recipe_version EXCEPT ![q.recipe] = UpdatedVersions(@, seen[c].versions, Result(c))]
  /\ EndRequest(c)
  /\ UNCHANGED others

Commit(c) ==
  /\ pc[c] = "locked"
  /\ IF DuplicateNumber(c) THEN Fail(c) ELSE WriteBack(c)

-----------------------------------------------------------------------------
(***************************************************************************)
(* add_rule and delete_rule look at the version without a lock.            *)
(***************************************************************************)
RuleOps == {"add_rule", "delete_rule"}
RulesOf(r, i) == {rule \in recipe_preparation_rule : rule.recipe = r /\ rule.version = i}

GetDraftVersion(c) ==
  LET q == request[c] IN
  /\ pc[c] = "open" /\ q.op \in RuleOps
  /\ IF IsDraft(recipe_version[q.recipe], q.version) THEN Goto(c, "draft") ELSE Rollback(c)

AddRule(c) ==
  LET q == request[c]
      free == RuleId \ {rule.id : rule \in recipe_preparation_rule}
  IN
  /\ pc[c] = "draft" /\ q.op = "add_rule"
  /\ recipe_preparation_rule' = recipe_preparation_rule \cup
       {[id |-> id, recipe |-> q.recipe, version |-> q.version] :
          id \in IF free = {} THEN {} ELSE {Min(free)}}    \* the bound on rules
  /\ EndRequest(c)
  /\ UNCHANGED <<recipes, recipe_favorite, planned>>

DeleteRule(c) ==
  LET q == request[c] IN
  /\ pc[c] = "draft" /\ q.op = "delete_rule"
  /\ recipe_preparation_rule' =
       {rule \in recipe_preparation_rule :
          ~(rule.id = q.rule /\ rule.recipe = q.recipe /\ rule.version = q.version)}
  /\ EndRequest(c)
  /\ UNCHANGED <<recipes, recipe_favorite, planned>>

(***************************************************************************)
(* favorite_recipe and unfavorite_recipe look first and write then.        *)
(***************************************************************************)
Favorite(c) == <<request[c].user, request[c].recipe>>

FindFavorite(c) ==
  LET wanted == request[c].op = "favorite" IN
  /\ pc[c] = "open" /\ request[c].op \in {"favorite", "unfavorite"}
  /\ IF (Favorite(c) \in recipe_favorite) = wanted THEN Rollback(c) ELSE Goto(c, "write")

WriteFavorite(c) ==
  /\ pc[c] = "write"
  /\ recipe_favorite' = IF request[c].op = "favorite" THEN recipe_favorite \cup {Favorite(c)}
                        ELSE recipe_favorite \ {Favorite(c)}
  /\ request[c].op = "favorite" => Favorite(c) \notin recipe_favorite
  /\ EndRequest(c)
  /\ UNCHANGED <<recipes, recipe_preparation_rule, planned>>

\* uq_recipe_favorite
FailFavorite(c) ==
  /\ pc[c] = "write" /\ request[c].op = "favorite"
  /\ Favorite(c) \in recipe_favorite
  /\ Fail(c)

(***************************************************************************)
(* add_entry plans a version, which it looks at without a lock.            *)
(***************************************************************************)
Plannable(row, version) == ~row.archived /\ version.state = "published"

AssertPublished(c) ==
  LET q == request[c] IN
  /\ pc[c] = "open" /\ q.op = "plan"
  /\ IF /\ q.version \in DOMAIN recipe_version[q.recipe]
        /\ Plannable(recipe[q.recipe], recipe_version[q.recipe][q.version])
     THEN Goto(c, "plannable") ELSE Rollback(c)

AddEntry(c) ==
  LET q == request[c] IN
  /\ pc[c] = "plannable"
  /\ planned' = planned \cup {<<q.recipe, q.version>>}
  /\ EndRequest(c)
  /\ UNCHANGED <<recipes, recipe_preparation_rule, recipe_favorite>>
-----------------------------------------------------------------------------
Crash(c) == pc[c] # "idle" /\ Rollback(c)

Step(c) ==
  \/ FindName(c) \/ RefuseName(c) \/ CreateRecipe(c) \/ McpCreateRecipe(c) \/ RefuseCreation(c)
  \/ Load(c) \/ Lock(c) \/ Refuse(c) \/ Commit(c)
  \/ GetDraftVersion(c) \/ AddRule(c) \/ DeleteRule(c)
  \/ FindFavorite(c) \/ WriteFavorite(c) \/ FailFavorite(c)
  \/ AssertPublished(c) \/ AddEntry(c)

Next == \E c \in Call : Step(c) \/ Crash(c) \/ \E q \in Request : Receive(c, q)

Spec == Init /\ [][Next]_vars
-----------------------------------------------------------------------------
\* FR-006 of specs/003: every variable has its type, and the numbers of the
\* versions of a recipe are sequential.
TypeOK ==
  /\ \A r \in RecipeId : \A i \in DOMAIN recipe_version[r] :
       /\ recipe_version[r][i].number = i
       /\ recipe_version[r][i].state \in {"draft", "published", "archived"}
  /\ recipe_lock \in [RecipeId -> Call \cup {NoCall}]
  /\ \A rule \in recipe_preparation_rule : rule.version \in DOMAIN recipe_version[rule.recipe]
  /\ recipe_favorite \subseteq User \X RecipeId
  /\ pc \in [Call -> {"idle", "open", "unnamed", "loaded", "locked", "draft", "write", "plannable"}]

\* specs/014-recipe-lifecycle-mcp/spec.md:29: a recipe has at most one
\* published version, whoever publishes at the same time.
OnePublished ==
  \A r \in RecipeId :
    Cardinality({i \in DOMAIN recipe_version[r] : recipe_version[r][i].state = "published"}) <= 1

\* FR-008 and SC-003 of specs/003: a version that left draft keeps its content
\* for ever, and afterwards it can only be archived.
PublishedIsImmutable ==
  [][\A r \in RecipeId : \A i \in DOMAIN recipe_version[r] :
       LET old == recipe_version[r][i]
           new == recipe_version'[r][i]
       IN old.state # "draft" => new \in {old, [old EXCEPT !.state = "archived"]}]_vars

\* The requests on a recipe take effect one after another, each as a whole.
Atomic == INSTANCE AtomicRecipes
ImplementsAtomicRecipes == Atomic!Spec
=============================================================================
