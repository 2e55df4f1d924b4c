---------------------------- MODULE Ingredients ----------------------------
(***************************************************************************)
(* The catalog of ingredients: ingredient_service.py, and the MCP tools    *)
(* and the route that write the ingredient lines of a recipe and so        *)
(* resolve, create and check ingredients (tools_catalog.py,                *)
(* recipe_service.py).                                                     *)
(*                                                                         *)
(* Each element of Worker is a process that serves one request after       *)
(* another, each in a READ COMMITTED transaction.  No ingredient is read   *)
(* with a lock.  The tools insert missing ingredients in savepoints: these *)
(* rows are invisible to others until the recipe is committed, but whoever *)
(* inserts the same name waits for that.                                   *)
(*                                                                         *)
(* A listing is a request for every page; the client passes the cursor of  *)
(* one page to the next.                                                   *)
(*                                                                         *)
(* Names are numbers, in the order of normalized_name.  Categories, the    *)
(* staple flag and package sizes are left out: nothing here reads them.    *)
(***************************************************************************)
EXTENDS Integers, Sequences, FiniteSets, FiniteSetsExt

CONSTANTS
  Worker,        \* the processes that serve requests
  Household,
  Global,        \* the household_id of global ingredients: NULL
  IngredientId,  \* identifiers of ingredients, a range 1..n in the order of the ids
  Dimension,     \* mass, volume, count
  RecipeId,      \* identifiers of recipes, a range 1..n
  MaxVersions,   \* bound: the versions a recipe can have
  Initial,       \* the ingredient rows the program starts with
  PageSize,      \* the limit of a listing
  CatalogRequest,  \* what the members send
  Omitted,       \* a field that a request leaves out
  Nobody

\* The rows of the ingredient table.
IngredientRow ==
  [household : Household \cup {Global}, name : Nat, dimension : Dimension, archived : BOOLEAN]

\* The tools that write lines, and the routes that begin with the recipe's lock.
ToolOps == {"mcp_create", "mcp_update"}
RecipeOps == {"lines", "revise", "version", "publish", "archive_recipe"}

\* What the schemas let through: a line names its ingredient by an id or, in
\* the tools, by a name.
LineType == [id : IngredientId \cup {Omitted}, name : Nat \cup {Omitted}, dimension : Dimension]
WellFormed(q) ==
  /\ q.household \in Household
  /\ q.op \in {"list", "create", "update", "archive"} \cup ToolOps \cup RecipeOps
  /\ q.op \in {"create", "update", "mcp_create"} => q.name \in Nat
  /\ q.op = "create" => q.dimension \in Dimension
  /\ q.op \in {"mcp_update"} \cup RecipeOps => q.recipe \in RecipeId
  /\ q.op \in {"lines", "publish"} => q.version \in Nat
  /\ q.op \in {"mcp_create", "mcp_update", "revise"} => q.publish \in BOOLEAN
  /\ q.op \in {"mcp_create", "mcp_update", "lines", "revise"} =>
       /\ q.lines \in Seq(LineType)
       /\ \A k \in DOMAIN q.lines : q.lines[k].id = Omitted => q.lines[k].name \in Nat

\* Two active rows that the unique indexes do not tell apart.
SameKey(a, b) ==
  ~a.archived /\ ~b.archived /\ a.household = b.household /\ a.name = b.name

ASSUME CatalogAssumption ==
  /\ IsFiniteSet(IngredientId) /\ IngredientId \subseteq Nat \ {0} /\ RecipeId \subseteq Nat
  /\ MaxVersions \in Nat \ {0}
  /\ PageSize \in Nat \ {0}
  /\ Global \notin Household /\ Nobody \notin Worker
  /\ Omitted \notin Household \cup {Global} \cup IngredientId
  /\ \A i \in IngredientId \cap DOMAIN Initial : Initial[i] \in IngredientRow
  /\ \A i, j \in IngredientId \cap DOMAIN Initial : SameKey(Initial[i], Initial[j]) => i = j
  /\ \A q \in CatalogRequest : WellFormed(q)

VARIABLES
  ingredient,                 \* Ingredient rows: household, name, dimension, archived
  recipe,                     \* Recipe rows: household, name, archived, the number of
                              \* versions, and those that are drafts
  recipe_version_ingredient,  \* lines of all versions
  recipe_lock,                \* holders of the row locks of recipes
  stage, asked,  \* how far each worker is, and with which request
  resolved,   \* the ingredient of each line handled so far, Omitted if it is missing
  inserted,   \* ingredients inserted by the open transaction
  cursor,     \* the place of a listing: name and id of the last item
  listed,     \* how often the pages of a listing have shown each ingredient
  stayed      \* history: what the listing could show, unchanged since its begin

catalog_tables == <<ingredient, recipe, recipe_version_ingredient>>
worker == <<stage, asked, resolved, inserted, recipe_lock>>
listing == <<cursor, listed>>
catalog_vars == <<catalog_tables, worker, listing, stayed>>

NoIngredient == [household |-> Omitted, name |-> 0, dimension |-> Omitted, archived |-> TRUE]
NoRecipe == [household |-> Omitted, name |-> 0, archived |-> TRUE, versions |-> 0, drafts |-> {}]
NoRequest == [op |-> "none"]
Start == [name |-> 0, id |-> 0]

CatalogInit ==
  /\ ingredient = [i \in IngredientId |-> IF i \in DOMAIN Initial THEN Initial[i] ELSE NoIngredient]
  /\ recipe = [r \in RecipeId |-> NoRecipe]
  /\ recipe_version_ingredient = {}
  /\ recipe_lock = [r \in RecipeId |-> Nobody]
  /\ stage = [c \in Worker |-> "idle"]
  /\ asked = [c \in Worker |-> NoRequest]
  /\ resolved = [c \in Worker |-> <<>>]
  /\ inserted = [c \in Worker |-> {}]
  /\ cursor = [c \in Worker |-> Start]
  /\ listed = [c \in Worker |-> [i \in IngredientId |-> 0]]
  /\ stayed = [c \in Worker |-> {}]
-----------------------------------------------------------------------------
Active(h) == {i \in IngredientId : ~ingredient[i].archived /\ ingredient[i].household = h}
Available(h) == Active(h) \cup Active(Global)

Scope(q) == IF q.include_global THEN Available(q.household) ELSE Active(q.household)

\* Rows are written, and what a listing could rely on is what did not change.
Write(rows) ==
  /\ ingredient' = rows
  /\ stayed' = [c \in Worker |-> {i \in stayed[c] : rows[i] = ingredient[i]}]

Receive(c, q) ==
  /\ stage[c] = "idle"
  /\ stage' = [stage EXCEPT ![c] = "open"]
  /\ asked' = [asked EXCEPT ![c] = q]
  /\ stayed' = [stayed EXCEPT ![c] = IF q.op = "list" THEN Scope(q) ELSE {}]
  /\ UNCHANGED <<catalog_tables, resolved, inserted, recipe_lock, listing>>

\* The end of the request and of its transaction.
Ended(c) ==
  /\ stage' = [stage EXCEPT ![c] = "idle"]
  /\ asked' = [asked EXCEPT ![c] = NoRequest]
  /\ resolved' = [resolved EXCEPT ![c] = <<>>]
  /\ inserted' = [inserted EXCEPT ![c] = {}]
  /\ recipe_lock' = [r \in RecipeId |-> IF recipe_lock[r] = c THEN Nobody ELSE recipe_lock[r]]
  /\ cursor' = [cursor EXCEPT ![c] = Start]
  /\ listed' = [listed EXCEPT ![c] = [i \in IngredientId |-> 0]]

Rollback(c) == Ended(c) /\ UNCHANGED <<catalog_tables, stayed>>

Goto(c, next) ==
  /\ stage' = [stage EXCEPT ![c] = next]
  /\ UNCHANGED <<catalog_tables, listing, stayed>>
-----------------------------------------------------------------------------
(***************************************************************************)
(* list_ingredients, page by page: keyset pagination on the name and the   *)
(* id.                                                                     *)
(***************************************************************************)
Cursor(i) == [name |-> ingredient[i].name, id |-> i]

BeyondByName(i, place) == ingredient[i].name > place.name
Beyond(i, place) ==
  \/ ingredient[i].name > place.name
  \/ ingredient[i].name = place.name /\ i > place.id

Before(i, j) ==
  \/ ingredient[i].name < ingredient[j].name
  \/ ingredient[i].name = ingredient[j].name /\ i < j

ListPage(c) ==
  LET rows == {i \in Scope(asked[c]) : Beyond(i, cursor[c])}
      items == {i \in rows : Cardinality({j \in rows : Before(j, i)}) < PageSize}
      last == CHOOSE i \in items : \A j \in items : j = i \/ Before(j, i)
  IN
  /\ stage[c] \in {"open", "paging"} /\ asked[c].op = "list"
  /\ listed' = [listed EXCEPT ![c] = [i \in IngredientId |-> @[i] + IF i \in items THEN 1 ELSE 0]]
  /\ IF Cardinality(rows) > PageSize
     THEN /\ stage' = [stage EXCEPT ![c] = "paging"]
          /\ cursor' = [cursor EXCEPT ![c] = Cursor(last)]
     ELSE /\ stage' = [stage EXCEPT ![c] = "told"]
          /\ UNCHANGED cursor
  /\ UNCHANGED <<catalog_tables, asked, resolved, inserted, recipe_lock, stayed>>

TellListing(c) == stage[c] = "told" /\ Rollback(c)

(***************************************************************************)
(* The two unique indexes hold for active rows.  Who inserts a name that   *)
(* an open transaction has inserted waits for its end.                     *)
(***************************************************************************)
Clash(h, name) == \E j \in Active(h) : ingredient[j].name = name

Settled(c, h, name) ==
  \A d \in Worker \ {c} : \A row \in inserted[d] :
    ~(asked[d].household = h /\ row.name = name)

FreeIds == {i \in IngredientId : ingredient[i] = NoIngredient
                                  /\ \A c \in Worker : \A row \in inserted[c] : row.id # i}

NewIngredient(h, name, dimension) ==
  [household |-> h, name |-> name, dimension |-> dimension, archived |-> FALSE]

\* create_ingredient with its commit.
CreateIngredient(c) ==
  LET q == asked[c] IN
  /\ stage[c] = "open" /\ q.op = "create"
  /\ Settled(c, q.household, q.name)
  /\ ~Clash(q.household, q.name)
  /\ \E i \in FreeIds : Write([ingredient EXCEPT ![i] = NewIngredient(q.household, q.name, q.dimension)])
  /\ Ended(c)
  /\ UNCHANGED <<recipe, recipe_version_ingredient>>

\* The IntegrityError, and the bound on ingredients.
RefuseCreation(c) ==
  LET q == asked[c] IN
  /\ stage[c] = "open" /\ q.op = "create"
  /\ Settled(c, q.household, q.name)
  /\ Clash(q.household, q.name) \/ FreeIds = {}
  /\ Rollback(c)

(***************************************************************************)
(* update_ingredient and archive_ingredient load the row without a lock.   *)
(* A name that is the loaded one is not written.                           *)
(***************************************************************************)
Changes(q) == q.op = "archive" \/ ingredient[q.id].name # q.name

LoadIngredient(c) ==
  LET q == asked[c] IN
  /\ stage[c] = "open" /\ q.op \in {"update", "archive"}
  /\ IF q.id \in Active(q.household) /\ Changes(q)
     THEN Goto(c, "loaded") /\ UNCHANGED <<asked, resolved, inserted, recipe_lock>>
     ELSE Rollback(c)

\* The index has the name anew, unless the row was archived or renamed to it.
Reindexed(q) == ~ingredient[q.id].archived /\ ingredient[q.id].name # q.name

UpdateIngredient(c) ==
  LET q == asked[c] IN
  /\ stage[c] = "loaded" /\ q.op = "update"
  /\ Reindexed(q) => Settled(c, q.household, q.name)
  /\ IF Reindexed(q) /\ Clash(q.household, q.name)
     THEN Rollback(c)
     ELSE /\ Write([ingredient EXCEPT ![q.id].name = q.name])
          /\ Ended(c)
          /\ UNCHANGED <<recipe, recipe_version_ingredient>>

ArchiveIngredient(c) ==
  /\ stage[c] = "loaded" /\ asked[c].op = "archive"
  /\ Write([ingredient EXCEPT ![asked[c].id].archived = TRUE])
  /\ Ended(c)
  /\ UNCHANGED <<recipe, recipe_version_ingredient>>
-----------------------------------------------------------------------------
(***************************************************************************)
(* The tools that create or update a recipe first look at the recipe, then *)
(* resolve one line after another, then create what is missing.            *)
(***************************************************************************)
ActiveNames(h) ==
  {recipe[r].name : r \in {r \in RecipeId : recipe[r].household = h /\ ~recipe[r].archived}}

LookAtRecipe(c) ==
  LET q == asked[c] IN
  /\ stage[c] = "open" /\ q.op \in ToolOps
  /\ IF \/ q.op = "mcp_create" /\ q.name \notin ActiveNames(q.household)
        \/ q.op = "mcp_update" /\ recipe[q.recipe].household = q.household /\ ~recipe[q.recipe].archived
     THEN Goto(c, "resolving") /\ UNCHANGED <<asked, resolved, inserted, recipe_lock>>
     ELSE Rollback(c)

\* find_by_name: the household's own ingredient before the global one.
Named(h, name) == {i \in Active(h) : ingredient[i].name = name}
FindByName(h, name) == IF Named(h, name) # {} THEN Named(h, name) ELSE Named(Global, name)

\* The ingredient a line means: a set of at most one.
Meant(h, line) ==
  IF line.id # Omitted THEN {line.id} \cap Available(h) ELSE FindByName(h, line.name)

\* The missing ingredients of the earlier lines: pending_dimensions.
PendingDimensions(c, name) ==
  {asked[c].lines[k].dimension :
     k \in {k \in DOMAIN resolved[c] : resolved[c][k] = Omitted /\ asked[c].lines[k].name = name}}

ResolveLine(c) ==
  LET q == asked[c]
      line == q.lines[Len(resolved[c]) + 1]
      meant == Meant(q.household, line)
  IN
  /\ stage[c] = "resolving" /\ Len(resolved[c]) < Len(q.lines)
  /\ IF \/ \E i \in meant : ingredient[i].dimension = line.dimension
        \/ /\ meant = {} /\ line.id = Omitted
           /\ PendingDimensions(c, line.name) \subseteq {line.dimension}
     THEN /\ resolved' = [resolved EXCEPT ![c] =
                            Append(@, IF meant = {} THEN Omitted ELSE CHOOSE i \in meant : TRUE)]
          /\ Goto(c, "resolving")
          /\ UNCHANGED <<asked, inserted, recipe_lock>>
     ELSE Rollback(c)

\* The first line whose ingredient is missing.
Missing(c) == {k \in DOMAIN resolved[c] : resolved[c][k] = Omitted}
FirstMissing(c) == asked[c].lines[Min(Missing(c))]

\* Every line of that name gets the new ingredient: created_by_name.
ResolvedTo(c, i) ==
  [k \in DOMAIN resolved[c] |->
     IF k \in Missing(c) /\ asked[c].lines[k].name = FirstMissing(c).name THEN i ELSE resolved[c][k]]

AllLooked(c) == stage[c] = "resolving" /\ Len(resolved[c]) = Len(asked[c].lines)

CreateMissingCommitted(c) ==
  LET h == asked[c].household IN
  /\ AllLooked(c) /\ Missing(c) # {}
  /\ Settled(c, h, FirstMissing(c).name)
  /\ ~Clash(h, FirstMissing(c).name)
  /\ \E i \in FreeIds :
       /\ Write([ingredient EXCEPT ![i] =
                   NewIngredient(h, FirstMissing(c).name, FirstMissing(c).dimension)])
       /\ resolved' = [resolved EXCEPT ![c] = ResolvedTo(c, i)]
  /\ UNCHANGED <<recipe, recipe_version_ingredient, stage, asked, inserted, recipe_lock, listing>>

CreateMissing(c) ==
  LET h == asked[c].household IN
  /\ AllLooked(c) /\ Missing(c) # {}
  /\ Settled(c, h, FirstMissing(c).name)
  /\ ~Clash(h, FirstMissing(c).name)
  /\ \E i \in FreeIds :
       /\ inserted' = [inserted EXCEPT ![c] =
                         @ \cup {[id |-> i, name |-> FirstMissing(c).name,
                                  dimension |-> FirstMissing(c).dimension]}]
       /\ resolved' = [resolved EXCEPT ![c] = ResolvedTo(c, i)]
  /\ Goto(c, "resolving")
  /\ UNCHANGED <<asked, recipe_lock>>

\* The IntegrityError of a savepoint ends the whole request.
RefuseMissing(c) ==
  LET h == asked[c].household IN
  /\ AllLooked(c) /\ Missing(c) # {}
  /\ Settled(c, h, FirstMissing(c).name)
  /\ Clash(h, FirstMissing(c).name) \/ FreeIds = {}
  /\ Rollback(c)

(***************************************************************************)
(* The lines are written under the recipe's lock.  The route checks them   *)
(* there; the tools have the ingredients in their session by then, as they *)
(* were when the lines were resolved, and so is the recipe.                *)
(***************************************************************************)
AsksForLock(c) ==
  \/ stage[c] = "open" /\ asked[c].op \in RecipeOps
  \/ AllLooked(c) /\ Missing(c) = {} /\ asked[c].op = "mcp_update"

Editable(c) ==
  LET q == asked[c] IN
  /\ recipe[q.recipe].household = q.household
  /\ q.op \in RecipeOps \ {"archive_recipe"} => ~recipe[q.recipe].archived

\* Lines are replaced in drafts only, and only drafts are published.
AsDraft(q) == q.op \in {"lines", "publish"} => q.version \in recipe[q.recipe].drafts

LockRecipe(c) ==
  LET r == asked[c].recipe IN
  /\ AsksForLock(c)
  /\ recipe_lock[r] = Nobody
  /\ IF Editable(c) /\ AsDraft(asked[c])
     THEN /\ recipe_lock' = [recipe_lock EXCEPT ![r] = c]
          /\ Goto(c, "locked")
          /\ UNCHANGED <<asked, resolved, inserted>>
     ELSE Rollback(c)

ValidatedUnit(h, line) == line.id \in Available(h)
Validated(h, line) == line.id \in Available(h) /\ ingredient[line.id].dimension = line.dimension

ValidateLines(c) ==
  LET q == asked[c] IN
  /\ stage[c] = "locked" /\ q.op \in {"lines", "revise"}
  /\ IF \A k \in DOMAIN q.lines : Validated(q.household, q.lines[k])
     THEN /\ resolved' = [resolved EXCEPT ![c] = [k \in DOMAIN q.lines |-> q.lines[k].id]]
          /\ Goto(c, "validated")
          /\ UNCHANGED <<asked, inserted, recipe_lock>>
     ELSE Rollback(c)

\* The row of a recipe after a version of it was added or edited, and published.
WithVersion(row, version, published) ==
  [row EXCEPT !.versions = IF version > @ THEN version ELSE @,
              !.drafts = IF published THEN @ \ {version} ELSE @ \cup {version}]

\* revise_recipe edits the latest version if it is a draft, and adds one if not.
Revised(row) == IF row.versions \in row.drafts THEN row.versions ELSE row.versions + 1

Lines(c, r, version) ==
  {[recipe |-> r, version |-> version,
    ingredient |-> resolved[c][k], dimension |-> asked[c].lines[k].dimension] :
     k \in DOMAIN resolved[c]}

LinesOf(r, version) ==
  {line \in recipe_version_ingredient : line.recipe = r /\ line.version = version}

\* The commit of a version's lines, in place of those it had, with the
\* ingredients made for them.
CommitLines(c, r, version) ==
  /\ recipe_version_ingredient' =
       (recipe_version_ingredient \ LinesOf(r, version)) \cup Lines(c, r, version)
  /\ Write([i \in IngredientId |->
              IF \E row \in inserted[c] : row.id = i
              THEN LET row == CHOOSE row \in inserted[c] : row.id = i
                   IN NewIngredient(asked[c].household, row.name, row.dimension)
              ELSE ingredient[i]])
  /\ Ended(c)

CreateRecipe(c) ==
  LET q == asked[c]
      unused == {r \in RecipeId : recipe[r] = NoRecipe}
  IN
  /\ AllLooked(c) /\ Missing(c) = {} /\ q.op = "mcp_create"
  /\ IF unused = {}    \* the bound on recipes
     THEN Rollback(c)
     ELSE /\ recipe' = [recipe EXCEPT ![Min(unused)] =
                          WithVersion([NoRecipe EXCEPT !.household = q.household, !.name = q.name,
                                                       !.archived = FALSE], 1, q.publish)]
          /\ CommitLines(c, Min(unused), 1)

ReplaceLines(c) ==
  LET q == asked[c]
      row == recipe[q.recipe]
      version == IF q.op = "lines" THEN q.version ELSE Revised(row)
  IN
  /\ \/ stage[c] = "locked" /\ q.op = "mcp_update"
     \/ stage[c] = "validated"
  /\ version <= MaxVersions
  /\ recipe' = [recipe EXCEPT ![q.recipe] = WithVersion(row, version, q.op # "lines" /\ q.publish)]
  /\ CommitLines(c, q.recipe, version)

\* create_version and publish_version leave the lines alone.
ChangeVersions(c) ==
  LET q == asked[c]
      row == recipe[q.recipe]
  IN
  /\ stage[c] = "locked"
  /\ \/ /\ q.op = "version" /\ row.versions < MaxVersions
        /\ recipe' = [recipe EXCEPT ![q.recipe] = WithVersion(row, row.versions + 1, FALSE)]
     \/ /\ q.op = "publish"
        /\ recipe' = [recipe EXCEPT ![q.recipe] = WithVersion(row, q.version, TRUE)]
  /\ Ended(c)
  /\ UNCHANGED <<ingredient, recipe_version_ingredient, stayed>>

ArchiveRecipe(c) ==
  /\ stage[c] = "locked" /\ asked[c].op = "archive_recipe"
  /\ recipe' = [recipe EXCEPT ![asked[c].recipe].archived = TRUE]
  /\ Ended(c)
  /\ UNCHANGED <<ingredient, recipe_version_ingredient, stayed>>

\* A connection is lost, or the transaction is the victim of a deadlock.
Abort(c) == stage[c] \notin {"idle", "open", "told"} /\ Rollback(c)

CatalogStep(c) ==
  \/ ListPage(c) \/ TellListing(c)
  \/ CreateIngredient(c) \/ RefuseCreation(c)
  \/ LoadIngredient(c) \/ UpdateIngredient(c) \/ ArchiveIngredient(c)
  \/ LookAtRecipe(c) \/ ResolveLine(c) \/ CreateMissing(c) \/ RefuseMissing(c)
  \/ LockRecipe(c) \/ ValidateLines(c) \/ CreateRecipe(c) \/ ReplaceLines(c)
  \/ ChangeVersions(c) \/ ArchiveRecipe(c)

CatalogNext == \E c \in Worker : CatalogStep(c) \/ Abort(c) \/ \E q \in CatalogRequest : Receive(c, q)

CatalogSpec == CatalogInit /\ [][CatalogNext]_catalog_vars
-----------------------------------------------------------------------------
\* list_ingredients: what was there all the time, unchanged, is listed once,
\* whatever is created, renamed or archived between two pages, and although a
\* household and the global catalog have ingredients of one name.
ListedOnce ==
  \A c \in Worker : stage[c] = "told" => \A i \in stayed[c] : listed[c][i] = 1

\* create_recipe and update_recipe: what they insert for a recipe that is
\* refused, lost or loses a deadlock is never seen.  An ingredient appears when
\* its creation was asked for, or together with a line for it; and the line is
\* deleted only as long as its version is a draft.
CreatedForALine ==
  [][/\ \A i \in IngredientId : ingredient[i] = NoIngredient /\ ingredient'[i] # NoIngredient =>
          \/ \E c \in Worker : asked[c].op = "create" /\ asked'[c] = NoRequest
          \/ \E line \in recipe_version_ingredient' : line.ingredient = i
     /\ \A line \in recipe_version_ingredient \ recipe_version_ingredient' :
          line.version \in recipe[line.recipe].drafts]_catalog_vars

\* Every line names an ingredient of its household, or a global one, in a unit
\* of that ingredient's dimension, whichever way the line was written.
LinesFitTheirIngredient ==
  \A line \in recipe_version_ingredient :
    LET row == ingredient[line.ingredient] IN
    /\ row.household \in {recipe[line.recipe].household, Global}
    /\ row.dimension = line.dimension
=============================================================================
