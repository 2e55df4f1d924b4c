--------------------------- MODULE AtomicRecipes ---------------------------
(***************************************************************************)
(* What recipe_service.py promises about recipes and their versions: each  *)
(* request takes effect in one indivisible step on a recipe and all its    *)
(* versions.  There are no locks and no transactions here, and a request   *)
(* may be refused at any moment.                                           *)
(***************************************************************************)
EXTENDS RecipeVersions

CONSTANTS
  RecipeId,
  Request    \* what the members send

VARIABLES
  recipe,          \* Recipe rows: name and whether archived_at is set
  recipe_version   \* RecipeVersion rows of each recipe, in order of insertion

Init ==
  /\ recipe = [r \in RecipeId |-> NoRecipe]
  /\ recipe_version = [r \in RecipeId |-> <<>>]

Create(q, r) ==
  /\ q.op \in CreateOps
  /\ recipe[r] = NoRecipe
  /\ recipe' = [recipe EXCEPT ![r] = [name |-> q.name, archived |-> FALSE]]
  /\ recipe_version' = [recipe_version EXCEPT ![r] = VersionsOfNew(q)]

Change(q) ==
  LET r == q.recipe IN
  /\ q.op \in LockedOps \ {"mcp_update"}
  /\ Allowed(q, recipe[r], recipe_version[r])
  /\ recipe' = [recipe EXCEPT ![r] = NewRow(q, @)]
  /\ recipe_version' = [recipe_version EXCEPT ![r] = NewVersions(q, @)]

\* The MCP tool that edits a recipe judges it by a row it has read before: it
\* promises no more than to keep within the versions as they are now.
McpChange(q) ==
  LET r == q.recipe IN
  /\ q.op = "mcp_update"
  /\ recipe[r] # NoRecipe
  /\ recipe' \in {recipe, [recipe EXCEPT ![r] = NewRow(q, @)]}
  /\ recipe_version' = [recipe_version EXCEPT ![r] = NewVersions(q, @)]

Next ==
  \E q \in Request : Change(q) \/ McpChange(q) \/ \E r \in RecipeId : Create(q, r)

Spec == Init /\ [][Next]_<<recipe, recipe_version>>
=============================================================================
