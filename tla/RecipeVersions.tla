--------------------------- MODULE RecipeVersions ---------------------------
(***************************************************************************)
(* The rules of recipes and their versions in recipe_service.py, as        *)
(* operators on one Recipe row and on its RecipeVersion rows in the order  *)
(* of their insertion.                                                     *)
(*                                                                         *)
(* The servings and the preparation time of a version are one value; so is *)
(* its list of ingredient lines.                                           *)
(***************************************************************************)
EXTENDS Integers, Sequences

CONSTANTS
  Empty,     \* the list without ingredient lines
  Omitted    \* a field that a request leaves out

NoRecipe == [name |-> Omitted, archived |-> TRUE]

CreateOps == {"create", "mcp_create"}
LockedOps == {"rename", "version", "lines", "revise", "publish", "archive", "unarchive",
              "mcp_update"}

Draft(number, servings, lines) ==
  [number |-> number, servings |-> servings, lines |-> lines, state |-> "draft"]

Given(value, current) == IF value = Omitted THEN current ELSE value

Latest(versions) ==
  CHOOSE i \in DOMAIN versions : \A j \in DOMAIN versions : versions[j].number <= versions[i].number

\* _publish: the version becomes the only published one.
PublishedBeside(versions, i) == [versions EXCEPT ![i].state = "published"]
Published(versions, i) ==
  [j \in DOMAIN versions |->
     CASE j = i -> [versions[j] EXCEPT !.state = "published"]
       [] j # i /\ versions[j].state = "published" -> [versions[j] EXCEPT !.state = "archived"]
       [] OTHER -> versions[j]]

WithVersion(versions, q) ==
  Append(versions, Draft(versions[Latest(versions)].number + 1, q.servings, Empty))

WithLines(versions, i, lines) == [versions EXCEPT ![i].lines = lines]

\* revise_recipe edits the latest version if it is a draft, else a copy of it.
EditedInPlace(versions) == versions
Editable(versions) ==
  LET latest == versions[Latest(versions)] IN
  IF latest.state = "draft" THEN versions
  ELSE Append(versions, [latest EXCEPT !.number = @ + 1, !.state = "draft"])

Revised(versions, q) ==
  LET base == Editable(versions)
      i == Latest(base)
      edited == [base EXCEPT ![i].servings = Given(q.servings, @), ![i].lines = Given(q.lines, @)]
  IN IF q.publish THEN Published(edited, i) ELSE edited

VersionsOfNew(q) ==
  CASE q.op = "create" -> <<Draft(1, q.servings, Empty)>>
    [] q.op = "mcp_create" ->
         LET draft == <<Draft(1, q.servings, q.lines)>> IN
         IF q.publish THEN Published(draft, 1) ELSE draft

HasContent(q) == q.servings # Omitted \/ q.lines # Omitted

\* The version a request names is a draft of its recipe.
IsDraft(versions, i) == i \in DOMAIN versions /\ versions[i].state = "draft"

Allowed(q, row, versions) ==
  /\ row # NoRecipe
  /\ q.op \notin {"archive", "unarchive"} => ~row.archived
  /\ q.op \in {"lines", "publish"} => IsDraft(versions, q.version)

NewVersions(q, versions) ==
  CASE q.op = "version" -> WithVersion(versions, q)
    [] q.op = "lines" -> WithLines(versions, q.version, q.lines)
    [] q.op = "publish" -> Published(versions, q.version)
    [] q.op = "revise" \/ (q.op = "mcp_update" /\ HasContent(q)) -> Revised(versions, q)
    [] OTHER -> versions

NewRow(q, row) ==
  CASE q.op = "archive" -> [row EXCEPT !.archived = TRUE]
    [] q.op = "unarchive" -> [row EXCEPT !.archived = FALSE]
    [] q.op \in {"rename", "mcp_update"} -> [row EXCEPT !.name = Given(q.name, @)]
    [] OTHER -> row
=============================================================================
