----------------------------- MODULE MCRecipes -----------------------------
(***************************************************************************)
(* Two workers edit, publish and archive a soup.                           *)
(***************************************************************************)
EXTENDS Recipes, TLC

CONSTANTS c1, c2, ana, soup, stew, leek, pea

Create(op, name, publish) ==
  [op |-> op, name |-> name, servings |-> 2, lines |-> leek, publish |-> publish]
Rename(r, name) == [op |-> "rename", recipe |-> r, name |-> name]
NewVersion(r, servings) == [op |-> "version", recipe |-> r, servings |-> servings]
PutLines(r, v, lines) == [op |-> "lines", recipe |-> r, version |-> v, lines |-> lines]
Revise(r, servings, lines, publish) ==
  [op |-> "revise", recipe |-> r, servings |-> servings, lines |-> lines, publish |-> publish]
McpUpdate(r, name, servings, lines, publish) ==
  [op |-> "mcp_update", recipe |-> r, name |-> name, servings |-> servings, lines |-> lines,
   publish |-> publish]
OnVersion(op, r, v) == [op |-> op, recipe |-> r, version |-> v]
OnRecipe(op, r) == [op |-> op, recipe |-> r]
DeleteRuleRequest(r, v, id) == [op |-> "delete_rule", recipe |-> r, version |-> v, rule |-> id]
FavoriteRequest(op, u, r) == [op |-> op, user |-> u, recipe |-> r]

\* What the REST routes and the MCP tools do to the first recipe, with the
\* rules of its versions, a favorite and the planning of its first version.
MCRequest ==
  { Create("create", soup, FALSE), Create("mcp_create", soup, TRUE),
    Rename(1, stew), NewVersion(1, 3), PutLines(1, 2, pea),
    Revise(1, Omitted, pea, TRUE), McpUpdate(1, stew, Omitted, pea, TRUE),
    OnVersion("publish", 1, 1), OnVersion("publish", 1, 2),
    OnRecipe("archive", 1), OnRecipe("unarchive", 1), OnVersion("plan", 1, 1),
    OnVersion("add_rule", 1, 1), DeleteRuleRequest(1, 1, 1),
    FavoriteRequest("favorite", ana, 1), FavoriteRequest("unfavorite", ana, 1) }

CallSymmetry == Permutations(Call)
=============================================================================
