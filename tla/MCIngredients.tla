--------------------------- MODULE MCIngredients ---------------------------
(***************************************************************************)
(* Two workers serve a household whose catalog has a leek of its own       *)
(* beside the global one; a neighbour has an ingredient too.               *)
(***************************************************************************)
EXTENDS Ingredients, TLC

CONSTANTS c1, c2, home, neighbour, mass, count

Leek == 1
Pea == 2
Yam == 3
Fig == 4

Existing(h, name) == NewIngredient(h, name, mass)
MCInitial == <<Existing(Global, Leek), Existing(home, Leek), Existing(neighbour, Pea)>>

List(all) == [op |-> "list", household |-> home, include_global |-> all]
Create(name) == [op |-> "create", household |-> home, name |-> name, dimension |-> mass]
Update(i, name) == [op |-> "update", household |-> home, id |-> i, name |-> name]
ArchiveOf(i) == [op |-> "archive", household |-> home, id |-> i]
ById(i) == [id |-> i, name |-> Omitted, dimension |-> mass]
ByName(name, dimension) == [id |-> Omitted, name |-> name, dimension |-> dimension]
Tool(name, lines, publish) ==
  [op |-> "mcp_create", household |-> home, name |-> name, lines |-> lines, publish |-> publish]
Revision(op, lines) ==
  [op |-> op, household |-> home, recipe |-> 1, lines |-> lines, publish |-> TRUE]
Put(line) == [op |-> "lines", household |-> home, recipe |-> 1, version |-> 1, lines |-> <<line>>]

\* Lines that name what is missing in both orders, twice and in two
\* dimensions, and what another request renames, archives or creates.  Drafts
\* lose such lines again.
MCRequest ==
  { List(TRUE), List(FALSE), Create(Yam), Update(2, Yam), ArchiveOf(2),
    Tool(1, <<ByName(Yam, mass), ByName(Fig, mass)>>, FALSE),
    Tool(2, <<ByName(Yam, mass), ByName(Yam, count)>>, TRUE),
    Revision("mcp_update", <<ByName(Fig, mass), ByName(Leek, mass), ByName(Yam, mass),
                             ByName(Fig, mass)>>),
    Revision("revise", <<[ById(1) EXCEPT !.dimension = count]>>),
    Put(ById(2)), Put(ById(3)),
    [op |-> "version", household |-> home, recipe |-> 1],
    [op |-> "publish", household |-> home, recipe |-> 1, version |-> 1],
    [op |-> "archive_recipe", household |-> home, recipe |-> 1] }

WorkerSymmetry == Permutations(Worker)
=============================================================================
