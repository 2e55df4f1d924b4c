-------------------------- MODULE MCHouseholdMemory --------------------------
(***************************************************************************)
(* Two workers keep two diners and a memory of one household.              *)
(***************************************************************************)
EXTENDS HouseholdMemory, TLC

CONSTANTS c1, c2, u1, k1, k2

CreateDiner(name, link, key) ==
  [op |-> "create_diner", changes |-> [name |-> name, link |-> link], key |-> key, mcp |-> FALSE]
CreateMemory(content, diner, key) ==
  [op |-> "create_memory", changes |-> [content |-> content, diner |-> diner], key |-> key,
   mcp |-> FALSE]
Remember(content, name, key) ==
  [op |-> "remember", changes |-> [content |-> content, diner |-> Household],
   diner_name |-> name, key |-> key, mcp |-> TRUE]
Update(op, id, version, changes, mcp) ==
  [op |-> op, id |-> id, expected_version |-> version, changes |-> changes, key |-> NoKey,
   mcp |-> mcp]
Archive(op, id) == [op |-> op, id |-> id, key |-> NoKey, mcp |-> FALSE]
Profile == [op |-> "profile", key |-> NoKey, mcp |-> FALSE]

Version == 1..MaxVersion - 1

\* Two diners want one name and one account.  A key is used for a creation, its
\* retry, and another creation.
MCRequest ==
  { CreateDiner("ana", u1, k1), CreateDiner("luis", NoUser, NoKey),
    CreateMemory("no nuts", 1, k2), CreateMemory("no milk", Household, k2),
    Remember("no nuts", "ana", k2),
    Update("update_diner", 1, 0, [link |-> u1], TRUE),
    Update("update_memory", 1, 1, [content |-> "no milk"], TRUE),
    Archive("archive_diner", 1), Archive("archive_memory", 1), Profile } \cup
  UNION {{ Update("update_diner", 2, v, [name |-> "ana", link |-> u1], FALSE),
           Update("update_memory", 1, v, [diner |-> 2], FALSE) } : v \in Version}

CallSymmetry == Permutations(Call)
=============================================================================
