----------------------------- MODULE MCShopping -----------------------------
(***************************************************************************)
(* Two workers shop for rice and milk.                                     *)
(***************************************************************************)
EXTENDS Shopping, TLC

CONSTANTS c1, c2, rice, milk, k1

Create(key) == [op |-> "create", key |-> key, mcp |-> FALSE]
Purchase(l, v, p, n, key) ==
  [op |-> "purchase", list |-> l, expected_version |-> v, product |-> p, quantity |-> n,
   key |-> key, mcp |-> FALSE]
OnItem(op, l, v, p) ==
  [op |-> op, list |-> l, expected_version |-> v, product |-> p, key |-> NoKey,
   mcp |-> FALSE]
OnList(op, l, v, key) ==
  [op |-> op, list |-> l, expected_version |-> v, key |-> key, mcp |-> FALSE]

\* The tools name no version.
ToolPurchase(p, n) ==
  [op |-> "purchase", list |-> 1, product |-> p, quantity |-> n, key |-> NoKey, mcp |-> TRUE]
ToolComplete == [op |-> "complete", list |-> 1, key |-> NoKey, mcp |-> TRUE]

Version == 1..MaxVersion - 1

\* One list and the next one.  One key is used for the rice and for the milk.
MCRequest ==
  {Create(NoKey), Create(k1)} \cup
  UNION {{ Purchase(1, v, rice, 1, k1),
           OnItem("skip", 1, v, rice), OnItem("restore", 1, v, rice),
           OnList("complete", 1, v, k1), OnList("reopen", 1, v, NoKey),
           OnList("archive", 1, v, NoKey), Purchase(1, v, milk, 1, k1),
           OnItem("skip", 1, v, milk) } : v \in Version} \cup
  {ToolPurchase(rice, 2), ToolComplete}

CallSymmetry == Permutations(Call)
=============================================================================
