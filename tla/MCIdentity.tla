----------------------------- MODULE MCIdentity -----------------------------
(***************************************************************************)
(* Two tasks serve Ana, whose first two requests may come at once, and her *)
(* agent.  Over HTTP she creates and revokes its token.                    *)
(***************************************************************************)
EXTENDS Identity, TLC

CONSTANTS c1, c2, ana, old, new

OfAna(op, k) == [op |-> op, subject |-> ana, kid |-> k]

MCRequest ==
  { [op |-> "ready", kid |-> NoKid], [op |-> "mcp_act", kid |-> NoKid, token |-> 1],
    OfAna("create_token", new), [op |-> "revoke_token", subject |-> ana, kid |-> old, token |-> 1] }

CallSymmetry == Permutations(Call)
=============================================================================
