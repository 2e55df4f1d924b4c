----------------------------- MODULE MCMealPlan -----------------------------
(***************************************************************************)
(* A household of two for TLC.  The stew has to be thawed, the salad       *)
(* washed.                                                                 *)
(***************************************************************************)
EXTENDS MealPlan, TLC

CONSTANTS c1, c2, ana, ben, stew, salad, thaw, wash, k1

MCRulesOf == stew :> {thaw} @@ salad :> {wash}

Create(u, key) == [op |-> "create", actor |-> u, key |-> key, mcp |-> FALSE]
Add(u, p, v, r, slot, key) ==
  [op |-> "add_entry", actor |-> u, plan |-> p, expected_version |-> v, recipe |-> r,
   slot |-> slot, key |-> key, mcp |-> FALSE]
Update(u, v, e, r, slot) ==
  [op |-> "update_entry", actor |-> u, plan |-> 1, expected_version |-> v, entry |-> e,
   recipe |-> r, slot |-> slot, key |-> NoKey, mcp |-> FALSE]
Delete(u, v, e) ==
  [op |-> "delete_entry", actor |-> u, plan |-> 1, expected_version |-> v, entry |-> e,
   key |-> NoKey, mcp |-> FALSE]
Transition(op, u, v, note, key) ==
  [op |-> op, actor |-> u, plan |-> 1, expected_version |-> v, note |-> note, key |-> key,
   mcp |-> FALSE]
Resolve(op, u, v, t) ==
  [op |-> op, actor |-> u, task |-> t, expected_version |-> v, key |-> NoKey, mcp |-> FALSE]

\* The tools: they name no version.
ToolTransition(op, u) ==
  [op |-> op, actor |-> u, plan |-> 1, note |-> TRUE, key |-> NoKey, mcp |-> TRUE]
ToolAdd(u, r, slot) ==
  [op |-> "add_entry", actor |-> u, plan |-> 1, recipe |-> r, slot |-> slot, key |-> NoKey,
   mcp |-> TRUE]

AddTask(u, valid, key) ==
  [op |-> "create_task", actor |-> u, valid |-> valid, key |-> key, mcp |-> FALSE]

Version == 1..MaxVersion - 1

\* Two members propose, approve, reopen, archive and begin again.
MembersRequest ==
  {Create(ana, NoKey), Create(ben, k1)} \cup
  UNION {{ Transition("propose", ana, v, FALSE, k1),
           Transition("propose", ben, v, FALSE, NoKey),
           Transition("approve", ana, v, FALSE, NoKey),
           Transition("approve", ben, v, FALSE, NoKey),
           Transition("reopen", ben, v, TRUE, NoKey),
           Transition("reopen", ana, v, FALSE, NoKey),
           Transition("archive", ana, v, FALSE, NoKey) } : v \in 1..4}

\* One member approves, reopens, edits and approves again, and does the tasks.
TasksRequest ==
  {Create(ana, NoKey)} \cup
  UNION {{ Add(ana, 1, v, stew, 1, NoKey), Add(ana, 1, v, salad, 2, NoKey),
           Update(ana, v, 1, salad, 2), Delete(ana, v, 2),
           Transition("propose", ana, v, FALSE, NoKey),
           Transition("approve", ana, v, FALSE, NoKey),
           Transition("reopen", ana, v, TRUE, NoKey) } : v \in Version}
  \cup {Resolve("complete", ana, 1, <<1, thaw>>), Resolve("cancel", ana, 1, <<1, thaw>>),
        ToolTransition("approve", ana)}

\* Two members share the tasks they have added themselves.
ChoresRequest ==
  {AddTask(ana, TRUE, k1), AddTask(ben, TRUE, k1), AddTask(ana, FALSE, NoKey)} \cup
  UNION {{ Resolve("complete", ana, v, t), Resolve("cancel", ben, v, t) } :
         v \in {1, 2}, t \in ManualTask}

MCRequest == MembersRequest \cup TasksRequest \cup ChoresRequest

\* What a behaviour is about: the members, the tasks of one, or the chores of two.
VARIABLE story

StoryRequest(s) ==
  CASE s = "members" -> MembersRequest
    [] s = "tasks" -> TasksRequest
    [] s = "chores" -> ChoresRequest

MCInit ==
  /\ Init
  /\ story \in {"members", "tasks", "chores"}
  /\ story = "tasks" => active = {ana}

MCNext ==
  /\ \/ \E c \in Call : Step(c) \/ Crash(c) \/ \E q \in StoryRequest(story) : Receive(c, q)
     \/ story # "tasks" /\ \E u \in User : Join(u) \/ Leave(u)
     \/ story = "tasks" /\ Unpublish(salad)
     \/ Quiet
  /\ UNCHANGED story

MCSpec == MCInit /\ [][MCNext]_<<vars, story>>

\* A meal is added through the tool while the plan is proposed over HTTP.
MCToolRequest ==
  {Create(ana, NoKey), ToolAdd(ana, stew, 1)} \cup
  {Transition("propose", ana, v, FALSE, NoKey) : v \in Version}

MCToolSpec == Init /\ story = "tool" /\ [][Next /\ UNCHANGED story]_<<vars, story>>

CallSymmetry == Permutations(Call)
=============================================================================
