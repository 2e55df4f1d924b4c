---------------------------- MODULE MCHousehold ----------------------------
(***************************************************************************)
(* Ana owns the household; Ben is an administrator or not there yet.       *)
(***************************************************************************)
EXTENDS Household, TLC

CONSTANTS c1, c2, ana, ben, home

Couple == ana :> "owner" @@ ben :> "admin"
Alone == ana :> "owner" @@ ben :> "none"
Nobody == ana :> "none" @@ ben :> "none"

MCStart == {[roster |-> Couple, directory |-> FALSE], [roster |-> Alone, directory |-> TRUE],
            [roster |-> Alone, directory |-> FALSE], [roster |-> Nobody, directory |-> FALSE]}

Create(u, name) == [op |-> "create", actor |-> u, name |-> name]
Settings(u, name, v) == [op |-> "settings", actor |-> u, name |-> name, expected |-> v]
ChangeRole(u, target, role, v) ==
  [op |-> "role", actor |-> u, target |-> target, role |-> role, expected |-> v]
Remove(u, target, v) == [op |-> "remove", actor |-> u, target |-> target, expected |-> v]
Invite(u, email, role) == [op |-> "invite", actor |-> u, email |-> email, role |-> role]
Revoke(u, i) == [op |-> "revoke", actor |-> u, invitation |-> i]
Accept(u, i, token) == [op |-> "accept", actor |-> u, invitation |-> i, token |-> token]

\* Ben comes and goes: roles and two invitations.
CoupleRequest ==
  { ChangeRole(ana, ben, "member", 1), Remove(ana, ben, 0), Remove(ben, ana, 0),
    Invite(ana, ben, "member"), Accept(ben, 1, 0), Accept(ben, 2, 1) }

\* Ben is invited again while his invitation is revoked, and he accepts it.
RevokingRequest ==
  { Remove(ana, ben, 0), Invite(ana, ben, "member"), Revoke(ana, 1),
    Accept(ben, 1, 0), Accept(ben, 1, 1) }

\* One person is invited again and again, through the directory.
DirectoryRequest ==
  { Invite(ana, ben, "member"), Invite(ana, ben, "admin"), Revoke(ana, 1),
    Accept(ben, 1, 0), Accept(ben, 1, 1), Accept(ben, 1, 2) }

\* Ana founds the household, Ben joins and both manage it.
FoundingRequest ==
  { Create(ana, home), Settings(ana, home, 1), Settings(ben, home, 0),
    Invite(ana, ben, "admin"), Accept(ben, 1, 1), ChangeRole(ana, ben, "member", 0) }

MCRequest == CoupleRequest \cup RevokingRequest \cup DirectoryRequest \cup FoundingRequest

\* What a behaviour is about, and the version and the invitations it stops at.
VARIABLE story

Story ==
  [couple |-> [starts |-> Couple, request |-> CoupleRequest, version |-> 2, invitations |-> 2],
   revoking |-> [starts |-> Alone, request |-> RevokingRequest, version |-> 3, invitations |-> 1],
   directory |-> [starts |-> Alone, request |-> DirectoryRequest, version |-> 3, invitations |-> 1],
   founding |-> [starts |-> Nobody, request |-> FoundingRequest, version |-> 2, invitations |-> 1]]

Within(q) ==
  LET s == Story[story] IN
  /\ q \in s.request
  /\ household.version <= s.version
  /\ \A u \in User : member[u].version <= s.version
  /\ \A i \in InvitationId : invitation[i].version <= s.version

MCInit ==
  /\ Init
  /\ story \in DOMAIN Story
  /\ began = {u \in User : Story[story].starts[u] # "none"}
  /\ directory = (story = "directory")
  /\ ~directory => account = {}

MCNext ==
  /\ \/ \E c \in Call, q \in Request : Within(q) /\ Receive(c, q)
     \/ \E c \in Call : Serve(c) \/ Crash(c)
     \/ \E i \in InvitationId : PassExpiry(i)
  /\ \A i \in InvitationId : i > Story[story].invitations => invitation'[i] = NoInvitation
  /\ UNCHANGED story

MCSpec == MCInit /\ [][MCNext]_<<vars, story>>

CallSymmetry == Permutations(Call)
=============================================================================
