------------------------------ MODULE Identity ------------------------------
(***************************************************************************)
(* How a request comes to act for a member: the access token and its       *)
(* signing key (SigningKeys), provision_user of identity_service.py, the   *)
(* dependencies of the routes (api/dependencies.py), and the tokens of     *)
(* agents (mcp/tokens.py, mcp/auth.py, mcp/runtime.py).                    *)
(*                                                                         *)
(* Whatever a request does in the end is "act", but for the creation and   *)
(* the revocation of an agent's token.  The signature, issuer, scopes and  *)
(* expiry of an access token are the library's business: tokens are valid  *)
(* for one subject if their key is found.  Users are disabled and          *)
(* memberships begin and end beside the requests.                          *)
(***************************************************************************)
EXTENDS SigningKeys

CONSTANTS
  UserId,    \* identifiers of app_user rows
  Subject,   \* subjects of the provider
  TokenId,   \* identifiers of mcp_token rows
  Request,   \* what clients send
  NoUser, NoSubject

Of(ops) == [op : ops, subject : Subject, kid : Kid]

ASSUME IdentityAssumption ==
  /\ UserId \cup TokenId \subseteq Nat
  /\ NoSubject \notin Subject
  /\ Request \subseteq
       [op : {"ready"}, kid : {NoKid}] \cup [op : {"mcp_act"}, kid : {NoKid}, token : TokenId]
       \cup Of({"act", "create_token"})
       \cup [op : {"revoke_token"}, subject : Subject, kid : Kid, token : TokenId]

VARIABLES
  app_user,          \* status of each user
  user_identity,     \* the subject whose identity the user has
  identity_lock,     \* holders of the row locks of identities
  household_member,  \* status of each user's membership in the household
  mcp_token,         \* owner and status of each token
  request,
  user,              \* the user a request has found or created
  inserted,          \* app_user rows the open transactions have inserted
  revoked,           \* history: tokens that were revoked
  entitled           \* history: what was in order at some time of the request

tables == <<app_user, user_identity, household_member, mcp_token>>
session == <<identity_lock, user, inserted>>
vars == <<keyVars, tables, session, request, revoked, entitled>>

NoRequest == [op |-> "none"]
NoToken == [owner |-> NoUser, status |-> "absent"]

Init ==
  /\ KeysInit
  /\ app_user = [u \in UserId |-> "absent"]
  /\ user_identity = [u \in UserId |-> NoSubject]
  /\ identity_lock = [u \in UserId |-> NoCall]
  /\ household_member = [u \in UserId |-> "none"]
  /\ mcp_token = [t \in TokenId |-> NoToken]
  /\ request = [c \in Call |-> NoRequest]
  /\ user = [c \in Call |-> NoUser]
  /\ inserted = [c \in Call |-> NoUser]
  /\ revoked = {}
  /\ entitled = [c \in Call |-> {}]
-----------------------------------------------------------------------------
\* A readiness probe, an agent's call with its token, or a request with an
\* access token.
Receive(c, q) ==
  /\ pc[c] = "idle"
  /\ q.op = "mcp_act" => mcp_token[q.token] # NoToken
  /\ pc' = [pc EXCEPT ![c] = CASE q.op = "ready" -> "refresh"
                               [] q.op = "mcp_act" -> "bearer"
                               [] OTHER -> "key"]
  /\ request' = [request EXCEPT ![c] = q]
  /\ kid' = [kid EXCEPT ![c] = q.kid]
  /\ UNCHANGED <<cache, idp, tables, session>>

\* On to the next statement; the key has done its work.
Goto(c, next) ==
  /\ pc' = [pc EXCEPT ![c] = next]
  /\ kid' = [kid EXCEPT ![c] = NoKid]
  /\ UNCHANGED <<cache, idp, tables, request>>

Unlocked(c) == [u \in UserId |-> IF identity_lock[u] = c THEN NoCall ELSE identity_lock[u]]

\* The session is closed: after its answer, or when the connection is lost.
Closes(c) ==
  /\ identity_lock' = Unlocked(c)
  /\ inserted' = [inserted EXCEPT ![c] = NoUser]
  /\ user' = [user EXCEPT ![c] = NoUser]

End(c) ==
  /\ request' = [request EXCEPT ![c] = NoRequest]
  /\ kid' = [kid EXCEPT ![c] = NoKid]
  /\ pc' = [pc EXCEPT ![c] = "idle"]
  /\ Closes(c)
  /\ UNCHANGED <<cache, idp, tables>>

Respond(c) == pc[c] \in {"unknown", "ended", "acted"} /\ End(c)

Crash(c) == pc[c] \in {"known", "inserted", "again", "member"} /\ End(c)
-----------------------------------------------------------------------------
(***************************************************************************)
(* provision_user: the identity is locked if there is one.  Else a user is *)
(* inserted, and the identity with the commit, which the unique index may  *)
(* refuse: then all is undone and done again.                              *)
(***************************************************************************)
Owners(c) == {u \in UserId : user_identity[u] = request[c].subject}

FindIdentity(c) ==
  /\ pc[c] \in {"signed", "again"}
  /\ \E u \in Owners(c) :
       /\ identity_lock[u] \in {NoCall, c}
       /\ identity_lock' = [identity_lock EXCEPT ![u] = c]
       /\ user' = [user EXCEPT ![c] = u]
       /\ Goto(c, IF app_user[u] = "disabled" THEN "ended" ELSE "known")
  /\ UNCHANGED inserted

\* The profile is data.  What is written leaves the status alone.
UpdateUser(c) ==
  /\ pc[c] = "known"
  /\ identity_lock' = Unlocked(c)
  /\ Goto(c, "provisioned")
  /\ UNCHANGED <<user, inserted>>

\* The row that is inserted next; the bound on rows is the end of them.
Unused(free) == {n \in free : \A m \in free : n <= m}

FreeUsers == {u \in UserId : app_user[u] = "absent" /\ \A d \in Call : inserted[d] # u}

InsertUser(c) ==
  /\ pc[c] = "signed"
  /\ Owners(c) = {}
  /\ \E u \in Unused(FreeUsers) : inserted' = [inserted EXCEPT ![c] = u]
  /\ Goto(c, "inserted")
  /\ UNCHANGED <<identity_lock, user>>

InsertedUser(c) ==
  /\ pc[c] = "inserted"
  /\ app_user' = [app_user EXCEPT ![inserted[c]] = "active"]

\* uq_user_identity_issuer_subject
Taken(c) == Owners(c) # {}

Retry(c) ==
  /\ pc[c] = "inserted" /\ Taken(c)
  /\ inserted' = [inserted EXCEPT ![c] = NoUser]
  /\ Goto(c, "again")
  /\ UNCHANGED <<identity_lock, user>>

CommitUser(c) ==
  /\ InsertedUser(c) /\ ~Taken(c)
  /\ user_identity' = [user_identity EXCEPT ![inserted[c]] = request[c].subject]
  /\ user' = [user EXCEPT ![c] = inserted[c]]
  /\ inserted' = [inserted EXCEPT ![c] = NoUser]
  /\ pc' = [pc EXCEPT ![c] = "provisioned"]
  /\ UNCHANGED <<cache, idp, kid, household_member, mcp_token, request, identity_lock>>

Provision(c) ==
  FindIdentity(c) \/ UpdateUser(c) \/ InsertUser(c) \/ Retry(c) \/ CommitUser(c)

\* get_current_principal reads the refreshed row, then the dependency reads
\* the membership.
CheckUser(c) ==
  /\ pc[c] = "provisioned"
  /\ Goto(c, IF app_user[user[c]] = "active" THEN "current" ELSE "ended")
  /\ UNCHANGED session

CheckMembership(c) ==
  /\ pc[c] = "current"
  /\ Goto(c, IF household_member[user[c]] = "active" THEN "member" ELSE "ended")
  /\ UNCHANGED session

-----------------------------------------------------------------------------
(***************************************************************************)
(* resolve_token in the middleware's session: token, user and membership   *)
(* are read one after another, and last_used_at may be written.  Then the  *)
(* membership is read again in the tool's session.                         *)
(***************************************************************************)
ResolveToken(c) ==
  LET token == mcp_token[request[c].token] IN
  /\ pc[c] = "bearer"
  /\ user' = [user EXCEPT ![c] = token.owner]
  /\ Goto(c, IF token.status = "valid" THEN "token" ELSE "ended")
  /\ UNCHANGED <<identity_lock, inserted>>

ResolveUser(c) ==
  /\ pc[c] = "token"
  /\ Goto(c, IF app_user[user[c]] = "active" THEN "owner" ELSE "ended")
  /\ UNCHANGED session

TouchEntirely(c) ==
  /\ pc[c] = "owner" /\ household_member[user[c]] = "active"
  /\ mcp_token' = [mcp_token EXCEPT ![request[c].token].status = "valid"]
  /\ pc' = [pc EXCEPT ![c] = "principal"]
  /\ UNCHANGED <<cache, idp, kid, app_user, user_identity, household_member, request, session>>

\* The UPDATE that may follow names last_used_at only, which is left out.
ResolveMembership(c) ==
  /\ pc[c] = "owner"
  /\ Goto(c, IF household_member[user[c]] = "active" THEN "principal" ELSE "ended")
  /\ UNCHANGED session

LoadMembership(c) ==
  /\ pc[c] = "principal"
  /\ Goto(c, IF household_member[user[c]] = "active" THEN "member" ELSE "ended")
  /\ UNCHANGED session

Resolve(c) ==
  ResolveToken(c) \/ ResolveUser(c) \/ ResolveMembership(c) \/ LoadMembership(c)

(***************************************************************************)
(* What the request is for.  A token is looked up before it is revoked.    *)
(***************************************************************************)
Act(c) == pc[c] = "member" /\ request[c].op \in {"act", "mcp_act"} /\ Goto(c, "acted") /\ UNCHANGED session

SetTokens(c, rows) ==
  /\ mcp_token' = rows
  /\ pc' = [pc EXCEPT ![c] = "acted"]
  /\ UNCHANGED <<cache, idp, kid, app_user, user_identity, household_member, request, session>>

CreateToken(c) ==
  /\ pc[c] = "member" /\ request[c].op = "create_token"
  /\ \E t \in Unused({t \in TokenId : mcp_token[t] = NoToken}) :
       SetTokens(c, [mcp_token EXCEPT ![t] = [owner |-> user[c], status |-> "valid"]])

FindToken(c) ==
  /\ pc[c] = "member" /\ request[c].op = "revoke_token"
  /\ Goto(c, IF mcp_token[request[c].token] = [owner |-> user[c], status |-> "valid"]
             THEN "found" ELSE "ended")
  /\ UNCHANGED session

RevokeToken(c) ==
  /\ pc[c] = "found"
  /\ SetTokens(c, [mcp_token EXCEPT ![request[c].token].status = "revoked"])

Serve(c) == Act(c) \/ CreateToken(c) \/ FindToken(c) \/ RevokeToken(c)
-----------------------------------------------------------------------------
(***************************************************************************)
(* Beside the requests: an operator disables a user, and memberships begin *)
(* and end.                                                                *)
(***************************************************************************)
Disable(u) ==
  /\ app_user[u] = "active"
  /\ app_user' = [app_user EXCEPT ![u] = "disabled"]
  /\ UNCHANGED <<user_identity, household_member, mcp_token>>

Join(u) ==
  /\ user_identity[u] # NoSubject /\ household_member[u] = "none"
  /\ household_member' = [household_member EXCEPT ![u] = "active"]
  /\ UNCHANGED <<app_user, user_identity, mcp_token>>

Leave(u) ==
  /\ household_member[u] = "active"
  /\ household_member' = [household_member EXCEPT ![u] = "revoked"]
  /\ UNCHANGED <<app_user, user_identity, mcp_token>>

World ==
  \/ KeyWorld /\ UNCHANGED <<tables, request, session>>
  \/ /\ \E u \in UserId : Disable(u) \/ Join(u) \/ Leave(u)
     /\ UNCHANGED <<cache, idp, pc, kid, request, session>>

\* What is in order for a request: its token, its user, the membership.
Users(c) ==
  CASE request[c].op = "mcp_act" -> {mcp_token[request[c].token].owner}
    [] request[c].op \in {"act", "create_token", "revoke_token"} -> Owners(c)
    [] OTHER -> {}

InOrder(c) ==
  {"token" : t \in IF request[c].op # "mcp_act" THEN {0}
                   ELSE {request[c].token} \ revoked}
  \cup {"user" : u \in {u \in Users(c) : app_user[u] = "active"}}
  \cup {"member" : u \in {u \in Users(c) : household_member[u] = "active"}}

History ==
  /\ KeyHistory
  /\ revoked' = revoked \cup {t \in TokenId : mcp_token'[t].status = "revoked"}
  /\ entitled' = [c \in Call |-> IF pc'[c] = "idle" THEN {} ELSE entitled[c] \cup InOrder(c)']

Step(c) ==
  \/ KeyStep(c) /\ UNCHANGED <<tables, request, session>>
  \/ Provision(c) \/ CheckUser(c) \/ CheckMembership(c) \/ Resolve(c) \/ Serve(c) \/ Respond(c) \/ Crash(c)
  \/ \E q \in Request : Receive(c, q)

Next == (World \/ \E c \in Call : Step(c)) /\ History

Spec == Init /\ [][Next]_vars
-----------------------------------------------------------------------------
\* A request acts only if its token was valid, its user active and their
\* membership active at some time since it arrived: what was revoked, disabled
\* or ended before stays so, whatever else is written to these rows.
EntitledToAct == \A c \in Call : pc[c] = "acted" => entitled[c] = {"token", "user", "member"}
=============================================================================
