----------------------------- MODULE Household -----------------------------
(***************************************************************************)
(* A household, its members and its invitations: create_household,         *)
(* update_household, update_member_role and revoke_member of               *)
(* household_service.py,                                                   *)
(* create_invitation, revoke_invitation and accept_invitation of           *)
(* invitation_service.py, and the delivery that the API performs after an  *)
(* invitation was committed (api/invitations.py).                          *)
(*                                                                         *)
(* Each element of Call is a worker that serves one request after another. *)
(* Some handlers take row locks (SELECT ... FOR UPDATE) and decide under   *)
(* them; others load a row without a lock, decide, and wait for the row    *)
(* when they write it.  An UPDATE writes the columns that the handler      *)
(* changed and no others.                                                  *)
(*                                                                         *)
(* A person and the verified email of this person are one element of User. *)
(***************************************************************************)
EXTENDS Integers, FiniteSets

CONSTANTS
  Call,          \* workers
  User,          \* people, and their email addresses
  Start,         \* how it can begin: the roles of the members, "none" for others,
                 \* and whether the directory of the identity provider is configured
  Name,          \* settings a household can have
  InvitationId,  \* identifiers of household_invitation rows, a range 1..n
  Request,       \* what the people send
  Account,       \* who may have an account of the identity provider at first
  MaxVersion     \* bound on versions: no request is sent beyond it

Role == {"owner", "admin", "member"}

ASSUME StartAssumption ==
  \A s \in Start :
    /\ s.roster \in [User -> Role \cup {"none"}] /\ s.directory \in BOOLEAN
    /\ \/ \A u \in User : s.roster[u] = "none"
       \/ Cardinality({u \in User : s.roster[u] = "owner"}) = 1
ASSUME AccountAssumption == Account \subseteq User

InvitationOps == {"invite", "revoke"}
ManagerOps == {"settings", "role", "remove"} \cup InvitationOps

\* What the schemas of the API let through.
WellFormed(q) ==
  /\ q.op \in ManagerOps \cup {"create", "accept"}
  /\ q.actor \in User
  /\ q.op \in {"create", "settings"} => q.name \in Name
  /\ q.op \in {"role", "remove"} => q.target \in User
  /\ q.op = "invite" => q.email \in User
  /\ q.op \in {"role", "invite"} => q.role \in Role \ {"owner"}
  /\ q.op \in {"revoke", "accept"} => q.invitation \in InvitationId
ASSUME RequestAssumption == \A q \in Request : WellFormed(q)

VARIABLES
  household,            \* the Household row: its settings and version
  member,               \* HouseholdMember rows, by user
  invitation,           \* HouseholdInvitation rows
  email_outbox_entry,   \* EmailOutboxEntry rows, by invitation
  directory,            \* is the directory of the identity provider configured?
  account,              \* accounts of the identity provider
  holds,                \* the row locks of each worker's transaction
  pc, request,
  actor_role,           \* the role found when the actor was authorized
  seen,                 \* what the handler has loaded
  created,              \* history: accounts made by a delivery
  mailed,               \* history: the tokens and codes that were mailed
  began,                \* history: who founded it, or was a member at first
  acceptances, left     \* history: invitations accepted, by addressee; times revoked

rows == <<household, member, invitation, email_outbox_entry>>
provider == <<directory, account, created, mailed>>
worker == <<holds, pc, request, actor_role, seen>>
history == <<began, acceptances, left>>
vars == <<rows, provider, worker, history>>

NoInvitation == [email |-> "nobody", role |-> "none", status |-> "absent",
                 expired |-> FALSE, token |-> 0, version |-> 0]
NoRequest == [op |-> "none"]
NoHousehold == [name |-> "none", version |-> 0]
NoMember == [role |-> "none", status |-> "absent", version |-> 0]

MemberRow(u) == <<"member", u>>
InvitationRow(i) == <<"invitation", i>>
OutboxRow(i) == <<"outbox", i>>

Free(c, row) == \A d \in Call \ {c} : row \notin holds[d]

\* The end of a transaction releases its locks.
Released(c) == {}

Init ==
  /\ \E s \in Start :
       /\ directory = s.directory
       /\ began = {u \in User : s.roster[u] # "none"}
       /\ member = [u \in User |-> IF u \notin began THEN NoMember
                                   ELSE [role |-> s.roster[u], status |-> "active", version |-> 1]]
  /\ household \in IF began = {} THEN {NoHousehold} ELSE [name : Name, version : {1}]
  /\ invitation = [i \in InvitationId |-> NoInvitation]
  /\ email_outbox_entry = [i \in InvitationId |-> [status |-> "absent", zitadel_user |-> FALSE]]
  /\ account \in SUBSET Account
  /\ holds = [c \in Call |-> {}]
  /\ pc = [c \in Call |-> "idle"]
  /\ request = [c \in Call |-> NoRequest]
  /\ actor_role = [c \in Call |-> "none"]
  /\ seen = [c \in Call |-> {}]
  /\ created = {}
  /\ mailed = {}
  /\ acceptances = [u \in User |-> 0]
  /\ left = [u \in User |-> 0]
-----------------------------------------------------------------------------
(***************************************************************************)
(* A request is sent with a version the client has loaded, or with 0 when  *)
(* it names none.  require_household_membership authorizes the actor.  Any *)
(* user may create a household, this one or another that is not modelled.  *)
(***************************************************************************)
Active(u) == member[u].status = "active"

Bounded ==
  /\ household.version < MaxVersion
  /\ \A u \in User : member[u].version < MaxVersion
  /\ \A i \in InvitationId : invitation[i].version < MaxVersion

CanSend(q) ==
  /\ Bounded
  /\ q.op = "create" => household = NoHousehold /\ \A d \in Call : request[d].op # "create"
  /\ q.op \in ManagerOps => Active(q.actor) /\ member[q.actor].role \in {"owner", "admin"}
  /\ q.op = "settings" => q.expected <= household.version
  /\ q.op \in {"role", "remove"} => q.expected <= member[q.target].version
  /\ q.op \in {"revoke", "accept"} => invitation[q.invitation] # NoInvitation
  /\ q.op = "accept" => q.token <= invitation[q.invitation].token

Receive(c, q) ==
  /\ pc[c] = "idle"
  /\ CanSend(q)
  /\ pc' = [pc EXCEPT ![c] = "open"]
  /\ request' = [request EXCEPT ![c] = q]
  /\ actor_role' = [actor_role EXCEPT ![c] = member[q.actor].role]
  /\ UNCHANGED <<rows, provider, history, holds, seen>>

Goto(c, next, value, locks) ==
  /\ pc' = [pc EXCEPT ![c] = next]
  /\ seen' = [seen EXCEPT ![c] = value]
  /\ holds' = [holds EXCEPT ![c] = locks]
  /\ UNCHANGED <<request, actor_role>>

EndRequest(c) ==
  /\ pc' = [pc EXCEPT ![c] = "idle"]
  /\ request' = [request EXCEPT ![c] = NoRequest]
  /\ actor_role' = [actor_role EXCEPT ![c] = "none"]
  /\ seen' = [seen EXCEPT ![c] = {}]
  /\ holds' = [holds EXCEPT ![c] = Released(c)]

\* A DomainError, an exception or a lost connection: the transaction is undone.
Rollback(c) == EndRequest(c) /\ UNCHANGED <<rows, provider, history>>

MatchesVersion(expected, current) == expected \in {0, current}

\* The assignment of a value that the row was loaded with is not written.
Assigned(current, loaded, value) == IF value = loaded THEN current ELSE value

-----------------------------------------------------------------------------
(***************************************************************************)
(* create_household: household and owner appear together.                  *)
(***************************************************************************)
CreateHousehold(c) ==
  LET q == request[c] IN
  /\ pc[c] = "open" /\ q.op = "create"
  /\ household' = [name |-> q.name, version |-> 1]
  /\ member' = [member EXCEPT ![q.actor] =
                  [role |-> "owner", status |-> "active", version |-> 1]]
  /\ began' = began \cup {q.actor}
  /\ EndRequest(c)
  /\ UNCHANGED <<invitation, email_outbox_entry, provider, acceptances, left>>

(***************************************************************************)
(* update_household and update_member_role decide on an unlocked row.      *)
(***************************************************************************)
Loaded(q) ==
  CASE q.op = "settings" -> household
    [] q.op = "role" -> member[q.target]
    [] q.op = "revoke" -> invitation[q.invitation]

Load(c) ==
  /\ pc[c] = "open" /\ request[c].op \in {"settings", "role", "revoke"}
  /\ Goto(c, "loaded", Loaded(request[c]), {})
  /\ UNCHANGED <<rows, provider, history>>

UpdateHousehold(c) ==
  LET q == request[c]
      row == seen[c]
  IN
  /\ pc[c] = "loaded" /\ q.op = "settings"
  /\ MatchesVersion(q.expected, row.version)
  /\ household' = [name |-> Assigned(household.name, row.name, q.name),
                   version |-> row.version + 1]
  /\ EndRequest(c)
  /\ UNCHANGED <<member, invitation, email_outbox_entry, provider, history>>

can_assign_role(actor, target) ==
  \/ actor = "owner" /\ target \in {"admin", "member"}
  \/ actor = "admin" /\ target = "member"

can_remove_membership(actor, target) ==
  actor = "owner" \/ (actor = "admin" /\ target = "member")

Target(row) == row.status = "active" /\ row.role # "owner"

CanAssign(c) ==
  LET q == request[c]
      row == seen[c]
  IN
  /\ Target(row)
  /\ can_assign_role(actor_role[c], q.role)
  /\ MatchesVersion(q.expected, row.version)

\* status is not among the columns that the UPDATE names.
RoleChangedWholeRow(current, row, role) ==
  [row EXCEPT !.role = role, !.version = @ + 1]
RoleChanged(current, row, role) ==
  [current EXCEPT !.role = Assigned(@, row.role, role), !.version = row.version + 1]

UpdateMemberRole(c) ==
  LET q == request[c] IN
  /\ pc[c] = "loaded" /\ q.op = "role"
  /\ CanAssign(c)
  /\ Free(c, MemberRow(q.target))
  /\ member' = [member EXCEPT ![q.target] = RoleChanged(@, seen[c], q.role)]
  /\ EndRequest(c)
  /\ UNCHANGED <<household, invitation, email_outbox_entry, provider, history>>

(***************************************************************************)
(* revoke_member decides under the lock of the member.                     *)
(***************************************************************************)
Owners == {u \in User : Active(u) /\ member[u].role = "owner"}

CanRevoke(c) ==
  LET q == request[c]
      row == member[q.target]
  IN
  /\ row.status = "active"
  /\ can_remove_membership(actor_role[c], row.role)
  /\ MatchesVersion(q.expected, row.version)
  /\ row.role = "owner" => Cardinality(Owners) # 1

LockMember(c) ==
  LET u == request[c].target IN
  /\ pc[c] = "open" /\ request[c].op = "remove"
  /\ Free(c, MemberRow(u))
  /\ CanRevoke(c)
  /\ Goto(c, "locked", member[u], {MemberRow(u)})
  /\ UNCHANGED <<rows, provider, history>>

RevokeMember(c) ==
  LET u == request[c].target IN
  /\ pc[c] = "locked" /\ request[c].op = "remove"
  /\ member' = [member EXCEPT ![u].status = "revoked", ![u].version = seen[c].version + 1]
  /\ left' = [left EXCEPT ![u] = @ + 1]
  /\ EndRequest(c)
  /\ UNCHANGED <<household, invitation, email_outbox_entry, provider, began, acceptances>>

-----------------------------------------------------------------------------
(***************************************************************************)
(* create_invitation.  The statement that looks for a pending invitation   *)
(* sees the rows there were when it began, waits for those that are        *)
(* locked, and leaves out the ones that are pending no more.               *)
(***************************************************************************)
Pending(i) == invitation[i].status = "pending"
PendingFor(email) == {i \in InvitationId : Pending(i) /\ invitation[i].email = email}
Unused == {i \in InvitationId : invitation[i] = NoInvitation}

FindPending(c) ==
  LET q == request[c] IN
  /\ pc[c] = "open" /\ q.op = "invite"
  /\ ~Active(q.email)
  /\ Goto(c, "found", PendingFor(q.email), {})
  /\ UNCHANGED <<rows, provider, history>>

ResendableAlways(i) == TRUE
Resendable(i) == email_outbox_entry[i].status = "failed" \/ invitation[i].expired

Reached(c) ==
  /\ pc[c] = "found"
  /\ \A i \in seen[c] : Free(c, InvitationRow(i)) /\ Free(c, OutboxRow(i))

StillPending(c) == {i \in seen[c] : Pending(i)}

LockPending(c) ==
  /\ Reached(c)
  /\ IF StillPending(c) = {}
     THEN Goto(c, "insert", {}, {})
     ELSE \E i \in StillPending(c) :
            /\ Resendable(i)
            /\ Goto(c, "resend", i,
                    {InvitationRow(j) : j \in StillPending(c)} \cup {OutboxRow(i)})
  /\ UNCHANGED <<rows, provider, history>>

\* What the delivery of an invitation works with.
Intent(i, token, ours) == [id |-> i, token |-> token, ours |-> ours]

CreateInvitation(c) ==
  LET q == request[c] IN
  /\ pc[c] = "insert"
  /\ \E i \in Unused :
       /\ \A j \in Unused : i <= j
       /\ invitation' = [invitation EXCEPT ![i] =
            [email |-> q.email, role |-> q.role, status |-> "pending", expired |-> FALSE,
             token |-> 1, version |-> 1]]
       /\ email_outbox_entry' =
            [email_outbox_entry EXCEPT ![i] = [status |-> "suppressed", zitadel_user |-> FALSE]]
       /\ Goto(c, "deliver", Intent(i, 1, FALSE), {})
  /\ UNCHANGED <<household, member, provider, history>>

RequeuedAsIs(entry) == entry
Requeued(entry) == [entry EXCEPT !.status = "suppressed"]

ResendInvitation(c) ==
  LET q == request[c]
      i == seen[c]
      token == invitation[i].token + 1
  IN
  /\ pc[c] = "resend"
  /\ invitation' = [invitation EXCEPT ![i].role = q.role, ![i].expired = FALSE,
                                      ![i].token = token, ![i].version = @ + 1]
  /\ email_outbox_entry' = [email_outbox_entry EXCEPT ![i] = Requeued(@)]
  /\ Goto(c, "deliver", Intent(i, token, email_outbox_entry[i].zitadel_user), {})
  /\ UNCHANGED <<household, member, provider, history>>

-----------------------------------------------------------------------------
(***************************************************************************)
(* The delivery, after the commit: an email of the application's own, or   *)
(* an account and an invite code of the identity provider.  A call to the  *)
(* provider or the mail server can take effect although its answer is      *)
(* lost.  The marks are transactions of their own.                         *)
(***************************************************************************)
Delivering == {"deliver", "create", "note", "code", "existing", "mark_sent", "mark_failed"}
InDelivery(i) == {c \in Call : pc[c] \in Delivering /\ seen[c].id = i}
AddresseeOf(c) == invitation[seen[c].id].email
Letter(c) == <<seen[c].id, seen[c].token>>

Proceed(c, next) == Goto(c, next, seen[c], {})

\* delivered: the letter leaves; answered: the worker hears of it.
SendLetter(c, phase) ==
  /\ pc[c] = phase
  /\ \E delivered, answered \in BOOLEAN :
       /\ answered => delivered
       /\ mailed' = IF delivered THEN mailed \cup {Letter(c)} ELSE mailed
       /\ Proceed(c, IF answered THEN "mark_sent" ELSE "mark_failed")
  /\ UNCHANGED <<rows, history, directory, account, created>>

SendEmail(c) == ~directory /\ SendLetter(c, "deliver")
SendInviteCode(c) == SendLetter(c, "code")

OursAlways(c) == TRUE
Ours(c) == seen[c].ours

Found(c) == AddresseeOf(c) \in account
FindAccount(c) ==
  /\ directory /\ pc[c] = "deliver"
  /\ \/ ~Found(c) /\ Proceed(c, "create")
     \/ Found(c) /\ Proceed(c, IF Ours(c) THEN "code" ELSE "existing")
     \/ Proceed(c, "mark_failed")
  /\ UNCHANGED <<rows, provider, history>>

\* The provider refuses a second account for an email.
CreateAccount(c) ==
  /\ pc[c] = "create"
  /\ \/ /\ AddresseeOf(c) \notin account
        /\ account' = account \cup {AddresseeOf(c)}
        /\ created' = created \cup {AddresseeOf(c)}
        /\ \E answered \in BOOLEAN : Proceed(c, IF answered THEN "note" ELSE "mark_failed")
     \/ UNCHANGED <<account, created>> /\ Proceed(c, "mark_failed")
  /\ UNCHANGED <<rows, history, directory, mailed>>

NoteAccount(c) ==
  LET i == seen[c].id IN
  /\ pc[c] = "note"
  /\ Free(c, OutboxRow(i))
  /\ email_outbox_entry' = [email_outbox_entry EXCEPT ![i].zitadel_user = TRUE]
  /\ Proceed(c, "code")
  /\ UNCHANGED <<household, member, invitation, provider, history>>

Mark(c) ==
  LET i == seen[c].id IN
  /\ pc[c] \in {"mark_sent", "mark_failed"}
  /\ Free(c, OutboxRow(i))
  /\ email_outbox_entry' = [email_outbox_entry EXCEPT ![i].status =
                              IF pc[c] = "mark_sent" THEN "sent" ELSE "failed"]
  /\ EndRequest(c)
  /\ UNCHANGED <<household, member, invitation, provider, history>>

\* mark_suppressed assigns what the entry was loaded with.
MarkSuppressed(c) ==
  /\ pc[c] = "existing"
  /\ EndRequest(c)
  /\ UNCHANGED <<rows, provider, history>>

-----------------------------------------------------------------------------
(***************************************************************************)
(* revoke_invitation decides on an unlocked row.                           *)
(***************************************************************************)
RevokeInvitation(c) ==
  LET i == request[c].invitation IN
  /\ pc[c] = "loaded" /\ request[c].op = "revoke"
  /\ seen[c].status = "pending"
  /\ Free(c, InvitationRow(i))
  /\ invitation' = [invitation EXCEPT ![i].status = "revoked",
                                      ![i].version = seen[c].version + 1]
  /\ EndRequest(c)
  /\ UNCHANGED <<household, member, email_outbox_entry, provider, history>>

(***************************************************************************)
(* accept_invitation finds the row by its token, accept_invitation_by_id   *)
(* (token 0) by its identifier and email.  _accept_locked_invitation then  *)
(* locks the membership, if there is one.                                  *)
(***************************************************************************)
FoundFor(q) ==
  LET row == invitation[q.invitation] IN
  IF q.token = 0 THEN row.email = q.actor ELSE row.token = q.token

invitation_is_usable(row) == row.status = "pending" /\ ~row.expired

LockInvitation(c) ==
  LET q == request[c]
      i == q.invitation
  IN
  /\ pc[c] = "open" /\ q.op = "accept"
  /\ Free(c, InvitationRow(i))
  /\ FoundFor(q)
  /\ invitation_is_usable(invitation[i])
  /\ invitation[i].email = q.actor
  /\ Goto(c, "locked", {}, {InvitationRow(i)})
  /\ UNCHANGED <<rows, provider, history>>

ExpireInvitation(c) ==
  LET i == request[c].invitation IN
  /\ pc[c] = "open" /\ request[c].op = "accept"
  /\ Free(c, InvitationRow(i))
  /\ FoundFor(request[c])
  /\ Pending(i) /\ invitation[i].expired
  /\ invitation' = [invitation EXCEPT ![i].status = "expired"]
  /\ EndRequest(c)
  /\ UNCHANGED <<household, member, email_outbox_entry, provider, history>>

LockExisting(c) ==
  LET u == request[c].actor IN
  /\ pc[c] = "locked" /\ request[c].op = "accept"
  /\ Free(c, MemberRow(u))
  /\ ~Active(u)
  /\ Goto(c, "accept", member[u],
          holds[c] \cup (IF member[u] = NoMember THEN {} ELSE {MemberRow(u)}))
  /\ UNCHANGED <<rows, provider, history>>

\* uq_household_member_household_user
DuplicateMember(c) == seen[c] = NoMember /\ member[request[c].actor] # NoMember

AcceptInvitation(c) ==
  LET u == request[c].actor
      i == request[c].invitation
  IN
  /\ pc[c] = "accept"
  /\ ~DuplicateMember(c)
  /\ member' = [member EXCEPT ![u] =
       [role |-> invitation[i].role, status |-> "active", version |-> seen[c].version + 1]]
  /\ invitation' = [invitation EXCEPT ![i].status = "accepted", ![i].version = @ + 1]
  /\ acceptances' = [acceptances EXCEPT ![invitation[i].email] = @ + 1]
  /\ EndRequest(c)
  /\ UNCHANGED <<household, email_outbox_entry, provider, began, left>>

-----------------------------------------------------------------------------
(***************************************************************************)
(* A handler that raises.                                                  *)
(***************************************************************************)
Unusable(q) ==
  \/ ~FoundFor(q)
  \/ invitation[q.invitation].status \notin {"absent", "pending"}
  \/ invitation_is_usable(invitation[q.invitation]) /\ invitation[q.invitation].email # q.actor

Raises(c) ==
  LET q == request[c] IN
  \/ pc[c] = "loaded" /\ q.op = "settings" /\ ~MatchesVersion(q.expected, seen[c].version)
  \/ pc[c] = "loaded" /\ q.op = "role" /\ ~CanAssign(c)
  \/ pc[c] = "loaded" /\ q.op = "revoke" /\ seen[c].status # "pending"
  \/ pc[c] = "open" /\ q.op = "remove" /\ Free(c, MemberRow(q.target)) /\ ~CanRevoke(c)
  \/ pc[c] = "open" /\ q.op = "invite" /\ Active(q.email)
  \/ Reached(c) /\ \E i \in StillPending(c) : ~Resendable(i)
  \/ /\ pc[c] = "open" /\ q.op = "accept" /\ Free(c, InvitationRow(q.invitation))
     /\ Unusable(q)
  \/ pc[c] = "locked" /\ q.op = "accept" /\ Free(c, MemberRow(q.actor)) /\ Active(q.actor)
  \/ pc[c] = "accept" /\ DuplicateMember(c)
  \/ pc[c] = "insert" /\ Unused = {}    \* the bound on invitations

Refuse(c) == Raises(c) /\ Rollback(c)
Crash(c) == pc[c] # "idle" /\ Rollback(c)

\* An invitation lives for an hour at least, its delivery takes seconds.
PassExpiry(i) ==
  /\ Pending(i) /\ ~invitation[i].expired
  /\ InDelivery(i) = {}
  /\ invitation' = [invitation EXCEPT ![i].expired = TRUE]
  /\ UNCHANGED <<household, member, email_outbox_entry, provider, worker, history>>

Serve(c) ==
  \/ CreateHousehold(c) \/ Load(c) \/ UpdateHousehold(c) \/ UpdateMemberRole(c)
  \/ LockMember(c) \/ RevokeMember(c)
  \/ FindPending(c) \/ LockPending(c) \/ CreateInvitation(c) \/ ResendInvitation(c)
  \/ SendEmail(c) \/ FindAccount(c) \/ CreateAccount(c) \/ NoteAccount(c)
  \/ SendInviteCode(c) \/ Mark(c) \/ MarkSuppressed(c)
  \/ RevokeInvitation(c)
  \/ LockInvitation(c) \/ ExpireInvitation(c) \/ LockExisting(c) \/ AcceptInvitation(c)
  \/ Refuse(c)

Next ==
  \/ \E c \in Call, q \in Request : Receive(c, q)
  \/ \E c \in Call : Serve(c) \/ Crash(c)
  \/ \E i \in InvitationId : PassExpiry(i)

Spec == Init /\ [][Next]_vars
-----------------------------------------------------------------------------
MemberType == [role : Role, status : {"active", "revoked"}, version : Nat \ {0}]
InvitationType ==
  [email : User, role : Role \ {"owner"}, expired : BOOLEAN, token : Nat \ {0},
   status : {"pending", "accepted", "revoked", "expired"}, version : Nat \ {0}]
Row == {MemberRow(u) : u \in User} \cup {InvitationRow(i) : i \in InvitationId}
       \cup {OutboxRow(i) : i \in InvitationId}
Phase ==
  {"idle", "open", "loaded", "locked", "found", "insert", "resend", "accept"} \cup Delivering

RowTypes ==
  /\ household \in [name : Name, version : Nat \ {0}] \cup {NoHousehold}
  /\ member \in [User -> MemberType \cup {NoMember}]
  /\ invitation \in [InvitationId -> InvitationType \cup {NoInvitation}]
  /\ email_outbox_entry \in [InvitationId ->
       [status : {"absent", "suppressed", "sent", "failed"}, zitadel_user : BOOLEAN]]
ProviderTypes ==
  /\ directory \in BOOLEAN /\ account \subseteq User /\ created \subseteq account
  /\ mailed \subseteq InvitationId \X (Nat \ {0})
WorkerTypes ==
  /\ holds \in [Call -> SUBSET Row]
  /\ pc \in [Call -> Phase]
  /\ request \in [Call -> Request \cup {NoRequest}]
  /\ actor_role \in [Call -> Role \cup {"none"}]
  /\ DOMAIN seen = Call
HistoryTypes ==
  began \subseteq User /\ acceptances \in [User -> Nat] /\ left \in [User -> Nat]

TypeOK == RowTypes /\ ProviderTypes /\ WorkerTypes /\ HistoryTypes

\* How often someone has become a member.
Joined(u) == (IF u \in began THEN 1 ELSE 0) + acceptances[u]

\* Who is a member is who founded the household or accepted an invitation of one's
\* own, and was not revoked since: no handler that writes a row it loaded
\* earlier brings a revoked member back or joins one person twice.
MembershipFollowsInvitations ==
  \A u \in User : Joined(u) - left[u] = IF Active(u) THEN 1 ELSE 0

\* One worker at a time delivers an invitation: a second creation is refused
\* until the first delivery has failed or the invitation has expired.
DeliveryIsExclusive == \A i \in InvitationId : \A c, d \in InDelivery(i) : c = d

\* An outbox entry marked as sent stands for a letter with the invitation's
\* present token, also after it was sent again.
SentWasMailed ==
  \A i \in InvitationId :
    email_outbox_entry[i].status = "sent" => <<i, invitation[i].token>> \in mailed

\* People who had an account before the household invited them get no invite
\* code of the identity provider (specs/016-zitadel-invitations/spec.md:76).
ExistingIsNotMailed ==
  directory => \A letter \in mailed : invitation[letter[1]].email \in created
=============================================================================
