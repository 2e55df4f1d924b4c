--------------------------- MODULE HouseholdProofs ---------------------------
(***************************************************************************)
(* What Household promises for any number of people, workers and           *)
(* invitations: membership follows from what was accepted and revoked, one *)
(* worker at a time delivers an invitation, and what was mailed.           *)
(*                                                                         *)
(* The second part is about the dispatcher of the outbox.  The modules     *)
(* share no state: the outbox entries of invitations are delivered by the  *)
(* routes (Household), all others by process_outbox (Outbox).              *)
(***************************************************************************)
EXTENDS Household, Outbox, TLAPS

\* What a worker has seen has no one type: it is a function of the worker.
Types == TypeOK /\ seen = [c \in Call |-> seen[c]]

\* Before the household is founded there is nothing else, and one request founds it.
Founding ==
  /\ household = NoHousehold =>
       /\ began = {}
       /\ \A u \in User : member[u] = NoMember
       /\ \A i \in InvitationId : invitation[i] = NoInvitation
       /\ \A c \in Call : request[c].op \in {"none", "create"}
  /\ \A c \in Call : request[c].op = "create" => household = NoHousehold
  /\ \A c, d \in Call : request[c].op = "create" /\ request[d].op = "create" => c = d

\* No two transactions hold a lock on one row.
Locks == \A c, d \in Call : holds[c] \cap holds[d] # {} => c = d

Stored(i) == i \in InvitationId /\ invitation[i] # NoInvitation

\* What the outbox and the history of letters say of an invitation.
Letters ==
  /\ \A i \in InvitationId :
       email_outbox_entry[i].zitadel_user => Stored(i) /\ invitation[i].email \in created
  /\ \A letter \in mailed : Stored(letter[1])

\* What a handler has loaded without a lock exists still; what it has locked is
\* still as it found it.
Held(c) ==
  /\ pc[c] \in {"idle", "open", "loaded", "found", "insert"} => holds[c] = {}
  /\ \A u \in User : MemberRow(u) \in holds[c] => member[u] # NoMember
Progress(c) ==
  /\ pc[c] = "idle" => request[c] = NoRequest
  /\ pc[c] # "idle" => request[c] \in Request
  /\ pc[c] \in {"found", "insert", "resend"} \cup Delivering => request[c].op = "invite"
  /\ pc[c] = "accept" => request[c].op = "accept"
  /\ pc[c] = "locked" => request[c].op \in {"remove", "accept"}
  /\ pc[c] = "loaded" => request[c].op \in {"settings", "role", "revoke"}

LoadedRow(c) ==
  LET q == request[c] IN
  pc[c] = "loaded" =>
    /\ q.op = "settings" => seen[c].version \in Nat
    /\ q.op = "role" => /\ seen[c].version \in Nat
                        /\ seen[c].status = "active" => member[q.target] # NoMember
    /\ q.op = "revoke" => /\ seen[c].version \in Nat
                          /\ seen[c].status = "pending" => Stored(q.invitation)

LockedRow(c) ==
  LET q == request[c] IN
  /\ pc[c] = "locked" /\ q.op = "remove" =>
       /\ MemberRow(q.target) \in holds[c]
       /\ Active(q.target)
       /\ seen[c].version \in Nat
  /\ pc[c] \in {"locked", "accept"} /\ q.op = "accept" =>
       Stored(q.invitation) /\ invitation[q.invitation].email = q.actor
  /\ pc[c] = "accept" =>
       /\ seen[c].version \in Nat
       /\ seen[c] # NoMember => MemberRow(q.actor) \in holds[c] /\ ~Active(q.actor)

LockedInvitation(c) ==
  /\ pc[c] = "found" => \A i \in seen[c] : Stored(i)
  /\ pc[c] = "resend" =>
       /\ Stored(seen[c])
       /\ {InvitationRow(seen[c]), OutboxRow(seen[c])} \subseteq holds[c]
       /\ Resendable(seen[c])

Delivers(c) == pc[c] \in Delivering
Delivery(c) ==
  LET i == seen[c].id IN
  Delivers(c) =>
    /\ Stored(i) /\ ~invitation[i].expired
    /\ email_outbox_entry[i].status = "suppressed"
    /\ seen[c].token = invitation[i].token
    /\ seen[c].ours \in BOOLEAN
    /\ seen[c].ours \/ pc[c] \in {"note", "code"} => AddresseeOf(c) \in created
    /\ pc[c] = "mark_sent" => Letter(c) \in mailed

Session(c) ==
  /\ Held(c) /\ Progress(c)
  /\ LoadedRow(c) /\ LockedRow(c) /\ LockedInvitation(c) /\ Delivery(c)

IInv ==
  /\ Types /\ Founding /\ Locks /\ Letters
  /\ MembershipFollowsInvitations /\ DeliveryIsExclusive /\ SentWasMailed /\ ExistingIsNotMailed
  /\ \A c \in Call : Session(c)
-----------------------------------------------------------------------------
(***************************************************************************)
(* The requests, the rows and the parts of a worker.                       *)
(***************************************************************************)

LEMMA RequestTyped ==
  ASSUME NEW q \in Request
  PROVE  /\ WellFormed(q)
         /\ q # NoRequest
         /\ q.op # "none"
<1>1. WellFormed(q)
  BY RequestAssumption
<1>2. q.op # "none"
  BY <1>1 DEF WellFormed, ManagerOps, InvitationOps
<1> QED  BY <1>1, <1>2 DEF NoRequest

LEMMA RowsDiffer ==
  ASSUME NEW u, NEW v, NEW i, NEW j
  PROVE  /\ MemberRow(u) = MemberRow(v) => u = v
         /\ InvitationRow(i) = InvitationRow(j) => i = j
         /\ OutboxRow(i) = OutboxRow(j) => i = j
         /\ MemberRow(u) # InvitationRow(i) /\ MemberRow(u) # OutboxRow(i)
         /\ InvitationRow(i) # OutboxRow(j)
BY DEF MemberRow, InvitationRow, OutboxRow

LEMMA AbsentRows ==
  /\ NoMember \notin MemberType /\ NoMember.status = "absent" /\ NoMember.version = 0
  /\ NoInvitation \notin InvitationType /\ NoInvitation.status = "absent"
BY DEF NoMember, MemberType, NoInvitation, InvitationType

\* An active member and a stored invitation have all their columns.
LEMMA StoredRows ==
  ASSUME Types
  PROVE  /\ \A u \in User : member[u].version \in Nat
         /\ \A u \in User : Active(u) => member[u] \in MemberType
         /\ \A u \in User : member[u] # NoMember <=> member[u] \in MemberType
         /\ \A i \in InvitationId : invitation[i].version \in Nat
         /\ \A i \in InvitationId : Pending(i) => Stored(i)
         /\ \A i : Stored(i) => invitation[i] \in InvitationType
<1>1. \A u \in User : member[u] \in MemberType \cup {NoMember}
  BY DEF Types, TypeOK, RowTypes
<1>2. \A i \in InvitationId : invitation[i] \in InvitationType \cup {NoInvitation}
  BY DEF Types, TypeOK, RowTypes
<1>3. NoMember.version = 0 /\ NoInvitation.version = 0
  BY DEF NoMember, NoInvitation
<1>4. /\ \A m \in MemberType : m.version \in Nat
      /\ \A n \in InvitationType : n.version \in Nat
  BY DEF MemberType, InvitationType
<1> QED  BY <1>1, <1>2, <1>3, <1>4, AbsentRows DEF Active, Pending, Stored

\* The other workers stay where they are.
Aside(c) ==
  \A d \in Call \ {c} :
    /\ pc'[d] = pc[d] /\ request'[d] = request[d] /\ actor_role'[d] = actor_role[d]
    /\ seen'[d] = seen[d] /\ holds'[d] = holds[d]

LEMMA GotoIs ==
  ASSUME Types, NEW c \in Call, NEW next \in Phase, NEW value, NEW locks \in SUBSET Row,
         Goto(c, next, value, locks)
  PROVE  /\ Aside(c)
         /\ pc'[c] = next /\ seen'[c] = value /\ holds'[c] = locks
         /\ UNCHANGED <<request, actor_role>>
         /\ WorkerTypes' /\ seen' = [d \in Call |-> seen'[d]]
BY DEF Goto, Types, TypeOK, WorkerTypes, Aside

LEMMA EndRequestIs ==
  ASSUME Types, NEW c \in Call, EndRequest(c)
  PROVE  /\ Aside(c)
         /\ pc'[c] = "idle" /\ request'[c] = NoRequest /\ holds'[c] = {}
         /\ WorkerTypes' /\ seen' = [d \in Call |-> seen'[d]]
<1>1. "idle" \in Phase
  BY DEF Phase
<1> QED  BY <1>1 DEF EndRequest, Released, Types, TypeOK, WorkerTypes, Aside

\* An idle worker has nothing to keep.
LEMMA IdleSession ==
  ASSUME NEW c \in Call, pc[c] = "idle", request[c] = NoRequest, holds[c] = {}
  PROVE  Session(c)
<1>1. ~Delivers(c)
  BY DEF Delivers, Delivering
<1> QED  BY <1>1 DEF Session, Held, Progress, LoadedRow, LockedRow, LockedInvitation, Delivery,
                     Delivering, Delivers

LEMMA IdleAfter ==
  ASSUME NEW c \in Call, pc'[c] = "idle", request'[c] = NoRequest, holds'[c] = {}
  PROVE  Session(c)' /\ ~Delivers(c)'
<1>1. ~Delivers(c)'
  BY DEF Delivers, Delivering
<1> QED  BY <1>1 DEF Session, Held, Progress, LoadedRow, LockedRow, LockedInvitation, Delivery,
                     Delivering, Delivers
-----------------------------------------------------------------------------
(***************************************************************************)
(* What a step of one worker leaves to another.                            *)
(***************************************************************************)

Kept(d) ==
  /\ \A u \in User : member[u] # NoMember => member'[u] # NoMember
  /\ \A u \in User : MemberRow(u) \in holds[d] => (Active(u)' <=> Active(u))
  /\ \A i \in InvitationId : invitation[i] # NoInvitation =>
       invitation'[i] # NoInvitation /\ invitation'[i].email = invitation[i].email
  /\ \A i \in InvitationId : Delivers(d) /\ seen[d].id = i =>
       /\ invitation'[i].token = invitation[i].token
       /\ invitation'[i].expired = invitation[i].expired
       /\ email_outbox_entry'[i].status = email_outbox_entry[i].status
  /\ \A i \in InvitationId : pc[d] = "resend" /\ seen[d] = i /\ Resendable(i) => Resendable(i)'
  /\ created \subseteq created' /\ mailed \subseteq mailed'

LEMMA RowsKept ==
  ASSUME NEW d \in Call, UNCHANGED rows, created \subseteq created', mailed \subseteq mailed'
  PROVE  Kept(d)
BY DEF Kept, rows, Active, Resendable

LEMMA SessionStays ==
  ASSUME Types, NEW d \in Call, Session(d), Kept(d),
         pc'[d] = pc[d], request'[d] = request[d], seen'[d] = seen[d], holds'[d] = holds[d]
  PROVE  Session(d)'
<1> DEFINE q == request[d]
<1>1. \A i : Stored(i) => Stored(i)' /\ i \in InvitationId /\ invitation'[i].email = invitation[i].email
  BY DEF Stored, Kept
<1>2. Held(d)' /\ Progress(d)'
  BY DEF Session, Held, Progress, Kept
<1>3. LoadedRow(d)'
  <2>1. pc[d] = "loaded" => q \in Request
    BY DEF Session, Progress
  <2>2. pc[d] = "loaded" /\ q.op = "role" => q.target \in User
    BY <2>1, RequestTyped DEF WellFormed
  <2> QED  BY <1>1, <2>2 DEF Session, LoadedRow, Kept
<1>4. LockedRow(d)'
  <2>1. pc[d] \in {"locked", "accept"} => q \in Request
    BY DEF Session, Progress
  <2>2. pc[d] \in {"locked", "accept"} => q.actor \in User /\ (q.op = "remove" => q.target \in User)
    BY <2>1, RequestTyped DEF WellFormed
  <2>3. pc[d] \in {"locked", "accept"} /\ MemberRow(q.actor) \in holds[d]
          => (Active(q.actor)' <=> Active(q.actor))
    BY <2>2 DEF Kept
  <2>4. pc[d] = "locked" /\ q.op = "remove" /\ MemberRow(q.target) \in holds[d]
          => (Active(q.target)' <=> Active(q.target))
    BY <2>2 DEF Kept
  <2>5. pc'[d] = "locked" /\ q.op = "remove" =>
          MemberRow(q.target) \in holds'[d] /\ Active(q.target)' /\ seen'[d].version \in Nat
    BY <2>4 DEF Session, LockedRow
  <2>6. pc'[d] \in {"locked", "accept"} /\ q.op = "accept" =>
          Stored(q.invitation)' /\ invitation'[q.invitation].email = q.actor
    BY <1>1 DEF Session, LockedRow
  <2>7. pc'[d] = "accept" =>
          /\ seen'[d].version \in Nat
          /\ seen'[d] # NoMember => MemberRow(q.actor) \in holds'[d] /\ ~Active(q.actor)'
    BY <2>3 DEF Session, LockedRow
  <2>8. Active(q.target)' = (member'[q.target].status = "active")
    BY DEF Active
  <2>9. Active(q.actor)' = (member'[q.actor].status = "active")
    BY DEF Active
  <2> QED  BY <2>5, <2>6, <2>7, <2>8, <2>9 DEF LockedRow, Active
<1>5. LockedInvitation(d)'
  <2>1. pc[d] = "resend" => seen[d] \in InvitationId /\ Resendable(seen[d])
    BY DEF Session, LockedInvitation, Stored
  <2>2. \A i \in InvitationId : pc[d] = "resend" /\ seen[d] = i => Resendable(i)'
    BY <2>1 DEF Kept
  <2>3. pc'[d] = "resend" => Resendable(seen[d])'
    BY <2>1, <2>2 DEF Resendable
  <2> QED  BY <1>1, <2>3 DEF Session, LockedInvitation
<1>6. Delivery(d)'
  <2>1. SUFFICES ASSUME Delivers(d)' PROVE Delivery(d)'
    BY DEF Delivery
  <2> DEFINE i == seen[d].id
  <2>2. Delivers(d)
    BY <2>1 DEF Delivers
  <2>3. Delivery(d)
    BY DEF Session
  <2>4. i \in InvitationId /\ Stored(i) /\ Stored(i)' /\ invitation'[i].email = invitation[i].email
    BY <1>1, <2>2, <2>3 DEF Delivery
  <2>5. /\ invitation'[i].token = invitation[i].token
        /\ invitation'[i].expired = invitation[i].expired
        /\ email_outbox_entry'[i].status = email_outbox_entry[i].status
        /\ created \subseteq created' /\ mailed \subseteq mailed'
    BY <2>2, <2>4 DEF Kept
  <2>6. AddresseeOf(d)' = AddresseeOf(d) /\ Letter(d)' = Letter(d)
    BY <2>4 DEF AddresseeOf, Letter
  <2> QED  BY <2>2, <2>3, <2>4, <2>5, <2>6 DEF Delivery
<1> QED  BY <1>2, <1>3, <1>4, <1>5, <1>6 DEF Session

LEMMA SessionsStay ==
  ASSUME IInv, NEW c \in Call, Aside(c), Session(c)', \A d \in Call \ {c} : Kept(d)
  PROVE  \A d \in Call : Session(d)'
<1> SUFFICES ASSUME NEW d \in Call PROVE Session(d)'
  OBVIOUS
<1>1. CASE d = c
  BY <1>1
<1>2. CASE d # c
  BY <1>2, SessionStays DEF IInv, Aside
<1> QED  BY <1>1, <1>2

LEMMA LocksStay ==
  ASSUME IInv, NEW c \in Call, Aside(c), \A row \in holds'[c] \ holds[c] : Free(c, row)
  PROVE  Locks'
<1> SUFFICES ASSUME NEW d \in Call, NEW e \in Call, holds'[d] \cap holds'[e] # {}, d # e
             PROVE  FALSE
  BY DEF Locks
<1>1. \A a, b \in Call : a # b => holds[a] \cap holds[b] = {}
  BY DEF IInv, Locks
<1>2. ASSUME NEW a \in Call \ {c} PROVE holds'[a] \cap holds'[c] = {}
  BY <1>1 DEF Aside, Free
<1>3. CASE d # c /\ e # c
  BY <1>1, <1>3 DEF Aside
<1> QED  BY <1>2, <1>3

LEMMA FoundingStays ==
  ASSUME IInv, NEW c \in Call, Aside(c),
         household' = NoHousehold <=> household = NoHousehold,
         household = NoHousehold => UNCHANGED <<began, member, invitation>>,
         request'[c].op \in {request[c].op, "none"}
  PROVE  Founding'
<1>1. Founding
  BY DEF IInv
<1>2. \A d \in Call : request'[d].op \in {request[d].op, "none"}
  BY DEF Aside
<1> QED  BY <1>1, <1>2 DEF Founding

LEMMA OneDelivery ==
  ASSUME IInv, NEW d \in Call, NEW e \in Call,
         Delivers(d), Delivers(e), seen[d].id = seen[e].id
  PROVE  d = e
<1>1. seen[d].id \in InvitationId
  BY DEF IInv, Session, Delivery, Stored
<1> QED  BY <1>1 DEF IInv, DeliveryIsExclusive, InDelivery, Delivers

LEMMA DeliveryStays ==
  ASSUME IInv, NEW c \in Call, Aside(c),
         Delivers(c)' => \A d \in Call \ {c} : Delivers(d) => seen[d].id # seen'[c].id
  PROVE  DeliveryIsExclusive'
<1>1. SUFFICES ASSUME NEW i \in InvitationId, NEW d \in Call, NEW e \in Call,
                      Delivers(d)', Delivers(e)', seen'[d].id = i, seen'[e].id = i, d # e
               PROVE  FALSE
  BY DEF DeliveryIsExclusive, InDelivery, Delivers
<1>2. \A a \in Call \ {c} : (Delivers(a)' <=> Delivers(a)) /\ seen'[a] = seen[a]
  BY DEF Aside, Delivers
<1>3. CASE d # c /\ e # c
  BY <1>1, <1>2, <1>3, OneDelivery
<1>4. CASE d = c
  BY <1>1, <1>2, <1>4
<1>5. CASE e = c
  BY <1>1, <1>2, <1>5
<1> QED  BY <1>3, <1>4, <1>5

\* A step of c that leaves the rows and the provider alone.
LEMMA QuietStep ==
  ASSUME IInv, NEW c \in Call, Aside(c), UNCHANGED <<rows, provider, history>>,
         WorkerTypes', seen' = [d \in Call |-> seen'[d]], Session(c)', Founding',
         \A row \in holds'[c] \ holds[c] : Free(c, row),
         Delivers(c)' => Delivers(c) /\ seen'[c] = seen[c]
  PROVE  IInv'
<1>1. Types'
  BY DEF IInv, Types, TypeOK, RowTypes, ProviderTypes, HistoryTypes, rows, provider, history
<1>2. Locks'
  BY LocksStay
<1>3. Letters' /\ MembershipFollowsInvitations' /\ SentWasMailed' /\ ExistingIsNotMailed'
  BY DEF IInv, Letters, Stored, MembershipFollowsInvitations, Joined, Active, SentWasMailed,
         ExistingIsNotMailed, rows, provider, history
<1>4. DeliveryIsExclusive'
  <2>1. Delivers(c)' => \A d \in Call \ {c} : Delivers(d) => seen[d].id # seen'[c].id
    BY OneDelivery
  <2> QED  BY <2>1, DeliveryStays
<1>5. \A d \in Call \ {c} : Kept(d)
  BY RowsKept DEF provider
<1>6. \A d \in Call : Session(d)'
  BY <1>5, SessionsStay
<1> QED  BY <1>1, <1>2, <1>3, <1>4, <1>6 DEF IInv
-----------------------------------------------------------------------------
LEMMA InitIInv == Init => IInv
<1> SUFFICES ASSUME Init PROVE IInv
  OBVIOUS
<1> USE DEF Init
<1> DEFINE first == [u \in User |-> member[u]]
<1>1. PICK s \in Start :
        /\ directory = s.directory
        /\ began = {u \in User : s.roster[u] # "none"}
        /\ member = [u \in User |-> IF u \notin began THEN NoMember
                                    ELSE [role |-> s.roster[u], status |-> "active", version |-> 1]]
  OBVIOUS
<1>2. s.roster \in [User -> Role \cup {"none"}] /\ s.directory \in BOOLEAN
  BY StartAssumption
<1>3. \A u \in began : s.roster[u] \in Role
  BY <1>1, <1>2
<1>4. member \in [User -> MemberType \cup {NoMember}]
  BY <1>1, <1>3 DEF MemberType
<1>5. \A u \in User : Active(u) <=> u \in began
  BY <1>1 DEF Active, NoMember
<1>6. household \in [name : Name, version : Nat \ {0}] \cup {NoHousehold}
  OBVIOUS
<1>7. "idle" \in Phase
  BY DEF Phase
<1>8. Types
  BY <1>1, <1>2, <1>4, <1>6, <1>7, AccountAssumption
     DEF Types, TypeOK, RowTypes, ProviderTypes, WorkerTypes, HistoryTypes
<1>9. Founding
  <2>1. household = NoHousehold => began = {}
    <3>1. \A h \in [name : Name, version : {1}] : h # NoHousehold
      BY DEF NoHousehold
    <3> QED  BY <3>1
  <2>2. \A c \in Call : request[c].op = "none"
    BY DEF NoRequest
  <2> QED  BY <1>1, <2>1, <2>2 DEF Founding
<1>10. Locks /\ Letters /\ SentWasMailed /\ ExistingIsNotMailed
  BY DEF Locks, Letters, SentWasMailed, ExistingIsNotMailed
<1>11. MembershipFollowsInvitations
  BY <1>5 DEF MembershipFollowsInvitations, Joined
<1>12. DeliveryIsExclusive
  BY DEF DeliveryIsExclusive, InDelivery, Delivering
<1>13. \A c \in Call : Session(c)
  BY IdleSession
<1> QED  BY <1>8, <1>9, <1>10, <1>11, <1>12, <1>13 DEF IInv

LEMMA ReceiveStep ==
  ASSUME IInv, NEW c \in Call, NEW q \in Request, Receive(c, q)
  PROVE  IInv'
<1> USE DEF Receive
<1>1. Types /\ Session(c) /\ Founding
  BY DEF IInv
<1>2. q.op # "none" /\ q \in Request /\ q.actor \in User /\ WellFormed(q)
  BY RequestTyped DEF WellFormed
<1>3. "open" \in Phase
  BY DEF Phase
<1>4. pc'[c] = "open" /\ request'[c] = q /\ holds'[c] = {}
  BY <1>1 DEF Types, TypeOK, WorkerTypes, Session, Held
<1>5. Aside(c)
  BY <1>1 DEF Aside, Types, TypeOK, WorkerTypes
<1>6. member[q.actor].role \in Role \cup {"none"}
  <2>1. member[q.actor] \in MemberType \cup {NoMember}
    BY <1>1, <1>2 DEF Types, TypeOK, RowTypes
  <2> QED  BY <2>1 DEF MemberType, NoMember
<1>7. WorkerTypes' /\ seen' = [d \in Call |-> seen'[d]]
  BY <1>1, <1>3, <1>6 DEF Types, TypeOK, WorkerTypes
<1>8. Founding'
  <2>1. UNCHANGED <<household, began, member, invitation>>
    BY DEF rows, history
  <2>2. \A d \in Call \ {c} : request'[d] = request[d]
    BY <1>5 DEF Aside
  <2>3. q.op = "create" => household = NoHousehold /\ \A d \in Call : request[d].op # "create"
    BY DEF CanSend
  <2>4. household = NoHousehold => q.op = "create"
    <3>1. SUFFICES ASSUME household = NoHousehold, q.op # "create" PROVE FALSE
      OBVIOUS
    <3>2. ~Active(q.actor)
      BY <1>1, <1>2, <3>1, AbsentRows DEF Founding, Active
    <3>3. q.op \notin ManagerOps
      BY <3>2 DEF CanSend
    <3>4. q.op = "accept" /\ q.invitation \in InvitationId
      BY <1>2, <3>1, <3>3 DEF WellFormed
    <3>5. invitation[q.invitation] # NoInvitation
      BY <3>4 DEF CanSend
    <3> QED  BY <1>1, <3>1, <3>4, <3>5 DEF Founding
  <2> QED  BY <1>1, <1>4, <2>1, <2>2, <2>3, <2>4 DEF Founding
<1>9. Session(c)' /\ ~Delivers(c)'
  BY <1>4, <1>2 DEF Session, Held, Progress, LoadedRow, LockedRow, LockedInvitation, Delivery,
               Delivers, Delivering
<1> QED  BY <1>4, <1>5, <1>7, <1>8, <1>9, QuietStep

LEMMA RollbackStep ==
  ASSUME IInv, NEW c \in Call, EndRequest(c), UNCHANGED <<rows, provider, history>>
  PROVE  IInv'
<1>1. Types
  BY DEF IInv
<1>2. /\ Aside(c)
      /\ pc'[c] = "idle" /\ request'[c] = NoRequest /\ holds'[c] = {}
      /\ WorkerTypes' /\ seen' = [d \in Call |-> seen'[d]]
  BY <1>1, EndRequestIs
<1>3. Session(c)'
  BY <1>2, IdleAfter
<1>4. ~Delivers(c)'
  BY <1>2 DEF Delivers, Delivering
<1>5. Founding'
  BY <1>2, FoundingStays DEF NoRequest, rows, history
<1> QED  BY <1>2, <1>3, <1>4, <1>5, QuietStep

\* A step to another phase of the same request.
LEMMA GotoStep ==
  ASSUME IInv, NEW c \in Call, NEW next \in Phase, NEW value, NEW locks \in SUBSET Row,
         Goto(c, next, value, locks), UNCHANGED <<rows, provider, history>>,
         Session(c)', \A row \in locks \ holds[c] : Free(c, row),
         next \in Delivering => Delivers(c) /\ value = seen[c]
  PROVE  IInv'
<1>1. /\ Aside(c)
      /\ pc'[c] = next /\ seen'[c] = value /\ holds'[c] = locks
      /\ UNCHANGED <<request, actor_role>>
      /\ WorkerTypes' /\ seen' = [d \in Call |-> seen'[d]]
  BY GotoIs DEF IInv
<1>2. Founding'
  BY <1>1, FoundingStays DEF rows, history
<1>3. Delivers(c)' => Delivers(c) /\ seen'[c] = seen[c]
  BY <1>1 DEF Delivers
<1> QED  BY <1>1, <1>2, <1>3, QuietStep
-----------------------------------------------------------------------------
(***************************************************************************)
(* The steps that read and lock.                                           *)
(***************************************************************************)

LEMMA RowSets ==
  /\ {} \in SUBSET Row
  /\ \A u \in User : {MemberRow(u)} \in SUBSET Row
  /\ \A i \in InvitationId : {InvitationRow(i)} \in SUBSET Row
  /\ \A s \in SUBSET InvitationId, i \in InvitationId :
       {InvitationRow(j) : j \in s} \cup {OutboxRow(i)} \in SUBSET Row
BY DEF Row

LEMMA LoadStep ==
  ASSUME IInv, NEW c \in Call, Load(c)
  PROVE  IInv'
<1> DEFINE q == request[c]
<1>1. Types /\ Session(c)
  BY DEF IInv
<1>2. pc[c] = "open" /\ q.op \in {"settings", "role", "revoke"}
      /\ Goto(c, "loaded", Loaded(q), {}) /\ UNCHANGED <<rows, provider, history>>
  BY DEF Load
<1>3. q \in Request /\ WellFormed(q)
  BY <1>1, <1>2, RequestTyped DEF Session, Progress
<1>4. /\ q.op = "settings" => Loaded(q) = household
      /\ q.op = "role" => Loaded(q) = member[q.target]
      /\ q.op = "revoke" => Loaded(q) = invitation[q.invitation]
  BY DEF Loaded
<1>5. "loaded" \in Phase /\ "loaded" \notin Delivering
  BY DEF Phase, Delivering
<1>6. /\ pc'[c] = "loaded" /\ seen'[c] = Loaded(q) /\ holds'[c] = {} /\ request'[c] = q
  BY <1>1, <1>2, <1>5, RowSets, GotoIs
<1>7. /\ q.op = "role" => q.target \in User
      /\ q.op = "revoke" => q.invitation \in InvitationId
  BY <1>3 DEF WellFormed
<1>8. household.version \in Nat
  <2>1. household \in [name : Name, version : Nat \ {0}] \cup {NoHousehold}
    BY <1>1 DEF Types, TypeOK, RowTypes
  <2> QED  BY <2>1 DEF NoHousehold
<1>9. UNCHANGED <<member, invitation>>
  BY <1>2 DEF rows
<1>10. LoadedRow(c)'
  <2>1. q.op = "role" => /\ member[q.target].version \in Nat
                         /\ member[q.target].status = "active" => member[q.target] # NoMember
    BY <1>1, <1>7, StoredRows, AbsentRows
  <2>2. q.op = "revoke" => /\ invitation[q.invitation].version \in Nat
                           /\ invitation[q.invitation].status = "pending" => Stored(q.invitation)
    BY <1>1, <1>7, StoredRows, AbsentRows DEF Pending
  <2>3. Stored(q.invitation) => Stored(request[c].invitation)'
    BY <1>6, <1>9 DEF Stored
  <2> QED  BY <1>4, <1>6, <1>8, <1>9, <2>1, <2>2, <2>3 DEF LoadedRow
<1>11. Session(c)'
  BY <1>2, <1>3, <1>5, <1>6, <1>10 DEF Session, Held, Progress, LockedRow, LockedInvitation, Delivery,
     Delivers
<1> QED  BY <1>2, <1>5, <1>11, RowSets, GotoStep

LEMMA LockMemberStep ==
  ASSUME IInv, NEW c \in Call, LockMember(c)
  PROVE  IInv'
<1> DEFINE q == request[c]
           u == q.target
<1>1. Types /\ Session(c)
  BY DEF IInv
<1>2. /\ pc[c] = "open" /\ q.op = "remove" /\ Free(c, MemberRow(u)) /\ CanRevoke(c)
      /\ Goto(c, "locked", member[u], {MemberRow(u)}) /\ UNCHANGED <<rows, provider, history>>
  BY DEF LockMember
<1>3. q \in Request /\ u \in User
  BY <1>1, <1>2, RequestTyped DEF Session, Progress, WellFormed
<1>4. "locked" \in Phase /\ "locked" \notin Delivering
  BY DEF Phase, Delivering
<1>5. {MemberRow(u)} \in SUBSET Row
  BY <1>3, RowSets
<1>6. pc'[c] = "locked" /\ seen'[c] = member[u] /\ holds'[c] = {MemberRow(u)} /\ request'[c] = q
  BY <1>1, <1>2, <1>4, <1>5, GotoIs
<1>7. Active(u) /\ member[u] # NoMember /\ member[u].version \in Nat
  BY <1>1, <1>2, <1>3, StoredRows, AbsentRows DEF CanRevoke, Active
<1>8. member' = member
  BY <1>2 DEF rows
<1>9. LockedRow(c)'
  BY <1>2, <1>6, <1>7, <1>8 DEF LockedRow, Active
<1>10. Session(c)'
  BY <1>2, <1>3, <1>4, <1>6, <1>7, <1>8, <1>9, RowsDiffer
     DEF Session, Held, Progress, LoadedRow, LockedInvitation, Delivery, Delivers
<1>11. \A row \in {MemberRow(u)} \ holds[c] : Free(c, row)
  BY <1>2
<1> QED  BY <1>2, <1>4, <1>5, <1>10, <1>11, GotoStep

LEMMA FindPendingStep ==
  ASSUME IInv, NEW c \in Call, FindPending(c)
  PROVE  IInv'
<1> DEFINE q == request[c]
           found == PendingFor(q.email)
<1>1. Types /\ Session(c)
  BY DEF IInv
<1>2. /\ pc[c] = "open" /\ q.op = "invite"
      /\ Goto(c, "found", found, {}) /\ UNCHANGED <<rows, provider, history>>
  BY DEF FindPending
<1>3. q \in Request
  BY <1>1, <1>2, RequestTyped DEF Session, Progress
<1>4. "found" \in Phase /\ "found" \notin Delivering
  BY DEF Phase, Delivering
<1>5. pc'[c] = "found" /\ seen'[c] = found /\ holds'[c] = {} /\ request'[c] = q
  BY <1>1, <1>2, <1>4, RowSets, GotoIs
<1>6. \A i \in found : Stored(i)
  BY <1>1, StoredRows DEF PendingFor
<1>7. \A i \in found : Stored(i)'
  BY <1>2, <1>6 DEF Stored, rows
<1>8. Session(c)'
  <2> HIDE DEF found
  <2> QED  BY <1>2, <1>3, <1>4, <1>5, <1>7 DEF Session, Held, Progress, LoadedRow, LockedRow,
              LockedInvitation, Delivery, Delivers
<1> QED  BY <1>2, <1>4, <1>8, RowSets, GotoStep

LEMMA LockPendingStep ==
  ASSUME IInv, NEW c \in Call, LockPending(c)
  PROVE  IInv'
<1> DEFINE q == request[c]
<1>1. Types /\ Session(c)
  BY DEF IInv
<1>2. /\ pc[c] = "found" /\ \A i \in seen[c] : Free(c, InvitationRow(i)) /\ Free(c, OutboxRow(i))
      /\ UNCHANGED <<rows, provider, history>>
  BY DEF LockPending, Reached
<1>3. q \in Request /\ q.op = "invite" /\ \A i \in seen[c] : Stored(i)
  BY <1>1, <1>2 DEF Session, Progress, LockedInvitation
<1>4. /\ "insert" \in Phase /\ "insert" \notin Delivering
      /\ "resend" \in Phase /\ "resend" \notin Delivering
  BY DEF Phase, Delivering
<1>5. CASE Goto(c, "insert", {}, {})
  <2>1. pc'[c] = "insert" /\ seen'[c] = {} /\ holds'[c] = {} /\ request'[c] = q
    BY <1>1, <1>4, <1>5, RowSets, GotoIs
  <2>2. Session(c)'
    BY <1>3, <1>4, <2>1 DEF Session, Held, Progress, LoadedRow, LockedRow, LockedInvitation,
       Delivery, Delivers
  <2> QED  BY <1>2, <1>4, <1>5, <2>2, RowSets, GotoStep
<1>6. ASSUME NEW i \in StillPending(c), Resendable(i),
             Goto(c, "resend", i, {InvitationRow(j) : j \in StillPending(c)} \cup {OutboxRow(i)})
      PROVE  IInv'
  <2> DEFINE locks == {InvitationRow(j) : j \in StillPending(c)} \cup {OutboxRow(i)}
  <2>1. StillPending(c) \subseteq InvitationId /\ i \in seen[c] /\ Stored(i) /\ i \in InvitationId
    BY <1>3 DEF StillPending, Stored
  <2>2. locks \in SUBSET Row
    BY <2>1, RowSets
  <2>3. {InvitationRow(i), OutboxRow(i)} \subseteq locks
    OBVIOUS
  <2>4. /\ \A row \in locks : Free(c, row)
        /\ \A u \in User : MemberRow(u) \notin locks
    BY <1>2, <2>1, RowsDiffer DEF StillPending
  <2> HIDE DEF locks
  <2>5. Goto(c, "resend", i, locks)
    BY <1>6 DEF locks
  <2>6. pc'[c] = "resend" /\ seen'[c] = i /\ holds'[c] = locks /\ request'[c] = q
    BY <1>1, <1>4, <2>2, <2>5, GotoIs
  <2>7. Stored(i)' /\ Resendable(i)'
    BY <1>2, <1>6, <2>1 DEF Stored, Resendable, rows
  <2>8. LockedInvitation(c)'
    BY <2>3, <2>6, <2>7 DEF LockedInvitation, Stored, Resendable
  <2>9. Session(c)'
    BY <1>3, <1>4, <2>4, <2>6, <2>8 DEF Session, Held, Progress, LoadedRow, LockedRow, Delivery, Delivers
  <2> QED  BY <1>2, <1>4, <2>2, <2>4, <2>5, <2>9, GotoStep
<1> QED  BY <1>5, <1>6 DEF LockPending

LEMMA LockInvitationStep ==
  ASSUME IInv, NEW c \in Call, LockInvitation(c)
  PROVE  IInv'
<1> DEFINE q == request[c]
           i == q.invitation
<1>1. Types /\ Session(c)
  BY DEF IInv
<1>2. /\ pc[c] = "open" /\ q.op = "accept" /\ Free(c, InvitationRow(i))
      /\ invitation[i].status = "pending" /\ invitation[i].email = q.actor
      /\ Goto(c, "locked", {}, {InvitationRow(i)}) /\ UNCHANGED <<rows, provider, history>>
  BY DEF LockInvitation, invitation_is_usable
<1>3. q \in Request /\ i \in InvitationId
  BY <1>1, <1>2, RequestTyped DEF Session, Progress, WellFormed
<1>4. "locked" \in Phase /\ "locked" \notin Delivering
  BY DEF Phase, Delivering
<1>5. {InvitationRow(i)} \in SUBSET Row
  BY <1>3, RowSets
<1>6. pc'[c] = "locked" /\ holds'[c] = {InvitationRow(i)} /\ request'[c] = q
  BY <1>1, <1>2, <1>4, <1>5, GotoIs
<1>7. Stored(i)
  BY <1>1, <1>2, <1>3, StoredRows DEF Pending
<1>8. LockedRow(c)'
  BY <1>2, <1>6, <1>7 DEF LockedRow, Stored, rows
<1>9. Session(c)'
  BY <1>2, <1>3, <1>4, <1>6, <1>8, RowsDiffer
     DEF Session, Held, Progress, LoadedRow, LockedInvitation, Delivery, Delivers
<1>10. \A row \in {InvitationRow(i)} \ holds[c] : Free(c, row)
  BY <1>2
<1> QED  BY <1>2, <1>4, <1>5, <1>9, <1>10, GotoStep

LEMMA LockExistingStep ==
  ASSUME IInv, NEW c \in Call, LockExisting(c)
  PROVE  IInv'
<1> DEFINE q == request[c]
           u == q.actor
           locks == holds[c] \cup (IF member[u] = NoMember THEN {} ELSE {MemberRow(u)})
<1>1. Types /\ Session(c)
  BY DEF IInv
<1>2. /\ pc[c] = "locked" /\ q.op = "accept" /\ Free(c, MemberRow(u)) /\ ~Active(u)
      /\ Goto(c, "accept", member[u], locks) /\ UNCHANGED <<rows, provider, history>>
  BY DEF LockExisting
<1>3. q \in Request /\ u \in User
  BY <1>1, <1>2, RequestTyped DEF Session, Progress, WellFormed
<1>4. "accept" \in Phase /\ "accept" \notin Delivering
  BY DEF Phase, Delivering
<1>5. locks \in SUBSET Row
  <2>1. holds[c] \in SUBSET Row
    BY <1>1 DEF Types, TypeOK, WorkerTypes
  <2> QED  BY <1>3, <2>1, RowSets
<1>6. member[u] # NoMember => MemberRow(u) \in locks
  OBVIOUS
<1>7. /\ \A row \in locks \ holds[c] : Free(c, row)
      /\ \A v \in User : MemberRow(v) \in locks => member[v] # NoMember
  BY <1>1, <1>2, RowsDiffer DEF Session, Held
<1> HIDE DEF locks
<1>8. pc'[c] = "accept" /\ seen'[c] = member[u] /\ holds'[c] = locks /\ request'[c] = q
  BY <1>1, <1>2, <1>4, <1>5, GotoIs
<1>9. Stored(q.invitation) /\ invitation[q.invitation].email = u /\ member[u].version \in Nat
  BY <1>1, <1>2, <1>3, StoredRows DEF Session, LockedRow
<1>10. LockedRow(c)'
  BY <1>2, <1>6, <1>8, <1>9 DEF LockedRow, Stored, Active, rows
<1>11. Session(c)'
  BY <1>2, <1>3, <1>4, <1>7, <1>8, <1>10
     DEF Session, Held, Progress, LoadedRow, LockedInvitation, Delivery, Delivers, rows
<1> QED  BY <1>2, <1>4, <1>5, <1>7, <1>11, GotoStep
-----------------------------------------------------------------------------
(***************************************************************************)
(* The delivery.                                                           *)
(***************************************************************************)

LEMMA DeliveryFacts ==
  ASSUME IInv, NEW c \in Call, pc[c] \in Delivering
  PROVE  /\ Delivers(c)
         /\ request[c] \in Request /\ request[c].op = "invite"
         /\ seen[c].id \in InvitationId /\ Stored(seen[c].id)
         /\ Delivery(c)
         /\ AddresseeOf(c) \in User
         /\ Letter(c) \in InvitationId \X (Nat \ {0})
<1>1. Types /\ Session(c)
  BY DEF IInv
<1>2. Delivers(c) /\ pc[c] # "idle"
  BY DEF Delivers, Delivering
<1>3. request[c] \in Request /\ request[c].op = "invite"
  BY <1>1, <1>2 DEF Session, Progress
<1>4. Stored(seen[c].id) /\ seen[c].token = invitation[seen[c].id].token
  BY <1>1, <1>2 DEF Session, Delivery
<1>5. invitation[seen[c].id] \in InvitationType
  BY <1>1, <1>4, StoredRows
<1> QED  BY <1>1, <1>2, <1>3, <1>4, <1>5
         DEF Session, Stored, AddresseeOf, Letter, InvitationType

LEMMA ProceedStep ==
  ASSUME IInv, NEW c \in Call, NEW next \in Delivering, pc[c] \in Delivering, Proceed(c, next),
         UNCHANGED <<rows, history, directory>>, ProviderTypes',
         created \subseteq created', mailed \subseteq mailed',
         \A letter \in mailed' \ mailed :
            letter = Letter(c) /\ (directory => AddresseeOf(c) \in created),
         next \in {"note", "code"} => AddresseeOf(c) \in created',
         next = "mark_sent" => Letter(c) \in mailed'
  PROVE  IInv'
<1>1. Types /\ Session(c)
  BY DEF IInv
<1>2. next \in Phase
  BY DEF Phase
<1>3. /\ Aside(c)
      /\ pc'[c] = next /\ seen'[c] = seen[c] /\ holds'[c] = {}
      /\ UNCHANGED <<request, actor_role>>
      /\ WorkerTypes' /\ seen' = [d \in Call |-> seen'[d]]
  BY <1>1, <1>2, RowSets, GotoIs DEF Proceed
<1>4. Types'
  BY <1>1, <1>3 DEF Types, TypeOK, RowTypes, HistoryTypes, rows, history
<1>5. Founding' /\ Locks'
  BY <1>3, FoundingStays, LocksStay DEF rows, history
<1>6. Letters' /\ ExistingIsNotMailed'
  <2>1. \A i : Stored(i) => Stored(i)' /\ invitation'[i].email = invitation[i].email
    BY DEF Stored, rows
  <2>2. \A letter \in mailed' : letter \in mailed \/ letter[1] = seen[c].id
    BY DEF Letter
  <2>3. Letters'
    <3>1. Letters
      BY DEF IInv
    <3>2. \A letter \in mailed' : Stored(letter[1])
      BY <2>2, <3>1, DeliveryFacts DEF Letters
    <3>3. email_outbox_entry' = email_outbox_entry
      BY DEF rows
    <3> QED  BY <2>1, <3>1, <3>2, <3>3 DEF Letters
  <2>4. \A letter \in mailed' \ mailed : directory => invitation[letter[1]].email \in created
    BY DEF Letter, AddresseeOf
  <2>5. \A letter \in mailed : directory => invitation[letter[1]].email \in created
    BY DEF IInv, ExistingIsNotMailed
  <2>6. invitation' = invitation /\ directory' = directory
    BY DEF rows
  <2> QED  BY <2>3, <2>4, <2>5, <2>6 DEF ExistingIsNotMailed
<1>7. MembershipFollowsInvitations' /\ SentWasMailed'
  BY DEF IInv, MembershipFollowsInvitations, Joined, Active, SentWasMailed, rows, history
<1>8. DeliveryIsExclusive'
  <2>1. \A d \in Call \ {c} : Delivers(d) => seen[d].id # seen'[c].id
    BY <1>3, OneDelivery, DeliveryFacts
  <2> QED  BY <1>3, <2>1, DeliveryStays
<1>9. Session(c)'
  <2>1. Delivery(c)'
    <3>1. Delivery(c) /\ Delivers(c)
      BY DeliveryFacts
    <3>2. Stored(seen[c].id)' /\ AddresseeOf(c)' = AddresseeOf(c) /\ Letter(c)' = Letter(c)
      BY <1>3, DeliveryFacts DEF Stored, AddresseeOf, Letter, rows
    <3>3. UNCHANGED <<invitation, email_outbox_entry>>
      BY DEF rows
    <3> QED  BY <1>3, <3>1, <3>2, <3>3 DEF Delivery
  <2>2. next \notin {"idle", "open", "loaded", "locked", "found", "insert", "resend", "accept"}
    BY DEF Delivering
  <2> QED  BY <1>3, <2>1, <2>2, DeliveryFacts
      DEF Session, Held, Progress, LoadedRow, LockedRow, LockedInvitation
<1>10. \A d \in Call : Session(d)'
  <2>1. \A d \in Call \ {c} : Kept(d)
    BY RowsKept
  <2> QED  BY <1>3, <1>9, <2>1, SessionsStay
<1> QED  BY <1>4, <1>5, <1>6, <1>7, <1>8, <1>10 DEF IInv

LEMMA SendLetterStep ==
  ASSUME IInv, NEW c \in Call, NEW phase \in {"deliver", "code"}, SendLetter(c, phase),
         phase = "deliver" => ~directory
  PROVE  IInv'
<1>1. pc[c] = phase /\ pc[c] \in Delivering
  BY DEF SendLetter, Delivering
<1>2. PICK delivered \in BOOLEAN, answered \in BOOLEAN :
        /\ answered => delivered
        /\ mailed' = IF delivered THEN mailed \cup {Letter(c)} ELSE mailed
        /\ Proceed(c, IF answered THEN "mark_sent" ELSE "mark_failed")
  BY DEF SendLetter
<1>3. UNCHANGED <<rows, history, directory, account, created>>
  BY DEF SendLetter
<1>4. Letter(c) \in InvitationId \X (Nat \ {0}) /\ Delivery(c) /\ Delivers(c)
  BY <1>1, DeliveryFacts
<1>5. directory => AddresseeOf(c) \in created
  BY <1>1, <1>4 DEF Delivery
<1>6. ProviderTypes'
  BY <1>2, <1>3, <1>4 DEF IInv, Types, TypeOK, ProviderTypes
<1>7. {"mark_sent", "mark_failed"} \subseteq Delivering
  BY DEF Delivering
<1>8. created \subseteq created' /\ mailed \subseteq mailed'
  BY <1>2, <1>3
<1>9. \A letter \in mailed' \ mailed :
         letter = Letter(c) /\ (directory => AddresseeOf(c) \in created)
  BY <1>2, <1>5
<1>10. UNCHANGED <<rows, history, directory>>
  BY <1>3
<1>11. CASE answered
  <2>1. Proceed(c, "mark_sent") /\ Letter(c) \in mailed'
    BY <1>2, <1>11
  <2> QED  BY <1>1, <1>6, <1>7, <1>8, <1>9, <1>10, <2>1, ProceedStep
<1>12. CASE ~answered
  <2>1. Proceed(c, "mark_failed")
    BY <1>2, <1>12
  <2> QED  BY <1>1, <1>6, <1>7, <1>8, <1>9, <1>10, <2>1, ProceedStep
<1> QED  BY <1>11, <1>12

LEMMA FindAccountStep ==
  ASSUME IInv, NEW c \in Call, FindAccount(c)
  PROVE  IInv'
<1>1. pc[c] \in Delivering
  BY DEF FindAccount, Delivering
<1>2. UNCHANGED <<rows, history, directory>> /\ mailed' = mailed /\ created' = created
  BY DEF FindAccount, provider
<1>3. ProviderTypes'
  BY DEF FindAccount, provider, IInv, Types, TypeOK, ProviderTypes
<1>4. {"create", "code", "existing", "mark_failed"} \subseteq Delivering
  BY DEF Delivering
<1>5. Ours(c) => AddresseeOf(c) \in created
  BY <1>1, DeliveryFacts DEF Ours, Delivery
<1>6. PICK next \in {"create", "code", "existing", "mark_failed"} :
        Proceed(c, next) /\ (next = "code" => Ours(c))
  <2>1. CASE Proceed(c, "create")
    BY <2>1
  <2>2. CASE Proceed(c, IF Ours(c) THEN "code" ELSE "existing")
    <3>1. CASE Ours(c)
      BY <2>2, <3>1
    <3>2. CASE ~Ours(c)
      BY <2>2, <3>2
    <3> QED  BY <3>1, <3>2
  <2>3. CASE Proceed(c, "mark_failed")
    BY <2>3
  <2> QED  BY <2>1, <2>2, <2>3 DEF FindAccount
<1> QED  BY <1>1, <1>2, <1>3, <1>4, <1>5, <1>6, ProceedStep

LEMMA CreateAccountStep ==
  ASSUME IInv, NEW c \in Call, CreateAccount(c)
  PROVE  IInv'
<1>1. pc[c] \in Delivering
  BY DEF CreateAccount, Delivering
<1>2. UNCHANGED <<rows, history, directory>> /\ mailed' = mailed
  BY DEF CreateAccount
<1>3. {"note", "mark_failed"} \subseteq Delivering
  BY DEF Delivering
<1>4. ProviderTypes /\ AddresseeOf(c) \in User
  BY <1>1, DeliveryFacts DEF IInv, Types, TypeOK
<1>5. CASE /\ account' = account \cup {AddresseeOf(c)}
           /\ created' = created \cup {AddresseeOf(c)}
           /\ \E answered \in BOOLEAN : Proceed(c, IF answered THEN "note" ELSE "mark_failed")
  <2>1. ProviderTypes'
    BY <1>2, <1>4, <1>5 DEF ProviderTypes
  <2>2. PICK next \in {"note", "mark_failed"} : Proceed(c, next)
    <3>1. PICK answered \in BOOLEAN : Proceed(c, IF answered THEN "note" ELSE "mark_failed")
      BY <1>5
    <3>2. CASE answered
      BY <3>1, <3>2
    <3>3. CASE ~answered
      BY <3>1, <3>3
    <3> QED  BY <3>2, <3>3
  <2> QED  BY <1>1, <1>2, <1>3, <1>5, <2>1, <2>2, ProceedStep
<1>6. CASE UNCHANGED <<account, created>> /\ Proceed(c, "mark_failed")
  <2>1. ProviderTypes'
    BY <1>2, <1>4, <1>6 DEF ProviderTypes
  <2> QED  BY <1>1, <1>2, <1>3, <1>6, <2>1, ProceedStep
<1> QED  BY <1>5, <1>6 DEF CreateAccount
-----------------------------------------------------------------------------
(***************************************************************************)
(* The transactions that write.                                            *)
(***************************************************************************)

\* Every request but the foundation finds a household.
LEMMA Founded ==
  ASSUME IInv, NEW c \in Call, request[c] \in Request, request[c].op # "create"
  PROVE  household # NoHousehold
BY RequestTyped DEF IInv, Founding

\* One person becomes a member or ceases to be one, and the history counts it.
LEMMA MembershipStays ==
  ASSUME IInv, NEW v \in User,
         \A u \in User \ {v} :
           /\ u \in began' <=> u \in began
           /\ acceptances'[u] = acceptances[u] /\ left'[u] = left[u]
           /\ Active(u)' <=> Active(u),
         \/ /\ ~Active(v) /\ Active(v)' /\ left'[v] = left[v]
            /\ \/ v \notin began /\ v \in began' /\ acceptances'[v] = acceptances[v]
               \/ (v \in began' <=> v \in began) /\ acceptances'[v] = acceptances[v] + 1
         \/ /\ Active(v) /\ ~Active(v)' /\ left'[v] = left[v] + 1
            /\ (v \in began' <=> v \in began) /\ acceptances'[v] = acceptances[v]
  PROVE  MembershipFollowsInvitations'
<1>1. \A u \in User : acceptances[u] \in Nat /\ left[u] \in Nat
  BY DEF IInv, Types, TypeOK, HistoryTypes
<1>2. \A u \in User : Joined(u) - left[u] = IF Active(u) THEN 1 ELSE 0
  BY DEF IInv, MembershipFollowsInvitations
<1>3. ASSUME NEW u \in User
      PROVE  Joined(u)' - left'[u] = IF Active(u)' THEN 1 ELSE 0
  <2>1. /\ Joined(u) = (IF u \in began THEN 1 ELSE 0) + acceptances[u]
        /\ Joined(u)' = (IF u \in began' THEN 1 ELSE 0) + acceptances'[u]
    BY DEF Joined
  <2>2. Joined(u) - left[u] = IF Active(u) THEN 1 ELSE 0
    BY <1>2
  <2>3. acceptances[u] \in Nat /\ left[u] \in Nat
    BY <1>1
  <2>4. CASE u = v
    BY <2>1, <2>2, <2>3, <2>4
  <2>5. CASE u # v
    BY <2>1, <2>2, <2>3, <2>5
  <2> QED  BY <2>4, <2>5
<1> QED  BY <1>3 DEF MembershipFollowsInvitations, Joined, Active

LEMMA FoundationIs ==
  ASSUME Types, NEW c \in Call, CreateHousehold(c), request[c] \in Request,
         NEW v \in User, v = request[c].actor
  PROVE  /\ household' \in [name : Name, version : Nat \ {0}] /\ household' # NoHousehold
         /\ member'[v] \in MemberType /\ Active(v)'
         /\ \A u \in User \ {v} : member'[u] = member[u]
         /\ member' \in [User -> MemberType \cup {NoMember}]
<1> DEFINE q == request[c]
<1>1. q.op = "create"
  BY DEF CreateHousehold
<1>2. q.name \in Name
  BY <1>1, RequestTyped DEF WellFormed
<1>3. household' = [name |-> q.name, version |-> 1]
  BY DEF CreateHousehold
<1>4. household' # NoHousehold
  BY <1>3 DEF NoHousehold
<1>5. member \in [User -> MemberType \cup {NoMember}]
  BY DEF Types, TypeOK, RowTypes
<1>6. [role |-> "owner", status |-> "active", version |-> 1] \in MemberType
  BY DEF MemberType, Role
<1>7. member' = [member EXCEPT ![v] = [role |-> "owner", status |-> "active", version |-> 1]]
  BY DEF CreateHousehold
<1>8. member'[v] = [role |-> "owner", status |-> "active", version |-> 1]
  BY <1>2, <1>5, <1>7
<1>9. member'[v].status = "active"
  BY <1>8
<1>10. Active(v)'
  BY <1>9 DEF Active
<1> QED  BY <1>2, <1>3, <1>4, <1>5, <1>6, <1>7, <1>10

LEMMA CreateHouseholdStep ==
  ASSUME IInv, NEW c \in Call, CreateHousehold(c)
  PROVE  IInv'
<1> DEFINE q == request[c]
<1>1. Types /\ Session(c) /\ Founding
  BY DEF IInv
<1>2. pc[c] = "open" /\ q.op = "create" /\ began' = began \cup {q.actor} /\ EndRequest(c)
      /\ UNCHANGED <<invitation, email_outbox_entry, provider, acceptances, left>>
  BY DEF CreateHousehold
<1>3. q \in Request /\ q.actor \in User
  BY <1>1, <1>2, RequestTyped DEF Session, Progress, WellFormed
<1> PICK v \in User : v = q.actor
  BY <1>3
<1>4. /\ household' \in [name : Name, version : Nat \ {0}] /\ household' # NoHousehold
      /\ member'[v] \in MemberType /\ Active(v)'
      /\ \A u \in User \ {v} : member'[u] = member[u]
      /\ member' \in [User -> MemberType \cup {NoMember}]
  BY <1>1, <1>2, <1>3, FoundationIs
<1>5. /\ Aside(c) /\ pc'[c] = "idle" /\ request'[c] = NoRequest /\ holds'[c] = {}
      /\ WorkerTypes' /\ seen' = [d \in Call |-> seen'[d]] /\ Session(c)' /\ ~Delivers(c)'
  BY <1>1, <1>2, EndRequestIs, IdleAfter
<1>6. /\ household = NoHousehold /\ began = {} /\ \A u \in User : member[u] = NoMember
      /\ \A d \in Call \ {c} : request[d].op = "none"
  BY <1>1, <1>2 DEF Founding
<1>7. ASSUME NEW d \in Call \ {c} PROVE Kept(d)
  <2>1. holds[d] = {} /\ ~Delivers(d) /\ pc[d] # "resend"
    <3>1. Session(d)
      BY DEF IInv
    <3>2. pc[d] = "idle"
      BY <1>6, <3>1, RequestTyped DEF Session, Progress
    <3> QED  BY <3>1, <3>2 DEF Session, Held, Delivers, Delivering
  <2> QED  BY <1>2, <1>6, <2>1 DEF Kept, provider
<1>8. Founding'
  BY <1>4, <1>5, <1>6 DEF Founding, Aside, NoRequest
<1>9. MembershipFollowsInvitations'
  <2>1. ~Active(v) /\ v \notin began
    BY <1>3, <1>6, AbsentRows DEF Active
  <2>2. \A u \in User \ {v} : Active(u)' <=> Active(u)
    BY <1>4 DEF Active
  <2> QED  BY <1>2, <1>3, <1>4, <2>1, <2>2, MembershipStays
<1>10. Types'
  BY <1>1, <1>2, <1>3, <1>4, <1>5
     DEF Types, TypeOK, RowTypes, ProviderTypes, HistoryTypes, provider
<1>11. Letters' /\ SentWasMailed' /\ ExistingIsNotMailed'
  BY <1>2 DEF IInv, Letters, Stored, SentWasMailed, ExistingIsNotMailed, provider
<1>12. Locks' /\ DeliveryIsExclusive'
  BY <1>5, LocksStay, DeliveryStays
<1>13. \A d \in Call : Session(d)'
  BY <1>5, <1>7, SessionsStay
<1> QED  BY <1>8, <1>9, <1>10, <1>11, <1>12, <1>13 DEF IInv

LEMMA UpdateHouseholdStep ==
  ASSUME IInv, NEW c \in Call, UpdateHousehold(c)
  PROVE  IInv'
<1> DEFINE q == request[c]
<1>1. Types /\ Session(c)
  BY DEF IInv
<1>2. /\ pc[c] = "loaded" /\ q.op = "settings" /\ EndRequest(c)
      /\ household' = [name |-> Assigned(household.name, seen[c].name, q.name),
                       version |-> seen[c].version + 1]
      /\ UNCHANGED <<member, invitation, email_outbox_entry, provider, history>>
  BY DEF UpdateHousehold
<1>3. q \in Request /\ q.name \in Name /\ seen[c].version \in Nat
  BY <1>1, <1>2, RequestTyped DEF Session, Progress, WellFormed, LoadedRow
<1>4. household # NoHousehold
  BY <1>2, <1>3, Founded
<1>5. household.name \in Name
  BY <1>1, <1>4 DEF Types, TypeOK, RowTypes
<1>6. Assigned(household.name, seen[c].name, q.name) \in Name
  BY <1>3, <1>5 DEF Assigned
<1>7. household' \in [name : Name, version : Nat \ {0}] /\ household' # NoHousehold
  <2>1. seen[c].version + 1 \in Nat \ {0}
    BY <1>3
  <2> QED  BY <1>2, <1>6, <2>1 DEF NoHousehold
<1>8. /\ Aside(c) /\ pc'[c] = "idle" /\ request'[c] = NoRequest /\ holds'[c] = {}
      /\ WorkerTypes' /\ seen' = [d \in Call |-> seen'[d]] /\ Session(c)' /\ ~Delivers(c)'
  BY <1>1, <1>2, EndRequestIs, IdleAfter
<1>9. \A d \in Call \ {c} : Kept(d)
  BY <1>2 DEF Kept, Active, Resendable, provider
<1>10. Founding'
  BY <1>2, <1>4, <1>7, <1>8, FoundingStays DEF NoRequest
<1>11. Types'
  BY <1>1, <1>2, <1>7, <1>8
     DEF Types, TypeOK, RowTypes, ProviderTypes, HistoryTypes, provider, history
<1>12. Letters' /\ MembershipFollowsInvitations' /\ SentWasMailed' /\ ExistingIsNotMailed'
  BY <1>2 DEF IInv, Letters, Stored, MembershipFollowsInvitations, Joined, Active, SentWasMailed,
     ExistingIsNotMailed, provider, history
<1>13. Locks' /\ DeliveryIsExclusive'
  BY <1>8, LocksStay, DeliveryStays
<1>14. \A d \in Call : Session(d)'
  BY <1>8, <1>9, SessionsStay
<1> QED  BY <1>10, <1>11, <1>12, <1>13, <1>14 DEF IInv

LEMMA RoleChangedIs ==
  ASSUME NEW row \in MemberType, NEW loaded, loaded.version \in Nat, NEW role \in Role
  PROVE  /\ RoleChanged(row, loaded, role) \in MemberType
         /\ RoleChanged(row, loaded, role).status = row.status
<1>1. Assigned(row.role, loaded.role, role) \in Role
  BY DEF Assigned, MemberType
<1>2. loaded.version + 1 \in Nat \ {0}
  OBVIOUS
<1> HIDE DEF Assigned
<1> QED  BY <1>1, <1>2 DEF RoleChanged, MemberType

LEMMA UpdateMemberRoleStep ==
  ASSUME IInv, NEW c \in Call, UpdateMemberRole(c)
  PROVE  IInv'
<1> DEFINE q == request[c]
<1>1. Types /\ Session(c)
  BY DEF IInv
<1>2. /\ pc[c] = "loaded" /\ q.op = "role" /\ CanAssign(c) /\ EndRequest(c)
      /\ member' = [member EXCEPT ![q.target] = RoleChanged(member[q.target], seen[c], q.role)]
      /\ UNCHANGED <<household, invitation, email_outbox_entry, provider, history>>
  BY DEF UpdateMemberRole
<1>3. q \in Request /\ q.target \in User /\ q.role \in Role
  BY <1>1, <1>2, RequestTyped DEF Session, Progress, WellFormed
<1> PICK v \in User : v = q.target
  BY <1>3
<1>4. member[v] \in MemberType /\ seen[c].version \in Nat
  BY <1>1, <1>2, StoredRows DEF Session, LoadedRow, CanAssign, Target
<1> DEFINE row == RoleChanged(member[v], seen[c], q.role)
<1>5. row \in MemberType /\ row.status = member[v].status
  BY <1>3, <1>4, RoleChangedIs
<1>6. member' = [member EXCEPT ![v] = row]
  BY <1>2
<1> HIDE DEF row
<1>7. member \in [User -> MemberType \cup {NoMember}]
  BY <1>1 DEF Types, TypeOK, RowTypes
<1>8. /\ member' \in [User -> MemberType \cup {NoMember}]
      /\ \A u \in User : Active(u)' <=> Active(u)
      /\ \A u \in User : member[u] # NoMember => member'[u] # NoMember
  BY <1>5, <1>6, <1>7, AbsentRows DEF Active
<1>9. household # NoHousehold
  BY <1>2, <1>3, Founded
<1>10. /\ Aside(c) /\ pc'[c] = "idle" /\ request'[c] = NoRequest /\ holds'[c] = {}
       /\ WorkerTypes' /\ seen' = [d \in Call |-> seen'[d]] /\ Session(c)' /\ ~Delivers(c)'
  BY <1>1, <1>2, EndRequestIs, IdleAfter
<1>11. \A d \in Call \ {c} : Kept(d)
  BY <1>2, <1>8 DEF Kept, Resendable, provider
<1>12. Founding'
  BY <1>2, <1>9, <1>10, FoundingStays DEF NoRequest
<1>13. Types'
  BY <1>1, <1>2, <1>8, <1>10
     DEF Types, TypeOK, RowTypes, ProviderTypes, HistoryTypes, provider, history
<1>14. Letters' /\ SentWasMailed' /\ ExistingIsNotMailed'
  BY <1>2 DEF IInv, Letters, Stored, SentWasMailed, ExistingIsNotMailed, provider
<1>15. MembershipFollowsInvitations'
  BY <1>2, <1>8 DEF IInv, MembershipFollowsInvitations, Joined, history
<1>16. Locks' /\ DeliveryIsExclusive'
  BY <1>10, LocksStay, DeliveryStays
<1>17. \A d \in Call : Session(d)'
  BY <1>10, <1>11, SessionsStay
<1> QED  BY <1>12, <1>13, <1>14, <1>15, <1>16, <1>17 DEF IInv

LEMMA RevokeMemberStep ==
  ASSUME IInv, NEW c \in Call, RevokeMember(c)
  PROVE  IInv'
<1> DEFINE q == request[c]
<1>1. Types /\ Session(c)
  BY DEF IInv
<1>2. /\ pc[c] = "locked" /\ q.op = "remove" /\ EndRequest(c)
      /\ member' = [member EXCEPT ![q.target].status = "revoked",
                                  ![q.target].version = seen[c].version + 1]
      /\ left' = [left EXCEPT ![q.target] = @ + 1]
      /\ UNCHANGED <<household, invitation, email_outbox_entry, provider, began, acceptances>>
  BY DEF RevokeMember
<1>3. q \in Request /\ q.target \in User
  BY <1>1, <1>2, RequestTyped DEF Session, Progress, WellFormed
<1> PICK v \in User : v = q.target
  BY <1>3
<1>4. MemberRow(v) \in holds[c] /\ Active(v) /\ seen[c].version \in Nat
  BY <1>1, <1>2 DEF Session, LockedRow
<1>5. member[v] \in MemberType
  BY <1>1, <1>4, StoredRows
<1> DEFINE row == [member[v] EXCEPT !.status = "revoked", !.version = seen[c].version + 1]
<1>6. row \in MemberType /\ row.status = "revoked"
  <2>1. seen[c].version + 1 \in Nat \ {0}
    BY <1>4
  <2> QED  BY <1>5, <2>1 DEF MemberType
<1>7. member \in [User -> MemberType \cup {NoMember}] /\ left \in [User -> Nat]
  BY <1>1 DEF Types, TypeOK, RowTypes, HistoryTypes
<1>8. member' = [member EXCEPT ![v] = row]
  BY <1>2, <1>7
<1> HIDE DEF row
<1>9. /\ member' \in [User -> MemberType \cup {NoMember}]
      /\ ~Active(v)'
      /\ \A u \in User \ {v} : Active(u)' <=> Active(u)
      /\ \A u \in User : member[u] # NoMember => member'[u] # NoMember
  BY <1>6, <1>7, <1>8, AbsentRows DEF Active
<1>10. household # NoHousehold
  BY <1>2, <1>3, Founded
<1>11. /\ Aside(c) /\ pc'[c] = "idle" /\ request'[c] = NoRequest /\ holds'[c] = {}
       /\ WorkerTypes' /\ seen' = [d \in Call |-> seen'[d]] /\ Session(c)' /\ ~Delivers(c)'
  BY <1>1, <1>2, EndRequestIs, IdleAfter
<1>12. ASSUME NEW d \in Call \ {c} PROVE Kept(d)
  <2>1. MemberRow(v) \notin holds[d]
    BY <1>4 DEF IInv, Locks
  <2> QED  BY <1>2, <1>9, <2>1 DEF Kept, Resendable, provider
<1>13. Founding'
  BY <1>2, <1>10, <1>11, FoundingStays DEF NoRequest
<1>14. Types'
  BY <1>1, <1>2, <1>7, <1>9, <1>11
     DEF Types, TypeOK, RowTypes, ProviderTypes, HistoryTypes, provider
<1>15. Letters' /\ SentWasMailed' /\ ExistingIsNotMailed'
  BY <1>2 DEF IInv, Letters, Stored, SentWasMailed, ExistingIsNotMailed, provider
<1>16. MembershipFollowsInvitations'
  BY <1>2, <1>4, <1>7, <1>9, MembershipStays
<1>17. Locks' /\ DeliveryIsExclusive'
  BY <1>11, LocksStay, DeliveryStays
<1>18. \A d \in Call : Session(d)'
  BY <1>11, <1>12, SessionsStay
<1> QED  BY <1>13, <1>14, <1>15, <1>16, <1>17, <1>18 DEF IInv

LEMMA CreateInvitationStep ==
  ASSUME IInv, NEW c \in Call, CreateInvitation(c)
  PROVE  IInv'
<1> DEFINE q == request[c]
<1>1. Types /\ Session(c)
  BY DEF IInv
<1>2. PICK i \in Unused :
        /\ invitation' = [invitation EXCEPT ![i] =
             [email |-> q.email, role |-> q.role, status |-> "pending", expired |-> FALSE,
              token |-> 1, version |-> 1]]
        /\ email_outbox_entry' =
             [email_outbox_entry EXCEPT ![i] = [status |-> "suppressed", zitadel_user |-> FALSE]]
        /\ Goto(c, "deliver", Intent(i, 1, FALSE), {})
  BY DEF CreateInvitation
<1>3. pc[c] = "insert" /\ UNCHANGED <<household, member, provider, history>>
  BY DEF CreateInvitation
<1>4. q \in Request /\ q.op = "invite" /\ q.email \in User /\ q.role \in Role \ {"owner"}
  BY <1>1, <1>3, RequestTyped DEF Session, Progress, WellFormed
<1>5. i \in InvitationId /\ invitation[i] = NoInvitation /\ ~Stored(i)
  BY <1>2 DEF Unused, Stored
<1> DEFINE row == [email |-> q.email, role |-> q.role, status |-> "pending", expired |-> FALSE,
                   token |-> 1, version |-> 1]
           entry == [status |-> "suppressed", zitadel_user |-> FALSE]
<1>6. row \in InvitationType /\ row.token = 1 /\ row.expired = FALSE /\ row # NoInvitation
  BY <1>4, AbsentRows DEF InvitationType
<1>7. /\ entry \in [status : {"absent", "suppressed", "sent", "failed"}, zitadel_user : BOOLEAN]
      /\ entry.status = "suppressed" /\ entry.zitadel_user = FALSE
  OBVIOUS
<1>8. invitation' = [invitation EXCEPT ![i] = row]
      /\ email_outbox_entry' = [email_outbox_entry EXCEPT ![i] = entry]
  BY <1>2
<1> HIDE DEF row, entry
<1>9. /\ invitation \in [InvitationId -> InvitationType \cup {NoInvitation}]
      /\ email_outbox_entry \in [InvitationId ->
           [status : {"absent", "suppressed", "sent", "failed"}, zitadel_user : BOOLEAN]]
  BY <1>1 DEF Types, TypeOK, RowTypes
<1>10. /\ invitation' \in [InvitationId -> InvitationType \cup {NoInvitation}]
       /\ email_outbox_entry' \in [InvitationId ->
            [status : {"absent", "suppressed", "sent", "failed"}, zitadel_user : BOOLEAN]]
       /\ invitation'[i] = row /\ email_outbox_entry'[i] = entry
       /\ \A j \in InvitationId \ {i} :
            invitation'[j] = invitation[j] /\ email_outbox_entry'[j] = email_outbox_entry[j]
  BY <1>5, <1>6, <1>7, <1>8, <1>9
<1>11. /\ Intent(i, 1, FALSE).id = i /\ Intent(i, 1, FALSE).token = 1
       /\ Intent(i, 1, FALSE).ours = FALSE
  BY DEF Intent
<1>12. "deliver" \in Phase /\ "deliver" \in Delivering
  BY DEF Phase, Delivering
<1>13. /\ Aside(c) /\ pc'[c] = "deliver" /\ seen'[c] = Intent(i, 1, FALSE) /\ holds'[c] = {}
       /\ UNCHANGED <<request, actor_role>>
       /\ WorkerTypes' /\ seen' = [d \in Call |-> seen'[d]]
  BY <1>1, <1>2, <1>12, RowSets, GotoIs
<1>14. household # NoHousehold
  BY <1>4, Founded
<1>15. ASSUME NEW d \in Call \ {c} PROVE Kept(d)
  <2>1. Delivers(d) => seen[d].id # i
    BY <1>5 DEF IInv, Session, Delivery
  <2>2. pc[d] = "resend" => seen[d] # i
    BY <1>5 DEF IInv, Session, LockedInvitation
  <2>3. \A j \in InvitationId : invitation[j] # NoInvitation => j # i
    BY <1>5
  <2> QED  BY <1>3, <1>10, <2>1, <2>2, <2>3 DEF Kept, Active, Resendable, provider
<1>16. \A j : Stored(j) => j # i /\ Stored(j)' /\ invitation'[j] = invitation[j]
                           /\ email_outbox_entry'[j] = email_outbox_entry[j]
  BY <1>5, <1>10 DEF Stored
<1>17. Founding' /\ Locks'
  BY <1>3, <1>13, <1>14, FoundingStays, LocksStay
<1>18. Types'
  BY <1>1, <1>3, <1>10, <1>13
     DEF Types, TypeOK, RowTypes, ProviderTypes, HistoryTypes, provider, history
<1>19. Letters' /\ SentWasMailed' /\ ExistingIsNotMailed'
  <2>1. created' = created /\ mailed' = mailed /\ directory' = directory
    BY <1>3 DEF provider
  <2>2. Letters /\ SentWasMailed /\ ExistingIsNotMailed
    BY DEF IInv
  <2>3. Letters'
    BY <1>7, <1>10, <1>16, <2>1, <2>2 DEF Letters
  <2>4. SentWasMailed'
    BY <1>7, <1>10, <2>1, <2>2 DEF SentWasMailed
  <2>5. ExistingIsNotMailed'
    BY <1>16, <2>1, <2>2 DEF ExistingIsNotMailed, Letters
  <2> QED  BY <2>3, <2>4, <2>5
<1>20. MembershipFollowsInvitations'
  BY <1>3 DEF IInv, MembershipFollowsInvitations, Joined, Active, history
<1>21. DeliveryIsExclusive'
  <2>1. \A d \in Call \ {c} : Delivers(d) => seen[d].id # i
    BY <1>5 DEF IInv, Session, Delivery
  <2> QED  BY <1>11, <1>13, <2>1, DeliveryStays
<1>22. Session(c)'
  <2>1. Stored(i)' /\ ~invitation'[i].expired /\ invitation'[i].token = 1
    BY <1>5, <1>6, <1>10 DEF Stored
  <2>2. Delivery(c)'
    BY <1>7, <1>10, <1>11, <1>13, <2>1 DEF Delivery, Stored
  <2> QED  BY <1>4, <1>12, <1>13, <2>2
      DEF Session, Held, Progress, LoadedRow, LockedRow, LockedInvitation
<1>23. \A d \in Call : Session(d)'
  BY <1>13, <1>15, <1>22, SessionsStay
<1> QED  BY <1>17, <1>18, <1>19, <1>20, <1>21, <1>23 DEF IInv

Resent(old, role, token) ==
  [old EXCEPT !.role = role, !.expired = FALSE, !.token = token, !.version = @ + 1]

LEMMA ResentIs ==
  ASSUME NEW old \in InvitationType, NEW role \in Role \ {"owner"}, NEW token \in Nat \ {0}
  PROVE  /\ Resent(old, role, token) \in InvitationType
         /\ Resent(old, role, token).token = token
         /\ Resent(old, role, token).expired = FALSE
         /\ Resent(old, role, token).email = old.email
<1>1. old.version + 1 \in Nat \ {0}
  BY DEF InvitationType
<1> QED  BY <1>1 DEF InvitationType, Resent

LEMMA ResendInvitationStep ==
  ASSUME IInv, NEW c \in Call, ResendInvitation(c)
  PROVE  IInv'
<1> DEFINE q == request[c]
<1>1. Types /\ Session(c)
  BY DEF IInv
<1>2. /\ pc[c] = "resend" /\ UNCHANGED <<household, member, provider, history>>
  BY DEF ResendInvitation
<1>3. q \in Request /\ q.op = "invite" /\ q.email \in User /\ q.role \in Role \ {"owner"}
  BY <1>1, <1>2, RequestTyped DEF Session, Progress, WellFormed
<1>4. Stored(seen[c]) /\ {InvitationRow(seen[c]), OutboxRow(seen[c])} \subseteq holds[c]
      /\ Resendable(seen[c])
  BY <1>1, <1>2 DEF Session, LockedInvitation
<1> PICK i \in InvitationId : i = seen[c]
  BY <1>4 DEF Stored
<1> DEFINE token == invitation[i].token + 1
           row == Resent(invitation[i], q.role, token)
           entry == Requeued(email_outbox_entry[i])
           ours == email_outbox_entry[i].zitadel_user
<1>5. /\ invitation \in [InvitationId -> InvitationType \cup {NoInvitation}]
      /\ email_outbox_entry \in [InvitationId ->
           [status : {"absent", "suppressed", "sent", "failed"}, zitadel_user : BOOLEAN]]
  BY <1>1 DEF Types, TypeOK, RowTypes
<1>6. invitation[i] \in InvitationType
  BY <1>1, <1>4, StoredRows
<1>7. /\ row \in InvitationType /\ row.token = token /\ row.expired = FALSE
      /\ row.email = invitation[i].email /\ row # NoInvitation
  <2>1. token \in Nat \ {0}
    BY <1>6 DEF InvitationType
  <2> HIDE DEF token
  <2>2. row \in InvitationType /\ row.token = token /\ row.expired = FALSE
        /\ row.email = invitation[i].email
    BY <1>3, <1>6, <2>1, ResentIs
  <2> QED  BY <2>2, AbsentRows
<1>8. /\ entry \in [status : {"absent", "suppressed", "sent", "failed"}, zitadel_user : BOOLEAN]
      /\ entry.status = "suppressed" /\ entry.zitadel_user = ours /\ ours \in BOOLEAN
  BY <1>5 DEF Requeued
<1>9. invitation' = [invitation EXCEPT ![i] = row]
      /\ email_outbox_entry' = [email_outbox_entry EXCEPT ![i] = entry]
      /\ Goto(c, "deliver", Intent(i, token, ours), {})
  <2>1. invitation' = [invitation EXCEPT ![i].role = q.role, ![i].expired = FALSE,
                                         ![i].token = token, ![i].version = @ + 1]
    BY DEF ResendInvitation
  <2>2. invitation' = [invitation EXCEPT ![i] = row]
    BY <1>5, <2>1 DEF Resent
  <2> QED  BY <2>2 DEF ResendInvitation
<1> HIDE DEF row, entry, ours, token
<1>10. /\ invitation' \in [InvitationId -> InvitationType \cup {NoInvitation}]
       /\ email_outbox_entry' \in [InvitationId ->
            [status : {"absent", "suppressed", "sent", "failed"}, zitadel_user : BOOLEAN]]
       /\ invitation'[i] = row /\ email_outbox_entry'[i] = entry
       /\ \A j \in InvitationId \ {i} :
            invitation'[j] = invitation[j] /\ email_outbox_entry'[j] = email_outbox_entry[j]
  BY <1>5, <1>7, <1>8, <1>9
<1>11. /\ Intent(i, token, ours).id = i /\ Intent(i, token, ours).token = token
       /\ Intent(i, token, ours).ours = ours
  BY DEF Intent
<1>12. "deliver" \in Phase /\ "deliver" \in Delivering
  BY DEF Phase, Delivering
<1>13. /\ Aside(c) /\ pc'[c] = "deliver" /\ seen'[c] = Intent(i, token, ours) /\ holds'[c] = {}
       /\ UNCHANGED <<request, actor_role>>
       /\ WorkerTypes' /\ seen' = [d \in Call |-> seen'[d]]
  BY <1>1, <1>9, <1>12, RowSets, GotoIs
<1>14. household # NoHousehold
  BY <1>3, Founded
<1>15. \A d \in Call : Delivers(d) => seen[d].id # i
  <2> SUFFICES ASSUME NEW d \in Call, Delivers(d), seen[d].id = i PROVE FALSE
    OBVIOUS
  <2>1. Delivery(d)
    BY DEF IInv, Session
  <2> QED  BY <1>4, <2>1 DEF Delivery, Resendable
<1>16. \A d \in Call \ {c} : pc[d] = "resend" => seen[d] # i
  <2> SUFFICES ASSUME NEW d \in Call \ {c}, pc[d] = "resend", seen[d] = i PROVE FALSE
    OBVIOUS
  <2>1. InvitationRow(i) \in holds[d]
    BY DEF IInv, Session, LockedInvitation
  <2> QED  BY <1>4, <2>1 DEF IInv, Locks
<1>17. \A d \in Call \ {c} : Kept(d)
  BY <1>2, <1>7, <1>10, <1>15, <1>16 DEF Kept, Active, Resendable, provider
<1>18. \A j : Stored(j) => Stored(j)' /\ invitation'[j].email = invitation[j].email
  BY <1>7, <1>10 DEF Stored
<1>19. Founding' /\ Locks'
  BY <1>2, <1>13, <1>14, FoundingStays, LocksStay
<1>20. Types'
  BY <1>1, <1>2, <1>10, <1>13
     DEF Types, TypeOK, RowTypes, ProviderTypes, HistoryTypes, provider, history
<1>21. Letters' /\ SentWasMailed' /\ ExistingIsNotMailed'
  <2>1. created' = created /\ mailed' = mailed /\ directory' = directory
    BY <1>2 DEF provider
  <2>2. Letters /\ SentWasMailed /\ ExistingIsNotMailed
    BY DEF IInv
  <2>3. \A j \in InvitationId :
          email_outbox_entry'[j].zitadel_user = email_outbox_entry[j].zitadel_user
    BY <1>8, <1>10 DEF ours
  <2>4. Letters'
    BY <1>18, <2>1, <2>2, <2>3 DEF Letters
  <2>5. SentWasMailed'
    BY <1>8, <1>10, <2>1, <2>2 DEF SentWasMailed
  <2>6. ExistingIsNotMailed'
    BY <1>18, <2>1, <2>2 DEF ExistingIsNotMailed, Letters
  <2> QED  BY <2>4, <2>5, <2>6
<1>22. MembershipFollowsInvitations'
  BY <1>2 DEF IInv, MembershipFollowsInvitations, Joined, Active, history
<1>23. DeliveryIsExclusive'
  BY <1>11, <1>13, <1>15, DeliveryStays
<1>24. Session(c)'
  <2>1. Stored(i)' /\ ~invitation'[i].expired /\ invitation'[i].token = token
    BY <1>7, <1>10 DEF Stored
  <2>2. ours => invitation'[i].email \in created'
    BY <1>2, <1>7, <1>10 DEF IInv, Letters, provider, ours
  <2>3. Delivery(c)'
    BY <1>8, <1>10, <1>11, <1>13, <2>1, <2>2 DEF Delivery, Stored, AddresseeOf
  <2> QED  BY <1>3, <1>12, <1>13, <2>3
      DEF Session, Held, Progress, LoadedRow, LockedRow, LockedInvitation
<1>25. \A d \in Call : Session(d)'
  BY <1>13, <1>17, <1>24, SessionsStay
<1> QED  BY <1>19, <1>20, <1>21, <1>22, <1>23, <1>25 DEF IInv

\* The outbox entry of a delivery changes, by its own worker.
LEMMA NoteAccountStep ==
  ASSUME IInv, NEW c \in Call, NoteAccount(c)
  PROVE  IInv'
<1>1. Types /\ Session(c)
  BY DEF IInv
<1>2. /\ pc[c] = "note" /\ Proceed(c, "code")
      /\ email_outbox_entry' = [email_outbox_entry EXCEPT ![seen[c].id].zitadel_user = TRUE]
      /\ UNCHANGED <<household, member, invitation, provider, history>>
  BY DEF NoteAccount
<1>3. pc[c] \in Delivering /\ "code" \in Delivering /\ "code" \in Phase
  BY <1>2 DEF Delivering, Phase
<1>4. /\ Delivers(c) /\ Delivery(c) /\ Stored(seen[c].id) /\ seen[c].id \in InvitationId
      /\ request[c] \in Request /\ request[c].op = "invite"
  BY <1>3, DeliveryFacts
<1> PICK i \in InvitationId : i = seen[c].id
  BY <1>4
<1>5. invitation[i].email \in created
  BY <1>2, <1>4 DEF Delivery, AddresseeOf
<1>6. email_outbox_entry \in [InvitationId ->
        [status : {"absent", "suppressed", "sent", "failed"}, zitadel_user : BOOLEAN]]
  BY <1>1 DEF Types, TypeOK, RowTypes
<1>7. /\ email_outbox_entry' \in [InvitationId ->
           [status : {"absent", "suppressed", "sent", "failed"}, zitadel_user : BOOLEAN]]
      /\ \A j \in InvitationId : email_outbox_entry'[j].status = email_outbox_entry[j].status
      /\ \A j \in InvitationId \ {i} : email_outbox_entry'[j] = email_outbox_entry[j]
  BY <1>2, <1>6
<1>8. /\ Aside(c) /\ pc'[c] = "code" /\ seen'[c] = seen[c] /\ holds'[c] = {}
      /\ UNCHANGED <<request, actor_role>>
      /\ WorkerTypes' /\ seen' = [d \in Call |-> seen'[d]]
  BY <1>1, <1>2, <1>3, RowSets, GotoIs DEF Proceed
<1>9. \A d \in Call \ {c} : Kept(d)
  BY <1>2, <1>7 DEF Kept, Active, Resendable, provider
<1>10. Founding' /\ Locks'
  BY <1>2, <1>8, FoundingStays, LocksStay DEF history
<1>11. Types'
  BY <1>1, <1>2, <1>7, <1>8
     DEF Types, TypeOK, RowTypes, ProviderTypes, HistoryTypes, provider, history
<1>12. Letters' /\ SentWasMailed' /\ ExistingIsNotMailed'
  <2>1. created' = created /\ mailed' = mailed /\ directory' = directory /\ invitation' = invitation
    BY <1>2 DEF provider
  <2>2. Letters /\ SentWasMailed /\ ExistingIsNotMailed
    BY DEF IInv
  <2>3. Letters'
    BY <1>4, <1>5, <1>7, <2>1, <2>2 DEF Letters, Stored
  <2>4. SentWasMailed'
    BY <1>7, <2>1, <2>2 DEF SentWasMailed
  <2>5. ExistingIsNotMailed'
    BY <2>1, <2>2 DEF ExistingIsNotMailed
  <2> QED  BY <2>3, <2>4, <2>5
<1>13. MembershipFollowsInvitations'
  BY <1>2 DEF IInv, MembershipFollowsInvitations, Joined, Active, history
<1>14. DeliveryIsExclusive'
  <2>1. \A d \in Call \ {c} : Delivers(d) => seen[d].id # seen'[c].id
    BY <1>4, <1>8, OneDelivery
  <2> QED  BY <1>8, <2>1, DeliveryStays
<1>15. Session(c)'
  <2>1. AddresseeOf(c)' = invitation[i].email /\ Stored(i)'
    BY <1>2, <1>4, <1>8 DEF AddresseeOf, Stored
  <2>2. Delivery(c)'
    BY <1>2, <1>4, <1>5, <1>7, <1>8, <2>1 DEF Delivery, Stored, provider
  <2> QED  BY <1>4, <1>8, <2>2
      DEF Session, Held, Progress, LoadedRow, LockedRow, LockedInvitation
<1>16. \A d \in Call : Session(d)'
  BY <1>8, <1>9, <1>15, SessionsStay
<1> QED  BY <1>10, <1>11, <1>12, <1>13, <1>14, <1>16 DEF IInv

LEMMA MarkStep ==
  ASSUME IInv, NEW c \in Call, Mark(c)
  PROVE  IInv'
<1> DEFINE status == IF pc[c] = "mark_sent" THEN "sent" ELSE "failed"
<1>1. Types /\ Session(c)
  BY DEF IInv
<1>2. /\ pc[c] \in {"mark_sent", "mark_failed"} /\ EndRequest(c)
      /\ email_outbox_entry' = [email_outbox_entry EXCEPT ![seen[c].id].status = status]
      /\ UNCHANGED <<household, member, invitation, provider, history>>
  BY DEF Mark
<1>3. pc[c] \in Delivering
  BY <1>2 DEF Delivering
<1>4. Delivers(c) /\ Delivery(c) /\ Stored(seen[c].id) /\ seen[c].id \in InvitationId
  BY <1>3, DeliveryFacts
<1> PICK i \in InvitationId : i = seen[c].id
  BY <1>4
<1>5. status = "sent" => <<i, invitation[i].token>> \in mailed
  BY <1>4 DEF Delivery, Letter
<1>6. email_outbox_entry \in [InvitationId ->
        [status : {"absent", "suppressed", "sent", "failed"}, zitadel_user : BOOLEAN]]
  BY <1>1 DEF Types, TypeOK, RowTypes
<1>7. status \in {"sent", "failed"}
  OBVIOUS
<1> HIDE DEF status
<1>8. /\ email_outbox_entry' \in [InvitationId ->
           [status : {"absent", "suppressed", "sent", "failed"}, zitadel_user : BOOLEAN]]
      /\ email_outbox_entry'[i].status = status
      /\ \A j \in InvitationId :
            email_outbox_entry'[j].zitadel_user = email_outbox_entry[j].zitadel_user
      /\ \A j \in InvitationId \ {i} : email_outbox_entry'[j] = email_outbox_entry[j]
  BY <1>2, <1>6, <1>7
<1>9. /\ Aside(c) /\ pc'[c] = "idle" /\ request'[c] = NoRequest /\ holds'[c] = {}
      /\ WorkerTypes' /\ seen' = [d \in Call |-> seen'[d]] /\ Session(c)' /\ ~Delivers(c)'
  BY <1>1, <1>2, EndRequestIs, IdleAfter
<1>10. ASSUME NEW d \in Call \ {c} PROVE Kept(d)
  <2>1. Delivers(d) => seen[d].id # i
    BY <1>4, OneDelivery
  <2>2. ~Resendable(i)
    BY <1>4 DEF Delivery, Resendable
  <2> QED  BY <1>2, <1>8, <2>1, <2>2 DEF Kept, Active, Resendable, provider
<1>11. Founding' /\ Locks' /\ DeliveryIsExclusive'
  BY <1>2, <1>9, FoundingStays, LocksStay, DeliveryStays DEF history, NoRequest
<1>12. Types'
  BY <1>1, <1>2, <1>8, <1>9
     DEF Types, TypeOK, RowTypes, ProviderTypes, HistoryTypes, provider, history
<1>13. Letters' /\ SentWasMailed' /\ ExistingIsNotMailed'
  <2>1. created' = created /\ mailed' = mailed /\ directory' = directory /\ invitation' = invitation
    BY <1>2 DEF provider
  <2>2. Letters /\ SentWasMailed /\ ExistingIsNotMailed
    BY DEF IInv
  <2>3. Letters'
    BY <1>8, <2>1, <2>2 DEF Letters, Stored
  <2>4. SentWasMailed'
    BY <1>5, <1>8, <2>1, <2>2 DEF SentWasMailed
  <2>5. ExistingIsNotMailed'
    BY <2>1, <2>2 DEF ExistingIsNotMailed
  <2> QED  BY <2>3, <2>4, <2>5
<1>14. MembershipFollowsInvitations'
  BY <1>2 DEF IInv, MembershipFollowsInvitations, Joined, Active, history
<1>15. \A d \in Call : Session(d)'
  BY <1>9, <1>10, SessionsStay
<1> QED  BY <1>11, <1>12, <1>13, <1>14, <1>15 DEF IInv

\* What the rewriting of one stored invitation leaves as it was.
LEMMA Rewritten ==
  ASSUME IInv, NEW i \in InvitationId, Stored(i), NEW row \in InvitationType,
         row.email = invitation[i].email, row.token = invitation[i].token,
         invitation' = [invitation EXCEPT ![i] = row], UNCHANGED <<email_outbox_entry, provider>>
  PROVE  /\ invitation' \in [InvitationId -> InvitationType \cup {NoInvitation}]
         /\ Letters' /\ SentWasMailed' /\ ExistingIsNotMailed'
         /\ \A j \in InvitationId :
              /\ invitation[j] # NoInvitation <=> invitation'[j] # NoInvitation
              /\ invitation'[j].email = invitation[j].email
              /\ invitation'[j].token = invitation[j].token
         /\ invitation'[i] = row
         /\ \A j \in InvitationId \ {i} : invitation'[j] = invitation[j]
<1>1. invitation \in [InvitationId -> InvitationType \cup {NoInvitation}]
  BY DEF IInv, Types, TypeOK, RowTypes
<1>2. row # NoInvitation
  BY AbsentRows
<1>3. /\ invitation' \in [InvitationId -> InvitationType \cup {NoInvitation}]
      /\ invitation'[i] = row
      /\ \A j \in InvitationId \ {i} : invitation'[j] = invitation[j]
  BY <1>1
<1>4. \A j \in InvitationId :
        /\ invitation[j] # NoInvitation <=> invitation'[j] # NoInvitation
        /\ invitation'[j].email = invitation[j].email
        /\ invitation'[j].token = invitation[j].token
  BY <1>2, <1>3 DEF Stored
<1>5. \A j : Stored(j) => Stored(j)' /\ j \in InvitationId
  BY <1>4 DEF Stored
<1>6. created' = created /\ mailed' = mailed /\ directory' = directory
  BY DEF provider
<1>7. Letters /\ SentWasMailed /\ ExistingIsNotMailed
  BY DEF IInv
<1>8. Letters'
  BY <1>4, <1>5, <1>6, <1>7 DEF Letters
<1>9. SentWasMailed'
  BY <1>4, <1>6, <1>7 DEF SentWasMailed
<1>10. ExistingIsNotMailed'
  BY <1>4, <1>5, <1>6, <1>7 DEF ExistingIsNotMailed, Letters
<1> QED  BY <1>3, <1>4, <1>8, <1>9, <1>10

\* A worker closes an invitation that exists.
LEMMA CloseStep ==
  ASSUME IInv, NEW c \in Call, NEW i \in InvitationId, Stored(i), NEW row \in InvitationType,
         row.email = invitation[i].email, row.token = invitation[i].token,
         row.expired = invitation[i].expired,
         invitation' = [invitation EXCEPT ![i] = row], EndRequest(c), household # NoHousehold,
         UNCHANGED <<household, member, email_outbox_entry, provider, history>>
  PROVE  IInv'
<1>1. Types
  BY DEF IInv
<1>2. /\ invitation' \in [InvitationId -> InvitationType \cup {NoInvitation}]
      /\ Letters' /\ SentWasMailed' /\ ExistingIsNotMailed'
      /\ \A j \in InvitationId :
           /\ invitation[j] # NoInvitation => invitation'[j] # NoInvitation
           /\ invitation'[j].email = invitation[j].email
           /\ invitation'[j].token = invitation[j].token
           /\ invitation'[j].expired = invitation[j].expired
  BY Rewritten
<1>3. /\ Aside(c) /\ pc'[c] = "idle" /\ request'[c] = NoRequest /\ holds'[c] = {}
      /\ WorkerTypes' /\ seen' = [d \in Call |-> seen'[d]] /\ Session(c)' /\ ~Delivers(c)'
  BY <1>1, EndRequestIs, IdleAfter
<1>4. \A d \in Call \ {c} : Kept(d)
  BY <1>2 DEF Kept, Active, Resendable, provider
<1>5. Founding' /\ Locks' /\ DeliveryIsExclusive'
  BY <1>3, FoundingStays, LocksStay, DeliveryStays DEF NoRequest
<1>6. Types'
  BY <1>1, <1>2, <1>3 DEF Types, TypeOK, RowTypes, ProviderTypes, HistoryTypes, provider, history
<1>7. MembershipFollowsInvitations'
  BY DEF IInv, MembershipFollowsInvitations, Joined, Active, history
<1>8. \A d \in Call : Session(d)'
  BY <1>3, <1>4, SessionsStay
<1> QED  BY <1>2, <1>5, <1>6, <1>7, <1>8 DEF IInv

LEMMA RevokeInvitationStep ==
  ASSUME IInv, NEW c \in Call, RevokeInvitation(c)
  PROVE  IInv'
<1> DEFINE q == request[c]
<1>1. Types /\ Session(c)
  BY DEF IInv
<1>2. /\ pc[c] = "loaded" /\ q.op = "revoke" /\ seen[c].status = "pending" /\ EndRequest(c)
      /\ invitation' = [invitation EXCEPT ![q.invitation].status = "revoked",
                                          ![q.invitation].version = seen[c].version + 1]
      /\ UNCHANGED <<household, member, email_outbox_entry, provider, history>>
  BY DEF RevokeInvitation
<1>3. q \in Request /\ Stored(q.invitation) /\ seen[c].version \in Nat
  BY <1>1, <1>2 DEF Session, Progress, LoadedRow
<1> PICK i \in InvitationId : i = q.invitation
  BY <1>3 DEF Stored
<1> DEFINE row == [invitation[i] EXCEPT !.status = "revoked", !.version = seen[c].version + 1]
<1>4. invitation[i] \in InvitationType
  BY <1>1, <1>3, StoredRows
<1>5. /\ row \in InvitationType /\ row.email = invitation[i].email
      /\ row.token = invitation[i].token /\ row.expired = invitation[i].expired
  <2>1. seen[c].version + 1 \in Nat \ {0}
    BY <1>3
  <2> QED  BY <1>4, <2>1 DEF InvitationType
<1>6. invitation' = [invitation EXCEPT ![i] = row]
  BY <1>1, <1>2 DEF Types, TypeOK, RowTypes
<1> HIDE DEF row
<1>7. household # NoHousehold
  BY <1>2, <1>3, Founded
<1> QED  BY <1>2, <1>3, <1>5, <1>6, <1>7, CloseStep

LEMMA ExpireInvitationStep ==
  ASSUME IInv, NEW c \in Call, ExpireInvitation(c)
  PROVE  IInv'
<1> DEFINE q == request[c]
<1>1. Types /\ Session(c)
  BY DEF IInv
<1>2. /\ pc[c] = "open" /\ q.op = "accept" /\ Pending(q.invitation) /\ EndRequest(c)
      /\ invitation' = [invitation EXCEPT ![q.invitation].status = "expired"]
      /\ UNCHANGED <<household, member, email_outbox_entry, provider, history>>
  BY DEF ExpireInvitation
<1>3. q \in Request /\ q.invitation \in InvitationId
  BY <1>1, <1>2, RequestTyped DEF Session, Progress, WellFormed
<1> PICK i \in InvitationId : i = q.invitation
  BY <1>3
<1> DEFINE row == [invitation[i] EXCEPT !.status = "expired"]
<1>4. invitation[i] \in InvitationType /\ Stored(i)
  BY <1>1, <1>2, StoredRows
<1>5. /\ row \in InvitationType /\ row.email = invitation[i].email
      /\ row.token = invitation[i].token /\ row.expired = invitation[i].expired
  BY <1>4 DEF InvitationType
<1>6. invitation' = [invitation EXCEPT ![i] = row]
  BY <1>1, <1>2 DEF Types, TypeOK, RowTypes
<1> HIDE DEF row
<1>7. household # NoHousehold
  BY <1>2, <1>3, Founded
<1> QED  BY <1>2, <1>4, <1>5, <1>6, <1>7, CloseStep

LEMMA AcceptInvitationStep ==
  ASSUME IInv, NEW c \in Call, AcceptInvitation(c)
  PROVE  IInv'
<1> DEFINE q == request[c]
<1>1. Types /\ Session(c)
  BY DEF IInv
<1>2. /\ pc[c] = "accept" /\ ~DuplicateMember(c) /\ EndRequest(c)
      /\ member' = [member EXCEPT ![q.actor] =
           [role |-> invitation[q.invitation].role, status |-> "active",
            version |-> seen[c].version + 1]]
      /\ invitation' = [invitation EXCEPT ![q.invitation].status = "accepted",
                                          ![q.invitation].version = @ + 1]
      /\ acceptances' = [acceptances EXCEPT ![invitation[q.invitation].email] = @ + 1]
      /\ UNCHANGED <<household, email_outbox_entry, provider, began, left>>
  BY DEF AcceptInvitation
<1>3. q \in Request /\ q.op = "accept" /\ q.actor \in User
  BY <1>1, <1>2, RequestTyped DEF Session, Progress, WellFormed
<1>4. /\ Stored(q.invitation) /\ invitation[q.invitation].email = q.actor
      /\ seen[c].version \in Nat
      /\ seen[c] # NoMember => MemberRow(q.actor) \in holds[c] /\ ~Active(q.actor)
  BY <1>1, <1>2, <1>3 DEF Session, LockedRow
<1> PICK i \in InvitationId : i = q.invitation
  BY <1>4 DEF Stored
<1> PICK v \in User : v = q.actor
  BY <1>3
<1>5. invitation[i] \in InvitationType
  BY <1>1, <1>4, StoredRows
<1>6. ~Active(v) /\ (member[v] # NoMember => MemberRow(v) \in holds[c])
  BY <1>2, <1>4, AbsentRows DEF DuplicateMember, Active
<1> DEFINE row == [invitation[i] EXCEPT !.status = "accepted", !.version = @ + 1]
           newcomer == [role |-> invitation[i].role, status |-> "active",
                        version |-> seen[c].version + 1]
<1>7. /\ row \in InvitationType /\ row.email = invitation[i].email
      /\ row.token = invitation[i].token /\ row.expired = invitation[i].expired
  <2>1. invitation[i].version + 1 \in Nat \ {0}
    BY <1>5 DEF InvitationType
  <2> QED  BY <1>5, <2>1 DEF InvitationType
<1>8. newcomer \in MemberType /\ newcomer.status = "active"
  <2>1. seen[c].version + 1 \in Nat \ {0} /\ invitation[i].role \in Role
    BY <1>4, <1>5 DEF InvitationType
  <2> QED  BY <2>1 DEF MemberType
<1>9. /\ invitation' = [invitation EXCEPT ![i] = row] /\ member' = [member EXCEPT ![v] = newcomer]
      /\ acceptances' = [acceptances EXCEPT ![v] = @ + 1]
  BY <1>1, <1>2, <1>4 DEF Types, TypeOK, RowTypes
<1> HIDE DEF row, newcomer
<1>10. member \in [User -> MemberType \cup {NoMember}] /\ acceptances \in [User -> Nat]
  BY <1>1 DEF Types, TypeOK, RowTypes, HistoryTypes
<1>11. /\ member' \in [User -> MemberType \cup {NoMember}] /\ acceptances' \in [User -> Nat]
       /\ acceptances'[v] = acceptances[v] + 1
       /\ \A u \in User \ {v} : acceptances'[u] = acceptances[u]
       /\ Active(v)'
       /\ \A u \in User \ {v} : Active(u)' <=> Active(u)
       /\ \A u \in User : member[u] # NoMember => member'[u] # NoMember
  BY <1>8, <1>9, <1>10, AbsentRows DEF Active
<1>12. /\ invitation' \in [InvitationId -> InvitationType \cup {NoInvitation}]
       /\ Letters' /\ SentWasMailed' /\ ExistingIsNotMailed'
       /\ \A j \in InvitationId :
            /\ invitation[j] # NoInvitation => invitation'[j] # NoInvitation
            /\ invitation'[j].email = invitation[j].email
            /\ invitation'[j].token = invitation[j].token
            /\ invitation'[j].expired = invitation[j].expired
  <2>1. UNCHANGED <<email_outbox_entry, provider>> /\ Stored(i)
    BY <1>2, <1>4
  <2>2. invitation' = [invitation EXCEPT ![i] = row]
    BY <1>9
  <2> QED  BY <1>7, <2>1, <2>2, Rewritten
<1>13. /\ Aside(c) /\ pc'[c] = "idle" /\ request'[c] = NoRequest /\ holds'[c] = {}
       /\ WorkerTypes' /\ seen' = [d \in Call |-> seen'[d]] /\ Session(c)' /\ ~Delivers(c)'
  BY <1>1, <1>2, EndRequestIs, IdleAfter
<1>14. ASSUME NEW d \in Call \ {c} PROVE Kept(d)
  <2>1. MemberRow(v) \notin holds[d]
    <3>1. CASE member[v] = NoMember
      BY <3>1 DEF IInv, Session, Held
    <3>2. CASE member[v] # NoMember
      BY <1>6, <3>2 DEF IInv, Locks
    <3> QED  BY <3>1, <3>2
  <2> QED  BY <1>2, <1>11, <1>12, <2>1 DEF Kept, Resendable, provider
<1>15. household # NoHousehold
  BY <1>3, Founded
<1>16. Founding' /\ Locks' /\ DeliveryIsExclusive'
  BY <1>2, <1>13, <1>15, FoundingStays, LocksStay, DeliveryStays DEF NoRequest
<1>17. Types'
  BY <1>1, <1>2, <1>11, <1>12, <1>13
     DEF Types, TypeOK, RowTypes, ProviderTypes, HistoryTypes, provider
<1>18. MembershipFollowsInvitations'
  BY <1>2, <1>6, <1>11, MembershipStays
<1>19. \A d \in Call : Session(d)'
  BY <1>13, <1>14, SessionsStay
<1> QED  BY <1>12, <1>16, <1>17, <1>18, <1>19 DEF IInv
-----------------------------------------------------------------------------
\* Nobody delivers the invitation whose hour has passed.
LEMMA PassExpiryStep ==
  ASSUME IInv, NEW i \in InvitationId, PassExpiry(i)
  PROVE  IInv'
<1>1. Types
  BY DEF IInv
<1>2. /\ Pending(i) /\ InDelivery(i) = {}
      /\ invitation' = [invitation EXCEPT ![i].expired = TRUE]
      /\ UNCHANGED <<household, member, email_outbox_entry, provider, worker, history>>
  BY DEF PassExpiry
<1>3. Stored(i) /\ invitation[i] \in InvitationType
  BY <1>1, <1>2, StoredRows
<1> DEFINE row == [invitation[i] EXCEPT !.expired = TRUE]
<1>4. /\ row \in InvitationType /\ row.email = invitation[i].email
      /\ row.token = invitation[i].token /\ row.expired = TRUE
  BY <1>3 DEF InvitationType
<1>5. invitation' = [invitation EXCEPT ![i] = row]
  BY <1>1, <1>2 DEF Types, TypeOK, RowTypes
<1> HIDE DEF row
<1>6. /\ invitation' \in [InvitationId -> InvitationType \cup {NoInvitation}]
      /\ Letters' /\ SentWasMailed' /\ ExistingIsNotMailed'
      /\ \A j \in InvitationId :
           /\ invitation[j] # NoInvitation <=> invitation'[j] # NoInvitation
           /\ invitation'[j].email = invitation[j].email
           /\ invitation'[j].token = invitation[j].token
      /\ invitation'[i] = row
      /\ \A j \in InvitationId \ {i} : invitation'[j] = invitation[j]
  BY <1>2, <1>3, <1>4, <1>5, Rewritten
<1>7. /\ pc' = pc /\ request' = request /\ seen' = seen /\ holds' = holds
      /\ actor_role' = actor_role
  BY <1>2 DEF worker
<1>8. ASSUME NEW d \in Call PROVE Session(d)'
  <2>1. Delivers(d) => seen[d].id # i
    BY <1>2 DEF InDelivery, Delivers
  <2>2. \A j \in InvitationId : Resendable(j) => Resendable(j)'
    BY <1>2, <1>4, <1>6 DEF Resendable
  <2>3. Kept(d)
    BY <1>2, <1>6, <2>1, <2>2 DEF Kept, Active, provider
  <2> QED  BY <1>1, <1>7, <2>3, SessionStays DEF IInv
<1>9. Types'
  BY <1>1, <1>2, <1>6, <1>7
     DEF Types, TypeOK, RowTypes, ProviderTypes, WorkerTypes, HistoryTypes, provider, history
<1>10. Founding' /\ Locks' /\ MembershipFollowsInvitations' /\ DeliveryIsExclusive'
  BY <1>2, <1>6, <1>7 DEF IInv, Founding, Locks, MembershipFollowsInvitations, Joined, Active,
     DeliveryIsExclusive, InDelivery, history
<1> QED  BY <1>6, <1>8, <1>9, <1>10 DEF IInv

LEMMA StutterStep ==
  ASSUME IInv, UNCHANGED vars
  PROVE  IInv'
<1> USE DEF vars, rows, provider, worker, history
<1>1. \A d \in Call : Kept(d)
  BY RowsKept
<1>2. \A d \in Call : Session(d)'
  BY <1>1, SessionStays DEF IInv
<1>3. Types'
  BY DEF IInv, Types, TypeOK, RowTypes, ProviderTypes, WorkerTypes, HistoryTypes
<1>4. Founding' /\ Locks' /\ Letters'
  BY DEF IInv, Founding, Locks, Letters, Stored
<1>5. /\ MembershipFollowsInvitations' /\ DeliveryIsExclusive'
      /\ SentWasMailed' /\ ExistingIsNotMailed'
  BY DEF IInv, MembershipFollowsInvitations, Joined, Active, DeliveryIsExclusive, InDelivery,
     SentWasMailed, ExistingIsNotMailed
<1> QED  BY <1>2, <1>3, <1>4, <1>5 DEF IInv

LEMMA ServeStep ==
  ASSUME IInv, NEW c \in Call, Serve(c)
  PROVE  IInv'
<1>1. CASE SendEmail(c) \/ SendInviteCode(c)
  BY <1>1, SendLetterStep DEF SendEmail, SendInviteCode
<1>2. CASE MarkSuppressed(c) \/ Refuse(c)
  BY <1>2, RollbackStep DEF MarkSuppressed, Refuse, Rollback
<1> QED  BY <1>1, <1>2, CreateHouseholdStep, LoadStep, UpdateHouseholdStep, UpdateMemberRoleStep,
            LockMemberStep, RevokeMemberStep, FindPendingStep, LockPendingStep,
            CreateInvitationStep, ResendInvitationStep, FindAccountStep, CreateAccountStep,
            NoteAccountStep, MarkStep, RevokeInvitationStep, LockInvitationStep,
            ExpireInvitationStep, LockExistingStep, AcceptInvitationStep DEF Serve

LEMMA NextIInv ==
  ASSUME IInv, [Next]_vars
  PROVE  IInv'
<1>1. CASE UNCHANGED vars
  BY <1>1, StutterStep
<1>2. ASSUME NEW c \in Call, NEW q \in Request, Receive(c, q) PROVE IInv'
  BY <1>2, ReceiveStep
<1>3. ASSUME NEW c \in Call, Serve(c) PROVE IInv'
  BY <1>3, ServeStep
<1>4. ASSUME NEW c \in Call, Crash(c) PROVE IInv'
  BY <1>4, RollbackStep DEF Crash, Rollback
<1>5. ASSUME NEW i \in InvitationId, PassExpiry(i) PROVE IInv'
  BY <1>5, PassExpiryStep
<1> QED  BY <1>1, <1>2, <1>3, <1>4, <1>5 DEF Next

LEMMA InductiveInvariant == Spec => []IInv
BY InitIInv, NextIInv, PTL DEF Spec
-----------------------------------------------------------------------------
\* Every variable has its type: no row ends in a state that the columns do not
\* have, and an account that a delivery made is an account (household_service.py,
\* invitation_service.py).
THEOREM TypeCorrect == Spec => []TypeOK
<1>1. IInv => TypeOK
  BY DEF IInv, Types
<1> QED  BY <1>1, InductiveInvariant, PTL

\* Who is a member is who founded the household or accepted an invitation of
\* one's own and was not revoked since, however the changes of roles that load a
\* member without a lock, the revocations and the acceptances interleave
\* (update_member_role, revoke_member, _accept_locked_invitation).
THEOREM MembersWereInvited == Spec => []MembershipFollowsInvitations
<1>1. IInv => MembershipFollowsInvitations
  BY DEF IInv
<1> QED  BY <1>1, InductiveInvariant, PTL

\* Only one worker at a time delivers an invitation, although the delivery runs
\* after the commit that released its locks (create_household_invitation).
THEOREM DeliveriesAreExclusive == Spec => []DeliveryIsExclusive
<1>1. IInv => DeliveryIsExclusive
  BY DEF IInv
<1> QED  BY <1>1, InductiveInvariant, PTL

\* An entry marked as sent stands for a letter with the present token of its
\* invitation, although the mark is a transaction of its own and answers are
\* lost (create_invitation, mark_sent).
THEOREM SentLettersWereMailed == Spec => []SentWasMailed
<1>1. IInv => SentWasMailed
  BY DEF IInv
<1> QED  BY <1>1, InductiveInvariant, PTL

\* Through the directory nobody is sent an invite code whom the household has not
\* made an account for, also when an invitation is sent again after a delivery
\* that failed half way (create_household_invitation).
THEOREM AccountHoldersAreNotMailed == Spec => []ExistingIsNotMailed
<1>1. IInv => ExistingIsNotMailed
  BY DEF IInv
<1> QED  BY <1>1, InductiveInvariant, PTL
-----------------------------------------------------------------------------
(***************************************************************************)
(* What process_outbox promises however many runs overlap and whatever the *)
(* size of a batch: a letter goes out once but for what was lost, and the  *)
(* intents explain the row.  Both rest on the row locks: an entry is       *)
(* worked on by the one run that holds its lock, and stays pending until   *)
(* that run ends.                                                          *)
(***************************************************************************)

\* The row locks of SKIP LOCKED: what a run has claimed or written is locked
\* by it and pending, and it has not written what is still in its batch.
LockDiscipline ==
  \A d \in Dispatcher, e \in EntryId :
    /\ e \in batch[d] \/ handled[d][e] # Untouched =>
         lock[e] = d /\ outbox_entry[e].status = "pending"
    /\ e \in batch[d] => handled[d][e] = Untouched

\* A letter for which neither the row nor a run says "sent" was lost.
SendingIsRecorded(e) ==
  \/ outbox_entry[e].status = "sent"
  \/ \E d \in Dispatcher : handled[d][e].status = "sent"
UnrecordedLettersWereLost ==
  \A e \in EntryId : ~SendingIsRecorded(e) => letters[e] <= mishaps

\* An entry that can still be claimed has an attempt left, and a run gives it
\* up exactly when it has made the last one.
AttemptsLeft ==
  \A e \in EntryId :
    /\ outbox_entry[e].status \in {"pending", "absent"} =>
         outbox_entry[e].attempts < MaxAttempts
    /\ outbox_entry[e].status = "absent" => email_delivery_intent[e] = <<>>
    /\ \A d \in Dispatcher :
         /\ handled[d][e].status = "failed" => Attempt(e) >= MaxAttempts
         /\ handled[d][e].status = "pending" => Attempt(e) < MaxAttempts
         /\ handled[d][e].status = "absent" => handled[d][e] = Untouched

OutboxInv ==
  /\ OutboxTypeOK
  /\ LockDiscipline
  /\ MailedOnceUnlessLost
  /\ UnrecordedLettersWereLost
  /\ AttemptsLeft
  /\ IntentsExplainTheEntry

-----------------------------------------------------------------------------
\* The delay of next_attempt_delay is a number, whatever the attempt.
LEMMA DelayIsNumber ==
  ASSUME NEW n \in Nat \ {0} PROVE next_attempt_delay(n) \in Int
<1>1. 2^(n - 1) \in Int BY SMT
<1> QED BY <1>1, OutboxAssumption DEF next_attempt_delay, Sooner

\* The end of a run leaves the locks, the batches and the writes of the others.
LEMMA EndedOnes ==
  ASSUME OutboxTypeOK, NEW d \in Dispatcher, Ended(d)
  PROVE  /\ lock' \in [EntryId -> Dispatcher \cup {Nobody}]
         /\ stage' \in [Dispatcher -> {"idle", "running"}]
         /\ enabled' \in [Dispatcher -> BOOLEAN]
         /\ batch' \in [Dispatcher -> SUBSET EntryId]
         /\ handled' \in [Dispatcher -> [EntryId -> [status : Status \cup {"absent"}, wait : Int]]]
         /\ elapsed' \in [Dispatcher -> Int]
         /\ \A e \in EntryId : handled'[d][e] = Untouched /\ e \notin batch'[d]
         /\ \A o \in Dispatcher \ {d} : batch'[o] = batch[o] /\ handled'[o] = handled[o]
         /\ \A e \in EntryId : lock[e] # d => lock'[e] = lock[e]
<1>1. [e \in EntryId |-> Untouched] \in [EntryId -> [status : Status \cup {"absent"}, wait : Int]]
  BY DEF Untouched, Status
<1>2. handled' \in [Dispatcher -> [EntryId -> [status : Status \cup {"absent"}, wait : Int]]]
  BY <1>1 DEF OutboxTypeOK, Ended
<1> QED BY <1>2 DEF OutboxTypeOK, Ended, Untouched
-----------------------------------------------------------------------------
\* Types.
LEMMA TypeInit == ASSUME OutboxInit PROVE OutboxTypeOK
  BY OutboxAssumption DEF OutboxInit, OutboxTypeOK, NoEntry, Untouched, Status

LEMMA HandleType ==
  ASSUME OutboxTypeOK, NEW d \in Dispatcher, NEW e \in EntryId, NEW s \in Status, NEW w \in Int,
         Handle(d, e, s, w)
  PROVE  /\ batch' \in [Dispatcher -> SUBSET EntryId]
         /\ handled' \in [Dispatcher -> [EntryId -> [status : Status \cup {"absent"}, wait : Int]]]
         /\ UNCHANGED <<table, lock, stage, enabled, elapsed>>
<1>1. [status |-> s, wait |-> w] \in [status : Status \cup {"absent"}, wait : Int] OBVIOUS
<1>2. handled' \in [Dispatcher -> [EntryId -> [status : Status \cup {"absent"}, wait : Int]]]
  BY <1>1 DEF OutboxTypeOK, Handle
<1> QED BY <1>2 DEF OutboxTypeOK, Handle

\* What a failure writes: one row, with the status that the attempts call for.
LEMMA FailureWrites ==
  ASSUME OutboxTypeOK, NEW d \in Dispatcher, NEW e \in EntryId, HandleFailure(d, e)
  PROVE  \E s \in {"failed", "pending"}, w \in Int :
            /\ Handle(d, e, s, w)
            /\ s = "failed" <=> Attempt(e) >= MaxAttempts
<1>1. Attempt(e) \in Nat \ {0} BY DEF OutboxTypeOK, Attempt
<1>2. next_attempt_delay(Attempt(e)) \in Int BY <1>1, DelayIsNumber
<1> QED BY <1>1, <1>2 DEF HandleFailure

\* The rows after the commit of a run.
LEMMA CommitType ==
  ASSUME OutboxTypeOK, AttemptsLeft, NEW d \in Dispatcher, Commit(d)
  PROVE  /\ outbox_entry' \in
              [EntryId -> [status : Status \cup {"absent"}, attempts : Nat, wait : Int]]
         /\ email_delivery_intent' \in [EntryId -> Seq({"sent", "suppressed", "failed"})]
<1>1. ASSUME NEW e \in EntryId, e \in WrittenBy(d)
      PROVE  /\ handled[d][e].status \in Status /\ handled[d][e].wait \in Int
             /\ Outcome(handled[d][e].status) \in {"sent", "suppressed", "failed"}
             /\ Attempt(e) \in Nat
             /\ Remaining(d, handled[d][e].wait) \in Int
  BY <1>1 DEF OutboxTypeOK, AttemptsLeft, WrittenBy, Outcome, Status, Attempt, Remaining
<1>2. outbox_entry' \in
        [EntryId -> [status : Status \cup {"absent"}, attempts : Nat, wait : Int]]
  BY <1>1 DEF OutboxTypeOK, Commit
<1>3. ASSUME NEW e \in EntryId
      PROVE  (IF e \in WrittenBy(d)
              THEN Append(email_delivery_intent[e], Outcome(handled[d][e].status))
              ELSE email_delivery_intent[e]) \in Seq({"sent", "suppressed", "failed"})
  BY <1>1 DEF OutboxTypeOK
<1>4. email_delivery_intent' \in [EntryId -> Seq({"sent", "suppressed", "failed"})]
  BY <1>3 DEF Commit
<1> QED BY <1>2, <1>4

LEMMA TypeNext == ASSUME OutboxTypeOK, AttemptsLeft, [OutboxNext]_outbox_vars PROVE OutboxTypeOK'
<1>1. ASSUME NEW e \in EntryId, Queue(e) PROVE OutboxTypeOK'
  <2>1. [outbox_entry[e] EXCEPT !.status = "pending"]
          \in [status : Status \cup {"absent"}, attempts : Nat, wait : Int]
    <3>1. outbox_entry[e] \in [status : Status \cup {"absent"}, attempts : Nat, wait : Int]
      BY DEF OutboxTypeOK
    <3>2. "pending" \in Status BY DEF Status
    <3> QED BY <3>1, <3>2
  <2>2. outbox_entry' \in
          [EntryId -> [status : Status \cup {"absent"}, attempts : Nat, wait : Int]]
    <3>1. outbox_entry \in
            [EntryId -> [status : Status \cup {"absent"}, attempts : Nat, wait : Int]]
      BY DEF OutboxTypeOK
    <3>2. outbox_entry' = [outbox_entry EXCEPT ![e] =
            [outbox_entry[e] EXCEPT !.status = "pending"]]
      BY <1>1 DEF Queue
    <3> HIDE DEF Status
    <3> QED BY <2>1, <3>1, <3>2
  <2> QED BY <1>1, <2>2 DEF OutboxTypeOK, Queue, run
<1>2. ASSUME NEW d \in Dispatcher, Claim(d) PROVE OutboxTypeOK'
  <2>1. Oldest(Due) \subseteq EntryId BY DEF Oldest, Due
  <2> QED BY <1>2, <2>1 DEF OutboxTypeOK, Claim, table
<1>3. ASSUME NEW d \in Dispatcher, NEW e \in EntryId, Suppress(d, e) PROVE OutboxTypeOK'
  <2>1. Handle(d, e, "suppressed", 0) BY <1>3 DEF Suppress
  <2>2. "suppressed" \in Status BY DEF Status
  <2> QED BY <1>3, <2>1, <2>2, HandleType DEF OutboxTypeOK, Suppress, table
<1>4. ASSUME NEW d \in Dispatcher, NEW e \in EntryId, Send(d, e) PROVE OutboxTypeOK'
  <2>1. Handle(d, e, "sent", 0) BY <1>4 DEF Send
  <2>2. "sent" \in Status BY DEF Status
  <2> QED BY <1>4, <2>1, <2>2, HandleType DEF OutboxTypeOK, Send, table
<1>5. ASSUME NEW d \in Dispatcher, NEW e \in EntryId, SendFails(d, e) \/ AnswerLost(d, e)
      PROVE  OutboxTypeOK'
  <2>1. PICK s \in {"failed", "pending"}, w \in Int : Handle(d, e, s, w)
    BY <1>5, FailureWrites DEF SendFails, AnswerLost
  <2>2. s \in Status BY DEF Status
  <2>3. letters' \in [EntryId -> Nat] /\ mishaps' \in 0..MaxMishaps
    <3>1. letters \in [EntryId -> Nat] /\ mishaps \in 0..MaxMishaps BY DEF OutboxTypeOK
    <3>2. CASE SendFails(d, e) BY <3>1, <3>2 DEF SendFails
    <3>3. CASE AnswerLost(d, e) BY <3>1, <3>3, OutboxAssumption DEF AnswerLost
    <3> QED BY <1>5, <3>2, <3>3
  <2> QED BY <2>1, <2>2, <2>3, HandleType DEF OutboxTypeOK, table
<1>6. ASSUME NEW d \in Dispatcher, Commit(d) PROVE OutboxTypeOK'
  <2>1. Ended(d) BY <1>6 DEF Commit
  <2> QED BY <1>6, <2>1, CommitType, EndedOnes DEF OutboxTypeOK, Commit
<1>7. ASSUME NEW d \in Dispatcher, RunLost(d) PROVE OutboxTypeOK'
  <2>1. Ended(d) BY <1>7 DEF RunLost
  <2> QED BY <1>7, <2>1, EndedOnes, OutboxAssumption DEF OutboxTypeOK, RunLost, table
<1>8. ASSUME Tick PROVE OutboxTypeOK'
  <2>1. ASSUME NEW e \in EntryId
        PROVE  [outbox_entry[e] EXCEPT !.wait = IF @ = 0 THEN 0 ELSE @ - 1]
                 \in [status : Status \cup {"absent"}, attempts : Nat, wait : Int]
    <3>1. outbox_entry[e] \in [status : Status \cup {"absent"}, attempts : Nat, wait : Int]
      BY DEF OutboxTypeOK
    <3> HIDE DEF Status
    <3> QED BY <3>1
  <2>2. outbox_entry' \in
          [EntryId -> [status : Status \cup {"absent"}, attempts : Nat, wait : Int]]
    BY <1>8, <2>1 DEF Tick
  <2>3. elapsed' \in [Dispatcher -> Int] BY <1>8, OutboxAssumption DEF OutboxTypeOK, Tick, Sooner
  <2>4. UNCHANGED <<email_delivery_intent, lock, stage, enabled, batch, handled, letters, mishaps>>
    BY <1>8 DEF Tick
  <2> QED BY <2>2, <2>3, <2>4 DEF OutboxTypeOK
<1>9. CASE UNCHANGED outbox_vars BY <1>9 DEF OutboxTypeOK, outbox_vars, table, run
<1> QED BY <1>1, <1>2, <1>3, <1>4, <1>5, <1>6, <1>7, <1>8, <1>9 DEF OutboxNext, Dispatch
-----------------------------------------------------------------------------
(***************************************************************************)
(* What one action does, in the words of the invariants: it leaves the     *)
(* rows, ends a run or writes one entry.                                   *)
(***************************************************************************)
\* A run writes an entry of its batch.
Writes(d, e, s) ==
  /\ e \in batch[d]
  /\ s \in Status
  /\ s = "failed" => Attempt(e) >= MaxAttempts
  /\ s = "pending" => Attempt(e) < MaxAttempts
  /\ batch' = [batch EXCEPT ![d] = @ \ {e}]
  /\ \E w \in Int : handled' = [handled EXCEPT ![d][e] = [status |-> s, wait |-> w]]
  /\ UNCHANGED <<table, lock>>

\* What the step does to the letters of the entry it writes.
LettersFollow(e, s) ==
  \/ s = "sent" /\ letters' = [letters EXCEPT ![e] = @ + 1] /\ UNCHANGED mishaps
  \/ s # "sent" /\ UNCHANGED <<letters, mishaps>>
  \/ s # "sent" /\ letters' = [letters EXCEPT ![e] = @ + 1] /\ mishaps' = mishaps + 1

LEMMA HandleWrites ==
  ASSUME NEW d \in Dispatcher, NEW e \in EntryId, NEW s \in Status, NEW w \in Int,
         e \in batch[d], Handle(d, e, s, w),
         s = "failed" => Attempt(e) >= MaxAttempts,
         s = "pending" => Attempt(e) < MaxAttempts
  PROVE  Writes(d, e, s)
  BY DEF Handle, Writes

LEMMA HandlingWrites ==
  ASSUME OutboxTypeOK, NEW d \in Dispatcher, NEW e \in EntryId,
         Suppress(d, e) \/ Send(d, e) \/ SendFails(d, e) \/ AnswerLost(d, e)
  PROVE  \E s \in Status : Writes(d, e, s) /\ LettersFollow(e, s)
<1>1. CASE Suppress(d, e)
  <2>1. "suppressed" \in Status BY DEF Status
  <2>2. Writes(d, e, "suppressed") BY <1>1, <2>1, HandleWrites DEF Suppress, Decided
  <2>3. LettersFollow(e, "suppressed") BY <1>1 DEF Suppress, LettersFollow
  <2> QED BY <2>1, <2>2, <2>3
<1>2. CASE Send(d, e)
  <2>1. "sent" \in Status BY DEF Status
  <2>2. Writes(d, e, "sent") BY <1>2, <2>1, HandleWrites DEF Send, Decided
  <2>3. LettersFollow(e, "sent") BY <1>2 DEF Send, LettersFollow
  <2> QED BY <2>1, <2>2, <2>3
<1>3. CASE SendFails(d, e) \/ AnswerLost(d, e)
  <2>1. PICK s \in {"failed", "pending"}, w \in Int :
          /\ Handle(d, e, s, w)
          /\ s = "failed" <=> Attempt(e) >= MaxAttempts
    BY <1>3, FailureWrites DEF SendFails, AnswerLost
  <2>2. Attempt(e) \in Nat /\ MaxAttempts \in Nat
    BY OutboxAssumption DEF OutboxTypeOK, Attempt
  <2>3. e \in batch[d] BY <1>3 DEF SendFails, AnswerLost, Decided
  <2>4. s \in Status BY DEF Status
  <2>5. Writes(d, e, s) BY <2>1, <2>2, <2>3, <2>4, HandleWrites
  <2>6. LettersFollow(e, s)
    BY <1>3, <2>1 DEF SendFails, AnswerLost, LettersFollow
  <2> QED BY <2>4, <2>5, <2>6
<1> QED BY <1>1, <1>2, <1>3

\* The commit writes what the run has handled, which was pending.
LEMMA CommitWrites ==
  ASSUME OutboxTypeOK, LockDiscipline, NEW d \in Dispatcher, Commit(d), NEW e \in EntryId
  PROVE  \/ /\ handled[d][e] = Untouched
            /\ outbox_entry'[e] = outbox_entry[e]
            /\ email_delivery_intent'[e] = email_delivery_intent[e]
         \/ /\ handled[d][e] # Untouched
            /\ lock[e] = d
            /\ outbox_entry[e].status = "pending"
            /\ outbox_entry'[e].status = handled[d][e].status
            /\ outbox_entry'[e].attempts = Attempt(e)
            /\ email_delivery_intent'[e] =
                 Append(email_delivery_intent[e], Outcome(handled[d][e].status))
  BY DEF Commit, WrittenBy, LockDiscipline
-----------------------------------------------------------------------------
\* Locks.
LEMMA LockInit == ASSUME OutboxInit PROVE LockDiscipline
  BY DEF OutboxInit, LockDiscipline

LEMMA LockWrites ==
  ASSUME OutboxTypeOK, LockDiscipline, NEW d \in Dispatcher, NEW e \in EntryId, NEW s \in Status,
         Writes(d, e, s)
  PROVE  LockDiscipline'
<1> SUFFICES ASSUME NEW o \in Dispatcher, NEW f \in EntryId
             PROVE  /\ f \in batch'[o] \/ handled'[o][f] # Untouched =>
                         lock'[f] = o /\ outbox_entry'[f].status = "pending"
                    /\ f \in batch'[o] => handled'[o][f] = Untouched
  BY DEF LockDiscipline
<1>1. UNCHANGED <<outbox_entry, lock>> BY DEF Writes, table
<1>2. batch' = [batch EXCEPT ![d] = @ \ {e}] BY DEF Writes
<1>3. PICK w \in Int : handled' = [handled EXCEPT ![d][e] = [status |-> s, wait |-> w]]
  BY DEF Writes
<1>4. CASE o = d /\ f = e
  BY <1>1, <1>2, <1>4 DEF OutboxTypeOK, LockDiscipline, Writes
<1>5. CASE ~(o = d /\ f = e)
  <2>1. handled'[o][f] = handled[o][f] BY <1>3, <1>5 DEF OutboxTypeOK
  <2>2. f \in batch'[o] => f \in batch[o] BY <1>2 DEF OutboxTypeOK
  <2> QED BY <1>1, <2>1, <2>2 DEF LockDiscipline
<1> QED BY <1>4, <1>5

LEMMA LockEnds ==
  ASSUME OutboxTypeOK, LockDiscipline, NEW d \in Dispatcher, Ended(d),
         \A e \in EntryId : lock[e] # d => outbox_entry'[e] = outbox_entry[e]
  PROVE  LockDiscipline'
<1> SUFFICES ASSUME NEW o \in Dispatcher, NEW f \in EntryId
             PROVE  /\ f \in batch'[o] \/ handled'[o][f] # Untouched =>
                         lock'[f] = o /\ outbox_entry'[f].status = "pending"
                    /\ f \in batch'[o] => handled'[o][f] = Untouched
  BY DEF LockDiscipline
<1>1. CASE o = d BY <1>1, EndedOnes
<1>2. CASE o # d
  <2>1. batch'[o] = batch[o] /\ handled'[o] = handled[o] BY <1>2, EndedOnes
  <2>2. lock[f] = o => lock'[f] = o BY <1>2, EndedOnes
  <2>3. lock[f] = o => outbox_entry'[f] = outbox_entry[f] BY <1>2
  <2> QED BY <2>1, <2>2, <2>3 DEF LockDiscipline
<1> QED BY <1>1, <1>2

LEMMA LockNext == ASSUME OutboxTypeOK, LockDiscipline, [OutboxNext]_outbox_vars PROVE LockDiscipline'
<1>1. ASSUME NEW e \in EntryId, Queue(e) PROVE LockDiscipline'
  <2>1. \A f \in EntryId :
          outbox_entry[f].status = "pending" => outbox_entry'[f].status = "pending"
    <3>1. outbox_entry \in
            [EntryId -> [status : Status \cup {"absent"}, attempts : Nat, wait : Int]]
      BY DEF OutboxTypeOK
    <3>2. outbox_entry' = [outbox_entry EXCEPT ![e] =
            [outbox_entry[e] EXCEPT !.status = "pending"]]
      BY <1>1 DEF Queue
    <3> QED BY <3>1, <3>2
  <2>2. UNCHANGED <<lock, batch, handled>> BY <1>1 DEF Queue, run
  <2> QED BY <2>1, <2>2 DEF LockDiscipline
<1>2. ASSUME NEW d \in Dispatcher, Claim(d) PROVE LockDiscipline'
  <2>1. \A e \in Oldest(Due) :
          e \in EntryId /\ outbox_entry[e].status = "pending" /\ lock[e] = Nobody
    BY DEF Oldest, Due, Claimable
  <2>2. UNCHANGED <<outbox_entry, handled>> BY <1>2 DEF Claim, table
  <2>3. lock' = [e \in EntryId |-> IF e \in Oldest(Due) THEN d ELSE lock[e]]
    BY <1>2 DEF Claim
  <2>4. batch' = [batch EXCEPT ![d] = Oldest(Due)] BY <1>2 DEF Claim
  <2>5. ASSUME NEW o \in Dispatcher, NEW f \in EntryId
        PROVE  /\ f \in batch'[o] \/ handled'[o][f] # Untouched =>
                    lock'[f] = o /\ outbox_entry'[f].status = "pending"
               /\ f \in batch'[o] => handled'[o][f] = Untouched
    <3>1. CASE f \in Oldest(Due)
      <4>1. lock[f] # o BY <2>1, <3>1, OutboxAssumption
      <4>2. f \notin batch[o] /\ handled[o][f] = Untouched BY <4>1 DEF LockDiscipline
      <4>3. f \in batch'[o] => o = d BY <2>4, <4>2 DEF OutboxTypeOK
      <4> QED BY <2>1, <2>2, <2>3, <3>1, <4>2, <4>3
    <3>2. CASE f \notin Oldest(Due)
      <4>1. lock'[f] = lock[f] BY <2>3, <3>2
      <4>2. f \in batch'[o] => f \in batch[o] BY <2>4, <3>2 DEF OutboxTypeOK
      <4> QED BY <2>2, <4>1, <4>2 DEF LockDiscipline
    <3> QED BY <3>1, <3>2
  <2> QED BY <2>5 DEF LockDiscipline
<1>3. ASSUME NEW d \in Dispatcher, NEW e \in EntryId,
             Suppress(d, e) \/ Send(d, e) \/ SendFails(d, e) \/ AnswerLost(d, e)
      PROVE  LockDiscipline'
  BY <1>3, HandlingWrites, LockWrites
<1>4. ASSUME NEW d \in Dispatcher, Commit(d) PROVE LockDiscipline'
  <2>1. Ended(d) BY <1>4 DEF Commit
  <2>2. \A e \in EntryId : lock[e] # d => outbox_entry'[e] = outbox_entry[e]
    BY <1>4, CommitWrites
  <2> QED BY <2>1, <2>2, LockEnds
<1>5. ASSUME NEW d \in Dispatcher, RunLost(d) PROVE LockDiscipline'
  BY <1>5, LockEnds DEF RunLost, table
<1>6. ASSUME Tick PROVE LockDiscipline'
  <2>1. \A e \in EntryId : outbox_entry'[e].status = outbox_entry[e].status
    BY <1>6 DEF Tick, OutboxTypeOK
  <2>2. UNCHANGED <<lock, batch, handled>> BY <1>6 DEF Tick
  <2> QED BY <2>1, <2>2 DEF LockDiscipline
<1>7. CASE UNCHANGED outbox_vars BY <1>7 DEF LockDiscipline, outbox_vars, table, run
<1> QED BY <1>1, <1>2, <1>3, <1>4, <1>5, <1>6, <1>7 DEF OutboxNext, Dispatch
-----------------------------------------------------------------------------
\* Letters.
LEMMA LettersInit == ASSUME OutboxInit PROVE MailedOnceUnlessLost /\ UnrecordedLettersWereLost
  BY DEF OutboxInit, MailedOnceUnlessLost, UnrecordedLettersWereLost

\* A step that changes no letters and forgets nothing that was sent.
LEMMA LettersKept ==
  ASSUME OutboxTypeOK, MailedOnceUnlessLost, UnrecordedLettersWereLost,
         UNCHANGED <<letters, mishaps>>,
         \A e \in EntryId : SendingIsRecorded(e) => SendingIsRecorded(e)'
  PROVE  MailedOnceUnlessLost' /\ UnrecordedLettersWereLost'
  BY DEF MailedOnceUnlessLost, UnrecordedLettersWereLost

LEMMA LettersWrites ==
  ASSUME OutboxTypeOK, LockDiscipline, MailedOnceUnlessLost, UnrecordedLettersWereLost,
         NEW d \in Dispatcher, NEW e \in EntryId, NEW s \in Status,
         Writes(d, e, s), LettersFollow(e, s)
  PROVE  MailedOnceUnlessLost' /\ UnrecordedLettersWereLost'
<1>1. UNCHANGED outbox_entry BY DEF Writes, table
<1>2. PICK w \in Int : handled' = [handled EXCEPT ![d][e] = [status |-> s, wait |-> w]]
  BY DEF Writes
<1>3. handled'[d][e].status = s BY <1>2 DEF OutboxTypeOK
<1>4. ~SendingIsRecorded(e)
  <2>1. lock[e] = d /\ outbox_entry[e].status = "pending" /\ handled[d][e] = Untouched
    BY DEF Writes, LockDiscipline
  <2>2. \A o \in Dispatcher : handled[o][e] = Untouched BY <2>1 DEF LockDiscipline
  <2> QED BY <2>1, <2>2 DEF SendingIsRecorded, Untouched
<1>5. \A f \in EntryId \ {e} : SendingIsRecorded(f)' <=> SendingIsRecorded(f)
  BY <1>1, <1>2 DEF OutboxTypeOK, SendingIsRecorded
<1>6. s = "sent" => SendingIsRecorded(e)' BY <1>3 DEF SendingIsRecorded
<1>7. letters[e] <= mishaps BY <1>4 DEF UnrecordedLettersWereLost
<1>8. letters \in [EntryId -> Nat] /\ mishaps \in Nat BY OutboxAssumption DEF OutboxTypeOK
<1>9. /\ \A f \in EntryId \ {e} : letters'[f] = letters[f]
      /\ mishaps' \in Nat /\ mishaps <= mishaps'
      /\ letters'[e] <= 1 + mishaps'
      /\ s # "sent" => letters'[e] <= mishaps'
  BY <1>7, <1>8 DEF LettersFollow
<1>10. MailedOnceUnlessLost'
  BY <1>8, <1>9 DEF MailedOnceUnlessLost
<1>11. UnrecordedLettersWereLost'
  BY <1>5, <1>6, <1>8, <1>9 DEF UnrecordedLettersWereLost
<1> QED BY <1>10, <1>11

LEMMA LettersNext ==
  ASSUME OutboxTypeOK, LockDiscipline, MailedOnceUnlessLost, UnrecordedLettersWereLost, [OutboxNext]_outbox_vars
  PROVE  MailedOnceUnlessLost' /\ UnrecordedLettersWereLost'
<1>1. ASSUME NEW e \in EntryId, Queue(e) PROVE MailedOnceUnlessLost' /\ UnrecordedLettersWereLost'
  <2>1. \A f \in EntryId \ {e} : outbox_entry'[f] = outbox_entry[f]
    BY <1>1 DEF Queue, OutboxTypeOK
  <2>2. outbox_entry[e].status # "sent" BY <1>1 DEF Queue, NoEntry
  <2>3. \A f \in EntryId : SendingIsRecorded(f) => SendingIsRecorded(f)'
    BY <1>1, <2>1, <2>2 DEF SendingIsRecorded, Queue, run
  <2> QED BY <1>1, <2>3, LettersKept DEF Queue
<1>2. ASSUME NEW d \in Dispatcher, Claim(d)
      PROVE  MailedOnceUnlessLost' /\ UnrecordedLettersWereLost'
  BY <1>2, LettersKept DEF Claim, table, SendingIsRecorded
<1>3. ASSUME NEW d \in Dispatcher, NEW e \in EntryId,
             Suppress(d, e) \/ Send(d, e) \/ SendFails(d, e) \/ AnswerLost(d, e)
      PROVE  MailedOnceUnlessLost' /\ UnrecordedLettersWereLost'
  BY <1>3, HandlingWrites, LettersWrites
<1>4. ASSUME NEW d \in Dispatcher, Commit(d)
      PROVE  MailedOnceUnlessLost' /\ UnrecordedLettersWereLost'
  <2>1. ASSUME NEW e \in EntryId, SendingIsRecorded(e) PROVE SendingIsRecorded(e)'
    <3>1. CASE handled[d][e] = Untouched
      <4>1. outbox_entry'[e] = outbox_entry[e] BY <1>4, <3>1, CommitWrites
      <4>2. \A o \in Dispatcher : handled[o][e].status = "sent" => handled'[o][e] = handled[o][e]
        BY <1>4, <3>1, EndedOnes DEF Commit, Untouched
      <4> QED BY <2>1, <4>1, <4>2 DEF SendingIsRecorded
    <3>2. CASE handled[d][e] # Untouched
      <4>1. /\ lock[e] = d /\ outbox_entry[e].status = "pending"
            /\ outbox_entry'[e].status = handled[d][e].status
        BY <1>4, <3>2, CommitWrites
      <4>2. \A o \in Dispatcher \ {d} : handled[o][e].status # "sent"
        BY <4>1 DEF LockDiscipline, Untouched
      <4>3. handled[d][e].status = "sent" BY <2>1, <4>1, <4>2 DEF SendingIsRecorded
      <4> QED BY <4>1, <4>3 DEF SendingIsRecorded
    <3> QED BY <3>1, <3>2
  <2> QED BY <1>4, <2>1, LettersKept DEF Commit
<1>5. ASSUME NEW d \in Dispatcher, RunLost(d)
      PROVE  MailedOnceUnlessLost' /\ UnrecordedLettersWereLost'
  <2>1. letters' = letters /\ mishaps' = mishaps + 1 BY <1>5 DEF RunLost
  <2>2. letters \in [EntryId -> Nat] /\ mishaps \in Nat BY OutboxAssumption DEF OutboxTypeOK
  <2>3. \A e \in EntryId : letters'[e] <= mishaps'
    BY <2>1, <2>2 DEF MailedOnceUnlessLost
  <2> QED BY <2>1, <2>2, <2>3 DEF MailedOnceUnlessLost, UnrecordedLettersWereLost
<1>6. ASSUME Tick PROVE MailedOnceUnlessLost' /\ UnrecordedLettersWereLost'
  <2>1. \A e \in EntryId : outbox_entry'[e].status = outbox_entry[e].status
    BY <1>6 DEF Tick, OutboxTypeOK
  <2> QED BY <1>6, <2>1, LettersKept DEF Tick, SendingIsRecorded
<1>7. CASE UNCHANGED outbox_vars
  BY <1>7, LettersKept DEF SendingIsRecorded, outbox_vars, table, run
<1> QED BY <1>1, <1>2, <1>3, <1>4, <1>5, <1>6, <1>7 DEF OutboxNext, Dispatch
-----------------------------------------------------------------------------
\* Attempts.
LEMMA AttemptsInit == ASSUME OutboxInit PROVE AttemptsLeft
  BY OutboxAssumption DEF OutboxInit, AttemptsLeft, NoEntry, Untouched, Attempt

\* A step after which the rows and the intents are the same, but for waiting.
LEMMA AttemptsKept ==
  ASSUME AttemptsLeft,
         \A e \in EntryId : /\ outbox_entry'[e].status = outbox_entry[e].status
                            /\ outbox_entry'[e].attempts = outbox_entry[e].attempts
                            /\ email_delivery_intent'[e] = email_delivery_intent[e],
         \A d \in Dispatcher, e \in EntryId : handled'[d][e] \in {handled[d][e], Untouched}
  PROVE  AttemptsLeft'
  BY DEF AttemptsLeft, Attempt, Untouched

LEMMA AttemptsWrites ==
  ASSUME OutboxTypeOK, AttemptsLeft,
         NEW d \in Dispatcher, NEW e \in EntryId, NEW s \in Status, Writes(d, e, s)
  PROVE  AttemptsLeft'
<1>1. UNCHANGED <<outbox_entry, email_delivery_intent>> BY DEF Writes, table
<1>2. PICK w \in Int : handled' = [handled EXCEPT ![d][e] = [status |-> s, wait |-> w]]
  BY DEF Writes
<1>3. ASSUME NEW o \in Dispatcher, NEW f \in EntryId
      PROVE  /\ handled'[o][f].status = "failed" => Attempt(f) >= MaxAttempts
             /\ handled'[o][f].status = "pending" => Attempt(f) < MaxAttempts
             /\ handled'[o][f].status = "absent" => handled'[o][f] = Untouched
  <2>1. CASE o = d /\ f = e
    BY <1>2, <2>1 DEF OutboxTypeOK, Writes, Status
  <2>2. CASE ~(o = d /\ f = e)
    <3>1. handled'[o][f] = handled[o][f] BY <1>2, <2>2 DEF OutboxTypeOK
    <3> QED BY <3>1 DEF AttemptsLeft
  <2> QED BY <2>1, <2>2
<1> QED BY <1>1, <1>3 DEF AttemptsLeft, Attempt

LEMMA AttemptsNext ==
  ASSUME OutboxTypeOK, LockDiscipline, AttemptsLeft, [OutboxNext]_outbox_vars PROVE AttemptsLeft'
<1>1. ASSUME NEW e \in EntryId, Queue(e) PROVE AttemptsLeft'
  <2>1. \A f \in EntryId \ {e} : outbox_entry'[f] = outbox_entry[f]
    BY <1>1 DEF Queue, OutboxTypeOK
  <2>2. outbox_entry'[e].status = "pending" /\ outbox_entry'[e].attempts = 0
    <3>1. outbox_entry' = [outbox_entry EXCEPT ![e] =
            [outbox_entry[e] EXCEPT !.status = "pending"]]
      BY <1>1 DEF Queue
    <3> QED BY <1>1, <3>1 DEF Queue, NoEntry, OutboxTypeOK
  <2>3. outbox_entry[e].attempts = 0 BY <1>1 DEF Queue, NoEntry
  <2> QED BY <1>1, <2>1, <2>2, <2>3, OutboxAssumption DEF AttemptsLeft, Attempt, Queue, run
<1>2. ASSUME NEW d \in Dispatcher, Claim(d) PROVE AttemptsLeft'
  BY <1>2, AttemptsKept DEF Claim, table
<1>3. ASSUME NEW d \in Dispatcher, NEW e \in EntryId,
             Suppress(d, e) \/ Send(d, e) \/ SendFails(d, e) \/ AnswerLost(d, e)
      PROVE  AttemptsLeft'
  BY <1>3, HandlingWrites, AttemptsWrites
<1>4. ASSUME NEW d \in Dispatcher, Commit(d) PROVE AttemptsLeft'
  <2>1. ASSUME NEW e \in EntryId
        PROVE  /\ outbox_entry'[e].status \in {"pending", "absent"} =>
                    outbox_entry'[e].attempts < MaxAttempts
               /\ outbox_entry'[e].status = "absent" => email_delivery_intent'[e] = <<>>
               /\ \A o \in Dispatcher :
                    /\ handled'[o][e].status = "failed" => Attempt(e)' >= MaxAttempts
                    /\ handled'[o][e].status = "pending" => Attempt(e)' < MaxAttempts
                    /\ handled'[o][e].status = "absent" => handled'[o][e] = Untouched
    <3>1. \A o \in Dispatcher : handled'[o][e] \in {handled[o][e], Untouched}
      BY <1>4, EndedOnes DEF Commit
    <3>2. CASE handled[d][e] = Untouched
      <4>1. /\ outbox_entry'[e] = outbox_entry[e]
            /\ email_delivery_intent'[e] = email_delivery_intent[e]
        BY <1>4, <3>2, CommitWrites
      <4> QED BY <3>1, <4>1 DEF AttemptsLeft, Attempt, Untouched
    <3>3. CASE handled[d][e] # Untouched
      <4>1. /\ lock[e] = d
            /\ outbox_entry'[e].status = handled[d][e].status
            /\ outbox_entry'[e].attempts = Attempt(e)
        BY <1>4, <3>3, CommitWrites
      <4>2. \A o \in Dispatcher : handled'[o][e] = Untouched
        <5>1. handled'[d][e] = Untouched BY <1>4, EndedOnes DEF Commit
        <5>2. \A o \in Dispatcher \ {d} : handled[o][e] = Untouched
          BY <4>1 DEF LockDiscipline
        <5> QED BY <3>1, <5>1, <5>2
      <4> QED BY <3>3, <4>1, <4>2 DEF AttemptsLeft, Untouched
    <3> QED BY <3>2, <3>3
  <2> QED BY <2>1 DEF AttemptsLeft
<1>5. ASSUME NEW d \in Dispatcher, RunLost(d) PROVE AttemptsLeft'
  <2>1. \A o \in Dispatcher, e \in EntryId : handled'[o][e] \in {handled[o][e], Untouched}
    BY <1>5, EndedOnes DEF RunLost
  <2> QED BY <1>5, <2>1, AttemptsKept DEF RunLost, table
<1>6. ASSUME Tick PROVE AttemptsLeft'
  <2>1. \A e \in EntryId : /\ outbox_entry'[e].status = outbox_entry[e].status
                           /\ outbox_entry'[e].attempts = outbox_entry[e].attempts
    BY <1>6 DEF Tick, OutboxTypeOK
  <2> QED BY <1>6, <2>1, AttemptsKept DEF Tick
<1>7. CASE UNCHANGED outbox_vars
  BY <1>7, AttemptsKept DEF outbox_vars, table, run
<1> QED BY <1>1, <1>2, <1>3, <1>4, <1>5, <1>6, <1>7 DEF OutboxNext, Dispatch
-----------------------------------------------------------------------------
\* Intents.
LEMMA IntentsInit == ASSUME OutboxInit PROVE IntentsExplainTheEntry
  BY OutboxAssumption DEF OutboxInit, IntentsExplainTheEntry, NoEntry

LEMMA IntentsKept ==
  ASSUME IntentsExplainTheEntry,
         \A e \in EntryId : /\ outbox_entry'[e].status = outbox_entry[e].status
                            /\ outbox_entry'[e].attempts = outbox_entry[e].attempts
                            /\ email_delivery_intent'[e] = email_delivery_intent[e]
  PROVE  IntentsExplainTheEntry'
  BY DEF IntentsExplainTheEntry, Last

\* One more intent, after intents that all say "failed".
LEMMA OneMoreIntent ==
  ASSUME NEW intents \in Seq({"sent", "suppressed", "failed"}), Len(intents) < MaxAttempts,
         \A i \in DOMAIN intents : intents[i] = "failed",
         NEW status \in Status,
         status = "failed" => Len(intents) + 1 >= MaxAttempts,
         status = "pending" => Len(intents) + 1 < MaxAttempts
  PROVE  LET more == Append(intents, Outcome(status)) IN
         /\ Len(more) = Len(intents) + 1 /\ Len(more) <= MaxAttempts
         /\ status = "failed" <=> Len(more) = MaxAttempts /\ Last(more) = "failed"
         /\ status \in {"sent", "suppressed"} => Last(more) = status
         /\ status = "pending" => \A i \in DOMAIN more : more[i] = "failed"
<1> DEFINE more == Append(intents, Outcome(status))
<1>1. /\ Len(more) = Len(intents) + 1
      /\ more[Len(more)] = Outcome(status)
      /\ \A i \in 1..Len(intents) : more[i] = intents[i]
      /\ DOMAIN more = 1..Len(intents) + 1 /\ DOMAIN intents = 1..Len(intents)
      /\ Len(intents) \in Nat
  <2>1. Outcome(status) \in {"sent", "suppressed", "failed"} BY DEF Outcome, Status
  <2> QED BY <2>1
<1>2. MaxAttempts \in Nat BY OutboxAssumption
<1> HIDE DEF more
<1> SUFFICES /\ Len(more) = Len(intents) + 1 /\ Len(more) <= MaxAttempts
             /\ status = "failed" <=> Len(more) = MaxAttempts /\ Last(more) = "failed"
             /\ status \in {"sent", "suppressed"} => Last(more) = status
             /\ status = "pending" => \A i \in DOMAIN more : more[i] = "failed"
  BY DEF more
<1> QED BY <1>1, <1>2 DEF Last, Outcome, Status

LEMMA IntentsNext ==
  ASSUME OutboxTypeOK, LockDiscipline, AttemptsLeft, IntentsExplainTheEntry, [OutboxNext]_outbox_vars
  PROVE  IntentsExplainTheEntry'
<1>1. ASSUME NEW e \in EntryId, Queue(e) PROVE IntentsExplainTheEntry'
  <2>1. \A f \in EntryId \ {e} : outbox_entry'[f] = outbox_entry[f]
    BY <1>1 DEF Queue, OutboxTypeOK
  <2>2. outbox_entry'[e].status = "pending" /\ outbox_entry'[e].attempts = 0
    <3>1. outbox_entry' = [outbox_entry EXCEPT ![e] =
            [outbox_entry[e] EXCEPT !.status = "pending"]]
      BY <1>1 DEF Queue
    <3> QED BY <1>1, <3>1 DEF Queue, NoEntry, OutboxTypeOK
  <2>3. email_delivery_intent' = email_delivery_intent BY <1>1 DEF Queue
  <2>4. email_delivery_intent[e] = <<>> BY <1>1 DEF Queue, NoEntry, AttemptsLeft
  <2>5. ASSUME NEW f \in EntryId
        PROVE  LET row == outbox_entry'[f]
                   intents == email_delivery_intent'[f]
               IN /\ row.attempts = Len(intents) /\ row.attempts <= MaxAttempts
                  /\ row.status = "failed" <=> Len(intents) = MaxAttempts /\ Last(intents) = "failed"
                  /\ row.status \in {"sent", "suppressed"} => Last(intents) = row.status
                  /\ row.status = "pending" => \A i \in DOMAIN intents : intents[i] = "failed"
    <3>1. CASE f = e BY <2>2, <2>3, <2>4, <3>1, OutboxAssumption
    <3>2. CASE f # e BY <2>1, <2>3, <3>2 DEF IntentsExplainTheEntry
    <3> QED BY <3>1, <3>2
  <2> QED BY <2>5 DEF IntentsExplainTheEntry, Last
<1>2. ASSUME NEW d \in Dispatcher, Claim(d) PROVE IntentsExplainTheEntry'
  BY <1>2, IntentsKept DEF Claim, table
<1>3. ASSUME NEW d \in Dispatcher, NEW e \in EntryId,
             Suppress(d, e) \/ Send(d, e) \/ SendFails(d, e) \/ AnswerLost(d, e)
      PROVE  IntentsExplainTheEntry'
  <2>1. UNCHANGED table BY <1>3, HandlingWrites DEF Writes
  <2> QED BY <2>1, IntentsKept DEF table
<1>4. ASSUME NEW d \in Dispatcher, Commit(d) PROVE IntentsExplainTheEntry'
  <2> DEFINE Explained(row, intents) ==
        /\ row.attempts = Len(intents) /\ row.attempts <= MaxAttempts
        /\ row.status = "failed" <=> Len(intents) = MaxAttempts /\ Last(intents) = "failed"
        /\ row.status \in {"sent", "suppressed"} => Last(intents) = row.status
        /\ row.status = "pending" => \A i \in DOMAIN intents : intents[i] = "failed"
  <2>1. ASSUME NEW e \in EntryId
        PROVE  Explained(outbox_entry'[e], email_delivery_intent'[e])
    <3>1. CASE handled[d][e] = Untouched
      <4>1. /\ outbox_entry'[e] = outbox_entry[e]
            /\ email_delivery_intent'[e] = email_delivery_intent[e]
        BY <1>4, <3>1, CommitWrites
      <4> QED BY <4>1 DEF IntentsExplainTheEntry
    <3>2. CASE handled[d][e] # Untouched
      <4> DEFINE status == handled[d][e].status
                 intents == email_delivery_intent[e]
      <4>1. /\ outbox_entry[e].status = "pending"
            /\ outbox_entry'[e].status = status
            /\ outbox_entry'[e].attempts = Attempt(e)
            /\ email_delivery_intent'[e] = Append(intents, Outcome(status))
        BY <1>4, <3>2, CommitWrites
      <4>2. status \in Status /\ intents \in Seq({"sent", "suppressed", "failed"})
        BY <3>2 DEF OutboxTypeOK, AttemptsLeft, Status
      <4>3. Attempt(e) = Len(intents) + 1 BY DEF Attempt, IntentsExplainTheEntry
      <4>4. Len(intents) < MaxAttempts /\ \A i \in DOMAIN intents : intents[i] = "failed"
        BY <4>1 DEF IntentsExplainTheEntry, AttemptsLeft
      <4>5. /\ status = "failed" => Len(intents) + 1 >= MaxAttempts
            /\ status = "pending" => Len(intents) + 1 < MaxAttempts
        BY <4>3 DEF AttemptsLeft
      <4> DEFINE more == Append(intents, Outcome(status))
      <4> HIDE DEF status, intents
      <4>6. /\ Len(more) = Len(intents) + 1 /\ Len(more) <= MaxAttempts
            /\ status = "failed" <=> Len(more) = MaxAttempts /\ Last(more) = "failed"
            /\ status \in {"sent", "suppressed"} => Last(more) = status
            /\ status = "pending" => \A i \in DOMAIN more : more[i] = "failed"
        BY <4>2, <4>4, <4>5, OneMoreIntent
      <4> HIDE DEF more
      <4>7. email_delivery_intent'[e] = more BY <4>1 DEF more
      <4> QED BY <4>1, <4>3, <4>6, <4>7
    <3> QED BY <3>1, <3>2
  <2> QED BY <2>1 DEF IntentsExplainTheEntry
<1>5. ASSUME NEW d \in Dispatcher, RunLost(d) PROVE IntentsExplainTheEntry'
  BY <1>5, IntentsKept DEF RunLost, table
<1>6. ASSUME Tick PROVE IntentsExplainTheEntry'
  <2>1. \A e \in EntryId : /\ outbox_entry'[e].status = outbox_entry[e].status
                           /\ outbox_entry'[e].attempts = outbox_entry[e].attempts
    BY <1>6 DEF Tick, OutboxTypeOK
  <2> QED BY <1>6, <2>1, IntentsKept DEF Tick
<1>7. CASE UNCHANGED outbox_vars
  BY <1>7, IntentsKept DEF outbox_vars, table
<1> QED BY <1>1, <1>2, <1>3, <1>4, <1>5, <1>6, <1>7 DEF OutboxNext, Dispatch
-----------------------------------------------------------------------------
LEMMA InitOutboxInv == ASSUME OutboxInit PROVE OutboxInv
  BY TypeInit, LockInit, LettersInit, AttemptsInit, IntentsInit DEF OutboxInv

LEMMA NextOutboxInv == ASSUME OutboxInv, [OutboxNext]_outbox_vars PROVE OutboxInv'
  BY TypeNext, LockNext, LettersNext, AttemptsNext, IntentsNext DEF OutboxInv

LEMMA Inductive == OutboxSpec => []OutboxInv
  BY InitOutboxInv, NextOutboxInv, PTL DEF OutboxSpec

\* FR-003 and FR-004: the attempts of a row are its intents, an entry is given
\* up after exactly MAX_DELIVERY_ATTEMPTS failures, and its status is that of
\* its last intent, however the runs of process_outbox overlap.
THEOREM EveryAttemptIsAccountedFor == OutboxSpec => []IntentsExplainTheEntry
<1>1. OutboxInv => IntentsExplainTheEntry BY DEF OutboxInv
<1> QED BY <1>1, Inductive, PTL

\* US4: the SMTP server takes one letter for an entry, and one more at most for
\* every run lost before its commit and every answer that was lost.
THEOREM NoLetterTwice == OutboxSpec => []MailedOnceUnlessLost
<1>1. OutboxInv => MailedOnceUnlessLost BY DEF OutboxInv
<1> QED BY <1>1, Inductive, PTL

\* SKIP LOCKED: what a run works on is locked by it and pending until it ends,
\* so that no other run claims it.
THEOREM OneRunAtATime == OutboxSpec => []LockDiscipline
<1>1. OutboxInv => LockDiscipline BY DEF OutboxInv
<1> QED BY <1>1, Inductive, PTL
=============================================================================
