--------------------------- MODULE IdentityProofs ---------------------------
(***************************************************************************)
(* Proofs about Identity and its SigningKeys for any number of tasks,      *)
(* keys, users and tokens: what the cache of signing keys promises while   *)
(* the provider rotates its keys, and that nobody acts who was never       *)
(* entitled to while the request ran.                                      *)
(***************************************************************************)
EXTENDS Identity, TLAPS

-----------------------------------------------------------------------------
(***************************************************************************)
(* The signing keys.                                                       *)
(***************************************************************************)
Progress ==
  {"idle", "key", "refresh", "force", "refreshing", "forcing", "signed", "unknown", "ended",
   "again", "inserted", "known", "provisioned", "current", "bearer", "token", "owner",
   "principal", "member", "found", "acted"}

KeyTypes ==
  /\ provider \in [Kid -> {"future", "published", "withdrawn"}]
  /\ withdrawn \in [Kid -> Nat]
  /\ keys \subseteq Kid
  /\ expires_in \in 0..Ttl
  /\ document \in [Call -> (SUBSET Kid) \cup {NoDocument}]
  /\ lasted \in [Call -> 0..(MaxFetch + 1)]
  /\ took \in 0..(MaxFetch + 1)
  /\ pc \in [Call -> Progress]
  /\ kid \in [Call -> Kid \cup {NoKid}]
  /\ steady \in [Call -> BOOLEAN]

\* Only a fetch that goes on has a document, and what the document shows was
\* published no longer ago than the fetch has lasted, where that is known.
Documents ==
  /\ \A c \in Call : ~Fetching(c) => document[c] = NoDocument
  /\ \A k \in Kid : provider[k] # "withdrawn" => withdrawn[k] = 0
  /\ \A c \in Call : document[c] # NoDocument /\ lasted[c] <= MaxFetch =>
       \A k \in document[c] : withdrawn[k] <= lasted[c]

\* A cached key was withdrawn before its document arrived, by no more than the
\* fetch took, or after.
CacheAge ==
  Fresh /\ took <= MaxFetch => \A k \in keys : withdrawn[k] + expires_in <= Ttl + took

\* A task whose key was published all the time finds it in the document that it
\* fetches.
SteadyKeys ==
  \A c \in Call : steady[c] =>
    /\ pc[c] # "idle" => kid[c] \in Published
    /\ document[c] # NoDocument => kid[c] \in document[c]

KeysInv == KeyTypes /\ Documents /\ CacheAge /\ SteadyKeys /\ PublishedKeyIsKnown

\* What the rest of a request does to its progress: the keys stay as they are.
Quiet == {"refreshing", "forcing", "unknown", "signed"}
Elsewhere ==
  /\ UNCHANGED <<cache, idp>>
  /\ pc' \in [Call -> Progress]
  /\ kid' \in [Call -> Kid \cup {NoKid}]
  /\ \A d \in Call : pc'[d] \in Quiet \/ pc[d] \in Quiet \ {"unknown", "signed"}
       => pc'[d] = pc[d] /\ kid'[d] = kid[d]

LEMMA AfterRefreshIs ==
  ASSUME NEW c \in Call, NEW forced \in BOOLEAN, NEW cached \in SUBSET Kid,
         kid[c] \in Kid \cup {NoKid}
  PROVE  /\ AfterRefresh(c, forced, cached) \in {"ended", "signed", "force", "unknown"}
         /\ AfterRefresh(c, forced, cached) \in Progress
         /\ AfterRefresh(c, forced, cached) = "signed" => kid[c] \in cached
         /\ AfterRefresh(c, forced, cached) = "unknown" => kid[c] \notin cached /\ forced
<1>1. NoKid \notin cached
  BY KeysAssumption
<1>2. CASE kid[c] = NoKid
  BY <1>1, <1>2 DEF AfterRefresh, Progress
<1>3. CASE kid[c] \in cached
  BY <1>1, <1>3 DEF AfterRefresh, Progress
<1>4. CASE kid[c] # NoKid /\ kid[c] \notin cached /\ ~forced
  BY <1>4 DEF AfterRefresh, Progress
<1>5. CASE kid[c] # NoKid /\ kid[c] \notin cached /\ forced
  BY <1>5 DEF AfterRefresh, Progress
<1> QED
  BY <1>2, <1>3, <1>4, <1>5

\* What each step of a task does to the keys, a step's guard among it.
LEMMA KeyStepTypes ==
  ASSUME KeyTypes, NEW c \in Call, KeyStep(c), KeyHistory
  PROVE  KeyTypes'
<1>1. steady' \in [Call -> BOOLEAN]
  BY DEF KeyTypes, KeyHistory
<1>2. CASE GetKey(c)
  BY <1>1, <1>2 DEF KeyTypes, Progress, GetKey, cache, idp
<1>3. CASE SkipRefresh(c)
  <2>1. AfterRefresh(c, pc[c] = "force", keys) \in Progress
    BY AfterRefreshIs DEF KeyTypes
  <2> QED
    BY <1>1, <1>3, <2>1 DEF KeyTypes, SkipRefresh, cache, idp
<1>4. CASE StartFetch(c)
  BY <1>1, <1>4 DEF KeyTypes, Progress, StartFetch, idp
<1>5. CASE ProviderAnswers(c)
  <2>1. Published \in SUBSET Kid
    BY DEF Published
  <2> QED
    BY <1>1, <1>5, <2>1 DEF KeyTypes, ProviderAnswers, idp
<1>6. CASE Fetched(c)
  <2>1. document[c] \in SUBSET Kid
    BY <1>6 DEF KeyTypes, Fetched
  <2>2. AfterRefresh(c, pc[c] = "forcing", document[c]) \in Progress
    BY <2>1, AfterRefreshIs DEF KeyTypes
  <2>3. Ttl \in 0..Ttl /\ 0 \in 0..(MaxFetch + 1)
    BY KeysAssumption
  <2> QED
    BY <1>1, <1>6, <2>1, <2>2, <2>3 DEF KeyTypes, Fetched, FetchEnds, idp
<1>7. CASE FetchFails(c)
  <2>1. 0 \in 0..(MaxFetch + 1)
    BY KeysAssumption
  <2> QED
    BY <1>1, <1>7, <2>1 DEF KeyTypes, Progress, FetchFails, FetchEnds, idp
<1> QED
  BY <1>2, <1>3, <1>4, <1>5, <1>6, <1>7 DEF KeyStep

LEMMA KeyStepKeeps ==
  ASSUME KeysInv, NEW c \in Call, KeyStep(c), KeyHistory
  PROVE  KeysInv'
<1>1. KeyTypes'
  BY KeyStepTypes DEF KeysInv
<1>2. /\ provider' = provider /\ withdrawn' = withdrawn /\ kid' = kid /\ Published' = Published
      /\ \A d \in Call : steady'[d] = (pc'[d] = "idle" \/ (steady[d] /\ kid[d] \in Published))
  BY DEF KeyStep, GetKey, SkipRefresh, StartFetch, ProviderAnswers, Fetched, FetchFails,
         FetchEnds, idp, KeyHistory, Published
<1>3. /\ \A d \in Call \ {c} : /\ pc'[d] = pc[d] /\ document'[d] = document[d]
                               /\ lasted'[d] = lasted[d]
      /\ pc[c] # "idle" /\ pc'[c] # "idle"
  <2>1. CASE GetKey(c)
    BY <2>1 DEF KeysInv, KeyTypes, GetKey, cache
  <2>2. CASE SkipRefresh(c)
    <3>1. AfterRefresh(c, pc[c] = "force", keys) # "idle"
      BY AfterRefreshIs DEF KeysInv, KeyTypes
    <3> QED
      BY <2>2, <3>1 DEF KeysInv, KeyTypes, SkipRefresh, cache
  <2>3. CASE StartFetch(c)
    BY <2>3 DEF KeysInv, KeyTypes, StartFetch
  <2>4. CASE ProviderAnswers(c)
    BY <2>4 DEF KeysInv, KeyTypes, ProviderAnswers, Fetching
  <2>5. CASE Fetched(c)
    <3>1. document[c] \in SUBSET Kid
      BY <2>5 DEF KeysInv, KeyTypes, Fetched
    <3>2. AfterRefresh(c, pc[c] = "forcing", document[c]) # "idle"
      BY <3>1, AfterRefreshIs DEF KeysInv, KeyTypes
    <3> QED
      BY <2>5, <3>2 DEF KeysInv, KeyTypes, Fetched, FetchEnds, Fetching
  <2>6. CASE FetchFails(c)
    BY <2>6 DEF KeysInv, KeyTypes, FetchFails, FetchEnds, Fetching
  <2> QED
    BY <2>1, <2>2, <2>3, <2>4, <2>5, <2>6 DEF KeyStep
<1>4. \A d \in Call : pc'[d] # "idle" /\ steady'[d] => steady[d] /\ kid[d] \in Published
  BY <1>2
<1>5. SUFFICES /\ Fetching(c)' \/ document'[c] = NoDocument
               /\ document'[c] # NoDocument =>
                    /\ lasted'[c] <= MaxFetch =>
                         \A k \in document'[c] : withdrawn[k] <= lasted'[c]
                    /\ steady[c] /\ kid[c] \in Published => kid[c] \in document'[c]
               /\ CacheAge'
               /\ pc'[c] = "unknown" => pc[c] = "unknown" \/ ~steady[c] \/ kid[c] \notin Published
  <2>1. Documents'
    BY <1>2, <1>3, <1>5 DEF KeysInv, Documents, Fetching
  <2>2. SteadyKeys'
    <3>1. \A d \in Call : document[d] # NoDocument => pc[d] # "idle"
      BY DEF KeysInv, Documents, Fetching
    <3> QED
      BY <1>2, <1>3, <1>4, <1>5, <3>1 DEF KeysInv, SteadyKeys
  <2>3. PublishedKeyIsKnown'
    BY <1>2, <1>3, <1>4, <1>5 DEF KeysInv, PublishedKeyIsKnown
  <2> QED
    BY <1>1, <1>5, <2>1, <2>2, <2>3 DEF KeysInv
<1>6. CASE GetKey(c) \/ SkipRefresh(c)
  <2>1. UNCHANGED cache /\ ~Fetching(c) /\ ~Fetching(c)' /\ pc'[c] # "unknown"
    <3>1. CASE GetKey(c)
      BY <3>1 DEF KeysInv, KeyTypes, GetKey, Fetching
    <3>2. CASE SkipRefresh(c)
      <4>1. pc[c] = "refresh" /\ pc'[c] = AfterRefresh(c, FALSE, keys)
        BY <3>2 DEF KeysInv, KeyTypes, SkipRefresh, Needless
      <4>2. AfterRefresh(c, FALSE, keys) \in {"ended", "signed", "force"}
        BY AfterRefreshIs DEF KeysInv, KeyTypes
      <4> QED
        BY <3>2, <4>1, <4>2 DEF SkipRefresh, Fetching
    <3> QED
      BY <1>6, <3>1, <3>2
  <2> QED
    BY <1>2, <2>1 DEF KeysInv, Documents, CacheAge, SteadyKeys, Fresh, cache
<1>7. CASE StartFetch(c)
  <2>1. /\ UNCHANGED <<keys, expires_in, took, document, lasted>>
        /\ ~Fetching(c) /\ pc'[c] # "unknown"
    BY <1>7 DEF KeysInv, KeyTypes, StartFetch, Fetching
  <2> QED
    BY <1>2, <2>1 DEF KeysInv, Documents, CacheAge, SteadyKeys, Fresh
<1>8. CASE ProviderAnswers(c)
  <2>1. /\ UNCHANGED <<keys, expires_in, took, lasted, pc>> /\ Fetching(c)
        /\ document'[c] = Published
    BY <1>8 DEF KeysInv, KeyTypes, ProviderAnswers
  <2>2. \A k \in Published : withdrawn[k] = 0 /\ 0 <= lasted[c]
    BY DEF KeysInv, Documents, Published, KeyTypes
  <2> QED
    BY <1>2, <2>1, <2>2 DEF KeysInv, CacheAge, Fresh, Fetching
<1>9. CASE Fetched(c)
  <2>1. /\ Fetching(c) /\ document[c] # NoDocument /\ keys' = document[c]
        /\ expires_in' = Ttl /\ took' = lasted[c] /\ document'[c] = NoDocument
        /\ pc'[c] = AfterRefresh(c, pc[c] = "forcing", document[c])
    BY <1>9 DEF KeysInv, KeyTypes, Fetched, FetchEnds
  <2>2. /\ document[c] \in SUBSET Kid
        /\ lasted[c] <= MaxFetch => \A k \in document[c] : withdrawn[k] <= lasted[c]
    BY <2>1 DEF KeysInv, KeyTypes, Documents
  <2>3. CacheAge'
    <3> SUFFICES ASSUME lasted[c] <= MaxFetch, NEW k \in document[c]
                 PROVE  withdrawn[k] + Ttl <= Ttl + lasted[c]
      BY <1>2, <2>1 DEF CacheAge
    <3>1. withdrawn[k] \in Nat /\ lasted[c] \in 0..(MaxFetch + 1) /\ withdrawn[k] <= lasted[c]
      BY <2>2 DEF KeysInv, KeyTypes
    <3> QED
      BY <3>1, KeysAssumption
  <2>4. pc'[c] = "unknown" => ~steady[c]
    BY <2>1, <2>2, AfterRefreshIs DEF KeysInv, KeyTypes, SteadyKeys
  <2> QED
    BY <2>1, <2>3, <2>4
<1>10. CASE FetchFails(c)
  <2>1. /\ UNCHANGED <<keys, expires_in, took>> /\ document'[c] = NoDocument /\ pc'[c] = "ended"
    BY <1>10 DEF KeysInv, KeyTypes, FetchFails, FetchEnds
  <2> QED
    BY <1>2, <2>1 DEF KeysInv, CacheAge, Fresh
<1> QED
  BY <1>6, <1>7, <1>8, <1>9, <1>10 DEF KeyStep

\* Time passes for a withdrawn key, for the cache and for the fetch alike.
LEMMA TickKeeps ==
  ASSUME KeysInv, Tick, UNCHANGED <<pc, kid>>, KeyHistory
  PROVE  KeysInv'
<1> USE KeysAssumption DEF KeysInv, KeyTypes, Tick
<1>1. /\ Published' = Published
      /\ \A d \in Call : Fetching(d)' = Fetching(d)
      /\ \A d \in Call : pc[d] # "idle" /\ steady'[d] => steady[d]
      /\ \A d \in Call : pc[d] # "idle" /\ steady'[d] => kid[d] \in Published
  BY DEF Published, Fetching, KeyHistory
<1>2. \A k \in Kid : /\ withdrawn'[k] \in Nat /\ withdrawn'[k] <= withdrawn[k] + 1
                     /\ provider[k] # "withdrawn" => withdrawn'[k] = 0
  BY DEF Sooner
<1>3. \A d \in Call : /\ lasted'[d] \in 0..(MaxFetch + 1)
                      /\ Fetching(d) /\ lasted'[d] <= MaxFetch => lasted'[d] = lasted[d] + 1
  BY DEF Sooner
<1>4. KeyTypes'
  <2>1. withdrawn' \in [Kid -> Nat]
    BY <1>2
  <2>2. lasted' \in [Call -> 0..(MaxFetch + 1)]
    BY <1>3
  <2>3. expires_in' \in 0..Ttl /\ took' \in 0..(MaxFetch + 1)
    BY DEF Fresh
  <2>4. steady' \in [Call -> BOOLEAN]
    BY DEF KeyHistory
  <2> QED
    BY <2>1, <2>2, <2>3, <2>4
<1>5. Documents'
  <2> SUFFICES ASSUME NEW d \in Call, document[d] # NoDocument, lasted'[d] <= MaxFetch,
                      NEW k \in document[d]
               PROVE  withdrawn'[k] <= lasted'[d]
    BY <1>1, <1>2 DEF Documents
  <2>1. k \in Kid /\ Fetching(d) /\ lasted'[d] = lasted[d] + 1
    BY <1>3 DEF Documents
  <2>2. withdrawn[k] \in Nat /\ lasted[d] \in Nat /\ lasted[d] <= MaxFetch
    BY <2>1
  <2>3. withdrawn[k] <= lasted[d]
    BY <2>2 DEF Documents
  <2> QED
    BY <1>2, <2>1, <2>2, <2>3
<1>6. CacheAge'
  <2> SUFFICES ASSUME NEW k \in keys, expires_in' > 0, took' <= MaxFetch
               PROVE  withdrawn'[k] + expires_in' <= Ttl + took'
    BY DEF CacheAge, Fresh
  <2>1. /\ expires_in > 0 /\ expires_in' = expires_in - 1 /\ expires_in \in Nat
        /\ took' = took /\ took \in Nat
    BY DEF Fresh
  <2>2. k \in Kid /\ withdrawn[k] \in Nat /\ withdrawn[k] + expires_in <= Ttl + took
    BY <2>1 DEF CacheAge, Fresh
  <2> QED
    BY <1>2, <2>1, <2>2
<1>7. SteadyKeys'
  <2> SUFFICES ASSUME NEW d \in Call, steady'[d]
               PROVE  /\ pc[d] # "idle" => kid[d] \in Published
                      /\ document[d] # NoDocument => kid[d] \in document[d]
    BY <1>1 DEF SteadyKeys
  <2>1. document[d] # NoDocument => pc[d] # "idle"
    BY DEF Documents, Fetching
  <2> QED
    BY <1>1, <2>1 DEF SteadyKeys
<1>8. PublishedKeyIsKnown'
  BY <1>1 DEF PublishedKeyIsKnown
<1> QED
  BY <1>4, <1>5, <1>6, <1>7, <1>8

\* A key that is published or withdrawn is in no document that shows otherwise.
LEMMA ProviderKeeps ==
  ASSUME KeysInv, NEW k \in Rotating, Publish(k) \/ Withdraw(k), KeyHistory
  PROVE  KeysInv'
<1> USE DEF KeysInv, KeyTypes
<1>1. /\ k \in Kid /\ UNCHANGED <<withdrawn, cache, pc, kid>>
      /\ provider[k] # "withdrawn"
      /\ \/ provider' = [provider EXCEPT ![k] = "published"]
         \/ provider' = [provider EXCEPT ![k] = "withdrawn"]
  BY KeysAssumption DEF Publish, Withdraw
<1>2. /\ \A d \in Call : pc[d] # "idle" /\ steady'[d] => steady[d] /\ kid[d] \in Published'
      /\ steady' \in [Call -> BOOLEAN]
  BY <1>1 DEF KeyHistory
<1>3. KeyTypes'
  BY <1>1, <1>2 DEF cache
<1>4. Documents'
  BY <1>1 DEF Documents, Fetching, cache
<1>5. CacheAge'
  BY <1>1 DEF CacheAge, Fresh, cache
<1>6. SteadyKeys'
  <2>1. \A d \in Call : document[d] # NoDocument => pc[d] # "idle"
    BY DEF Documents, Fetching
  <2> QED
    BY <1>1, <1>2, <2>1 DEF SteadyKeys, cache
<1>7. PublishedKeyIsKnown'
  BY <1>1, <1>2 DEF PublishedKeyIsKnown
<1> QED
  BY <1>3, <1>4, <1>5, <1>6, <1>7

LEMMA ElsewhereKeeps ==
  ASSUME KeysInv, Elsewhere, KeyHistory
  PROVE  KeysInv'
<1> USE DEF KeysInv, KeyTypes
<1>1. /\ \A d \in Call : pc'[d] # "idle" /\ steady'[d] => steady[d] /\ kid'[d] \in Published'
      /\ steady' \in [Call -> BOOLEAN]
  BY DEF KeyHistory
<1>2. KeyTypes'
  BY <1>1 DEF Elsewhere, cache, idp
<1>3. \A d \in Call : /\ Fetching(d)' <=> Fetching(d)
                      /\ Fetching(d) => pc'[d] = pc[d] /\ kid'[d] = kid[d]
                      /\ pc'[d] = "unknown" => pc[d] = "unknown"
  BY DEF Elsewhere, Quiet, Fetching
<1>4. Documents'
  BY <1>3 DEF Documents, Elsewhere, cache, idp
<1>5. CacheAge'
  BY DEF CacheAge, Fresh, Elsewhere, cache, idp
<1>6. SteadyKeys'
  <2>1. \A d \in Call : document[d] # NoDocument => Fetching(d) /\ pc[d] # "idle"
    BY DEF Documents, Fetching
  <2> QED
    BY <1>1, <1>3, <2>1 DEF SteadyKeys, Elsewhere, cache
<1>7. PublishedKeyIsKnown'
  BY <1>1, <1>3 DEF PublishedKeyIsKnown
<1> QED
  BY <1>2, <1>4, <1>5, <1>6, <1>7
-----------------------------------------------------------------------------
(***************************************************************************)
(* The requests.                                                           *)
(***************************************************************************)
AccessOps == {"act", "create_token", "revoke_token"}

Token == [owner : UserId \cup {NoUser}, status : {"absent", "valid", "revoked"}]

TableTypes ==
  /\ app_user \in [UserId -> {"absent", "active", "disabled"}]
  /\ user_identity \in [UserId -> Subject \cup {NoSubject}]
  /\ household_member \in [UserId -> {"none", "active", "revoked"}]
  /\ mcp_token \in [TokenId -> Token]
  /\ request \in [Call -> Request \cup {NoRequest}]
  /\ user \in [Call -> UserId \cup {NoUser}]
  /\ inserted \in [Call -> UserId \cup {NoUser}]
  /\ entitled \in [Call -> SUBSET {"token", "user", "member"}]

\* An identity has a user, no two open transactions insert one row, and a token
\* that was revoked stays so.
Tables ==
  /\ \A u \in UserId : user_identity[u] # NoSubject => app_user[u] # "absent"
  /\ \A c, d \in Call : pc[c] = "inserted" /\ pc[d] = "inserted" /\ inserted[c] = inserted[d]
       => c = d
  /\ \A t \in revoked \cap TokenId : mcp_token[t].status = "revoked"

\* What a request has found out by the time it reaches each of its steps.
Session(c) ==
  /\ pc[c] # "idle" => request[c] \in Request /\ InOrder(c) \subseteq entitled[c]
  /\ pc[c] \in {"key", "signed", "again", "inserted", "known", "provisioned", "current"}
       => request[c].op \in AccessOps
  /\ pc[c] \in {"refresh", "force", "refreshing", "forcing"}
       => request[c].op \in AccessOps \/ kid[c] = NoKid
  /\ pc[c] \in {"bearer", "token", "owner", "principal"} => request[c].op = "mcp_act"
  /\ pc[c] # "idle" /\ request[c].op = "mcp_act" => mcp_token[request[c].token] # NoToken
  /\ pc[c] = "found" => request[c].op = "revoke_token"
  /\ pc[c] = "inserted" => /\ inserted[c] \in UserId
                           /\ app_user[inserted[c]] = "absent"
                           /\ user_identity[inserted[c]] = NoSubject
  /\ pc[c] \in {"known", "provisioned", "current"} => user[c] \in Owners(c)
  /\ pc[c] \in {"token", "owner", "principal"} => user[c] = mcp_token[request[c].token].owner
  /\ pc[c] = "token" => "token" \in entitled[c]
  /\ pc[c] = "current" => "user" \in entitled[c]
  /\ pc[c] \in {"owner", "principal"} => {"token", "user"} \subseteq entitled[c]
  /\ pc[c] \in {"member", "found", "acted"} => entitled[c] = {"token", "user", "member"}

Sessions == \A c \in Call : Session(c)

IInv == KeysInv /\ TableTypes /\ Tables /\ Sessions
-----------------------------------------------------------------------------
(***************************************************************************)
(* What a step of one request leaves to the others.                        *)
(***************************************************************************)
\* Identities keep their subject, tokens their owner and their revocation.
OldRows ==
  /\ \A u \in UserId : user_identity[u] # NoSubject => user_identity'[u] = user_identity[u]
  /\ \A t \in TokenId : mcp_token[t] # NoToken =>
       mcp_token'[t] # NoToken /\ mcp_token'[t].owner = mcp_token[t].owner
  /\ \A t \in TokenId : mcp_token[t].status = "revoked" => mcp_token'[t].status = "revoked"

Stays(d) ==
  /\ pc'[d] = pc[d] /\ kid'[d] = kid[d] /\ request'[d] = request[d]
  /\ user'[d] = user[d] /\ inserted'[d] = inserted[d]
  /\ pc[d] = "inserted" => /\ app_user'[inserted[d]] = app_user[inserted[d]]
                           /\ user_identity'[inserted[d]] = user_identity[inserted[d]]

\* The tables but for the history variable.
RowTypes ==
  /\ app_user \in [UserId -> {"absent", "active", "disabled"}]
  /\ user_identity \in [UserId -> Subject \cup {NoSubject}]
  /\ household_member \in [UserId -> {"none", "active", "revoked"}]
  /\ mcp_token \in [TokenId -> Token]
  /\ request \in [Call -> Request \cup {NoRequest}]
  /\ user \in [Call -> UserId \cup {NoUser}]
  /\ inserted \in [Call -> UserId \cup {NoUser}]

\* No user loses its row, and an identity never comes without one.
UserRows ==
  /\ \A u \in UserId : user_identity'[u] # NoSubject => app_user'[u] # "absent"
  /\ \A d, e \in Call : pc'[d] = "inserted" /\ pc'[e] = "inserted" /\ inserted'[d] = inserted'[e]
       => d = e

LEMMA HistoryIs ==
  ASSUME IInv, History
  PROVE  /\ entitled' \in [Call -> SUBSET {"token", "user", "member"}]
         /\ \A c \in Call : pc'[c] # "idle" =>
              entitled[c] \subseteq entitled'[c] /\ InOrder(c)' \subseteq entitled'[c]
         /\ \A c \in Call : pc[c] # "idle" /\ pc'[c] # "idle" =>
              InOrder(c) \subseteq entitled'[c]
<1>1. \A c \in Call : InOrder(c)' \subseteq {"token", "user", "member"}
  BY DEF InOrder
<1>2. entitled' = [c \in Call |-> IF pc'[c] = "idle" THEN {} ELSE entitled[c] \cup InOrder(c)']
  BY DEF History
<1>3. entitled \in [Call -> SUBSET {"token", "user", "member"}]
  BY DEF IInv, TableTypes
<1>4. entitled' \in [Call -> SUBSET {"token", "user", "member"}]
  BY <1>1, <1>2, <1>3
<1>5. \A c \in Call : pc'[c] # "idle" =>
         entitled[c] \subseteq entitled'[c] /\ InOrder(c)' \subseteq entitled'[c]
  BY <1>2
<1>6. \A c \in Call : pc[c] # "idle" => InOrder(c) \subseteq entitled[c]
  BY DEF IInv, Sessions, Session
<1> QED
  BY <1>4, <1>5, <1>6

\* What is in order shows in InOrder.
LEMMA InOrderHas ==
  ASSUME NEW c \in Call
  PROVE  /\ request[c].op \in AccessOps => "token" \in InOrder(c)
         /\ request[c].op = "mcp_act" /\ request[c].token \notin revoked => "token" \in InOrder(c)
         /\ \A u : /\ \/ request[c].op \in AccessOps /\ u \in Owners(c)
                      \/ request[c].op = "mcp_act" /\ u = mcp_token[request[c].token].owner
                   => /\ app_user[u] = "active" => "user" \in InOrder(c)
                      /\ household_member[u] = "active" => "member" \in InOrder(c)
<1>1. request[c].op \in AccessOps => Users(c) = Owners(c) /\ request[c].op # "mcp_act"
  BY DEF Users, AccessOps
<1>2. request[c].op = "mcp_act" => Users(c) = {mcp_token[request[c].token].owner}
  BY DEF Users
<1>3. request[c].op \in AccessOps => "token" \in InOrder(c)
  BY <1>1 DEF InOrder
<1>4. request[c].op = "mcp_act" /\ request[c].token \notin revoked => "token" \in InOrder(c)
  BY DEF InOrder
<1>5. \A u \in Users(c) : /\ app_user[u] = "active" => "user" \in InOrder(c)
                          /\ household_member[u] = "active" => "member" \in InOrder(c)
  BY DEF InOrder
<1> QED
  BY <1>1, <1>2, <1>3, <1>4, <1>5

LEMMA RequestIs ==
  ASSUME NEW q \in Request
  PROVE  /\ q.op \in AccessOps \cup {"ready", "mcp_act"}
         /\ q.op \in AccessOps => q.subject \in Subject /\ q.kid \in Kid
         /\ q.op \in {"ready", "mcp_act"} => q.kid = NoKid
         /\ q.op \in {"mcp_act", "revoke_token"} => q.token \in TokenId
         /\ q.kid \in Kid \cup {NoKid}
BY IdentityAssumption DEF Of, AccessOps

\* A request that a step leaves alone has found out what it had.
LEMMA OthersSession ==
  ASSUME IInv, NEW d \in Call, Stays(d), OldRows, History
  PROVE  Session(d)'
<1>1. /\ Session(d)
      /\ pc'[d] = pc[d] /\ kid'[d] = kid[d] /\ request'[d] = request[d]
      /\ user'[d] = user[d] /\ inserted'[d] = inserted[d]
  BY DEF IInv, Sessions, Stays
<1>2. pc[d] # "idle" => request[d] \in Request /\ entitled[d] \subseteq entitled'[d]
  BY <1>1, HistoryIs DEF Session
<1>3. entitled'[d] \subseteq {"token", "user", "member"}
  BY HistoryIs
<1>4. pc[d] # "idle" => InOrder(d)' \subseteq entitled'[d]
  BY <1>1, HistoryIs
<1>5. ASSUME pc[d] # "idle", request[d].op = "mcp_act"
      PROVE  /\ mcp_token'[request[d].token] # NoToken
             /\ mcp_token'[request[d].token].owner = mcp_token[request[d].token].owner
  BY <1>1, <1>2, <1>5, RequestIs DEF Session, OldRows
<1>6. ASSUME pc[d] \in {"known", "provisioned", "current"} PROVE user[d] \in Owners(d)'
  <2>1. user[d] \in UserId /\ user_identity[user[d]] = request[d].subject
    BY <1>1, <1>6 DEF Session, Owners
  <2>2. request[d].subject # NoSubject
    BY <1>1, <1>2, <1>6, RequestIs, IdentityAssumption DEF Session
  <2> QED
    BY <1>1, <2>1, <2>2 DEF OldRows, Owners
<1>7. pc[d] = "inserted" => /\ app_user'[inserted[d]] = "absent"
                            /\ user_identity'[inserted[d]] = NoSubject
  BY <1>1 DEF Session, Stays
<1>8. NoToken' = NoToken
  BY DEF NoToken
<1>9. pc[d] \in {"token", "owner", "principal"} => user[d] = mcp_token'[request[d].token].owner
  BY <1>1, <1>5 DEF Session
<1>10. /\ pc[d] = "token" => "token" \in entitled'[d]
       /\ pc[d] = "current" => "user" \in entitled'[d]
       /\ pc[d] \in {"owner", "principal"} => {"token", "user"} \subseteq entitled'[d]
       /\ pc[d] \in {"member", "found", "acted"} => entitled'[d] = {"token", "user", "member"}
  BY <1>1, <1>2, <1>3 DEF Session
<1> QED
  BY <1>1, <1>2, <1>4, <1>5, <1>6, <1>7, <1>8, <1>9, <1>10 DEF Session

\* A step keeps the invariant if it keeps the rows and what its own request has
\* found out.
LEMMA StepKeeps ==
  ASSUME IInv, History, KeysInv', RowTypes', UserRows, OldRows, NEW S \in SUBSET Call,
         \A c \in S : Session(c)', \A d \in Call \ S : Stays(d)
  PROVE  IInv'
<1>1. TableTypes'
  BY HistoryIs DEF TableTypes, RowTypes
<1>2. \A t \in revoked' \cap TokenId : mcp_token'[t].status = "revoked"
  BY DEF IInv, Tables, OldRows, History
<1>3. Tables'
  BY <1>2 DEF Tables, UserRows
<1>4. Sessions'
  <2> SUFFICES ASSUME NEW d \in Call \ S PROVE Session(d)'
    BY DEF Sessions
  <2> QED
    BY OthersSession
<1> QED
  BY <1>1, <1>3, <1>4 DEF IInv
-----------------------------------------------------------------------------
(***************************************************************************)
(* The steps of a request.                                                 *)
(***************************************************************************)
\* What a step proves of the request that takes it and of the rest.
Keeps(c) ==
  /\ RowTypes' /\ UserRows /\ OldRows
  /\ \A d \in Call \ {c} : Stays(d)
  /\ Session(c)'

LEMMA GotoIs ==
  ASSUME KeyTypes, NEW c \in Call, NEW next \in Progress, Goto(c, next)
  PROVE  /\ pc'[c] = next
         /\ UNCHANGED <<cache, idp, tables, request>>
         /\ \A d \in Call \ {c} : pc'[d] = pc[d] /\ kid'[d] = kid[d]
         /\ next \notin Quiet /\ ~Fetching(c) => Elsewhere
BY DEF KeyTypes, Goto, Elsewhere, Quiet, Fetching

\* The statements that find or insert a user.
LEMMA ProvisionStep ==
  ASSUME IInv, NEW c \in Call, Provision(c) \/ CheckUser(c) \/ CheckMembership(c), History
  PROVE  Keeps(c) /\ Elsewhere
<1> DEFINE q == request[c]
<1>1. /\ KeyTypes /\ RowTypes /\ Session(c) /\ Tables
      /\ "known" \in Progress /\ "ended" \in Progress /\ "provisioned" \in Progress
      /\ "inserted" \in Progress /\ "again" \in Progress /\ "current" \in Progress
      /\ "member" \in Progress
  BY DEF IInv, KeysInv, TableTypes, RowTypes, Sessions, Progress
<1>2. /\ pc[c] \in {"signed", "again", "inserted", "known", "provisioned", "current"}
      /\ ~Fetching(c) /\ q.op \in AccessOps /\ q \in Request
      /\ InOrder(c) \subseteq entitled[c]
  BY <1>1 DEF Provision, FindIdentity, UpdateUser, InsertUser, Retry, CommitUser, InsertedUser,
              CheckUser, CheckMembership, Fetching, Session
<1>3. pc'[c] # "idle" => /\ entitled[c] \subseteq entitled'[c]
                         /\ InOrder(c)' \subseteq entitled'[c]
                         /\ InOrder(c) \subseteq entitled'[c]
  BY <1>2, HistoryIs
<1>4. q.op # "mcp_act"
  BY <1>2 DEF AccessOps
<1>5. /\ "token" \in InOrder(c)
      /\ \A u \in Owners(c) : /\ app_user[u] = "active" => "user" \in InOrder(c)
                              /\ household_member[u] = "active" => "member" \in InOrder(c)
  BY <1>2, InOrderHas
<1>6. ASSUME NEW next \in {"known", "ended", "provisioned", "again", "current", "member"},
             Goto(c, next), UNCHANGED inserted, user' \in [Call -> UserId \cup {NoUser}],
             \A d \in Call \ {c} : user'[d] = user[d],
             next \in {"known", "provisioned", "current"} => user'[c] \in Owners(c),
             next = "current" => "user" \in entitled[c],
             next = "member" => entitled'[c] = {"token", "user", "member"}
      PROVE  Keeps(c) /\ Elsewhere
  <2>1. next \in Progress \ Quiet /\ next # "idle"
    BY DEF Progress, Quiet
  <2>2. /\ pc'[c] = next /\ UNCHANGED <<cache, idp, tables, request>> /\ Elsewhere
        /\ \A d \in Call \ {c} : pc'[d] = pc[d] /\ kid'[d] = kid[d]
    BY <1>1, <1>2, <1>6, <2>1, GotoIs
  <2>3. RowTypes' /\ OldRows
    BY <1>1, <1>6, <2>2 DEF RowTypes, OldRows, tables
  <2>4. UserRows
    BY <1>1, <1>6, <2>2 DEF UserRows, Tables, tables
  <2>5. \A d \in Call \ {c} : Stays(d)
    BY <1>6, <2>2 DEF Stays, tables
  <2>6. Session(c)'
    BY <1>2, <1>3, <1>4, <1>6, <2>1, <2>2 DEF Session, Owners, tables
  <2> QED
    BY <2>2, <2>3, <2>4, <2>5, <2>6 DEF Keeps
<1>7. CASE FindIdentity(c)
  <2>1. PICK u \in Owners(c) :
          /\ user' = [user EXCEPT ![c] = u]
          /\ Goto(c, IF app_user[u] = "disabled" THEN "ended" ELSE "known")
    BY <1>7 DEF FindIdentity
  <2>2. u \in UserId
    BY DEF Owners
  <2>3. UNCHANGED inserted
    BY <1>7 DEF FindIdentity
  <2>4. user' \in [Call -> UserId \cup {NoUser}] /\ user'[c] = u
        /\ \A d \in Call \ {c} : user'[d] = user[d]
    BY <1>1, <2>1, <2>2 DEF RowTypes
  <2> QED
    BY <1>6, <2>1, <2>3, <2>4
<1>8. CASE UpdateUser(c)
  <2>1. user[c] \in Owners(c)
    BY <1>1, <1>8 DEF UpdateUser, Session
  <2> QED
    BY <1>1, <1>6, <1>8, <2>1 DEF UpdateUser, RowTypes
<1>9. CASE CheckUser(c)
  <2>1. user[c] \in Owners(c) /\ UNCHANGED <<user, inserted>>
        /\ Goto(c, IF app_user[user[c]] = "active" THEN "current" ELSE "ended")
    BY <1>1, <1>9 DEF CheckUser, Session, session
  <2>2. app_user[user[c]] = "active" => "user" \in entitled[c]
    BY <1>2, <1>5, <2>1
  <2> QED
    BY <1>1, <1>6, <2>1, <2>2 DEF RowTypes
<1>10. CASE CheckMembership(c)
  <2>1. user[c] \in Owners(c) /\ UNCHANGED <<user, inserted>> /\ "user" \in entitled[c]
        /\ Goto(c, IF household_member[user[c]] = "active" THEN "member" ELSE "ended")
    BY <1>1, <1>10 DEF CheckMembership, Session, session
  <2>2. household_member[user[c]] = "active" =>
          "token" \in entitled[c] /\ "user" \in entitled[c] /\ "member" \in entitled[c]
    BY <1>2, <1>5, <2>1
  <2>3. entitled[c] \subseteq entitled'[c]
    <3>1. pc'[c] # "idle"
      BY <1>1, <2>1, GotoIs
    <3> QED
      BY <1>3, <3>1
  <2>4. entitled'[c] \subseteq {"token", "user", "member"}
    BY HistoryIs
  <2>5. household_member[user[c]] = "active" => entitled'[c] = {"token", "user", "member"}
    BY <2>2, <2>3, <2>4
  <2> QED
    BY <1>1, <1>6, <2>1, <2>5 DEF RowTypes
<1>11. CASE InsertUser(c)
  <2>1. PICK u \in FreeUsers : inserted' = [inserted EXCEPT ![c] = u]
    BY <1>11 DEF InsertUser, Unused
  <2>2. Goto(c, "inserted") /\ UNCHANGED user
    BY <1>11 DEF InsertUser
  <2>3. u \in UserId /\ app_user[u] = "absent" /\ \A d \in Call : inserted[d] # u
    BY DEF FreeUsers
  <2>4. user_identity[u] = NoSubject
    BY <1>1, <2>3 DEF Tables
  <2>5. /\ pc'[c] = "inserted" /\ UNCHANGED <<cache, idp, tables, request>> /\ Elsewhere
        /\ \A d \in Call \ {c} : pc'[d] = pc[d] /\ kid'[d] = kid[d]
    BY <1>1, <1>2, <2>2, GotoIs DEF Quiet
  <2>6. RowTypes' /\ OldRows
    BY <1>1, <2>1, <2>2, <2>3, <2>5 DEF RowTypes, OldRows, tables
  <2>7. inserted'[c] = u /\ \A d \in Call \ {c} : inserted'[d] = inserted[d]
    BY <1>1, <2>1 DEF RowTypes
  <2>8. UserRows
    BY <1>1, <2>3, <2>5, <2>7 DEF UserRows, Tables, tables
  <2>9. \A d \in Call \ {c} : Stays(d)
    BY <2>2, <2>5, <2>7 DEF Stays, tables
  <2>10. Session(c)'
    BY <1>2, <1>3, <1>4, <2>3, <2>4, <2>5, <2>7 DEF Session, tables
  <2> QED
    BY <2>5, <2>6, <2>8, <2>9, <2>10 DEF Keeps
<1>12. CASE Retry(c)
  <2>1. Goto(c, "again") /\ inserted' = [inserted EXCEPT ![c] = NoUser] /\ UNCHANGED user
    BY <1>12 DEF Retry
  <2>2. /\ pc'[c] = "again" /\ UNCHANGED <<cache, idp, tables, request>> /\ Elsewhere
        /\ \A d \in Call \ {c} : pc'[d] = pc[d] /\ kid'[d] = kid[d]
    BY <1>1, <1>2, <2>1, GotoIs DEF Quiet
  <2>3. RowTypes' /\ OldRows
    BY <1>1, <2>1, <2>2 DEF RowTypes, OldRows, tables
  <2>4. \A d \in Call \ {c} : inserted'[d] = inserted[d]
    BY <1>1, <2>1 DEF RowTypes
  <2>5. UserRows
    BY <1>1, <2>2, <2>4 DEF UserRows, Tables, tables
  <2>6. \A d \in Call \ {c} : Stays(d)
    BY <2>1, <2>2, <2>4 DEF Stays, tables
  <2>7. Session(c)'
    BY <1>2, <1>3, <1>4, <2>2 DEF Session, tables
  <2> QED
    BY <2>2, <2>3, <2>5, <2>6, <2>7 DEF Keeps
<1>13. CASE CommitUser(c)
  <2> DEFINE u == inserted[c]
  <2>1. /\ pc[c] = "inserted" /\ u \in UserId
        /\ app_user[u] = "absent" /\ user_identity[u] = NoSubject
    BY <1>1, <1>13 DEF CommitUser, InsertedUser, Session
  <2>2. /\ app_user' = [app_user EXCEPT ![u] = "active"]
        /\ user_identity' = [user_identity EXCEPT ![u] = q.subject]
        /\ user' = [user EXCEPT ![c] = u]
        /\ inserted' = [inserted EXCEPT ![c] = NoUser]
        /\ pc' = [pc EXCEPT ![c] = "provisioned"]
        /\ UNCHANGED <<cache, idp, kid, household_member, mcp_token, request>>
    BY <1>13 DEF CommitUser, InsertedUser
  <2>3. q.subject \in Subject
    BY <1>2, RequestIs
  <2>4. RowTypes'
    BY <1>1, <2>1, <2>2, <2>3 DEF RowTypes
  <2>5. OldRows
    BY <1>1, <2>1, <2>2 DEF RowTypes, OldRows
  <2>6. /\ pc'[c] = "provisioned" /\ user'[c] = u
        /\ \A d \in Call \ {c} : pc'[d] = pc[d] /\ user'[d] = user[d] /\ inserted'[d] = inserted[d]
    BY <1>1, <2>2 DEF RowTypes, KeyTypes
  <2>7. \A d \in Call \ {c} : pc[d] = "inserted" => inserted[d] # u /\ inserted[d] \in UserId
    BY <1>1, <2>1 DEF Tables, IInv, Sessions, Session
  <2>8. UserRows
    BY <1>1, <2>1, <2>2, <2>6 DEF UserRows, Tables, RowTypes
  <2>9. \A d \in Call \ {c} : Stays(d)
    BY <1>1, <2>2, <2>6, <2>7 DEF Stays, RowTypes
  <2>10. u \in Owners(c)'
    BY <1>1, <2>1, <2>2 DEF Owners, RowTypes
  <2>11. Session(c)'
    BY <1>2, <1>3, <1>4, <2>2, <2>6, <2>10 DEF Session
  <2>12. Elsewhere
    BY <1>1, <1>2, <2>2 DEF Elsewhere, KeyTypes, Quiet, Fetching
  <2> QED
    BY <2>4, <2>5, <2>8, <2>9, <2>11, <2>12 DEF Keeps
<1> QED
  BY <1>7, <1>8, <1>9, <1>10, <1>11, <1>12, <1>13 DEF Provision

\* The checks of an agent's token.
LEMMA ResolveStep ==
  ASSUME IInv, NEW c \in Call, Resolve(c), History
  PROVE  Keeps(c) /\ Elsewhere
<1> DEFINE q == request[c]
           t == mcp_token[q.token]
<1>1. /\ KeyTypes /\ RowTypes /\ Session(c) /\ Tables
      /\ "token" \in Progress /\ "ended" \in Progress /\ "owner" \in Progress
      /\ "principal" \in Progress /\ "member" \in Progress
  BY DEF IInv, KeysInv, TableTypes, RowTypes, Sessions, Progress
<1>2. /\ pc[c] \in {"bearer", "token", "owner", "principal"}
      /\ ~Fetching(c) /\ q.op = "mcp_act" /\ q \in Request /\ t # NoToken
      /\ InOrder(c) \subseteq entitled[c]
  BY <1>1 DEF Resolve, ResolveToken, ResolveUser, ResolveMembership, LoadMembership, Fetching,
              Session
<1>3. q.token \in TokenId /\ t \in Token
  BY <1>1, <1>2, RequestIs DEF RowTypes
<1>4. q.op \notin AccessOps
  BY <1>2 DEF AccessOps
<1>5. /\ t.status = "valid" => "token" \in entitled[c]
      /\ app_user[t.owner] = "active" => "user" \in entitled[c]
      /\ household_member[t.owner] = "active" => "member" \in entitled[c]
  <2>1. t.status = "valid" => q.token \notin revoked
    BY <1>1, <1>3 DEF Tables
  <2> QED
    BY <1>2, <2>1, InOrderHas
<1>6. ASSUME NEW next \in {"token", "ended", "owner", "principal", "member"},
             Goto(c, next), UNCHANGED inserted, user' \in [Call -> UserId \cup {NoUser}],
             \A d \in Call \ {c} : user'[d] = user[d],
             next \in {"token", "owner", "principal"} => user'[c] = t.owner,
             next = "token" => "token" \in entitled[c],
             next \in {"owner", "principal"} => {"token", "user"} \subseteq entitled[c],
             next = "member" => {"token", "user", "member"} \subseteq entitled[c]
      PROVE  Keeps(c) /\ Elsewhere
  <2>1. next \in Progress \ Quiet /\ next # "idle"
    BY DEF Progress, Quiet
  <2>2. /\ pc'[c] = next /\ UNCHANGED <<cache, idp, tables, request>> /\ Elsewhere
        /\ \A d \in Call \ {c} : pc'[d] = pc[d] /\ kid'[d] = kid[d]
    BY <1>1, <1>2, <1>6, <2>1, GotoIs
  <2>3. RowTypes' /\ OldRows
    BY <1>1, <1>6, <2>2 DEF RowTypes, OldRows, tables
  <2>4. UserRows
    BY <1>1, <1>6, <2>2 DEF UserRows, Tables, tables
  <2>5. \A d \in Call \ {c} : Stays(d)
    BY <1>6, <2>2 DEF Stays, tables
  <2>6. /\ entitled[c] \subseteq entitled'[c] /\ InOrder(c)' \subseteq entitled'[c]
        /\ entitled'[c] \subseteq {"token", "user", "member"}
    BY <2>1, <2>2, HistoryIs
  <2>7. NoToken' = NoToken
    BY DEF NoToken
  <2>8. Session(c)'
    BY <1>2, <1>4, <1>6, <2>1, <2>2, <2>6, <2>7 DEF Session, tables
  <2> QED
    BY <2>2, <2>3, <2>4, <2>5, <2>8 DEF Keeps
<1>7. CASE ResolveToken(c)
  <2>1. /\ user' = [user EXCEPT ![c] = t.owner] /\ UNCHANGED inserted
        /\ Goto(c, IF t.status = "valid" THEN "token" ELSE "ended")
    BY <1>7 DEF ResolveToken
  <2>2. t.owner \in UserId \cup {NoUser}
    BY <1>3 DEF Token
  <2>3. user' \in [Call -> UserId \cup {NoUser}] /\ user'[c] = t.owner
        /\ \A d \in Call \ {c} : user'[d] = user[d]
    BY <1>1, <2>1, <2>2 DEF RowTypes
  <2> HIDE DEF t
  <2> QED
    BY <1>5, <1>6, <2>1, <2>3
<1>8. CASE ResolveUser(c)
  <2>1. /\ user[c] = t.owner /\ UNCHANGED <<user, inserted>> /\ "token" \in entitled[c]
        /\ Goto(c, IF app_user[t.owner] = "active" THEN "owner" ELSE "ended")
    BY <1>1, <1>8 DEF ResolveUser, Session, session
  <2>2. user' \in [Call -> UserId \cup {NoUser}]
    BY <1>1, <2>1 DEF RowTypes
  <2> HIDE DEF t
  <2> QED
    BY <1>5, <1>6, <2>1, <2>2
<1>9. CASE ResolveMembership(c) \/ LoadMembership(c)
  <2>1. /\ user[c] = t.owner /\ UNCHANGED <<user, inserted>>
        /\ {"token", "user"} \subseteq entitled[c]
        /\ \E next \in {"principal", "member"} :
             Goto(c, IF household_member[t.owner] = "active" THEN next ELSE "ended")
    BY <1>1, <1>9 DEF ResolveMembership, LoadMembership, Session, session
  <2>2. user' \in [Call -> UserId \cup {NoUser}]
    BY <1>1, <2>1 DEF RowTypes
  <2> HIDE DEF t
  <2> QED
    BY <1>5, <1>6, <2>1, <2>2
<1> QED
  BY <1>7, <1>8, <1>9 DEF Resolve

\* What the request is for: whoever reaches it has been found entitled.
LEMMA ServeStep ==
  ASSUME IInv, NEW c \in Call, Serve(c), History
  PROVE  Keeps(c) /\ Elsewhere
<1> DEFINE q == request[c]
<1>1. KeyTypes /\ RowTypes /\ Session(c) /\ Tables
  BY DEF IInv, KeysInv, TableTypes, RowTypes, Sessions
<1>2. /\ pc[c] \in {"member", "found"} /\ ~Fetching(c) /\ q \in Request
      /\ entitled[c] = {"token", "user", "member"}
      /\ pc[c] = "found" => q.op = "revoke_token"
      /\ q.op = "mcp_act" => mcp_token[q.token] # NoToken
  BY <1>1 DEF Serve, Act, CreateToken, FindToken, RevokeToken, Fetching, Session
<1>3. pc'[c] # "idle" => InOrder(c)' \subseteq entitled'[c]
                         /\ entitled'[c] = {"token", "user", "member"}
  BY <1>2, HistoryIs
<1>4. NoToken' = NoToken
  BY DEF NoToken
<1>5. CASE Act(c) \/ FindToken(c)
  <2>1. UNCHANGED session /\ \E next \in {"acted", "ended", "found"} :
          Goto(c, next) /\ (next = "found" => q.op = "revoke_token")
    BY <1>5 DEF Act, FindToken
  <2>2. PICK next \in {"acted", "ended", "found"} :
          Goto(c, next) /\ (next = "found" => q.op = "revoke_token")
    BY <2>1
  <2>3. next \in Progress \ Quiet /\ next # "idle"
    BY DEF Progress, Quiet
  <2>4. /\ pc'[c] = next /\ UNCHANGED <<cache, idp, tables, request, session>> /\ Elsewhere
        /\ \A d \in Call \ {c} : pc'[d] = pc[d] /\ kid'[d] = kid[d]
    BY <1>1, <1>2, <2>1, <2>2, <2>3, GotoIs
  <2>5. RowTypes' /\ OldRows
    BY <1>1, <2>4 DEF RowTypes, OldRows, tables, session
  <2>6. UserRows
    BY <1>1, <2>4 DEF UserRows, Tables, tables, session
  <2>7. \A d \in Call \ {c} : Stays(d)
    BY <2>4 DEF Stays, tables, session
  <2>8. Session(c)'
    BY <1>2, <1>3, <1>4, <2>2, <2>3, <2>4 DEF Session, tables
  <2> QED
    BY <2>4, <2>5, <2>6, <2>7, <2>8 DEF Keeps
<1>6. ASSUME NEW rows, SetTokens(c, rows), rows \in [TokenId -> Token],
             \A t \in TokenId : mcp_token[t] # NoToken =>
               rows[t] # NoToken /\ rows[t].owner = mcp_token[t].owner,
             \A t \in TokenId : mcp_token[t].status = "revoked" => rows[t].status = "revoked"
      PROVE  Keeps(c) /\ Elsewhere
  <2>1. /\ mcp_token' = rows /\ pc' = [pc EXCEPT ![c] = "acted"]
        /\ UNCHANGED <<cache, idp, kid, app_user, user_identity, household_member, request,
                       session>>
    BY <1>6 DEF SetTokens
  <2>2. pc' \in [Call -> Progress] /\ pc'[c] = "acted" /\ \A d \in Call \ {c} : pc'[d] = pc[d]
    BY <1>1, <2>1 DEF KeyTypes, Progress
  <2>3. RowTypes' /\ OldRows
    BY <1>1, <1>4, <1>6, <2>1 DEF RowTypes, OldRows, session
  <2>4. UserRows
    BY <1>1, <2>1, <2>2 DEF UserRows, Tables, session
  <2>5. \A d \in Call \ {c} : Stays(d)
    BY <2>1, <2>2 DEF Stays, session
  <2>6. q.op = "mcp_act" => mcp_token'[q.token] # NoToken
    BY <1>2, <1>6, <2>1, RequestIs
  <2>7. Session(c)'
    BY <1>2, <1>3, <1>4, <2>1, <2>2, <2>6 DEF Session
  <2>8. Elsewhere
    BY <1>1, <1>2, <2>1, <2>2 DEF Elsewhere, KeyTypes, Quiet, Fetching
  <2> QED
    BY <2>3, <2>4, <2>5, <2>7, <2>8 DEF Keeps
<1>7. CASE CreateToken(c)
  <2> DEFINE row == [owner |-> user[c], status |-> "valid"]
  <2>1. PICK t \in TokenId : /\ mcp_token[t] = NoToken
                             /\ SetTokens(c, [mcp_token EXCEPT ![t] = row])
    BY <1>7 DEF CreateToken, Unused
  <2>2. row \in Token
    BY <1>1 DEF RowTypes, Token
  <2>3. mcp_token[t].status # "revoked"
    BY <2>1 DEF NoToken
  <2> DEFINE rows == [mcp_token EXCEPT ![t] = row]
  <2>4. rows \in [TokenId -> Token] /\ \A s \in TokenId \ {t} : rows[s] = mcp_token[s]
    BY <1>1, <2>2 DEF RowTypes
  <2>5. SetTokens(c, rows)
    BY <2>1
  <2> HIDE DEF rows
  <2> QED
    BY <1>6, <2>1, <2>3, <2>4, <2>5
<1>8. CASE RevokeToken(c)
  <2> DEFINE t == q.token
             row == [mcp_token[t] EXCEPT !.status = "revoked"]
  <2>1. SetTokens(c, [mcp_token EXCEPT ![t] = row])
    BY <1>8 DEF RevokeToken
  <2>2. t \in TokenId
    BY <1>2, <1>8, RequestIs DEF RevokeToken
  <2>3. mcp_token[t] \in Token
    BY <1>1, <2>2 DEF RowTypes
  <2>4. row \in Token /\ row.owner = mcp_token[t].owner /\ row.status = "revoked"
    BY <2>3 DEF Token
  <2>5. row # NoToken
    BY <2>4 DEF NoToken
  <2> DEFINE rows == [mcp_token EXCEPT ![t] = row]
  <2>6. /\ rows \in [TokenId -> Token] /\ rows[t] = row
        /\ \A s \in TokenId \ {t} : rows[s] = mcp_token[s]
    BY <1>1, <2>2, <2>4 DEF RowTypes
  <2>7. SetTokens(c, rows)
    BY <2>1
  <2> HIDE DEF t, row, rows
  <2> QED
    BY <1>6, <2>2, <2>4, <2>5, <2>6, <2>7
<1> QED
  BY <1>5, <1>7, <1>8 DEF Serve

\* A request arrives, and it ends.
LEMMA BoundaryStep ==
  ASSUME IInv, NEW c \in Call,
         Respond(c) \/ Crash(c) \/ \E q \in Request : Receive(c, q), History
  PROVE  Keeps(c) /\ Elsewhere
<1>1. KeyTypes /\ RowTypes /\ Session(c) /\ Tables
  BY DEF IInv, KeysInv, TableTypes, RowTypes, Sessions
<1>2. CASE Respond(c) \/ Crash(c)
  <2>1. /\ pc[c] \in {"unknown", "ended", "acted", "known", "inserted", "again", "member"}
        /\ request' = [request EXCEPT ![c] = NoRequest]
        /\ kid' = [kid EXCEPT ![c] = NoKid]
        /\ pc' = [pc EXCEPT ![c] = "idle"]
        /\ inserted' = [inserted EXCEPT ![c] = NoUser]
        /\ user' = [user EXCEPT ![c] = NoUser]
        /\ UNCHANGED <<cache, idp, tables>>
    BY <1>2 DEF Respond, Crash, End, Closes
  <2>2. "idle" \in Progress
    BY DEF Progress
  <2>3. /\ pc' \in [Call -> Progress] /\ pc'[c] = "idle" /\ kid' \in [Call -> Kid \cup {NoKid}]
        /\ \A d \in Call \ {c} : /\ pc'[d] = pc[d] /\ kid'[d] = kid[d] /\ user'[d] = user[d]
                                 /\ request'[d] = request[d] /\ inserted'[d] = inserted[d]
    BY <1>1, <2>1, <2>2 DEF KeyTypes, RowTypes
  <2>4. RowTypes' /\ OldRows
    BY <1>1, <2>1 DEF RowTypes, OldRows, tables
  <2>5. UserRows
    BY <1>1, <2>1, <2>3 DEF UserRows, Tables, tables
  <2>6. \A d \in Call \ {c} : Stays(d)
    BY <2>1, <2>3 DEF Stays, tables
  <2>7. Session(c)'
    BY <2>3 DEF Session
  <2>8. Elsewhere
    BY <2>1, <2>3 DEF Elsewhere, Quiet
  <2> QED
    BY <2>4, <2>5, <2>6, <2>7, <2>8 DEF Keeps
<1>3. ASSUME NEW q \in Request, Receive(c, q) PROVE Keeps(c) /\ Elsewhere
  <2> DEFINE next == CASE q.op = "ready" -> "refresh" [] q.op = "mcp_act" -> "bearer"
                       [] OTHER -> "key"
  <2>1. /\ pc[c] = "idle" /\ (q.op = "mcp_act" => mcp_token[q.token] # NoToken)
        /\ pc' = [pc EXCEPT ![c] = next]
        /\ request' = [request EXCEPT ![c] = q]
        /\ kid' = [kid EXCEPT ![c] = q.kid]
        /\ UNCHANGED <<cache, idp, tables, session>>
    BY <1>3 DEF Receive
  <2>2. /\ q.kid \in Kid \cup {NoKid} /\ q.op \in AccessOps \cup {"ready", "mcp_act"}
        /\ q.op = "ready" => q.kid = NoKid
    BY RequestIs
  <2>3. /\ next \in {"refresh", "bearer", "key"}
        /\ next = "refresh" => q.kid = NoKid
        /\ next = "bearer" => q.op = "mcp_act"
        /\ next = "key" => q.op \in AccessOps
    <3>1. CASE q.op = "ready"
      BY <2>2, <3>1
    <3>2. CASE q.op = "mcp_act"
      BY <3>2
    <3>3. CASE q.op \notin {"ready", "mcp_act"}
      BY <2>2, <3>3
    <3> QED
      BY <3>1, <3>2, <3>3
  <2> HIDE DEF next
  <2>4. next \in Progress
    BY <2>3 DEF Progress
  <2>5. /\ pc' \in [Call -> Progress] /\ pc'[c] = next /\ kid' \in [Call -> Kid \cup {NoKid}]
        /\ request'[c] = q /\ kid'[c] = q.kid
        /\ \A d \in Call \ {c} : pc'[d] = pc[d] /\ kid'[d] = kid[d] /\ request'[d] = request[d]
    BY <1>1, <2>1, <2>2, <2>4 DEF KeyTypes, RowTypes
  <2>6. RowTypes' /\ OldRows
    BY <1>1, <2>1 DEF RowTypes, OldRows, tables, session
  <2>7. UserRows
    BY <1>1, <2>1, <2>3, <2>5 DEF UserRows, Tables, tables, session
  <2>8. \A d \in Call \ {c} : Stays(d)
    BY <2>1, <2>5 DEF Stays, tables, session
  <2>9. InOrder(c)' \subseteq entitled'[c]
    BY <2>3, <2>5, HistoryIs
  <2>10. NoToken' = NoToken
    BY DEF NoToken
  <2>11. Session(c)'
    BY <2>1, <2>3, <2>5, <2>9, <2>10 DEF Session, tables
  <2>12. Elsewhere
    BY <2>1, <2>3, <2>5 DEF Elsewhere, Quiet
  <2> QED
    BY <2>6, <2>7, <2>8, <2>11, <2>12 DEF Keeps
<1> QED
  BY <1>2, <1>3

\* A step that fetches or looks up the signing key of a request.
LEMMA KeyStepKeepsSession ==
  ASSUME IInv, NEW c \in Call, KeyStep(c), UNCHANGED <<tables, request, session>>, History
  PROVE  Keeps(c)
<1>1. KeyTypes /\ RowTypes /\ Session(c) /\ Tables
  BY DEF IInv, KeysInv, TableTypes, RowTypes, Sessions
<1>2. KeyTypes'
  BY <1>1, KeyStepTypes DEF History
<1>3. NoKid \notin Kid
  BY KeysAssumption
<1>4. /\ \A d \in Call \ {c} : pc'[d] = pc[d]
      /\ kid' = kid /\ pc'[c] \in {"signed", "refresh", "force", "refreshing", "forcing",
                                   "unknown", "ended"}
      /\ \/ pc[c] = "key" /\ pc'[c] \in {"signed", "refresh"}
         \/ /\ pc[c] \in {"refresh", "force", "refreshing", "forcing"}
            /\ pc'[c] = "signed" => kid[c] # NoKid
  <2>1. CASE GetKey(c)
    BY <1>1, <2>1 DEF KeyTypes, GetKey
  <2>2. CASE SkipRefresh(c)
    <3> DEFINE next == AfterRefresh(c, pc[c] = "force", keys)
    <3>1. next \in {"ended", "signed", "force", "unknown"} /\ (next = "signed" => kid[c] \in keys)
      BY <1>1, AfterRefreshIs DEF KeyTypes
    <3>2. /\ pc' = [pc EXCEPT ![c] = next] /\ kid' = kid /\ pc[c] \in {"refresh", "force"}
      BY <2>2 DEF SkipRefresh
    <3> HIDE DEF next
    <3> QED
      BY <1>1, <1>3, <3>1, <3>2 DEF KeyTypes
  <2>3. CASE StartFetch(c)
    BY <1>1, <2>3 DEF KeyTypes, StartFetch
  <2>4. CASE ProviderAnswers(c)
    BY <1>1, <2>4 DEF KeyTypes, ProviderAnswers, Fetching
  <2>5. CASE Fetched(c)
    <3> DEFINE next == AfterRefresh(c, pc[c] = "forcing", document[c])
    <3>1. document[c] \in SUBSET Kid
      BY <1>1, <2>5 DEF KeyTypes, Fetched
    <3>2. next \in {"ended", "signed", "force", "unknown"} /\ (next = "signed" => kid[c] \in Kid)
      BY <1>1, <3>1, AfterRefreshIs DEF KeyTypes
    <3>3. /\ pc' = [pc EXCEPT ![c] = next] /\ kid' = kid /\ pc[c] \in {"refreshing", "forcing"}
      BY <2>5 DEF Fetched, FetchEnds, Fetching
    <3> HIDE DEF next
    <3> QED
      BY <1>1, <1>3, <3>2, <3>3 DEF KeyTypes
  <2>6. CASE FetchFails(c)
    BY <1>1, <2>6 DEF KeyTypes, FetchFails, FetchEnds, Fetching
  <2> QED
    BY <2>1, <2>2, <2>3, <2>4, <2>5, <2>6 DEF KeyStep
<1>5. RowTypes' /\ OldRows
  BY <1>1 DEF RowTypes, OldRows, tables, session
<1>6. UserRows
  BY <1>1, <1>4 DEF UserRows, Tables, tables, session
<1>7. \A d \in Call \ {c} : Stays(d)
  BY <1>4 DEF Stays, tables, session
<1>8. InOrder(c)' \subseteq entitled'[c]
  BY <1>4, HistoryIs
<1>9. NoToken' = NoToken
  BY DEF NoToken
<1>10. Session(c)'
  BY <1>1, <1>4, <1>8, <1>9 DEF Session, tables
<1> QED
  BY <1>5, <1>6, <1>7, <1>10 DEF Keeps

\* What happens beside the requests.
LEMMA WorldStep ==
  ASSUME IInv, World, History
  PROVE  IInv'
<1>1. KeysInv /\ RowTypes /\ Tables
  BY DEF IInv, TableTypes, RowTypes
<1>2. KeyHistory
  BY DEF History
<1>3. CASE KeyWorld /\ UNCHANGED <<tables, request, session>>
  <2>1. UNCHANGED <<pc, kid>>
    BY <1>3 DEF KeyWorld, Tick, Publish, Withdraw
  <2>2. KeysInv'
    BY <1>1, <1>2, <1>3, <2>1, TickKeeps, ProviderKeeps DEF KeyWorld
  <2>3. RowTypes' /\ OldRows
    BY <1>1, <1>3 DEF RowTypes, OldRows, tables, session
  <2>4. UserRows
    BY <1>1, <1>3, <2>1 DEF UserRows, Tables, tables, session
  <2>5. \A d \in Call : Stays(d)
    BY <1>3, <2>1 DEF Stays, tables, session
  <2> DEFINE S == {}
  <2>6. S \in SUBSET Call /\ (\A d \in S : Session(d)') /\ \A d \in Call \ S : Stays(d)
    BY <2>5
  <2> HIDE DEF S
  <2> QED
    BY <2>2, <2>3, <2>4, <2>6, StepKeeps
<1>4. ASSUME NEW u \in UserId, Disable(u) \/ Join(u) \/ Leave(u),
             UNCHANGED <<cache, idp, pc, kid, request, session>>
      PROVE  IInv'
  <2>1. /\ UNCHANGED <<user_identity, mcp_token>>
        /\ \/ household_member' \in {[household_member EXCEPT ![u] = "active"],
                                     [household_member EXCEPT ![u] = "revoked"]}
              /\ app_user' = app_user
           \/ household_member' = household_member /\ app_user[u] = "active"
              /\ app_user' = [app_user EXCEPT ![u] = "disabled"]
    BY <1>4 DEF Disable, Join, Leave
  <2>2. Elsewhere
    BY <1>1, <1>4 DEF Elsewhere, KeysInv, KeyTypes
  <2>3. KeysInv'
    BY <1>1, <1>2, <2>2, ElsewhereKeeps
  <2>4. RowTypes' /\ OldRows
    BY <1>1, <1>4, <2>1 DEF RowTypes, OldRows, session
  <2>5. UserRows
    BY <1>1, <1>4, <2>1 DEF UserRows, Tables, RowTypes, session
  <2>6. \A d \in Call : Stays(d)
    <3>1. \A d \in Call : pc[d] = "inserted" =>
            app_user[inserted[d]] = "absent" /\ inserted[d] \in UserId
      BY DEF IInv, Sessions, Session
    <3> QED
      BY <1>1, <1>4, <2>1, <3>1 DEF Stays, RowTypes, session
  <2> DEFINE S == {}
  <2>7. S \in SUBSET Call /\ (\A d \in S : Session(d)') /\ \A d \in Call \ S : Stays(d)
    BY <2>6
  <2> HIDE DEF S
  <2> QED
    BY <2>3, <2>4, <2>5, <2>7, StepKeeps
<1> QED
  BY <1>3, <1>4 DEF World
-----------------------------------------------------------------------------
(***************************************************************************)
(* The induction and the theorems.                                         *)
(***************************************************************************)
LEMMA InitIInv == Init => IInv
<1> SUFFICES ASSUME Init PROVE IInv
  OBVIOUS
<1>1. KeysInv
  <2>1. KeyTypes
    BY KeysAssumption DEF Init, KeysInit, KeyTypes, Progress
  <2> QED
    BY <2>1 DEF Init, KeysInit, KeysInv, Documents, CacheAge, SteadyKeys, PublishedKeyIsKnown
<1>2. TableTypes
  BY DEF Init, TableTypes, Token, NoToken
<1>3. Tables /\ Sessions
  BY DEF Init, KeysInit, Tables, Sessions, Session
<1> QED
  BY <1>1, <1>2, <1>3 DEF IInv

LEMMA StutterIInv == ASSUME IInv, UNCHANGED vars PROVE IInv'
<1>1. KeysInv'
  BY DEF IInv, KeysInv, KeyTypes, Documents, Fetching, CacheAge, Fresh, SteadyKeys, Published,
         PublishedKeyIsKnown, vars, keyVars, cache, idp
<1>2. TableTypes' /\ Tables'
  BY DEF IInv, TableTypes, Tables, vars, keyVars, tables, session
<1>3. \A c \in Call : InOrder(c)' = InOrder(c) /\ Owners(c)' = Owners(c)
  BY DEF InOrder, Users, Owners, vars, keyVars, tables, session
<1>4. NoToken' = NoToken
  BY DEF NoToken
<1>5. Sessions'
  BY <1>3, <1>4 DEF IInv, Sessions, Session, vars, keyVars, tables, session
<1> QED
  BY <1>1, <1>2, <1>5 DEF IInv

LEMMA NextIInv == IInv /\ [Next]_vars => IInv'
<1> SUFFICES ASSUME IInv, [Next]_vars PROVE IInv'
  OBVIOUS
<1>1. ASSUME NEW c \in Call, Step(c), History PROVE IInv'
  <2>1. KeysInv /\ KeyHistory
    BY <1>1 DEF IInv, History
  <2>2. Keeps(c) /\ KeysInv'
    <3>1. CASE KeyStep(c) /\ UNCHANGED <<tables, request, session>>
      BY <1>1, <2>1, <3>1, KeyStepKeeps, KeyStepKeepsSession
    <3>2. CASE Keeps(c) /\ Elsewhere
      BY <2>1, <3>2, ElsewhereKeeps
    <3> QED
      BY <1>1, <3>1, <3>2, ProvisionStep, ResolveStep, ServeStep, BoundaryStep DEF Step
  <2> DEFINE S == {c}
  <2>3. S \in SUBSET Call /\ (\A d \in S : Session(d)') /\ \A d \in Call \ S : Stays(d)
    BY <2>2 DEF Keeps
  <2> HIDE DEF S
  <2> QED
    BY <1>1, <2>2, <2>3, StepKeeps DEF Keeps
<1>2. CASE UNCHANGED vars
  BY <1>2, StutterIInv
<1> QED
  BY <1>1, <1>2, WorldStep DEF Next

LEMMA InductiveInvariant == Spec => []IInv
BY InitIInv, NextIInv, PTL DEF Spec

\* get_key: however many tasks refresh the cache at once, and however old its
\* document is, a key that the provider publishes all the time is found.
THEOREM PublishedKeysAreKnown == Spec => []PublishedKeyIsKnown
<1>1. IInv => PublishedKeyIsKnown
  BY DEF IInv, KeysInv
<1> QED
  BY <1>1, InductiveInvariant, PTL

\* _expires_at: a token whose key was withdrawn is let in for no longer than a
\* document is good for and its fetch took, whatever that was.
THEOREM WithdrawnKeysExpire == Spec => WithdrawnKeyExpires
<1> DEFINE Expires ==
      \A c \in Call :
        pc[c] # "signed" /\ pc'[c] = "signed" /\ took' <= MaxFetch
          => withdrawn[kid[c]] < Ttl + took'
<1>1. ASSUME IInv, [Next]_vars PROVE [Expires]_keyVars
  <2>1. CASE UNCHANGED vars
    BY <2>1 DEF vars
  <2>2. ASSUME NEW c \in Call, Step(c), History PROVE Expires
    <3>1. KeyTypes /\ Documents /\ CacheAge
      BY <1>1 DEF IInv, KeysInv
    <3>2. CASE Elsewhere
      BY <3>2 DEF Elsewhere, Quiet
    <3>3. CASE KeyStep(c) /\ UNCHANGED <<tables, request, session>>
      <4>1. \A d \in Call \ {c} : pc'[d] = pc[d]
        BY <1>1, <2>2, <3>3, KeyStepKeepsSession DEF Keeps, Stays
      <4>2. ASSUME kid[c] \in keys, Fresh, took <= MaxFetch
            PROVE  withdrawn[kid[c]] < Ttl + took
        <5>1. withdrawn[kid[c]] \in Nat /\ expires_in \in Nat /\ expires_in > 0 /\ took \in Nat
              /\ withdrawn[kid[c]] + expires_in <= Ttl + took
          BY <3>1, <4>2 DEF KeyTypes, CacheAge, Fresh
        <5> QED
          BY <5>1, KeysAssumption
      <4>3. ASSUME pc[c] # "signed", pc'[c] = "signed", took' <= MaxFetch
            PROVE  withdrawn[kid[c]] < Ttl + took'
        <5>1. CASE GetKey(c)
          BY <3>1, <4>2, <4>3, <5>1 DEF KeyTypes, GetKey, Known, cache
        <5>2. CASE SkipRefresh(c)
          <6>1. Fresh /\ took' = took /\ AfterRefresh(c, pc[c] = "force", keys) = "signed"
            BY <3>1, <4>3, <5>2 DEF KeyTypes, SkipRefresh, Needless, cache
          <6> QED
            BY <3>1, <4>2, <4>3, <6>1, AfterRefreshIs DEF KeyTypes
        <5>3. CASE Fetched(c)
          <6>1. /\ document[c] # NoDocument /\ took' = lasted[c]
                /\ AfterRefresh(c, pc[c] = "forcing", document[c]) = "signed"
            BY <3>1, <4>3, <5>3 DEF KeyTypes, Fetched
          <6>2. document[c] \in SUBSET Kid
            BY <3>1, <6>1 DEF KeyTypes
          <6>3. kid[c] \in document[c]
            BY <3>1, <6>1, <6>2, AfterRefreshIs DEF KeyTypes
          <6>4. withdrawn[kid[c]] <= lasted[c] /\ withdrawn[kid[c]] \in Nat
                /\ lasted[c] \in 0..(MaxFetch + 1)
            BY <3>1, <4>3, <6>1, <6>2, <6>3 DEF KeyTypes, Documents
          <6> QED
            BY <6>1, <6>4, KeysAssumption
        <5>4. CASE StartFetch(c) \/ ProviderAnswers(c) \/ FetchFails(c)
          BY <3>1, <4>3, <5>4 DEF KeyTypes, StartFetch, ProviderAnswers, FetchFails
        <5> QED
          BY <3>3, <5>1, <5>2, <5>3, <5>4 DEF KeyStep
      <4> QED
        BY <4>1, <4>3
    <3> QED
      BY <1>1, <2>2, <3>2, <3>3, ProvisionStep, ResolveStep, ServeStep, BoundaryStep DEF Step
  <2>3. CASE World
    BY <2>3 DEF World, KeyWorld, Tick, Publish, Withdraw
  <2> QED
    BY <1>1, <2>1, <2>2, <2>3 DEF Next
<1>2. WithdrawnKeyExpires <=> [][Expires]_keyVars
  BY DEF WithdrawnKeyExpires
<1> QED
  BY <1>1, <1>2, InductiveInvariant, PTL DEF Spec

\* Users are disabled, members leave and tokens are revoked beside requests that
\* read these rows one after another: whoever acts had each in order at some
\* time since the request arrived.
THEOREM OnlyTheEntitledAct == Spec => []EntitledToAct
<1>1. IInv => EntitledToAct
  BY DEF IInv, Sessions, Session, EntitledToAct
<1> QED
  BY <1>1, InductiveInvariant, PTL
=============================================================================
