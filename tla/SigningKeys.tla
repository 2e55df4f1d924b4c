---------------------------- MODULE SigningKeys ----------------------------
(***************************************************************************)
(* The cache of the identity provider's signing keys: JWKSCache of         *)
(* infrastructure/identity/jwks_cache.py.                                  *)
(*                                                                         *)
(* Each element of Call is a task of the event loop: it goes on until it   *)
(* awaits the lock or the provider, whose document may change between its  *)
(* answer and its arrival.  A document is good for Ttl units of time       *)
(* (ttl_seconds).  Nothing bounds a fetch: timeout_seconds is the time a   *)
(* connection may be silent, so a provider that sends little by little     *)
(* takes as long as it likes.  Fetches that last longer than MaxFetch are  *)
(* not told apart.                                                         *)
(***************************************************************************)
EXTENDS Integers

CONSTANTS
  Call,      \* tasks that serve one request after another
  Kid,       \* key ids
  Rotating,  \* those the provider begins to publish and withdraws
  Ttl,
  MaxFetch,  \* the longest time that is counted: a bound of the model
  NoCall, NoKid, NoDocument

\* oidc_jwks_ttl_seconds of config.py is never zero.
ASSUME KeysAssumption ==
  /\ Ttl \in Nat \ {0}
  /\ MaxFetch \in Nat
  /\ Rotating \subseteq Kid
  /\ NoKid \notin Kid

VARIABLES
  provider,    \* of each key: "future", "published" or "withdrawn"
  withdrawn,   \* for how long a key is withdrawn, up to Ttl + MaxFetch
  keys,        \* _keys: the ids
  expires_in,  \* _expires_at less the time
  key_lock,    \* _lock
  document,    \* what the provider has answered a fetch that goes on
  lasted,      \* how long the fetch has lasted, MaxFetch + 1 being longer
  took,        \* history: how long the fetch of the fresh document has lasted
  pc,
  kid,         \* the key id of the token; NoKid for a readiness probe
  steady       \* history: the key was published ever since the task began

cache == <<keys, expires_in, key_lock, document, lasted, took>>
idp == <<provider, withdrawn>>
keyVars == <<cache, idp, pc, kid, steady>>

Published == {k \in Kid : provider[k] = "published"}

KeysInit ==
  /\ provider = [k \in Kid |-> IF k \in Rotating THEN "future" ELSE "published"]
  /\ withdrawn = [k \in Kid |-> 0]
  /\ keys = {}
  /\ expires_in = 0
  /\ key_lock = NoCall
  /\ document = [c \in Call |-> NoDocument]
  /\ lasted = [c \in Call |-> 0]
  /\ took = 0
  /\ pc = [c \in Call |-> "idle"]
  /\ kid = [c \in Call |-> NoKid]
  /\ steady = [c \in Call |-> TRUE]
-----------------------------------------------------------------------------
(***************************************************************************)
(* get_key: the fast path, then up to two refreshes.                       *)
(***************************************************************************)
Fresh == expires_in > 0

KnownThoughExpired(c) == kid[c] \in keys
Known(c) == Fresh /\ kid[c] \in keys

GetKey(c) ==
  /\ pc[c] = "key"
  /\ pc' = [pc EXCEPT ![c] = IF Known(c) THEN "signed" ELSE "refresh"]
  /\ UNCHANGED <<cache, idp, kid>>

\* What follows a refresh that has left these keys in the cache.
AfterRefresh(c, forced, cached) ==
  CASE kid[c] = NoKid -> "ended"
    [] kid[c] \in cached -> "signed"
    [] kid[c] \notin cached /\ ~forced -> "force"
    [] OTHER -> "unknown"

NeedlessThoughForced(c) == Fresh /\ keys # {}
Needless(c) == pc[c] = "refresh" /\ Fresh /\ keys # {}

\* The lock is taken, and given back at once where there is nothing to fetch.
SkipRefresh(c) ==
  /\ pc[c] \in {"refresh", "force"} /\ key_lock = NoCall
  /\ Needless(c)
  /\ pc' = [pc EXCEPT ![c] = AfterRefresh(c, pc[c] = "force", keys)]
  /\ UNCHANGED <<cache, idp, kid>>

StartFetch(c) ==
  /\ pc[c] \in {"refresh", "force"} /\ key_lock = NoCall
  /\ ~Needless(c)
  /\ key_lock' = c
  /\ pc' = [pc EXCEPT ![c] = IF @ = "force" THEN "forcing" ELSE "refreshing"]
  /\ UNCHANGED <<keys, expires_in, document, lasted, took, idp, kid>>

Fetching(c) == pc[c] \in {"refreshing", "forcing"}

ProviderAnswers(c) ==
  /\ Fetching(c) /\ document[c] = NoDocument
  /\ document' = [document EXCEPT ![c] = Published]
  /\ UNCHANGED <<keys, expires_in, key_lock, lasted, took, idp, pc, kid>>

FetchEnds(c) ==
  /\ key_lock' = NoCall
  /\ document' = [document EXCEPT ![c] = NoDocument]
  /\ lasted' = [lasted EXCEPT ![c] = 0]
  /\ UNCHANGED <<idp, kid>>

Fetched(c) ==
  /\ Fetching(c) /\ document[c] # NoDocument
  /\ keys' = document[c]
  /\ expires_in' = Ttl
  /\ took' = lasted[c]
  /\ pc' = [pc EXCEPT ![c] = AfterRefresh(c, @ = "forcing", document[c])]
  /\ FetchEnds(c)

\* The provider is unreachable, silent for too long, or answers nonsense: 503.
FetchFails(c) ==
  /\ Fetching(c)
  /\ pc' = [pc EXCEPT ![c] = "ended"]
  /\ FetchEnds(c)
  /\ UNCHANGED <<keys, expires_in, took>>

KeyStep(c) ==
  GetKey(c) \/ SkipRefresh(c) \/ StartFetch(c) \/ ProviderAnswers(c) \/ Fetched(c) \/ FetchFails(c)

(***************************************************************************)
(* The provider changes its keys, and time passes.                         *)
(***************************************************************************)
Publish(k) ==
  /\ provider[k] = "future"
  /\ provider' = [provider EXCEPT ![k] = "published"]
  /\ UNCHANGED <<withdrawn, cache, pc, kid>>

Withdraw(k) ==
  /\ provider[k] = "published"
  /\ provider' = [provider EXCEPT ![k] = "withdrawn"]
  /\ UNCHANGED <<withdrawn, cache, pc, kid>>

Sooner(a, b) == IF a < b THEN a ELSE b

Tick ==
  /\ lasted' = [c \in Call |-> IF Fetching(c) THEN Sooner(lasted[c] + 1, MaxFetch + 1) ELSE 0]
  /\ expires_in' = IF Fresh THEN expires_in - 1 ELSE 0
  /\ took' = IF expires_in > 1 THEN took ELSE 0
  /\ withdrawn' = [k \in Kid |-> IF provider[k] = "withdrawn"
                                 THEN Sooner(withdrawn[k] + 1, Ttl + MaxFetch) ELSE 0]
  /\ UNCHANGED <<provider, keys, key_lock, document, pc, kid>>

KeyWorld == Tick \/ \E k \in Rotating : Publish(k) \/ Withdraw(k)

KeyHistory ==
  steady' = [c \in Call |-> pc'[c] = "idle" \/ (steady[c] /\ kid'[c] \in Published')]
-----------------------------------------------------------------------------
\* get_key: a key the provider publishes all the time is never refused as
\* unknown, however old the cached document is and whoever refreshes it too.
PublishedKeyIsKnown == \A c \in Call : pc[c] = "unknown" => ~steady[c]

\* _expires_at: a withdrawn key opens nothing once Ttl has passed since its
\* document arrived, be the provider reachable or not.  A slow provider prolongs
\* that by the time between its answer and the arrival, and by no more.
WithdrawnKeyExpires ==
  [][\A c \in Call :
       pc[c] # "signed" /\ pc'[c] = "signed" /\ took' <= MaxFetch
         => withdrawn[kid[c]] < Ttl + took']_keyVars
=============================================================================
