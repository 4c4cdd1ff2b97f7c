------------------------------ MODULE JwksCache ------------------------------
(***************************************************************************)
(* The signing-key cache of one worker (security.py, _get_jwks) and the    *)
(* key lookup of verify_bearer_token, while the identity provider rotates  *)
(* its keys and sometimes does not answer.                                 *)
(*                                                                         *)
(* _get_jwks reads the clock and the cache, then awaits the fetch, then    *)
(* writes the cache: other requests run in between, so what it read may be *)
(* old when it is used, and responses may be installed out of order.       *)
(* A kid stands for its key; a token is represented by its kid.  Requests  *)
(* names the lookups that may run at once; each is used again and again.   *)
(***************************************************************************)
EXTENDS Naturals, FiniteSets

CONSTANTS
    Requests, Kids,
    Ttl,            \* _JWKS_CACHE_TTL_SECONDS, in ticks
    MaxClock,       \* bound on the clock
    MaxFailures,    \* bound on failed fetches
    None            \* nothing cached, not yet retired

ASSUME CacheBounds == Ttl \in Nat \ {0} /\ MaxClock \in Nat /\ MaxFailures \in Nat

VARIABLES
    clock,          \* time.monotonic()
    published,      \* the kids the provider serves now
    retiredAt,      \* per kid: when the provider withdrew it, or None
    cache,          \* None, or [at, keys]
    req,            \* per request: the state of its key lookup
    failures

vars == <<clock, published, retiredAt, cache, req, failures>>

Time == 0..MaxClock
Entry == [at : Time, keys : SUBSET Kids]

ASSUME NoneAssumption == None \notin Time /\ None \notin Entry

Lookup == [at     : {"idle", "lookup", "fetching", "fetched", "check", "ended"},
           kid    : Kids \cup {None},
           started: Time,                   \* when the request arrived
           warm   : BOOLEAN,                \* something was cached then
           now    : Time,                   \* clock read by the current _get_jwks
           cached : Entry \cup {None},      \* cache read by it
           force  : BOOLEAN,                \* force_refresh
           keys   : SUBSET Kids,            \* response in flight, or keys returned
           failed : BOOLEAN,                \* one of its fetches has failed
           reply  : {"none", "accepted", "401", "503"}]

Fresh == [at |-> "idle", kid |-> None, started |-> 0, warm |-> FALSE, now |-> 0,
          cached |-> None, force |-> FALSE, keys |-> {}, failed |-> FALSE,
          reply |-> "none"]

Init ==
    /\ clock = 0
    /\ \E k \in Kids : published = {k}
    /\ retiredAt = [k \in Kids |-> None]
    /\ cache = None
    /\ req = [r \in Requests |-> Fresh]
    /\ failures = 0

-----------------------------------------------------------------------------
(* The identity provider and the clock *)

Tick ==
    /\ clock < MaxClock
    /\ clock' = clock + 1
    /\ UNCHANGED <<published, retiredAt, cache, req, failures>>

\* A key that was never served before is published.
Publish(k) ==
    /\ k \notin published /\ retiredAt[k] = None
    /\ published' = published \cup {k}
    /\ UNCHANGED <<clock, retiredAt, cache, req, failures>>

Retire(k) ==
    /\ k \in published /\ published # {k}
    /\ published' = published \ {k}
    /\ retiredAt' = [retiredAt EXCEPT ![k] = clock]
    /\ UNCHANGED <<clock, cache, req, failures>>

-----------------------------------------------------------------------------
(* A request *)

\* A token signed with a key of the provider arrives, possibly after the key was
\* withdrawn.
Arrive(r) ==
    /\ req[r].at \in {"idle", "ended"}
    /\ \E k \in Kids :
          /\ k \in published \/ retiredAt[k] # None
          /\ req' = [req EXCEPT ![r] =
                [Fresh EXCEPT !.at = "lookup", !.kid = k, !.started = clock,
                              !.warm = cache # None]]
    /\ UNCHANGED <<clock, published, retiredAt, cache, failures>>

\* _get_jwks returns keys; what it had read is forgotten.
Return(r, keys, failed) ==
    [req[r] EXCEPT !.at = "check", !.keys = keys, !.failed = failed,
                   !.now = 0, !.cached = None]

\* The lookup is over: the token's key is known, or the request is refused.
End(r, reply, failed) ==
    [req[r] EXCEPT !.at = "ended", !.reply = reply, !.failed = failed, !.keys = {},
                   !.now = 0, !.cached = None, !.force = FALSE]

M_Valid_IgnoresForce(r, entry) == entry # None /\ clock - entry.at < Ttl

\* The cached entry may be returned without a fetch.
Valid(r, entry) == ~req[r].force /\ entry # None /\ clock - entry.at < Ttl

\* _get_jwks up to its await.
GetJwks(r) ==
    /\ req[r].at = "lookup"
    /\ req' = [req EXCEPT ![r] =
          IF Valid(r, cache) THEN Return(r, cache.keys, req[r].failed)
          ELSE [@ EXCEPT !.at = "fetching", !.now = clock, !.cached = cache]]
    /\ UNCHANGED <<clock, published, retiredAt, cache, failures>>

\* The provider serves the keys; the response is on its way.
ProviderResponds(r) ==
    /\ req[r].at = "fetching"
    /\ req' = [req EXCEPT ![r].at = "fetched", ![r].keys = published]
    /\ UNCHANGED <<clock, published, retiredAt, cache, failures>>

\* The entry is stamped when the response is installed.
M_Install_StampedLate(r) ==
    /\ req[r].at = "fetched"
    /\ cache' = [at |-> clock, keys |-> req[r].keys]
    /\ req' = [req EXCEPT ![r] = Return(r, req[r].keys, req[r].failed)]
    /\ UNCHANGED <<clock, published, retiredAt, failures>>

\* The response arrives and replaces whatever is cached by now.
Install(r) ==
    /\ req[r].at = "fetched"
    /\ cache' = [at |-> req[r].now, keys |-> req[r].keys]
    /\ req' = [req EXCEPT ![r] = Return(r, req[r].keys, req[r].failed)]
    /\ UNCHANGED <<clock, published, retiredAt, failures>>

\* A failed fetch is always reported, whatever is cached.
M_FetchFails_NoStale(r) ==
    /\ req[r].at \in {"fetching", "fetched"}
    /\ failures < MaxFailures
    /\ failures' = failures + 1
    /\ req' = [req EXCEPT ![r] = End(r, "503", TRUE)]
    /\ UNCHANGED <<clock, published, retiredAt, cache>>

\* A failed fetch is taken for an empty key set.
M_FetchFails_EmptyKeys(r) ==
    /\ req[r].at \in {"fetching", "fetched"}
    /\ failures < MaxFailures
    /\ failures' = failures + 1
    /\ req' = [req EXCEPT ![r] = Return(r, {}, TRUE)]
    /\ UNCHANGED <<clock, published, retiredAt, cache>>

\* The fetch fails: the keys read before it are served, however old; without any
\* the request ends with 503.
FetchFails(r) ==
    LET served == req[r].cached IN
    /\ req[r].at \in {"fetching", "fetched"}
    /\ failures < MaxFailures
    /\ failures' = failures + 1
    /\ req' = [req EXCEPT ![r] =
          IF served = None
          THEN End(r, "503", TRUE)
          ELSE Return(r, served.keys, TRUE)]
    /\ UNCHANGED <<clock, published, retiredAt, cache>>

\* An unknown kid is looked up again for as long as it is unknown.
M_CheckKey_Loops(r) ==
    LET known == req[r].kid \in req[r].keys IN
    /\ req[r].at = "check"
    /\ req' = [req EXCEPT ![r] =
          IF known THEN End(r, "accepted", req[r].failed)
          ELSE [@ EXCEPT !.at = "lookup", !.force = TRUE]]
    /\ UNCHANGED <<clock, published, retiredAt, cache, failures>>

\* verify_bearer_token with the keys returned: an unknown kid makes it refresh
\* once, the second time it is refused.
CheckKey(r) ==
    LET known == req[r].kid \in req[r].keys IN
    /\ req[r].at = "check"
    /\ req' = [req EXCEPT ![r] =
          IF known THEN End(r, "accepted", req[r].failed)
          ELSE IF req[r].force THEN End(r, "401", req[r].failed)
          ELSE [@ EXCEPT !.at = "lookup", !.force = TRUE]]
    /\ UNCHANGED <<clock, published, retiredAt, cache, failures>>

Step(r) == GetJwks(r) \/ ProviderResponds(r) \/ Install(r) \/ CheckKey(r)

Next ==
    \/ Tick
    \/ \E k \in Kids : Publish(k) \/ Retire(k)
    \/ \E r \in Requests : Arrive(r) \/ Step(r) \/ FetchFails(r)

Spec == Init /\ [][Next]_vars

\* A fetch is answered or times out (5 s), and a worker runs its ready tasks.
FairSpec == Spec /\ \A r \in Requests : WF_vars(Step(r))

-----------------------------------------------------------------------------
(* Properties *)

\* Every variable keeps its type, and a lookup never searches an empty key set.
TypeOK ==
    /\ clock \in Time
    /\ published \subseteq Kids /\ published # {}
    /\ retiredAt \in [Kids -> Time \cup {None}]
    /\ cache \in Entry \cup {None}
    /\ req \in [Requests -> Lookup]
    /\ \A r \in Requests : req[r].at = "check" => req[r].keys # {}
    /\ failures \in 0..MaxFailures

\* A withdrawn key dies within the TTL: unless one of its own fetches failed, no
\* request that arrives Ttl or more after the withdrawal is accepted with that key,
\* in whatever order concurrent refreshes have written the cache.
RetiredKeyDies ==
    \A r \in Requests :
        req[r].reply = "accepted" /\ ~req[r].failed
            => \/ retiredAt[req[r].kid] = None
               \/ req[r].started < retiredAt[req[r].kid] + Ttl

\* A token whose key the provider still serves is never refused as long as no
\* fetch of its request fails, even if a slower refresh has put an older key set
\* back into the cache.
PublishedKeyAccepted ==
    \A r \in Requests :
        req[r].reply = "401" /\ ~req[r].failed => retiredAt[req[r].kid] # None

\* An outage of the provider does not fail a request that arrives at a worker
\* which has keys.
WarmCacheNeverFails == \A r \in Requests : req[r].reply = "503" => ~req[r].warm

\* Every lookup ends, after two fetches at most.
EveryLookupEnds == \A r \in Requests : req[r].at = "lookup" ~> req[r].at = "ended"

\* An outage of the provider does not fail a request while the worker has keys,
\* old ones included: a step that ends in 503 finds the cache empty.
StaleKeysAreServed ==
    [][\A r \in Requests : req'[r].reply = "503" /\ req[r].reply # "503"
                           => cache = None]_vars
=============================================================================
