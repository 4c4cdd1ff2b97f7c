--------------------------- MODULE JwksCacheProofs ---------------------------
(***************************************************************************)
(* Theorems about JwksCache for any number of requests and keys, any TTL,  *)
(* and any number of failed fetches.                                       *)
(***************************************************************************)
EXTENDS JwksCache, TLAPS

\* Keys served at a time t: not empty, and none of them was withdrawn before t.
ServedAt(t, keys) ==
    /\ keys # {} /\ t <= clock
    /\ \A k \in keys : retiredAt[k] # None => t <= retiredAt[k]

\* What was read before the await is as old as its stamp says, whatever another
\* request has installed meanwhile.
EntryInv(entry) == entry # None => ServedAt(entry.at, entry.keys)

\* The key of a request's token is or was published.
KidKnown(r) == req[r].kid \in Kids /\ (req[r].kid \in published \/ retiredAt[req[r].kid] # None)

\* The keys hold the token's key, unless that was withdrawn.
HasKid(r) == req[r].kid \in req[r].keys \/ retiredAt[req[r].kid] # None

\* None of the keys returned was withdrawn Ttl or more before the request arrived.
Timely(r) == \A k \in req[r].keys :
                retiredAt[k] # None => req[r].started < retiredAt[k] + Ttl

LookupInv(r) ==
    /\ req[r].at # "idle" => KidKnown(r)
    /\ req[r].at # "ended" => req[r].reply = "none"
    /\ req[r].at \notin {"idle", "ended"} /\ req[r].warm => cache # None
    /\ req[r].started <= clock
    /\ EntryInv(req[r].cached)
    /\ req[r].at \in {"fetching", "fetched"} =>
          /\ req[r].started <= req[r].now
          /\ req[r].now <= clock
          /\ req[r].warm => req[r].cached # None
    /\ req[r].at = "fetched" => ServedAt(req[r].now, req[r].keys) /\ HasKid(r)
    /\ req[r].at = "check" => req[r].keys # {}
    /\ req[r].at = "check" /\ ~req[r].failed =>
          /\ Timely(r)
          /\ req[r].force => HasKid(r)

\* The three properties, for one request.
AnswerInv(r) ==
    /\ req[r].reply = "accepted" /\ ~req[r].failed =>
          \/ retiredAt[req[r].kid] = None
          \/ req[r].started < retiredAt[req[r].kid] + Ttl
    /\ req[r].reply = "401" /\ ~req[r].failed => retiredAt[req[r].kid] # None
    /\ req[r].reply = "503" => ~req[r].warm

CacheInv ==
    /\ TypeOK
    /\ \A k \in published : retiredAt[k] = None
    /\ EntryInv(cache)
    /\ \A r \in Requests : LookupInv(r) /\ AnswerInv(r)

-----------------------------------------------------------------------------
USE CacheBounds, NoneAssumption

\* What every step does to what the requests share: the clock does not go back, a
\* key is withdrawn once and for all, at the time of the step, and the cache is
\* never emptied.
Advance ==
    /\ clock <= clock'
    /\ \A k \in Kids :
          \/ retiredAt'[k] = retiredAt[k] /\ (k \in published => k \in published')
          \/ retiredAt[k] = None /\ retiredAt'[k] = clock
    /\ cache # None => cache' # None

\* A well-formed lookup takes the place of another.
LEMMA MoveKeepsLookups ==
    ASSUME TypeOK, NEW r \in Requests, NEW l \in Lookup, req' = [req EXCEPT ![r] = l],
           l.at = "check" => l.keys # {}
    PROVE  /\ req' \in [Requests -> Lookup]
           /\ \A s \in Requests : req'[s].at = "check" => req'[s].keys # {}
BY DEF TypeOK

\* _get_jwks returning keys leaves a well-formed lookup.
LEMMA ReturnIsLookup ==
    ASSUME TypeOK, NEW r \in Requests, NEW keys \in SUBSET Kids, NEW failed \in BOOLEAN
    PROVE  /\ Return(r, keys, failed) \in Lookup
           /\ Return(r, keys, failed).keys = keys
<1>1. req[r] \in Lookup /\ 0 \in Time
  BY DEF TypeOK, Time
<1>2. QED
  BY <1>1 DEF Return, Lookup

\* So does the end of a lookup.
LEMMA EndIsLookup ==
    ASSUME TypeOK, NEW r \in Requests, NEW failed \in BOOLEAN,
           NEW reply \in {"none", "accepted", "401", "503"}
    PROVE  /\ End(r, reply, failed) \in Lookup
           /\ End(r, reply, failed).at = "ended"
<1>1. req[r] \in Lookup /\ 0 \in Time
  BY DEF TypeOK, Time
<1>2. QED
  BY <1>1 DEF End, Lookup

\* Every step keeps the types.
LEMMA StepKeepsType == TypeOK /\ (\A r \in Requests : LookupInv(r)) /\ EntryInv(cache)
                       /\ [Next]_vars => TypeOK'
<1> SUFFICES ASSUME TypeOK, \A r \in Requests : LookupInv(r), EntryInv(cache), [Next]_vars
             PROVE  TypeOK'
  OBVIOUS
<1>1. CASE Tick
  BY <1>1 DEF TypeOK, Tick, Time
<1>2. ASSUME NEW k \in Kids, Publish(k) PROVE TypeOK'
  BY <1>2 DEF TypeOK, Publish
<1>3. ASSUME NEW k \in Kids, Retire(k) PROVE TypeOK'
  BY <1>3 DEF TypeOK, Retire
<1>4. ASSUME NEW r \in Requests, Arrive(r) PROVE TypeOK'
  <2>1. PICK k \in Kids : req' = [req EXCEPT ![r] =
                [Fresh EXCEPT !.at = "lookup", !.kid = k, !.started = clock,
                              !.warm = cache # None]]
    BY <1>4 DEF Arrive
  <2>2. [Fresh EXCEPT !.at = "lookup", !.kid = k, !.started = clock,
                      !.warm = cache # None] \in Lookup
    <3>1. 0 \in Time /\ clock \in Time /\ (cache # None) \in BOOLEAN
      BY DEF TypeOK, Time
    <3>2. QED
      BY <3>1 DEF Fresh, Lookup
  <2>3. QED
    BY <1>4, <2>1, <2>2, MoveKeepsLookups DEF Arrive, TypeOK, Fresh
<1>5. ASSUME NEW r \in Requests, GetJwks(r) PROVE TypeOK'
  <2>1. CASE Valid(r, cache)
    <3>1. cache.keys \in SUBSET Kids /\ cache.keys # {} /\ req[r].failed \in BOOLEAN
      BY <2>1 DEF Valid, EntryInv, ServedAt, TypeOK, Entry, Lookup
    <3>2. req' = [req EXCEPT ![r] = Return(r, cache.keys, req[r].failed)]
      BY <1>5, <2>1 DEF GetJwks
    <3>3. QED
      BY <1>5, <3>1, <3>2, ReturnIsLookup, MoveKeepsLookups DEF GetJwks, TypeOK
  <2>2. CASE ~Valid(r, cache)
    <3>1. req' = [req EXCEPT ![r] = [req[r] EXCEPT !.at = "fetching", !.now = clock,
                                                   !.cached = cache]]
      BY <1>5, <2>2 DEF GetJwks
    <3>2. [req[r] EXCEPT !.at = "fetching", !.now = clock, !.cached = cache] \in Lookup
      BY DEF TypeOK, Lookup
    <3>3. [req[r] EXCEPT !.at = "fetching", !.now = clock, !.cached = cache].at = "fetching"
      BY DEF TypeOK, Lookup
    <3>4. QED
      BY <1>5, <3>1, <3>2, <3>3, MoveKeepsLookups DEF GetJwks, TypeOK
  <2>3. QED
    BY <2>1, <2>2
<1>6. ASSUME NEW r \in Requests, ProviderResponds(r) PROVE TypeOK'
  <2>1. req' = [req EXCEPT ![r] = [req[r] EXCEPT !.at = "fetched", !.keys = published]]
    BY <1>6 DEF ProviderResponds, TypeOK, Lookup
  <2>2. [req[r] EXCEPT !.at = "fetched", !.keys = published] \in Lookup
    BY DEF TypeOK, Lookup
  <2>3. QED
    BY <1>6, <2>1, <2>2, MoveKeepsLookups DEF ProviderResponds, TypeOK, Lookup
<1>7. ASSUME NEW r \in Requests, Install(r) PROVE TypeOK'
  <2>1. /\ req[r].keys \in SUBSET Kids /\ req[r].keys # {}
        /\ req[r].failed \in BOOLEAN /\ req[r].now \in Time
    BY <1>7 DEF Install, LookupInv, ServedAt, TypeOK, Lookup
  <2>2. QED
    BY <1>7, <2>1, ReturnIsLookup, MoveKeepsLookups DEF Install, TypeOK, Entry
<1>8. ASSUME NEW r \in Requests, CheckKey(r) PROVE TypeOK'
  <2>1. req[r].failed \in BOOLEAN
    BY DEF TypeOK, Lookup
  <2>2. CASE \E reply \in {"accepted", "401"} :
                req' = [req EXCEPT ![r] = End(r, reply, req[r].failed)]
    BY <1>8, <2>1, <2>2, EndIsLookup, MoveKeepsLookups DEF CheckKey, TypeOK
  <2>3. CASE req' = [req EXCEPT ![r] = [req[r] EXCEPT !.at = "lookup", !.force = TRUE]]
    <3>1. [req[r] EXCEPT !.at = "lookup", !.force = TRUE] \in Lookup
      BY DEF TypeOK, Lookup
    <3>2. [req[r] EXCEPT !.at = "lookup", !.force = TRUE].at = "lookup"
      BY DEF TypeOK, Lookup
    <3>3. QED
      BY <1>8, <2>3, <3>1, <3>2, MoveKeepsLookups DEF CheckKey, TypeOK
  <2>4. QED
    BY <1>8, <2>2, <2>3 DEF CheckKey
<1>9. ASSUME NEW r \in Requests, FetchFails(r) PROVE TypeOK'
  <2>1. failures' \in 0..MaxFailures
    BY <1>9 DEF FetchFails, TypeOK
  <2>2. CASE req[r].cached = None
    BY <1>9, <2>1, <2>2, EndIsLookup, MoveKeepsLookups DEF FetchFails, TypeOK
  <2>3. CASE req[r].cached # None
    <3>1. req[r].cached.keys \in SUBSET Kids /\ req[r].cached.keys # {}
      BY <2>3 DEF LookupInv, EntryInv, ServedAt, TypeOK, Entry, Lookup
    <3>2. QED
      BY <1>9, <2>1, <2>3, <3>1, ReturnIsLookup, MoveKeepsLookups DEF FetchFails, TypeOK
  <2>4. QED
    BY <2>2, <2>3
<1>10. CASE UNCHANGED vars
  BY <1>10 DEF TypeOK, vars
<1>11. QED
  BY <1>1, <1>2, <1>3, <1>4, <1>5, <1>6, <1>7, <1>8, <1>9, <1>10 DEF Next, Step

-----------------------------------------------------------------------------
\* Every step is an Advance: a key that is withdrawn was published, and none that
\* was withdrawn is published again.
LEMMA StepAdvances ==
    ASSUME TypeOK, \A k \in published : retiredAt[k] = None, [Next]_vars
    PROVE  Advance
<1>1. clock \in Nat
  BY DEF TypeOK, Time
<1>2. CASE Tick
  BY <1>1, <1>2 DEF Tick, Advance
<1>3. ASSUME NEW k \in Kids, Publish(k) PROVE Advance
  BY <1>1, <1>3 DEF Publish, Advance
<1>4. ASSUME NEW k \in Kids, Retire(k) PROVE Advance
  BY <1>1, <1>4 DEF Retire, Advance, TypeOK
<1>5. ASSUME NEW r \in Requests, Install(r) PROVE Advance
  <2>1. [at |-> req[r].now, keys |-> req[r].keys] \in Entry
    BY DEF TypeOK, Lookup, Entry
  <2>2. QED
    BY <1>1, <1>5, <2>1 DEF Install, Advance
<1>6. CASE UNCHANGED <<clock, published, retiredAt, cache>>
  BY <1>1, <1>6 DEF Advance
<1>7. QED
  BY <1>2, <1>3, <1>4, <1>5, <1>6
  DEF Next, Step, Arrive, GetJwks, ProviderResponds, CheckKey, FetchFails, vars

\* Keys served at a time stay keys served at that time.
LEMMA ServedAtStays ==
    ASSUME TypeOK, Advance, TypeOK', NEW t \in Time, NEW keys \in SUBSET Kids, ServedAt(t, keys)
    PROVE  ServedAt(t, keys)'
BY DEF TypeOK, Time, ServedAt, Advance

\* So do those of an entry.
LEMMA EntryInvStays ==
    ASSUME TypeOK, Advance, TypeOK', NEW entry \in Entry \cup {None}, EntryInv(entry)
    PROVE  entry # None => ServedAt(entry.at, entry.keys)'
BY ServedAtStays DEF EntryInv, Entry

\* A request that does not move keeps its part of the invariant, whatever the others
\* do meanwhile.
LEMMA OthersKeep ==
    ASSUME TypeOK, Advance, TypeOK', NEW r \in Requests, req'[r] = req[r],
           LookupInv(r), AnswerInv(r)
    PROVE  LookupInv(r)' /\ AnswerInv(r)'
<1>1. /\ clock \in Nat /\ clock' \in Nat /\ req[r].started \in Nat /\ req[r].now \in Nat
      /\ Ttl \in Nat \ {0} /\ req[r].now \in Time
      /\ req[r].keys \in SUBSET Kids /\ req[r].cached \in Entry \cup {None}
      /\ \A k \in Kids : retiredAt[k] # None => retiredAt[k] \in Nat
      /\ clock # None
  BY DEF TypeOK, Lookup, Time
<1>2. req[r].at # "idle" => KidKnown(r) /\ KidKnown(r)'
  BY <1>1 DEF LookupInv, KidKnown, Advance
<1>3. HasKid(r) /\ req[r].at # "idle" => HasKid(r)'
  BY <1>1, <1>2 DEF KidKnown, HasKid, Advance
<1>4. Timely(r) /\ req[r].started <= clock => Timely(r)'
  BY <1>1 DEF Timely, Advance
<1>5. EntryInv(req[r].cached)'
  BY <1>1, EntryInvStays DEF LookupInv, EntryInv
<1>6. ServedAt(req[r].now, req[r].keys) => ServedAt(req[r].now, req[r].keys)'
  BY <1>1, ServedAtStays DEF ServedAt
<1>7. LookupInv(r)'
  BY <1>1, <1>2, <1>3, <1>4, <1>5, <1>6 DEF LookupInv, Advance
<1>8. AnswerInv(r)'
  BY <1>1, <1>2 DEF AnswerInv, LookupInv, KidKnown, Advance
<1>9. QED
  BY <1>7, <1>8

-----------------------------------------------------------------------------
\* What the steps of a request start from: its types, its part of the invariant and
\* the shared state that the step leaves alone.
Before(r) ==
    /\ TypeOK /\ TypeOK'
    /\ \A k \in published : retiredAt[k] = None
    /\ EntryInv(cache)
    /\ LookupInv(r) /\ AnswerInv(r)
    /\ UNCHANGED <<clock, published, retiredAt>>

\* The token of a new request was signed with a key that is or was published.
LEMMA ArriveKeeps ==
    ASSUME NEW r \in Requests, Before(r), Arrive(r)
    PROVE  LookupInv(r)' /\ AnswerInv(r)'
<1>1. PICK k \in Kids :
          /\ k \in published \/ retiredAt[k] # None
          /\ req'[r] = [Fresh EXCEPT !.at = "lookup", !.kid = k, !.started = clock,
                                     !.warm = cache # None]
  BY DEF Before, Arrive, TypeOK
<1>2. /\ req'[r].at = "lookup" /\ req'[r].kid = k /\ req'[r].started = clock
      /\ (req'[r].warm => cache # None) /\ req'[r].cached = None /\ req'[r].reply = "none"
  BY <1>1 DEF Fresh
<1>3. clock' = clock /\ published' = published /\ retiredAt' = retiredAt /\ cache' = cache
      /\ clock \in Nat
  BY DEF Before, Arrive, TypeOK, Time
<1>4. QED
  BY <1>1, <1>2, <1>3 DEF LookupInv, AnswerInv, KidKnown, EntryInv

\* Entries that may be returned without a fetch are younger than the TTL, so no key
\* in them died before the request arrived.
LEMMA GetJwksKeeps ==
    ASSUME NEW r \in Requests, Before(r), GetJwks(r)
    PROVE  LookupInv(r)' /\ AnswerInv(r)'
<1>1. /\ clock' = clock /\ published' = published /\ retiredAt' = retiredAt
      /\ cache' = cache /\ clock \in Nat /\ req[r].at = "lookup"
      /\ req[r].started \in Nat /\ req[r] \in Lookup
      /\ \A k \in Kids : retiredAt[k] # None => retiredAt[k] \in Nat
  BY DEF Before, GetJwks, TypeOK, Lookup, Time
<1>2. CASE Valid(r, cache)
  <2>1. /\ req'[r].at = "check" /\ req'[r].keys = cache.keys /\ ~req[r].force
        /\ req'[r].kid = req[r].kid /\ req'[r].started = req[r].started
        /\ req'[r].warm = req[r].warm /\ req'[r].force = req[r].force
        /\ req'[r].cached = None /\ req'[r].reply = req[r].reply
    BY <1>1, <1>2 DEF GetJwks, Before, TypeOK, Return, Valid, Lookup
  <2>2. /\ cache # None /\ clock - cache.at < Ttl /\ cache.at \in Nat
        /\ cache.keys \subseteq Kids
    BY <1>2 DEF Valid, Before, TypeOK, Entry, Time
  <2>3. ServedAt(cache.at, cache.keys)
    BY <2>2 DEF Before, EntryInv
  <2>4. Timely(r)'
    BY <1>1, <2>1, <2>2, <2>3 DEF Timely, ServedAt, Before, LookupInv
  <2>5. QED
    BY <1>1, <2>1, <2>3, <2>4
    DEF Before, LookupInv, AnswerInv, KidKnown, EntryInv, ServedAt
<1>3. CASE ~Valid(r, cache)
  <2>1. /\ req'[r].at = "fetching" /\ req'[r].now = clock /\ req'[r].cached = cache
        /\ req'[r].kid = req[r].kid /\ req'[r].started = req[r].started
        /\ req'[r].warm = req[r].warm /\ req'[r].reply = req[r].reply
    BY <1>1, <1>3 DEF GetJwks, Before, TypeOK, Lookup
  <2>2. EntryInv(req[r].cached)'
    BY <1>1, <2>1 DEF Before, EntryInv, ServedAt
  <2>3. QED
    BY <1>1, <2>1, <2>2 DEF Before, LookupInv, AnswerInv, KidKnown
<1>4. QED
  BY <1>2, <1>3

\* A response holds the keys published when it leaves the provider.
LEMMA ProviderRespondsKeeps ==
    ASSUME NEW r \in Requests, Before(r), ProviderResponds(r)
    PROVE  LookupInv(r)' /\ AnswerInv(r)'
<1>1. /\ clock' = clock /\ published' = published /\ retiredAt' = retiredAt
      /\ cache' = cache /\ req[r].at = "fetching" /\ req[r] \in Lookup
  BY DEF Before, ProviderResponds, TypeOK
<1>2. /\ req'[r].at = "fetched" /\ req'[r].keys = published
      /\ req'[r].kid = req[r].kid /\ req'[r].started = req[r].started
      /\ req'[r].warm = req[r].warm /\ req'[r].reply = req[r].reply
      /\ req'[r].now = req[r].now /\ req'[r].cached = req[r].cached
  BY <1>1 DEF Before, ProviderResponds, TypeOK, Lookup
<1>3. ServedAt(req[r].now, req[r].keys)'
  BY <1>1, <1>2 DEF Before, TypeOK, ServedAt, LookupInv
<1>4. QED
  BY <1>1, <1>2, <1>3
  DEF Before, LookupInv, AnswerInv, KidKnown, HasKid, EntryInv, ServedAt

\* An installed entry was served at its stamp, and the request that fetched it arrived
\* no later than that.
LEMMA InstallKeeps ==
    ASSUME NEW r \in Requests, Before(r), Install(r)
    PROVE  LookupInv(r)' /\ AnswerInv(r)' /\ EntryInv(cache)'
<1>1. /\ clock' = clock /\ published' = published /\ retiredAt' = retiredAt
      /\ cache' = [at |-> req[r].now, keys |-> req[r].keys]
      /\ req[r].at = "fetched" /\ req[r] \in Lookup
      /\ req[r].now \in Nat /\ req[r].started \in Nat
      /\ \A k \in Kids : retiredAt[k] # None => retiredAt[k] \in Nat
  BY DEF Before, Install, TypeOK, Lookup, Time
<1>2. /\ req'[r].at = "check" /\ req'[r].keys = req[r].keys
      /\ req'[r].kid = req[r].kid /\ req'[r].started = req[r].started
      /\ req'[r].warm = req[r].warm /\ req'[r].reply = req[r].reply
      /\ req'[r].cached = None
  BY <1>1 DEF Before, Install, TypeOK, Return, Lookup
<1>3. cache' # None
  BY <1>1 DEF Lookup, Entry
<1>4. ServedAt(req[r].now, req[r].keys) /\ HasKid(r) /\ req[r].keys \subseteq Kids
  BY <1>1 DEF Before, LookupInv, Lookup
<1>5. Timely(r)'
  BY <1>1, <1>2, <1>4 DEF Timely, ServedAt, Before, LookupInv
<1>6. EntryInv(cache)'
  BY <1>1, <1>4 DEF EntryInv, ServedAt
<1>7. QED
  BY <1>1, <1>2, <1>3, <1>4, <1>5, <1>6
  DEF Before, LookupInv, AnswerInv, KidKnown, HasKid, EntryInv, ServedAt

\* A failed fetch ends in 503 only where the cache was empty before the await.
LEMMA FetchFailsKeeps ==
    ASSUME NEW r \in Requests, Before(r), FetchFails(r)
    PROVE  LookupInv(r)' /\ AnswerInv(r)'
<1>1. /\ clock' = clock /\ published' = published /\ retiredAt' = retiredAt
      /\ cache' = cache /\ req[r].at \in {"fetching", "fetched"} /\ req[r] \in Lookup
  BY DEF Before, FetchFails, TypeOK
<1>2. /\ req'[r].kid = req[r].kid /\ req'[r].started = req[r].started
      /\ req'[r].warm = req[r].warm /\ req'[r].cached = None /\ req'[r].failed
  BY <1>1 DEF Before, FetchFails, TypeOK, Return, End, Lookup
<1>3. \/ req'[r].at = "ended" /\ req'[r].reply = "503" /\ req[r].cached = None
      \/ /\ req'[r].at = "check" /\ req'[r].reply = req[r].reply
         /\ req[r].cached # None /\ req'[r].keys = req[r].cached.keys
  BY <1>1 DEF Before, FetchFails, TypeOK, Return, End, Lookup
<1>4. QED
  BY <1>1, <1>2, <1>3
  DEF Before, LookupInv, AnswerInv, KidKnown, EntryInv, ServedAt

\* A key that is found was alive less than Ttl before the request arrived, and one that
\* is missing from a refreshed key set was withdrawn.
LEMMA CheckKeyKeeps ==
    ASSUME NEW r \in Requests, Before(r), CheckKey(r)
    PROVE  LookupInv(r)' /\ AnswerInv(r)'
<1>1. /\ clock' = clock /\ published' = published /\ retiredAt' = retiredAt
      /\ cache' = cache /\ req[r].at = "check" /\ req[r] \in Lookup
  BY DEF Before, CheckKey, TypeOK
<1>2. /\ req'[r].kid = req[r].kid /\ req'[r].started = req[r].started
      /\ req'[r].warm = req[r].warm /\ req'[r].failed = req[r].failed
      /\ req'[r].cached = None \/ req'[r].cached = req[r].cached
  BY <1>1 DEF Before, CheckKey, TypeOK, End, Lookup
<1>3. \/ /\ req'[r].at = "ended" /\ req'[r].reply = "accepted"
         /\ req[r].kid \in req[r].keys
      \/ /\ req'[r].at = "ended" /\ req'[r].reply = "401" /\ req[r].force
         /\ req[r].kid \notin req[r].keys
      \/ req'[r].at = "lookup" /\ req'[r].reply = req[r].reply
  BY <1>1 DEF Before, CheckKey, TypeOK, End, Lookup
<1>4. QED
  BY <1>1, <1>2, <1>3
  DEF Before, LookupInv, AnswerInv, KidKnown, HasKid, Timely, EntryInv, ServedAt

-----------------------------------------------------------------------------
\* Every step keeps the invariant.
LEMMA StepKeepsCacheInv == CacheInv /\ [Next]_vars => CacheInv'
<1> SUFFICES ASSUME CacheInv, [Next]_vars PROVE CacheInv'
  OBVIOUS
<1>1. TypeOK /\ TypeOK'
  BY StepKeepsType DEF CacheInv
<1>2. Advance
  BY StepAdvances DEF CacheInv
<1>3. \A k \in published' : retiredAt'[k] = None
  <2>1. CASE UNCHANGED <<published, retiredAt>>
    BY <2>1 DEF CacheInv
  <2>2. ASSUME NEW k \in Kids, Publish(k) PROVE \A x \in published' : retiredAt'[x] = None
    BY <2>2 DEF CacheInv, Publish
  <2>3. ASSUME NEW k \in Kids, Retire(k) PROVE \A x \in published' : retiredAt'[x] = None
    BY <1>1, <2>3 DEF CacheInv, Retire, TypeOK
  <2>4. QED
    BY <2>1, <2>2, <2>3
    DEF Next, Step, Tick, Arrive, GetJwks, ProviderResponds, Install, CheckKey, FetchFails, vars
<1>4. CASE UNCHANGED cache /\ \A r \in Requests : req'[r] = req[r]
  <2>1. EntryInv(cache)'
    BY <1>1, <1>2, <1>4, EntryInvStays DEF CacheInv, EntryInv, TypeOK
  <2>2. QED
    BY <1>1, <1>2, <1>3, <1>4, <2>1, OthersKeep DEF CacheInv
<1>5. ASSUME NEW r \in Requests, Arrive(r) \/ Step(r) \/ FetchFails(r)
      PROVE  CacheInv'
  <2>1. UNCHANGED <<clock, published, retiredAt>> /\ \A s \in Requests \ {r} : req'[s] = req[s]
    BY <1>1, <1>5 DEF TypeOK, Step, Arrive, GetJwks, ProviderResponds, Install, CheckKey, FetchFails
  <2>2. Before(r)
    BY <1>1, <2>1 DEF Before, CacheInv
  <2>3. LookupInv(r)' /\ AnswerInv(r)'
    BY <1>5, <2>2, ArriveKeeps, GetJwksKeeps, ProviderRespondsKeeps, InstallKeeps,
       FetchFailsKeeps, CheckKeyKeeps DEF Step
  <2>4. \A s \in Requests \ {r} : LookupInv(s)' /\ AnswerInv(s)'
    BY <1>1, <1>2, <2>1, OthersKeep DEF CacheInv
  <2>5. CASE Install(r)
    BY <1>1, <1>3, <2>2, <2>3, <2>4, <2>5, InstallKeeps DEF CacheInv
  <2>6. CASE UNCHANGED cache
    <3>1. EntryInv(cache)'
      BY <1>1, <1>2, <2>6, EntryInvStays DEF CacheInv, EntryInv, TypeOK
    <3>2. QED
      BY <1>1, <1>3, <2>3, <2>4, <3>1 DEF CacheInv
  <2>7. QED
    BY <1>5, <2>5, <2>6 DEF Step, Arrive, GetJwks, ProviderResponds, CheckKey, FetchFails
<1>6. QED
  BY <1>4, <1>5 DEF Next, Tick, Publish, Retire, vars

\* Nothing is cached and nobody has asked yet.
LEMMA InitCacheInv == Init => CacheInv
<1> SUFFICES ASSUME Init PROVE CacheInv
  OBVIOUS
<1>1. 0 \in Time /\ Fresh \in Lookup /\ Fresh.at = "idle" /\ Fresh.cached = None
      /\ Fresh.started = 0 /\ Fresh.reply = "none"
  BY DEF Fresh, Lookup, Time
<1>2. TypeOK
  BY <1>1 DEF Init, TypeOK
<1>3. \A r \in Requests : LookupInv(r) /\ AnswerInv(r)
  BY <1>1 DEF Init, LookupInv, AnswerInv, EntryInv
<1>4. QED
  BY <1>1, <1>2, <1>3 DEF Init, CacheInv, EntryInv

\* The invariant holds in every state.
LEMMA CacheInvHolds == Spec => []CacheInv
BY InitCacheInv, StepKeepsCacheInv, PTL DEF Spec

\* Every variable keeps its type, and no request ever searches an empty key set.
THEOREM CacheTypes == Spec => []TypeOK
<1>1. CacheInv => TypeOK
  BY DEF CacheInv
<1>2. QED
  BY <1>1, CacheInvHolds, PTL

\* A withdrawn key dies within the TTL, in whatever order concurrent refreshes write
\* the cache: the stamp of an entry is the clock read before its fetch.
THEOREM RetiredKeysDie == Spec => []RetiredKeyDies
<1>1. CacheInv => RetiredKeyDies
  BY DEF CacheInv, AnswerInv, RetiredKeyDies
<1>2. QED
  BY <1>1, CacheInvHolds, PTL

\* A token whose key is still served is refused only after a failed fetch.
THEOREM PublishedKeysAccepted == Spec => []PublishedKeyAccepted
<1>1. CacheInv => PublishedKeyAccepted
  BY DEF CacheInv, AnswerInv, PublishedKeyAccepted
<1>2. QED
  BY <1>1, CacheInvHolds, PTL

\* Once a worker has keys, an outage of the provider fails none of its requests.
THEOREM WarmCacheServes == Spec => []WarmCacheNeverFails
<1>1. CacheInv => WarmCacheNeverFails
  BY DEF CacheInv, AnswerInv, WarmCacheNeverFails
<1>2. QED
  BY <1>1, CacheInvHolds, PTL
=============================================================================
