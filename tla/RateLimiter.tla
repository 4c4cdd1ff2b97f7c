----------------------------- MODULE RateLimiter -----------------------------
(***************************************************************************)
(* The three fixed-window limiters of rate_limit.py over one Redis: a      *)
(* request is checked by IP in the middleware and then, once its token is  *)
(* verified, by user and by tenant.  Each check is INCR, EXPIRE if the     *)
(* counter is new, TTL if the limit is exceeded: separate round trips that *)
(* other requests, the clock, failures of Redis and the end of the worker  *)
(* may fall between.                                                       *)
(*                                                                         *)
(* A slot is a client that sends one request after another.  There is one  *)
(* tenant.  A tick of the clock is at least the socket timeout, so a round *)
(* trip that follows another without a wait sees at most one tick.         *)
(***************************************************************************)
EXTENDS Naturals, FiniteSets

CONSTANTS
    Slots, Ips, Users, Tenant,
    Limit,          \* Limit[k]: requests per window of counter k
    Window,         \* window_seconds, in ticks
    MaxCount,       \* bound: clients stop sending at this count
    MaxFaults,      \* bound on Redis errors and requests whose worker is killed
    NoTtl,          \* the counter has no expiry (TTL answers -1)
    None

Keys == Ips \cup Users \cup {Tenant}

ASSUME LimitAssumption == Limit \in [Keys -> Nat \ {0}]
ASSUME WindowAssumption == Window \in Nat /\ Window > 2 /\ NoTtl \notin Nat
ASSUME LimiterBounds == MaxCount \in Nat /\ MaxFaults \in Nat /\ IsFiniteSet(Slots)

\* The keys of the counters have the prefix of their limiter.
ASSUME KeysApart == Ips \cap Users = {} /\ Tenant \notin Ips \cup Users

VARIABLES
    count,      \* per key: the counter, 0 when the key does not exist
    ttl,        \* per key: ticks until it expires, or NoTtl
    slot,       \* per client: where its request is
    passed,     \* history, per key: requests let past its check since it last expired
    charged,    \* history, per user: INCRs of the tenant's current counter
    faults      \* history: Redis errors and killed requests

vars == <<count, ttl, slot, passed, charged, faults>>
Redis == <<count, ttl>>

\* The checks of a request, in order, and the counter each uses.
Levels == {"ip", "user", "tenant"}
KeyOf(s) == CASE slot[s].level = "ip"     -> slot[s].ip
              [] slot[s].level = "user"   -> slot[s].user
              [] slot[s].level = "tenant" -> Tenant

Slot == [at : {"idle", "incr", "expire", "ttl"}, level : Levels,
         ip : Ips \cup {None}, user : Users \cup {None},
         waited : BOOLEAN]      \* a tick has passed in a round trip that
                                \* follows directly on another

Idle == [at |-> "idle", level |-> "ip", ip |-> None, user |-> None, waited |-> FALSE]

Init ==
    /\ count = [k \in Keys |-> 0]
    /\ ttl = [k \in Keys |-> NoTtl]
    /\ slot = [s \in Slots |-> Idle]
    /\ passed = [k \in Keys |-> 0]
    /\ charged = [u \in Users |-> 0]
    /\ faults = 0

\* Clients stop sending before a counter can pass the bound.
InFlight == {s \in Slots : slot[s].at # "idle"}
Room(k) == count[k] + Cardinality(InFlight) < MaxCount

Send(s) ==
    /\ slot[s].at = "idle"
    /\ \E i \in Ips, u \in Users :
          /\ Room(i) /\ Room(u) /\ Room(Tenant)
          /\ slot' = [slot EXCEPT ![s] = [at |-> "incr", level |-> "ip", ip |-> i,
                                          user |-> u, waited |-> FALSE]]
    /\ UNCHANGED <<Redis, passed, charged, faults>>

\* The tenant check follows the IP check: the user check is forgotten.
M_NextCheck_SkipsUser(s) ==
    IF slot[s].level = "tenant" THEN Idle
    ELSE [slot[s] EXCEPT !.at = "incr", !.waited = FALSE, !.level = "tenant"]

\* The check lets the request through: on to the next limiter, or to the handler.
NextCheck(s) ==
    IF slot[s].level = "tenant" THEN Idle
    ELSE [slot[s] EXCEPT !.at = "incr", !.waited = FALSE,
                         !.level = IF @ = "ip" THEN "user" ELSE "tenant"]

\* What Redis does when it executes INCR, EXPIRE (of a key that exists), TTL.
ExecuteIncr(s) ==
    LET k == KeyOf(s) IN
    /\ count' = [count EXCEPT ![k] = @ + 1]
    /\ charged' = IF k = Tenant THEN [charged EXCEPT ![slot[s].user] = @ + 1] ELSE charged
    /\ UNCHANGED ttl

ExecuteExpire(s) ==
    LET k == KeyOf(s) IN
    /\ ttl' = IF count[k] > 0 THEN [ttl EXCEPT ![k] = Window] ELSE ttl
    /\ UNCHANGED <<count, charged>>

\* The comparison uses the counter before the increment: off by one.
M_Incr_OffByOne(s) ==
    LET k == KeyOf(s) IN
    /\ slot[s].at = "incr" /\ ExecuteIncr(s)
    /\ \/ /\ count[k] > Limit[k]
          /\ slot' = [slot EXCEPT ![s].at = "ttl", ![s].waited = FALSE]
          /\ UNCHANGED passed
       \/ /\ count[k] <= Limit[k]
          /\ passed' = [passed EXCEPT ![k] = @ + 1]
          /\ slot' = [slot EXCEPT ![s] = IF count[k] = 0 THEN [@ EXCEPT !.at = "expire", !.waited = FALSE]
                                         ELSE NextCheck(s)]
    /\ UNCHANGED faults

\* EXPIRE when the counter reaches its limit, not when it is new.
M_Incr_ExpireAtLimit(s) ==
    LET k == KeyOf(s)  current == count[k] + 1 IN
    /\ slot[s].at = "incr" /\ ExecuteIncr(s)
    /\ \/ /\ current > Limit[k]
          /\ slot' = [slot EXCEPT ![s].at = "ttl", ![s].waited = FALSE]
          /\ UNCHANGED passed
       \/ /\ current <= Limit[k]
          /\ passed' = [passed EXCEPT ![k] = @ + 1]
          /\ slot' = [slot EXCEPT ![s] = IF current = Limit[k] THEN [@ EXCEPT !.at = "expire", !.waited = FALSE]
                                         ELSE NextCheck(s)]
    /\ UNCHANGED faults

\* INCR, and the comparison of its result with the limit.
Incr(s) ==
    LET k == KeyOf(s)  current == count[k] + 1 IN
    /\ slot[s].at = "incr" /\ ExecuteIncr(s)
    /\ \/ /\ current > Limit[k]
          /\ slot' = [slot EXCEPT ![s].at = "ttl", ![s].waited = FALSE]
          /\ UNCHANGED passed
       \/ /\ current <= Limit[k]
          /\ passed' = [passed EXCEPT ![k] = @ + 1]
          /\ slot' = [slot EXCEPT ![s] = IF current = 1 THEN [@ EXCEPT !.at = "expire", !.waited = FALSE]
                                         ELSE NextCheck(s)]
    /\ UNCHANGED faults

\* The window is one tick too long.
M_Expire_OffByOne(s) ==
    LET k == KeyOf(s) IN
    /\ slot[s].at = "expire"
    /\ ttl' = IF count[k] > 0 THEN [ttl EXCEPT ![k] = Window + 1] ELSE ttl
    /\ slot' = [slot EXCEPT ![s] = NextCheck(s)]
    /\ UNCHANGED <<count, passed, charged, faults>>

\* EXPIRE, by the request that found the counter new.
Expire(s) ==
    /\ slot[s].at = "expire" /\ ExecuteExpire(s)
    /\ slot' = [slot EXCEPT ![s] = NextCheck(s)]
    /\ UNCHANGED <<passed, faults>>

\* A refused request asks for the TTL to put into Retry-After and is answered 429.
Refuse(s) ==
    /\ slot[s].at = "ttl"
    /\ slot' = [slot EXCEPT ![s] = Idle]
    /\ UNCHANGED <<Redis, passed, charged, faults>>

\* A round trip whose reply does not arrive: Redis may have executed the command.
ReplyMissing(s) ==
    /\ faults < MaxFaults /\ faults' = faults + 1
    /\ \/ slot[s].at # "idle" /\ UNCHANGED <<Redis, charged>>
       \/ slot[s].at = "incr" /\ ExecuteIncr(s)
       \/ slot[s].at = "expire" /\ ExecuteExpire(s)

\* The checks an error lets the request past: the one it is at, unless its INCR has
\* let it past already, and after the user check the tenant check with it, as the two
\* share one handler.
LetPast(s) ==
    (IF slot[s].at = "expire" THEN {} ELSE {KeyOf(s)})
        \cup (IF slot[s].level = "user" THEN {Tenant} ELSE {})

\* An error of Redis, a lost reply included, lets the request through: from the IP
\* check on to the user check, from the others to the handler.
RedisError(s) ==
    /\ ReplyMissing(s)
    /\ passed' = [k \in Keys |-> IF k \in LetPast(s) THEN passed[k] + 1 ELSE passed[k]]
    /\ slot' = [slot EXCEPT ![s] =
          IF @.level = "ip" THEN [@ EXCEPT !.at = "incr", !.level = "user", !.waited = FALSE]
          ELSE Idle]

\* The worker is killed in the round trip, and the request ends unanswered.
Killed(s) ==
    /\ ReplyMissing(s)
    /\ slot' = [slot EXCEPT ![s] = Idle]
    /\ UNCHANGED passed

\* The user check, the tenant check and their EXPIREs follow directly on one
\* another, each within the socket timeout.
Pressing(s) == \/ slot[s].at \in {"expire", "ttl"}
               \/ slot[s].at = "incr" /\ slot[s].level = "tenant"

Expiring == {k \in Keys : ttl[k] = 1}

\* Time passes; Redis removes the counters that expire.
Tick ==
    /\ \A s \in Slots : ~slot[s].waited
    /\ ttl' = [k \in Keys |-> IF ttl[k] = NoTtl \/ k \in Expiring THEN NoTtl ELSE ttl[k] - 1]
    /\ count' = [k \in Keys |-> IF k \in Expiring THEN 0 ELSE count[k]]
    /\ passed' = [k \in Keys |-> IF k \in Expiring THEN 0 ELSE passed[k]]
    /\ charged' = IF Tenant \in Expiring THEN [u \in Users |-> 0] ELSE charged
    /\ slot' = [s \in Slots |-> [slot[s] EXCEPT !.waited = Pressing(s)]]
    /\ UNCHANGED faults

Check(s) == Incr(s) \/ Expire(s) \/ Refuse(s)

Next == Tick \/ \E s \in Slots : Send(s) \/ Check(s) \/ RedisError(s) \/ Killed(s)

Spec == Init /\ [][Next]_vars

\* Time passes and a worker takes the steps of its requests.
FairSpec == Spec /\ WF_vars(Tick) /\ \A s \in Slots : WF_vars(Check(s))

-----------------------------------------------------------------------------
(* Properties *)

\* Every variable keeps its type: a counter never passes the instance's bound, an
\* expiry is never longer than the window, and only a round trip that follows
\* directly on another is marked as having waited.
TypeOK ==
    /\ count \in [Keys -> 0..MaxCount]
    /\ ttl \in [Keys -> (1..Window) \cup {NoTtl}]
    /\ slot \in [Slots -> Slot]
    /\ \A s \in Slots : slot[s].waited => Pressing(s)
    /\ passed \in [Keys -> Nat] /\ charged \in [Users -> Nat]
    /\ faults \in 0..MaxFaults

\* In the lifetime of a counter at most Limit requests get past its check, however
\* the requests interleave, and each failure of Redis lets at most one more through:
\* failing open never loses count of the others.
WindowBound == \A k \in Keys : passed[k] <= Limit[k] + faults

\* While Redis answers and no worker is killed, one user spends less than three user
\* windows' worth of a tenant window: two windows fit into it, which starts late, and
\* requests that passed the user check before the first of them may still be on their
\* way to the tenant check.  With 300 per user and 1000 per tenant nobody is refused
\* on account of one other user.
UserShareBounded ==
    faults = 0 => \A u \in Users : charged[u] < 3 * Limit[u]

\* While Redis answers and no worker is killed, no counter is left without an expiry:
\* one that has none has a request under way that is about to set it.
NoImmortalCounter ==
    \A k \in Keys :
        count[k] > 0 /\ ttl[k] = NoTtl /\ faults = 0
        => \E s \in Slots : slot[s].at = "expire" /\ KeyOf(s) = k

\* A counter never lives on: whatever it has reached, it expires and starts again
\* from zero, so that memory stays bounded and no caller is refused for ever.
CountersExpire == \A k \in Keys : count[k] > 0 ~> count[k] = 0
=============================================================================
