-------------------------- MODULE RateLimiterProofs --------------------------
(***************************************************************************)
(* Theorems about RateLimiter for any number of clients, users and         *)
(* addresses, any limits and windows, and any number of failures.          *)
(***************************************************************************)
EXTENDS RateLimiter, FiniteSetTheorems, TLAPS

\* A request in flight names counters that exist.
SlotsNameKeys ==
    /\ slot \in [Slots -> Slot]
    /\ \A s \in Slots : slot[s].at # "idle" => slot[s].ip \in Ips /\ slot[s].user \in Users

\* WindowBound is not inductive alone: INCR compares the counter, so what it lets
\* through stays within the limit because the counter has counted every request
\* that passed, but for one of each failure.
LimiterInv ==
    /\ SlotsNameKeys
    /\ count \in [Keys -> Nat]
    /\ passed \in [Keys -> Nat]
    /\ faults \in Nat
    /\ \A k \in Keys : passed[k] <= count[k] + faults
    /\ WindowBound

\* A counter's expiry is a number of ticks or none.
ExpiryInv ==
    /\ LimiterInv
    /\ ttl \in [Keys -> (Nat \ {0}) \cup {NoTtl}]
    /\ NoImmortalCounter

\* The request of a client has still to increment a counter.
Owes(s, k) ==
    /\ slot[s].at # "idle"
    /\ \/ k = slot[s].ip /\ slot[s].level = "ip" /\ slot[s].at = "incr"
       \/ k = slot[s].user /\ \/ slot[s].level = "ip"
                              \/ slot[s].level = "user" /\ slot[s].at = "incr"
       \/ k = Tenant /\ (slot[s].level = "tenant" => slot[s].at = "incr")

Owing(k) == {s \in Slots : Owes(s, k)}

\* What is in flight when a client begins leaves room for what it will increment.
RoomIsLeft == \A k \in Keys : count[k] + Cardinality(Owing(k)) <= MaxCount

TypeInv == SlotsNameKeys /\ TypeOK /\ RoomIsLeft

\* The requests of a user that have passed his check and are to be charged to the
\* tenant, and those among them that did so since the latest tick or still owe his
\* counter its expiry.
Pending(u) ==
    {s \in Slots :
        /\ slot[s].user = u
        /\ \/ slot[s].level = "user" /\ slot[s].at = "expire"
           \/ slot[s].level = "tenant" /\ slot[s].at = "incr"}

Fresh(u) == {s \in Pending(u) : slot[s].at = "expire" \/ ~slot[s].waited}

\* A counter without an expiry has one client at most that is about to set it.
OneCreator ==
    \A s \in Slots :
        slot[s].at = "expire" =>
            /\ count[KeyOf(s)] > 0 /\ ttl[KeyOf(s)] = NoTtl
            /\ \A r \in Slots : slot[r].at = "expire" /\ KeyOf(r) = KeyOf(s) => r = s

\* A counter exists because a request has passed it; only then has it an expiry, and
\* only then is anything charged to it.
CountersBegin ==
    /\ \A k \in Keys : /\ count[k] > 0 => passed[k] > 0
                       /\ ttl[k] # NoTtl => count[k] > 0
    /\ count[Tenant] = 0 => \A u \in Users : charged[u] = 0

\* What is fresh belongs to the user's window of now; when that has run for two
\* ticks the request that opened it is through.  So no more than Limit - 1 requests
\* of earlier windows are ever pending.
PendingIsBounded ==
    \A u \in Users :
        /\ Cardinality(Fresh(u)) <= passed[u]
        /\ ttl[u] \in 1..(Window - 2) => Cardinality(Fresh(u)) < passed[u]
        /\ Cardinality(Pending(u)) < passed[u] + Limit[u]

\* Ticks until the tenant's counter is gone at the latest, and until the user's
\* window, or one that begins now, is over at the earliest.
TenantLeft ==
    IF ttl[Tenant] # NoTtl THEN ttl[Tenant]
    ELSE IF \E s \in Slots : slot[s].at = "expire" /\ slot[s].level = "tenant" /\ ~slot[s].waited
         THEN Window + 1 ELSE Window

UserLeft(u) == IF ttl[u] # NoTtl THEN ttl[u] ELSE Window

NextWindow(u) == IF TenantLeft > UserLeft(u) THEN Limit[u] ELSE 0

\* What has been charged to the tenant's window, what is on its way and what the
\* user may still pass in the tenant's window (the rest of his window and, if the
\* tenant's outlasts it, the next) is less than three windows' worth.
ShareIsLeft ==
    count[Tenant] > 0 =>
        \A u \in Users :
            charged[u] + Cardinality(Pending(u)) + NextWindow(u) < passed[u] + 2 * Limit[u]

\* All of this is so until the first failure: after it a counter may exist that
\* nobody is about to set the expiry of, or that no request has passed.
ShareInv ==
    /\ ExpiryInv /\ TypeInv
    /\ faults = 0 => OneCreator /\ CountersBegin /\ PendingIsBounded /\ ShareIsLeft

-----------------------------------------------------------------------------
\* The counter of a request in flight is one of the limiter's counters.
LEMMA KeyIsCounter ==
    ASSUME SlotsNameKeys, NEW s \in Slots, slot[s].at # "idle"
    PROVE  KeyOf(s) \in Keys
BY DEF SlotsNameKeys, Slot, Levels, KeyOf, Keys

\* Moving on to the next check keeps the request well formed.
LEMMA NextCheckKeeps ==
    ASSUME SlotsNameKeys, NEW s \in Slots, slot[s].at # "idle",
           slot' = [slot EXCEPT ![s] = NextCheck(s)]
    PROVE  SlotsNameKeys'
BY DEF SlotsNameKeys, NextCheck, Slot, Levels, Idle

\* The requests of the clients stay well formed in every step.
LEMMA StepKeepsSlots == SlotsNameKeys /\ [Next]_vars => SlotsNameKeys'
<1> SUFFICES ASSUME SlotsNameKeys, [Next]_vars PROVE SlotsNameKeys'
  OBVIOUS
<1>1. CASE Tick
  BY <1>1 DEF Tick, SlotsNameKeys, Slot, Pressing
<1>2. ASSUME NEW s \in Slots, Send(s) PROVE SlotsNameKeys'
  BY <1>2 DEF Send, SlotsNameKeys, Slot, Levels
<1>3. ASSUME NEW s \in Slots, Incr(s) PROVE SlotsNameKeys'
  <2>1. slot[s].at = "incr"
    BY <1>3 DEF Incr
  <2>2. CASE slot' = [slot EXCEPT ![s].at = "ttl", ![s].waited = FALSE]
    BY <2>1, <2>2 DEF SlotsNameKeys, Slot
  <2>3. CASE slot' = [slot EXCEPT ![s] = [@ EXCEPT !.at = "expire", !.waited = FALSE]]
    BY <2>1, <2>3 DEF SlotsNameKeys, Slot
  <2>4. CASE slot' = [slot EXCEPT ![s] = NextCheck(s)]
    BY <2>1, <2>4, NextCheckKeeps
  <2>5. QED
    BY <1>3, <2>2, <2>3, <2>4 DEF Incr
<1>4. ASSUME NEW s \in Slots, Expire(s) PROVE SlotsNameKeys'
  BY <1>4, NextCheckKeeps DEF Expire
<1>5. ASSUME NEW s \in Slots, Refuse(s) PROVE SlotsNameKeys'
  BY <1>5 DEF Refuse, SlotsNameKeys, Slot, Idle, Levels
<1>6. ASSUME NEW s \in Slots, RedisError(s) \/ Killed(s) PROVE SlotsNameKeys'
  <2>1. slot[s].at # "idle"
    BY <1>6 DEF RedisError, Killed, ReplyMissing
  <2>2. CASE slot' = [slot EXCEPT ![s] = Idle]
    BY <2>2 DEF SlotsNameKeys, Slot, Idle, Levels
  <2>3. CASE slot' = [slot EXCEPT ![s] = [slot[s] EXCEPT !.at = "incr", !.level = "user",
                                                       !.waited = FALSE]]
    BY <2>1, <2>3 DEF SlotsNameKeys, Slot, Levels
  <2>4. QED
    BY <1>6, <2>2, <2>3 DEF RedisError, Killed
<1>7. CASE UNCHANGED vars
  BY <1>7 DEF vars, SlotsNameKeys
<1>8. QED
  BY <1>1, <1>2, <1>3, <1>4, <1>5, <1>6, <1>7 DEF Next, Check

\* Every step keeps the invariant; only INCR and expiry touch the counters.
LEMMA StepKeepsLimiterInv == LimiterInv /\ [Next]_vars => LimiterInv'
<1> SUFFICES ASSUME LimiterInv, [Next]_vars PROVE LimiterInv'
  OBVIOUS
<1> USE LimitAssumption DEF LimiterInv, WindowBound
<1>t. SlotsNameKeys'
  BY StepKeepsSlots
<1>1. CASE Tick
  BY <1>t, <1>1 DEF Tick
<1>2. ASSUME NEW s \in Slots, Incr(s) PROVE LimiterInv'
  <2> DEFINE k == KeyOf(s)
  <2>1. k \in Keys
    BY <1>2, KeyIsCounter DEF Incr
  <2> HIDE DEF k
  <2>2. count' = [count EXCEPT ![k] = count[k] + 1] /\ faults' = faults
    BY <1>2 DEF Incr, ExecuteIncr, k
  <2>3. \/ UNCHANGED passed
        \/ count[k] + 1 <= Limit[k] /\ passed' = [passed EXCEPT ![k] = @ + 1]
    BY <1>2 DEF Incr, k
  <2>4. QED
    BY <1>t, <2>1, <2>2, <2>3
<1>3. ASSUME NEW s \in Slots, RedisError(s) \/ Killed(s) PROVE LimiterInv'
  <2> DEFINE k == KeyOf(s)
  <2>1. slot[s].at = "incr" => k \in Keys
    BY KeyIsCounter
  <2> HIDE DEF k
  <2>2. /\ faults' = faults + 1
        /\ count' = count \/ (slot[s].at = "incr" /\ count' = [count EXCEPT ![k] = count[k] + 1])
    BY <1>3 DEF RedisError, Killed, ReplyMissing, ExecuteIncr, ExecuteExpire, Redis, k
  <2>3. count' \in [Keys -> Nat] /\ \A j \in Keys : count'[j] >= count[j]
    BY <2>1, <2>2
  <2>4. passed' \in [Keys -> Nat] /\ \A j \in Keys : passed'[j] <= passed[j] + 1
    BY <1>3 DEF RedisError, Killed
  <2>5. QED
    BY <1>t, <2>2, <2>3, <2>4
<1>4. CASE UNCHANGED <<count, passed, faults>>
  BY <1>t, <1>4
<1>5. QED
  BY <1>1, <1>2, <1>3, <1>4
  DEF Next, Check, Send, Expire, ExecuteExpire, Refuse, Redis, vars

\* In the lifetime of a counter no more than its limit of requests pass its check and
\* one for each failure of Redis, however the round trips of the requests interleave:
\* an error lets its own request through and no other.
THEOREM LimitsHold == Spec => []WindowBound
<1>1. Init => LimiterInv
  BY LimitAssumption
  DEF Init, LimiterInv, SlotsNameKeys, WindowBound, Slot, Idle, Levels
<1>2. LimiterInv => WindowBound
  BY DEF LimiterInv
<1>3. QED
  BY <1>1, <1>2, StepKeepsLimiterInv, PTL DEF Spec

-----------------------------------------------------------------------------
\* A step that leaves a request's stage alone leaves the counter it uses alone.
LEMMA KeyOfStays ==
    ASSUME NEW s \in Slots, slot'[s].level = slot[s].level, slot'[s].ip = slot[s].ip,
           slot'[s].user = slot[s].user
    PROVE  KeyOf(s)' = KeyOf(s)
BY DEF KeyOf

\* Every step keeps the invariant: the request that makes a counter stays at its
\* EXPIRE until it has set the expiry, and only an error takes it away from there.
LEMMA StepKeepsExpiryInv == ExpiryInv /\ [Next]_vars => ExpiryInv'
<1> SUFFICES ASSUME ExpiryInv, [Next]_vars PROVE ExpiryInv'
  OBVIOUS
<1> USE LimitAssumption, WindowAssumption
<1>t. LimiterInv'
  BY StepKeepsLimiterInv DEF ExpiryInv
<1>s. slot \in [Slots -> Slot] /\ count \in [Keys -> Nat]
  BY DEF ExpiryInv, LimiterInv, SlotsNameKeys
<1>1. CASE Tick
  <2>1. /\ ttl' \in [Keys -> (Nat \ {0}) \cup {NoTtl}]
        /\ \A k \in Keys : count'[k] > 0 /\ ttl'[k] = NoTtl =>
               count[k] > 0 /\ ttl[k] = NoTtl
    BY <1>1, <1>s DEF Tick, Expiring, ExpiryInv
  <2>2. \A s \in Slots : /\ slot'[s].at = slot[s].at /\ slot'[s].level = slot[s].level
                         /\ slot'[s].ip = slot[s].ip /\ slot'[s].user = slot[s].user
    BY <1>1, <1>s DEF Tick, Slot
  <2>3. \A s \in Slots : KeyOf(s)' = KeyOf(s)
    BY <2>2, KeyOfStays
  <2>4. faults' = faults
    BY <1>1 DEF Tick
  <2>5. NoImmortalCounter'
    BY <2>1, <2>2, <2>3, <2>4 DEF ExpiryInv, NoImmortalCounter
  <2>6. QED
    BY <1>t, <2>1, <2>5 DEF ExpiryInv
<1>2. ASSUME NEW r \in Slots, Incr(r) PROVE ExpiryInv'
  <2> DEFINE c == KeyOf(r)
  <2>1. c \in Keys /\ slot[r].at = "incr"
    BY <1>2, KeyIsCounter DEF Incr, ExpiryInv, LimiterInv
  <2>2. \A s \in Slots \ {r} : slot'[s] = slot[s]
    BY <1>2, <1>s DEF Incr
  <2>3. \A s \in Slots \ {r} : KeyOf(s)' = KeyOf(s)
    BY <2>2, KeyOfStays
  <2>4. count[c] = 0 => slot'[r].at = "expire" /\ KeyOf(r)' = c
    <3> SUFFICES ASSUME count[c] = 0 PROVE slot'[r].at = "expire" /\ KeyOf(r)' = c
      OBVIOUS
    <3>1. slot' = [slot EXCEPT ![r] = [@ EXCEPT !.at = "expire", !.waited = FALSE]]
      BY <1>2, <2>1 DEF Incr
    <3>2. /\ slot'[r].at = "expire" /\ slot'[r].level = slot[r].level
          /\ slot'[r].ip = slot[r].ip /\ slot'[r].user = slot[r].user
      BY <3>1, <1>s DEF Slot
    <3>3. QED
      BY <3>2, KeyOfStays
  <2>5. count' = [count EXCEPT ![c] = count[c] + 1] /\ ttl' = ttl /\ faults' = faults
    BY <1>2 DEF Incr, ExecuteIncr
  <2> HIDE DEF c
  <2>6. NoImmortalCounter'
    <3> SUFFICES ASSUME NEW k \in Keys, count'[k] > 0, ttl'[k] = NoTtl, faults' = 0
                 PROVE  \E s \in Slots : slot'[s].at = "expire" /\ KeyOf(s)' = k
      BY DEF NoImmortalCounter, KeyOf
    <3>1. CASE k = c /\ count[c] = 0
      BY <3>1, <2>4
    <3>2. CASE ~(k = c /\ count[c] = 0)
      <4>1. count[k] > 0 /\ ttl[k] = NoTtl /\ faults = 0
        BY <3>2, <2>1, <2>5, <1>s
      <4>2. PICK s \in Slots : slot[s].at = "expire" /\ KeyOf(s) = k
        BY <4>1 DEF ExpiryInv, NoImmortalCounter
      <4>3. QED
        BY <4>2, <2>1, <2>2, <2>3
    <3>3. QED
      BY <3>1, <3>2
  <2>7. QED
    BY <1>t, <2>5, <2>6 DEF ExpiryInv
<1>3. ASSUME NEW r \in Slots, Expire(r) PROVE ExpiryInv'
  <2>1. KeyOf(r) \in Keys /\ count' = count /\ faults' = faults
    BY <1>3, KeyIsCounter DEF Expire, ExecuteExpire, ExpiryInv, LimiterInv
  <2>2. ttl' = IF count[KeyOf(r)] > 0 THEN [ttl EXCEPT ![KeyOf(r)] = Window] ELSE ttl
    BY <1>3 DEF Expire, ExecuteExpire
  <2>3. \A s \in Slots \ {r} : slot'[s] = slot[s]
    BY <1>3, <1>s DEF Expire
  <2>4. \A s \in Slots \ {r} : KeyOf(s)' = KeyOf(s)
    BY <2>3, KeyOfStays
  <2>5. NoImmortalCounter'
    <3> SUFFICES ASSUME NEW k \in Keys, count'[k] > 0, ttl'[k] = NoTtl, faults' = 0
                 PROVE  \E s \in Slots : slot'[s].at = "expire" /\ KeyOf(s)' = k
      BY DEF NoImmortalCounter, KeyOf
    <3>1. k # KeyOf(r) /\ count[k] > 0 /\ ttl[k] = NoTtl /\ faults = 0
      BY <2>1, <2>2 DEF ExpiryInv
    <3>2. PICK s \in Slots : slot[s].at = "expire" /\ KeyOf(s) = k
      BY <3>1 DEF ExpiryInv, NoImmortalCounter
    <3>3. QED
      BY <3>1, <3>2, <2>3, <2>4
  <2>6. QED
    BY <1>t, <2>1, <2>2, <2>5 DEF ExpiryInv
<1>4. ASSUME NEW r \in Slots, Send(r) \/ Refuse(r) PROVE ExpiryInv'
  <2>1. count' = count /\ ttl' = ttl /\ faults' = faults /\ slot[r].at # "expire"
    BY <1>4 DEF Send, Refuse, Redis
  <2>2. \A s \in Slots \ {r} : slot'[s] = slot[s]
    BY <1>4, <1>s DEF Send, Refuse
  <2>3. \A s \in Slots \ {r} : KeyOf(s)' = KeyOf(s)
    BY <2>2, KeyOfStays
  <2>4. NoImmortalCounter'
    BY <2>1, <2>2, <2>3 DEF ExpiryInv, NoImmortalCounter
  <2>5. QED
    BY <1>t, <2>1, <2>4 DEF ExpiryInv
<1>5. ASSUME NEW r \in Slots, RedisError(r) \/ Killed(r) PROVE ExpiryInv'
  <2>1. /\ faults' = faults + 1 /\ faults \in Nat
        /\ ttl' = ttl \/ ttl' = [ttl EXCEPT ![KeyOf(r)] = Window]
    BY <1>5 DEF RedisError, Killed, ReplyMissing, ExecuteIncr, ExecuteExpire, Redis,
               ExpiryInv, LimiterInv
  <2>2. ttl' \in [Keys -> (Nat \ {0}) \cup {NoTtl}]
    BY <2>1 DEF ExpiryInv
  <2>3. NoImmortalCounter'
    BY <2>1 DEF NoImmortalCounter
  <2>4. QED
    BY <1>t, <2>2, <2>3 DEF ExpiryInv
<1>6. CASE UNCHANGED vars
  BY <1>t, <1>6 DEF vars, ExpiryInv, NoImmortalCounter, KeyOf
<1>7. QED
  BY <1>1, <1>2, <1>3, <1>4, <1>5, <1>6 DEF Next, Check

\* Until Redis fails or a worker is killed, no counter is left behind without an expiry, however the
\* INCRs and EXPIREs of the requests interleave.
THEOREM CountersGetTheirExpiry == Spec => []NoImmortalCounter
<1>1. Init => ExpiryInv
  BY LimitAssumption
  DEF Init, ExpiryInv, LimiterInv, SlotsNameKeys, WindowBound, NoImmortalCounter, Slot,
      Idle, Levels
<1>2. ExpiryInv => NoImmortalCounter
  BY DEF ExpiryInv
<1>3. QED
  BY <1>1, <1>2, StepKeepsExpiryInv, PTL DEF Spec

-----------------------------------------------------------------------------
(* Sets of clients *)

\* A set of clients has a size, one with fewer clients is smaller, and one client
\* makes a difference of one.
LEMMA ClientsAreCounted ==
    ASSUME NEW S \in SUBSET Slots, NEW T \in SUBSET Slots
    PROVE  /\ Cardinality(S) \in Nat /\ Cardinality(T) \in Nat
           /\ T \subseteq S => Cardinality(T) <= Cardinality(S)
           /\ \A s \in Slots :
                 /\ T \subseteq S \cup {s} => Cardinality(T) <= Cardinality(S) + 1
                 /\ s \in S /\ T \subseteq S \ {s} => Cardinality(T) < Cardinality(S)
<1> USE LimiterBounds
<1>1. IsFiniteSet(S) /\ IsFiniteSet(T)
  BY FS_Subset
<1>2. Cardinality(S) \in Nat /\ Cardinality(T) \in Nat
  BY <1>1, FS_CardinalityType
<1>3. T \subseteq S => Cardinality(T) <= Cardinality(S)
  BY <1>1, FS_Subset
<1>4. ASSUME NEW s \in Slots, T \subseteq S \cup {s}
      PROVE  Cardinality(T) <= Cardinality(S) + 1
  <2>1. /\ IsFiniteSet(S \cup {s})
        /\ Cardinality(S \cup {s}) \in {Cardinality(S), Cardinality(S) + 1}
    BY <1>1, FS_AddElement
  <2>2. Cardinality(T) <= Cardinality(S \cup {s})
    BY <1>4, <2>1, FS_Subset
  <2>3. QED
    BY <1>2, <2>1, <2>2
<1>5. ASSUME NEW s \in S, T \subseteq S \ {s}
      PROVE  Cardinality(T) < Cardinality(S)
  <2>1. IsFiniteSet(S \ {s}) /\ Cardinality(S \ {s}) = Cardinality(S) - 1
    BY <1>1, FS_RemoveElement
  <2>2. Cardinality(T) <= Cardinality(S \ {s})
    BY <1>5, <2>1, FS_Subset
  <2>3. QED
    BY <1>2, <2>1, <2>2
<1>6. QED
  BY <1>2, <1>3, <1>4, <1>5

-----------------------------------------------------------------------------
(* What a check does to its request *)

\* The request of a client keeps its place, its address and its user.
Stays(s) ==
    /\ slot'[s].level = slot[s].level /\ slot'[s].ip = slot[s].ip
    /\ slot'[s].user = slot[s].user

\* The request is past a check: at the next one, or gone after the last.
MovesOn(s) ==
    /\ ~slot'[s].waited
    /\ \/ /\ slot[s].level = "tenant"
          /\ slot'[s].at = "idle" /\ slot'[s].user = None
       \/ /\ slot[s].level # "tenant"
          /\ slot'[s].at = "incr" /\ slot'[s].ip = slot[s].ip /\ slot'[s].user = slot[s].user
          /\ slot'[s].level = IF slot[s].level = "ip" THEN "user" ELSE "tenant"

OthersStay(s) == \A r \in Slots \ {s} : slot'[r] = slot[r]

\* The next check of a request that has passed one.
LEMMA NextCheckMovesOn ==
    ASSUME SlotsNameKeys, NEW s \in Slots, slot' = [slot EXCEPT ![s] = NextCheck(s)]
    PROVE  MovesOn(s) /\ OthersStay(s)
BY DEF SlotsNameKeys, NextCheck, Slot, Levels, Idle, MovesOn, OthersStay

\* An INCR counts its request, which it refuses, sends to set the expiry of a new
\* counter, or lets through.
LEMMA WhatIncrDoes ==
    ASSUME LimiterInv, NEW s \in Slots, Incr(s)
    PROVE  /\ KeyOf(s) \in Keys /\ slot[s].at = "incr" /\ OthersStay(s) /\ ~slot'[s].waited
           /\ count' = [count EXCEPT ![KeyOf(s)] = count[KeyOf(s)] + 1]
           /\ UNCHANGED <<ttl, faults>>
           /\ charged' = IF KeyOf(s) = Tenant
                         THEN [charged EXCEPT ![slot[s].user] = @ + 1] ELSE charged
           /\ \/ /\ count[KeyOf(s)] > 0 /\ passed' = passed
                 /\ Stays(s) /\ slot'[s].at = "ttl"
              \/ /\ count[KeyOf(s)] = 0
                 /\ passed' = [passed EXCEPT ![KeyOf(s)] = passed[KeyOf(s)] + 1]
                 /\ Stays(s) /\ slot'[s].at = "expire"
              \/ /\ count[KeyOf(s)] > 0
                 /\ passed' = [passed EXCEPT ![KeyOf(s)] = passed[KeyOf(s)] + 1]
                 /\ MovesOn(s)
<1> USE LimitAssumption
<1>1. /\ KeyOf(s) \in Keys /\ slot[s].at = "incr" /\ slot \in [Slots -> Slot]
      /\ count[KeyOf(s)] \in Nat /\ Limit[KeyOf(s)] \in Nat \ {0} /\ SlotsNameKeys
  BY KeyIsCounter DEF Incr, LimiterInv, SlotsNameKeys
<1>2. /\ count' = [count EXCEPT ![KeyOf(s)] = count[KeyOf(s)] + 1]
      /\ UNCHANGED <<ttl, faults>>
      /\ charged' = IF KeyOf(s) = Tenant
                    THEN [charged EXCEPT ![slot[s].user] = @ + 1] ELSE charged
  BY DEF Incr, ExecuteIncr
<1>3. CASE /\ count[KeyOf(s)] + 1 > Limit[KeyOf(s)] /\ UNCHANGED passed
           /\ slot' = [slot EXCEPT ![s].at = "ttl", ![s].waited = FALSE]
  <2>1. Stays(s) /\ slot'[s].at = "ttl" /\ ~slot'[s].waited /\ OthersStay(s)
    BY <1>1, <1>3 DEF Slot, Stays, OthersStay
  <2>2. count[KeyOf(s)] > 0
    BY <1>1, <1>3
  <2>3. QED
    BY <1>1, <1>2, <1>3, <2>1, <2>2
<1>4. CASE /\ count[KeyOf(s)] + 1 = 1
           /\ passed' = [passed EXCEPT ![KeyOf(s)] = @ + 1]
           /\ slot' = [slot EXCEPT ![s] = [@ EXCEPT !.at = "expire", !.waited = FALSE]]
  <2>1. Stays(s) /\ slot'[s].at = "expire" /\ ~slot'[s].waited /\ OthersStay(s)
    BY <1>1, <1>4 DEF Slot, Stays, OthersStay
  <2>2. count[KeyOf(s)] = 0
    BY <1>1, <1>4
  <2>3. QED
    BY <1>1, <1>2, <1>4, <2>1, <2>2
<1>5. CASE /\ count[KeyOf(s)] + 1 # 1
           /\ passed' = [passed EXCEPT ![KeyOf(s)] = @ + 1]
           /\ slot' = [slot EXCEPT ![s] = NextCheck(s)]
  <2>1. MovesOn(s) /\ OthersStay(s)
    BY <1>1, <1>5, NextCheckMovesOn
  <2>2. count[KeyOf(s)] > 0
    BY <1>1, <1>5
  <2>3. ~slot'[s].waited
    BY <2>1 DEF MovesOn
  <2>4. QED
    BY <1>1, <1>2, <1>5, <2>1, <2>2, <2>3
<1>6. QED
  BY <1>3, <1>4, <1>5 DEF Incr

\* No request but a new one comes to owe a counter anything, and an INCR has paid
\* for its own.
LEMMA RequestsPay ==
    ASSUME SlotsNameKeys, NEW s \in Slots, slot[s].at # "idle",
           OthersStay(s), NEW k \in Keys
    PROVE  /\ Stays(s) /\ slot[s].at = "incr" /\ slot'[s].at \in {"expire", "ttl"}
                 => Owing(k)' \subseteq Owing(k)
                    /\ (k = KeyOf(s) => s \in Owing(k) /\ Owing(k)' \subseteq Owing(k) \ {s})
           /\ MovesOn(s)
                 => Owing(k)' \subseteq Owing(k)
                    /\ (k = KeyOf(s) /\ slot[s].at = "incr"
                           => s \in Owing(k) /\ Owing(k)' \subseteq Owing(k) \ {s})
           /\ slot'[s].at = "idle"
                 => Owing(k)' \subseteq Owing(k)
                    /\ (k = KeyOf(s) /\ slot[s].at = "incr"
                           => s \in Owing(k) /\ Owing(k)' \subseteq Owing(k) \ {s})
<1> USE KeysApart
<1>1. /\ slot[s].ip \in Ips /\ slot[s].user \in Users /\ slot[s].level \in Levels
      /\ slot[s].at \in {"incr", "expire", "ttl"}
  BY DEF SlotsNameKeys, Slot
<1>2. \A r \in Slots \ {s} : Owes(r, k)' <=> Owes(r, k)
  BY DEF OthersStay, Owes
<1>3. slot[s].at = "incr" /\ k = KeyOf(s) => Owes(s, k)
  BY <1>1 DEF Owes, KeyOf, Levels
<1>4. ASSUME Stays(s), slot[s].at = "incr", slot'[s].at \in {"expire", "ttl"}
      PROVE  (Owes(s, k)' => Owes(s, k)) /\ (k = KeyOf(s) => ~Owes(s, k)')
  BY <1>1, <1>4 DEF Stays, Owes, KeyOf, Levels
<1>5. ASSUME MovesOn(s)
      PROVE  (Owes(s, k)' => Owes(s, k)) /\ (k = KeyOf(s) => ~Owes(s, k)')
  BY <1>1, <1>5 DEF MovesOn, Owes, KeyOf, Levels
<1>6. slot'[s].at = "idle" => ~Owes(s, k)'
  BY DEF Owes
<1>7. QED
  BY <1>2, <1>3, <1>4, <1>5, <1>6 DEF Owing

-----------------------------------------------------------------------------
(* Types *)

\* A refused request is gone.
LEMMA WhatRefusalsDo ==
    ASSUME SlotsNameKeys, NEW s \in Slots, Refuse(s)
    PROVE  /\ slot[s].at # "idle" /\ OthersStay(s) /\ ~slot'[s].waited
           /\ UNCHANGED <<count, ttl, passed, charged, faults>>
           /\ slot'[s].at = "idle" /\ slot'[s].user = None
BY DEF SlotsNameKeys, Refuse, Redis, Idle, Slot, OthersStay

\* A failure ends its request or, from the IP check, sends it on; its command was
\* executed or not.
LEMMA WhatFailuresDo ==
    ASSUME SlotsNameKeys, NEW s \in Slots, RedisError(s) \/ Killed(s)
    PROVE  /\ slot[s].at # "idle" /\ OthersStay(s) /\ ~slot'[s].waited
           /\ faults' = faults + 1 /\ faults < MaxFaults
           /\ slot'[s].at = "idle" \/ MovesOn(s)
           /\ \/ UNCHANGED <<count, ttl, charged>>
              \/ /\ slot[s].at = "incr"
                 /\ count' = [count EXCEPT ![KeyOf(s)] = count[KeyOf(s)] + 1]
                 /\ charged' = IF KeyOf(s) = Tenant
                               THEN [charged EXCEPT ![slot[s].user] = @ + 1] ELSE charged
                 /\ UNCHANGED ttl
              \/ /\ ttl' \in {[ttl EXCEPT ![KeyOf(s)] = Window], ttl}
                 /\ UNCHANGED <<count, charged>>
<1>1. ReplyMissing(s)
  BY DEF RedisError, Killed
<1>2. \/ UNCHANGED <<count, ttl, charged>>
      \/ /\ slot[s].at = "incr"
         /\ count' = [count EXCEPT ![KeyOf(s)] = count[KeyOf(s)] + 1]
         /\ charged' = IF KeyOf(s) = Tenant
                       THEN [charged EXCEPT ![slot[s].user] = @ + 1] ELSE charged
         /\ UNCHANGED ttl
      \/ /\ ttl' \in {[ttl EXCEPT ![KeyOf(s)] = Window], ttl}
         /\ UNCHANGED <<count, charged>>
  BY <1>1 DEF ReplyMissing, ExecuteIncr, ExecuteExpire, Redis
<1>3. slot[s].at # "idle" /\ faults' = faults + 1 /\ faults < MaxFaults
  BY <1>1 DEF ReplyMissing
<1>4. /\ OthersStay(s) /\ ~slot'[s].waited
      /\ slot'[s].at = "idle" \/ MovesOn(s)
  <2>1. CASE slot' = [slot EXCEPT ![s] = Idle]
    BY <2>1 DEF SlotsNameKeys, Slot, Idle, OthersStay
  <2>2. CASE /\ slot[s].level = "ip"
             /\ slot' = [slot EXCEPT ![s] = [slot[s] EXCEPT !.at = "incr", !.level = "user",
                                                           !.waited = FALSE]]
    BY <2>2 DEF SlotsNameKeys, Slot, OthersStay, MovesOn
  <2>3. QED
    BY <2>1, <2>2 DEF RedisError, Killed
<1>5. QED
  BY <1>2, <1>3, <1>4

\* A step after which nothing has failed is one of a working limiter.
LEMMA CalmSteps ==
    ASSUME LimiterInv, [Next]_vars, faults' = 0
    PROVE  /\ faults = 0
           /\ \/ Tick \/ UNCHANGED vars
              \/ \E s \in Slots : Send(s) \/ Check(s)
<1>1. faults \in Nat /\ SlotsNameKeys
  BY DEF LimiterInv
<1>2. ASSUME NEW s \in Slots, RedisError(s) \/ Killed(s) PROVE FALSE
  BY <1>1, <1>2, WhatFailuresDo
<1>3. Tick \/ UNCHANGED vars \/ \E s \in Slots : Send(s) \/ Check(s)
  BY <1>2 DEF Next
<1>4. faults' = faults
  BY <1>3 DEF Check, Tick, Send, Incr, Expire, Refuse, vars
<1>5. QED
  BY <1>3, <1>4

\* Every step leaves room for the requests in flight.
LEMMA StepLeavesRoom ==
    ASSUME LimiterInv, TypeInv, [Next]_vars
    PROVE  RoomIsLeft'
<1> USE LimiterBounds
<1>1. /\ SlotsNameKeys /\ count \in [Keys -> Nat] /\ slot \in [Slots -> Slot]
      /\ \A k \in Keys : count[k] + Cardinality(Owing(k)) <= MaxCount
  BY DEF LimiterInv, TypeInv, SlotsNameKeys, RoomIsLeft
<1>2. \A k \in Keys : Owing(k) \subseteq Slots /\ Owing(k)' \subseteq Slots
  BY DEF Owing
<1>3. ASSUME NEW k \in Keys, count'[k] \in Nat, count'[k] <= count[k],
             Owing(k)' \subseteq Owing(k)
      PROVE  count'[k] + Cardinality(Owing(k)') <= MaxCount
  <2>1. /\ Cardinality(Owing(k)) \in Nat /\ Cardinality(Owing(k)') \in Nat
        /\ Cardinality(Owing(k)') <= Cardinality(Owing(k))
    BY <1>2, <1>3, ClientsAreCounted
  <2>2. QED
    BY <1>1, <1>3, <2>1
<1>4. CASE Tick
  <2>1. \A k \in Keys : count'[k] \in Nat /\ count'[k] <= count[k]
    BY <1>1, <1>4 DEF Tick
  <2>2. \A s \in Slots : slot'[s].at = slot[s].at /\ slot'[s].level = slot[s].level
                         /\ slot'[s].ip = slot[s].ip /\ slot'[s].user = slot[s].user
    BY <1>1, <1>4 DEF Tick, Slot
  <2>3. \A k \in Keys : Owing(k)' \subseteq Owing(k)
    BY <2>2 DEF Owing, Owes
  <2>4. QED
    BY <1>3, <2>1, <2>3 DEF RoomIsLeft
<1>5. ASSUME NEW s \in Slots, Send(s) PROVE RoomIsLeft'
  <2>1. PICK i \in Ips, u \in Users :
           /\ Room(i) /\ Room(u) /\ Room(Tenant)
           /\ slot' = [slot EXCEPT ![s] = [at |-> "incr", level |-> "ip", ip |-> i,
                                           user |-> u, waited |-> FALSE]]
    BY <1>5 DEF Send
  <2>2. count' = count /\ OthersStay(s) /\ slot'[s].ip = i /\ slot'[s].user = u
    BY <1>1, <1>5, <2>1 DEF Send, Redis, OthersStay
  <2>3. ASSUME NEW k \in Keys PROVE count'[k] + Cardinality(Owing(k)') <= MaxCount
    <3>1. CASE k \in {i, u, Tenant}
      <4>1. InFlight \subseteq Slots /\ Owing(k)' \subseteq InFlight \cup {s}
        BY <2>2 DEF Owing, Owes, InFlight, OthersStay
      <4>2. /\ Cardinality(Owing(k)') <= Cardinality(InFlight) + 1
            /\ Cardinality(InFlight) \in Nat /\ Cardinality(Owing(k)') \in Nat
        BY <1>2, <4>1, ClientsAreCounted
      <4>3. count[k] + Cardinality(InFlight) < MaxCount
        BY <2>1, <3>1 DEF Room
      <4>4. QED
        BY <1>1, <2>2, <4>2, <4>3
    <3>2. CASE k \notin {i, u, Tenant}
      <4>1. Owing(k)' \subseteq Owing(k)
        BY <2>2, <3>2 DEF Owing, Owes, OthersStay
      <4>2. QED
        BY <1>1, <1>3, <2>2, <4>1
    <3>3. QED
      BY <3>1, <3>2
  <2>4. QED
    BY <2>3 DEF RoomIsLeft
<1>6. ASSUME NEW s \in Slots, slot[s].at = "incr", OthersStay(s),
             count' = [count EXCEPT ![KeyOf(s)] = count[KeyOf(s)] + 1],
             \/ Stays(s) /\ slot'[s].at \in {"expire", "ttl"}
             \/ MovesOn(s)
             \/ slot'[s].at = "idle"
      PROVE  RoomIsLeft'
  <2> DEFINE c == KeyOf(s)
  <2>1. /\ c \in Keys /\ count' = [count EXCEPT ![c] = count[c] + 1]
    BY <1>1, <1>6, KeyIsCounter
  <2>2. \A k \in Keys :
           /\ Owing(k)' \subseteq Owing(k)
           /\ k = c => s \in Owing(k) /\ Owing(k)' \subseteq Owing(k) \ {s}
    BY <1>1, <1>6, RequestsPay
  <2> HIDE DEF c
  <2>3. ASSUME NEW k \in Keys PROVE count'[k] + Cardinality(Owing(k)') <= MaxCount
    <3>1. CASE k = c
      <4>1. /\ Cardinality(Owing(k)') < Cardinality(Owing(k))
            /\ Cardinality(Owing(k)) \in Nat /\ Cardinality(Owing(k)') \in Nat
        BY <1>2, <2>2, <3>1, ClientsAreCounted
      <4>2. count'[k] = count[k] + 1
        BY <1>1, <2>1, <3>1
      <4>3. QED
        BY <1>1, <4>1, <4>2
    <3>2. CASE k # c
      BY <1>1, <1>3, <2>1, <2>2, <3>2
    <3>3. QED
      BY <3>1, <3>2
  <2>4. QED
    BY <2>3 DEF RoomIsLeft
<1>7. ASSUME NEW s \in Slots, slot[s].at # "idle", OthersStay(s), count' = count,
             slot'[s].at = "idle" \/ MovesOn(s)
      PROVE  RoomIsLeft'
  <2>1. \A k \in Keys : Owing(k)' \subseteq Owing(k)
    BY <1>1, <1>7, RequestsPay
  <2>2. QED
    BY <1>1, <1>3, <1>7, <2>1 DEF RoomIsLeft
<1>8. ASSUME NEW s \in Slots, Incr(s) PROVE RoomIsLeft'
  BY <1>6, <1>8, WhatIncrDoes
<1>9. ASSUME NEW s \in Slots, Expire(s) PROVE RoomIsLeft'
  BY <1>1, <1>7, <1>9, NextCheckMovesOn DEF Expire, ExecuteExpire
<1>10. ASSUME NEW s \in Slots, Refuse(s) PROVE RoomIsLeft'
  BY <1>1, <1>7, <1>10, WhatRefusalsDo
<1>11. ASSUME NEW s \in Slots, RedisError(s) \/ Killed(s) PROVE RoomIsLeft'
  BY <1>1, <1>6, <1>7, <1>11, WhatFailuresDo
<1>12. CASE UNCHANGED vars
  BY <1>12 DEF TypeInv, vars, RoomIsLeft, Owing, Owes
<1>13. QED
  BY <1>4, <1>5, <1>8, <1>9, <1>10, <1>11, <1>12 DEF Next, Check

\* Every step keeps the types.
LEMMA StepKeepsTypeInv ==
    ASSUME LimiterInv, TypeInv, [Next]_vars
    PROVE  TypeInv'
<1> USE LimiterBounds, WindowAssumption
<1>1. LimiterInv' /\ RoomIsLeft'
  BY StepKeepsLimiterInv, StepLeavesRoom
<1>2. SlotsNameKeys' /\ count' \in [Keys -> Nat] /\ passed' \in [Keys -> Nat]
      /\ slot' \in [Slots -> Slot]
  BY <1>1 DEF LimiterInv, SlotsNameKeys
<1>3. count' \in [Keys -> 0..MaxCount]
  <2>1. ASSUME NEW k \in Keys PROVE count'[k] \in 0..MaxCount
    <3>1. Cardinality(Owing(k)') \in Nat
      BY ClientsAreCounted DEF Owing
    <3>2. QED
      BY <1>1, <1>2, <3>1 DEF RoomIsLeft
  <2>2. QED
    BY <1>2, <2>1
<1>4. /\ ttl \in [Keys -> (1..Window) \cup {NoTtl}] /\ slot \in [Slots -> Slot]
      /\ charged \in [Users -> Nat] /\ faults \in 0..MaxFaults /\ SlotsNameKeys
      /\ \A s \in Slots : slot[s].waited => Pressing(s)
  BY DEF TypeInv, TypeOK
<1>5. /\ ttl' \in [Keys -> (1..Window) \cup {NoTtl}]
      /\ charged' \in [Users -> Nat] /\ faults' \in 0..MaxFaults
      /\ \A s \in Slots : slot'[s].waited => Pressing(s)'
  <2>1. CASE Tick
    <3>1. ttl' \in [Keys -> (1..Window) \cup {NoTtl}]
      BY <1>4, <2>1 DEF Tick, Expiring
    <3>2. charged' \in [Users -> Nat] /\ faults' = faults
      BY <1>4, <2>1 DEF Tick
    <3>3. \A s \in Slots : /\ slot'[s].at = slot[s].at /\ slot'[s].level = slot[s].level
                           /\ slot'[s].waited = Pressing(s)
      BY <1>4, <2>1 DEF Tick, Slot
    <3>4. \A s \in Slots : slot'[s].waited => Pressing(s)'
      BY <3>3 DEF Pressing
    <3>5. QED
      BY <1>4, <3>1, <3>2, <3>4
  <2>2. ASSUME NEW s \in Slots, OthersStay(s), ~slot'[s].waited
        PROVE  \A r \in Slots : slot'[r].waited => Pressing(r)'
    BY <1>4, <2>2 DEF OthersStay, Pressing
  <2>3. ASSUME NEW s \in Slots, Send(s)
        PROVE  UNCHANGED <<ttl, charged, faults>> /\ OthersStay(s) /\ ~slot'[s].waited
    BY <1>4, <2>3 DEF Send, Redis, OthersStay
  <2>w. ASSUME NEW s \in Slots, ttl' \in {[ttl EXCEPT ![KeyOf(s)] = Window], ttl}
        PROVE  ttl' \in [Keys -> (1..Window) \cup {NoTtl}]
    <3>1. Window \in 1..Window
      OBVIOUS
    <3>2. QED
      BY <1>4, <2>w, <3>1
  <2>u. ASSUME NEW s \in Slots, slot[s].at = "incr",
               charged' = IF KeyOf(s) = Tenant
                          THEN [charged EXCEPT ![slot[s].user] = @ + 1] ELSE charged
        PROVE  charged' \in [Users -> Nat]
    <3>1. slot[s].user \in Users
      BY <1>4, <2>u DEF SlotsNameKeys
    <3>2. QED
      BY <1>4, <2>u, <3>1
  <2>4. ASSUME NEW s \in Slots, Incr(s)
        PROVE  /\ UNCHANGED <<ttl, faults>> /\ charged' \in [Users -> Nat]
               /\ OthersStay(s) /\ ~slot'[s].waited
    BY <2>4, <2>u, WhatIncrDoes
  <2>5. ASSUME NEW s \in Slots, Expire(s)
        PROVE  /\ ttl' \in [Keys -> (1..Window) \cup {NoTtl}] /\ UNCHANGED <<charged, faults>>
               /\ OthersStay(s) /\ ~slot'[s].waited
    <3>1. OthersStay(s) /\ ~slot'[s].waited
      BY <1>4, <2>5, NextCheckMovesOn DEF Expire, MovesOn
    <3>2. ttl' \in {[ttl EXCEPT ![KeyOf(s)] = Window], ttl} /\ UNCHANGED <<charged, faults>>
      BY <2>5 DEF Expire, ExecuteExpire
    <3>3. QED
      BY <2>w, <3>1, <3>2
  <2>6. ASSUME NEW s \in Slots, Refuse(s)
        PROVE  /\ UNCHANGED <<ttl, charged, faults>>
               /\ OthersStay(s) /\ ~slot'[s].waited
    BY <1>4, <2>6, WhatRefusalsDo
  <2>7. ASSUME NEW s \in Slots, RedisError(s) \/ Killed(s)
        PROVE  /\ ttl' \in [Keys -> (1..Window) \cup {NoTtl}]
               /\ charged' \in [Users -> Nat] /\ faults' \in 0..MaxFaults
               /\ OthersStay(s) /\ ~slot'[s].waited
    <3>1. /\ OthersStay(s) /\ ~slot'[s].waited /\ faults' = faults + 1 /\ faults < MaxFaults
      BY <1>4, <2>7, WhatFailuresDo
    <3>2. charged' \in [Users -> Nat]
      BY <1>4, <2>7, <2>u, WhatFailuresDo
    <3>3. ttl' \in [Keys -> (1..Window) \cup {NoTtl}]
      BY <1>4, <2>7, <2>w, WhatFailuresDo
    <3>4. QED
      BY <1>4, <3>1, <3>2, <3>3
  <2>8. CASE UNCHANGED vars
    BY <1>4, <2>8 DEF vars, Pressing
  <2>9. QED
    BY <1>4, <2>1, <2>2, <2>3, <2>4, <2>5, <2>6, <2>7, <2>8 DEF Next, Check
<1>6. QED
  BY <1>1, <1>2, <1>3, <1>5 DEF TypeInv, TypeOK

\* The types hold at the start.
LEMMA InitTypeInv == Init => LimiterInv /\ TypeInv
<1> USE LimitAssumption, LimiterBounds
<1> SUFFICES ASSUME Init PROVE LimiterInv /\ TypeInv
  OBVIOUS
<1>1. /\ slot \in [Slots -> Slot] /\ \A s \in Slots : slot[s].at = "idle" /\ ~slot[s].waited
      /\ count = [k \in Keys |-> 0] /\ passed = [k \in Keys |-> 0]
      /\ ttl = [k \in Keys |-> NoTtl] /\ charged = [u \in Users |-> 0] /\ faults = 0
  BY DEF Init, Slot, Idle, Levels
<1>2. LimiterInv
  BY <1>1 DEF LimiterInv, SlotsNameKeys, WindowBound
<1>3. TypeOK
  BY <1>1 DEF TypeOK
<1>4. RoomIsLeft
  <2>1. \A k \in Keys : Owing(k) = {} /\ count[k] = 0
    BY <1>1 DEF Owing, Owes
  <2>2. \A k \in Keys : Cardinality(Owing(k)) = 0
    BY <2>1, FS_EmptySet
  <2>3. QED
    BY <2>1, <2>2 DEF RoomIsLeft
<1>5. QED
  BY <1>2, <1>3, <1>4 DEF TypeInv, LimiterInv

\* Every variable keeps its type, for any number of clients: no counter passes the
\* bound, no expiry is longer than the window, and only a round trip that follows
\* directly on another has waited.
THEOREM LimiterTyped == Spec => []TypeOK
<1>1. LimiterInv /\ TypeInv /\ [Next]_vars => (LimiterInv /\ TypeInv)'
  BY StepKeepsLimiterInv, StepKeepsTypeInv
<1>2. TypeInv => TypeOK
  BY DEF TypeInv
<1>3. QED
  BY <1>1, <1>2, InitTypeInv, PTL DEF Spec

-----------------------------------------------------------------------------
(* The share of a user *)

\* What a request uses stays while the others move.
LEMMA OthersKeepTheirs ==
    ASSUME NEW s \in Slots, OthersStay(s)
    PROVE  /\ \A r \in Slots \ {s} : KeyOf(r)' = KeyOf(r) /\ slot'[r].at = slot[r].at
           /\ Stays(s) => KeyOf(s)' = KeyOf(s)
BY KeyOfStays DEF OthersStay, Stays

\* One client sets the expiry of a new counter, until something fails.
LEMMA StepKeepsOneCreator ==
    ASSUME LimiterInv, TypeInv, OneCreator, CountersBegin, [Next]_vars, faults' = 0
    PROVE  OneCreator'
<1> USE WindowAssumption
<1>1. /\ SlotsNameKeys /\ slot \in [Slots -> Slot] /\ count \in [Keys -> Nat]
      /\ ttl \in [Keys -> (1..Window) \cup {NoTtl}]
  BY DEF LimiterInv, SlotsNameKeys, TypeInv, TypeOK
<1>2. \A s \in Slots : slot[s].at = "expire" => KeyOf(s) \in Keys
  BY <1>1, KeyIsCounter
<1>3. CASE Tick
  <2>1. \A s \in Slots : slot'[s].at = slot[s].at /\ slot'[s].level = slot[s].level
                         /\ slot'[s].ip = slot[s].ip /\ slot'[s].user = slot[s].user
    BY <1>1, <1>3 DEF Tick, Slot
  <2>2. \A s \in Slots : KeyOf(s)' = KeyOf(s)
    BY <2>1, KeyOfStays
  <2>3. ASSUME NEW k \in Keys, count[k] > 0, ttl[k] = NoTtl
        PROVE  count'[k] > 0 /\ ttl'[k] = NoTtl
    BY <1>1, <1>3, <2>3 DEF Tick, Expiring
  <2>4. QED
    BY <1>2, <2>1, <2>2, <2>3 DEF OneCreator
<1>4. ASSUME NEW s \in Slots, OthersStay(s), slot'[s].at # "expire", count' = count,
             \A r \in Slots \ {s} : slot[r].at = "expire" => ttl'[KeyOf(r)] = ttl[KeyOf(r)]
      PROVE  OneCreator'
  BY <1>4, OthersKeepTheirs DEF OneCreator
<1>5. ASSUME NEW s \in Slots, Send(s) PROVE OneCreator'
  BY <1>1, <1>4, <1>5 DEF Send, Redis, OthersStay
<1>6. ASSUME NEW s \in Slots, Incr(s) PROVE OneCreator'
  <2> DEFINE c == KeyOf(s)
  <2>1. /\ c \in Keys /\ slot[s].at = "incr" /\ OthersStay(s) /\ ttl' = ttl
        /\ count' = [count EXCEPT ![c] = count[c] + 1]
        /\ slot'[s].at = "expire" => count[c] = 0 /\ Stays(s)
    BY <1>6, WhatIncrDoes DEF MovesOn
  <2>2. slot'[s].at = "expire" => KeyOf(s)' = c
    BY <2>1, OthersKeepTheirs
  <2> HIDE DEF c
  <2>3. \A k \in Keys : count[k] > 0 => count'[k] > 0
    BY <1>1, <2>1
  <2>4. slot'[s].at = "expire" =>
           /\ count'[c] > 0 /\ ttl[c] = NoTtl
           /\ \A r \in Slots : slot[r].at = "expire" => KeyOf(r) # c
    BY <1>1, <2>1 DEF OneCreator, CountersBegin
  <2>5. \A r \in Slots \ {s} : KeyOf(r)' = KeyOf(r) /\ slot'[r].at = slot[r].at
    BY <2>1, OthersKeepTheirs
  <2>6. QED
    BY <1>2, <2>1, <2>2, <2>3, <2>4, <2>5 DEF OneCreator
<1>7. ASSUME NEW s \in Slots, Expire(s) PROVE OneCreator'
  <2>1. OthersStay(s) /\ slot'[s].at # "expire" /\ slot[s].at = "expire" /\ count' = count
    BY <1>1, <1>7, NextCheckMovesOn DEF Expire, ExecuteExpire, MovesOn
  <2>2. ttl' \in {[ttl EXCEPT ![KeyOf(s)] = Window], ttl}
    BY <1>7 DEF Expire, ExecuteExpire
  <2>3. \A r \in Slots \ {s} : slot[r].at = "expire" => KeyOf(r) # KeyOf(s)
    BY <2>1 DEF OneCreator
  <2>4. QED
    BY <1>1, <1>2, <1>4, <2>1, <2>2, <2>3
<1>8. ASSUME NEW s \in Slots, Refuse(s) PROVE OneCreator'
  BY <1>1, <1>4, <1>8, WhatRefusalsDo
<1>9. CASE UNCHANGED vars
  BY <1>9 DEF vars, OneCreator, KeyOf
<1>10. QED
  BY <1>3, <1>5, <1>6, <1>7, <1>8, <1>9, CalmSteps DEF Check

\* Counters begin with a request that passes.
LEMMA StepKeepsCountersBegin ==
    ASSUME LimiterInv, TypeInv, CountersBegin, [Next]_vars, faults' = 0
    PROVE  CountersBegin'
<1> USE WindowAssumption
<1>1. /\ SlotsNameKeys /\ count \in [Keys -> Nat] /\ passed \in [Keys -> Nat]
      /\ ttl \in [Keys -> (1..Window) \cup {NoTtl}] /\ charged \in [Users -> Nat]
      /\ Tenant \in Keys
  BY DEF LimiterInv, TypeInv, TypeOK, Keys
<1>2. CASE Tick
  <2>1. \A k \in Keys : /\ count'[k] > 0 => passed'[k] > 0
                        /\ ttl'[k] # NoTtl => count'[k] > 0
    BY <1>1, <1>2 DEF Tick, Expiring, CountersBegin
  <2>2. count'[Tenant] = 0 => \A u \in Users : charged'[u] = 0
    BY <1>1, <1>2 DEF Tick, CountersBegin
  <2>3. QED
    BY <2>1, <2>2 DEF CountersBegin
<1>3. ASSUME NEW s \in Slots, Incr(s) PROVE CountersBegin'
  <2> DEFINE c == KeyOf(s)
  <2>1. /\ c \in Keys /\ ttl' = ttl /\ count' = [count EXCEPT ![c] = count[c] + 1]
        /\ c # Tenant => charged' = charged
        /\ \/ count[c] > 0 /\ passed' = passed
           \/ passed' = [passed EXCEPT ![c] = passed[c] + 1]
    BY <1>3, WhatIncrDoes
  <2> HIDE DEF c
  <2>2. \A k \in Keys : /\ count'[k] > 0 => passed'[k] > 0
                        /\ ttl'[k] # NoTtl => count'[k] > 0
    BY <1>1, <2>1 DEF CountersBegin
  <2>3. count'[Tenant] = 0 => \A u \in Users : charged'[u] = 0
    BY <1>1, <2>1 DEF CountersBegin
  <2>4. QED
    BY <2>2, <2>3 DEF CountersBegin
<1>4. ASSUME NEW s \in Slots, Expire(s) PROVE CountersBegin'
  <2>1. /\ UNCHANGED <<count, passed, charged>>
        /\ ttl' = IF count[KeyOf(s)] > 0 THEN [ttl EXCEPT ![KeyOf(s)] = Window] ELSE ttl
    BY <1>4 DEF Expire, ExecuteExpire
  <2>2. QED
    BY <1>1, <2>1 DEF CountersBegin
<1>5. CASE UNCHANGED <<count, ttl, passed, charged>>
  BY <1>5 DEF CountersBegin
<1>6. QED
  BY <1>2, <1>3, <1>4, <1>5, CalmSteps DEF Check, Send, Refuse, Redis, vars

\* Who is pending when one client moves.
LEMMA WhoIsPending ==
    ASSUME NEW s \in Slots, OthersStay(s), NEW u \in Users
    PROVE  /\ Pending(u)' \subseteq Pending(u) \cup {s} /\ Fresh(u)' \subseteq Fresh(u) \cup {s}
           /\ s \notin Pending(u)' =>
                  Pending(u)' \subseteq Pending(u) \ {s} /\ Fresh(u)' \subseteq Fresh(u)
           /\ s \in Fresh(u) =>
                  Pending(u)' \subseteq Pending(u) /\ Fresh(u)' \subseteq Fresh(u)
<1>1. \A r \in Slots \ {s} : r \in Pending(u)' <=> r \in Pending(u)
  BY DEF OthersStay, Pending
<1>2. \A r \in Slots \ {s} : r \in Fresh(u)' <=> r \in Fresh(u)
  BY <1>1 DEF OthersStay, Fresh
<1>3. Pending(u)' \subseteq Slots /\ Fresh(u)' \subseteq Pending(u)' /\ Fresh(u) \subseteq Pending(u)
  BY DEF Pending, Fresh
<1>4. QED
  BY <1>1, <1>2, <1>3

\* Who is pending is a matter of the place of his request.
LEMMA PendingPlaces ==
    ASSUME NEW s \in Slots, NEW u \in Users
    PROVE  /\ s \in Pending(u) <=>
                /\ slot[s].user = u
                /\ \/ slot[s].level = "user" /\ slot[s].at = "expire"
                   \/ slot[s].level = "tenant" /\ slot[s].at = "incr"
           /\ s \in Pending(u)' <=>
                /\ slot'[s].user = u
                /\ \/ slot'[s].level = "user" /\ slot'[s].at = "expire"
                   \/ slot'[s].level = "tenant" /\ slot'[s].at = "incr"
           /\ s \in Fresh(u) <=> s \in Pending(u) /\ (slot[s].at = "expire" \/ ~slot[s].waited)
BY DEF Pending, Fresh

\* What a request does to the counts of a user: it passes his check and becomes
\* pending, or is charged and no longer pending, or adds to nothing.
LEMMA WhatRequestsAdd ==
    ASSUME LimiterInv, TypeInv, NEW s \in Slots, Send(s) \/ Check(s), NEW u \in Users
    PROVE  \E d \in {0, 1} :
              /\ passed'[u] = passed[u] + d
              /\ Cardinality(Pending(u)') <= Cardinality(Pending(u)) + d
              /\ Cardinality(Fresh(u)') <= Cardinality(Fresh(u)) + d
              /\ charged'[u] + Cardinality(Pending(u)')
                     <= charged[u] + Cardinality(Pending(u)) + d
<1> USE KeysApart
<1>1. /\ SlotsNameKeys /\ slot \in [Slots -> Slot] /\ passed \in [Keys -> Nat]
      /\ charged \in [Users -> Nat] /\ u \in Keys
      /\ Pending(u) \subseteq Slots /\ Pending(u)' \subseteq Slots
      /\ Fresh(u) \subseteq Slots /\ Fresh(u)' \subseteq Slots
  BY DEF LimiterInv, SlotsNameKeys, TypeInv, TypeOK, Keys, Pending, Fresh
<1>2. /\ Cardinality(Pending(u)) \in Nat /\ Cardinality(Pending(u)') \in Nat
      /\ Cardinality(Fresh(u)) \in Nat /\ Cardinality(Fresh(u)') \in Nat
  BY <1>1, ClientsAreCounted
<1> DEFINE Shrinks == Pending(u)' \subseteq Pending(u) /\ Fresh(u)' \subseteq Fresh(u)
<1>3. ASSUME Shrinks, UNCHANGED <<passed, charged>> \/ (passed'[u] = passed[u] /\ charged'[u] = charged[u])
      PROVE  \E d \in {0, 1} :
              /\ passed'[u] = passed[u] + d
              /\ Cardinality(Pending(u)') <= Cardinality(Pending(u)) + d
              /\ Cardinality(Fresh(u)') <= Cardinality(Fresh(u)) + d
              /\ charged'[u] + Cardinality(Pending(u)')
                     <= charged[u] + Cardinality(Pending(u)) + d
  <2>1. /\ Cardinality(Pending(u)') <= Cardinality(Pending(u))
        /\ Cardinality(Fresh(u)') <= Cardinality(Fresh(u))
    BY <1>1, <1>3, ClientsAreCounted
  <2>2. passed'[u] = passed[u] + 0 /\ charged'[u] = charged[u]
    BY <1>1, <1>3
  <2>3. QED
    BY <1>1, <1>2, <2>1, <2>2
<1>4. CASE Send(s)
  <2>1. OthersStay(s) /\ slot'[s].level = "ip" /\ UNCHANGED <<passed, charged>>
    BY <1>1, <1>4 DEF Send, OthersStay
  <2>2. Shrinks
    BY <2>1, WhoIsPending, PendingPlaces
  <2>3. QED
    BY <1>3, <2>1, <2>2
<1>5. CASE Expire(s)
  <2>1. /\ OthersStay(s) /\ MovesOn(s) /\ slot[s].at = "expire" /\ UNCHANGED <<passed, charged>>
        /\ slot[s].level \in Levels
    BY <1>1, <1>5, NextCheckMovesOn DEF Expire, ExecuteExpire, Slot
  <2>2. s \notin Pending(u)' \/ s \in Fresh(u)
    BY <2>1, PendingPlaces DEF MovesOn, Levels
  <2>3. Shrinks
    BY <2>1, <2>2, WhoIsPending
  <2>4. QED
    BY <1>3, <2>1, <2>3
<1>6. CASE Refuse(s)
  <2>1. OthersStay(s) /\ UNCHANGED <<passed, charged>> /\ s \notin Pending(u)'
    BY <1>1, <1>6, WhatRefusalsDo, PendingPlaces
  <2>2. Shrinks
    BY <2>1, WhoIsPending
  <2>3. QED
    BY <1>3, <2>1, <2>2
<1>7. CASE Incr(s)
  <2>1. /\ slot[s].at = "incr" /\ OthersStay(s) /\ KeyOf(s) \in Keys
        /\ slot[s].ip \in Ips /\ slot[s].user \in Users /\ slot[s].level \in Levels
        /\ charged' = IF KeyOf(s) = Tenant
                      THEN [charged EXCEPT ![slot[s].user] = @ + 1] ELSE charged
        /\ \/ passed' = passed /\ Stays(s) /\ slot'[s].at = "ttl"
           \/ /\ passed' = [passed EXCEPT ![KeyOf(s)] = passed[KeyOf(s)] + 1]
              /\ (Stays(s) /\ slot'[s].at = "expire") \/ MovesOn(s)
    BY <1>1, <1>7, WhatIncrDoes DEF SlotsNameKeys, Slot
  <2>2. CASE slot[s].level = "ip"
    <3>1. KeyOf(s) # u /\ KeyOf(s) # Tenant
      BY <2>1, <2>2 DEF KeyOf
    <3>2. s \notin Pending(u)'
      BY <2>1, <2>2, PendingPlaces DEF Stays, MovesOn
    <3>3. Shrinks
      BY <2>1, <3>2, WhoIsPending
    <3>4. passed'[u] = passed[u] /\ charged'[u] = charged[u]
      BY <1>1, <2>1, <3>1
    <3>5. QED
      BY <1>3, <3>3, <3>4
  <2>3. CASE slot[s].level = "user" /\ slot[s].user # u
    <3>1. KeyOf(s) # u /\ KeyOf(s) # Tenant
      BY <2>1, <2>3 DEF KeyOf
    <3>2. s \notin Pending(u)'
      BY <2>1, <2>3, PendingPlaces DEF Stays, MovesOn
    <3>3. Shrinks
      BY <2>1, <3>2, WhoIsPending
    <3>4. passed'[u] = passed[u] /\ charged'[u] = charged[u]
      BY <1>1, <2>1, <3>1
    <3>5. QED
      BY <1>3, <3>3, <3>4
  <2>4. CASE slot[s].level = "user" /\ slot[s].user = u
    <3>1. KeyOf(s) = u /\ u # Tenant
      BY <2>4 DEF KeyOf
    <3>2. CASE passed' = passed /\ Stays(s) /\ slot'[s].at = "ttl"
      <4>1. Shrinks
        BY <2>1, <3>2, WhoIsPending, PendingPlaces
      <4>2. charged' = charged
        BY <2>1, <3>1
      <4>3. QED
        BY <1>3, <3>2, <4>1, <4>2
    <3>3. CASE passed' = [passed EXCEPT ![KeyOf(s)] = passed[KeyOf(s)] + 1]
      <4>1. passed'[u] = passed[u] + 1 /\ charged'[u] = charged[u]
        BY <1>1, <2>1, <3>1, <3>3
      <4>2. /\ Pending(u)' \subseteq Pending(u) \cup {s}
            /\ Fresh(u)' \subseteq Fresh(u) \cup {s}
        BY <2>1, WhoIsPending
      <4>3. /\ Cardinality(Pending(u)') <= Cardinality(Pending(u)) + 1
            /\ Cardinality(Fresh(u)') <= Cardinality(Fresh(u)) + 1
        BY <1>1, <4>2, ClientsAreCounted
      <4>4. QED
        BY <1>1, <1>2, <4>1, <4>3
    <3>4. QED
      BY <2>1, <3>2, <3>3
  <2>5. CASE slot[s].level = "tenant"
    <3>1. KeyOf(s) = Tenant /\ KeyOf(s) # u
      BY <2>5 DEF KeyOf
    <3>2. s \notin Pending(u)'
      BY <2>1, <2>5, PendingPlaces DEF Stays, MovesOn
    <3>3. Pending(u)' \subseteq Pending(u) \ {s} /\ Fresh(u)' \subseteq Fresh(u)
      BY <2>1, <3>2, WhoIsPending
    <3>4. passed'[u] = passed[u]
      BY <1>1, <2>1, <3>1
    <3>5. CASE slot[s].user = u
      <4>1. s \in Pending(u) /\ charged'[u] = charged[u] + 1
        BY <1>1, <2>1, <2>5, <3>1, <3>5, PendingPlaces
      <4>2. /\ Cardinality(Pending(u)') < Cardinality(Pending(u))
            /\ Cardinality(Fresh(u)') <= Cardinality(Fresh(u))
        BY <1>1, <3>3, <4>1, ClientsAreCounted
      <4>3. passed'[u] = passed[u] + 0
        BY <1>1, <3>4
      <4>4. QED
        BY <1>1, <1>2, <4>1, <4>2, <4>3
    <3>6. CASE slot[s].user # u
      <4>1. charged'[u] = charged[u]
        BY <1>1, <2>1, <3>1, <3>6
      <4>2. QED
        BY <1>3, <3>3, <3>4, <4>1
    <3>7. QED
      BY <3>5, <3>6
  <2>6. QED
    BY <2>1, <2>2, <2>3, <2>4, <2>5 DEF Levels
<1>8. QED
  BY <1>4, <1>5, <1>6, <1>7 DEF Check

\* When time passes nobody pending has waited before, and whoever is pending then
\* has, but for those who still owe the user's counter its expiry.
LEMMA WhatTicksDo ==
    ASSUME LimiterInv, TypeInv, OneCreator, Tick, NEW u \in Users
    PROVE  /\ Pending(u)' = Pending(u) /\ Fresh(u) = Pending(u) /\ Fresh(u)' \subseteq Fresh(u)
           /\ ttl[u] # NoTtl => Fresh(u)' = {}
<1>1. /\ SlotsNameKeys /\ slot \in [Slots -> Slot] /\ \A s \in Slots : ~slot[s].waited
  BY DEF LimiterInv, SlotsNameKeys, Tick
<1>2. \A s \in Slots : /\ slot'[s].at = slot[s].at /\ slot'[s].level = slot[s].level
                       /\ slot'[s].user = slot[s].user /\ slot'[s].waited = Pressing(s)
  BY <1>1 DEF Tick, Slot
<1>3. Pending(u)' = Pending(u) /\ Fresh(u) = Pending(u)
  BY <1>1, <1>2 DEF Pending, Fresh
<1>4. Fresh(u)' = {s \in Pending(u) : slot[s].at = "expire"}
  BY <1>2 DEF Fresh, Pending, Pressing
<1>5. \A s \in Slots : s \in Pending(u) /\ slot[s].at = "expire" => ttl[u] = NoTtl
  BY DEF OneCreator, Pending, KeyOf
<1>6. QED
  BY <1>3, <1>4, <1>5 DEF Pending

\* No step makes more requests pending than the user's windows account for.
LEMMA StepKeepsPendingBounded ==
    ASSUME LimiterInv, TypeInv, OneCreator, CountersBegin, PendingIsBounded, [Next]_vars,
           faults' = 0
    PROVE  PendingIsBounded'
<1> USE LimitAssumption, WindowAssumption
<1> SUFFICES ASSUME NEW u \in Users
             PROVE  /\ Cardinality(Fresh(u)') <= passed'[u]
                    /\ ttl'[u] \in 1..(Window - 2) => Cardinality(Fresh(u)') < passed'[u]
                    /\ Cardinality(Pending(u)') < passed'[u] + Limit[u]
  BY DEF PendingIsBounded
<1> DEFINE F == Cardinality(Fresh(u))
           P == Cardinality(Pending(u))
<1>1. /\ u \in Keys /\ count[u] \in Nat /\ passed[u] \in Nat /\ passed'[u] \in Nat
      /\ Limit[u] \in Nat \ {0} /\ passed[u] <= Limit[u]
      /\ ttl \in [Keys -> (1..Window) \cup {NoTtl}]
  BY StepKeepsLimiterInv, CalmSteps DEF LimiterInv, WindowBound, TypeInv, TypeOK, Keys
<1>2. F \in Nat /\ F' \in Nat /\ P \in Nat /\ P' \in Nat
  BY ClientsAreCounted DEF Pending, Fresh
<1>3. /\ F <= passed[u] /\ P < passed[u] + Limit[u]
      /\ ttl[u] \in 1..(Window - 2) => F < passed[u]
  BY DEF PendingIsBounded
<1>4. CASE Tick
  <2>1. P' = P /\ F = P /\ F' <= F
    BY <1>4, WhatTicksDo, ClientsAreCounted DEF Pending, Fresh
  <2>2. ttl[u] # NoTtl => F' = 0
    BY <1>4, WhatTicksDo, FS_EmptySet
  <2>3. CASE ttl[u] = NoTtl
    <3>1. ttl'[u] = NoTtl /\ passed'[u] = passed[u]
      BY <1>1, <1>4, <2>3 DEF Tick, Expiring
    <3>2. QED
      BY <1>1, <1>2, <1>3, <2>1, <3>1
  <2>4. CASE ttl[u] = 1
    <3>1. ttl'[u] = NoTtl /\ passed'[u] = 0
      BY <1>1, <1>4, <2>4 DEF Tick, Expiring
    <3>2. ttl[u] \in 1..(Window - 2)
      BY <2>4
    <3>3. QED
      BY <1>1, <1>2, <1>3, <2>1, <2>2, <2>4, <3>1, <3>2
  <2>5. CASE ttl[u] # NoTtl /\ ttl[u] # 1
    <3>1. passed'[u] = passed[u] /\ passed[u] > 0
      BY <1>1, <1>4, <2>5 DEF Tick, Expiring, CountersBegin
    <3>2. QED
      BY <1>1, <1>2, <1>3, <2>1, <2>2, <2>5, <3>1
  <2>6. QED
    BY <2>3, <2>4, <2>5
<1>5. ASSUME NEW s \in Slots, Send(s) \/ Check(s)
      PROVE  /\ F' <= passed'[u] /\ P' < passed'[u] + Limit[u]
             /\ ttl'[u] \in 1..(Window - 2) => F' < passed'[u]
  <2>1. PICK d \in {0, 1} : passed'[u] = passed[u] + d /\ P' <= P + d /\ F' <= F + d
    BY <1>5, WhatRequestsAdd
  <2>2. ttl'[u] \in 1..(Window - 2) => ttl'[u] = ttl[u]
    <3>1. CASE Expire(s)
      <4>1. ttl' \in {[ttl EXCEPT ![KeyOf(s)] = Window], ttl}
        BY <3>1 DEF Expire, ExecuteExpire
      <4>2. QED
        BY <1>1, <4>1
    <3>2. CASE Send(s) \/ Incr(s) \/ Refuse(s)
      BY <3>2 DEF Send, Incr, ExecuteIncr, Refuse, Redis
    <3>3. QED
      BY <1>5, <3>1, <3>2 DEF Check
  <2>3. QED
    BY <1>1, <1>2, <1>3, <2>1, <2>2
<1>6. CASE UNCHANGED vars
  <2>1. F' = F /\ P' = P
    BY <1>6 DEF vars, Fresh, Pending
  <2>2. passed' = passed /\ ttl' = ttl
    BY <1>6 DEF vars
  <2>3. QED
    BY <1>3, <2>1, <2>2
<1>7. QED
  BY <1>4, <1>5, <1>6, CalmSteps

\* What is left of the tenant's window only grows shorter, and that of the user's
\* not faster: no further window of the user comes within reach.
LEMMA WindowsRunDown ==
    ASSUME ExpiryInv, TypeInv, OneCreator, CountersBegin, [Next]_vars, NEW u \in Users,
           faults' = 0, count[Tenant] > 0, count'[Tenant] > 0
    PROVE  /\ TenantLeft \in 1..(Window + 1) /\ TenantLeft' \in 1..(Window + 1)
           /\ ~Tick => TenantLeft' <= TenantLeft /\ UserLeft(u)' >= UserLeft(u)
           /\ Tick => /\ TenantLeft' = TenantLeft - 1
                      /\ UserLeft(u)' >= UserLeft(u) - 1
           /\ UserLeft(u) \in 1..Window /\ UserLeft(u)' \in 1..Window
<1> USE WindowAssumption
<1>1. /\ SlotsNameKeys /\ slot \in [Slots -> Slot] /\ count \in [Keys -> Nat]
      /\ ttl \in [Keys -> (1..Window) \cup {NoTtl}] /\ ttl' \in [Keys -> (1..Window) \cup {NoTtl}]
      /\ u \in Keys /\ Tenant \in Keys /\ LimiterInv /\ faults \in Nat
  BY StepKeepsTypeInv DEF ExpiryInv, LimiterInv, SlotsNameKeys, TypeInv, TypeOK, Keys
<1> DEFINE Creating == \E s \in Slots : slot[s].at = "expire" /\ slot[s].level = "tenant"
                                        /\ ~slot[s].waited
<1>2. /\ TenantLeft = IF ttl[Tenant] # NoTtl THEN ttl[Tenant]
                      ELSE IF Creating THEN Window + 1 ELSE Window
      /\ TenantLeft' = IF ttl'[Tenant] # NoTtl THEN ttl'[Tenant]
                       ELSE IF Creating' THEN Window + 1 ELSE Window
      /\ UserLeft(u) = IF ttl[u] # NoTtl THEN ttl[u] ELSE Window
      /\ UserLeft(u)' = IF ttl'[u] # NoTtl THEN ttl'[u] ELSE Window
  BY DEF TenantLeft, UserLeft
<1>3. /\ TenantLeft \in 1..(Window + 1) /\ TenantLeft' \in 1..(Window + 1)
      /\ UserLeft(u) \in 1..Window /\ UserLeft(u)' \in 1..Window
  BY <1>1, <1>2
<1>4. ASSUME Tick
      PROVE  TenantLeft' = TenantLeft - 1 /\ UserLeft(u)' >= UserLeft(u) - 1
  <2>1. UserLeft(u)' >= UserLeft(u) - 1
    BY <1>1, <1>2, <1>4 DEF Tick, Expiring
  <2>2. CASE ttl[Tenant] # NoTtl
    <3>1. ttl[Tenant] # 1
      BY <1>1, <1>4 DEF Tick, Expiring
    <3>2. ttl'[Tenant] = ttl[Tenant] - 1 /\ ttl'[Tenant] # NoTtl
      BY <1>1, <1>4, <2>2, <3>1 DEF Tick, Expiring
    <3>3. QED
      BY <1>2, <2>1, <2>2, <3>2
  <2>3. CASE ttl[Tenant] = NoTtl
    <3>1. ttl'[Tenant] = NoTtl
      BY <1>1, <1>4, <2>3 DEF Tick, Expiring
    <3>2. PICK s \in Slots : slot[s].at = "expire" /\ KeyOf(s) = Tenant
      BY <1>1, <1>4, <2>3 DEF ExpiryInv, NoImmortalCounter, Tick
    <3>3. slot[s].level = "tenant" /\ ~slot[s].waited
      BY <1>1, <1>4, <3>2, KeysApart DEF KeyOf, SlotsNameKeys, Slot, Levels, Tick
    <3>4. Creating
      BY <3>2, <3>3
    <3>5. \A r \in Slots : slot'[r].at = slot[r].at /\ slot'[r].waited = Pressing(r)
      BY <1>1, <1>4 DEF Tick, Slot
    <3>6. ~Creating'
      BY <3>5 DEF Pressing
    <3>7. QED
      BY <1>2, <2>1, <2>3, <3>1, <3>4, <3>6
  <2>4. QED
    BY <2>2, <2>3
<1>5. ASSUME NEW s \in Slots, OthersStay(s), ~(slot'[s].at = "expire" /\ slot'[s].level = "tenant"),
             ttl' = ttl \/ (ttl' = [ttl EXCEPT ![KeyOf(s)] = Window] /\ ttl[KeyOf(s)] = NoTtl)
      PROVE  TenantLeft' <= TenantLeft /\ UserLeft(u)' >= UserLeft(u)
  <2>1. Creating' => Creating
    BY <1>5 DEF OthersStay
  <2> HIDE DEF Creating
  <2>2. CASE ttl' = ttl
    BY <1>1, <1>2, <2>1, <2>2
  <2>3. CASE ttl' = [ttl EXCEPT ![KeyOf(s)] = Window] /\ ttl[KeyOf(s)] = NoTtl
    <3>1. /\ ttl'[Tenant] = ttl[Tenant] \/ (ttl'[Tenant] = Window /\ ttl[Tenant] = NoTtl)
          /\ ttl'[u] = ttl[u] \/ (ttl'[u] = Window /\ ttl[u] = NoTtl)
      BY <1>1, <2>3
    <3>2. QED
      BY <1>1, <1>2, <2>1, <3>1
  <2>4. QED
    BY <1>5, <2>2, <2>3
<1>6. ASSUME NEW s \in Slots, Send(s) \/ Check(s)
      PROVE  TenantLeft' <= TenantLeft /\ UserLeft(u)' >= UserLeft(u)
  <2>1. CASE Send(s)
    <3>1. OthersStay(s) /\ slot'[s].at = "incr" /\ ttl' = ttl
      BY <1>1, <2>1 DEF Send, OthersStay, Redis
    <3>2. QED
      BY <1>5, <3>1
  <2>2. CASE Incr(s)
    <3>1. /\ OthersStay(s)
          /\ ttl' = ttl
          /\ slot'[s].at = "expire" => (count[KeyOf(s)] = 0 /\ Stays(s))
      BY <1>1, <2>2, WhatIncrDoes DEF MovesOn
    <3>2. slot[s].level = "tenant" => KeyOf(s) = Tenant
      BY DEF KeyOf
    <3>3. ~(slot'[s].at = "expire" /\ slot'[s].level = "tenant")
      <4>1. ASSUME slot'[s].at = "expire", slot'[s].level = "tenant" PROVE FALSE
        <5>1. count[KeyOf(s)] = 0 /\ slot[s].level = "tenant"
          BY <3>1, <4>1 DEF Stays
        <5>2. count[Tenant] = 0
          BY <3>2, <5>1
        <5>3. QED
          BY <1>1, <5>2
      <4>2. QED
        BY <4>1
    <3>4. QED
      BY <1>5, <3>1, <3>3
  <2>3. CASE Expire(s)
    <3>1. OthersStay(s) /\ slot'[s].at # "expire"
      BY <1>1, <2>3, NextCheckMovesOn DEF Expire, MovesOn
    <3>2. /\ ttl' \in {[ttl EXCEPT ![KeyOf(s)] = Window], ttl} /\ ttl[KeyOf(s)] = NoTtl
      BY <2>3 DEF Expire, ExecuteExpire, OneCreator
    <3>3. QED
      BY <1>5, <3>1, <3>2
  <2>4. CASE Refuse(s)
    <3>1. OthersStay(s) /\ slot'[s].at # "expire" /\ ttl' = ttl
      BY <1>1, <2>4, WhatRefusalsDo
    <3>2. QED
      BY <1>5, <3>1
  <2>5. QED
    BY <1>6, <2>1, <2>2, <2>3, <2>4 DEF Check
<1>7. ASSUME UNCHANGED vars PROVE TenantLeft' <= TenantLeft /\ UserLeft(u)' >= UserLeft(u)
  BY <1>3, <1>7 DEF vars, TenantLeft, UserLeft
<1>8. QED
  BY <1>1, <1>3, <1>4, <1>6, <1>7, CalmSteps

\* The share of each user in the tenant's window stays within bounds in every step.
LEMMA StepKeepsShareIsLeft ==
    ASSUME ShareInv, [Next]_vars, faults' = 0
    PROVE  ShareIsLeft'
<1> USE LimitAssumption, WindowAssumption
<1> SUFFICES ASSUME count'[Tenant] > 0, NEW u \in Users
             PROVE  charged'[u] + Cardinality(Pending(u))' + NextWindow(u)'
                        < passed'[u] + 2 * Limit[u]
  BY DEF ShareIsLeft
<1>1. /\ ExpiryInv /\ LimiterInv /\ TypeInv /\ OneCreator /\ CountersBegin
      /\ PendingIsBounded /\ ShareIsLeft /\ faults = 0
  BY CalmSteps DEF ShareInv, ExpiryInv
<1>2. /\ count \in [Keys -> Nat] /\ u \in Keys /\ Tenant \in Keys /\ Limit[u] \in Nat \ {0}
      /\ passed[u] \in Nat /\ passed'[u] \in Nat /\ passed[u] <= Limit[u]
      /\ charged[u] \in Nat /\ charged'[u] \in Nat /\ faults \in Nat
      /\ ttl \in [Keys -> (1..Window) \cup {NoTtl}]
  BY <1>1, StepKeepsTypeInv DEF LimiterInv, WindowBound, TypeInv, TypeOK, Keys
<1> DEFINE P == Cardinality(Pending(u))
<1>3. P \in Nat /\ P' \in Nat
  BY ClientsAreCounted DEF Pending
<1>4. NextWindow(u) \in {0, Limit[u]} /\ NextWindow(u)' \in {0, Limit[u]}
  BY DEF NextWindow
<1>5. count[Tenant] > 0 => charged[u] + P + NextWindow(u) < passed[u] + 2 * Limit[u]
  BY <1>1 DEF ShareIsLeft
<1>6. CASE Tick
  <2>1. count[Tenant] > 0 /\ ttl[Tenant] # 1 /\ charged' = charged
    BY <1>2, <1>6 DEF Tick, Expiring
  <2>2. P' = P
    BY <1>1, <1>6, WhatTicksDo
  <2>3. /\ TenantLeft \in 1..(Window + 1) /\ TenantLeft' = TenantLeft - 1
        /\ UserLeft(u) \in 1..Window /\ UserLeft(u)' >= UserLeft(u) - 1
        /\ UserLeft(u)' \in 1..Window
    BY <1>1, <1>6, <2>1, WindowsRunDown
  <2>4. CASE ttl[u] # 1
    <3>1. passed'[u] = passed[u]
      BY <1>2, <1>6, <2>4 DEF Tick, Expiring
    <3>2. NextWindow(u)' <= NextWindow(u)
      BY <1>2, <2>3 DEF NextWindow
    <3>3. QED
      BY <1>2, <1>3, <1>4, <1>5, <2>1, <2>2, <3>1, <3>2
  <2>5. CASE ttl[u] = 1
    <3>1. passed'[u] = 0 /\ ttl'[u] = NoTtl
      BY <1>2, <1>6, <2>5 DEF Tick, Expiring
    <3>2. UserLeft(u) = 1 /\ UserLeft(u)' = Window
      BY <2>5, <3>1 DEF UserLeft
    <3>3. TenantLeft' >= 1
      BY <1>1, <1>6, <2>1, WindowsRunDown
    <3>4. NextWindow(u) = Limit[u] /\ NextWindow(u)' = 0
      BY <2>3, <3>2, <3>3 DEF NextWindow
    <3>5. QED
      BY <1>2, <1>3, <1>5, <2>1, <2>2, <3>1, <3>4
  <2>6. QED
    BY <2>4, <2>5
<1>7. ASSUME NEW s \in Slots, Send(s) \/ Check(s)
      PROVE  charged'[u] + P' + NextWindow(u)' < passed'[u] + 2 * Limit[u]
  <2>1. PICK d \in {0, 1} : passed'[u] = passed[u] + d /\ charged'[u] + P' <= charged[u] + P + d
    BY <1>1, <1>7, WhatRequestsAdd
  <2>2. CASE count[Tenant] > 0
    <3>1. CASE ~Tick
      <4>1. /\ TenantLeft \in 1..(Window + 1) /\ TenantLeft' <= TenantLeft
            /\ TenantLeft' \in 1..(Window + 1)
            /\ UserLeft(u) \in 1..Window /\ UserLeft(u)' >= UserLeft(u)
            /\ UserLeft(u)' \in 1..Window
        BY <1>1, <2>2, <3>1, WindowsRunDown
      <4>2. NextWindow(u)' <= NextWindow(u)
        BY <1>2, <4>1 DEF NextWindow
      <4>3. QED
        BY <1>2, <1>3, <1>4, <1>5, <2>1, <2>2, <4>2
    <3>2. QED
      BY <1>6, <3>1
  <2>3. CASE count[Tenant] = 0
    <3>1. charged[u] = 0 /\ P < passed[u] + Limit[u]
      BY <1>1, <2>3 DEF CountersBegin, PendingIsBounded
    <3>2. QED
      BY <1>2, <1>3, <1>4, <2>1, <3>1
  <2>4. QED
    BY <1>2, <2>2, <2>3
<1>8. CASE UNCHANGED vars
  <2>1. P' = P /\ NextWindow(u)' = NextWindow(u)
    BY <1>8 DEF vars, Pending, NextWindow, TenantLeft, UserLeft
  <2>2. count' = count /\ charged' = charged /\ passed' = passed
    BY <1>8 DEF vars
  <2>3. QED
    BY <1>5, <2>1, <2>2
<1>9. QED
  BY <1>1, <1>6, <1>7, <1>8, CalmSteps

\* While Redis answers and no worker is killed, what is charged to the tenant for one
\* user stays below three of his windows, for any number of clients, users and addresses
\* and any limits.
THEOREM SharesAreBounded == Spec => []UserShareBounded
<1> USE LimitAssumption
<1>1. Init => ShareInv
  <2> SUFFICES ASSUME Init PROVE ShareInv
    OBVIOUS
  <2>1. /\ slot = [s \in Slots |-> Idle] /\ \A s \in Slots : slot[s].at = "idle"
        /\ count = [k \in Keys |-> 0] /\ passed = [k \in Keys |-> 0]
        /\ ttl = [k \in Keys |-> NoTtl] /\ charged = [u \in Users |-> 0] /\ faults = 0
        /\ Tenant \in Keys /\ Users \subseteq Keys
    BY DEF Init, Idle, Keys
  <2>2. LimiterInv /\ TypeInv
    BY InitTypeInv
  <2>3. ExpiryInv
    BY <2>1, <2>2 DEF ExpiryInv, NoImmortalCounter
  <2>4. OneCreator /\ CountersBegin /\ ShareIsLeft
    BY <2>1 DEF OneCreator, CountersBegin, ShareIsLeft
  <2>5. PendingIsBounded
    <3> SUFFICES ASSUME NEW u \in Users
                 PROVE  /\ Cardinality(Fresh(u)) <= passed[u]
                        /\ ttl[u] \in 1..(Window - 2) => Cardinality(Fresh(u)) < passed[u]
                        /\ Cardinality(Pending(u)) < passed[u] + Limit[u]
      BY DEF PendingIsBounded
    <3>1. Pending(u) = {} /\ Fresh(u) = {}
      BY <2>1 DEF Pending, Fresh
    <3>2. Cardinality(Pending(u)) = 0 /\ Cardinality(Fresh(u)) = 0
      BY <3>1, FS_EmptySet
    <3>3. passed[u] = 0 /\ Limit[u] \in Nat \ {0} /\ ttl[u] \notin 1..(Window - 2)
      BY <2>1, WindowAssumption
    <3>4. QED
      BY <3>2, <3>3
  <2>6. QED
    BY <2>2, <2>3, <2>4, <2>5 DEF ShareInv
<1>2. ShareInv /\ [Next]_vars => ShareInv'
  <2> SUFFICES ASSUME ShareInv, [Next]_vars PROVE ShareInv'
    OBVIOUS
  <2>1. ExpiryInv' /\ TypeInv'
    BY StepKeepsExpiryInv, StepKeepsTypeInv DEF ShareInv, ExpiryInv
  <2>2. ASSUME faults' = 0
        PROVE  (OneCreator /\ CountersBegin /\ PendingIsBounded /\ ShareIsLeft)'
    <3>1. /\ ExpiryInv /\ LimiterInv /\ TypeInv /\ OneCreator /\ CountersBegin
          /\ PendingIsBounded
      BY <2>2, CalmSteps DEF ShareInv, ExpiryInv
    <3>2. OneCreator' /\ CountersBegin'
      BY <2>2, <3>1, StepKeepsOneCreator, StepKeepsCountersBegin
    <3>3. PendingIsBounded' /\ ShareIsLeft'
      BY <2>2, <3>1, StepKeepsPendingBounded, StepKeepsShareIsLeft
    <3>4. QED
      BY <3>2, <3>3
  <2>3. QED
    BY <2>1, <2>2 DEF ShareInv
<1>3. ShareInv => UserShareBounded
  <2> SUFFICES ASSUME ShareInv, faults = 0, NEW u \in Users
               PROVE  charged[u] < 3 * Limit[u]
    BY DEF UserShareBounded
  <2>1. /\ count \in [Keys -> Nat] /\ u \in Keys /\ Tenant \in Keys /\ Limit[u] \in Nat \ {0}
        /\ passed[u] \in Nat /\ passed[u] <= Limit[u] /\ charged[u] \in Nat
    BY DEF ShareInv, ExpiryInv, LimiterInv, WindowBound, TypeInv, TypeOK, Keys
  <2>2. CASE count[Tenant] = 0
    BY <2>1, <2>2 DEF ShareInv, CountersBegin
  <2>3. CASE count[Tenant] > 0
    <3>1. /\ Cardinality(Pending(u)) \in Nat /\ NextWindow(u) \in {0, Limit[u]}
          /\ charged[u] + Cardinality(Pending(u)) + NextWindow(u) < passed[u] + 2 * Limit[u]
      BY <2>3, ClientsAreCounted DEF ShareInv, ShareIsLeft, Pending, NextWindow
    <3>2. QED
      BY <2>1, <3>1
  <2>4. QED
    BY <2>1, <2>2, <2>3
<1>4. QED
  BY <1>1, <1>2, <1>3, PTL DEF Spec
=============================================================================
