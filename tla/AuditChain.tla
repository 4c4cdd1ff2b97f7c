------------------------------ MODULE AuditChain ------------------------------
(***************************************************************************)
(* AuditRepository.append_with_chain_lock on PostgreSQL (READ COMMITTED),  *)
(* as concurrent requests of several uvicorn workers run it.  One request  *)
(* appends one event; a request is identified with its event.              *)
(*                                                                         *)
(* The steps are the points at which a request waits for the database, so  *)
(* every interleaving of the requests' statements is a behaviour:          *)
(*   idle -> built        the handler constructs AuditEvent(...)           *)
(*   built -> open        the session checks a connection out of the pool  *)
(*   open -> ensured      INSERT audit_chain_state ON CONFLICT DO NOTHING  *)
(*   ensured -> locked    SELECT ... FOR UPDATE, link and hash the event   *)
(*   locked -> acked      INSERT event, UPDATE head, COMMIT                *)
(* and at any of them the request may fail, which rolls its transaction    *)
(* back and returns its connection.                                        *)
(***************************************************************************)
EXTENDS Naturals, FiniteSets

CONSTANTS
    Events,         \* the requests, each with the event it appends
    Tenants,
    TenantOf,       \* TenantOf[e]: the tenant of e's caller
    PoolLimit,      \* pool_size + max_overflow
    MaxClock,       \* bound on the wall clock
    NoHash,         \* NULL in a hash column
    NoRow,          \* the tenant has no committed audit_chain_state row
    Nobody          \* no transaction holds the tenant's row

Timestamps == 0..MaxClock

ASSUME TenantAssumption == TenantOf \in [Events -> Tenants]
ASSUME BoundAssumption == PoolLimit \in Nat \ {0} /\ MaxClock \in Nat
ASSUME NullAssumption ==
    /\ NoHash \notin Events /\ NoRow \notin Events /\ Nobody \notin Events
    /\ NoHash # NoRow

VARIABLES
    clock,          \* the workers' wall clock
    pc,             \* per request: where its append is
    timestamp,      \* per request: event.timestamp, in memory
    previousHash,   \* per request: event.previous_hash, in memory
    chainState,     \* per tenant: committed latest_event_hash, or NoRow
    rowHolder,      \* per tenant: the open transaction that inserted the row
                    \* or locked it FOR UPDATE
    auditEvents     \* committed rows of audit_events

vars == <<clock, pc, timestamp, previousHash, chainState, rowHolder, auditEvents>>

AuditEvent == [id            : Events,
               tenant        : Tenants,
               timestamp     : Timestamps,
               previous_hash : Events \cup {NoHash}]

Stages == {"idle", "built", "open", "ensured", "locked", "acked", "failed"}

InTransaction(e) == pc[e] \in {"open", "ensured", "locked"}
Connections == {e \in Events : InTransaction(e)}
StoredIds == {x.id : x \in auditEvents}
EventsOf(t) == {x \in auditEvents : x.tenant = t}

\* Mutants (M_...) stand before the definition they replace: each is a plausible
\* error in that code, used to show that a property notices it.
M_ReleaseRow_Kept(e) == rowHolder' = rowHolder

\* The transaction of e ends: the database drops every lock it held.
ReleaseRow(e) == rowHolder' = [t \in Tenants |->
                                 IF rowHolder[t] = e THEN Nobody ELSE rowHolder[t]]

Init ==
    /\ clock = 0
    /\ pc = [e \in Events |-> "idle"]
    /\ timestamp = [e \in Events |-> 0]
    /\ previousHash = [e \in Events |-> NoHash]
    /\ chainState = [t \in Tenants |-> NoRow]
    /\ rowHolder = [t \in Tenants |-> Nobody]
    /\ auditEvents = {}

Tick ==
    /\ clock < MaxClock
    /\ clock' = clock + 1
    /\ UNCHANGED <<pc, timestamp, previousHash, chainState, rowHolder, auditEvents>>

\* The handler builds the event; its timestamp is the default_factory's now(),
\* taken here and not when the row is locked.
Build(e) ==
    /\ pc[e] = "idle"
    /\ pc' = [pc EXCEPT ![e] = "built"]
    /\ timestamp' = [timestamp EXCEPT ![e] = clock]
    /\ UNCHANGED <<clock, previousHash, chainState, rowHolder, auditEvents>>

\* The first statement of the append takes a pooled connection, if one is free.
Checkout(e) ==
    /\ pc[e] = "built"
    /\ Cardinality(Connections) < PoolLimit
    /\ pc' = [pc EXCEPT ![e] = "open"]
    /\ UNCHANGED <<clock, timestamp, previousHash, chainState, rowHolder, auditEvents>>

\* DO NOTHING taken at once, without waiting for a concurrent inserter.
M_EnsureRow_NoWait(e) ==
    LET t == TenantOf[e] IN
    /\ pc[e] = "open"
    /\ IF chainState[t] = NoRow /\ rowHolder[t] = Nobody
          THEN rowHolder' = [rowHolder EXCEPT ![t] = e]
          ELSE UNCHANGED rowHolder
    /\ pc' = [pc EXCEPT ![e] = "ensured"]
    /\ UNCHANGED <<clock, timestamp, previousHash, chainState, auditEvents>>

\* ON CONFLICT DO UPDATE SET latest_event_hash = NULL, committed on its own.
M_EnsureRow_Overwrites(e) ==
    LET t == TenantOf[e] IN
    /\ pc[e] = "open"
    /\ rowHolder[t] = Nobody
    /\ chainState' = [chainState EXCEPT ![t] = NoHash]
    /\ pc' = [pc EXCEPT ![e] = "ensured"]
    /\ UNCHANGED <<clock, timestamp, previousHash, rowHolder, auditEvents>>

\* INSERT ... ON CONFLICT DO NOTHING.  With a committed row it does nothing;
\* without one it waits for any other transaction that is inserting the row.
EnsureRow(e) ==
    LET t == TenantOf[e] IN
    /\ pc[e] = "open"
    /\ \/ /\ chainState[t] # NoRow
          /\ UNCHANGED rowHolder
       \/ /\ chainState[t] = NoRow
          /\ rowHolder[t] = Nobody
          /\ rowHolder' = [rowHolder EXCEPT ![t] = e]
    /\ pc' = [pc EXCEPT ![e] = "ensured"]
    /\ UNCHANGED <<clock, timestamp, previousHash, chainState, auditEvents>>

M_HeadSeen_Raw(t) == chainState[t]

\* The head a transaction that holds the row reads: the one committed, or the
\* NULL of the row it has just inserted itself.
HeadSeen(t) == IF chainState[t] = NoRow THEN NoHash ELSE chainState[t]

\* The SELECT without FOR UPDATE: it neither waits nor locks.
M_LockRow_PlainRead(e) ==
    /\ pc[e] = "ensured"
    /\ previousHash' = [previousHash EXCEPT ![e] = HeadSeen(TenantOf[e])]
    /\ pc' = [pc EXCEPT ![e] = "locked"]
    /\ UNCHANGED <<clock, timestamp, chainState, rowHolder, auditEvents>>

\* SELECT ... FOR UPDATE, which waits for the row's holder; then, in memory,
\* previous_hash and event_hash are set.
LockRow(e) ==
    LET t == TenantOf[e] IN
    /\ pc[e] = "ensured"
    /\ rowHolder[t] \in {Nobody, e}
    /\ rowHolder' = [rowHolder EXCEPT ![t] = e]
    /\ previousHash' = [previousHash EXCEPT ![e] = HeadSeen(t)]
    /\ pc' = [pc EXCEPT ![e] = "locked"]
    /\ UNCHANGED <<clock, timestamp, chainState, auditEvents>>

\* The head is not advanced.
M_StoreEvent_HeadKept(e) ==
    /\ auditEvents' = auditEvents \cup
          {[id |-> e, tenant |-> TenantOf[e], timestamp |-> timestamp[e],
            previous_hash |-> previousHash[e]]}
    /\ chainState' = [chainState EXCEPT ![TenantOf[e]] = HeadSeen(TenantOf[e])]
    /\ ReleaseRow(e)
    /\ UNCHANGED <<clock, timestamp, previousHash>>

\* What COMMIT makes visible: the event and the advanced head.
StoreEvent(e) ==
    LET t == TenantOf[e] IN
    /\ auditEvents' = auditEvents \cup
          {[id |-> e, tenant |-> t, timestamp |-> timestamp[e],
            previous_hash |-> previousHash[e]]}
    /\ chainState' = [chainState EXCEPT ![t] = e]
    /\ ReleaseRow(e)
    /\ UNCHANGED <<clock, timestamp, previousHash>>

\* The commit is forgotten: closing the session rolls back.
M_Commit_Forgotten(e) ==
    /\ pc[e] = "locked"
    /\ ReleaseRow(e)
    /\ pc' = [pc EXCEPT ![e] = "acked"]
    /\ UNCHANGED <<clock, timestamp, previousHash, chainState, auditEvents>>

Commit(e) ==
    /\ pc[e] = "locked"
    /\ StoreEvent(e)
    /\ pc' = [pc EXCEPT ![e] = "acked"]

\* The database commits but the reply never reaches the worker: the request
\* ends in an error although its event is stored.
CommitReplyLost(e) ==
    /\ pc[e] = "locked"
    /\ StoreEvent(e)
    /\ pc' = [pc EXCEPT ![e] = "failed"]

\* The event and the head are committed separately and the failure falls
\* between the two.
M_Fail_Halfway(e) ==
    /\ pc[e] = "locked"
    /\ auditEvents' = auditEvents \cup
          {[id |-> e, tenant |-> TenantOf[e], timestamp |-> timestamp[e],
            previous_hash |-> previousHash[e]]}
    /\ pc' = [pc EXCEPT ![e] = "failed"]
    /\ ReleaseRow(e)
    /\ UNCHANGED <<clock, timestamp, previousHash, chainState>>

\* Pool timeout, lost connection, failing statement or dead worker: nothing
\* of the transaction remains.
Fail(e) ==
    /\ pc[e] = "built" \/ InTransaction(e)
    /\ pc' = [pc EXCEPT ![e] = "failed"]
    /\ ReleaseRow(e)
    /\ UNCHANGED <<clock, timestamp, previousHash, chainState, auditEvents>>

Ended(e) == pc[e] \in {"acked", "failed"}

\* Every request has been answered and no more arrive.
Quiescent ==
    /\ \A e \in Events : Ended(e)
    /\ UNCHANGED vars

Request(e) ==
    \/ Build(e) \/ Checkout(e) \/ EnsureRow(e) \/ LockRow(e)
    \/ Commit(e) \/ CommitReplyLost(e) \/ Fail(e)

Next == Tick \/ (\E e \in Events : Request(e)) \/ Quiescent

Spec == Init /\ [][Next]_vars

\* A worker runs every task that is ready, and the database eventually runs the
\* statement of a session that waits for nothing.  Nothing makes a request
\* arrive or fail.
Progress(e) == Checkout(e) \/ EnsureRow(e) \/ LockRow(e) \/ Commit(e)
FairSpec == Spec /\ \A e \in Events : WF_vars(Progress(e))

-----------------------------------------------------------------------------
(* Properties *)

\* Every variable keeps its type: a previous hash is an event's or NULL and never
\* the absence of the tenant's row.
TypeOK ==
    /\ clock \in Timestamps
    /\ pc \in [Events -> Stages]
    /\ timestamp \in [Events -> Timestamps]
    /\ previousHash \in [Events -> Events \cup {NoHash}]
    /\ chainState \in [Tenants -> Events \cup {NoHash, NoRow}]
    /\ rowHolder \in [Tenants -> Events \cup {Nobody}]
    /\ auditEvents \in SUBSET AuditEvent

\* No two events of a tenant link to the same predecessor, and at most one is
\* a root: the forks that the chain row's lock exists to prevent.
NoFork ==
    \A x, y \in auditEvents :
        x.tenant = y.tenant /\ x.previous_hash = y.previous_hash => x = y

\* The committed head ends its tenant's chain: a head that is an event is stored
\* and no event links to it yet, and a tenant without a head has no root event.
HeadIsTip ==
    \A t \in Tenants :
        /\ HeadSeen(t) # NoHash => \E x \in EventsOf(t) : x.id = HeadSeen(t)
        /\ \A x \in EventsOf(t) : x.previous_hash # HeadSeen(t)

\* Following previous_hash from the tenant's head passes every stored event of
\* the tenant exactly once and ends at a root: a verifier that walks the chain
\* misses nothing.
LinearChain ==
    \A t \in Tenants :
        LET E == EventsOf(t)
            n == Cardinality(E)
            Prev(h) == (CHOOSE x \in E : x.id = h).previous_hash
            walk[i \in 0..n] == IF i = 0 THEN HeadSeen(t)
                                ELSE IF walk[i - 1] \in {x.id : x \in E}
                                     THEN Prev(walk[i - 1]) ELSE NoRow
        IN  /\ {walk[i] : i \in 0..(n - 1)} = {x.id : x \in E}
            /\ walk[n] = NoHash

\* A request answered with success has its event stored with the very fields
\* that were hashed; one still waiting for its lock has stored nothing.
AckedIsStored ==
    \A e \in Events :
        /\ pc[e] = "acked" =>
              [id |-> e, tenant |-> TenantOf[e], timestamp |-> timestamp[e],
               previous_hash |-> previousHash[e]] \in auditEvents
        /\ pc[e] \notin {"acked", "failed"} => e \notin StoredIds

\* The SELECT ... FOR UPDATE finds a row (scalar_one would raise): a request
\* past its INSERT sees the row committed or inserted it itself.
RowVisible ==
    \A e \in Events :
        pc[e] = "ensured" => \/ chainState[TenantOf[e]] # NoRow
                             \/ rowHolder[TenantOf[e]] = e

\* The append is atomic to everyone else: it implements AuditLedger, although
\* the head is read in one step and the event stored in a later one.
latestHash == [t \in Tenants |-> HeadSeen(t)]
Ledger == INSTANCE AuditLedger
    WITH auditEvents <- auditEvents, latestHash <- latestHash
ImplementsLedger == Ledger!LedgerSpec

\* Every append that was started is answered, with success or with an error:
\* neither the pool nor the row locks leave a request waiting for ever.
EveryAppendEnds == \A e \in Events : pc[e] = "built" ~> Ended(e)

\* Appends of different tenants never block each other: a request that waits for
\* a connection is not kept waiting by the queue for another tenant's row.
TenantsDoNotBlock ==
    \A e \in Events : \A t \in Tenants \ {TenantOf[e]} :
        ~ /\ pc[e] = "built"
          /\ Cardinality(Connections) = PoolLimit
          /\ rowHolder[t] # Nobody
          /\ \A f \in Connections : TenantOf[f] = t
=============================================================================
