--------------------------- MODULE AuditChainProofs ---------------------------
(***************************************************************************)
(* Theorems about AuditChain for any number of requests and tenants, any   *)
(* pool size and any clock bound.                                          *)
(***************************************************************************)
EXTENDS AuditChain, FiniteSetTheorems, WellFoundedInduction, TLAPS

\* A row is held only by an open transaction of its own tenant, past its INSERT.
HolderIsOpen ==
    \A e \in Events, t \in Tenants :
        rowHolder[t] = e => t = TenantOf[e] /\ pc[e] \in {"ensured", "locked"}

\* The head a locked request has linked its event to is still the head: what
\* was read in one step is current in the step that uses it.
LockedHeadIsCurrent ==
    \A e \in Events :
        pc[e] = "locked" => /\ rowHolder[TenantOf[e]] = e
                            /\ previousHash[e] = HeadSeen(TenantOf[e])

\* Stored events belong to requests that have ended, in their own tenant's chain.
StoredHaveEnded ==
    \A x \in auditEvents : x.tenant = TenantOf[x.id] /\ Ended(x.id)

\* An event links to a stored event of its tenant, or is a root.
LinksAreStored ==
    \A x \in auditEvents :
        x.previous_hash # NoHash =>
            \E y \in auditEvents : y.id = x.previous_hash /\ y.tenant = x.tenant

\* NoFork and HeadIsTip are not inductive alone: a commit keeps them because
\* the lock has kept the head unchanged since it was read, and because nothing
\* stored can already link to the event being stored.
ChainInv ==
    /\ TypeOK
    /\ HolderIsOpen
    /\ LockedHeadIsCurrent
    /\ StoredHaveEnded
    /\ LinksAreStored
    /\ HeadIsTip
    /\ NoFork
    /\ RowVisible
    /\ AckedIsStored

\* c lists the hashes a walk from the tenant's head meets: those of its events,
\* each followed by what it links to, and NULL after the last.
IsChain(c, t) ==
    LET n == Cardinality(EventsOf(t)) IN
    /\ c[0] = HeadSeen(t) /\ c[n] = NoHash
    /\ \A i \in 0..(n - 1) : \E x \in EventsOf(t) : x.id = c[i] /\ x.previous_hash = c[i + 1]
    /\ \A x \in EventsOf(t) : \E i \in 0..(n - 1) : x.id = c[i]

\* LinearChain speaks of what a walk computes; what a commit extends by one event
\* is the list of the hashes that the walk meets.
ListInv ==
    /\ \A x, y \in auditEvents : x.id = y.id => x = y
    /\ \A t \in Tenants :
          /\ IsFiniteSet(EventsOf(t))
          /\ \E c \in [0..Cardinality(EventsOf(t)) -> Events \cup {NoHash}] : IsChain(c, t)

-----------------------------------------------------------------------------
\* The two facts a type invariant rests on: it holds at the start and every step
\* keeps it.
LEMMA InitType == Init => TypeOK
BY TenantAssumption, BoundAssumption, NullAssumption
DEF Init, TypeOK, Stages, Timestamps, AuditEvent

LEMMA StepKeepsType == TypeOK /\ [Next]_vars => TypeOK'
<1> USE TenantAssumption, BoundAssumption, NullAssumption DEF TypeOK, Stages, Timestamps
<1> SUFFICES ASSUME TypeOK, [Next]_vars PROVE TypeOK'
  OBVIOUS
<1>1. CASE Tick
  BY <1>1 DEF Tick
<1>2. ASSUME NEW e \in Events, Build(e) PROVE TypeOK'
  BY <1>2 DEF Build
<1>3. ASSUME NEW e \in Events, Checkout(e) PROVE TypeOK'
  BY <1>3 DEF Checkout
<1>4. ASSUME NEW e \in Events, EnsureRow(e) PROVE TypeOK'
  BY <1>4 DEF EnsureRow
<1>5. ASSUME NEW e \in Events, LockRow(e) PROVE TypeOK'
  BY <1>5 DEF LockRow, HeadSeen
<1>6. ASSUME NEW e \in Events, StoreEvent(e),
             pc' \in [Events -> Stages]
      PROVE TypeOK'
  BY <1>6 DEF StoreEvent, ReleaseRow, AuditEvent
<1>7. ASSUME NEW e \in Events, Commit(e) \/ CommitReplyLost(e) PROVE TypeOK'
  BY <1>6, <1>7 DEF Commit, CommitReplyLost
<1>8. ASSUME NEW e \in Events, Fail(e) PROVE TypeOK'
  BY <1>8 DEF Fail, ReleaseRow
<1>9. CASE UNCHANGED vars
  BY <1>9 DEF vars
<1>10. QED
  BY <1>1, <1>2, <1>3, <1>4, <1>5, <1>7, <1>8, <1>9
  DEF Next, Request, Quiescent

\* Every variable keeps its type in every state of the append.
THEOREM TypeCorrect == Spec => []TypeOK
BY InitType, StepKeepsType, PTL DEF Spec

-----------------------------------------------------------------------------
\* Storing the event of a locked request keeps the invariant, whether or not the
\* request learns of it.
LEMMA StoreKeepsChainInv ==
    ASSUME ChainInv, NEW e \in Events, pc[e] = "locked", StoreEvent(e),
           NEW s \in {"acked", "failed"}, pc' = [pc EXCEPT ![e] = s]
    PROVE  ChainInv'
<1> USE TenantAssumption, NullAssumption
<1> DEFINE t == TenantOf[e]
           new == [id |-> e, tenant |-> t, timestamp |-> timestamp[e],
                   previous_hash |-> previousHash[e]]
<1> USE DEF ChainInv
<1>1. /\ t \in Tenants
      /\ auditEvents' = auditEvents \cup {new}
      /\ chainState' = [chainState EXCEPT ![t] = e]
      /\ UNCHANGED <<clock, timestamp, previousHash>>
  BY DEF StoreEvent
<1>2. /\ rowHolder[t] = e
      /\ previousHash[e] = HeadSeen(t)
      /\ \A x \in auditEvents : x.id # e /\ x.previous_hash # e
  BY DEF LockedHeadIsCurrent, StoredHaveEnded, LinksAreStored, Ended
<1>3. \A u \in Tenants : HeadSeen(u)' = IF u = t THEN e ELSE HeadSeen(u)
  BY <1>1 DEF HeadSeen, TypeOK
<1>4. \A u \in Tenants : rowHolder'[u] = IF u = t THEN Nobody ELSE rowHolder[u]
  BY <1>1, <1>2 DEF StoreEvent, ReleaseRow, HolderIsOpen, TypeOK
<1>5. \A f \in Events : pc'[f] = IF f = e THEN s ELSE pc[f]
  BY DEF TypeOK
<1>6. TypeOK'
  BY <1>1, <1>5 DEF TypeOK, StoreEvent, ReleaseRow, AuditEvent, Stages
<1>7. HolderIsOpen'
  BY <1>4, <1>5 DEF HolderIsOpen
<1>8. LockedHeadIsCurrent'
  <2> SUFFICES ASSUME NEW f \in Events, pc'[f] = "locked"
               PROVE  /\ rowHolder'[TenantOf[f]] = f
                      /\ previousHash'[f] = HeadSeen(TenantOf[f])'
    BY DEF LockedHeadIsCurrent, HeadSeen
  <2>1. f # e /\ rowHolder[TenantOf[f]] = f /\ previousHash[f] = HeadSeen(TenantOf[f])
    BY <1>5 DEF LockedHeadIsCurrent
  <2>2. TenantOf[f] # t
    BY <2>1, <1>2
  <2>3. QED
    BY <1>1, <1>3, <1>4, <2>1, <2>2
<1>9. StoredHaveEnded'
  BY <1>1, <1>5 DEF StoredHaveEnded, Ended, TypeOK, AuditEvent
<1>10. LinksAreStored'
  <2>1. previousHash[e] # NoHash =>
            \E y \in auditEvents : y.id = previousHash[e] /\ y.tenant = t
    BY <1>1, <1>2 DEF HeadIsTip, EventsOf
  <2>2. QED
    BY <1>1, <2>1 DEF LinksAreStored
<1>11. HeadIsTip'
  <2> SUFFICES ASSUME NEW u \in Tenants
               PROVE  /\ HeadSeen(u)' # NoHash =>
                             \E x \in EventsOf(u)' : x.id = HeadSeen(u)'
                      /\ \A x \in EventsOf(u)' : x.previous_hash # HeadSeen(u)'
    BY DEF HeadIsTip
  <2>1. CASE u = t
    <3>1. HeadSeen(u)' = e
      BY <1>3, <2>1
    <3>2. new \in EventsOf(u)' /\ new.id = e
      BY <1>1, <2>1 DEF EventsOf
    <3>3. previousHash[e] # e
      BY <1>1, <1>2 DEF HeadIsTip, EventsOf
    <3>4. \A x \in EventsOf(u)' : x.previous_hash # e
      BY <1>1, <1>2, <3>3 DEF EventsOf
    <3>5. QED
      BY <3>1, <3>2, <3>4
  <2>2. CASE u # t
    <3>1. HeadSeen(u)' = HeadSeen(u)
      BY <1>3, <2>2
    <3>2. EventsOf(u)' = EventsOf(u)
      BY <1>1, <2>2 DEF EventsOf
    <3>3. QED
      BY <3>1, <3>2 DEF HeadIsTip
  <2>3. QED
    BY <2>1, <2>2
<1>12. NoFork'
  <2>1. \A x \in auditEvents : x.tenant = t => x.previous_hash # previousHash[e]
    BY <1>1, <1>2 DEF HeadIsTip, EventsOf
  <2>2. QED
    BY <1>1, <2>1 DEF NoFork
<1>13. RowVisible'
  BY <1>1, <1>4, <1>5 DEF RowVisible, TypeOK
<1>14. AckedIsStored'
  BY <1>1, <1>2, <1>5 DEF AckedIsStored, StoredIds
<1>15. QED
  BY <1>6, <1>7, <1>8, <1>9, <1>10, <1>11, <1>12, <1>13, <1>14

\* Every step keeps the invariant: one case per action.
LEMMA StepKeepsChainInv == ChainInv /\ [Next]_vars => ChainInv'
<1> SUFFICES ASSUME ChainInv, [Next]_vars PROVE ChainInv'
  OBVIOUS
<1> USE TenantAssumption, NullAssumption
<1>t. TypeOK'
  BY StepKeepsType DEF ChainInv
<1>1. CASE Tick
  BY <1>t, <1>1 DEF ChainInv, Tick, HolderIsOpen, LockedHeadIsCurrent, StoredHaveEnded,
     LinksAreStored, HeadIsTip, NoFork, RowVisible, AckedIsStored, HeadSeen, EventsOf,
     StoredIds, Ended
<1>2. ASSUME NEW e \in Events, Build(e) PROVE ChainInv'
  BY <1>t, <1>2 DEF ChainInv, Build, HolderIsOpen, LockedHeadIsCurrent, StoredHaveEnded,
     LinksAreStored, HeadIsTip, NoFork, RowVisible, AckedIsStored, HeadSeen, EventsOf,
     StoredIds, Ended, TypeOK
<1>3. ASSUME NEW e \in Events, Checkout(e) PROVE ChainInv'
  BY <1>t, <1>3 DEF ChainInv, Checkout, HolderIsOpen, LockedHeadIsCurrent, StoredHaveEnded,
     LinksAreStored, HeadIsTip, NoFork, RowVisible, AckedIsStored, HeadSeen, EventsOf,
     StoredIds, Ended, TypeOK
<1>4. ASSUME NEW e \in Events, EnsureRow(e) PROVE ChainInv'
  BY <1>t, <1>4 DEF ChainInv, EnsureRow, HolderIsOpen, LockedHeadIsCurrent, StoredHaveEnded,
     LinksAreStored, HeadIsTip, NoFork, RowVisible, AckedIsStored, HeadSeen, EventsOf,
     StoredIds, Ended, TypeOK
<1>5. ASSUME NEW e \in Events, LockRow(e) PROVE ChainInv'
  BY <1>t, <1>5 DEF ChainInv, LockRow, HolderIsOpen, LockedHeadIsCurrent, StoredHaveEnded,
     LinksAreStored, HeadIsTip, NoFork, RowVisible, AckedIsStored, HeadSeen, EventsOf,
     StoredIds, Ended, TypeOK
<1>6. ASSUME NEW e \in Events, Commit(e) PROVE ChainInv'
  BY <1>6, StoreKeepsChainInv DEF Commit
<1>7. ASSUME NEW e \in Events, CommitReplyLost(e) PROVE ChainInv'
  BY <1>7, StoreKeepsChainInv DEF CommitReplyLost
<1>8. ASSUME NEW e \in Events, Fail(e) PROVE ChainInv'
  BY <1>t, <1>8 DEF ChainInv, Fail, HolderIsOpen, LockedHeadIsCurrent, StoredHaveEnded,
     LinksAreStored, HeadIsTip, NoFork, RowVisible, AckedIsStored, HeadSeen, EventsOf,
     StoredIds, Ended, TypeOK, ReleaseRow, InTransaction
<1>9. CASE UNCHANGED vars
  BY <1>t, <1>9 DEF ChainInv, vars, HolderIsOpen, LockedHeadIsCurrent, StoredHaveEnded,
     LinksAreStored, HeadIsTip, NoFork, RowVisible, AckedIsStored, HeadSeen, EventsOf,
     StoredIds, Ended
<1>10. QED
  BY <1>1, <1>2, <1>3, <1>4, <1>5, <1>6, <1>7, <1>8, <1>9 DEF Next, Request, Quiescent

\* The inductive invariant holds in every reachable state.
LEMMA ChainInvHolds == Spec => []ChainInv
<1>1. Init => ChainInv
  BY InitType, TenantAssumption, NullAssumption
  DEF Init, ChainInv, HolderIsOpen, LockedHeadIsCurrent, StoredHaveEnded,
      LinksAreStored, HeadIsTip, NoFork, RowVisible, AckedIsStored, HeadSeen,
      EventsOf, StoredIds, Ended
<1>2. QED
  BY <1>1, StepKeepsChainInv, PTL DEF Spec

-----------------------------------------------------------------------------
\* The chain of a tenant never forks, however appends of any number of requests
\* interleave, fail or lose the reply to their commit.
THEOREM ChainNeverForks == Spec => []NoFork
BY ChainInvHolds, PTL DEF ChainInv

\* The committed head of audit_chain_state is always the end of its chain.
THEOREM HeadIsAlwaysTip == Spec => []HeadIsTip
BY ChainInvHolds, PTL DEF ChainInv

\* An acknowledged append is stored with the fields that were hashed.
THEOREM AckedEventsAreStored == Spec => []AckedIsStored
BY ChainInvHolds, PTL DEF ChainInv

\* SELECT ... FOR UPDATE always finds the row that the INSERT ensured.
THEOREM LockedRowExists == Spec => []RowVisible
BY ChainInvHolds, PTL DEF ChainInv

\* The append is atomic to its observers: every step of AuditChain is one
\* LedgerAppend of AuditLedger or changes nothing the ledger shows.
THEOREM ChainImplementsLedger == Spec => ImplementsLedger
<1> USE TenantAssumption, NullAssumption
<1>1. Init => Ledger!LedgerInit
  BY DEF Init, Ledger!LedgerInit, latestHash, HeadSeen
<1>2. ASSUME ChainInv, NEW e \in Events, pc[e] = "locked", StoreEvent(e)
      PROVE  Ledger!LedgerAppend(e, TenantOf[e], timestamp[e])
  <2>1. previousHash[e] = latestHash[TenantOf[e]]
    BY <1>2 DEF ChainInv, LockedHeadIsCurrent, latestHash
  <2>2. \A x \in auditEvents : x.id # e
    BY <1>2 DEF ChainInv, StoredHaveEnded, Ended
  <2>3. latestHash' = [latestHash EXCEPT ![TenantOf[e]] = e]
    BY <1>2 DEF StoreEvent, latestHash, HeadSeen, ChainInv, TypeOK
  <2>4. QED
    BY <1>2, <2>1, <2>2, <2>3 DEF StoreEvent, Ledger!LedgerAppend
<1>3. ChainInv /\ [Next]_vars => [Ledger!LedgerNext]_(Ledger!ledgerVars)
  <2> SUFFICES ASSUME ChainInv, [Next]_vars
               PROVE  [Ledger!LedgerNext]_(Ledger!ledgerVars)
    OBVIOUS
  <2>1. ASSUME NEW e \in Events, Commit(e) \/ CommitReplyLost(e)
        PROVE  Ledger!LedgerNext
    <3>1. timestamp[e] \in Timestamps /\ TenantOf[e] \in Tenants
      BY DEF ChainInv, TypeOK
    <3>2. QED
      BY <1>2, <2>1, <3>1 DEF Commit, CommitReplyLost, Ledger!LedgerNext
  <2>2. ASSUME UNCHANGED <<auditEvents, chainState>>
        PROVE  UNCHANGED Ledger!ledgerVars
    BY <2>2 DEF Ledger!ledgerVars, latestHash, HeadSeen
  <2>3. QED
    BY <2>1, <2>2 DEF Next, Request, Tick, Build, Checkout, EnsureRow, LockRow, Fail,
       Quiescent, vars
<1>4. QED
  BY <1>1, <1>3, ChainInvHolds, PTL DEF Spec, ImplementsLedger, Ledger!LedgerSpec
-----------------------------------------------------------------------------
(* The walk along a chain *)

\* A set of numbers that is not empty has a least element.
LEMMA LeastNat ==
    ASSUME NEW T \in SUBSET Nat, T # {}
    PROVE  \E n \in T : \A m \in T : n <= m
<1> DEFINE R == OpToRel(<, Nat)
<1>1. IsWellFoundedOn(R, Nat)
  BY NatLessThanWellFounded
<1>2. ASSUME NEW x \in Nat, NEW y \in Nat, y < x PROVE <<y, x>> \in R
  BY <1>2 DEF OpToRel
<1> HIDE DEF R
<1>3. PICK x \in T : \A y \in T : ~(<<y, x>> \in R)
  BY <1>1, WFMin
<1>4. \A y \in T : ~(y < x)
  BY <1>2, <1>3
<1>5. QED
  BY <1>4

\* The event of a commit goes to the front of its tenant's list.
LEMMA StoreKeepsListInv ==
    ASSUME ChainInv, ListInv, NEW e \in Events, pc[e] = "locked", StoreEvent(e)
    PROVE  ListInv'
<1> USE TenantAssumption, NullAssumption
<1> DEFINE t == TenantOf[e]
           new == [id |-> e, tenant |-> t, timestamp |-> timestamp[e],
                   previous_hash |-> previousHash[e]]
<1>1. /\ t \in Tenants
      /\ auditEvents' = auditEvents \cup {new}
      /\ chainState' = [chainState EXCEPT ![t] = e]
      /\ chainState \in [Tenants -> Events \cup {NoHash, NoRow}]
  BY DEF StoreEvent, ChainInv, TypeOK
<1>2. /\ previousHash[e] = HeadSeen(t)
      /\ \A x \in auditEvents : x.id # e
  BY DEF ChainInv, LockedHeadIsCurrent, StoredHaveEnded, Ended
<1>3. \A u \in Tenants : HeadSeen(u)' = IF u = t THEN e ELSE HeadSeen(u)
  BY <1>1 DEF HeadSeen
<1>4. \A u \in Tenants \ {t} : EventsOf(u)' = EventsOf(u)
  BY <1>1 DEF EventsOf
<1>5. EventsOf(t)' = EventsOf(t) \cup {new} /\ new \notin EventsOf(t)
  BY <1>1, <1>2 DEF EventsOf
<1>6. new.id = e /\ new.previous_hash = HeadSeen(t)
  BY <1>2
<1> HIDE DEF new
<1>7. \A x, y \in auditEvents' : x.id = y.id => x = y
  BY <1>1, <1>2, <1>6 DEF ListInv
<1>8. ASSUME NEW u \in Tenants \ {t}
      PROVE  /\ IsFiniteSet(EventsOf(u)')
             /\ \E c \in [0..Cardinality(EventsOf(u)') -> Events \cup {NoHash}] : IsChain(c, u)'
  <2>1. EventsOf(u)' = EventsOf(u) /\ HeadSeen(u)' = HeadSeen(u)
    BY <1>3, <1>4
  <2>2. IsFiniteSet(EventsOf(u))
    BY DEF ListInv
  <2>3. PICK c \in [0..Cardinality(EventsOf(u)) -> Events \cup {NoHash}] : IsChain(c, u)
    BY DEF ListInv
  <2>4. IsChain(c, u)'
    BY <2>1, <2>3 DEF IsChain
  <2>5. QED
    BY <2>1, <2>2, <2>3, <2>4
<1>9. /\ IsFiniteSet(EventsOf(t)')
      /\ \E c \in [0..Cardinality(EventsOf(t)') -> Events \cup {NoHash}] : IsChain(c, t)'
  <2> DEFINE E == EventsOf(t)
             n == Cardinality(E)
  <2>1. IsFiniteSet(E) /\ n \in Nat
    BY <1>1, FS_CardinalityType DEF ListInv
  <2>2. IsFiniteSet(E') /\ Cardinality(E') = n + 1
    BY <1>5, <2>1, FS_AddElement
  <2>3. PICK c \in [0..n -> Events \cup {NoHash}] : IsChain(c, t)
    BY <1>1 DEF ListInv
  <2>4. /\ c[0] = HeadSeen(t) /\ c[n] = NoHash
        /\ \A i \in 0..(n - 1) : \E x \in E : x.id = c[i] /\ x.previous_hash = c[i + 1]
        /\ \A x \in E : \E i \in 0..(n - 1) : x.id = c[i]
    BY <2>3 DEF IsChain
  <2>5. E' = E \cup {new} /\ HeadSeen(t)' = e
    BY <1>1, <1>3, <1>5
  <2> HIDE DEF E, n
  <2>6. PICK d \in [0..(n + 1) -> Events \cup {NoHash}] :
            d = [i \in 0..(n + 1) |-> IF i = 0 THEN e ELSE c[i - 1]]
    <3> DEFINE f == [i \in 0..(n + 1) |-> IF i = 0 THEN e ELSE c[i - 1]]
    <3>1. f \in [0..(n + 1) -> Events \cup {NoHash}]
      BY <2>1
    <3>2. QED
      BY <3>1
  <2>7. d[0] = e /\ d[n + 1] = NoHash /\ \A i \in 0..n : d[i + 1] = c[i]
    BY <2>1, <2>4, <2>6
  <2>8. ASSUME NEW i \in 0..n
        PROVE  \E x \in E' : x.id = d[i] /\ x.previous_hash = d[i + 1]
    <3>1. CASE i = 0
      BY <1>6, <2>1, <2>4, <2>5, <2>7, <3>1
    <3>2. CASE i # 0
      <4>1. i - 1 \in 0..(n - 1) /\ d[i] = c[i - 1] /\ d[i + 1] = c[i] /\ (i - 1) + 1 = i
        BY <2>1, <2>7, <3>2
      <4>2. PICK x \in E : x.id = c[i - 1] /\ x.previous_hash = c[(i - 1) + 1]
        BY <2>4, <4>1
      <4>3. QED
        BY <2>5, <4>1, <4>2
    <3>3. QED
      BY <3>1, <3>2
  <2>9. ASSUME NEW x \in E'
        PROVE  \E i \in 0..n : x.id = d[i]
    <3>1. CASE x = new
      BY <1>6, <2>1, <2>7, <3>1
    <3>2. CASE x \in E
      <4>1. PICK i \in 0..(n - 1) : x.id = c[i]
        BY <2>4, <3>2
      <4>2. i + 1 \in 0..n /\ x.id = d[i + 1]
        BY <2>1, <2>7, <4>1
      <4>3. QED
        BY <4>2
    <3>3. QED
      BY <2>5, <3>1, <3>2
  <2>10. IsChain(d, t)'
    <3>1. Cardinality(EventsOf(t)') = n + 1 /\ (n + 1) - 1 = n /\ EventsOf(t)' = E'
      BY <2>1, <2>2 DEF E
    <3>2. QED
      BY <2>5, <2>7, <2>8, <2>9, <3>1 DEF IsChain
  <2>11. IsFiniteSet(EventsOf(t)') /\ Cardinality(EventsOf(t)') = n + 1
    BY <2>2 DEF E
  <2>12. QED
    BY <2>6, <2>10, <2>11
<1>10. QED
  BY <1>7, <1>8, <1>9 DEF ListInv

\* The walk of LinearChain meets what the tenant's list holds.
LEMMA WalksAlongList == ListInv /\ ChainInv => LinearChain
<1> SUFFICES ASSUME ListInv, ChainInv, NEW t \in Tenants
             PROVE  LET E == EventsOf(t)
                        n == Cardinality(E)
                        Prev(h) == (CHOOSE x \in E : x.id = h).previous_hash
                        walk[i \in 0..n] == IF i = 0 THEN HeadSeen(t)
                                            ELSE IF walk[i - 1] \in {x.id : x \in E}
                                                 THEN Prev(walk[i - 1]) ELSE NoRow
                    IN  /\ {walk[i] : i \in 0..(n - 1)} = {x.id : x \in E}
                        /\ walk[n] = NoHash
  BY DEF LinearChain
<1> DEFINE E == EventsOf(t)
           n == Cardinality(E)
           Prev(h) == (CHOOSE x \in E : x.id = h).previous_hash
           Ids == {x.id : x \in E}
           walk[i \in 0..n] == IF i = 0 THEN HeadSeen(t)
                               ELSE IF walk[i - 1] \in {x.id : x \in E}
                                    THEN Prev(walk[i - 1]) ELSE NoRow
<1>1. n \in Nat
  BY FS_CardinalityType DEF ListInv
<1>2. PICK c \in [0..n -> Events \cup {NoHash}] : IsChain(c, t)
  BY DEF ListInv
<1>3. /\ c[0] = HeadSeen(t) /\ c[n] = NoHash
      /\ \A i \in 0..(n - 1) : \E x \in E : x.id = c[i] /\ x.previous_hash = c[i + 1]
      /\ \A x \in E : \E i \in 0..(n - 1) : x.id = c[i]
  BY <1>2 DEF IsChain
<1>4. \A x \in E : Prev(x.id) = x.previous_hash
  <2>1. \A x, y \in E : x.id = y.id => x = y
    BY DEF ListInv, EventsOf
  <2> HIDE DEF E
  <2>2. QED
    BY <2>1
<1> HIDE DEF E, n, Prev
<1>5. ASSUME NEW i \in 0..n, i # 0
      PROVE  c[i - 1] \in {x.id : x \in E} /\ Prev(c[i - 1]) = c[i]
  <2>1. i - 1 \in 0..(n - 1) /\ (i - 1) + 1 = i
    BY <1>1, <1>5
  <2>2. PICK x \in E : x.id = c[i - 1] /\ x.previous_hash = c[(i - 1) + 1]
    BY <1>3, <2>1
  <2>3. QED
    BY <1>4, <2>1, <2>2
<1>6. c = [i \in 0..n |-> IF i = 0 THEN HeadSeen(t)
                          ELSE IF c[i - 1] \in {x.id : x \in E}
                               THEN Prev(c[i - 1]) ELSE NoRow]
  BY <1>3, <1>5
<1>7. walk = [i \in 0..n |-> IF i = 0 THEN HeadSeen(t)
                             ELSE IF walk[i - 1] \in {x.id : x \in E}
                                  THEN Prev(walk[i - 1]) ELSE NoRow]
  BY <1>6, Zenon DEF walk
<1> HIDE DEF walk
<1>8. \A i \in 0..n : walk[i] = c[i]
  <2> DEFINE Off == {i \in 0..n : walk[i] # c[i]}
  <2> SUFFICES ASSUME Off # {} PROVE FALSE
    OBVIOUS
  <2>0. Off \in SUBSET Nat
    BY <1>1
  <2>1. PICK i \in Off : \A j \in Off : i <= j
    <3> HIDE DEF Off
    <3>1. QED
      BY <2>0, LeastNat
  <2>2. CASE i = 0
    BY <1>1, <1>3, <1>7, <2>1, <2>2
  <2>3. CASE i # 0
    <3>1. i \in 0..n /\ i - 1 \in 0..n /\ walk[i - 1] = c[i - 1]
      BY <1>1, <2>1, <2>3
    <3>2. c[i - 1] \in {x.id : x \in E} /\ Prev(c[i - 1]) = c[i]
      BY <1>5, <2>3, <3>1
    <3>3. walk[i] = c[i]
      BY <1>7, <2>3, <3>1, <3>2
    <3>4. QED
      BY <2>1, <3>3
  <2>4. QED
    BY <2>2, <2>3
<1>9. {walk[i] : i \in 0..(n - 1)} = {x.id : x \in E} /\ walk[n] = NoHash
  <2>1. walk[n] = NoHash /\ \A i \in 0..(n - 1) : walk[i] = c[i]
    BY <1>1, <1>3, <1>8
  <2>2. \A i \in 0..(n - 1) : walk[i] \in {x.id : x \in E}
    BY <1>3, <2>1
  <2>3. \A x \in E : x.id \in {walk[i] : i \in 0..(n - 1)}
    BY <1>3, <2>1
  <2>4. QED
    BY <2>1, <2>2, <2>3
<1>10. QED
  BY <1>9 DEF walk, Prev, n, E

\* Following previous_hash from the head of any tenant passes each of its events
\* once and ends at a root, however many requests append, fail or lose the reply.
THEOREM ChainsAreLinear == Spec => []LinearChain
<1> USE TenantAssumption, NullAssumption
<1>1. Init => ListInv
  <2> SUFFICES ASSUME Init PROVE ListInv
    OBVIOUS
  <2>1. /\ auditEvents = {}
        /\ \A t \in Tenants : EventsOf(t) = {} /\ HeadSeen(t) = NoHash
    BY DEF Init, EventsOf, HeadSeen
  <2>2. \A t \in Tenants : IsFiniteSet(EventsOf(t)) /\ Cardinality(EventsOf(t)) = 0
    BY <2>1, FS_EmptySet
  <2>3. ASSUME NEW t \in Tenants
        PROVE  \E c \in [0..Cardinality(EventsOf(t)) -> Events \cup {NoHash}] : IsChain(c, t)
    <3> DEFINE c == [i \in 0..0 |-> NoHash]
    <3>1. c \in [0..0 -> Events \cup {NoHash}] /\ c[0] = NoHash
      OBVIOUS
    <3> HIDE DEF c
    <3>2. 0..(0 - 1) = {}
      OBVIOUS
    <3>3. IsChain(c, t)
      BY <2>1, <2>2, <3>1, <3>2 DEF IsChain
    <3>4. QED
      BY <2>2, <3>1, <3>3
  <2>4. QED
    BY <2>1, <2>2, <2>3 DEF ListInv
<1>2. ChainInv /\ ListInv /\ [Next]_vars => ListInv'
  <2> SUFFICES ASSUME ChainInv, ListInv, [Next]_vars PROVE ListInv'
    OBVIOUS
  <2>1. ASSUME NEW e \in Events, Commit(e) \/ CommitReplyLost(e) PROVE ListInv'
    BY <2>1, StoreKeepsListInv DEF Commit, CommitReplyLost
  <2>2. CASE UNCHANGED <<auditEvents, chainState>>
    <3>1. \A t \in Tenants : EventsOf(t)' = EventsOf(t) /\ HeadSeen(t)' = HeadSeen(t)
      BY <2>2 DEF EventsOf, HeadSeen
    <3>2. ASSUME NEW t \in Tenants
          PROVE  /\ IsFiniteSet(EventsOf(t)')
                 /\ \E c \in [0..Cardinality(EventsOf(t)') -> Events \cup {NoHash}] :
                       IsChain(c, t)'
      <4>1. IsFiniteSet(EventsOf(t)) /\ EventsOf(t)' = EventsOf(t)
        BY <3>1 DEF ListInv
      <4>2. PICK c \in [0..Cardinality(EventsOf(t)) -> Events \cup {NoHash}] : IsChain(c, t)
        BY DEF ListInv
      <4>3. IsChain(c, t)'
        BY <3>1, <4>2 DEF IsChain
      <4>4. QED
        BY <4>1, <4>2, <4>3
    <3>3. QED
      BY <2>2, <3>2 DEF ListInv
  <2>3. QED
    BY <2>1, <2>2 DEF Next, Request, Tick, Build, Checkout, EnsureRow, LockRow, Fail,
       Quiescent, vars
<1>3. ListInv /\ ChainInv => LinearChain
  BY WalksAlongList
<1>4. QED
  BY <1>1, <1>2, <1>3, ChainInvHolds, PTL DEF Spec
=============================================================================
