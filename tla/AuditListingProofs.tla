-------------------------- MODULE AuditListingProofs --------------------------
(***************************************************************************)
(* Theorems about AuditListing for any number of events, timestamps and    *)
(* tenants, and any page size.                                             *)
(***************************************************************************)
EXTENDS AuditListing, FiniteSetTheorems, TLAPS

\* Every variable keeps its type, no two rows have one id, and no page delivers
\* an event twice.
ListingTypes ==
    /\ TypeOK
    /\ latestHash \in [Tenants -> Events \cup {NoHash}]
    /\ IsFiniteSet(auditEvents)
    /\ \A x, y \in auditEvents : x.id = y.id => x = y
    /\ page \in Nat
    /\ \A e \in Events : seen[e] <= IF at = "done" THEN page ELSE page - 1

\* What the walk has not delivered yet is not before its next page.
WalkInv ==
    /\ at = "idle" => page = 1
    /\ at = "select" /\ ~raced => total = Cardinality(Listed)
    /\ at \in {"count", "select"} =>
          \A e \in before : \E x \in Listed :
             x.id = e /\ (seen[e] = 0 => Position(x) >= (page - 1) * PageSize)
    /\ WalkIsComplete

-----------------------------------------------------------------------------
USE ListingAssumption

\* The number of pages of a total, as the division rounds it up.
LEMMA PagesCoverTotal ==
    ASSUME NEW n \in Nat, NEW p \in Nat
    PROVE  LET pages == (n + PageSize - 1) \div PageSize
           IN  /\ p < pages => p * PageSize < n
               /\ ~(p < pages) => n <= p * PageSize
OBVIOUS

\* Rows are as many as their ids at most.
LEMMA RowsAreFew ==
    ASSUME ListingTypes
    PROVE  /\ Cardinality(Events) \in Nat
           /\ IsFiniteSet(Listed) /\ Cardinality(Listed) \in 0..Cardinality(Events)
<1>1. Cardinality(Events) \in Nat
  BY FS_CardinalityType
<1>2. IsFiniteSet(Listed)
  BY FS_Subset DEF ListingTypes, Listed, EventsOf
<1>3. Cardinality(Listed) \in Nat
  BY <1>2, FS_CardinalityType
<1> DEFINE id == [x \in Listed |-> x.id]
<1>4. id \in Injection(Listed, Events)
  <2>1. \A x \in Listed : x.id \in Events
    BY DEF ListingTypes, TypeOK, AuditEvent, Listed, EventsOf
  <2>2. \A x, y \in Listed : x.id = y.id => x = y
    BY DEF ListingTypes, Listed, EventsOf
  <2>3. QED
    BY <2>1, <2>2 DEF Injection, IsInjective
<1> HIDE DEF id
<1>5. Cardinality(Listed) <= Cardinality(Events)
  BY <1>4, FS_Injection
<1>6. QED
  BY <1>1, <1>2, <1>3, <1>5

\* A row comes after as many others as its position says, and not after itself.
LEMMA PositionIsInside ==
    ASSUME ListingTypes, NEW x \in Listed
    PROVE  Position(x) \in Nat /\ Position(x) < Cardinality(Listed)
<1> DEFINE Earlier == {y \in Listed : Precedes(y, x)}
<1>1. IsFiniteSet(Listed) /\ Cardinality(Listed) \in Nat
  BY RowsAreFew
<1>2. x \notin Earlier
  <2>1. x.id \in Nat /\ x.timestamp \in Nat
    BY DEF ListingTypes, TypeOK, AuditEvent, Listed, EventsOf
  <2>2. QED
    BY <2>1 DEF Precedes
<1>3. /\ IsFiniteSet(Earlier) /\ Cardinality(Earlier) <= Cardinality(Listed)
      /\ Cardinality(Listed) = Cardinality(Earlier) => Listed = Earlier
  BY <1>1, FS_Subset
<1>4. Cardinality(Earlier) \in Nat
  BY <1>3, FS_CardinalityType
<1>5. Cardinality(Earlier) < Cardinality(Listed)
  BY <1>1, <1>2, <1>3, <1>4
<1>6. QED
  BY <1>4, <1>5 DEF Position

\* An append moves no row to an earlier position.
LEMMA AppendsPushBack ==
    ASSUME ListingTypes, ListingTypes', auditEvents \subseteq auditEvents',
           NEW x \in Listed
    PROVE  x \in Listed' /\ Position(x) <= Position(x)' /\ Position(x)' \in Nat
<1>1. Listed \subseteq Listed' /\ IsFiniteSet(Listed')
  <2>1. IsFiniteSet(auditEvents')
    BY DEF ListingTypes
  <2>2. Listed' \subseteq auditEvents' /\ Listed \subseteq Listed'
    BY DEF Listed, EventsOf
  <2>3. QED
    BY <2>1, <2>2, FS_Subset
<1> DEFINE Earlier == {y \in Listed : Precedes(y, x)}
           Later == {y \in Listed' : Precedes(y, x)}
<1>2. Earlier \subseteq Later /\ IsFiniteSet(Later) /\ Cardinality(Later) \in Nat
  BY <1>1, FS_Subset, FS_CardinalityType
<1>3. Cardinality(Earlier) <= Cardinality(Later)
  BY <1>2, FS_Subset
<1>4. Position(x)' = Cardinality(Later)
  BY DEF Position, Precedes
<1>5. QED
  BY <1>1, <1>2, <1>3, <1>4 DEF Position

-----------------------------------------------------------------------------
(* Types *)

\* An append keeps the types and every row there is.
LEMMA AppendKeepsTypes ==
    ListingTypes /\ Append => ListingTypes' /\ auditEvents \subseteq auditEvents'
<1> SUFFICES ASSUME ListingTypes, Append
             PROVE  ListingTypes' /\ auditEvents \subseteq auditEvents'
  OBVIOUS
<1>1. PICK e \in Events, t \in Tenants, ts \in Timestamps : LedgerAppend(e, t, ts)
  BY DEF Append, LedgerNext
<1> DEFINE x == [id |-> e, tenant |-> t, timestamp |-> ts, previous_hash |-> latestHash[t]]
<1>2. /\ auditEvents' = auditEvents \cup {x} /\ \A y \in auditEvents : y.id # e
      /\ latestHash' = [latestHash EXCEPT ![t] = e]
  BY <1>1 DEF LedgerAppend
<1>3. x \in AuditEvent /\ x.id = e
  BY DEF ListingTypes, AuditEvent
<1> HIDE DEF x
<1>4. auditEvents' \subseteq AuditEvent /\ IsFiniteSet(auditEvents')
  BY <1>2, <1>3, FS_AddElement DEF ListingTypes, TypeOK
<1>5. \A y, z \in auditEvents' : y.id = z.id => y = z
  BY <1>2, <1>3 DEF ListingTypes
<1>6. latestHash' \in [Tenants -> Events \cup {NoHash}]
  BY <1>2 DEF ListingTypes
<1>7. UNCHANGED <<at, page, total, seen, before>> /\ raced' \in BOOLEAN
  <2>1. raced' = (raced \/ (at = "select" /\ EventsOf(Reader)' # Listed)) /\ raced \in BOOLEAN
    BY DEF Append, ListingTypes, TypeOK
  <2>2. QED
    BY <2>1 DEF Append
<1>8. QED
  BY <1>2, <1>4, <1>5, <1>6, <1>7 DEF ListingTypes, TypeOK

\* The SELECT asks for no page past the last and delivers each event once at most.
LEMMA SelectKeepsTypes == ListingTypes /\ SelectPage => ListingTypes'
<1> SUFFICES ASSUME ListingTypes, SelectPage PROVE ListingTypes'
  OBVIOUS
<1>1. UNCHANGED <<auditEvents, latestHash, total, before, raced>> /\ at = "select"
  BY DEF SelectPage
<1>2. Cardinality(Events) \in Nat /\ page \in Nat /\ total \in 0..Cardinality(Events)
  BY RowsAreFew DEF ListingTypes, TypeOK
<1>3. /\ page' \in Nat
      /\ page' = 1 \/ (page' > 1 /\ (page' - 1) * PageSize < Cardinality(Events))
      /\ \/ at' = "count" /\ page' = page + 1
         \/ at' = "done" /\ page' = page
  <2>1. CASE page < TotalPages
    <3>1. page' = page + 1 /\ at' = "count"
      BY <2>1 DEF SelectPage
    <3>2. page * PageSize < total
      BY <1>2, <2>1, PagesCoverTotal DEF TotalPages
    <3>3. page >= 1 /\ page' - 1 = page
      BY <1>2, <3>1 DEF ListingTypes, TypeOK
    <3>4. page * PageSize \in Nat
      BY <1>2
    <3>5. (page' - 1) * PageSize < Cardinality(Events)
      BY <1>2, <3>2, <3>3, <3>4
    <3>6. QED
      BY <1>2, <3>1, <3>3, <3>5
  <2>2. CASE ~(page < TotalPages)
    BY <1>2, <2>2 DEF SelectPage, ListingTypes, TypeOK
  <2>3. QED
    BY <2>1, <2>2
<1>4. ASSUME NEW e \in Events
      PROVE  /\ seen'[e] \in 0..Cardinality(Events)
             /\ seen'[e] <= page
  <2>1. seen[e] \in Nat /\ seen[e] <= page - 1
    BY <1>1, <1>2 DEF ListingTypes, TypeOK
  <2>2. seen'[e] = seen[e] + 1 \/ seen'[e] = seen[e]
    BY DEF SelectPage
  <2>3. page <= Cardinality(Events)
    <3>1. CASE page = 1
      <4>1. Cardinality(Events) # 0
        BY FS_EmptySet
      <4>2. QED
        BY <1>2, <3>1, <4>1
    <3>2. CASE page > 1 /\ (page - 1) * PageSize < Cardinality(Events)
      <4>1. (page - 1) <= (page - 1) * PageSize
        BY <1>2, <3>2
      <4>2. (page - 1) * PageSize \in Nat
        BY <1>2, <3>2
      <4>3. QED
        BY <1>2, <3>2, <4>1, <4>2
    <3>3. QED
      BY <3>1, <3>2 DEF ListingTypes, TypeOK
  <2>4. QED
    BY <1>2, <2>1, <2>2, <2>3
<1>5. seen' \in [Events -> 0..Cardinality(Events)]
  BY <1>4 DEF SelectPage
<1>6. \A e \in Events : seen'[e] <= IF at' = "done" THEN page' ELSE page' - 1
  BY <1>2, <1>3, <1>4
<1>7. QED
  BY <1>1, <1>3, <1>5, <1>6 DEF ListingTypes, TypeOK

\* The types hold at first and every step keeps them.
LEMMA ListingTypesInductive ==
    /\ Init => ListingTypes
    /\ ListingTypes /\ [Next]_vars => ListingTypes'
<1>1. Init => ListingTypes
  <2> SUFFICES ASSUME Init PROVE ListingTypes
    OBVIOUS
  <2>1. Cardinality(Events) \in Nat
    BY FS_CardinalityType
  <2>2. auditEvents = {} /\ IsFiniteSet(auditEvents)
    BY FS_EmptySet DEF Init, LedgerInit
  <2>3. latestHash \in [Tenants -> Events \cup {NoHash}]
    BY DEF Init, LedgerInit
  <2>4. at = "idle" /\ page = 1 /\ total = 0 /\ before = {} /\ raced = FALSE
    BY DEF Init
  <2>5. seen \in [Events -> 0..Cardinality(Events)] /\ \A e \in Events : seen[e] = 0
    BY <2>1 DEF Init
  <2>6. TypeOK
    <3>1. auditEvents \subseteq AuditEvent /\ before \subseteq Events /\ raced \in BOOLEAN
      BY <2>2, <2>4
    <3>2. total \in 0..Cardinality(Events)
      BY <2>1, <2>4
    <3>3. QED
      BY <2>4, <2>5, <3>1, <3>2 DEF TypeOK
  <2>7. page \in Nat /\ \A e \in Events : seen[e] <= IF at = "done" THEN page ELSE page - 1
    BY <2>4, <2>5
  <2>8. QED
    BY <2>2, <2>3, <2>6, <2>7 DEF ListingTypes
<1>2. ListingTypes /\ Begin => ListingTypes'
  BY DEF ListingTypes, TypeOK, Begin, Ids, Listed, EventsOf, AuditEvent
<1>3. ListingTypes /\ CountEvents => ListingTypes'
  BY RowsAreFew DEF ListingTypes, TypeOK, CountEvents
<1>4. ListingTypes /\ UNCHANGED vars => ListingTypes'
  BY DEF ListingTypes, TypeOK, vars
<1>5. QED
  BY <1>1, <1>2, <1>3, <1>4, AppendKeepsTypes, SelectKeepsTypes DEF Next, Quiescent

\* Every variable keeps its type, for any events, timestamps and page size, and no
\* page past the last is ever asked for, however many appends the walk meets.
THEOREM ListingTyped == Spec => []TypeOK
<1>1. ListingTypes => TypeOK
  BY DEF ListingTypes
<1>2. QED
  BY <1>1, ListingTypesInductive, PTL DEF Spec

-----------------------------------------------------------------------------
(* The walk *)

\* An append leaves every row of the walk at its position or a later one.
LEMMA AppendKeepsWalk == ListingTypes /\ WalkInv /\ Append => WalkInv'
<1> SUFFICES ASSUME ListingTypes, WalkInv, Append PROVE WalkInv'
  OBVIOUS
<1>1. /\ UNCHANGED <<at, page, total, seen, before>>
      /\ raced' = (raced \/ (at = "select" /\ EventsOf(Reader)' # Listed))
      /\ raced \in BOOLEAN /\ page \in Nat
  BY DEF Append, ListingTypes, TypeOK
<1>2. ListingTypes' /\ auditEvents \subseteq auditEvents'
  BY AppendKeepsTypes
<1>3. at' = "select" /\ ~raced' => total' = Cardinality(Listed')
  <2>1. at' = "select" /\ ~raced' => at = "select" /\ ~raced /\ Listed' = Listed
    BY <1>1 DEF Listed
  <2>2. QED
    BY <1>1, <2>1 DEF WalkInv
<1>4. ASSUME at \in {"count", "select"}, NEW e \in before
      PROVE  \E x \in Listed' : x.id = e /\ (seen[e] = 0 => Position(x)' >= (page - 1) * PageSize)
  <2>1. PICK x \in Listed : x.id = e /\ (seen[e] = 0 => Position(x) >= (page - 1) * PageSize)
    BY <1>4 DEF WalkInv
  <2>2. x \in Listed' /\ Position(x) <= Position(x)' /\ Position(x)' \in Nat
    BY <1>2, AppendsPushBack
  <2>3. Position(x) \in Nat
    BY PositionIsInside
  <2>4. (page - 1) * PageSize \in Int
    BY <1>1
  <2>5. seen[e] = 0 => Position(x)' >= (page - 1) * PageSize
    BY <2>1, <2>2, <2>3, <2>4
  <2>6. QED
    BY <2>1, <2>2, <2>5
<1>5. WalkIsComplete'
  <2>1. at' = "done" /\ ~raced' => at = "done" /\ ~raced
    BY <1>1
  <2>2. QED
    BY <1>1, <2>1 DEF WalkInv, WalkIsComplete
<1>6. QED
  BY <1>1, <1>3, <1>4, <1>5 DEF WalkInv

\* A page delivers the rows of its positions, so that the next page may begin
\* after them; the last one ends with the last row, unless an append came between.
LEMMA SelectKeepsWalk == ListingTypes /\ WalkInv /\ SelectPage => WalkInv'
<1> SUFFICES ASSUME ListingTypes, WalkInv, SelectPage PROVE WalkInv'
  OBVIOUS
<1>1. /\ at = "select" /\ UNCHANGED <<auditEvents, latestHash, total, before, raced>>
      /\ page \in Nat /\ total \in Nat /\ before \subseteq Events /\ PageSize \in Nat
  BY RowsAreFew DEF SelectPage, ListingTypes, TypeOK
<1>2. Listed' = Listed /\ \A x : Position(x)' = Position(x)
  BY <1>1 DEF Listed, EventsOf, Position, Precedes
<1>3. ASSUME NEW e \in before
      PROVE  \E x \in Listed :
                /\ x.id = e
                /\ seen'[e] = 0 => Position(x) >= page * PageSize
                /\ Position(x) \in Nat /\ Position(x) < Cardinality(Listed)
  <2>1. PICK x \in Listed : x.id = e /\ (seen[e] = 0 => Position(x) >= (page - 1) * PageSize)
    BY <1>1 DEF WalkInv
  <2>2. Position(x) \in Nat /\ Position(x) < Cardinality(Listed)
    BY PositionIsInside
  <2>3. seen[e] \in Nat /\ e \in Events
    BY <1>1 DEF ListingTypes, TypeOK
  <2>4. seen'[e] = IF e \in Ids(Page(page)) THEN seen[e] + 1 ELSE seen[e]
    BY <2>3 DEF SelectPage
  <2>5. ASSUME seen'[e] = 0 PROVE Position(x) >= page * PageSize
    <3>1. seen[e] = 0 /\ e \notin Ids(Page(page))
      BY <2>3, <2>4, <2>5
    <3>2. x \notin Page(page)
      BY <2>1, <3>1 DEF Ids
    <3>3. Position(x) \notin ((page - 1) * PageSize)..(page * PageSize - 1)
      BY <3>2 DEF Page
    <3>4. (page - 1) * PageSize \in Int /\ page * PageSize \in Int
      BY <1>1
    <3>5. QED
      BY <2>1, <2>2, <3>1, <3>3, <3>4
  <2>6. QED
    BY <2>1, <2>2, <2>5
<1>4. CASE page < TotalPages
  <2>1. at' = "count" /\ page' = page + 1
    BY <1>4 DEF SelectPage
  <2>2. page' - 1 = page
    BY <1>1, <2>1
  <2>3. \A e \in before' : \E x \in Listed' :
           x.id = e /\ (seen'[e] = 0 => Position(x)' >= (page' - 1) * PageSize)
    BY <1>1, <1>2, <1>3, <2>2
  <2>4. QED
    BY <2>1, <2>3 DEF WalkInv, WalkIsComplete
<1>5. CASE ~(page < TotalPages)
  <2>1. at' = "done"
    BY <1>5 DEF SelectPage
  <2>2. total <= page * PageSize /\ page * PageSize \in Nat
    BY <1>1, <1>5, PagesCoverTotal DEF TotalPages
  <2>3. ASSUME ~raced, NEW e \in before PROVE seen'[e] > 0
    <3>1. total = Cardinality(Listed)
      BY <1>1, <2>3 DEF WalkInv
    <3>2. seen'[e] # 0
      BY <1>1, <1>3, <2>2, <3>1
    <3>3. seen'[e] \in Nat
      BY <1>1, SelectKeepsTypes, RowsAreFew DEF ListingTypes, TypeOK
    <3>4. QED
      BY <3>2, <3>3
  <2>4. QED
    BY <1>1, <2>1, <2>3 DEF WalkInv, WalkIsComplete
<1>6. QED
  BY <1>4, <1>5

\* A walk has delivered, when it ends, every event stored before it began, for any
\* appends meanwhile and any page size, unless an append fell between the two
\* statements of its last page.
THEOREM WalksAreComplete == Spec => []WalkIsComplete
<1>1. Init => WalkInv
  BY DEF Init, WalkInv, WalkIsComplete
<1>2. ListingTypes /\ WalkInv /\ Begin => WalkInv'
  <2> SUFFICES ASSUME ListingTypes, WalkInv, Begin PROVE WalkInv'
    OBVIOUS
  <2>1. /\ at = "idle" /\ at' = "count" /\ page' = 1 /\ before' = Ids(Listed)
        /\ UNCHANGED <<auditEvents, seen>>
    BY DEF Begin, WalkInv
  <2>2. Listed' = Listed /\ \A x : Position(x)' = Position(x)
    BY <2>1 DEF Listed, EventsOf, Position, Precedes
  <2>3. ASSUME NEW x \in Listed PROVE Position(x)' >= (page' - 1) * PageSize
    BY <2>1, <2>2, PositionIsInside
  <2>4. QED
    BY <2>1, <2>2, <2>3 DEF WalkInv, WalkIsComplete, Ids
<1>3. ListingTypes /\ WalkInv /\ CountEvents => WalkInv'
  <2> SUFFICES ASSUME ListingTypes, WalkInv, CountEvents PROVE WalkInv'
    OBVIOUS
  <2>1. /\ at = "count" /\ at' = "select" /\ total' = Cardinality(Listed)
        /\ UNCHANGED <<auditEvents, page, seen, before>>
    BY DEF CountEvents
  <2>2. Listed' = Listed /\ \A x : Position(x)' = Position(x)
    BY <2>1 DEF Listed, EventsOf, Position, Precedes
  <2>3. QED
    BY <2>1, <2>2 DEF WalkInv, WalkIsComplete
<1>4. WalkInv /\ UNCHANGED vars => WalkInv'
  BY DEF WalkInv, WalkIsComplete, vars, Listed, EventsOf, Position, Precedes
<1>5. ListingTypes /\ WalkInv /\ [Next]_vars => WalkInv'
  BY <1>2, <1>3, <1>4, AppendKeepsWalk, SelectKeepsWalk DEF Next, Quiescent
<1>6. WalkInv => WalkIsComplete
  BY DEF WalkInv
<1>7. QED
  BY <1>1, <1>5, <1>6, ListingTypesInductive, PTL DEF Spec
=============================================================================
