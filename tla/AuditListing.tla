----------------------------- MODULE AuditListing -----------------------------
(***************************************************************************)
(* GET /v1/audit walked page by page (main.py list_audit, repositories.py  *)
(* list_for_tenant_paginated) while events are appended.  The appends are  *)
(* those of AuditLedger, which AuditChain implements: an event may carry   *)
(* an earlier timestamp than events already stored.                        *)
(*                                                                         *)
(* A page takes two statements, COUNT and SELECT, each seeing what is      *)
(* committed when it runs (READ COMMITTED).  The client asks for page 1,   *)
(* 2, ... up to the total_pages of the latest answer.                      *)
(***************************************************************************)
EXTENDS AuditLedger, Naturals, FiniteSets

CONSTANTS
    Reader,         \* the tenant whose events are listed
    PageSize

ASSUME ListingAssumption ==
    /\ Reader \in Tenants
    /\ PageSize \in Nat \ {0}
    /\ Events \subseteq Nat         \* event ids are ordered, like UUIDs
    /\ IsFiniteSet(Events)          \* bound
    /\ Timestamps \subseteq Nat

VARIABLES
    at,         \* "idle", "count", "select" or "done"
    page,       \* the page asked for
    total,      \* the COUNT of the current request
    seen,       \* history: per event, on how many pages it has been delivered
    before,     \* history: the ids stored when the walk began
    raced       \* history: an event of the tenant was appended between the
                \* COUNT and the SELECT of the latest page

vars == <<auditEvents, latestHash, at, page, total, seen, before, raced>>

Ids(S) == {x.id : x \in S}
Listed == EventsOf(Reader)

Init ==
    /\ LedgerInit
    /\ at = "idle" /\ page = 1 /\ total = 0
    /\ seen = [e \in Events |-> 0]
    /\ before = {}
    /\ raced = FALSE

Append ==
    /\ LedgerNext
    /\ raced' = (raced \/ (at = "select" /\ EventsOf(Reader)' # Listed))
    /\ UNCHANGED <<at, page, total, seen, before>>

Begin ==
    /\ at = "idle"
    /\ at' = "count"
    /\ before' = Ids(Listed)
    /\ UNCHANGED <<auditEvents, latestHash, page, total, seen, raced>>

CountEvents ==
    /\ at = "count"
    /\ at' = "select"
    /\ total' = Cardinality(Listed)
    /\ raced' = FALSE
    /\ UNCHANGED <<auditEvents, latestHash, page, seen, before>>

\* ORDER BY timestamp alone: equal timestamps come in either order, here by id
\* when the page is odd and against it when it is even.
M_Precedes_NoTiebreak(x, y) ==
    \/ x.timestamp < y.timestamp
    \/ x.timestamp = y.timestamp /\ IF page % 2 = 1 THEN x.id < y.id ELSE y.id < x.id

\* ORDER BY timestamp, id.
Precedes(x, y) == \/ x.timestamp < y.timestamp
                  \/ x.timestamp = y.timestamp /\ x.id < y.id

Position(x) == Cardinality({y \in Listed : Precedes(y, x)})

\* OFFSET (page - 1) * page_size LIMIT page_size.
Page(n) == {x \in Listed : Position(x) \in ((n - 1) * PageSize)..(n * PageSize - 1)}

TotalPages == (total + PageSize - 1) \div PageSize

\* A page past the last one is asked for.
M_SelectPage_PastTheEnd ==
    /\ at = "select"
    /\ seen' = [e \in Events |-> IF e \in Ids(Page(page)) THEN seen[e] + 1 ELSE seen[e]]
    /\ IF page <= TotalPages THEN at' = "count" /\ page' = page + 1
       ELSE at' = "done" /\ UNCHANGED page
    /\ UNCHANGED <<auditEvents, latestHash, total, before, raced>>

\* An empty page is asked for again.
M_SelectPage_RetriesEmpty ==
    /\ at = "select"
    /\ seen' = [e \in Events |-> IF e \in Ids(Page(page)) THEN seen[e] + 1 ELSE seen[e]]
    /\ IF Page(page) = {} THEN at' = "count" /\ UNCHANGED page
       ELSE IF page < TotalPages THEN at' = "count" /\ page' = page + 1
       ELSE at' = "done" /\ UNCHANGED page
    /\ UNCHANGED <<auditEvents, latestHash, total, before, raced>>

\* The SELECT, whose page is delivered; the client goes on while there are pages.
SelectPage ==
    /\ at = "select"
    /\ seen' = [e \in Events |-> IF e \in Ids(Page(page)) THEN seen[e] + 1 ELSE seen[e]]
    /\ IF page < TotalPages THEN at' = "count" /\ page' = page + 1
       ELSE at' = "done" /\ UNCHANGED page
    /\ UNCHANGED <<auditEvents, latestHash, total, before, raced>>

Quiescent ==
    /\ at = "done"
    /\ UNCHANGED vars

Next == Append \/ Begin \/ CountEvents \/ SelectPage \/ Quiescent

Spec == Init /\ [][Next]_vars

\* A client that has begun asks for its next page; nothing makes appends stop or
\* go on.
FairSpec == Spec /\ WF_vars(CountEvents) /\ WF_vars(SelectPage)

-----------------------------------------------------------------------------
(* Properties *)

\* Every variable keeps its type, and no page past the last is ever asked for.
TypeOK ==
    /\ auditEvents \subseteq AuditEvent
    /\ at \in {"idle", "count", "select", "done"}
    /\ page = 1 \/ (page > 1 /\ (page - 1) * PageSize < Cardinality(Events))
    /\ total \in 0..Cardinality(Events)
    /\ seen \in [Events -> 0..Cardinality(Events)]
    /\ before \subseteq Events /\ raced \in BOOLEAN

\* Appends during the walk push events to later positions and never to earlier
\* ones: a walk delivers every event stored before it began, unless an append fell
\* between the two statements of its last page.
WalkIsComplete ==
    at = "done" /\ ~raced => \A e \in before : seen[e] > 0

\* The walk ends although appends go on meanwhile.
WalkEnds == at = "count" ~> at = "done"

\* No event is delivered twice.
NoDuplicates == \A e \in Events : seen[e] <= 1
=============================================================================
