----------------------------- MODULE AuditLedger -----------------------------
(***************************************************************************)
(* What the audit log promises its callers (audit.py, AuditLog.append): an *)
(* append reads the head of the tenant's hash chain, links the new event   *)
(* to it, stores the event and advances the head, all in one step.         *)
(*                                                                         *)
(* A hash is modelled by the event it identifies: event_hash is an HMAC    *)
(* over the event's fields, its fresh UUID included, so two events never   *)
(* share one.  NoHash is the NULL of a column that holds no hash.          *)
(***************************************************************************)
CONSTANTS Events, Tenants, Timestamps, NoHash

VARIABLES
    auditEvents,    \* the rows of audit_events
    latestHash      \* per tenant: the head of its chain

ledgerVars == <<auditEvents, latestHash>>

AuditEvent == [id            : Events,
               tenant        : Tenants,
               timestamp     : Timestamps,
               previous_hash : Events \cup {NoHash}]

EventsOf(t) == {x \in auditEvents : x.tenant = t}

LedgerInit ==
    /\ auditEvents = {}
    /\ latestHash = [t \in Tenants |-> NoHash]

LedgerAppend(e, t, ts) ==
    /\ \A x \in auditEvents : x.id # e
    /\ auditEvents' = auditEvents \cup
          {[id |-> e, tenant |-> t, timestamp |-> ts,
            previous_hash |-> latestHash[t]]}
    /\ latestHash' = [latestHash EXCEPT ![t] = e]

LedgerNext ==
    \E e \in Events, t \in Tenants, ts \in Timestamps : LedgerAppend(e, t, ts)

LedgerSpec == LedgerInit /\ [][LedgerNext]_ledgerVars
=============================================================================
