---------------------------- MODULE MCAuditListing ----------------------------
(* Instances of AuditListing for TLC: ids and timestamps are numbers. *)
EXTENDS AuditListing

CONSTANTS tA, tB
=============================================================================
