---------------------------- MODULE DocumentPages ----------------------------
(***************************************************************************)
(* The pages that show documents: the dashboard, the search and documents  *)
(* lists and the audit log (hooks/useSearch.ts, useDocuments.ts,           *)
(* useAudit.ts), and the page of one document or its analysis, which has   *)
(* no endpoint and shows what lib/documentCache.ts has.                    *)
(*                                                                         *)
(* A list loads again without waiting for the load before it; answers are  *)
(* applied as they come, to the page if it is still shown, and by          *)
(* useSearch to the cache in any case.                                     *)
(***************************************************************************)
EXTENDS Naturals, FiniteSets

CONSTANTS
    Loads,          \* list calls that may be in flight at once
    MaxDocs,
    None

VARIABLES
    docs, cache, full, returned, page,      \* as in UploadFlow
    list,           \* status of the list shown
    loads,
    detail          \* the document page shown

Docs == 1..MaxDocs
Ingested == {d \in Docs : docs[d] # None}

ListPages == {"dashboard", "search", "documents", "audit"}
Status == {"idle", "loading", "success", "error"}

NewList == "idle"

\* A call in flight, by the hook of the page: useSearch, or one of the others.
LoadCall == [at : {"idle", "sent"}, hook : {"search", "list", "audit"}, mounted : BOOLEAN]
NoLoad == [at |-> "idle", hook |-> "search", mounted |-> FALSE]

NewDetail == [doc |-> None, fields |-> {}, status |-> "idle"]

PagesInit ==
    /\ list = NewList /\ loads = [l \in Loads |-> NoLoad] /\ detail = NewDetail

-----------------------------------------------------------------------------
(* Lists *)

\* The dashboard loads on mount and by "Try again".  A search, its pager, the
\* filters of the documents list and the audit log's Refresh are at hand
\* whatever the list's status.
DashboardLoads == page = "dashboard" /\ list \in {"idle", "error"}
SearchLoads == page = "search"
DocumentsLoads == page = "documents"
AuditLoads == page = "audit"

MayLoad == DashboardLoads \/ SearchLoads \/ DocumentsLoads \/ AuditLoads

Hook == CASE page = "documents" -> "list" [] page = "audit" -> "audit" [] OTHER -> "search"

Load(l) ==
    /\ MayLoad
    /\ loads[l].at = "idle"
    /\ loads' = [loads EXCEPT ![l] = [at |-> "sent", hook |-> Hook, mounted |-> TRUE]]
    /\ list' = "loading"
    /\ UNCHANGED <<docs, cache, full, returned, page, detail>>

M_CacheHits_Replaces(rows) ==
    cache' = IF full THEN cache ELSE [d \in Docs |-> IF d \in rows THEN {"hit"} ELSE {}]

\* cacheSearchHits
CacheHits(rows) ==
    cache' = IF full THEN cache
             ELSE [d \in Docs |-> IF d \in rows THEN cache[d] \cup {"hit"} ELSE cache[d]]

\* The try of useSearch, useDocumentsList and useAudit.  The rows are some of
\* the documents: those that matched when the server answered, a page of them;
\* documents only become more, so every earlier answer is among the choices.
LoadSucceeds(l) ==
    /\ loads[l].at = "sent"
    /\ \E rows \in SUBSET Ingested :
          /\ loads[l].hook = "audit" => rows = {}
          /\ IF loads[l].hook = "search" THEN CacheHits(rows) ELSE UNCHANGED cache
          /\ returned' = [d \in Docs |-> IF d \in rows THEN returned[d] \cup {loads[l].hook}
                                         ELSE returned[d]]
          /\ list' = IF loads[l].mounted THEN "success" ELSE list
    /\ loads' = [loads EXCEPT ![l] = NoLoad]
    /\ UNCHANGED <<docs, full, page, detail>>

\* The catch: the server refuses, the network fails, the timer aborts the call.
LoadFails(l) ==
    /\ loads[l].at # "idle"
    /\ list' = IF loads[l].mounted THEN "error" ELSE list
    /\ loads' = [loads EXCEPT ![l] = NoLoad]
    /\ UNCHANGED <<docs, cache, full, returned, page, detail>>

-----------------------------------------------------------------------------
(* One document *)

\* The effect on mount: getCachedDocument, read once.
Detail(d) == [doc |-> d, fields |-> cache[d], status |-> "idle"]

\* The page has nothing to show but the note on the missing endpoint.
Blank(shown) == shown.fields = {}

\* "Run Processing", disabled while it runs.
Process ==
    /\ page = "detail" /\ detail.status # "loading"
    /\ detail' = [detail EXCEPT !.status = "loading"]
    /\ UNCHANGED <<docs, cache, full, returned, page, list, loads>>

ProcessEnds ==
    /\ detail.status = "loading"
    /\ \E status \in {"success", "error"} : detail' = [detail EXCEPT !.status = status]
    /\ UNCHANGED <<docs, cache, full, returned, page, list, loads>>

LoadStep(l) == LoadSucceeds(l) \/ LoadFails(l)

PagesNext ==
    \/ \E l \in Loads : Load(l) \/ LoadStep(l)
    \/ Process \/ ProcessEnds

\* The page is left: the next list starts empty, loads go on unseen.  That of
\* the audit log, whose answer touches nothing but its page, is forgotten.
Unmount ==
    /\ list' = NewList
    /\ loads' = [l \in Loads |-> IF loads[l].at = "idle" \/ loads[l].hook = "audit" THEN NoLoad
                                 ELSE [loads[l] EXCEPT !.mounted = FALSE]]

-----------------------------------------------------------------------------

PagesTypeOK ==
    /\ cache \in [Docs -> SUBSET {"record", "hit"}]
    /\ list \in Status
    /\ loads \in [Loads -> LoadCall]
    /\ detail \in [doc : Docs \cup {None}, fields : SUBSET {"record", "hit"}, status : Status]
=============================================================================
