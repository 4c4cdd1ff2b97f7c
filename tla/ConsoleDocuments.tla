--------------------------- MODULE ConsoleDocuments ---------------------------
(***************************************************************************)
(* One tab of the console: the upload page and the document pages, which   *)
(* share the cache of documents in sessionStorage and are mounted and      *)
(* unmounted as the visitor moves between them.  A reload ends everything  *)
(* in flight, at the server too unless it has acted by then.               *)
(***************************************************************************)
EXTENDS Naturals, FiniteSets

CONSTANTS
    Files, Flows, Loads,
    MaxDocs, MaxMoves,      \* bounds
    None

ASSUME ConsoleAssumption ==
    /\ MaxDocs \in Nat /\ MaxMoves \in Nat /\ None \notin Files /\ None \notin Nat
    /\ None \notin [file : Files, content : Files \cup {None}]

VARIABLES docs, cache, full, returned, page, form, flows, list, loads, detail, moves

uploadVars == <<form, flows>>
pagesVars == <<list, loads, detail>>
vars == <<docs, cache, full, returned, page, uploadVars, pagesVars, moves>>

Upload == INSTANCE UploadFlow
    WITH docs <- docs, cache <- cache, full <- full, returned <- returned,
         page <- page, form <- form, flows <- flows
Documents == INSTANCE DocumentPages
    WITH docs <- docs, cache <- cache, full <- full, returned <- returned,
         page <- page, list <- list, loads <- loads, detail <- detail

Docs == Upload!Docs
Pages == {"upload", "detail"} \cup Documents!ListPages

Init ==
    /\ Upload!UploadInit /\ Documents!PagesInit
    /\ cache = [d \in Docs |-> {}] /\ full \in BOOLEAN
    /\ returned = [d \in Docs |-> {}]
    /\ page = "dashboard" /\ moves = 0

Move == moves < MaxMoves /\ moves' = moves + 1

\* A link to a page: what was shown is unmounted.
Open(p, shown) ==
    /\ Move
    /\ Upload!Unmount /\ Documents!Unmount
    /\ page' = p /\ detail' = shown
    /\ UNCHANGED <<docs, cache, full, returned>>

Visit(p) == Open(p, Documents!NewDetail)

\* The link of a row, or the address of a document that no row shows.
OpenDocument(d) == Open("detail", Documents!Detail(d))

Reload ==
    /\ Move
    /\ form' = Upload!NewForm /\ flows' = [i \in Flows |-> Upload!NoFlow]
    /\ list' = Documents!NewList /\ loads' = [l \in Loads |-> Documents!NoLoad]
    /\ detail' = IF page = "detail" THEN Documents!Detail(detail.doc) ELSE detail
    /\ UNCHANGED <<docs, cache, full, returned, page>>

UploadStep == Upload!UploadNext /\ UNCHANGED <<pagesVars, moves>>
PagesStep == Documents!PagesNext /\ UNCHANGED <<uploadVars, moves>>

Next ==
    \/ UploadStep \/ PagesStep
    \/ \E p \in Pages \ {"detail"} : Visit(p)
    \/ \E d \in Upload!Ingested : OpenDocument(d)
    \/ Reload

\* A call ends: with its answer or by its timer (api.ts, apiTimeoutMs).
Fairness ==
    /\ \A i \in Flows : WF_vars(Upload!FlowStep(i) /\ UNCHANGED <<pagesVars, moves>>)
    /\ \A l \in Loads : WF_vars(Documents!LoadStep(l) /\ UNCHANGED <<uploadVars, moves>>)
    /\ WF_vars(Documents!ProcessEnds /\ UNCHANGED <<uploadVars, moves>>)

Spec == Init /\ [][Next]_vars /\ Fairness

-----------------------------------------------------------------------------
(* Properties *)

\* Every variable keeps its type: steps have a status, flows upload to a
\* document the server has, and a document page has its document.
TypeOK ==
    /\ Upload!UploadTypeOK /\ Documents!PagesTypeOK
    /\ page \in Pages /\ (page = "detail" => detail.doc # None)
    /\ returned \in [Docs -> SUBSET {"upload", "search", "list"}]
    /\ full \in BOOLEAN /\ moves \in 0..MaxMoves

\* The success banner of the upload page tells the truth.
BannerIsTrue == Upload!BannerIsTrue

OpensBlank(d) == page' = "detail" /\ detail'.doc = d /\ Documents!Blank(detail') /\ moves' # moves

\* The document page says that a document "wasn't returned by a search or
\* upload in this session" (DocumentMetadata.tsx:15-17) only if it was not:
\* an upload or a search, answered on whatever page, has cached it and nothing
\* takes it out again; unless sessionStorage was full.
GapNoteIsTrue ==
    [][ \A d \in Docs : OpensBlank(d) /\ ~full => returned[d] \subseteq {"list"} ]_vars

\* documentCache.ts: cached is what is received from GET /v1/documents/search
\* "on every search/list", so also a document listed on the documents page.
ListedIsCached ==
    [][ \A d \in Docs : OpensBlank(d) /\ ~full => returned[d] = {} ]_vars

\* The upload button comes back and a list stops loading: every flow and every
\* load ends, in whatever order, and sets the state of the page it began on.
WorkEnds ==
    /\ form.busy ~> ~form.busy
    /\ list = "loading" ~> list # "loading"
    /\ detail.status = "loading" ~> detail.status # "loading"
=============================================================================
