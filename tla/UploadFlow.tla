------------------------------ MODULE UploadFlow ------------------------------
(***************************************************************************)
(* The upload page (DocumentUpload.tsx): ingest, send the bytes, process.  *)
(* runUpload is a closure over the file it was started with.  It runs on   *)
(* when the visitor picks another file, which is never disabled, or leaves *)
(* the page; what it then does to the form follows from the form of that   *)
(* moment.  A step that fails is repeated by starting again.               *)
(***************************************************************************)
EXTENDS Naturals, FiniteSets

CONSTANTS
    Files,
    Flows,          \* calls of runUpload that may be in flight at once
    MaxDocs,        \* bound on ingested documents
    None

VARIABLES
    docs,           \* the server's documents: file announced, content stored
    cache,          \* sessionStorage: per document, what is cached of it
    full,           \* sessionStorage is full or disabled: it takes nothing
    returned,       \* history: by which calls a document reached this tab
    page,           \* page shown
    form, flows

Docs == 1..MaxDocs
Ingested == {d \in Docs : docs[d] # None}

StepStatus == {"pending", "active", "done", "error"}
Form == [file : Files \cup {None}, busy : BOOLEAN, record : Docs \cup {None},
         ingest : StepStatus, content : StepStatus, process : StepStatus]

NewForm == [file |-> None, busy |-> FALSE, record |-> None,
            ingest |-> "pending", content |-> "pending", process |-> "pending"]

\* A flow awaits the answer to its step, unless the answer is on its way.
Flow == [at : {"idle", "ingest", "content", "process"}, answer : {"none", "ok"},
         file : Files \cup {None}, auto : BOOLEAN, doc : Docs \cup {None},
         mounted : BOOLEAN]

NoFlow == [at |-> "idle", answer |-> "none", file |-> None, auto |-> FALSE,
           doc |-> None, mounted |-> FALSE]

UploadInit ==
    /\ docs = [d \in Docs |-> None]
    /\ form = NewForm /\ flows = [i \in Flows |-> NoFlow]

-----------------------------------------------------------------------------
(* The visitor *)

\* pickFile, by the dialog or by dropping a file: also while busy.
PickFile(f) ==
    /\ page = "upload"
    /\ form' = [NewForm EXCEPT !.file = f, !.busy = form.busy]
    /\ UNCHANGED <<docs, cache, full, returned, page, flows>>

\* reset: the Remove button of the file row.
Remove ==
    /\ page = "upload" /\ form.file # None /\ ~form.busy
    /\ form' = NewForm
    /\ UNCHANGED <<docs, cache, full, returned, page, flows>>

\* The Upload button is enabled.
MayUpload == form.file # None /\ ~form.busy

\* runUpload up to its first await; it has then read the checkbox, which is
\* as the visitor has it at that moment.
RunUpload(i) ==
    /\ page = "upload" /\ MayUpload
    /\ flows[i].at = "idle"
    /\ \E auto \in BOOLEAN :
          flows' = [flows EXCEPT ![i] = [NoFlow EXCEPT !.at = "ingest", !.mounted = TRUE,
                                           !.file = form.file, !.auto = auto]]
    /\ form' = [form EXCEPT !.busy = TRUE, !.ingest = "active"]
    /\ UNCHANGED <<docs, cache, full, returned, page>>

-----------------------------------------------------------------------------
(* The server *)

Awaits(i, step) == flows[i].at = step /\ flows[i].answer = "none"

\* A record is created, whether or not its answer will arrive.
ServerIngests(i) ==
    /\ Awaits(i, "ingest")
    /\ \E d \in Docs \ Ingested :
          /\ d - 1 \in Ingested \cup {0}
          /\ docs' = [docs EXCEPT ![d] = [file |-> flows[i].file, content |-> None]]
          /\ flows' = [flows EXCEPT ![i].answer = "ok", ![i].doc = d]
    /\ UNCHANGED <<cache, full, returned, page, form>>

\* The bytes have the digest of the record's file.
ServerStores(i) ==
    /\ Awaits(i, "content")
    /\ flows[i].file = docs[flows[i].doc].file
    /\ docs' = [docs EXCEPT ![flows[i].doc].content = flows[i].file]
    /\ flows' = [flows EXCEPT ![i].answer = "ok"]
    /\ UNCHANGED <<cache, full, returned, page, form>>

-----------------------------------------------------------------------------
(* The flow goes on *)

\* State is set only while the form that started the flow is mounted.
Show(i, shown) == form' = IF flows[i].mounted THEN shown ELSE form

\* cacheDocumentRecord: merged into what is cached; writeCache ignores a storage that is full.
CacheRecord(d) == cache' = IF full THEN cache ELSE [cache EXCEPT ![d] = @ \cup {"record"}]

M_AfterIngest_KeepsSteps(i) ==
    LET d == flows[i].doc IN
    /\ flows[i].at = "ingest" /\ flows[i].answer = "ok"
    /\ CacheRecord(d)
    /\ returned' = [returned EXCEPT ![d] = @ \cup {"upload"}]
    /\ Show(i, [form EXCEPT !.record = d, !.ingest = "done"])
    /\ flows' = [flows EXCEPT ![i].at = "content", ![i].answer = "none"]
    /\ UNCHANGED <<docs, full, page>>

AfterIngest(i) ==
    LET d == flows[i].doc IN
    /\ flows[i].at = "ingest" /\ flows[i].answer = "ok"
    /\ CacheRecord(d)
    /\ returned' = [returned EXCEPT ![d] = @ \cup {"upload"}]
    /\ Show(i, [form EXCEPT !.record = d, !.ingest = "done", !.content = "active"])
    /\ flows' = [flows EXCEPT ![i].at = "content", ![i].answer = "none"]
    /\ UNCHANGED <<docs, full, page>>

M_AfterContent_Skipped(i) ==
    /\ flows[i].at = "content" /\ flows[i].answer = "ok"
    /\ Show(i, [form EXCEPT !.content = "done", !.busy = flows[i].auto,
                            !.process = IF flows[i].auto THEN "active" ELSE "skipped"])
    /\ flows' = IF flows[i].auto
                THEN [flows EXCEPT ![i].at = "process", ![i].answer = "none"]
                ELSE [flows EXCEPT ![i] = NoFlow]
    /\ UNCHANGED <<docs, cache, full, returned, page>>

\* The last step unless the document is to be processed.
AfterContent(i) ==
    /\ flows[i].at = "content" /\ flows[i].answer = "ok"
    /\ Show(i, [form EXCEPT !.content = "done", !.busy = flows[i].auto,
                            !.process = IF flows[i].auto THEN "active" ELSE "pending"])
    /\ flows' = IF flows[i].auto
                THEN [flows EXCEPT ![i].at = "process", ![i].answer = "none"]
                ELSE [flows EXCEPT ![i] = NoFlow]
    /\ UNCHANGED <<docs, cache, full, returned, page>>

\* Processing changes nothing of what is modelled of the server.
AfterProcess(i) ==
    /\ flows[i].at = "process"
    /\ Show(i, [form EXCEPT !.process = "done", !.busy = FALSE])
    /\ flows' = [flows EXCEPT ![i] = NoFlow]
    /\ UNCHANGED <<docs, cache, full, returned, page>>

ErrorIfActive(status) == IF status = "active" THEN "error" ELSE status

M_Fails_StaysBusy(i) ==
    /\ flows[i].at # "idle"
    /\ Show(i, [form EXCEPT !.ingest = ErrorIfActive(@),
                            !.content = ErrorIfActive(@), !.process = ErrorIfActive(@)])
    /\ flows' = [flows EXCEPT ![i] = NoFlow]
    /\ UNCHANGED <<docs, cache, full, returned, page>>

\* The catch: the server refuses, the network fails or apiTimeoutMs is over,
\* before the server has acted or after; or the file could not be read.
Fails(i) ==
    /\ flows[i].at # "idle"
    /\ Show(i, [form EXCEPT !.busy = FALSE, !.ingest = ErrorIfActive(@),
                            !.content = ErrorIfActive(@), !.process = ErrorIfActive(@)])
    /\ flows' = [flows EXCEPT ![i] = NoFlow]
    /\ UNCHANGED <<docs, cache, full, returned, page>>

\* "Document uploaded successfully as ..." is shown.
BannerShown == form.record # None /\ form.content = "done"

FlowStep(i) == AfterIngest(i) \/ AfterContent(i) \/ AfterProcess(i) \/ Fails(i)

UploadNext ==
    \/ \E f \in Files : PickFile(f)
    \/ Remove
    \/ \E i \in Flows :
          \/ RunUpload(i) \/ FlowStep(i)
          \/ ServerIngests(i) \/ ServerStores(i)

\* The page is left: a new form next time, the flows go on unseen.
Unmount ==
    /\ form' = NewForm
    /\ flows' = [i \in Flows |-> IF flows[i].at = "idle" THEN NoFlow
                                 ELSE [flows[i] EXCEPT !.mounted = FALSE]]

-----------------------------------------------------------------------------

UploadTypeOK ==
    /\ docs \in [Docs -> [file : Files, content : Files \cup {None}] \cup {None}]
    /\ form \in Form
    /\ flows \in [Flows -> Flow]
    /\ \A i \in Flows : flows[i].at \in {"content", "process"} => flows[i].doc \in Ingested

\* The success banner names a document whose bytes the server has, whatever was picked, repeated or left meanwhile.
BannerIsTrue ==
    BannerShown =>
        /\ form.record \in Ingested
        /\ docs[form.record].content = docs[form.record].file
=============================================================================
