--------------------------- MODULE DocumentService ---------------------------
(***************************************************************************)
(* The API's handlers (main.py) over the stores they share: the documents  *)
(* table, object storage (MinIO, or the process-local fallback), the       *)
(* OpenSearch index and the audit log.  Several workers serve requests;    *)
(* a handler is the sequence of its waits, so requests interleave between  *)
(* any two, and a step may fail or the worker die between any two.         *)
(*                                                                         *)
(* The audit append is one step with the outcomes AuditChain is proved to  *)
(* have (AuditLedger): stored and answered, not stored, or stored with the *)
(* answer lost.  Callers are authorised; what is refused for want of a     *)
(* role is left out.                                                       *)
(***************************************************************************)
EXTENDS Naturals, FiniteSets

CONSTANTS
    Requests, Docs, Workers,
    Operations,         \* the operations the clients of an instance use
    MaxFaults,          \* bound on the faults of a behaviour, of every kind
    BucketAtStart,      \* whether the MinIO bucket may be there already: {TRUE},
                        \* {FALSE} or both
    Absent              \* no object under a key, no backend, no document

AllOperations == {"ingest", "upload", "download", "process", "rag", "review",
                  "search", "assign"}

ASSUME OperationsAssumption == Operations \subseteq AllOperations
ASSUME ServiceBounds == MaxFaults \in Nat
ASSUME BucketAssumption == BucketAtStart \subseteq BOOLEAN
ASSUME AbsentAssumption == Absent \notin Docs /\ Absent \notin Workers

VARIABLES
    documents,      \* committed rows of the documents table
    assignments,    \* requests whose case assignment is committed
    indexed,        \* documents in the OpenSearch index
    bucket,         \* the MinIO bucket exists
    minio,          \* per key (document): the bytes in MinIO.  Bytes are named
                    \* by the document whose sha256 they hash to
    fallback,       \* per worker: its in-memory store, likewise
    auditTrail,     \* the audit events: [request, action, doc]
    minioUp, searchUp,
    req,            \* per request: the state of its handler
    faults          \* how often each kind of fault has happened

vars == <<documents, assignments, indexed, bucket, minio, fallback, auditTrail,
          minioUp, searchUp, req, faults>>

Bytes == Docs \cup {Absent}

AuditAction == [ingest   |-> "document.ingested",
                upload   |-> "document.content_uploaded",
                download |-> "document.downloaded",
                process  |-> "document.pipeline_completed",
                rag      |-> "rag.answer_generated",
                review   |-> "environmental_review.completed"]

Points == {"idle", "probe", "read", "body", "bucket", "put", "get",
           "store", "index", "query", "assign", "audit", "answer", "ended"}

Replies == {"none", "200", "403", "404", "content_not_uploaded", "422", "500"}

Handler == [op      : AllOperations \cup {"none"},
            doc     : Docs \cup {Absent},
            worker  : Workers \cup {Absent},
            at      : Points,
            storage : {"none", "minio", "fallback"},
            data    : Bytes,            \* the body received, or the bytes read
            found   : SUBSET Docs,      \* the hits of a search
            reply   : Replies,
            \* What had been answered with 200 when a download or a search was
            \* sent: an upload of doc, the ingests of these documents.
            uploaded : BOOLEAN,
            known    : SUBSET Docs]

In(r, point) == req[r].at = point
Running(r) == req[r].at \notin {"idle", "ended"}
Answered(r, op, d) == req[r].op = op /\ req[r].doc = d /\ req[r].reply = "200"
AuditRecord(r) == [request |-> r, action |-> AuditAction[req[r].op], doc |-> req[r].doc]
Audited(r) == \E a \in auditTrail : a.request = r

GoTo(r, point) == req' = [req EXCEPT ![r].at = point]
ReplyWith(r, reply) == req' = [req EXCEPT ![r].at = "ended", ![r].reply = reply]

Faults == {"minio", "search", "restart", "db"}

Stores == <<documents, assignments, indexed, bucket, minio, fallback, auditTrail>>
Environment == <<minioUp, searchUp, faults>>

Init ==
    /\ documents = {} /\ assignments = {} /\ indexed = {} /\ auditTrail = {}
    /\ bucket \in BucketAtStart
    /\ minio = [d \in Docs |-> Absent]
    /\ fallback = [w \in Workers |-> [d \in Docs |-> Absent]]
    /\ minioUp = TRUE /\ searchUp = TRUE
    /\ req = [r \in Requests |->
                [op |-> "none", doc |-> Absent, worker |-> Absent, at |-> "idle",
                 storage |-> "none", data |-> Absent, found |-> {},
                 reply |-> "none", uploaded |-> FALSE, known |-> {}]]
    /\ faults = [k \in Faults |-> 0]

Count(fault) ==
    /\ faults.minio + faults.search + faults.restart + faults.db < MaxFaults
    /\ faults' = [faults EXCEPT ![fault] = @ + 1]

-----------------------------------------------------------------------------
(* Requests and the first statements of their handlers *)

\* A handler's first wait; upload and download resolve their storage first.
M_FirstPoint_IndexFirst == [ingest |-> "index", upload |-> "probe", download |-> "probe",
               process |-> "read", rag |-> "read", review |-> "read",
               search |-> "query", assign |-> "assign"]

FirstPoint == [ingest |-> "store", upload |-> "probe", download |-> "probe",
               process |-> "read", rag |-> "read", review |-> "read",
               search |-> "query", assign |-> "assign"]

\* The documents table mints the id of an ingested document.
Fresh(d) == \A r \in Requests : ~(req[r].op = "ingest" /\ req[r].doc = d)

Arrive(r) ==
    /\ In(r, "idle")
    /\ \E op \in Operations, d \in Docs, w \in Workers :
          /\ op = "ingest" => Fresh(d)
          /\ req' = [req EXCEPT ![r] =
                [@ EXCEPT !.op = op, !.doc = d, !.worker = w, !.at = FirstPoint[op],
                    !.uploaded = op = "download"
                                 /\ \E u \in Requests : Answered(u, "upload", d),
                    !.known = IF op = "search"
                              THEN {x \in Docs : \E i \in Requests : Answered(i, "ingest", x)}
                              ELSE {}]]
    /\ UNCHANGED <<Stores, Environment>>

\* exists: a missing object is an answer, a missing bucket raises as an outage does.
ProbeAnswers == minioUp /\ bucket

\* get_object_storage: MinIO if the probe is answered, else the worker's memory.
Probe(r) ==
    /\ In(r, "probe")
    /\ req' = [req EXCEPT ![r].at = "read",
                          ![r].storage = IF ProbeAnswers THEN "minio" ELSE "fallback"]
    /\ UNCHANGED <<Stores, Environment>>

\* A review is answered without being audited.
M_AfterRead_ReviewUnaudited == [upload |-> "body", download |-> "get", process |-> "audit",
                                rag |-> "audit", review |-> "answer"]

\* What a handler waits for once its document record is read.
AfterRead == [upload |-> "body", download |-> "get", process |-> "audit",
              rag |-> "audit", review |-> "audit"]

\* A review skips documents that do not exist; the others refuse.
ReadRecord(r) ==
    LET op == req[r].op IN
    /\ In(r, "read")
    /\ \/ /\ req[r].doc \in documents \/ op = "review"
          /\ GoTo(r, AfterRead[op])
       \/ /\ req[r].doc \notin documents /\ op # "review"
          /\ ReplyWith(r, IF op = "rag" THEN "403" ELSE "404")
    /\ UNCHANGED <<Stores, Environment>>

-----------------------------------------------------------------------------
(* Content: upload and download *)

\* The audit event is appended, and the content never stored.
M_AfterBody_AuditFirst(r) == "audit"

AfterBody(r) == IF req[r].storage = "minio" THEN "bucket" ELSE "put"

\* The digest is not compared.
M_ReceiveBody_Unchecked(r) ==
    /\ In(r, "body")
    /\ \E b \in Docs : req' = [req EXCEPT ![r].data = b, ![r].at = AfterBody(r)]
    /\ UNCHANGED <<Stores, Environment>>

\* The body arrives when the client sends it.  An empty or oversized one and
\* one whose sha256 is not the record's are refused.
ReceiveBody(r) ==
    /\ In(r, "body")
    /\ \E b \in Bytes :
          \/ /\ b = req[r].doc
             /\ req' = [req EXCEPT ![r].data = b, ![r].at = AfterBody(r)]
          \/ /\ b # req[r].doc
             /\ ReplyWith(r, "422")
    /\ UNCHANGED <<Stores, Environment>>

\* MinioObjectStorage._ensure_bucket_sync: bucket_exists says yes, as the bucket was
\* there at the probe and nobody removes it.  make_bucket is therefore never called.
CheckBucket(r) ==
    /\ In(r, "bucket") /\ minioUp
    /\ GoTo(r, "put")
    /\ UNCHANGED <<Stores, Environment>>

\* The bytes stay in the worker although MinIO answers.
M_PutContent_FallbackOnly(r) ==
    LET d == req[r].doc w == req[r].worker IN
    /\ In(r, "put")
    /\ req[r].storage = "minio" => minioUp
    /\ fallback' = [fallback EXCEPT ![w][d] = req[r].data]
    /\ GoTo(r, "audit")
    /\ UNCHANGED <<documents, assignments, indexed, bucket, minio, auditTrail, Environment>>

PutContent(r) ==
    LET d == req[r].doc w == req[r].worker IN
    /\ In(r, "put")
    /\ \/ /\ req[r].storage = "minio" /\ minioUp
          /\ minio' = [minio EXCEPT ![d] = req[r].data]
          /\ UNCHANGED fallback
       \/ /\ req[r].storage = "fallback"
          /\ fallback' = [fallback EXCEPT ![w][d] = req[r].data]
          /\ UNCHANGED minio
    /\ GoTo(r, "audit")
    /\ UNCHANGED <<documents, assignments, indexed, bucket, auditTrail, Environment>>

\* The object under the request's key in the backend it resolved.
Held(r) == IF req[r].storage = "minio" THEN minio[req[r].doc]
           ELSE fallback[req[r].worker][req[r].doc]

\* The missing key is not noticed.
M_GetContent_NoMissing(r) ==
    /\ In(r, "get")
    /\ req[r].storage = "minio" => minioUp
    /\ req' = [req EXCEPT ![r].data = Held(r), ![r].at = "audit"]
    /\ UNCHANGED <<Stores, Environment>>

\* The bytes are streamed before the audit event is appended.
M_GetContent_AnswersFirst(r) ==
    /\ In(r, "get")
    /\ req[r].storage = "minio" => minioUp
    /\ \/ /\ Held(r) = Absent
          /\ ReplyWith(r, "content_not_uploaded")
       \/ /\ Held(r) # Absent
          /\ req' = [req EXCEPT ![r].data = Held(r), ![r].at = "answer"]
    /\ UNCHANGED <<Stores, Environment>>

\* Only a missing key is reported as missing content.
GetContent(r) ==
    /\ In(r, "get")
    /\ req[r].storage = "minio" => minioUp
    /\ \/ /\ Held(r) = Absent
          /\ ReplyWith(r, "content_not_uploaded")
       \/ /\ Held(r) # Absent
          /\ req' = [req EXCEPT ![r].data = Held(r), ![r].at = "audit"]
    /\ UNCHANGED <<Stores, Environment>>

\* MinIO stopped answering after the probe: there is no second fallback.
MinioFails(r) ==
    /\ req[r].at \in {"bucket", "put", "get"}
    /\ req[r].storage = "minio" /\ ~minioUp
    /\ ReplyWith(r, "500")
    /\ UNCHANGED <<Stores, Environment>>

\* MinIO stores the object but its answer does not arrive.
PutReplyLost(r) ==
    /\ In(r, "put") /\ req[r].storage = "minio" /\ minioUp
    /\ Count("minio")
    /\ minio' = [minio EXCEPT ![req[r].doc] = req[r].data]
    /\ ReplyWith(r, "500")
    /\ UNCHANGED <<documents, assignments, indexed, bucket, fallback, auditTrail,
                   minioUp, searchUp>>

-----------------------------------------------------------------------------
(* Ingest, search and case assignment *)

\* The row is flushed but never committed.
M_StoreDocument_NotCommitted(r) ==
    /\ In(r, "store")
    /\ UNCHANGED Stores

StoreDocument(r) ==
    /\ In(r, "store")
    /\ documents' = documents \cup {req[r].doc}
    /\ UNCHANGED <<assignments, indexed, bucket, minio, fallback, auditTrail>>

\* A failed indexing request fails the ingest.
M_IndexDocument_Raises(r) ==
    /\ In(r, "index")
    /\ indexed' = IF searchUp THEN indexed \cup {req[r].doc} ELSE indexed
    /\ IF searchUp THEN GoTo(r, "audit") ELSE ReplyWith(r, "500")
    /\ UNCHANGED <<documents, assignments, bucket, minio, fallback, auditTrail, Environment>>

\* Indexing is skipped now and then.
M_IndexDocument_Skipped(r) ==
    /\ In(r, "index")
    /\ \E skip \in BOOLEAN : indexed' = IF skip THEN indexed ELSE indexed \cup {req[r].doc}
    /\ GoTo(r, "audit")
    /\ UNCHANGED <<documents, assignments, bucket, minio, fallback, auditTrail, Environment>>

\* Indexing is attempted once; a failure is swallowed.
IndexDocument(r) ==
    /\ In(r, "index")
    /\ indexed' = IF searchUp THEN indexed \cup {req[r].doc} ELSE indexed
    /\ GoTo(r, "audit")
    /\ UNCHANGED <<documents, assignments, bucket, minio, fallback, auditTrail, Environment>>

\* One indexing request fails, by a timeout or an error status, while OpenSearch is up:
\* swallowed all the same.
IndexingFails(r) ==
    /\ In(r, "index") /\ searchUp
    /\ Count("search")
    /\ GoTo(r, "audit")
    /\ UNCHANGED <<Stores, minioUp, searchUp>>

\* OpenSearch if it answers (an index no document has created yet is an error),
\* else the documents table.
SearchBackend == IF searchUp /\ indexed # {} THEN indexed ELSE documents

Search(r) ==
    /\ In(r, "query")
    /\ req' = [req EXCEPT ![r].found = SearchBackend, ![r].reply = "200", ![r].at = "ended"]
    /\ UNCHANGED <<Stores, Environment>>

StoreAssignment(r) ==
    /\ In(r, "assign")
    /\ assignments' = assignments \cup {r}
    /\ UNCHANGED <<documents, indexed, bucket, minio, fallback, auditTrail>>

StoreAuditEvent(r) ==
    /\ In(r, "audit")
    /\ auditTrail' = auditTrail \cup {AuditRecord(r)}
    /\ UNCHANGED <<documents, assignments, indexed, bucket, minio, fallback>>

\* What a request commits, and where its handler goes on from there.
Commits(r) == StoreDocument(r) \/ StoreAssignment(r) \/ StoreAuditEvent(r)

AfterCommit(r) ==
    \/ In(r, "store") /\ GoTo(r, "index")
    \/ In(r, "assign") /\ ReplyWith(r, "200")
    \/ In(r, "audit") /\ GoTo(r, "answer")

Commit(r) == Commits(r) /\ AfterCommit(r) /\ UNCHANGED Environment

\* The response leaves; a download streams its bytes only here.
Answer(r) ==
    /\ In(r, "answer")
    /\ ReplyWith(r, "200")
    /\ UNCHANGED <<Stores, Environment>>

-----------------------------------------------------------------------------
(* Faults *)

\* A database call raises: nothing of it is stored, the request ends in an error.
DbError(r) ==
    /\ Count("db")
    /\ req[r].at \in {"read", "store", "assign", "audit"}
    /\ ReplyWith(r, "500")
    /\ UNCHANGED <<Stores, minioUp, searchUp>>

\* A commit succeeds, but the worker only sees its connection fail.
CommitReplyLost(r) ==
    /\ Count("db")
    /\ Commits(r)
    /\ ReplyWith(r, "500")
    /\ UNCHANGED <<minioUp, searchUp>>

\* A worker dies with its requests and its in-memory store, and starts again.
Restart(w) ==
    /\ Count("restart")
    /\ fallback' = [fallback EXCEPT ![w] = [d \in Docs |-> Absent]]
    /\ req' = [r \in Requests |->
                 IF Running(r) /\ req[r].worker = w
                 THEN [req[r] EXCEPT !.at = "ended", !.reply = "500"] ELSE req[r]]
    /\ UNCHANGED <<documents, assignments, indexed, bucket, minio, auditTrail,
                   minioUp, searchUp>>

\* An operator makes the bucket: the API only makes one past a probe that needs it.
CreateBucket ==
    /\ ~bucket /\ bucket' = TRUE
    /\ UNCHANGED <<documents, assignments, indexed, minio, fallback, auditTrail, req,
                   Environment>>

MinioDown ==
    /\ minioUp /\ Count("minio")
    /\ minioUp' = FALSE
    /\ UNCHANGED <<Stores, searchUp, req>>

MinioBack ==
    /\ ~minioUp /\ minioUp' = TRUE
    /\ UNCHANGED <<Stores, searchUp, req, faults>>

SearchDown ==
    /\ searchUp /\ Count("search")
    /\ searchUp' = FALSE
    /\ UNCHANGED <<Stores, minioUp, req>>

SearchBack ==
    /\ ~searchUp /\ searchUp' = TRUE
    /\ UNCHANGED <<Stores, minioUp, req, faults>>

\* Every request has been answered and no more arrive.
Quiescent ==
    /\ \A r \in Requests : In(r, "ended")
    /\ UNCHANGED vars

HandlerStep(r) ==
    \/ Probe(r) \/ ReadRecord(r) \/ ReceiveBody(r)
    \/ CheckBucket(r) \/ PutContent(r) \/ GetContent(r)
    \/ MinioFails(r) \/ PutReplyLost(r)
    \/ IndexDocument(r) \/ IndexingFails(r) \/ Search(r) \/ Commit(r) \/ Answer(r)

Next ==
    \/ \E r \in Requests : Arrive(r) \/ HandlerStep(r) \/ DbError(r) \/ CommitReplyLost(r)
    \/ \E w \in Workers : Restart(w)
    \/ CreateBucket \/ MinioDown \/ MinioBack \/ SearchDown \/ SearchBack
    \/ Quiescent

Spec == Init /\ [][Next]_vars

-----------------------------------------------------------------------------
(* Properties *)

\* Every variable keeps its type, and an upload or download at its audit event has
\* the bytes that the event reports.
TypeOK ==
    /\ documents \subseteq Docs /\ indexed \subseteq Docs /\ assignments \subseteq Requests
    /\ bucket \in BOOLEAN /\ minioUp \in BOOLEAN /\ searchUp \in BOOLEAN
    /\ minio \in [Docs -> Bytes]
    /\ fallback \in [Workers -> [Docs -> Bytes]]
    /\ auditTrail \subseteq [request : Requests, doc : Docs,
                              action : {AuditAction[op] : op \in DOMAIN AuditAction}]
    /\ req \in [Requests -> Handler]
    /\ \A r \in Requests :     \* a handler at its audit has the bytes it reports
          In(r, "audit") /\ req[r].op \in {"upload", "download"} => req[r].data \in Docs
    /\ faults \in [Faults -> 0..MaxFaults]

\* Bytes a download delivers hash to the sha256 recorded at ingest, whichever
\* upload, worker and backend they came through.
DeliveredIsIntact ==
    \A r \in Requests : req[r].op = "download" /\ req[r].reply = "200"
                         => req[r].data = req[r].doc

\* Every audited operation that is answered with 200 has its audit event stored:
\* in particular no byte leaves before the download is on record.
AnsweredIsAudited ==
    \A r \in Requests : req[r].reply = "200" /\ req[r].op \in DOMAIN AuditAction
                         => AuditRecord(r) \in auditTrail

\* What an answer reports survives every later fault: an ingested document is
\* committed, an upload that went to MinIO is there, an assignment is stored.
AnsweredIsStored ==
    \A r \in Requests :
        req[r].reply = "200" =>
            /\ req[r].op = "ingest" => req[r].doc \in documents
            /\ req[r].op = "upload" /\ req[r].storage = "minio"
                  => minio[req[r].doc] = req[r].doc
            /\ req[r].op = "assign" => r \in assignments

\* The audit log records nothing that did not happen: an ingested or read document
\* exists, and uploaded content was stored (a restart may since have lost it).
AuditTellsTruth ==
    \A a \in auditTrail :
        /\ a.action # AuditAction.review => a.doc \in documents
        /\ a.action = AuditAction.upload =>
              \/ minio[a.doc] = a.doc
              \/ \E w \in Workers : fallback[w][a.doc] = a.doc
              \/ faults.restart > 0

\* A hit of a search, from either backend, is a document that is committed.
SearchShowsOnlyDocuments ==
    \A r \in Requests : req[r].found \subseteq documents

\* A search finds every document whose ingest was answered before it was sent.
IngestedIsFound ==
    \A r \in Requests : req[r].op = "search" /\ req[r].reply = "200"
                         => req[r].known \subseteq req[r].found

\* Unless OpenSearch has failed, a search finds every document whose ingest was
\* answered before it was sent, restarts and database errors notwithstanding.
SearchFindsIngested == faults.search = 0 => IngestedIsFound

\* A download sent after an upload was answered never reports missing content.
UploadedIsFound ==
    \A r \in Requests : req[r].uploaded => req[r].reply # "content_not_uploaded"

\* Content that MinIO took stays available to every worker that asks MinIO, whatever
\* interleaves, restarts or fails: content uploaded before is reported missing only
\* if a worker's memory served this download or the upload it relied on.
UploadsStayAvailable ==
    \A r \in Requests :
        req[r].uploaded /\ req[r].reply = "content_not_uploaded" =>
            \/ req[r].storage = "fallback"
            \/ \E u \in Requests : /\ Answered(u, "upload", req[r].doc)
                                  /\ req[u].storage = "fallback"

\* The first write makes the bucket: unless MinIO has failed, an upload that was
\* answered has left a bucket there for the others.
BucketIsMade ==
    faults.minio = 0 =>
        \A r \in Requests : req[r].op = "upload" /\ req[r].reply = "200" => bucket

\* A change is recorded unless a fault strikes between the change and its record:
\* an ingest that has ended without one has left no document unrecorded.
ChangesAreAudited ==
    \A r \in Requests :
        /\ In(r, "ended") /\ req[r].op = "ingest" /\ req[r].doc \in documents
        /\ faults.db = 0 /\ faults.restart = 0
        => Audited(r)
=============================================================================
