------------------------ MODULE DocumentServiceProofs ------------------------
(***************************************************************************)
(* Theorems about DocumentService for any number of requests, documents    *)
(* and workers, and any number of faults of every kind.                    *)
(***************************************************************************)
EXTENDS DocumentService, TLAPS

\* The types alone.
ServiceTypes ==
    /\ documents \subseteq Docs /\ indexed \subseteq Docs /\ assignments \subseteq Requests
    /\ bucket \in BOOLEAN /\ minioUp \in BOOLEAN /\ searchUp \in BOOLEAN
    /\ minio \in [Docs -> Bytes]
    /\ fallback \in [Workers -> [Docs -> Bytes]]
    /\ auditTrail \subseteq [request : Requests, doc : Docs,
                              action : {AuditAction[op] : op \in DOMAIN AuditAction}]
    /\ req \in [Requests -> Handler]
    /\ faults \in [Faults -> 0..MaxFaults]

\* A handler waits only where its operation does, and has not replied while it runs.
OnPath(r) ==
    /\ In(r, "idle") => req[r].op = "none" /\ ~req[r].uploaded
    /\ ~In(r, "idle") => /\ req[r].op \in AllOperations
                         /\ req[r].doc \in Docs /\ req[r].worker \in Workers
    /\ ~In(r, "ended") => req[r].reply = "none"
    /\ req[r].at \in {"store", "index"} => req[r].op = "ingest"
    /\ In(r, "probe") => req[r].op \in {"upload", "download"}
    /\ In(r, "read") => req[r].op \in {"upload", "download", "process", "rag", "review"}
    /\ req[r].at \in {"body", "bucket", "put"} => req[r].op = "upload"
    /\ In(r, "get") => req[r].op = "download"
    /\ In(r, "query") => req[r].op = "search"
    /\ In(r, "assign") => req[r].op = "assign"
    /\ req[r].at \in {"audit", "answer"} => req[r].op \in DOMAIN AuditAction

Past(r, points) == req[r].at \in points \/ req[r].reply = "200"

\* Past its first database call a handler has a committed record, except that a
\* review skips the documents that are missing.
HasRecord(r) ==
    Past(r, {"index", "body", "bucket", "put", "get", "audit", "answer"})
        /\ req[r].op \notin {"review", "search", "assign"}
    => req[r].doc \in documents

\* The bytes a handler holds are those whose digest its record has.
HasContent(r) ==
    /\ req[r].op = "upload" /\ Past(r, {"bucket", "put", "audit", "answer"})
          => req[r].data = req[r].doc
    /\ req[r].op = "download" /\ Past(r, {"audit", "answer"})
          => req[r].data = req[r].doc

\* An upload that is past its put has left its bytes in the backend it resolved; only
\* a restart takes them from the fallback.
HasStored(r) ==
    LET d == req[r].doc w == req[r].worker IN
    /\ req[r].op = "upload" /\ Past(r, {"audit", "answer"}) =>
          \/ req[r].storage = "minio" /\ minio[d] = d
          \/ req[r].storage = "fallback" /\ (fallback[w][d] = d \/ faults.restart > 0)
    /\ req[r].op = "assign" /\ req[r].reply = "200" => r \in assignments

\* Storage is resolved before the content is waited for.
HasStorage(r) ==
    /\ req[r].at \in {"body", "put", "get"} => req[r].storage \in {"minio", "fallback"}
    /\ req[r].at = "read" /\ req[r].op \in {"upload", "download"}
          => req[r].storage \in {"minio", "fallback"}
    /\ In(r, "bucket") => req[r].storage = "minio"

\* An answer of an audited operation comes after its record, and an ingest ends
\* without one only in a fault.
HasAudit(r) ==
    /\ req[r].op \in DOMAIN AuditAction /\ Past(r, {"answer"}) => AuditRecord(r) \in auditTrail
    /\ In(r, "ended") /\ req[r].op = "ingest" /\ faults.db = 0 /\ faults.restart = 0
          => AuditRecord(r) \in auditTrail

\* The hits of a search are documents.  As long as OpenSearch has not failed, an ingest
\* past its indexing is in the index, and so are the documents a search must find.
HasHits(r) ==
    /\ req[r].found \subseteq documents
    /\ faults.search = 0 =>
          /\ req[r].op = "ingest" /\ Past(r, {"audit", "answer"}) => req[r].doc \in indexed
          /\ req[r].known \subseteq indexed
          /\ req[r].op = "search" /\ req[r].reply = "200" => req[r].known \subseteq req[r].found

HandlerInv(r) ==
    /\ OnPath(r) /\ HasRecord(r) /\ HasContent(r) /\ HasStored(r) /\ HasStorage(r)
    /\ HasAudit(r) /\ HasHits(r)

\* What the stores hold: a key has its own bytes or none, and what is indexed is
\* committed.
StoresInv ==
    /\ indexed \subseteq documents
    /\ \A d \in Docs : minio[d] \in {d, Absent}
    /\ \A w \in Workers, d \in Docs : fallback[w][d] \in {d, Absent}
    /\ faults.search = 0 => searchUp
    /\ AuditTellsTruth

\* An answered upload of d went to some worker's memory.
TakenByMemory(d) ==
    \E u \in Requests : Answered(u, "upload", d) /\ req[u].storage = "fallback"

\* Content that was uploaded when a download was sent is in MinIO unless a worker's
\* memory took it, and is reported missing only out of such memory.
SeesUpload(r) ==
    /\ req[r].uploaded => minio[req[r].doc] = req[r].doc \/ TakenByMemory(req[r].doc)
    /\ req[r].uploaded /\ req[r].reply = "content_not_uploaded"
          => req[r].storage = "fallback" \/ TakenByMemory(req[r].doc)

ServiceInv == ServiceTypes /\ StoresInv /\ \A r \in Requests : HandlerInv(r)

UploadInv == \A r \in Requests : SeesUpload(r)

-----------------------------------------------------------------------------
USE ServiceBounds, AbsentAssumption

\* What every step does to the stores: what is committed stays, a key that has its
\* bytes keeps them, and the faults add up.
Grows ==
    /\ documents \subseteq documents' /\ assignments \subseteq assignments'
    /\ indexed \subseteq indexed' /\ auditTrail \subseteq auditTrail'
    /\ \A d \in Docs : minio[d] = d => minio'[d] = d
    /\ \A w \in Workers, d \in Docs :
          fallback[w][d] = d => fallback'[w][d] = d \/ faults'.restart > 0
    /\ \A k \in Faults : faults[k] <= faults'[k]

\* The request that the handler answers stays the same.
Kept(r) ==
    /\ req'[r].op = req[r].op /\ req'[r].doc = req[r].doc /\ req'[r].worker = req[r].worker
    /\ req'[r].uploaded = req[r].uploaded /\ req'[r].known = req[r].known

OthersWait(r) == \A s \in Requests \ {r} : req'[s] = req[s]

\* GoTo moves one handler and nothing else of it.
LEMMA GoToMoves ==
    ASSUME ServiceTypes, NEW r \in Requests, NEW point \in Points, GoTo(r, point)
    PROVE  /\ req' \in [Requests -> Handler] /\ OthersWait(r) /\ Kept(r)
           /\ req'[r].at = point
           /\ req'[r].storage = req[r].storage /\ req'[r].data = req[r].data
           /\ req'[r].found = req[r].found /\ req'[r].reply = req[r].reply
BY DEF ServiceTypes, Handler, GoTo, OthersWait, Kept

\* ReplyWith ends one handler.
LEMMA ReplyMoves ==
    ASSUME ServiceTypes, NEW r \in Requests, NEW reply \in Replies, ReplyWith(r, reply)
    PROVE  /\ req' \in [Requests -> Handler] /\ OthersWait(r) /\ Kept(r)
           /\ req'[r].at = "ended" /\ req'[r].reply = reply
           /\ req'[r].storage = req[r].storage /\ req'[r].data = req[r].data
           /\ req'[r].found = req[r].found
<1>1. "ended" \in Points
  BY DEF Points
<1> DEFINE h == [req[r] EXCEPT !.at = "ended", !.reply = reply]
<1>2. req \in [Requests -> Handler] /\ req' = [req EXCEPT ![r] = h]
  BY DEF ServiceTypes, ReplyWith, Handler
<1>3. /\ h \in Handler /\ h.at = "ended" /\ h.reply = reply
      /\ h.op = req[r].op /\ h.doc = req[r].doc /\ h.worker = req[r].worker
      /\ h.uploaded = req[r].uploaded /\ h.known = req[r].known
      /\ h.storage = req[r].storage /\ h.data = req[r].data /\ h.found = req[r].found
  BY <1>1, <1>2 DEF Handler
<1> HIDE DEF h
<1>4. QED
  BY <1>2, <1>3 DEF OthersWait, Kept

\* Counting a fault raises its counter and leaves the others.
LEMMA CountRaises ==
    ASSUME ServiceTypes, NEW k \in Faults, Count(k)
    PROVE  /\ faults' \in [Faults -> 0..MaxFaults] /\ faults'[k] > 0
           /\ \A j \in Faults : faults[j] <= faults'[j]
           /\ \A j \in Faults \ {k} : faults'[j] = faults[j]
<1>1. /\ faults \in [Faults -> Nat]
      /\ faults["minio"] + faults["search"] + faults["restart"] + faults["db"] < MaxFaults
      /\ faults' = [faults EXCEPT ![k] = faults[k] + 1]
  BY DEF ServiceTypes, Count
<1>2. faults[k] < MaxFaults
  BY <1>1 DEF Faults
<1>3. QED
  BY <1>1, <1>2 DEF ServiceTypes

\* The audit record of a request names what does not change.
LEMMA AuditRecordKept ==
    ASSUME NEW r, Kept(r)
    PROVE  AuditRecord(r)' = AuditRecord(r)
BY DEF Kept, AuditRecord

\* A handler that does not move keeps its part of the invariant, whatever the others
\* store meanwhile.
LEMMA OthersKeep ==
    ASSUME ServiceTypes, ServiceTypes', Grows, NEW r \in Requests, req'[r] = req[r],
           HandlerInv(r)
    PROVE  HandlerInv(r)'
<1>1. /\ req[r] \in Handler /\ Kept(r) /\ AuditRecord(r)' = AuditRecord(r)
      /\ \A k \in Faults : faults[k] \in Nat /\ faults'[k] \in Nat /\ faults[k] <= faults'[k]
      /\ {"minio", "search", "restart", "db"} \subseteq Faults
  BY AuditRecordKept DEF ServiceTypes, Kept, Grows, Faults
<1>2. OnPath(r)'
  BY DEF HandlerInv, OnPath, In
<1>3. HasRecord(r)' /\ HasContent(r)'
  BY DEF HandlerInv, HasRecord, HasContent, Past, Grows
<1>4. HasStored(r)'
  <2>1. req[r].op # "none" => req[r].doc \in Docs /\ req[r].worker \in Workers
    BY DEF HandlerInv, OnPath, In
  <2>2. faults'["restart"] \in Nat /\ (faults["restart"] > 0 => faults'["restart"] > 0)
    BY <1>1
  <2>3. QED
    BY <2>1, <2>2 DEF HandlerInv, HasStored, Past, Grows
<1>5. HasStorage(r)'
  BY DEF HandlerInv, HasStorage, In
<1>6. HasAudit(r)'
  <2>1. /\ faults'["db"] = 0 => faults["db"] = 0
        /\ faults'["restart"] = 0 => faults["restart"] = 0
    BY <1>1
  <2>2. QED
    BY <1>1, <2>1 DEF HandlerInv, HasAudit, Past, In, Grows
<1>7. HasHits(r)'
  <2>1. faults'["search"] = 0 => faults["search"] = 0
    BY <1>1
  <2>2. QED
    BY <2>1 DEF HandlerInv, HasHits, Past, Grows
<1>8. QED
  BY <1>2, <1>3, <1>4, <1>5, <1>6, <1>7 DEF HandlerInv

-----------------------------------------------------------------------------
\* A step that changes a handler only keeps the stores.
LEMMA QuietKeepsStores ==
    ASSUME ServiceTypes, StoresInv, UNCHANGED <<Stores, Environment>>,
           req' \in [Requests -> Handler]
    PROVE  ServiceTypes' /\ StoresInv' /\ Grows
<1>1. ServiceTypes'
  BY DEF ServiceTypes, Stores, Environment
<1>2. StoresInv'
  BY DEF StoresInv, AuditTellsTruth, Stores, Environment
<1>3. \A k \in Faults : faults[k] \in Nat
  BY DEF ServiceTypes
<1>4. Grows
  BY <1>3 DEF Grows, Stores, Environment
<1>5. QED
  BY <1>1, <1>2, <1>4

\* A handler that ends without a 200 keeps its part of the invariant: an ingest
\* ends so only in a fault.
LEMMA RefusalKeeps ==
    ASSUME ServiceTypes, ServiceTypes', Grows, NEW r \in Requests, HandlerInv(r),
           Kept(r), req'[r].at = "ended", ~In(r, "idle"),
           req'[r].reply \in Replies \ {"none", "200"},
           req'[r].storage = req[r].storage, req'[r].found = req[r].found,
           req[r].op = "ingest" => faults'["db"] > 0 \/ faults'["restart"] > 0
                                   \/ AuditRecord(r) \in auditTrail
    PROVE  HandlerInv(r)'
<1>1. /\ \A k \in Faults : faults[k] \in Nat /\ faults'[k] \in Nat /\ faults[k] <= faults'[k]
      /\ {"minio", "search", "restart", "db"} \subseteq Faults
      /\ AuditRecord(r)' = AuditRecord(r)
      /\ req[r] \in Handler /\ req'[r] \in Handler
  BY AuditRecordKept DEF ServiceTypes, Grows, Faults
<1>2. OnPath(r)'
  BY DEF HandlerInv, OnPath, In, Kept
<1>3. HasRecord(r)' /\ HasContent(r)' /\ HasStored(r)'
  BY DEF HasRecord, HasContent, HasStored, Past
<1>4. HasStorage(r)'
  BY DEF HasStorage, In
<1>5. HasAudit(r)'
  <2>1. /\ faults'["db"] = 0 => ~(faults'["db"] > 0)
        /\ faults'["restart"] = 0 => ~(faults'["restart"] > 0)
    BY <1>1
  <2>2. QED
    BY <1>1, <2>1 DEF HandlerInv, HasAudit, Past, In, Grows, Kept
<1>6. HasHits(r)'
  <2>1. faults'["search"] = 0 => faults["search"] = 0
    BY <1>1
  <2>2. QED
    BY <2>1 DEF HandlerInv, HasHits, Past, Grows, Kept
<1>7. QED
  BY <1>2, <1>3, <1>4, <1>5, <1>6 DEF HandlerInv

-----------------------------------------------------------------------------
\* What a step of one handler starts from, and what it leaves.
Ready(r) == ServiceTypes /\ StoresInv /\ HandlerInv(r)
Done(r) == ServiceTypes' /\ StoresInv' /\ Grows /\ OthersWait(r) /\ HandlerInv(r)'

\* A refusal that stores nothing.
LEMMA QuietRefusalKeeps ==
    ASSUME NEW r \in Requests, Ready(r), ~In(r, "idle"), req[r].op # "ingest",
           NEW reply \in Replies \ {"none", "200"}, ReplyWith(r, reply),
           UNCHANGED <<Stores, Environment>>
    PROVE  Done(r)
<1>1. /\ req' \in [Requests -> Handler] /\ OthersWait(r) /\ Kept(r)
      /\ req'[r].at = "ended" /\ req'[r].reply = reply
      /\ req'[r].storage = req[r].storage /\ req'[r].found = req[r].found
  BY ReplyMoves DEF Ready
<1>2. ServiceTypes' /\ StoresInv' /\ Grows
  BY <1>1, QuietKeepsStores DEF Ready
<1>3. faults' = faults
  BY DEF Environment
<1>4. HandlerInv(r)'
  BY <1>1, <1>2, <1>3, RefusalKeeps DEF Ready
<1>5. QED
  BY <1>1, <1>2, <1>4 DEF Done

\* Where each operation starts.
LEMMA FirstPoints ==
    /\ FirstPoint["ingest"] = "store" /\ FirstPoint["upload"] = "probe"
    /\ FirstPoint["download"] = "probe" /\ FirstPoint["process"] = "read"
    /\ FirstPoint["rag"] = "read" /\ FirstPoint["review"] = "read"
    /\ FirstPoint["search"] = "query" /\ FirstPoint["assign"] = "assign"
BY DEF FirstPoint

\* What a new request may rely on was stored before it was answered.
LEMMA ArriveKeeps ==
    ASSUME ServiceInv, NEW r \in Requests, Arrive(r)
    PROVE  Done(r)
<1>1. PICK op \in Operations, d \in Docs, w \in Workers :
         req' = [req EXCEPT ![r] =
            [@ EXCEPT !.op = op, !.doc = d, !.worker = w, !.at = FirstPoint[op],
                !.uploaded = op = "download"
                             /\ \E u \in Requests : Answered(u, "upload", d),
                !.known = IF op = "search"
                          THEN {x \in Docs : \E i \in Requests : Answered(i, "ingest", x)}
                          ELSE {}]]
  BY DEF Arrive
<1> DEFINE uploaded == op = "download" /\ \E u \in Requests : Answered(u, "upload", d)
           known == IF op = "search"
                    THEN {x \in Docs : \E i \in Requests : Answered(i, "ingest", x)}
                    ELSE {}
           h == [req[r] EXCEPT !.op = op, !.doc = d, !.worker = w, !.at = FirstPoint[op],
                               !.uploaded = uploaded, !.known = known]
<1>2. /\ req \in [Requests -> Handler] /\ In(r, "idle") /\ op \in AllOperations
      /\ UNCHANGED <<Stores, Environment>>
  BY OperationsAssumption DEF ServiceInv, ServiceTypes, Arrive
<1>3. uploaded \in BOOLEAN /\ known \in SUBSET Docs
  OBVIOUS
<1>4. req' = [req EXCEPT ![r] = h]
  BY <1>1
<1>5. uploaded => op = "download" /\ \E u \in Requests : Answered(u, "upload", d)
  OBVIOUS
<1>6. \A x \in known : \E i \in Requests : Answered(i, "ingest", x)
  OBVIOUS
<1> HIDE DEF uploaded, known
<1>7. FirstPoint[op] \in Points
  BY <1>2, FirstPoints DEF AllOperations, Points
<1>8. /\ h \in Handler /\ h.op = op /\ h.doc = d /\ h.worker = w /\ h.at = FirstPoint[op]
      /\ h.uploaded = uploaded /\ h.known = known /\ h.storage = req[r].storage
      /\ h.reply = req[r].reply /\ h.found = req[r].found
  BY <1>2, <1>3, <1>7 DEF Handler
<1> HIDE DEF h
<1>9. req' \in [Requests -> Handler] /\ req'[r] = h /\ OthersWait(r)
  BY <1>2, <1>4, <1>8 DEF OthersWait
<1>10. ServiceTypes' /\ StoresInv' /\ Grows
  BY <1>2, <1>9, QuietKeepsStores DEF ServiceInv
<1>11. req[r].reply = "none"
  BY <1>2 DEF ServiceInv, HandlerInv, OnPath, In
<1>12. OnPath(r)'
  BY <1>2, <1>8, <1>9, <1>11, <1>5, FirstPoints DEF OnPath, In, AllOperations
<1>13. HasRecord(r)' /\ HasContent(r)' /\ HasStored(r)' /\ HasAudit(r)'
  BY <1>2, <1>8, <1>9, <1>11, FirstPoints
  DEF HasRecord, HasContent, HasStored, HasAudit, Past, In, AllOperations
<1>14. HasStorage(r)'
  BY <1>2, <1>8, <1>9, FirstPoints DEF HasStorage, In, AllOperations
<1>15. HasHits(r)'
  <2>1. faults.search = 0 => known \subseteq indexed
    BY <1>6 DEF ServiceInv, HandlerInv, HasHits, Answered, Past
  <2>2. indexed' = indexed /\ faults' = faults /\ documents' = documents
    BY <1>2 DEF Stores, Environment
  <2>3. h.at \notin {"audit", "answer"}
    BY <1>2, <1>8, FirstPoints DEF AllOperations
  <2>4. req[r].found \subseteq documents
    BY DEF ServiceInv, HandlerInv, HasHits
  <2>5. QED
    BY <1>8, <1>9, <1>11, <2>1, <2>2, <2>3, <2>4 DEF HasHits, Past
<1>16. QED
  BY <1>9, <1>10, <1>12, <1>13, <1>14, <1>15 DEF Done, HandlerInv

-----------------------------------------------------------------------------
\* The parts of the invariant that a step between two waits leaves alone, when it
\* changes no store and no reply.
LEMMA QuietMoveKeeps ==
    ASSUME NEW r \in Requests, Ready(r), UNCHANGED <<Stores, Environment>>,
           req' \in [Requests -> Handler], OthersWait(r), Kept(r),
           ~In(r, "idle"), ~In(r, "ended"),
           req'[r].reply = req[r].reply, req'[r].found = req[r].found,
           req'[r].at \in Points \ {"idle", "ended", "answer"},
           req[r].op \in {"upload", "download", "process", "rag", "review"},
           OnPath(r)', HasRecord(r)', HasContent(r)', HasStored(r)', HasStorage(r)'
    PROVE  Done(r)
<1>1. ServiceTypes' /\ StoresInv' /\ Grows
  BY QuietKeepsStores DEF Ready
<1>2. req[r].reply = "none"
  BY DEF Ready, HandlerInv, OnPath
<1>3. HasAudit(r)' /\ HasHits(r)'
  BY <1>2 DEF Ready, HandlerInv, HasAudit, HasHits, Past, In, Kept, Stores, Environment
<1>4. QED
  BY <1>1, <1>3 DEF Done, HandlerInv

\* The storage of an upload or a download is resolved once.
LEMMA ProbeKeeps ==
    ASSUME NEW r \in Requests, Ready(r), Probe(r)
    PROVE  Done(r)
<1> DEFINE storage == IF ProbeAnswers THEN "minio" ELSE "fallback"
           h == [req[r] EXCEPT !.at = "read", !.storage = storage]
<1>1. /\ req \in [Requests -> Handler] /\ In(r, "probe")
      /\ UNCHANGED <<Stores, Environment>>
      /\ req[r].op \in {"upload", "download"}
      /\ req[r].reply = "none" /\ req[r].doc \in Docs /\ req[r].worker \in Workers
  BY DEF Ready, ServiceTypes, Probe, HandlerInv, OnPath, In
<1>2. req' = [req EXCEPT ![r] = h]
  BY <1>1 DEF Probe, Handler
<1>3. /\ h \in Handler /\ h.at = "read" /\ h.storage = storage
      /\ h.op = req[r].op /\ h.doc = req[r].doc /\ h.worker = req[r].worker
      /\ h.uploaded = req[r].uploaded /\ h.known = req[r].known
      /\ h.reply = req[r].reply /\ h.found = req[r].found
  <2>1. "read" \in Points /\ storage \in {"none", "minio", "fallback"}
    BY DEF Points
  <2> HIDE DEF storage
  <2>2. QED
    BY <1>1, <2>1 DEF Handler
<1> HIDE DEF h
<1>4. req' \in [Requests -> Handler] /\ req'[r] = h /\ OthersWait(r) /\ Kept(r)
  BY <1>1, <1>2, <1>3 DEF OthersWait, Kept
<1>5. OnPath(r)'
  BY <1>1, <1>3, <1>4 DEF OnPath, In, AllOperations
<1>6. HasRecord(r)' /\ HasContent(r)' /\ HasStored(r)'
  BY <1>1, <1>3, <1>4 DEF HasRecord, HasContent, HasStored, Past
<1>7. HasStorage(r)'
  BY <1>1, <1>3, <1>4 DEF HasStorage, In
<1>8. QED
  BY <1>1, <1>3, <1>4, <1>5, <1>6, <1>7, QuietMoveKeeps DEF In, Points

\* A handler whose record exists goes on; only a review does without.
LEMMA ReadRecordKeeps ==
    ASSUME NEW r \in Requests, Ready(r), ReadRecord(r)
    PROVE  Done(r)
<1> DEFINE op == req[r].op
           point == AfterRead[op]
<1>1. /\ In(r, "read") /\ UNCHANGED <<Stores, Environment>>
      /\ op \in {"upload", "download", "process", "rag", "review"}
      /\ req[r].reply = "none" /\ req[r].doc \in Docs /\ req[r].worker \in Workers
  BY DEF Ready, ReadRecord, HandlerInv, OnPath, In
<1>2. /\ op = "upload" => point = "body"
      /\ op = "download" => point = "get"
      /\ op \in {"process", "rag", "review"} => point = "audit"
      /\ point \in {"body", "get", "audit"}
  BY <1>1 DEF AfterRead
<1>3. CASE (req[r].doc \in documents \/ op = "review") /\ GoTo(r, point)
  <2> HIDE DEF point
  <2>1. /\ req' \in [Requests -> Handler] /\ OthersWait(r) /\ Kept(r)
        /\ req'[r].at = point /\ req'[r].storage = req[r].storage
        /\ req'[r].found = req[r].found /\ req'[r].reply = "none"
    BY <1>1, <1>2, <1>3, GoToMoves DEF Ready, Points
  <2>2. OnPath(r)'
    BY <1>1, <1>2, <2>1 DEF OnPath, In, Kept, AllOperations, AuditAction
  <2>3. HasRecord(r)'
    BY <1>1, <1>3, <2>1 DEF HasRecord, Kept, Stores
  <2>4. HasContent(r)' /\ HasStored(r)'
    BY <1>1, <1>2, <2>1 DEF HasContent, HasStored, Past, Kept
  <2>5. HasStorage(r)'
    <3>1. req[r].at = "read" /\ op \in {"upload", "download"}
             => req[r].storage \in {"minio", "fallback"}
      BY DEF Ready, HandlerInv, HasStorage
    <3>2. QED
      BY <1>1, <1>2, <2>1, <3>1
      DEF HasStorage, Ready, HandlerInv, Kept, In, Stores, Environment
  <2>6. QED
    BY <1>1, <1>2, <2>1, <2>2, <2>3, <2>4, <2>5, QuietMoveKeeps DEF In, Points
<1>4. CASE op # "review" /\ ReplyWith(r, IF op = "rag" THEN "403" ELSE "404")
  BY <1>1, <1>4, QuietRefusalKeeps DEF In, Replies
<1>5. QED
  BY <1>3, <1>4 DEF ReadRecord

\* Only a body with the record's digest is kept.
LEMMA ReceiveBodyKeeps ==
    ASSUME NEW r \in Requests, Ready(r), ReceiveBody(r)
    PROVE  Done(r)
<1>1. /\ req \in [Requests -> Handler] /\ In(r, "body") /\ UNCHANGED <<Stores, Environment>>
      /\ req[r].op = "upload" /\ req[r].reply = "none"
      /\ req[r].doc \in Docs /\ req[r].worker \in Workers /\ req[r].doc \in documents
      /\ req[r].storage \in {"minio", "fallback"}
  BY DEF Ready, ServiceTypes, ReceiveBody, HandlerInv, OnPath, HasRecord, HasStorage, Past, In
<1>2. CASE req' = [req EXCEPT ![r].data = req[r].doc, ![r].at = AfterBody(r)]
  <2> DEFINE point == AfterBody(r)
             h == [req[r] EXCEPT !.data = req[r].doc, !.at = point]
  <2>1. /\ req' = [req EXCEPT ![r] = h]
        /\ point \in {"bucket", "put"}
        /\ point = "bucket" => req[r].storage = "minio"
    BY <1>1, <1>2 DEF Handler, AfterBody
  <2> HIDE DEF point
  <2>2. /\ h \in Handler /\ h.at = point /\ h.data = req[r].doc
        /\ h.op = req[r].op /\ h.doc = req[r].doc /\ h.worker = req[r].worker
        /\ h.uploaded = req[r].uploaded /\ h.known = req[r].known
        /\ h.storage = req[r].storage /\ h.reply = req[r].reply /\ h.found = req[r].found
    <3>1. point \in Points /\ req[r].doc \in Bytes
      BY <1>1, <2>1 DEF Points, Bytes
    <3>2. QED
      BY <1>1, <3>1 DEF Handler
  <2> HIDE DEF h
  <2>3. req' \in [Requests -> Handler] /\ req'[r] = h /\ OthersWait(r) /\ Kept(r)
    BY <1>1, <2>1, <2>2 DEF OthersWait, Kept
  <2>4. OnPath(r)'
    BY <1>1, <2>1, <2>2, <2>3 DEF OnPath, In, AllOperations
  <2>5. HasRecord(r)'
    BY <1>1, <2>2, <2>3 DEF HasRecord, Stores
  <2>6. HasContent(r)' /\ HasStored(r)'
    BY <1>1, <2>1, <2>2, <2>3 DEF HasContent, HasStored, Past
  <2>7. HasStorage(r)'
    BY <1>1, <2>1, <2>2, <2>3 DEF HasStorage, In
  <2>8. QED
    BY <1>1, <2>1, <2>2, <2>3, <2>4, <2>5, <2>6, <2>7, QuietMoveKeeps DEF In, Points
<1>3. CASE ReplyWith(r, "422")
  BY <1>1, <1>3, QuietRefusalKeeps DEF In, Replies
<1>4. QED
  BY <1>2, <1>3 DEF ReceiveBody

\* Nothing is stored while the bucket is looked for.
LEMMA CheckBucketKeeps ==
    ASSUME NEW r \in Requests, Ready(r), CheckBucket(r)
    PROVE  Done(r)
<1>1. /\ In(r, "bucket") /\ UNCHANGED <<Stores, Environment>> /\ GoTo(r, "put")
      /\ req[r].op = "upload" /\ req[r].reply = "none"
      /\ req[r].doc \in Docs /\ req[r].worker \in Workers /\ req[r].doc \in documents
      /\ req[r].storage = "minio" /\ req[r].data = req[r].doc
      /\ documents' = documents
  BY DEF Ready, CheckBucket, HandlerInv, OnPath, HasRecord, HasContent, HasStorage, Past, In,
         Stores
<1>2. /\ req' \in [Requests -> Handler] /\ OthersWait(r) /\ Kept(r)
      /\ req'[r].at = "put"
      /\ req'[r].storage = req[r].storage /\ req'[r].data = req[r].data
      /\ req'[r].found = req[r].found /\ req'[r].reply = req[r].reply
  BY <1>1, GoToMoves DEF Ready, Points
<1>3. OnPath(r)'
  BY <1>1, <1>2 DEF OnPath, In, Kept, AllOperations
<1>4. HasContent(r)' /\ HasStored(r)' /\ HasRecord(r)' /\ HasStorage(r)'
  BY <1>1, <1>2 DEF HasContent, HasStored, HasRecord, HasStorage, Past, Kept, In
<1>5. QED
  BY <1>1, <1>2, <1>3, <1>4, QuietMoveKeeps DEF In, Points

\* A put writes under a key the bytes that belong there: nothing is overwritten.
LEMMA PutKeepsStores ==
    ASSUME NEW r \in Requests, Ready(r), In(r, "put"),
           req' \in [Requests -> Handler],
           UNCHANGED <<documents, assignments, indexed, bucket, auditTrail, minioUp, searchUp>>,
           \/ /\ minio' = [minio EXCEPT ![req[r].doc] = req[r].data]
              /\ UNCHANGED fallback
           \/ /\ fallback' = [fallback EXCEPT ![req[r].worker][req[r].doc] = req[r].data]
              /\ UNCHANGED minio,
           faults' \in [Faults -> 0..MaxFaults], \A k \in Faults : faults[k] <= faults'[k]
    PROVE  ServiceTypes' /\ StoresInv' /\ Grows
<1>1. /\ req[r].data = req[r].doc /\ req[r].doc \in Docs /\ req[r].worker \in Workers
      /\ req[r].doc \in Bytes
  BY DEF Ready, HandlerInv, OnPath, HasContent, Past, In, Bytes
<1>2. /\ minio \in [Docs -> Bytes] /\ minio' \in [Docs -> Bytes]
      /\ fallback \in [Workers -> [Docs -> Bytes]]
      /\ fallback' \in [Workers -> [Docs -> Bytes]]
  BY <1>1 DEF Ready, ServiceTypes
<1>3. /\ \A d \in Docs : minio'[d] \in {minio[d], d}
      /\ \A w \in Workers, d \in Docs : fallback'[w][d] \in {fallback[w][d], d}
  BY <1>1, <1>2
<1>4. ServiceTypes'
  BY <1>2 DEF Ready, ServiceTypes
<1>5. /\ \A k \in Faults : faults[k] \in Nat /\ faults'[k] \in Nat
      /\ {"minio", "search", "restart", "db"} \subseteq Faults
  BY DEF Ready, ServiceTypes, Faults
<1>6. /\ faults'["search"] = 0 => faults["search"] = 0
      /\ faults["restart"] > 0 => faults'["restart"] > 0
  BY <1>5
<1>7. Grows
  BY <1>3 DEF Grows
<1>8. AuditTellsTruth'
  <2>1. \A a \in auditTrail : a.doc \in Docs
    BY DEF Ready, ServiceTypes
  <2>2. QED
    BY <1>3, <1>6, <2>1 DEF Ready, StoresInv, AuditTellsTruth
<1>9. StoresInv'
  BY <1>3, <1>6, <1>8 DEF Ready, StoresInv
<1>10. QED
  BY <1>4, <1>7, <1>9

\* The content of an upload is where its audit event says, in MinIO or in the worker.
LEMMA PutContentKeeps ==
    ASSUME NEW r \in Requests, Ready(r), PutContent(r)
    PROVE  Done(r)
<1>1. /\ In(r, "put") /\ req[r].op = "upload" /\ req[r].reply = "none"
      /\ req[r].doc \in Docs /\ req[r].worker \in Workers /\ req[r].doc \in documents
      /\ req[r].data = req[r].doc
      /\ UNCHANGED <<documents, assignments, indexed, bucket, auditTrail, Environment>>
      /\ GoTo(r, "audit")
  BY DEF Ready, PutContent, HandlerInv, OnPath, HasRecord, HasContent, Past, In
<1>2. /\ req' \in [Requests -> Handler] /\ OthersWait(r) /\ Kept(r)
      /\ req'[r].at = "audit"
      /\ req'[r].storage = req[r].storage /\ req'[r].data = req[r].data
      /\ req'[r].found = req[r].found /\ req'[r].reply = req[r].reply
  BY <1>1, GoToMoves DEF Ready, Points
<1>3. faults' = faults /\ \A k \in Faults : faults[k] \in Nat
  BY <1>1 DEF Environment, Ready, ServiceTypes
<1>4. ServiceTypes' /\ StoresInv' /\ Grows
  <2>1. faults' \in [Faults -> 0..MaxFaults]
    BY <1>3 DEF Ready, ServiceTypes
  <2>2. QED
    BY <1>1, <1>2, <1>3, <2>1, PutKeepsStores DEF PutContent, Environment
<1>5. HasStored(r)'
  <2>1. CASE req[r].storage = "minio" /\ minio' = [minio EXCEPT ![req[r].doc] = req[r].data]
    BY <1>1, <1>2, <2>1 DEF HasStored, Kept, Ready, ServiceTypes
  <2>2. CASE /\ req[r].storage = "fallback"
             /\ fallback' = [fallback EXCEPT ![req[r].worker][req[r].doc] = req[r].data]
    BY <1>1, <1>2, <2>2 DEF HasStored, Kept, Ready, ServiceTypes
  <2>3. QED
    BY <2>1, <2>2 DEF PutContent
<1>6. HasStorage(r)'
  BY <1>2 DEF HasStorage, In
<1>7. OnPath(r)'
  BY <1>1, <1>2 DEF OnPath, In, Kept, AllOperations, AuditAction
<1>8. HasRecord(r)' /\ HasContent(r)'
  BY <1>1, <1>2 DEF HasRecord, HasContent, Kept
<1>9. HasAudit(r)' /\ HasHits(r)'
  BY <1>1, <1>2, <1>3 DEF Ready, HandlerInv, HasAudit, HasHits, Past, In, Kept
<1>10. QED
  BY <1>2, <1>4, <1>5, <1>6, <1>7, <1>8, <1>9 DEF Done, HandlerInv

\* An object whose put is not answered is the object that belongs there all the same.
LEMMA PutReplyLostKeeps ==
    ASSUME NEW r \in Requests, Ready(r), PutReplyLost(r)
    PROVE  Done(r)
<1>1. /\ In(r, "put") /\ req[r].op = "upload"
      /\ UNCHANGED <<documents, assignments, indexed, bucket, fallback, auditTrail,
                     minioUp, searchUp>>
      /\ minio' = [minio EXCEPT ![req[r].doc] = req[r].data]
      /\ Count("minio") /\ ReplyWith(r, "500")
  BY DEF Ready, PutReplyLost, HandlerInv, OnPath, In
<1>2. /\ req' \in [Requests -> Handler] /\ OthersWait(r) /\ Kept(r)
      /\ req'[r].at = "ended" /\ req'[r].reply = "500"
      /\ req'[r].storage = req[r].storage /\ req'[r].found = req[r].found
  BY <1>1, ReplyMoves DEF Ready, Replies
<1>3. faults' \in [Faults -> 0..MaxFaults] /\ \A k \in Faults : faults[k] <= faults'[k]
  BY <1>1, CountRaises DEF Ready, Faults
<1>4. ServiceTypes' /\ StoresInv' /\ Grows
  BY <1>1, <1>2, <1>3, PutKeepsStores
<1>5. HandlerInv(r)'
  BY <1>1, <1>2, <1>4, RefusalKeeps DEF Ready, In, Replies
<1>6. QED
  BY <1>2, <1>4, <1>5 DEF Done

\* What a download reads are the bytes its record describes.
LEMMA GetContentKeeps ==
    ASSUME NEW r \in Requests, Ready(r), GetContent(r)
    PROVE  Done(r)
<1>1. /\ req \in [Requests -> Handler] /\ In(r, "get") /\ UNCHANGED <<Stores, Environment>>
      /\ req[r].op = "download" /\ req[r].reply = "none"
      /\ req[r].doc \in Docs /\ req[r].worker \in Workers /\ req[r].doc \in documents
      /\ req[r].storage \in {"minio", "fallback"}
  BY DEF Ready, ServiceTypes, GetContent, HandlerInv, OnPath, HasRecord, HasStorage, Past, In
<1>2. Held(r) \in {req[r].doc, Absent}
  BY <1>1 DEF Held, Ready, StoresInv
<1>3. CASE ReplyWith(r, "content_not_uploaded")
  BY <1>1, <1>3, QuietRefusalKeeps DEF In, Replies
<1>4. CASE Held(r) # Absent /\ req' = [req EXCEPT ![r].data = Held(r), ![r].at = "audit"]
  <2> DEFINE h == [req[r] EXCEPT !.data = req[r].doc, !.at = "audit"]
  <2>1. req' = [req EXCEPT ![r] = h]
    BY <1>1, <1>2, <1>4 DEF Handler
  <2>2. /\ h \in Handler /\ h.at = "audit" /\ h.data = req[r].doc
        /\ h.op = req[r].op /\ h.doc = req[r].doc /\ h.worker = req[r].worker
        /\ h.uploaded = req[r].uploaded /\ h.known = req[r].known
        /\ h.storage = req[r].storage /\ h.reply = req[r].reply /\ h.found = req[r].found
    <3>1. "audit" \in Points /\ req[r].doc \in Bytes
      BY <1>1 DEF Points, Bytes
    <3>2. QED
      BY <1>1, <3>1 DEF Handler
  <2> HIDE DEF h
  <2>3. req' \in [Requests -> Handler] /\ req'[r] = h /\ OthersWait(r) /\ Kept(r)
    BY <1>1, <2>1, <2>2 DEF OthersWait, Kept
  <2>4. OnPath(r)'
    BY <1>1, <2>2, <2>3 DEF OnPath, In, AllOperations, AuditAction
  <2>5. HasRecord(r)' /\ HasContent(r)' /\ HasStored(r)'
    BY <1>1, <2>2, <2>3 DEF HasRecord, HasContent, HasStored, Past, Stores
  <2>6. HasStorage(r)'
    BY <2>2, <2>3 DEF HasStorage, In
  <2>7. QED
    BY <1>1, <2>2, <2>3, <2>4, <2>5, <2>6, QuietMoveKeeps DEF In, Points
<1>5. QED
  BY <1>3, <1>4 DEF GetContent

\* A call that MinIO does not answer stores nothing.
LEMMA MinioFailsKeeps ==
    ASSUME NEW r \in Requests, Ready(r), MinioFails(r)
    PROVE  Done(r)
<1>1. /\ req[r].op \in {"upload", "download"} /\ ~In(r, "idle")
      /\ UNCHANGED <<Stores, Environment>> /\ ReplyWith(r, "500")
  BY DEF Ready, MinioFails, HandlerInv, OnPath, In
<1>2. QED
  BY <1>1, QuietRefusalKeeps DEF Replies

-----------------------------------------------------------------------------
\* What is put into the index was committed before.
LEMMA IndexDocumentKeeps ==
    ASSUME NEW r \in Requests, Ready(r), IndexDocument(r)
    PROVE  Done(r)
<1>1. /\ In(r, "index") /\ req[r].op = "ingest" /\ req[r].reply = "none"
      /\ req[r].doc \in Docs /\ req[r].worker \in Workers /\ req[r].doc \in documents
      /\ UNCHANGED <<documents, assignments, bucket, minio, fallback, auditTrail, Environment>>
      /\ GoTo(r, "audit")
  BY DEF Ready, IndexDocument, HandlerInv, OnPath, HasRecord, Past, In
<1>2. /\ req' \in [Requests -> Handler] /\ OthersWait(r) /\ Kept(r)
      /\ req'[r].at = "audit"
      /\ req'[r].storage = req[r].storage /\ req'[r].found = req[r].found
      /\ req'[r].reply = req[r].reply
  BY <1>1, GoToMoves DEF Ready, Points
<1>3. /\ indexed' \in {indexed, indexed \cup {req[r].doc}}
      /\ searchUp => req[r].doc \in indexed'
      /\ indexed \subseteq indexed'
  BY DEF IndexDocument
<1>4. ServiceTypes'
  BY <1>1, <1>2, <1>3 DEF Ready, ServiceTypes, Environment
<1>5. StoresInv'
  BY <1>1, <1>3 DEF Ready, StoresInv, AuditTellsTruth, Environment
<1>6. Grows
  BY <1>1, <1>3 DEF Ready, ServiceTypes, Grows, Environment
<1>7. OnPath(r)'
  BY <1>1, <1>2 DEF OnPath, In, Kept, AllOperations, AuditAction
<1>8. HasRecord(r)' /\ HasContent(r)' /\ HasStored(r)'
  BY <1>1, <1>2 DEF HasRecord, HasContent, HasStored, Kept
<1>9. HasStorage(r)' /\ HasAudit(r)'
  BY <1>1, <1>2
  DEF Ready, HandlerInv, HasStorage, HasAudit, Past, In, Kept, Environment
<1>10. HasHits(r)'
  BY <1>1, <1>2, <1>3
  DEF Ready, HandlerInv, StoresInv, HasHits, Past, Kept, Environment
<1>11. QED
  BY <1>2, <1>4, <1>5, <1>6, <1>7, <1>8, <1>9, <1>10 DEF Done, HandlerInv

\* An indexing that fails is counted.
LEMMA IndexingFailsKeeps ==
    ASSUME NEW r \in Requests, Ready(r), IndexingFails(r)
    PROVE  Done(r)
<1>1. /\ In(r, "index") /\ req[r].op = "ingest" /\ req[r].reply = "none"
      /\ req[r].doc \in Docs /\ req[r].worker \in Workers /\ req[r].doc \in documents
      /\ UNCHANGED <<documents, assignments, indexed, bucket, minio, fallback, auditTrail,
                     minioUp, searchUp>>
      /\ Count("search") /\ GoTo(r, "audit")
  BY DEF Ready, IndexingFails, HandlerInv, OnPath, HasRecord, Past, In, Stores
<1>2. /\ req' \in [Requests -> Handler] /\ OthersWait(r) /\ Kept(r)
      /\ req'[r].at = "audit"
      /\ req'[r].storage = req[r].storage /\ req'[r].found = req[r].found
      /\ req'[r].reply = req[r].reply
  BY <1>1, GoToMoves DEF Ready, Points
<1>3. /\ faults' \in [Faults -> 0..MaxFaults] /\ faults'["search"] # 0
      /\ \A k \in Faults : faults[k] <= faults'[k]
      /\ \A k \in Faults \ {"search"} : faults'[k] = faults[k]
  BY <1>1, CountRaises DEF Ready, Faults
<1>4. ServiceTypes' /\ Grows
  BY <1>1, <1>2, <1>3 DEF Ready, ServiceTypes, Grows
<1>5. StoresInv'
  BY <1>1, <1>3 DEF Ready, StoresInv, AuditTellsTruth, Faults
<1>6. OnPath(r)'
  BY <1>1, <1>2 DEF OnPath, In, Kept, AllOperations, AuditAction
<1>7. HasRecord(r)' /\ HasContent(r)' /\ HasStored(r)' /\ HasStorage(r)' /\ HasAudit(r)'
  BY <1>1, <1>2 DEF HasRecord, HasContent, HasStored, HasStorage, HasAudit, Past, In, Kept
<1>8. HasHits(r)'
  BY <1>1, <1>2, <1>3 DEF Ready, HandlerInv, HasHits
<1>9. QED
  BY <1>2, <1>4, <1>5, <1>6, <1>7, <1>8 DEF Done, HandlerInv

\* Both backends of a search answer with committed documents, and both with every
\* document that is indexed.
LEMMA SearchKeeps ==
    ASSUME NEW r \in Requests, Ready(r), Search(r)
    PROVE  Done(r)
<1> DEFINE h == [req[r] EXCEPT !.found = SearchBackend, !.reply = "200", !.at = "ended"]
<1>1. /\ req \in [Requests -> Handler] /\ In(r, "query") /\ UNCHANGED <<Stores, Environment>>
      /\ req[r].op = "search" /\ req[r].doc \in Docs /\ req[r].worker \in Workers
  BY DEF Ready, ServiceTypes, Search, HandlerInv, OnPath, In
<1>2. SearchBackend \subseteq documents /\ indexed \subseteq SearchBackend
  BY DEF Ready, StoresInv, SearchBackend
<1>3. req' = [req EXCEPT ![r] = h]
  BY <1>1 DEF Search, Handler
<1>4. /\ h \in Handler /\ h.at = "ended" /\ h.reply = "200" /\ h.found = SearchBackend
      /\ h.op = req[r].op /\ h.doc = req[r].doc /\ h.worker = req[r].worker
      /\ h.uploaded = req[r].uploaded /\ h.known = req[r].known
      /\ h.storage = req[r].storage
  <2>1. "ended" \in Points /\ "200" \in Replies /\ SearchBackend \in SUBSET Docs
    BY <1>2 DEF Points, Replies, Ready, ServiceTypes
  <2>2. QED
    BY <1>1, <2>1 DEF Handler
<1> HIDE DEF h
<1>5. req' \in [Requests -> Handler] /\ req'[r] = h /\ OthersWait(r) /\ Kept(r)
  BY <1>1, <1>3, <1>4 DEF OthersWait, Kept
<1>6. ServiceTypes' /\ StoresInv' /\ Grows
  BY <1>1, <1>5, QuietKeepsStores DEF Ready
<1>7. OnPath(r)'
  BY <1>1, <1>4, <1>5 DEF OnPath, In, AllOperations
<1>8. HasRecord(r)' /\ HasContent(r)' /\ HasStored(r)' /\ HasAudit(r)'
  BY <1>1, <1>4, <1>5 DEF HasRecord, HasContent, HasStored, HasAudit, AuditAction
<1>9. HasStorage(r)'
  BY <1>4, <1>5 DEF HasStorage, In
<1>10. HasHits(r)'
  BY <1>1, <1>2, <1>4, <1>5 DEF HasHits, Ready, HandlerInv, Stores, Environment
<1>11. QED
  BY <1>5, <1>6, <1>7, <1>8, <1>9, <1>10 DEF Done, HandlerInv

\* Only an audit event of an upload speaks of content.
LEMMA AuditActionsDiffer ==
    \A op \in DOMAIN AuditAction :
        /\ AuditAction[op] = AuditAction.upload => op = "upload"
        /\ op \in {"ingest", "upload", "download", "process", "rag", "review"}
BY DEF AuditAction

\* What a request commits only adds to the tables, and the audit event it appends
\* tells what has happened.
LEMMA CommitsKeepStores ==
    ASSUME NEW r \in Requests, Ready(r), Commits(r), UNCHANGED <<minioUp, searchUp>>,
           req' \in [Requests -> Handler],
           faults' \in [Faults -> 0..MaxFaults], \A k \in Faults : faults[k] <= faults'[k]
    PROVE  /\ ServiceTypes' /\ StoresInv' /\ Grows
           /\ In(r, "store") => req[r].doc \in documents'
           /\ In(r, "assign") => r \in assignments'
           /\ In(r, "audit") => AuditRecord(r) \in auditTrail'
           /\ req[r].at \in {"store", "assign", "audit"}
<1>1. /\ req[r].at \in {"store", "assign", "audit"}
      /\ req[r].doc \in Docs /\ req[r].worker \in Workers
      /\ UNCHANGED <<indexed, bucket, minio, fallback>>
  BY DEF Ready, HandlerInv, OnPath, In, Commits, StoreDocument, StoreAssignment, StoreAuditEvent
<1>2. /\ \A k \in Faults : faults[k] \in Nat /\ faults'[k] \in Nat
      /\ {"minio", "search", "restart", "db"} \subseteq Faults
  BY DEF Ready, ServiceTypes, Faults
<1>3. /\ faults'["search"] = 0 => faults["search"] = 0
      /\ faults["restart"] > 0 => faults'["restart"] > 0
  BY <1>2
<1>4. In(r, "audit") => /\ req[r].op \in DOMAIN AuditAction
                        /\ AuditRecord(r) \in [request : Requests, doc : Docs,
                              action : {AuditAction[op] : op \in DOMAIN AuditAction}]
  BY <1>1 DEF Ready, HandlerInv, OnPath, AuditRecord, In
<1>5. /\ documents \subseteq documents' /\ documents' \subseteq documents \cup {req[r].doc}
      /\ assignments \subseteq assignments' /\ assignments' \subseteq assignments \cup {r}
      /\ auditTrail \subseteq auditTrail'
      /\ auditTrail' \subseteq auditTrail \cup {AuditRecord(r)}
      /\ auditTrail' = auditTrail \/ In(r, "audit")
  BY DEF Commits, StoreDocument, StoreAssignment, StoreAuditEvent
<1>6. ServiceTypes'
  BY <1>1, <1>4, <1>5 DEF Ready, ServiceTypes
<1>7. Grows
  BY <1>1, <1>5 DEF Grows
<1>8. AuditTellsTruth'
  <2>1. ASSUME NEW a \in auditTrail
        PROVE  /\ a.action # AuditAction.review => a.doc \in documents'
               /\ a.action = AuditAction.upload =>
                     \/ minio'[a.doc] = a.doc
                     \/ \E w \in Workers : fallback'[w][a.doc] = a.doc
                     \/ faults'["restart"] > 0
    BY <1>1, <1>3, <1>5 DEF Ready, StoresInv, AuditTellsTruth
  <2>2. ASSUME In(r, "audit"), NEW a, a = AuditRecord(r)
        PROVE  /\ a.action # AuditAction.review => a.doc \in documents'
               /\ a.action = AuditAction.upload =>
                     \/ minio'[a.doc] = a.doc
                     \/ \E w \in Workers : fallback'[w][a.doc] = a.doc
                     \/ faults'["restart"] > 0
    <3>1. /\ a.doc = req[r].doc /\ a.action = AuditAction[req[r].op]
          /\ req[r].op \in DOMAIN AuditAction
      BY <1>4, <2>2 DEF AuditRecord
    <3>2. a.action # AuditAction.review => a.doc \in documents'
      BY <1>5, <2>2, <3>1, AuditActionsDiffer DEF Ready, HandlerInv, HasRecord, Past, In
    <3>3. req[r].op = "upload" => \/ minio[a.doc] = a.doc
                                  \/ fallback[req[r].worker][a.doc] = a.doc
                                  \/ faults["restart"] > 0
      BY <2>2, <3>1 DEF Ready, HandlerInv, HasStored, Past, In
    <3>4. QED
      BY <1>1, <1>3, <3>1, <3>2, <3>3, AuditActionsDiffer
  <2>3. QED
    BY <1>5, <2>1, <2>2 DEF AuditTellsTruth
<1>9. StoresInv'
  BY <1>1, <1>3, <1>5, <1>8 DEF Ready, StoresInv
<1>10. QED
  BY <1>1, <1>5, <1>6, <1>7, <1>9
  DEF Commits, StoreDocument, StoreAssignment, StoreAuditEvent, In

\* A database call that raises stores nothing and is counted.
LEMMA DbErrorKeeps ==
    ASSUME NEW r \in Requests, Ready(r), DbError(r)
    PROVE  Done(r)
<1>1. /\ ~In(r, "idle") /\ Count("db") /\ ReplyWith(r, "500")
      /\ UNCHANGED <<Stores, minioUp, searchUp>>
  BY DEF DbError, In
<1>2. /\ req' \in [Requests -> Handler] /\ OthersWait(r) /\ Kept(r)
      /\ req'[r].at = "ended" /\ req'[r].reply = "500"
      /\ req'[r].storage = req[r].storage /\ req'[r].found = req[r].found
  BY <1>1, ReplyMoves DEF Ready, Replies
<1>3. /\ faults' \in [Faults -> 0..MaxFaults] /\ faults'["db"] > 0
      /\ \A k \in Faults : faults[k] <= faults'[k]
      /\ \A k \in Faults \ {"db"} : faults'[k] = faults[k]
  BY <1>1, CountRaises DEF Ready, Faults
<1>4. ServiceTypes'
  BY <1>1, <1>2, <1>3 DEF Ready, ServiceTypes, Stores
<1>5. StoresInv'
  BY <1>1, <1>3 DEF Ready, StoresInv, AuditTellsTruth, Stores, Faults
<1>6. Grows
  BY <1>1, <1>3 DEF Grows, Stores
<1>7. HandlerInv(r)'
  BY <1>1, <1>2, <1>3, <1>4, <1>6, RefusalKeeps DEF Ready, Replies
<1>8. QED
  BY <1>2, <1>4, <1>5, <1>6, <1>7 DEF Done

\* A commit whose answer is lost is stored; the request ends in an error all the same.
LEMMA CommitReplyLostKeeps ==
    ASSUME NEW r \in Requests, Ready(r), CommitReplyLost(r)
    PROVE  Done(r)
<1>1. Count("db") /\ Commits(r) /\ ReplyWith(r, "500") /\ UNCHANGED <<minioUp, searchUp>>
  BY DEF CommitReplyLost
<1>2. /\ req' \in [Requests -> Handler] /\ OthersWait(r) /\ Kept(r)
      /\ req'[r].at = "ended" /\ req'[r].reply = "500"
      /\ req'[r].storage = req[r].storage /\ req'[r].found = req[r].found
  BY <1>1, ReplyMoves DEF Ready, Replies
<1>3. /\ faults' \in [Faults -> 0..MaxFaults] /\ faults'["db"] > 0
      /\ \A k \in Faults : faults[k] <= faults'[k]
  BY <1>1, CountRaises DEF Ready, Faults
<1>4. ServiceTypes' /\ StoresInv' /\ Grows /\ ~In(r, "idle")
  BY <1>1, <1>2, <1>3, CommitsKeepStores DEF In
<1>5. HandlerInv(r)'
  BY <1>2, <1>3, <1>4, RefusalKeeps DEF Ready, Replies
<1>6. QED
  BY <1>2, <1>4, <1>5 DEF Done

\* A commit moves its handler to the answer or to the next store.
LEMMA CommitKeeps ==
    ASSUME NEW r \in Requests, Ready(r), Commit(r)
    PROVE  Done(r)
<1>1. Commits(r) /\ AfterCommit(r) /\ UNCHANGED Environment
  BY DEF Commit
<1>2. /\ req[r].doc \in Docs /\ req[r].worker \in Workers /\ req[r].reply = "none"
      /\ req[r].at \in {"store", "assign", "audit"}
  BY <1>1 DEF Ready, HandlerInv, OnPath, AfterCommit, In
<1>3. /\ req' \in [Requests -> Handler] /\ OthersWait(r) /\ Kept(r)
      /\ req'[r].storage = req[r].storage /\ req'[r].found = req[r].found
      /\ req'[r].data = req[r].data
      /\ In(r, "store") => req'[r].at = "index" /\ req'[r].reply = "none"
      /\ In(r, "assign") => req'[r].at = "ended" /\ req'[r].reply = "200"
      /\ In(r, "audit") => req'[r].at = "answer" /\ req'[r].reply = "none"
  <2>1. CASE In(r, "store") /\ GoTo(r, "index")
    BY <1>2, <2>1, GoToMoves DEF Ready, Points, In
  <2>2. CASE In(r, "assign") /\ ReplyWith(r, "200")
    BY <1>2, <2>2, ReplyMoves DEF Ready, Replies, In
  <2>3. CASE In(r, "audit") /\ GoTo(r, "answer")
    BY <1>2, <2>3, GoToMoves DEF Ready, Points, In
  <2>4. QED
    BY <1>1, <2>1, <2>2, <2>3 DEF AfterCommit
<1>4. /\ ServiceTypes' /\ StoresInv' /\ Grows
      /\ In(r, "store") => req[r].doc \in documents'
      /\ In(r, "assign") => r \in assignments'
      /\ In(r, "audit") => AuditRecord(r) \in auditTrail'
  <2>1. /\ UNCHANGED <<minioUp, searchUp>> /\ faults' \in [Faults -> 0..MaxFaults]
        /\ \A k \in Faults : faults[k] <= faults'[k]
    BY <1>1 DEF Environment, Ready, ServiceTypes
  <2>2. QED
    BY <1>1, <1>3, <2>1, CommitsKeepStores
<1>5. faults' = faults /\ AuditRecord(r)' = AuditRecord(r)
  BY <1>1, <1>3, AuditRecordKept DEF Environment
<1>6. /\ In(r, "store") => req[r].op = "ingest"
      /\ In(r, "assign") => req[r].op = "assign"
      /\ In(r, "audit") => req[r].op \in DOMAIN AuditAction
  BY DEF Ready, HandlerInv, OnPath, In
<1>7. OnPath(r)'
  BY <1>2, <1>3, <1>6, AuditActionsDiffer DEF OnPath, In, Kept, AllOperations
<1>8. HasRecord(r)'
  BY <1>2, <1>3, <1>4, <1>6 DEF Ready, HandlerInv, HasRecord, Past, In, Kept, Grows
<1>9. HasContent(r)'
  BY <1>2, <1>3, <1>6 DEF Ready, HandlerInv, HasContent, Past, In, Kept
<1>10. HasStored(r)'
  BY <1>2, <1>3, <1>4, <1>5, <1>6 DEF Ready, HandlerInv, HasStored, Past, In, Kept, Grows
<1>11. HasStorage(r)'
  BY <1>2, <1>3, <1>4, <1>5, <1>6 DEF Ready, HandlerInv, HasStorage, In, Kept, Grows
<1>12. HasAudit(r)'
  BY <1>2, <1>3, <1>4, <1>5, <1>6, AuditActionsDiffer DEF HasAudit, Past, In, Kept
<1>13. HasHits(r)'
  BY <1>2, <1>3, <1>4, <1>5, <1>6 DEF Ready, HandlerInv, HasHits, Past, In, Kept, Grows
<1>14. QED
  BY <1>3, <1>4, <1>7, <1>8, <1>9, <1>10, <1>11, <1>12, <1>13 DEF Done, HandlerInv

\* An answer says what its handler has already stored.
LEMMA AnswerKeeps ==
    ASSUME NEW r \in Requests, Ready(r), Answer(r)
    PROVE  Done(r)
<1>1. /\ In(r, "answer") /\ UNCHANGED <<Stores, Environment>> /\ ReplyWith(r, "200")
      /\ req[r].op \in DOMAIN AuditAction
      /\ req[r].doc \in Docs /\ req[r].worker \in Workers
  BY DEF Ready, Answer, HandlerInv, OnPath, In
<1>2. /\ req' \in [Requests -> Handler] /\ OthersWait(r) /\ Kept(r)
      /\ req'[r].at = "ended" /\ req'[r].reply = "200"
      /\ req'[r].storage = req[r].storage /\ req'[r].data = req[r].data
      /\ req'[r].found = req[r].found
  BY <1>1, ReplyMoves DEF Ready, Replies
<1>3. ServiceTypes' /\ StoresInv' /\ Grows
  BY <1>1, <1>2, QuietKeepsStores DEF Ready
<1>4. AuditRecord(r)' = AuditRecord(r) /\ AuditRecord(r) \in auditTrail'
  BY <1>1, <1>2, AuditRecordKept DEF Ready, HandlerInv, HasAudit, Past, In, Stores
<1>5. OnPath(r)'
  BY <1>1, <1>2, AuditActionsDiffer DEF OnPath, In, Kept, AllOperations
<1>6. HasRecord(r)' /\ HasContent(r)'
  BY <1>1, <1>2 DEF Ready, HandlerInv, HasRecord, HasContent, Past, In, Kept, Stores
<1>7. HasStored(r)'
  BY <1>1, <1>2, AuditActionsDiffer
  DEF Ready, HandlerInv, HasStored, Past, In, Kept, Stores, Environment
<1>8. HasStorage(r)' /\ HasHits(r)'
  BY <1>1, <1>2, AuditActionsDiffer
  DEF Ready, HandlerInv, HasStorage, HasHits, Past, In, Kept, Stores, Environment
<1>9. HasAudit(r)'
  BY <1>2, <1>4 DEF HasAudit
<1>10. QED
  BY <1>2, <1>3, <1>5, <1>6, <1>7, <1>8, <1>9 DEF Done, HandlerInv

-----------------------------------------------------------------------------
\* One step of a handler leaves its part of the invariant, and the others waiting.
LEMMA HandlerStepDone ==
    ASSUME ServiceInv, NEW r \in Requests,
           Arrive(r) \/ HandlerStep(r) \/ DbError(r) \/ CommitReplyLost(r)
    PROVE  Done(r)
<1>1. Ready(r)
  BY DEF ServiceInv, Ready
<1>2. QED
  BY <1>1, ArriveKeeps, ProbeKeeps, ReadRecordKeeps, ReceiveBodyKeeps, CheckBucketKeeps,
     PutContentKeeps, GetContentKeeps, MinioFailsKeeps, PutReplyLostKeeps,
     IndexDocumentKeeps, IndexingFailsKeeps, SearchKeeps, CommitKeeps, AnswerKeeps,
     DbErrorKeeps, CommitReplyLostKeeps DEF HandlerStep

\* It leaves everyone else's part too.
LEMMA HandlerStepKeeps ==
    ASSUME ServiceInv, NEW r \in Requests,
           Arrive(r) \/ HandlerStep(r) \/ DbError(r) \/ CommitReplyLost(r)
    PROVE  ServiceInv'
<1>1. Done(r)
  BY HandlerStepDone
<1>2. ASSUME NEW s \in Requests \ {r} PROVE HandlerInv(s)'
  BY <1>1, OthersKeep DEF Done, OthersWait, ServiceInv
<1>3. QED
  BY <1>1, <1>2 DEF Done, ServiceInv

\* A restart takes the fallback's objects and the running requests of one worker, and
\* nothing that is committed.
LEMMA RestartKeeps ==
    ASSUME ServiceInv, NEW w \in Workers, Restart(w)
    PROVE  ServiceInv'
<1>1. /\ Count("restart")
      /\ fallback' = [fallback EXCEPT ![w] = [d \in Docs |-> Absent]]
      /\ req \in [Requests -> Handler]
      /\ UNCHANGED <<documents, assignments, indexed, bucket, minio, auditTrail,
                     minioUp, searchUp>>
  BY DEF Restart, ServiceInv, ServiceTypes
<1>2. /\ faults' \in [Faults -> 0..MaxFaults] /\ faults'["restart"] > 0
      /\ \A k \in Faults : faults[k] <= faults'[k]
      /\ \A k \in Faults \ {"restart"} : faults'[k] = faults[k]
  BY <1>1, CountRaises DEF ServiceInv, Faults
<1> DEFINE h(r) == [req[r] EXCEPT !.at = "ended", !.reply = "500"]
<1>3. ASSUME NEW r \in Requests
      PROVE  /\ h(r) \in Handler /\ h(r).at = "ended" /\ h(r).reply = "500"
             /\ h(r).op = req[r].op /\ h(r).doc = req[r].doc /\ h(r).worker = req[r].worker
             /\ h(r).uploaded = req[r].uploaded /\ h(r).known = req[r].known
             /\ h(r).storage = req[r].storage /\ h(r).found = req[r].found
  <2>1. "ended" \in Points /\ "500" \in Replies
    BY DEF Points, Replies
  <2>2. QED
    BY <1>1, <2>1 DEF Handler
<1>4. req' = [r \in Requests |-> IF Running(r) /\ req[r].worker = w THEN h(r) ELSE req[r]]
  BY DEF Restart
<1> HIDE DEF h
<1>5. \A r \in Requests : req'[r] = req[r] \/ (~In(r, "idle") /\ req'[r] = h(r))
  BY <1>4 DEF Running, In
<1>6. req' \in [Requests -> Handler]
  BY <1>1, <1>3, <1>4
<1>7. fallback' \in [Workers -> [Docs -> Bytes]]
  BY <1>1 DEF ServiceInv, ServiceTypes, Bytes
<1>8. ServiceTypes'
  BY <1>1, <1>2, <1>6, <1>7 DEF ServiceInv, ServiceTypes
<1>9. Grows
  BY <1>1, <1>2 DEF Grows
<1>10. StoresInv'
  <2>1. \A x \in Workers, d \in Docs : fallback'[x][d] \in {d, Absent}
    BY <1>1 DEF ServiceInv, ServiceTypes, StoresInv
  <2>2. AuditTellsTruth'
    BY <1>1, <1>2 DEF ServiceInv, StoresInv, AuditTellsTruth
  <2>3. faults'["search"] = faults["search"]
    BY <1>2 DEF Faults
  <2>4. QED
    BY <1>1, <2>1, <2>2, <2>3 DEF ServiceInv, StoresInv
<1>11. ASSUME NEW r \in Requests PROVE HandlerInv(r)'
  <2>1. CASE req'[r] = req[r]
    BY <1>8, <1>9, <2>1, OthersKeep DEF ServiceInv
  <2>2. CASE ~In(r, "idle") /\ req'[r] = h(r)
    <3>1. Kept(r)
      BY <1>3, <2>2 DEF Kept
    <3>2. QED
      BY <1>2, <1>3, <1>8, <1>9, <2>2, <3>1, RefusalKeeps DEF ServiceInv, Replies
  <2>3. QED
    BY <1>5, <2>1, <2>2
<1>12. QED
  BY <1>8, <1>10, <1>11 DEF ServiceInv

\* MinIO, its bucket and OpenSearch come and go.
LEMMA OutageKeeps ==
    ASSUME ServiceInv, CreateBucket \/ MinioDown \/ MinioBack \/ SearchDown \/ SearchBack
    PROVE  ServiceInv'
<1>1. /\ UNCHANGED <<documents, assignments, indexed, minio, fallback, auditTrail, req>>
      /\ bucket' \in BOOLEAN
  BY DEF ServiceInv, ServiceTypes, CreateBucket, MinioDown, MinioBack, SearchDown, SearchBack,
         Stores
<1>2. /\ faults' \in [Faults -> 0..MaxFaults] /\ minioUp' \in BOOLEAN /\ searchUp' \in BOOLEAN
      /\ \A k \in Faults : faults[k] <= faults'[k]
      /\ faults'["search"] = 0 => searchUp'
  <2>1. CASE MinioDown
    <3>1. Count("minio") /\ minioUp' = FALSE /\ searchUp' = searchUp
      BY <2>1 DEF MinioDown
    <3>2. /\ faults' \in [Faults -> 0..MaxFaults] /\ faults'["search"] = faults["search"]
          /\ \A k \in Faults : faults[k] <= faults'[k]
      BY <3>1, CountRaises DEF ServiceInv, Faults
    <3>3. (faults["search"] = 0 => searchUp) /\ searchUp \in BOOLEAN
      BY DEF ServiceInv, StoresInv, ServiceTypes
    <3>4. QED
      BY <3>1, <3>2, <3>3, Zenon
  <2>2. CASE SearchDown
    <3>1. Count("search") /\ searchUp' = FALSE /\ minioUp' = minioUp
      BY <2>2 DEF SearchDown
    <3>2. /\ faults' \in [Faults -> 0..MaxFaults] /\ faults'["search"] # 0
          /\ \A k \in Faults : faults[k] <= faults'[k]
      BY <3>1, CountRaises DEF ServiceInv, Faults
    <3>3. minioUp \in BOOLEAN
      BY DEF ServiceInv, ServiceTypes
    <3>4. QED
      BY <3>1, <3>2, <3>3, Zenon
  <2>3. CASE MinioBack
    BY <2>3 DEF MinioBack, ServiceInv, ServiceTypes, StoresInv
  <2>4. CASE SearchBack
    BY <2>4 DEF SearchBack, ServiceInv, ServiceTypes, StoresInv
  <2>5. CASE CreateBucket
    BY <2>5 DEF CreateBucket, Environment, ServiceInv, ServiceTypes, StoresInv
  <2>6. QED
    BY <2>1, <2>2, <2>3, <2>4, <2>5
<1>3. ServiceTypes'
  BY <1>1, <1>2 DEF ServiceInv, ServiceTypes
<1>4. Grows
  BY <1>1, <1>2 DEF Grows
<1>5. faults["restart"] > 0 => faults'["restart"] > 0
  BY <1>2 DEF ServiceInv, ServiceTypes, Faults
<1>6. AuditTellsTruth'
  BY <1>1, <1>5 DEF ServiceInv, StoresInv, AuditTellsTruth
<1>7. StoresInv'
  BY <1>1, <1>2, <1>6 DEF ServiceInv, StoresInv
<1>8. QED
  BY <1>1, <1>3, <1>4, <1>7, OthersKeep DEF ServiceInv

\* Every step keeps the invariant.
LEMMA StepKeepsServiceInv == ServiceInv /\ [Next]_vars => ServiceInv'
<1> SUFFICES ASSUME ServiceInv, [Next]_vars PROVE ServiceInv'
  OBVIOUS
<1>1. CASE UNCHANGED vars
  <2>1. UNCHANGED <<Stores, Environment>> /\ req' = req
    BY <1>1 DEF vars, Stores, Environment
  <2>2. ServiceTypes' /\ StoresInv' /\ Grows
    BY <2>1, QuietKeepsStores DEF ServiceInv, ServiceTypes
  <2>3. QED
    BY <2>1, <2>2, OthersKeep DEF ServiceInv
<1>2. QED
  BY <1>1, HandlerStepKeeps, RestartKeeps, OutageKeeps DEF Next, Quiescent

\* Nothing is stored, everything answers and nobody has asked.
LEMMA InitServiceInv == Init => ServiceInv
<1> SUFFICES ASSUME Init PROVE ServiceInv
  OBVIOUS
<1> DEFINE h == [op |-> "none", doc |-> Absent, worker |-> Absent, at |-> "idle",
                 storage |-> "none", data |-> Absent, found |-> {},
                 reply |-> "none", uploaded |-> FALSE, known |-> {}]
<1>1. h \in Handler
  BY DEF Handler, Points, Replies, Bytes
<1>2. req = [r \in Requests |-> h]
  BY DEF Init
<1>3. h.op = "none" /\ h.at = "idle" /\ h.reply = "none" /\ h.storage = "none"
      /\ h.uploaded = FALSE /\ h.known = {} /\ h.found = {}
  OBVIOUS
<1> HIDE DEF h
<1>4. ServiceTypes
  <2>1. req \in [Requests -> Handler]
    BY <1>1, <1>2
  <2>2. faults \in [Faults -> 0..MaxFaults]
    BY DEF Init
  <2>3. minio \in [Docs -> Bytes] /\ fallback \in [Workers -> [Docs -> Bytes]]
    BY DEF Init, Bytes
  <2>4. /\ bucket \in BOOLEAN /\ minioUp \in BOOLEAN /\ searchUp \in BOOLEAN
        /\ documents \subseteq Docs /\ indexed \subseteq Docs /\ assignments \subseteq Requests
        /\ auditTrail = {}
    BY BucketAssumption DEF Init
  <2>5. QED
    BY <2>1, <2>2, <2>3, <2>4 DEF ServiceTypes
<1>5. StoresInv
  BY DEF Init, StoresInv, AuditTellsTruth, Faults
<1>6. ASSUME NEW r \in Requests PROVE HandlerInv(r)
  <2>1. req[r] = h
    BY <1>2
  <2>2. OnPath(r)
    BY <1>3, <2>1 DEF OnPath, In
  <2>3. HasRecord(r) /\ HasContent(r) /\ HasStored(r) /\ HasStorage(r) /\ HasAudit(r)
    BY <1>3, <2>1, AuditActionsDiffer
    DEF HasRecord, HasContent, HasStored, HasStorage, HasAudit, Past, In
  <2>4. HasHits(r)
    BY <1>3, <2>1 DEF HasHits, Past
  <2>5. QED
    BY <2>2, <2>3, <2>4 DEF HandlerInv
<1>7. QED
  BY <1>4, <1>5, <1>6 DEF ServiceInv

\* The invariant holds in every state.
LEMMA ServiceInvHolds == Spec => []ServiceInv
BY InitServiceInv, StepKeepsServiceInv, PTL DEF Spec

-----------------------------------------------------------------------------
\* A running handler keeps what it was asked, and only GetContent reports content as
\* missing.
LEMMA OnlyGetReports ==
    ASSUME ServiceInv, NEW r \in Requests,
           HandlerStep(r) \/ DbError(r) \/ CommitReplyLost(r)
    PROVE  /\ Kept(r) /\ req[r].reply = "none"
           /\ req'[r].reply = "content_not_uploaded" => GetContent(r)
<1> DEFINE Asked == /\ Kept(r)
                    /\ req'[r].reply = "content_not_uploaded" => GetContent(r)
<1>1. /\ ServiceTypes /\ req \in [Requests -> Handler]
      /\ ~In(r, "ended") => req[r].reply = "none"
  BY DEF ServiceInv, ServiceTypes, HandlerInv, OnPath
<1>2. ~In(r, "ended") /\ req[r].reply = "none"
  BY <1>1
  DEF HandlerStep, Probe, ReadRecord, ReceiveBody, CheckBucket, PutContent, GetContent,
      MinioFails, PutReplyLost, IndexDocument, IndexingFails, Search, Commit, AfterCommit,
      Answer, DbError, CommitReplyLost, Commits, StoreDocument, StoreAssignment,
      StoreAuditEvent, In
<1> SUFFICES Asked
  BY <1>2
<1>3. ASSUME NEW point \in Points, GoTo(r, point) PROVE Asked
  BY <1>1, <1>2, <1>3, GoToMoves
<1>4. ASSUME NEW reply \in Replies \ {"content_not_uploaded"}, ReplyWith(r, reply) PROVE Asked
  BY <1>1, <1>4, ReplyMoves
<1> HIDE DEF Asked
<1>5. CASE Probe(r) \/ ReceiveBody(r) \/ Search(r)
  <2>1. ASSUME NEW at \in Points, NEW storage \in {"none", "minio", "fallback"},
               req' = [req EXCEPT ![r].at = at, ![r].storage = storage]
        PROVE  Asked
    BY <1>1, <1>2, <2>1 DEF Handler, Kept, Asked
  <2>2. ASSUME NEW at \in Points, NEW data \in Bytes,
               req' = [req EXCEPT ![r].data = data, ![r].at = at]
        PROVE  Asked
    BY <1>1, <1>2, <2>2 DEF Handler, Kept, Asked
  <2>3. CASE Probe(r)
    BY <2>1, <2>3 DEF Probe, Points
  <2>4. CASE ReceiveBody(r)
    BY <1>4, <2>2, <2>4
    DEF ReceiveBody, AfterBody, Points, Bytes, Replies, ServiceInv, HandlerInv, OnPath, In
  <2>5. CASE Search(r)
    BY <1>1, <2>5 DEF Search, Handler, Kept, Asked
  <2>6. QED
    BY <1>5, <2>3, <2>4, <2>5
<1>6. CASE GetContent(r)
  <2>1. CASE ReplyWith(r, "content_not_uploaded")
    BY <1>1, <1>6, <2>1, ReplyMoves DEF Replies, Asked
  <2>2. CASE req' = [req EXCEPT ![r].data = Held(r), ![r].at = "audit"]
    BY <1>1, <1>2, <2>2 DEF Handler, Kept, Asked
  <2>3. QED
    BY <1>6, <2>1, <2>2 DEF GetContent
<1>7. CASE ReadRecord(r)
  <2>1. \/ \E point \in Points : GoTo(r, point)
        \/ \E reply \in {"403", "404"} : ReplyWith(r, reply)
    <3>1. req[r].op \in {"upload", "download", "process", "rag", "review"}
      BY <1>7 DEF ServiceInv, HandlerInv, OnPath, ReadRecord, In
    <3>2. AfterRead[req[r].op] \in Points
      BY <3>1 DEF AfterRead, Points
    <3>3. QED
      BY <1>7, <3>2 DEF ReadRecord
  <2>2. QED
    BY <1>3, <1>4, <2>1 DEF Replies
<1>8. CASE CheckBucket(r) \/ PutContent(r) \/ IndexDocument(r) \/ IndexingFails(r)
  BY <1>3, <1>8 DEF CheckBucket, PutContent, IndexDocument, IndexingFails, Points
<1>9. CASE \/ MinioFails(r) \/ PutReplyLost(r) \/ Answer(r) \/ DbError(r)
           \/ CommitReplyLost(r)
  BY <1>4, <1>9
  DEF MinioFails, PutReplyLost, Answer, DbError, CommitReplyLost, Replies
<1>10. CASE Commit(r)
  BY <1>3, <1>4, <1>10 DEF Commit, AfterCommit, Points, Replies
<1>11. QED
  BY <1>2, <1>5, <1>6, <1>7, <1>8, <1>9, <1>10 DEF HandlerStep

-----------------------------------------------------------------------------
\* Every variable keeps its type, and a handler has the bytes its audit event reports.
THEOREM ServiceTyped == Spec => []TypeOK
<1>1. ServiceInv => TypeOK
  BY DEF ServiceInv, ServiceTypes, HandlerInv, OnPath, HasContent, Past, In, TypeOK
<1>2. QED
  BY <1>1, ServiceInvHolds, PTL

\* No download delivers bytes that differ from the ingested content, whichever upload,
\* worker and backend they came through.
THEOREM DownloadsAreIntact == Spec => []DeliveredIsIntact
<1>1. ServiceInv => DeliveredIsIntact
  BY DEF ServiceInv, HandlerInv, HasContent, Past, DeliveredIsIntact
<1>2. QED
  BY <1>1, ServiceInvHolds, PTL

\* No audited operation is answered before its audit event is stored.
THEOREM AnswersAreAudited == Spec => []AnsweredIsAudited
<1>1. ServiceInv => AnsweredIsAudited
  BY DEF ServiceInv, HandlerInv, HasAudit, Past, AnsweredIsAudited
<1>2. QED
  BY <1>1, ServiceInvHolds, PTL

\* What an answer reports survives restarts, outages and database errors.
THEOREM AnswersAreStored == Spec => []AnsweredIsStored
<1>1. ServiceInv => AnsweredIsStored
  BY DEF ServiceInv, HandlerInv, HasRecord, HasStored, Past, AnsweredIsStored
<1>2. QED
  BY <1>1, ServiceInvHolds, PTL

\* The audit log records nothing that did not happen.
THEOREM AuditIsTrue == Spec => []AuditTellsTruth
<1>1. ServiceInv => AuditTellsTruth
  BY DEF ServiceInv, StoresInv
<1>2. QED
  BY <1>1, ServiceInvHolds, PTL

\* Without a fault no ingest ends unrecorded.
THEOREM ChangesAreRecorded == Spec => []ChangesAreAudited
<1>1. ServiceInv => ChangesAreAudited
  BY DEF ServiceInv, HandlerInv, HasAudit, ChangesAreAudited, Audited, AuditRecord
<1>2. QED
  BY <1>1, ServiceInvHolds, PTL

\* Every hit of a search is a committed document.
THEOREM HitsAreDocuments == Spec => []SearchShowsOnlyDocuments
<1>1. ServiceInv => SearchShowsOnlyDocuments
  BY DEF ServiceInv, HandlerInv, HasHits, SearchShowsOnlyDocuments
<1>2. QED
  BY <1>1, ServiceInvHolds, PTL

\* Unless OpenSearch fails, a search finds what was ingested before it was sent.
THEOREM IngestedAreFound == Spec => []SearchFindsIngested
<1>1. ServiceInv => SearchFindsIngested
  BY DEF ServiceInv, HandlerInv, HasHits, SearchFindsIngested, IngestedIsFound
<1>2. QED
  BY <1>1, ServiceInvHolds, PTL

\* What a download was promised when it was sent stays true of every other handler.
LEMMA UploadKept ==
    ASSUME NEW r \in Requests, SeesUpload(r), req[r].doc \in Docs \/ ~req[r].uploaded,
           req'[r].doc = req[r].doc, req'[r].uploaded = req[r].uploaded,
           \A d \in Docs : minio[d] = d => minio'[d] = d,
           \A d \in Docs : TakenByMemory(d) => TakenByMemory(d)',
           req'[r].reply = "content_not_uploaded" =>
              req'[r].reply = req[r].reply /\ req'[r].storage = req[r].storage
    PROVE  SeesUpload(r)'
BY DEF SeesUpload

\* Every step keeps MinIO's objects, the answers given, and what downloads rely on.
LEMMA StepKeepsUploadInv == ServiceInv /\ UploadInv /\ [Next]_vars => UploadInv'
<1> SUFFICES ASSUME ServiceInv, UploadInv, [Next]_vars PROVE UploadInv'
  OBVIOUS
<1>1. \A r \in Requests : req[r].doc \in Docs \/ ~req[r].uploaded
  BY DEF ServiceInv, HandlerInv, OnPath, In
<1>2. \A r \in Requests : req[r].at # "ended" => req[r].reply = "none"
  BY DEF ServiceInv, HandlerInv, OnPath, In
<1>3. ASSUME NEW r \in Requests, Arrive(r) \/ HandlerStep(r) \/ DbError(r) \/ CommitReplyLost(r)
      PROVE  UploadInv'
  <2>1. /\ OthersWait(r) /\ \A d \in Docs : minio[d] = d => minio'[d] = d
        /\ req[r].reply # "200"
    <3>1. Arrive(r) => req[r].reply = "none"
      BY <1>2 DEF Arrive, In
    <3>2. QED
      BY <1>3, <3>1, HandlerStepDone, OnlyGetReports DEF Done, Grows
  <2>2. ASSUME NEW d \in Docs, TakenByMemory(d) PROVE TakenByMemory(d)'
    <3>1. PICK u \in Requests : Answered(u, "upload", d) /\ req[u].storage = "fallback"
      BY <2>2 DEF TakenByMemory
    <3>2. req'[u] = req[u]
      BY <2>1, <3>1 DEF OthersWait, Answered
    <3>3. QED
      BY <3>1, <3>2 DEF TakenByMemory, Answered
  <2>3. ASSUME NEW s \in Requests \ {r} PROVE SeesUpload(s)'
    <3>1. req'[s] = req[s]
      BY <2>1 DEF OthersWait
    <3>2. QED
      BY <1>1, <2>1, <2>2, <3>1, UploadKept DEF UploadInv
  <2>4. CASE Arrive(r)
    <3>1. /\ req'[r].reply = "none" /\ minio' = minio
          /\ req'[r].uploaded => \E u \in Requests : Answered(u, "upload", req'[r].doc)
      <4>1. req \in [Requests -> Handler] /\ req[r].reply = "none"
        BY <1>2, <2>4 DEF ServiceInv, ServiceTypes, Arrive, In
      <4>2. PICK op \in Operations, d \in Docs, w \in Workers :
               req' = [req EXCEPT ![r] =
                  [@ EXCEPT !.op = op, !.doc = d, !.worker = w, !.at = FirstPoint[op],
                      !.uploaded = op = "download"
                                   /\ \E u \in Requests : Answered(u, "upload", d),
                      !.known = IF op = "search"
                                THEN {x \in Docs : \E i \in Requests : Answered(i, "ingest", x)}
                                ELSE {}]]
        BY <2>4 DEF Arrive
      <4> DEFINE asked == op = "download" /\ \E u \in Requests : Answered(u, "upload", d)
                 hits == IF op = "search"
                         THEN {x \in Docs : \E i \in Requests : Answered(i, "ingest", x)}
                         ELSE {}
                 h == [req[r] EXCEPT !.op = op, !.doc = d, !.worker = w, !.at = FirstPoint[op],
                                     !.uploaded = asked, !.known = hits]
      <4>3. req' = [req EXCEPT ![r] = h]
        BY <4>2
      <4>4. asked => \E u \in Requests : Answered(u, "upload", d)
        OBVIOUS
      <4> HIDE DEF asked, hits
      <4>5. h.reply = "none" /\ h.uploaded = asked /\ h.doc = d
        BY <4>1 DEF Handler
      <4> HIDE DEF h
      <4>6. req'[r] = h
        BY <4>1, <4>3
      <4>7. QED
        BY <2>4, <4>4, <4>5, <4>6 DEF Arrive, Stores
    <3>2. ASSUME NEW u \in Requests, NEW d, Answered(u, "upload", d)
          PROVE  minio[d] = d \/ TakenByMemory(d)
      BY <3>2 DEF ServiceInv, HandlerInv, HasStored, Past, TakenByMemory, Answered
    <3>3. req'[r].uploaded => \/ minio'[req'[r].doc] = req'[r].doc
                              \/ TakenByMemory(req'[r].doc)
      BY <3>1, <3>2
    <3>4. TakenByMemory(req'[r].doc) => TakenByMemory(req[r].doc)'
      <4>1. ASSUME NEW u \in Requests, Answered(u, "upload", req'[r].doc)
            PROVE  u # r
        BY <2>1, <4>1 DEF Answered
      <4>2. QED
        BY <2>1, <4>1 DEF TakenByMemory, Answered, OthersWait
    <3>5. QED
      BY <3>1, <3>3, <3>4, <2>3 DEF UploadInv, SeesUpload
  <2>5. CASE GetContent(r)
    <3>1. Kept(r) /\ (req[r].doc \in Docs \/ ~req[r].uploaded) /\ SeesUpload(r)
      BY <1>1, <2>5, OnlyGetReports DEF HandlerStep, UploadInv
    <3>2. CASE ReplyWith(r, "content_not_uploaded") /\ Held(r) = Absent
      <4>1. req'[r].storage = req[r].storage
        BY <3>2, ReplyMoves DEF Replies, ServiceInv
      <4>2. /\ req[r].storage \in {"minio", "fallback"}
            /\ req[r].uploaded /\ req[r].storage = "minio" => TakenByMemory(req[r].doc)
        BY <2>5, <3>1, <3>2, AbsentAssumption
        DEF SeesUpload, Held, ServiceInv, HandlerInv, HasStorage, GetContent, In
      <4>3. SeesUpload(r)'
        BY <2>1, <2>2, <3>1, <4>1, <4>2 DEF SeesUpload, Kept
      <4>4. QED
        BY <2>3, <4>3 DEF UploadInv
    <3>3. CASE req' = [req EXCEPT ![r].data = Held(r), ![r].at = "audit"]
      <4>1. req'[r].reply # "content_not_uploaded"
        <5>1. req[r].reply = "none" /\ req \in [Requests -> Handler]
          BY <2>5, OnlyGetReports DEF HandlerStep, ServiceInv, ServiceTypes
        <5>2. QED
          BY <3>3, <5>1 DEF Handler
      <4>2. QED
        BY <2>1, <2>2, <2>3, <3>1, <4>1, UploadKept DEF UploadInv, Kept
    <3>4. QED
      BY <2>5, <3>2, <3>3 DEF GetContent
  <2>6. CASE ~Arrive(r) /\ ~GetContent(r)
    <3>1. /\ Kept(r) /\ req'[r].reply # "content_not_uploaded"
          /\ (req[r].doc \in Docs \/ ~req[r].uploaded) /\ SeesUpload(r)
      BY <1>1, <1>3, <2>6, OnlyGetReports DEF UploadInv
    <3>2. QED
      BY <2>1, <2>2, <2>3, <3>1, UploadKept DEF UploadInv, Kept
  <2>7. QED
    BY <2>4, <2>5, <2>6
<1>4. ASSUME UNCHANGED minio,
             \A r \in Requests : \/ req'[r] = req[r]
                                 \/ /\ req[r].reply = "none" /\ Kept(r)
                                    /\ req'[r].reply # "content_not_uploaded"
      PROVE  UploadInv'
  <2>1. ASSUME NEW d \in Docs, TakenByMemory(d) PROVE TakenByMemory(d)'
    BY <1>4, <2>1 DEF TakenByMemory, Answered
  <2>2. ASSUME NEW r \in Requests PROVE SeesUpload(r)'
    BY <1>1, <1>4, <2>1, UploadKept DEF UploadInv, Kept
  <2>3. QED
    BY <2>2 DEF UploadInv
<1>5. CASE UNCHANGED vars
  BY <1>4, <1>5 DEF vars
<1>6. CASE CreateBucket \/ MinioDown \/ MinioBack \/ SearchDown \/ SearchBack
  BY <1>4, <1>6 DEF CreateBucket, MinioDown, MinioBack, SearchDown, SearchBack, Stores
<1>7. ASSUME NEW w \in Workers, Restart(w) PROVE UploadInv'
  <2>1. UNCHANGED minio
    BY <1>7 DEF Restart
  <2>2. ASSUME NEW r \in Requests
        PROVE  \/ req'[r] = req[r]
               \/ /\ req[r].reply = "none" /\ Kept(r)
                  /\ req'[r].reply # "content_not_uploaded"
    <3>1. /\ req[r] \in Handler
          /\ req'[r] = req[r] \/ /\ Running(r)
                                 /\ req'[r] = [req[r] EXCEPT !.at = "ended", !.reply = "500"]
      BY <1>7 DEF Restart, ServiceInv, ServiceTypes
    <3>2. QED
      BY <1>2, <3>1 DEF Running, In, Kept, Handler
  <2>3. QED
    BY <1>4, <2>1, <2>2
<1>8. QED
  BY <1>3, <1>5, <1>6, <1>7 DEF Next, Quiescent

\* Whatever fails, content is reported missing only where a worker's memory was relied
\* on: what MinIO took is found by every download that asks MinIO.
THEOREM UploadsAreFound == Spec => []UploadsStayAvailable
<1>1. Init => UploadInv
  BY DEF Init, UploadInv, SeesUpload
<1>2. UploadInv => UploadsStayAvailable
  BY DEF UploadInv, SeesUpload, TakenByMemory, UploadsStayAvailable
<1>3. QED
  BY <1>1, <1>2, ServiceInvHolds, StepKeepsUploadInv, PTL DEF Spec
=============================================================================
