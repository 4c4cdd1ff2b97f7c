----------------------- MODULE ConsoleDocumentsProofs -----------------------
(***************************************************************************)
(* Theorems about ConsoleDocuments for any files, any number of flows and  *)
(* loads in flight, any number of documents and moves.                     *)
(***************************************************************************)
EXTENDS ConsoleDocuments, TLAPS

Active(i) == flows[i].at # "idle"

\* A flow uploads a file, to a document that the server has made for it.
FlowsNameFiles ==
    \A i \in Flows :
        /\ Active(i) => flows[i].file \in Files
        /\ flows[i].at = "ingest" /\ flows[i].answer = "ok" => flows[i].doc \in Upload!Ingested

ConsoleTypes == TypeOK /\ FlowsNameFiles

\* The form belongs to one flow at a time, and the button says so.
OneFlowShown ==
    \A i \in Flows :
        flows[i].mounted => /\ Active(i) /\ form.busy
                            /\ \A j \in Flows : flows[j].mounted => j = i

\* The flow of the form shows its own document, or none once another file is picked.
FlowShowsItsDocument ==
    \A i \in Flows :
        flows[i].mounted /\ flows[i].at = "content" => form.record \in {None, flows[i].doc}

\* An upload that has been answered has stored what was announced.
AnsweredIsStored ==
    \A i \in Flows :
        flows[i].at = "content" /\ flows[i].answer = "ok"
            => docs[flows[i].doc].content = docs[flows[i].doc].file

BannerInv ==
    ConsoleTypes /\ OneFlowShown /\ FlowShowsItsDocument /\ AnsweredIsStored /\ BannerIsTrue

\* What an upload or a search has returned is cached, unless sessionStorage is full.
ReturnedIsCached ==
    ~full => \A d \in Docs : returned[d] \cap {"upload", "search"} # {} => cache[d] # {}

-----------------------------------------------------------------------------
USE ConsoleAssumption

\* The components count the same documents.
LEMMA SameDocs ==
    /\ Upload!Docs = Docs /\ Documents!Docs = Docs
    /\ Upload!Ingested = {d \in Docs : docs[d] # None}
    /\ Documents!Ingested = {d \in Docs : docs[d] # None}
    /\ None \notin Docs /\ Docs \subseteq Nat
BY DEF Docs, Upload!Docs, Documents!Docs, Upload!Ingested, Documents!Ingested

\* The types of the state that the upload page uses.
UploadTypes ==
    /\ Upload!UploadTypeOK
    /\ cache \in [Docs -> SUBSET {"record", "hit"}] /\ full \in BOOLEAN
    /\ returned \in [Docs -> SUBSET {"upload", "search", "list"}]
    /\ FlowsNameFiles

\* What a step of a flow has to show: it puts a flow in place of the flow, loses no
\* document and leaves the rest well formed.
LEMMA FlowStepKeepsTypes ==
    ASSUME UploadTypes, NEW i \in Flows, NEW f \in Upload!Flow,
           flows' = [flows EXCEPT ![i] = f],
           docs' \in [Docs -> [file : Files, content : Files \cup {None}] \cup {None}],
           form' \in Upload!Form, full' = full,
           cache' \in [Docs -> SUBSET {"record", "hit"}],
           returned' \in [Docs -> SUBSET {"upload", "search", "list"}],
           \A d \in Docs : docs[d] # None => docs'[d] # None,
           f.at # "idle" => f.file \in Files,
           f.at = "ingest" /\ f.answer = "ok" => f.doc \in Docs /\ docs'[f.doc] # None,
           f.at \in {"content", "process"} => f.doc \in Docs /\ docs'[f.doc] # None
    PROVE  UploadTypes'
<1>1. flows \in [Flows -> Upload!Flow] /\ flows' \in [Flows -> Upload!Flow]
  BY DEF UploadTypes, Upload!UploadTypeOK
<1>2. ASSUME NEW j \in Flows
      PROVE  /\ flows'[j].at \in {"content", "process"}
                   => flows'[j].doc \in {d \in Docs : docs'[d] # None}
             /\ flows'[j].at # "idle" => flows'[j].file \in Files
             /\ flows'[j].at = "ingest" /\ flows'[j].answer = "ok"
                   => flows'[j].doc \in {d \in Docs : docs'[d] # None}
  BY <1>1, SameDocs DEF UploadTypes, FlowsNameFiles, Active, Upload!UploadTypeOK
<1>3. Upload!Ingested' = {d \in Docs : docs'[d] # None} /\ Upload!Docs = Docs
  BY SameDocs DEF Upload!Ingested
<1>4. Upload!UploadTypeOK'
  BY <1>1, <1>2, <1>3 DEF Upload!UploadTypeOK
<1>5. FlowsNameFiles'
  BY <1>2, <1>3 DEF FlowsNameFiles, Active
<1>6. QED
  BY <1>4, <1>5 DEF UploadTypes

\* Every step of the upload page keeps its types.
LEMMA UploadStepKeepsTypes == UploadTypes /\ Upload!UploadNext => UploadTypes'
<1> SUFFICES ASSUME UploadTypes, Upload!UploadNext PROVE UploadTypes'
  OBVIOUS
<1> USE SameDocs
<1>1. /\ docs \in [Docs -> [file : Files, content : Files \cup {None}] \cup {None}]
      /\ form \in Upload!Form /\ flows \in [Flows -> Upload!Flow]
  BY DEF UploadTypes, Upload!UploadTypeOK
<1>2. /\ Upload!NoFlow \in Upload!Flow /\ Upload!NoFlow.at = "idle"
      /\ Upload!NewForm \in Upload!Form
  BY DEF Upload!NoFlow, Upload!Flow, Upload!NewForm, Upload!Form, Upload!StepStatus
<1>3. CASE UNCHANGED <<docs, cache, full, returned, flows>> /\ form' \in Upload!Form
  BY <1>3 DEF UploadTypes, Upload!UploadTypeOK, FlowsNameFiles, Active, Upload!Ingested
<1>4. ASSUME NEW f \in Files, Upload!PickFile(f) PROVE UploadTypes'
  <2>1. form' \in Upload!Form
    BY <1>1, <1>4 DEF Upload!PickFile, Upload!NewForm, Upload!Form, Upload!StepStatus
  <2>2. QED
    BY <1>3, <1>4, <2>1 DEF Upload!PickFile
<1>5. CASE Upload!Remove
  BY <1>2, <1>3, <1>5 DEF Upload!Remove
<1>6. ASSUME NEW i \in Flows, Upload!RunUpload(i) PROVE UploadTypes'
  <2>1. PICK auto \in BOOLEAN :
           flows' = [flows EXCEPT ![i] = [Upload!NoFlow EXCEPT !.at = "ingest", !.mounted = TRUE,
                                                     !.file = form.file, !.auto = auto]]
    BY <1>6 DEF Upload!RunUpload
  <2>2. form.file \in Files /\ UNCHANGED <<docs, cache, full, returned>>
    BY <1>1, <1>6 DEF Upload!RunUpload, Upload!MayUpload, Upload!Form
  <2> DEFINE f == [Upload!NoFlow EXCEPT !.at = "ingest", !.mounted = TRUE,
                                        !.file = form.file, !.auto = auto]
  <2>3. /\ f \in Upload!Flow /\ f.at = "ingest" /\ f.answer = "none" /\ f.file \in Files
        /\ flows' = [flows EXCEPT ![i] = f]
    BY <2>1, <2>2 DEF Upload!NoFlow, Upload!Flow
  <2> HIDE DEF f
  <2>4. form' \in Upload!Form
    BY <1>1, <1>6 DEF Upload!RunUpload, Upload!Form, Upload!StepStatus
  <2>5. QED
    BY <1>1, <2>2, <2>3, <2>4, FlowStepKeepsTypes DEF UploadTypes
<1>7. ASSUME NEW i \in Flows, Upload!ServerIngests(i) PROVE UploadTypes'
  <2>1. PICK d \in Docs :
           /\ docs' = [docs EXCEPT ![d] = [file |-> flows[i].file, content |-> None]]
           /\ flows' = [flows EXCEPT ![i].answer = "ok", ![i].doc = d]
           /\ UNCHANGED <<cache, full, returned, form>>
    BY <1>7 DEF Upload!ServerIngests
  <2>2. flows[i].file \in Files /\ flows[i].at = "ingest"
    BY <1>7 DEF Upload!ServerIngests, Upload!Awaits, UploadTypes, FlowsNameFiles, Active
  <2>3. /\ [file |-> flows[i].file, content |-> None] \in [file : Files, content : Files \cup {None}]
        /\ [file |-> flows[i].file, content |-> None] # None
    BY <2>2
  <2>4. /\ docs' \in [Docs -> [file : Files, content : Files \cup {None}] \cup {None}]
        /\ \A x \in Docs : docs[x] # None => docs'[x] # None
        /\ docs'[d] # None
    BY <1>1, <2>1, <2>3
  <2> DEFINE f == [flows[i] EXCEPT !.answer = "ok", !.doc = d]
  <2>5. /\ f \in Upload!Flow /\ f.file \in Files /\ f.at = "ingest" /\ f.doc = d
        /\ flows' = [flows EXCEPT ![i] = f]
    BY <1>1, <2>1, <2>2 DEF Upload!Flow
  <2> HIDE DEF f
  <2>6. QED
    BY <1>1, <2>1, <2>4, <2>5, FlowStepKeepsTypes DEF UploadTypes
<1>8. ASSUME NEW i \in Flows, Upload!ServerStores(i) PROVE UploadTypes'
  <2>1. /\ flows[i].at = "content" /\ flows[i].doc \in Docs /\ docs[flows[i].doc] # None
        /\ flows[i].file \in Files
        /\ docs' = [docs EXCEPT ![flows[i].doc] = [@ EXCEPT !.content = flows[i].file]]
        /\ flows' = [flows EXCEPT ![i].answer = "ok"]
        /\ UNCHANGED <<cache, full, returned, form>>
    BY <1>8 DEF Upload!ServerStores, Upload!Awaits, UploadTypes, FlowsNameFiles, Active,
                Upload!UploadTypeOK
  <2>2. [docs[flows[i].doc] EXCEPT !.content = flows[i].file]
           \in [file : Files, content : Files \cup {None}]
    BY <1>1, <2>1
  <2>3. /\ docs' \in [Docs -> [file : Files, content : Files \cup {None}] \cup {None}]
        /\ \A x \in Docs : docs[x] # None => docs'[x] # None
    BY <1>1, <2>1, <2>2
  <2> DEFINE f == [flows[i] EXCEPT !.answer = "ok"]
  <2>4. /\ f \in Upload!Flow /\ f.file \in Files /\ f.at = "content" /\ f.doc = flows[i].doc
        /\ flows' = [flows EXCEPT ![i] = f]
    BY <1>1, <2>1 DEF Upload!Flow
  <2> HIDE DEF f
  <2>5. QED
    BY <1>1, <2>1, <2>3, <2>4, FlowStepKeepsTypes DEF UploadTypes
<1>9. ASSUME NEW i \in Flows, Upload!AfterIngest(i) PROVE UploadTypes'
  <2>1. /\ flows[i].at = "ingest" /\ flows[i].doc \in Docs /\ docs[flows[i].doc] # None
        /\ flows[i].file \in Files
        /\ returned' = [returned EXCEPT ![flows[i].doc] = @ \cup {"upload"}]
        /\ flows' = [flows EXCEPT ![i].at = "content", ![i].answer = "none"]
        /\ UNCHANGED <<docs, full>>
    BY <1>9 DEF Upload!AfterIngest, UploadTypes, FlowsNameFiles, Active
  <2>2. cache' \in [Docs -> SUBSET {"record", "hit"}]
    BY <1>9, <2>1 DEF Upload!AfterIngest, Upload!CacheRecord, UploadTypes
  <2>3. returned' \in [Docs -> SUBSET {"upload", "search", "list"}]
    BY <2>1 DEF UploadTypes
  <2>4. form' \in Upload!Form
    BY <1>1, <1>9, <2>1
    DEF Upload!AfterIngest, Upload!Show, Upload!Form, Upload!StepStatus
  <2> DEFINE f == [flows[i] EXCEPT !.at = "content", !.answer = "none"]
  <2>5. /\ f \in Upload!Flow /\ f.file \in Files /\ f.at = "content" /\ f.doc = flows[i].doc
        /\ flows' = [flows EXCEPT ![i] = f]
    BY <1>1, <2>1 DEF Upload!Flow
  <2> HIDE DEF f
  <2>6. docs' = docs /\ full' = full /\ f.doc \in Docs /\ docs'[f.doc] # None
    BY <2>1, <2>5
  <2>7. QED
    BY <1>1, <2>2, <2>3, <2>4, <2>5, <2>6, FlowStepKeepsTypes
<1>10. ASSUME NEW i \in Flows, Upload!AfterContent(i) PROVE UploadTypes'
  <2>1. /\ flows[i].at = "content" /\ flows[i].doc \in Docs /\ docs[flows[i].doc] # None
        /\ flows[i].file \in Files /\ flows[i].auto \in BOOLEAN
        /\ UNCHANGED <<docs, cache, full, returned>>
    BY <1>1, <1>10
    DEF Upload!AfterContent, UploadTypes, FlowsNameFiles, Active, Upload!UploadTypeOK, Upload!Flow
  <2> DEFINE shown == [form EXCEPT !.content = "done", !.busy = flows[i].auto,
                            !.process = IF flows[i].auto THEN "active" ELSE "pending"]
  <2>2. form' \in Upload!Form
    <3>1. shown \in Upload!Form
      BY <1>1, <2>1 DEF Upload!Form, Upload!StepStatus
    <3>2. form' = IF flows[i].mounted THEN shown ELSE form
      BY <1>10 DEF Upload!AfterContent, Upload!Show
    <3>3. QED
      BY <1>1, <3>1, <3>2
  <2>3. CASE flows' = [flows EXCEPT ![i] = Upload!NoFlow]
    BY <1>1, <1>2, <2>1, <2>2, <2>3, FlowStepKeepsTypes DEF UploadTypes
  <2>4. CASE flows' = [flows EXCEPT ![i].at = "process", ![i].answer = "none"]
    <3> DEFINE f == [flows[i] EXCEPT !.at = "process", !.answer = "none"]
    <3>1. /\ f \in Upload!Flow /\ f.file \in Files /\ f.at = "process" /\ f.doc = flows[i].doc
          /\ flows' = [flows EXCEPT ![i] = f]
      BY <1>1, <2>1, <2>4 DEF Upload!Flow
    <3> HIDE DEF f
    <3>2. QED
      BY <1>1, <2>1, <2>2, <3>1, FlowStepKeepsTypes DEF UploadTypes
  <2>5. QED
    BY <1>10, <2>3, <2>4 DEF Upload!AfterContent
<1>11. ASSUME NEW i \in Flows, Upload!AfterProcess(i) \/ Upload!Fails(i) PROVE UploadTypes'
  <2>1. /\ UNCHANGED <<docs, cache, full, returned>>
        /\ flows' = [flows EXCEPT ![i] = Upload!NoFlow]
    BY <1>11 DEF Upload!AfterProcess, Upload!Fails
  <2>2. form' \in Upload!Form
    <3>1. CASE Upload!AfterProcess(i)
      BY <1>1, <3>1 DEF Upload!AfterProcess, Upload!Show, Upload!Form, Upload!StepStatus
    <3>2. CASE Upload!Fails(i)
      BY <1>1, <3>2
      DEF Upload!Fails, Upload!Show, Upload!Form, Upload!StepStatus, Upload!ErrorIfActive
    <3>3. QED
      BY <1>11, <3>1, <3>2
  <2>3. QED
    BY <1>1, <1>2, <2>1, <2>2, FlowStepKeepsTypes DEF UploadTypes
<1>12. QED
  BY <1>4, <1>5, <1>6, <1>7, <1>8, <1>9, <1>10, <1>11 DEF Upload!UploadNext, Upload!FlowStep

\* Every step of the document pages keeps the types of the tab.
LEMMA PagesStepKeepsTypes == ConsoleTypes /\ PagesStep => ConsoleTypes'
<1> SUFFICES ASSUME ConsoleTypes, PagesStep PROVE ConsoleTypes'
  OBVIOUS
<1> USE SameDocs
<1>1. /\ cache \in [Docs -> SUBSET {"record", "hit"}] /\ list \in Documents!Status
      /\ loads \in [Loads -> Documents!LoadCall]
      /\ detail \in [doc : Docs \cup {None}, fields : SUBSET {"record", "hit"},
                     status : Documents!Status]
      /\ returned \in [Docs -> SUBSET {"upload", "search", "list"}]
  BY DEF ConsoleTypes, TypeOK, Documents!PagesTypeOK
<1>2. UNCHANGED <<docs, form, flows, moves, full, page>>
  BY DEF PagesStep, uploadVars, Documents!PagesNext, Documents!Load, Documents!LoadStep,
         Documents!LoadSucceeds, Documents!LoadFails, Documents!Process, Documents!ProcessEnds
<1> DEFINE PagesTyped ==
              /\ cache \in [Docs -> SUBSET {"record", "hit"}] /\ list \in Documents!Status
              /\ loads \in [Loads -> Documents!LoadCall]
              /\ detail \in [doc : Docs \cup {None}, fields : SUBSET {"record", "hit"},
                             status : Documents!Status]
              /\ returned \in [Docs -> SUBSET {"upload", "search", "list"}]
<1>3. PagesTyped' /\ detail'.doc = detail.doc
  <2>1. ASSUME NEW l \in Loads, Documents!Load(l) PROVE PagesTyped' /\ detail'.doc = detail.doc
    BY <1>1, <2>1 DEF Documents!Load, Documents!Hook, Documents!LoadCall, Documents!Status
  <2>2. ASSUME NEW l \in Loads, Documents!LoadSucceeds(l) PROVE PagesTyped' /\ detail'.doc = detail.doc
    <3>1. PICK rows \in SUBSET Documents!Ingested :
            /\ loads[l].hook = "audit" => rows = {}
            /\ IF loads[l].hook = "search" THEN Documents!CacheHits(rows) ELSE UNCHANGED cache
            /\ returned' = [d \in Docs |-> IF d \in rows THEN returned[d] \cup {loads[l].hook}
                                           ELSE returned[d]]
            /\ list' = IF loads[l].mounted THEN "success" ELSE list
      BY <2>2 DEF Documents!LoadSucceeds
    <3>2. loads[l].hook \in {"search", "list", "audit"}
      BY <1>1 DEF Documents!LoadCall
    <3>3. cache' \in [Docs -> SUBSET {"record", "hit"}]
      BY <1>1, <3>1 DEF Documents!CacheHits
    <3>4. returned' \in [Docs -> SUBSET {"upload", "search", "list"}]
      BY <1>1, <3>1, <3>2
    <3>5. list' \in Documents!Status
      BY <1>1, <3>1 DEF Documents!Status
    <3>6. loads' \in [Loads -> Documents!LoadCall] /\ detail' = detail
      BY <1>1, <2>2 DEF Documents!LoadSucceeds, Documents!NoLoad, Documents!LoadCall
    <3>7. QED
      BY <1>1, <3>3, <3>4, <3>5, <3>6
  <2>3. ASSUME NEW l \in Loads, Documents!LoadFails(l) PROVE PagesTyped' /\ detail'.doc = detail.doc
    BY <1>1, <2>3
    DEF Documents!LoadFails, Documents!NoLoad, Documents!LoadCall, Documents!Status
  <2>4. CASE Documents!Process \/ Documents!ProcessEnds
    BY <1>1, <2>4 DEF Documents!Process, Documents!ProcessEnds, Documents!Status
  <2>5. QED
    BY <2>1, <2>2, <2>3, <2>4 DEF PagesStep, Documents!PagesNext, Documents!LoadStep
<1>4. Upload!UploadTypeOK' /\ FlowsNameFiles'
  BY <1>2 DEF ConsoleTypes, TypeOK, Upload!UploadTypeOK, FlowsNameFiles, Active, Upload!Ingested
<1>5. QED
  BY <1>2, <1>3, <1>4 DEF ConsoleTypes, TypeOK, Documents!PagesTypeOK

\* A page is left for another, or loaded again.
Leaves ==
    \/ \E p \in Pages \ {"detail"} : Visit(p)
    \/ \E d \in Upload!Ingested : OpenDocument(d)
    \/ Reload

\* Whoever leaves a page finds a new form and no flow that belongs to it.
LEMMA LeavingResets ==
    ASSUME ConsoleTypes, Leaves
    PROVE  /\ UNCHANGED <<docs, cache, full, returned>>
           /\ form' = Upload!NewForm /\ flows' \in [Flows -> Upload!Flow]
           /\ \A i \in Flows :
                 /\ ~flows'[i].mounted
                 /\ flows'[i].at # "idle" =>
                       /\ flows'[i].at = flows[i].at /\ flows'[i].answer = flows[i].answer
                       /\ flows'[i].file = flows[i].file /\ flows'[i].doc = flows[i].doc
<1>1. flows \in [Flows -> Upload!Flow]
  BY DEF ConsoleTypes, TypeOK, Upload!UploadTypeOK
<1>2. /\ Upload!NoFlow \in Upload!Flow /\ Upload!NoFlow.at = "idle" /\ ~Upload!NoFlow.mounted
  BY DEF Upload!NoFlow, Upload!Flow
<1>3. CASE Upload!Unmount /\ UNCHANGED <<docs, cache, full, returned>>
  <2>1. ASSUME NEW i \in Flows, flows[i].at # "idle"
        PROVE  [flows[i] EXCEPT !.mounted = FALSE] \in Upload!Flow
    BY <1>1 DEF Upload!Flow
  <2>2. QED
    BY <1>1, <1>2, <1>3, <2>1 DEF Upload!Unmount, Upload!Flow
<1>4. CASE Reload
  BY <1>2, <1>4 DEF Reload
<1>5. QED
  BY <1>3, <1>4 DEF Leaves, Visit, OpenDocument, Open

\* Leaving a page keeps the types of the tab.
LEMMA LeavingKeepsTypes == ConsoleTypes /\ Leaves => ConsoleTypes'
<1> SUFFICES ASSUME ConsoleTypes, Leaves PROVE ConsoleTypes'
  OBVIOUS
<1> USE SameDocs
<1>1. /\ loads \in [Loads -> Documents!LoadCall] /\ cache \in [Docs -> SUBSET {"record", "hit"}]
      /\ detail \in [doc : Docs \cup {None}, fields : SUBSET {"record", "hit"},
                     status : Documents!Status]
      /\ page \in Pages /\ moves \in 0..MaxMoves
  BY DEF ConsoleTypes, TypeOK, Documents!PagesTypeOK
<1>2. /\ Documents!NewDetail \in [doc : Docs \cup {None}, fields : SUBSET {"record", "hit"},
                                  status : Documents!Status]
      /\ Documents!NewList \in Documents!Status /\ Documents!NoLoad \in Documents!LoadCall
  BY DEF Documents!NewDetail, Documents!NewList, Documents!Status, Documents!NoLoad,
         Documents!LoadCall
<1>3. ASSUME NEW d \in Docs
      PROVE  /\ Documents!Detail(d) \in [doc : Docs \cup {None}, fields : SUBSET {"record", "hit"},
                                         status : Documents!Status]
             /\ Documents!Detail(d).doc # None
  BY <1>1, <1>3 DEF Documents!Detail, Documents!Status
<1>4. moves' \in 0..MaxMoves
  BY <1>1 DEF Leaves, Visit, OpenDocument, Open, Reload, Move
<1>5. /\ list' \in Documents!Status /\ loads' \in [Loads -> Documents!LoadCall]
  <2>1. CASE Documents!Unmount
    BY <1>1, <1>2, <2>1 DEF Documents!Unmount, Documents!LoadCall
  <2>2. CASE Reload
    BY <1>2, <2>2 DEF Reload
  <2>3. QED
    BY <2>1, <2>2 DEF Leaves, Visit, OpenDocument, Open
<1>6. /\ detail' \in [doc : Docs \cup {None}, fields : SUBSET {"record", "hit"},
                      status : Documents!Status]
      /\ page' \in Pages /\ (page' = "detail" => detail'.doc # None)
  <2>1. CASE \E p \in Pages \ {"detail"} : Visit(p)
    BY <1>2, <2>1 DEF Visit, Open
  <2>2. CASE \E d \in Upload!Ingested : OpenDocument(d)
    BY <1>3, <2>2 DEF OpenDocument, Open, Pages
  <2>3. CASE Reload
    <3>1. page = "detail" => detail.doc \in Docs
      BY <1>1 DEF ConsoleTypes, TypeOK
    <3>2. page = "detail" => detail' = Documents!Detail(detail.doc)
      BY <2>3 DEF Reload
    <3>3. page # "detail" => detail' = detail
      BY <2>3 DEF Reload
    <3>4. QED
      BY <1>1, <1>3, <2>3, <3>1, <3>2, <3>3 DEF Reload
  <2>4. QED
    BY <2>1, <2>2, <2>3 DEF Leaves
<1>7. Upload!UploadTypeOK' /\ FlowsNameFiles'
  <2>1. Upload!NewForm \in Upload!Form
    BY DEF Upload!NewForm, Upload!Form, Upload!StepStatus
  <2>2. Upload!Ingested' = Upload!Ingested
    BY LeavingResets DEF Upload!Ingested
  <2>3. docs' \in [Docs -> [file : Files, content : Files \cup {None}] \cup {None}]
    BY LeavingResets DEF ConsoleTypes, TypeOK, Upload!UploadTypeOK
  <2>4. ASSUME NEW i \in Flows
        PROVE  /\ flows'[i].at \in {"content", "process"} => flows'[i].doc \in Upload!Ingested
               /\ flows'[i].at # "idle" => flows'[i].file \in Files
               /\ flows'[i].at = "ingest" /\ flows'[i].answer = "ok"
                    => flows'[i].doc \in Upload!Ingested
    BY LeavingResets DEF ConsoleTypes, TypeOK, Upload!UploadTypeOK, FlowsNameFiles, Active
  <2>5. QED
    BY <2>1, <2>2, <2>3, <2>4, LeavingResets DEF Upload!UploadTypeOK, FlowsNameFiles, Active
<1>8. QED
  BY <1>1, <1>4, <1>5, <1>6, <1>7, LeavingResets DEF ConsoleTypes, TypeOK, Documents!PagesTypeOK

\* A step changes nothing, or is one of the upload page, of the document pages,
\* or leaves a page.
LEMMA Steps == [Next]_vars <=> UNCHANGED vars \/ UploadStep \/ PagesStep \/ Leaves
BY DEF Next, Leaves

\* The types hold at first and every step keeps them.
LEMMA ConsoleTypesInductive ==
    /\ Init => ConsoleTypes
    /\ ConsoleTypes /\ [Next]_vars => ConsoleTypes'
<1> USE SameDocs
<1>1. Init => ConsoleTypes
  <2> SUFFICES ASSUME Init PROVE ConsoleTypes
    OBVIOUS
  <2>1. /\ form \in Upload!Form /\ flows \in [Flows -> Upload!Flow]
        /\ \A i \in Flows : flows[i].at = "idle"
        /\ docs \in [Docs -> [file : Files, content : Files \cup {None}] \cup {None}]
    BY DEF Init, Upload!UploadInit, Upload!NewForm, Upload!Form, Upload!StepStatus,
           Upload!NoFlow, Upload!Flow
  <2>2. Documents!PagesTypeOK
    BY DEF Init, Documents!PagesInit, Documents!PagesTypeOK, Documents!NewList,
           Documents!Status, Documents!NoLoad, Documents!LoadCall, Documents!NewDetail
  <2>3. /\ page \in Pages /\ page # "detail" /\ full \in BOOLEAN /\ moves \in 0..MaxMoves
        /\ returned \in [Docs -> SUBSET {"upload", "search", "list"}]
    BY DEF Init, Pages, Documents!ListPages
  <2>4. QED
    BY <2>1, <2>2, <2>3 DEF ConsoleTypes, TypeOK, Upload!UploadTypeOK, FlowsNameFiles, Active
<1>2. ASSUME ConsoleTypes, UploadStep PROVE ConsoleTypes'
  <2>1. UploadTypes
    BY <1>2 DEF ConsoleTypes, TypeOK, UploadTypes, Documents!PagesTypeOK
  <2>2. UploadTypes'
    BY <1>2, <2>1, UploadStepKeepsTypes DEF UploadStep
  <2>3. UNCHANGED <<list, loads, detail, moves, page>>
    BY <1>2
    DEF UploadStep, pagesVars, Upload!UploadNext, Upload!PickFile, Upload!Remove,
        Upload!RunUpload, Upload!FlowStep, Upload!AfterIngest, Upload!AfterContent,
        Upload!AfterProcess, Upload!Fails, Upload!ServerIngests, Upload!ServerStores
  <2>4. QED
    BY <1>2, <2>2, <2>3 DEF ConsoleTypes, TypeOK, UploadTypes, Documents!PagesTypeOK
<1>3. ConsoleTypes /\ UNCHANGED vars => ConsoleTypes'
  BY DEF ConsoleTypes, TypeOK, Upload!UploadTypeOK, Documents!PagesTypeOK, FlowsNameFiles,
         Active, Upload!Ingested, vars, uploadVars, pagesVars
<1>4. QED
  BY <1>1, <1>2, <1>3, Steps, PagesStepKeepsTypes, LeavingKeepsTypes

\* Every variable keeps its type, for any files, flows, loads and bounds: flows
\* upload to documents the server has, and a document page has its document.
THEOREM ConsoleTyped == Spec => []TypeOK
<1>1. ConsoleTypes => TypeOK
  BY DEF ConsoleTypes
<1>2. QED
  BY <1>1, ConsoleTypesInductive, PTL DEF Spec

-----------------------------------------------------------------------------
(* The banner *)

\* At first there is no flow and no banner.
LEMMA BannerInvHolds == Init => BannerInv
<1> SUFFICES ASSUME Init PROVE BannerInv
  OBVIOUS
<1>1. /\ \A i \in Flows : flows[i].at = "idle" /\ ~flows[i].mounted
      /\ form.record = None
  BY DEF Init, Upload!UploadInit, Upload!NewForm, Upload!NoFlow
<1>2. QED
  BY <1>1, ConsoleTypesInductive
  DEF BannerInv, OneFlowShown, FlowShowsItsDocument, AnsweredIsStored, BannerIsTrue,
      Upload!BannerIsTrue, Upload!BannerShown

\* Steps of the document pages, and leaving a page, keep what the banner rests on.
LEMMA BannerInvElsewhere ==
    ASSUME BannerInv, PagesStep \/ Leaves \/ UNCHANGED vars
    PROVE  BannerInv'
<1>1. ConsoleTypes'
  BY ConsoleTypesInductive, Steps DEF BannerInv
<1>2. CASE UNCHANGED <<docs, form, flows>>
  BY <1>1, <1>2
  DEF BannerInv, OneFlowShown, FlowShowsItsDocument, AnsweredIsStored, BannerIsTrue, Active,
      Upload!BannerIsTrue, Upload!BannerShown, Upload!Ingested
<1>3. CASE Leaves
  <2>1. form'.record = None
    BY <1>3, LeavingResets DEF BannerInv, Upload!NewForm
  <2>2. AnsweredIsStored'
    BY <1>3, LeavingResets DEF BannerInv, AnsweredIsStored
  <2>3. OneFlowShown' /\ FlowShowsItsDocument'
    BY <1>3, LeavingResets DEF BannerInv, OneFlowShown, FlowShowsItsDocument
  <2>4. QED
    BY <1>1, <2>1, <2>2, <2>3
    DEF BannerInv, BannerIsTrue, Upload!BannerIsTrue, Upload!BannerShown
<1>4. PagesStep \/ UNCHANGED vars => UNCHANGED <<docs, form, flows>>
  BY DEF PagesStep, uploadVars, vars, Documents!PagesNext, Documents!Load, Documents!LoadStep,
         Documents!LoadSucceeds, Documents!LoadFails, Documents!Process, Documents!ProcessEnds
<1>5. QED
  BY <1>2, <1>3, <1>4

\* A document that is stored stays so: no step of the upload page takes bytes away
\* or changes the file that was announced.
LEMMA StoredStays ==
    ASSUME ConsoleTypes, UploadStep, NEW d \in Upload!Ingested,
           docs[d].content = docs[d].file
    PROVE  d \in Upload!Ingested' /\ docs'[d].content = docs'[d].file
<1> USE SameDocs
<1>1. docs \in [Docs -> [file : Files, content : Files \cup {None}] \cup {None}]
  BY DEF ConsoleTypes, TypeOK, Upload!UploadTypeOK
<1>2. Upload!Ingested' = {x \in Docs : docs'[x] # None}
  BY DEF Upload!Ingested
<1>3. CASE docs' = docs
  BY <1>2, <1>3
<1>4. ASSUME NEW i \in Flows, Upload!ServerIngests(i)
      PROVE  d \in Upload!Ingested' /\ docs'[d].content = docs'[d].file
  BY <1>1, <1>2, <1>4 DEF Upload!ServerIngests
<1>5. ASSUME NEW i \in Flows, Upload!ServerStores(i)
      PROVE  d \in Upload!Ingested' /\ docs'[d].content = docs'[d].file
  <2>1. /\ flows[i].at = "content" /\ flows[i].doc \in Upload!Ingested
        /\ flows[i].file = docs[flows[i].doc].file
        /\ docs' = [docs EXCEPT ![flows[i].doc] = [@ EXCEPT !.content = flows[i].file]]
    BY <1>5 DEF Upload!ServerStores, Upload!Awaits, ConsoleTypes, TypeOK, Upload!UploadTypeOK
  <2>2. docs[d] \in [file : Files, content : Files \cup {None}]
    BY <1>1
  <2>3. CASE d # flows[i].doc
    BY <1>1, <1>2, <2>1, <2>3
  <2>4. CASE d = flows[i].doc
    <3>1. docs'[d] = [docs[d] EXCEPT !.content = docs[d].file]
      BY <1>1, <2>1, <2>4
    <3>2. docs'[d] \in [file : Files, content : Files \cup {None}]
      BY <2>2, <3>1
    <3>3. docs'[d].content = docs'[d].file
      BY <2>2, <3>1
    <3>4. QED
      BY <1>2, <3>2, <3>3
  <2>5. QED
    BY <2>3, <2>4
<1>6. QED
  BY <1>3, <1>4, <1>5
  DEF UploadStep, Upload!UploadNext, Upload!PickFile, Upload!Remove, Upload!RunUpload,
      Upload!FlowStep, Upload!AfterIngest, Upload!AfterContent, Upload!AfterProcess, Upload!Fails

\* An answered upload has stored its bytes after every step of the upload page too.
LEMMA AnswersStayStored ==
    ASSUME ConsoleTypes, AnsweredIsStored, UploadStep
    PROVE  AnsweredIsStored'
<1> USE SameDocs
<1>1. flows \in [Flows -> Upload!Flow]
  BY DEF ConsoleTypes, TypeOK, Upload!UploadTypeOK
<1>2. ASSUME NEW j \in Flows, flows[j].at = "content", flows[j].answer = "ok"
      PROVE  docs'[flows[j].doc].content = docs'[flows[j].doc].file
  BY <1>2, StoredStays DEF ConsoleTypes, TypeOK, Upload!UploadTypeOK, AnsweredIsStored
<1>3. ASSUME NEW i \in Flows, Upload!ServerStores(i)
      PROVE  docs'[flows[i].doc].content = docs'[flows[i].doc].file
  <2>1. /\ flows[i].doc \in Docs /\ docs[flows[i].doc] # None
        /\ flows[i].file = docs[flows[i].doc].file
        /\ docs' = [docs EXCEPT ![flows[i].doc] = [@ EXCEPT !.content = flows[i].file]]
        /\ docs \in [Docs -> [file : Files, content : Files \cup {None}] \cup {None}]
    BY <1>3 DEF Upload!ServerStores, Upload!Awaits, ConsoleTypes, TypeOK, Upload!UploadTypeOK
  <2> DEFINE d == flows[i].doc
  <2>2. docs[d] \in [file : Files, content : Files \cup {None}] /\ d \in Docs
    BY <2>1
  <2>3. docs'[d] = [docs[d] EXCEPT !.content = docs[d].file]
    BY <2>1, <2>2
  <2>4. QED
    BY <2>2, <2>3
<1>4. ASSUME NEW j \in Flows, flows'[j].at = "content", flows'[j].answer = "ok"
      PROVE  /\ flows'[j].doc = flows[j].doc
             /\ \/ flows[j].at = "content" /\ flows[j].answer = "ok"
                \/ Upload!ServerStores(j)
  <2>1. CASE flows' = flows
    BY <1>4, <2>1
  <2>2. ASSUME NEW i \in Flows, Upload!RunUpload(i) \/ Upload!ServerIngests(i)
        PROVE  i # j /\ flows'[j] = flows[j]
    <3>1. CASE Upload!RunUpload(i)
      <4>1. flows'[i].at = "ingest" /\ \A x \in Flows \ {i} : flows'[x] = flows[x]
        BY <1>1, <3>1 DEF Upload!RunUpload, Upload!NoFlow
      <4>2. QED
        BY <1>4, <4>1
    <3>2. CASE Upload!ServerIngests(i)
      <4>1. flows'[i].at = "ingest" /\ \A x \in Flows \ {i} : flows'[x] = flows[x]
        BY <1>1, <3>2 DEF Upload!ServerIngests, Upload!Awaits, Upload!Flow
      <4>2. QED
        BY <1>4, <4>1
    <3>3. QED
      BY <2>2, <3>1, <3>2
  <2>3. ASSUME NEW i \in Flows, Upload!FlowStep(i) PROVE i # j /\ flows'[j] = flows[j]
    <3>1. CASE flows' = [flows EXCEPT ![i] = Upload!NoFlow]
      BY <1>1, <1>4, <3>1 DEF Upload!NoFlow
    <3>2. CASE Upload!AfterIngest(i)
      BY <1>1, <1>4, <3>2 DEF Upload!AfterIngest, Upload!Flow
    <3>3. CASE flows' = [flows EXCEPT ![i].at = "process", ![i].answer = "none"]
      BY <1>1, <1>4, <3>3 DEF Upload!Flow
    <3>4. QED
      BY <2>3, <3>1, <3>2, <3>3
      DEF Upload!FlowStep, Upload!AfterContent, Upload!AfterProcess, Upload!Fails
  <2>4. ASSUME NEW i \in Flows, Upload!ServerStores(i), i # j PROVE flows'[j] = flows[j]
    BY <1>1, <2>4 DEF Upload!ServerStores
  <2>5. ASSUME Upload!ServerStores(j) PROVE flows'[j].doc = flows[j].doc
    BY <1>1, <2>5 DEF Upload!ServerStores, Upload!Flow
  <2>6. QED
    BY <1>4, <2>1, <2>2, <2>3, <2>4, <2>5
    DEF UploadStep, Upload!UploadNext, Upload!PickFile, Upload!Remove
<1>5. QED
  BY <1>2, <1>3, <1>4 DEF AnsweredIsStored

\* No step of the upload page disturbs what the banner rests on.
LEMMA BannerInvOnUpload ==
    ASSUME BannerInv, UploadStep
    PROVE  BannerInv'
<1> USE SameDocs
<1> DEFINE FormInv == OneFlowShown /\ FlowShowsItsDocument /\ BannerIsTrue
<1>1. ConsoleTypes' /\ AnsweredIsStored'
  BY ConsoleTypesInductive, Steps, AnswersStayStored DEF BannerInv
<1>2. /\ flows \in [Flows -> Upload!Flow] /\ form \in Upload!Form
      /\ \A i \in Flows : flows[i].at \in {"content", "process"} => flows[i].doc \in Upload!Ingested
  BY DEF BannerInv, ConsoleTypes, TypeOK, Upload!UploadTypeOK
<1>3. ASSUME form' = form \/ ~(form'.record # None /\ form'.content = "done")
             \/ (form'.record = form.record /\ form'.content = form.content)
      PROVE  BannerIsTrue'
  BY <1>3, StoredStays
  DEF BannerInv, BannerIsTrue, Upload!BannerIsTrue, Upload!BannerShown
<1>4. ASSUME NEW f \in Files, Upload!PickFile(f) PROVE FormInv'
  <2>1. form' = [Upload!NewForm EXCEPT !.file = f, !.busy = form.busy] /\ flows' = flows
    BY <1>4 DEF Upload!PickFile
  <2>2. form'.record = None /\ (form.busy => form'.busy)
    BY <1>2, <2>1 DEF Upload!NewForm
  <2>3. QED
    BY <1>3, <2>1, <2>2 DEF BannerInv, OneFlowShown, FlowShowsItsDocument, Active
<1>5. ASSUME Upload!Remove PROVE FormInv'
  <2>1. form' = Upload!NewForm /\ flows' = flows /\ ~form.busy
    BY <1>5 DEF Upload!Remove
  <2>2. form'.record = None
    BY <2>1 DEF Upload!NewForm
  <2>3. \A i \in Flows : ~flows'[i].mounted
    BY <2>1 DEF BannerInv, OneFlowShown
  <2>4. BannerIsTrue'
    BY <1>3, <2>2
  <2>5. OneFlowShown' /\ FlowShowsItsDocument'
    BY <2>3 DEF OneFlowShown, FlowShowsItsDocument
  <2>6. QED
    BY <2>4, <2>5
<1>6. ASSUME NEW i \in Flows, Upload!RunUpload(i) PROVE FormInv'
  <2>1. /\ ~form.busy /\ form'.busy
        /\ form'.record = form.record /\ form'.content = form.content
        /\ flows'[i].at = "ingest" /\ \A j \in Flows \ {i} : flows'[j] = flows[j]
    BY <1>2, <1>6 DEF Upload!RunUpload, Upload!MayUpload, Upload!NoFlow, Upload!Form
  <2>2. \A j \in Flows : ~flows[j].mounted
    BY <2>1 DEF BannerInv, OneFlowShown
  <2>3. QED
    BY <1>3, <2>1, <2>2 DEF OneFlowShown, FlowShowsItsDocument, Active
<1>7. ASSUME NEW i \in Flows, Upload!ServerIngests(i) \/ Upload!ServerStores(i) PROVE FormInv'
  <2>1. form' = form
    BY <1>7 DEF Upload!ServerIngests, Upload!ServerStores
  <2>2. \A j \in Flows :
           /\ flows'[j].at = flows[j].at /\ flows'[j].mounted = flows[j].mounted
           /\ flows[j].at = "content" => flows'[j].doc = flows[j].doc
    BY <1>2, <1>7
    DEF Upload!ServerIngests, Upload!ServerStores, Upload!Awaits, Upload!Flow
  <2>3. QED
    BY <1>3, <2>1, <2>2 DEF BannerInv, OneFlowShown, FlowShowsItsDocument, Active
<1>8. ASSUME NEW i \in Flows, Upload!AfterIngest(i) PROVE FormInv'
  <2>1. /\ flows'[i].at = "content" /\ flows'[i].mounted = flows[i].mounted
        /\ flows'[i].doc = flows[i].doc /\ flows[i].at = "ingest"
        /\ \A j \in Flows \ {i} : flows'[j] = flows[j]
    BY <1>2, <1>8 DEF Upload!AfterIngest, Upload!Flow
  <2>2. flows[i].mounted => /\ form'.record = flows[i].doc /\ form'.content = "active"
                            /\ form'.busy = form.busy
    BY <1>2, <1>8 DEF Upload!AfterIngest, Upload!Show, Upload!Form
  <2>3. ~flows[i].mounted => form' = form
    BY <1>8 DEF Upload!AfterIngest, Upload!Show
  <2>4. OneFlowShown'
    BY <2>1, <2>2, <2>3 DEF BannerInv, OneFlowShown, Active
  <2>5. FlowShowsItsDocument'
    BY <2>1, <2>2, <2>3 DEF BannerInv, OneFlowShown, FlowShowsItsDocument
  <2>6. QED
    BY <1>3, <2>2, <2>3, <2>4, <2>5
<1>9. ASSUME NEW i \in Flows, Upload!AfterContent(i) PROVE FormInv'
  <2>1. flows[i].at = "content" /\ flows[i].answer = "ok" /\ flows[i].doc \in Upload!Ingested
    BY <1>2, <1>9 DEF Upload!AfterContent
  <2>2. /\ \A j \in Flows \ {i} : flows'[j] = flows[j]
        /\ flows'[i].at # "content"
        /\ flows'[i].mounted => flows'[i].at # "idle" /\ flows[i].mounted /\ flows[i].auto
    BY <1>2, <1>9 DEF Upload!AfterContent, Upload!NoFlow, Upload!Flow
  <2>3. flows[i].mounted => form'.record = form.record /\ form'.busy = flows[i].auto
    BY <1>2, <1>9 DEF Upload!AfterContent, Upload!Show, Upload!Form
  <2>4. ~flows[i].mounted => form' = form
    BY <1>9 DEF Upload!AfterContent, Upload!Show
  <2>5. OneFlowShown'
    BY <2>2, <2>3, <2>4 DEF BannerInv, OneFlowShown, Active
  <2>6. FlowShowsItsDocument'
    BY <2>2, <2>3, <2>4 DEF BannerInv, OneFlowShown, FlowShowsItsDocument
  <2>7. BannerIsTrue'
    <3>1. CASE flows[i].mounted
      <4>1. form.record \in {None, flows[i].doc}
        BY <2>1, <3>1 DEF BannerInv, FlowShowsItsDocument
      <4>2. docs[flows[i].doc].content = docs[flows[i].doc].file
        BY <2>1 DEF BannerInv, AnsweredIsStored
      <4>3. /\ flows[i].doc \in Upload!Ingested'
            /\ docs'[flows[i].doc].content = docs'[flows[i].doc].file
        BY <2>1, <4>2, StoredStays DEF BannerInv
      <4>4. QED
        BY <2>3, <3>1, <4>1, <4>3 DEF BannerIsTrue, Upload!BannerIsTrue, Upload!BannerShown
    <3>2. QED
      BY <1>3, <2>4, <3>1
  <2>8. QED
    BY <2>5, <2>6, <2>7
<1>10. ASSUME NEW i \in Flows, Upload!AfterProcess(i) \/ Upload!Fails(i) PROVE FormInv'
  <2>1. /\ \A j \in Flows \ {i} : flows'[j] = flows[j]
        /\ flows'[i].at = "idle" /\ ~flows'[i].mounted
    BY <1>2, <1>10 DEF Upload!AfterProcess, Upload!Fails, Upload!NoFlow
  <2>2. /\ form'.record = form.record
        /\ form'.content = form.content \/ form'.content = "error"
        /\ ~flows[i].mounted => form' = form
    <3>1. CASE Upload!AfterProcess(i)
      BY <1>2, <3>1 DEF Upload!AfterProcess, Upload!Show, Upload!Form
    <3>2. CASE Upload!Fails(i)
      BY <1>2, <3>2 DEF Upload!Fails, Upload!Show, Upload!Form, Upload!ErrorIfActive
    <3>3. QED
      BY <1>10, <3>1, <3>2
  <2>3. OneFlowShown' /\ FlowShowsItsDocument'
    BY <2>1, <2>2 DEF BannerInv, OneFlowShown, FlowShowsItsDocument, Active
  <2>4. QED
    BY <1>3, <2>2, <2>3
<1>11. QED
  BY <1>1, <1>4, <1>5, <1>6, <1>7, <1>8, <1>9, <1>10
  DEF UploadStep, Upload!UploadNext, Upload!FlowStep, BannerInv

\* The success banner names a document whose bytes the server has, for any number
\* of uploads in flight, whatever was picked, repeated or left meanwhile.
THEOREM BannerTellsTruth == Spec => []BannerIsTrue
<1>1. BannerInv /\ [Next]_vars => BannerInv'
  BY BannerInvElsewhere, BannerInvOnUpload, Steps
<1>2. BannerInv => BannerIsTrue
  BY DEF BannerInv
<1>3. QED
  BY <1>1, <1>2, BannerInvHolds, PTL DEF Spec

-----------------------------------------------------------------------------
(* The note of the document page *)

\* What was returned stays cached.
LEMMA ReturnedIsCachedInductive ==
    /\ Init => ReturnedIsCached
    /\ ConsoleTypes /\ ReturnedIsCached /\ [Next]_vars => ReturnedIsCached' /\ full' = full
<1> USE SameDocs
<1>1. Init => ReturnedIsCached
  BY DEF Init, ReturnedIsCached
<1> SUFFICES ASSUME ConsoleTypes, ReturnedIsCached, [Next]_vars
             PROVE  ReturnedIsCached' /\ full' = full
  BY <1>1
<1>2. /\ cache \in [Docs -> SUBSET {"record", "hit"}]
      /\ returned \in [Docs -> SUBSET {"upload", "search", "list"}]
  BY DEF ConsoleTypes, TypeOK, Documents!PagesTypeOK
<1>3. CASE UNCHANGED <<cache, full, returned>>
  BY <1>3 DEF ReturnedIsCached
<1>4. ASSUME NEW i \in Flows, Upload!AfterIngest(i) PROVE ReturnedIsCached' /\ full' = full
  <2>1. /\ full' = full /\ flows[i].doc \in Docs
        /\ returned' = [returned EXCEPT ![flows[i].doc] = @ \cup {"upload"}]
        /\ ~full => cache' = [cache EXCEPT ![flows[i].doc] = @ \cup {"record"}]
    BY <1>4 DEF Upload!AfterIngest, Upload!CacheRecord, ConsoleTypes, FlowsNameFiles
  <2>2. QED
    BY <1>2, <2>1 DEF ReturnedIsCached
<1>5. ASSUME NEW l \in Loads, Documents!LoadSucceeds(l) PROVE ReturnedIsCached' /\ full' = full
  <2>1. PICK rows \in SUBSET Documents!Ingested :
            /\ loads[l].hook = "audit" => rows = {}
            /\ IF loads[l].hook = "search" THEN Documents!CacheHits(rows) ELSE UNCHANGED cache
            /\ returned' = [d \in Docs |-> IF d \in rows THEN returned[d] \cup {loads[l].hook}
                                           ELSE returned[d]]
    BY <1>5 DEF Documents!LoadSucceeds
  <2>2. full' = full /\ loads[l].hook \in {"search", "list", "audit"}
    BY <1>5
    DEF Documents!LoadSucceeds, ConsoleTypes, TypeOK, Documents!PagesTypeOK, Documents!LoadCall
  <2>3. ASSUME ~full, NEW d \in Docs, returned'[d] \cap {"upload", "search"} # {}
        PROVE  cache'[d] # {}
    <3>1. CASE loads[l].hook = "search"
      <4>1. cache'[d] = IF d \in rows THEN cache[d] \cup {"hit"} ELSE cache[d]
        BY <1>2, <2>1, <2>3, <3>1 DEF Documents!CacheHits
      <4>2. d \notin rows => returned'[d] = returned[d]
        BY <2>1, <2>3
      <4>3. QED
        BY <2>3, <4>1, <4>2 DEF ReturnedIsCached
    <3>2. CASE loads[l].hook # "search"
      <4>1. returned'[d] \cap {"upload", "search"} = returned[d] \cap {"upload", "search"}
        BY <2>1, <2>2, <2>3, <3>2
      <4>2. cache' = cache
        BY <2>1, <3>2
      <4>3. QED
        BY <2>3, <4>1, <4>2 DEF ReturnedIsCached
    <3>3. QED
      BY <3>1, <3>2
  <2>4. QED
    BY <2>2, <2>3 DEF ReturnedIsCached
<1>6. CASE UploadStep
  BY <1>3, <1>4, <1>6
  DEF UploadStep, Upload!UploadNext, Upload!PickFile, Upload!Remove, Upload!RunUpload,
      Upload!FlowStep, Upload!AfterContent, Upload!AfterProcess, Upload!Fails,
      Upload!ServerIngests, Upload!ServerStores
<1>7. CASE PagesStep
  BY <1>3, <1>5, <1>7
  DEF PagesStep, Documents!PagesNext, Documents!Load, Documents!LoadStep, Documents!LoadFails,
      Documents!Process, Documents!ProcessEnds
<1>8. CASE Leaves
  BY <1>3, <1>8, LeavingResets
<1>9. CASE UNCHANGED vars
  BY <1>3, <1>9 DEF vars
<1>10. QED
  BY <1>6, <1>7, <1>8, <1>9, Steps

\* A document page that opens with nothing to show shows a document that no upload
\* and no search has returned to this tab, unless sessionStorage was full.
THEOREM GapNoteTellsTruth == Spec => GapNoteIsTrue
<1> USE SameDocs
<1> DEFINE NoteIsTrue ==
       \A d \in Docs : OpensBlank(d) /\ ~full => returned[d] \subseteq {"list"}
<1>1. ConsoleTypes /\ ReturnedIsCached /\ [Next]_vars => [NoteIsTrue]_vars
  <2> SUFFICES ASSUME ConsoleTypes, ReturnedIsCached, [Next]_vars,
                      NEW d \in Docs, OpensBlank(d), ~full
               PROVE  returned[d] \subseteq {"list"}
    OBVIOUS
  <2>1. moves' # moves /\ page' = "detail" /\ detail'.doc = d /\ detail'.fields = {}
    BY DEF OpensBlank, Documents!Blank
  <2>2. Leaves
    BY <2>1, Steps DEF UploadStep, PagesStep, vars
  <2>3. detail'.fields = cache[d]
    <3>1. CASE \E p \in Pages \ {"detail"} : Visit(p)
      BY <2>1, <3>1 DEF Visit, Open
    <3>2. CASE \E x \in Upload!Ingested : OpenDocument(x)
      BY <2>1, <3>2 DEF OpenDocument, Open, Documents!Detail
    <3>3. CASE Reload
      BY <2>1, <3>3 DEF Reload, Documents!Detail
    <3>4. QED
      BY <2>2, <3>1, <3>2, <3>3 DEF Leaves
  <2>4. returned[d] \cap {"upload", "search"} = {}
    BY <2>1, <2>3 DEF ReturnedIsCached
  <2>5. returned[d] \subseteq {"upload", "search", "list"}
    BY DEF ConsoleTypes, TypeOK
  <2>6. QED
    BY <2>4, <2>5
<1>2. [][NoteIsTrue]_vars => GapNoteIsTrue
  BY DEF GapNoteIsTrue
<1>3. QED
  BY <1>1, <1>2, ConsoleTypesInductive, ReturnedIsCachedInductive, PTL DEF Spec
=============================================================================
