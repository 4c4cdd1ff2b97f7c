# GoAnalyze: a verification project

TLA+ models of the GoAnalyze government document platform, TLC runs that check
them on small instances, and theorems that the TLA+ proof system checks for every
instance. Paths below are relative to the repository's root, `src/`.

## 1. The system

GoAnalyze is a multi-tenant document platform: a FastAPI backend
(`gov_platform/`), a Next.js console (`frontend/`), and PostgreSQL, Redis, MinIO,
OpenSearch and Keycloak around them. The backend runs as several processes: four
uvicorn workers in `Dockerfile.production`, several replicas in `helm/`. A worker
is one event loop; its requests interleave at every `await`, and workers share
nothing but the databases.

| component | state it keeps | operations | what is hard about it |
|---|---|---|---|
| Audit chain: `audit.py`, `db/repositories.py` `AuditRepository` | `audit_events`, `audit_chain_state` (a head per tenant), the pool | append under the row lock, list, list by page | appends of one tenant from many workers; failure between the statements of an append; lost commit replies; timestamps taken before the lock |
| Document API: `main.py` | none of its own; writes `documents`, `case_assignments`, objects, the index, audit events | ingest, process, rag, review, assign, search, upload, download | several stores written one after the other, no transaction across them |
| Object storage: `storage.py` | MinIO bucket and objects; one dict per worker | probe, put, get | the store is chosen per request by a probe, which a missing bucket fails as an outage does; what the dict holds no other worker sees |
| Search: `search.py` | the OpenSearch index | index, search with database fallback | best-effort indexing, never repeated |
| Rate limiter: `rate_limit.py` | one Redis counter per address, user, tenant | `INCR`, `EXPIRE`, `TTL`; fail open | three separate round trips, errors and killed workers between them |
| Token verification: `security.py` | `_jwks_cache` of each worker | `_get_jwks`, `verify_bearer_token` | cache read before an `await`, written after it, by many requests |
| User registry: `UserRepository` | `users`, unique by subject | upsert on every authenticated request | select then insert |
| Access policy: `evaluate_abac`, role checks | none | one decision per handler | a decision table |
| Environmental engine, ingestion stages | none | scoring, routing | thresholds |
| Setup: `submit_setup_configuration` | none | validate a form | the frontend has its own copy of the rules |
| Frontend session: `frontend/lib/auth.ts`, `hooks/useAuth.ts`, `AppShell.tsx`, the login pages | tokens, PKCE state and destination in `sessionStorage`; each mounted guard | login, callback, refresh, logout | refreshes at the same time, answers after a logout, reloads of the callback, attempts given up |
| Frontend upload: `DocumentUpload.tsx` | the form and its steps | hash, ingest, upload, process, retry | another file picked or the page left while a flow runs; answers lost after the server has acted |
| Frontend loading: `hooks/*`, `lib/documentCache.ts`, the list and document pages | each list's status; the cache of documents in `sessionStorage` | search, list, open a document, process | loads overlap and answer in any order, also after their page is gone; pages read a cache others fill |
| Setup wizard: `frontend/app/setup/page.tsx` | the form, its step, the outcome; a flag in `localStorage` | edit, go to a step, finish, redirect | no step is checked; answers and timers outlive the page |

They interact by calls only: a request passes the IP limiter (middleware), then
`get_current_context` (JWKS cache, user and tenant limiter, user upsert), then
`get_object_storage`, then its handler, which ends with the audit append; the
session, and so the pooled connection, is the same from the upsert to the end.
The console is one thread per tab: its calls interleave at every `await`, and its pages
share `sessionStorage`. Every API call first asks `lib/auth.ts` for a token.
`PROJECT.json` lists each hazard at its line with the properties that cover it.

What makes each part correct, in a sentence: the chain of a tenant is one line
that loses nothing; what is answered is stored and on record, what is on record
happened; content delivered is the content announced; a counter lets its limit
pass and one more per failure, and ends; a withdrawn key dies, a served key is accepted; nobody is
signed out by a race or a lost answer of Keycloak, and a sign-in ends where it began; what the
console says of a document or of the setup is so.

## 2. The modules

| module | models | instance |
|---|---|---|
| `AuditLedger` | the audit log as its callers see it: an append is one step | |
| `AuditChain` | `append_with_chain_lock` statement by statement; implements `AuditLedger` | `MCAuditChain` |
| `AuditChainProofs` | theorems about `AuditChain` | |
| `AuditListing` | a walk through `GET /v1/audit`, over the appends of `AuditLedger` | `MCAuditListing` |
| `AuditListingProofs` | theorems about `AuditListing` | |
| `DocumentService` | all handlers of `main.py` over their stores | `MCDocumentService` |
| `DocumentServiceProofs` | theorems about `DocumentService` | |
| `RateLimiter` | the three counters in Redis | `MCRateLimiter` |
| `RateLimiterProofs` | theorems about `RateLimiter` | |
| `JwksCache` | the key cache of one worker and the lookups that share it | `MCJwksCache` |
| `JwksCacheProofs` | theorems about `JwksCache` | |
| `FrontendSession` | the session of a browser tab and Keycloak's answers to it | `MCFrontendSession` |
| `FrontendSessionProofs` | theorems about `FrontendSession` | |
| `UploadFlow` | the upload page: `runUpload` and the form it writes to | in `ConsoleDocuments` |
| `DocumentPages` | the lists, their loads and the page of one document | in `ConsoleDocuments` |
| `ConsoleDocuments` | `UploadFlow` and `DocumentPages` in one tab, over one cache | `MCConsoleDocuments` |
| `ConsoleDocumentsProofs` | theorems about `ConsoleDocuments` and its two components | |
| `SetupWizard` | the wizard and the endpoint that judges what it sends | `MCSetupWizard` |
| `SetupWizardProofs` | theorems about `SetupWizard` | |

`AuditLedger` is where the modules meet: `AuditChain` is shown to implement it, and
`AuditListing` extends it (its appends are `LedgerNext`). `DocumentService` takes an
append as one step with the outcomes `AuditChain` has: stored and answered, not
stored, stored with the reply lost. `ConsoleDocuments` instantiates its two components
over its own variables: a step is one of `UploadFlow` that leaves the pages alone, one of
`DocumentPages` that leaves the form alone, or a move that unmounts both.

Operators named `M_...` are mutants, each standing before the definition it is a
variant of: a plausible error in that code. No specification uses them; put in the
place of the original, each makes one of the checked properties fail.

### AuditChain

A request appends one event, so requests are identified with events. `pc` says
which statement it is at; a step is what happens between two waits for the database.

| action | code |
|---|---|
| `Build` | `AuditEvent(...)`, whose timestamp is a `default_factory` (`models.py:165`) |
| `Checkout` | the session's first statement takes a pooled connection (`session.py:32-39`) |
| `EnsureRow` | `INSERT ... ON CONFLICT DO NOTHING` (`repositories.py:186-190`): it waits for another transaction that is inserting the row |
| `LockRow` | `SELECT ... FOR UPDATE` (191-195), then link and hash in memory (201-202) |
| `Commit`, `CommitReplyLost` | flush of the event and the new head, `COMMIT` (204-207) |
| `Fail` | any exception, pool timeout or dead worker: rollback |

`rowHolder` is the transaction holding the row, which the inserter does until it
ends. Isolation is READ COMMITTED, PostgreSQL's default: after the wait the newest
committed head is read. A hash is represented by the event it identifies: it is an
HMAC over all fields, a fresh UUID among them.

### AuditListing

A page is two statements, `CountEvents` and `SelectPage`, each with its own view of
what is committed. Appends may carry earlier timestamps than stored events, as
`AuditChain` allows. The client asks for pages until `total_pages` of the latest
answer. `NoHash` is 0 only because ids are numbers in this instance (they must be
comparable, as UUIDs are).

### DocumentService

A request's handler is the sequence of its waits (`Points`), and requests of
different workers interleave at each. Bytes are named by the document whose
`sha256` they have, so that "the digest matches" is equality. `minio` and
`fallback` are keyed by document, as `storage_key` is. Faults: MinIO or OpenSearch
stops answering and comes back, a worker restarts (which empties its dict and ends
its requests), a database call raises, one indexing request fails (`IndexingFails`), a
commit or a `put` succeeds without its reply arriving. Callers are authorised for their requests.

`Probe` is `get_object_storage`: it chooses MinIO if `ProbeAnswers`, which needs MinIO up *and*
a bucket, because `_exists_sync` takes only a missing object for an answer and raises for a
missing bucket (`storage.py:98-107`). So where no bucket exists every upload goes to the memory
of its worker and every download looks there (404 where it is not), and `_ensure_bucket_sync`, the
only code that makes a bucket, is reached only where there is one: `CheckBucket` has no other
branch. A bucket is there from the start (`BucketAtStart`) or made by an operator
(`CreateBucket`, external).

### RateLimiter

A request passes the checks `ip`, `user`, `tenant`; each is `Incr`, then `Expire` if
the counter was new, or `Refuse` if it is exceeded. `Tick` passes time and lets Redis
remove what expires. `socket_timeout=1` bounds a round trip, so a round trip that
follows directly on another sees at most one tick: `waited`. Without this bound a
slow client could stretch a window arbitrarily. In each round trip a reply may be missing
(`ReplyMissing`), Redis having executed the command or not: as a `RedisError` it lets the request
past the check it is at, and from the user check past the tenant's too, since the two share one
`try`; if the worker is `Killed` the request is gone. The client library is taken to report a
failure at once, without repeating the command. `passed` and `charged` are history
variables: nothing reads them but the properties.

### JwksCache

`GetJwks` is `_get_jwks` up to its `await`: the clock and the cache it read are kept
in the request (`now`, `cached`), because the code uses them after the `await`.
`ProviderResponds` and `Install` are the two ends of the response's way back;
several requests may be in between. `Publish` and `Retire` rotate the keys. Other
errors of a fetch than those `httpx` raises are left out.

### FrontendSession

Tokens are named by their Keycloak session and are `fresh` until `isTokenExpired` says
otherwise; the verifier and the state of a login attempt are its number. `calls` holds what
is in flight: the guard's check, the callback's exchange, requests of the page, and
*strays*, refreshes whose page is gone.

| action | code |
|---|---|
| `CheckSession`, `GuardRedirects`, `RootRedirects`, `LoginRedirects` | `useAuth` on mount and the effects of `AppShell`, `app/page.tsx` and the login page that follow from it |
| `Login`, `CompleteLogin`, `LoginCompleted`, `LoginFailed`, `ExchangeThrows` | `login` and `completeLogin` of `auth.ts`, the second cut at its `fetch`; `ExchangeThrows` is its `response.json()`, outside the `try` and caught by nobody (`auth.ts:177`, `callback/page.tsx:29`) |
| `Request`, `Resume`, `ApiAnswers` | `request` of `api.ts` with `getValidAccessToken` |
| `Send`, `Refreshed`, `RefreshRefused`, `RefreshLost` | `refreshTokens`, cut at its `fetch`: it reads the refresh token before and replaces whatever is stored after; any HTTP error counts as a refusal (`auth.ts:214`), an answer that breaks off as lost |
| `Logout`, `BackToSignIn` | the user menu, the link of the callback's error |
| `Load`, `Route`, `Unload` | the browser: a document load ends all calls, the router ends none; `location.href` takes effect a while after it is assigned |
| `SignIn`, `SignInRefused`, `SignedOut`, `EndSession`, `TokenEndpoint` | Keycloak, external: it answers for living sessions, exchanges a code once, and lets a refresh token be used again (its default); or it, or a proxy before it, answers with an HTTP error, having acted or not |

A path is a page the visitor asks for. The callback page is left only by its own effects,
its link, a reload or the address bar.

### UploadFlow, DocumentPages, ConsoleDocuments

A flow is one call of `runUpload`: it awaits `ingest`, `content`, `process` in turn. The
server's step and the arrival of its answer are separate, so a call may fail after the
server has acted. `mounted` says whether the form that started the flow is still shown; a
flow whose form is gone still fills the cache. `PickFile` is possible at any time, as
the drop zone is never disabled. The checkbox is read when the flow starts: the code's
closure does the same.

A list's load is a call of `useSearch`, `useDocumentsList` or `useAudit`. Its rows are any
of the documents there are, and its answer needs no step of its own, since documents
only become more. `Detail` reads the cache once, on mount. The analysis page reads and
processes in the same way as the document page and is the same page here. Calls of the
audit log are forgotten once their page is gone, as their answer touches nothing else; the
dashboard's own calls of the audit log and of `/ready` are left out for the same reason.
`full` is a `sessionStorage` that takes nothing, from the start or never.

### SetupWizard

`state` holds which text inputs are filled, the provider and the notification switch: that
is all the endpoint looks at. `HandleFinish` is `handleFinish` up to its `fetch`, `Answered`
and `Failed` the rest of it, for the wizard that sent it or after that one has gone
(`mounted`). `timer` is the timer that `redirectTimeoutRef` holds, `strays` those that no
ref holds any more: the code has both, since a call that outlives its page starts a timer
after the cleanup has run, and a second submission overwrites the ref. `Warnings` and
`Verdict` are `submit_setup_configuration` (`main.py:338-349`).

## 3. The runs

Bounds are in the `.cfg` files.

| run | shows | bounds, and why they suffice |
|---|---|---|
| `audit_chain` | `NoFork`, `HeadIsTip`, `LinearChain`, `AckedIsStored`, `RowVisible`; that the append implements `AuditLedger`; that every append ends | four requests, three of one tenant: a row's holder, the one waiting, and one that comes when the first is gone; the fourth is another tenant's. Three connections: the pool can be full |
| `documents` | `DeliveredIsIntact`, `AnsweredIsAudited`, `AnsweredIsStored`, `AuditTellsTruth`, `ChangesAreAudited`, `SearchShowsOnlyDocuments`, `UploadsStayAvailable`, and, unless OpenSearch has failed, `SearchFindsIngested` | three requests with any of the eight operations: ingest, upload, download is the longest dependency; two documents, so that bytes can be wrong and an index incomplete; two workers; with and without a bucket at the start; one fault |
| `document_outage` (violated) | content uploaded during a MinIO outage is not found afterwards | one document, a bucket, one fault |
| `document_no_bucket` (violated) | where no bucket exists an upload is answered from one worker's memory and makes none | one document, no bucket, no fault |
| `rate_limiter` | `WindowBound`, `UserShareBounded`, `NoImmortalCounter` | three clients of one user, so that one can be on its way to the tenant check while two windows of the user pass; two requests per window of the user and five of the tenant, so that three windows of the user would show in one of the tenant; a count of eight; a window of three ticks; one Redis error or killed worker. Other users only add to the tenant's counter; the theorem has any number of them |
| `limiter_fault` (violated) | one error or killed worker between `INCR` and `EXPIRE` makes a counter live for ever | one failure |
| `jwks_cache` | `RetiredKeyDies`, `PublishedKeyAccepted`, `WarmCacheNeverFails`, `EveryLookupEnds` | two lookups at once, two keys, one failed fetch, a TTL of one tick and time for it to run out; a tick is as long as the TTL, and a fetch (5 s) spans no more than one of 300 s |
| `audit_listing` | `WalkIsComplete`, `WalkEnds` | four events, two timestamps, pages of two: equal timestamps across a page boundary |
| `frontend_session` | `SessionKept`, `LandsOnLatest`, `CheckEnds` | two calls besides the guard's, so that three refreshes race; two pages, so that a wrong one can be reached; two attempts, the second after the first is given up, fails or is gone back to; two sessions; two loads by the visitor; one fault: a lost answer, an HTTP error or one that cannot be read |
| `session_landing` (violated) | after a failed sign-in the next one ends on the dashboard | the same |
| `console_documents` | `BannerIsTrue`, `GapNoteIsTrue`, `WorkEnds` | two flows: one left running by its form and one started after; two loads, so that answers change order; two documents, so that a record can be the wrong one; two moves: away and back |
| `setup_wizard` | `ResultIsLatest`, `FlagMeansComplete` | two visits and two submissions, so that an answer can be late for either; three edits: switch the provider or the notifications, then fill or empty both inputs that come with it; six of eleven inputs, one for every kind of warning but Entra's, which stays empty, and one the endpoint ignores |

Some properties deserve a word. `UploadsStayAvailable` is about what MinIO took: uploaded content
is reported missing only if the memory of a worker served this download or the upload it relied
on. `document_outage` and `document_no_bucket` show the two ways there.
`WindowBound` counts every request let past a check, those an error lets past included: a counter
passes its limit and at most one request more per failure, so failing open never loses count.
`UserShareBounded` says that while Redis answers and no worker is killed one
user adds less than three times his own limit to one tenant counter. The windows of the two
counters start at different times and each a little late, so two of the user's
windows can fall into one of the tenant's, and besides them up to `Limit - 1` requests that had passed
the user check in a window before and were still on their way to the tenant check: the bound is
`3 * Limit - 1` and it is reached. With 300 and 1000 requests a minute (`config.py:39-40`) one
user alone therefore cannot use up a tenant's limit.
`RetiredKeyDies` says that a key dies within the TTL of its withdrawal although
responses may be installed in any order: it holds because an entry is stamped with
the time its request *began*, and fails if it is stamped on arrival.
`SessionKept` says that only signing out, or an HTTP error answering a refresh of that session,
takes a living session's tokens from a tab: no lost answer, no race, no answer meant for another
session. Nothing in `refreshTokens` looks at what is stored when an answer arrives, and its refusal clears
whatever is there; that is safe because a tab changes its session only on the callback page,
which a full load separates from every earlier call.
`CheckEnds` says that both waits of a visitor end, "Checking your session" always and "Completing
sign-in" unless the exchange's answer cannot be read (`SignInEnds` below is without the exception).
`LandsOnLatest` is what holds of "land back here after signing in": never the page of an
attempt that was given up, but after a failed one the dashboard (`session_landing`).
`GapNoteIsTrue` excepts what only `useDocumentsList` has returned, because that list is not cached
(`ConsoleListed` below). `FlagMeansComplete` compares two copies of one rule: what the wizard marks
`required` for the chosen provider and the notifications, and what the endpoint warns of.

Deadlock is checked in every run of the backend. A state in which every request has been
answered is not a deadlock (`Quiescent`). The runs of the console do not check it: a
visitor whose bounds are used up does nothing more. That nothing waits for ever is what
`CheckEnds` and `WorkEnds` say.

**Fairness.** `AuditChain.FairSpec` assumes weak fairness of each request's next
statement: a worker runs its ready tasks, and PostgreSQL runs a statement that waits for
no lock. That is enough for `EveryAppendEnds` because a transaction holds one row
lock only and takes it last. The model takes no timeout for granted: `Fail` is not
fair. `JwksCache.FairSpec`: a fetch is answered or fails within its timeout, and ready tasks run.
`RateLimiter.FairSpec`: time passes and round trips complete. `AuditListing.FairSpec`:
the client asks for its next page; appends need not stop, there are finitely many events.
`FrontendSession`: React runs the effects of what is mounted, the browser unloads a page it
has been told to leave, and each call ends, with an answer or an error; the visitor,
Keycloak's forms and expiry are not fair. `ConsoleDocuments`: each flow, load and processing
call takes its next step, which its failure always is, as `apiTimeoutMs` or the browser ends a
call that gets no answer; the server's steps are not fair. `SetupWizard` has safety
properties only and no fairness.

**What the violated runs mean.** Each checks one statement of the repository (a
comment, a docstring, a test) and is quoted under `findings` in `PROJECT.json`.

More statements that the code does not keep are written down as properties with a `.cfg` of
their own, to be repeated by hand with `tlc -config <cfg> <MC module>`; each ends in a
counterexample:

| cfg | property | what happens |
|---|---|---|
| `AuditChainPool` | `TenantsDoNotBlock` (`repositories.py:173`) | appends of one tenant hold every pooled connection while an append of another waits for one |
| `DocumentSearchOutage` | `IngestedIsFound` (`FINAL_TEST_RESULTS.md:79`) | a document ingested while OpenSearch is down, or whose one indexing request fails, is never indexed |
| `JwksColdRace` | `StaleKeysAreServed` (`security.py:118`) | a failed fetch is answered 503 although another request has filled the cache meanwhile |
| `AuditListingOverlap` | `NoDuplicates` (`tests/test_audit_pagination.py:146`) | an append with an earlier timestamp shifts the pages, so an event comes twice |
| `FrontendNullToken` | `NullMeansSignedOut` (`auth.ts:247`) | a lost refresh makes a call go without a token although the visitor is signed in |
| `FrontendLogout` | `LogoutSticks` (nobody promises it) | a refresh in flight at "Sign out" stores its tokens before the page unloads |
| `FrontendStranded` | `SignInEnds` (the result `completeLogin` declares, `auth.ts:142`) | an answer of the exchange that cannot be read leaves "Completing sign-in" on the page for ever |
| `ConsoleListed` | `ListedIsCached` (`lib/documentCache.ts:5-8`) | a document listed on the documents page and opened from there is called unknown to this session: `useDocumentsList` never calls `cacheSearchHits` |
| `SetupWizardFilled` | `FlagMeansFilled` (the inputs marked `required`) | the endpoint takes empty strings for the database, storage, search and cache |

Other disagreements and oddities seen while modelling, without a run of their own:

- `assign_case` appends no audit event (`main.py:481`; `PRIVACY_POLICY.md:26` says every
  action is recorded); an ingest whose audit append fails leaves the document (`main.py:303`).
- MinIO is probed before the body is received (`storage.py:154`), so an outage in between
  fails the upload and the fallback is not used.
- `list_for_tenant` sorts by a timestamp taken before the chain lock, so its order is not the
  order of the chain that it is kept to verify (`repositories.py:228-232`).
- The timer of `request` (`api.ts:98`) starts after the token refresh and is cleared before the
  body is read: neither is bounded by `apiTimeoutMs`.
- Any HTTP error answering a refresh, a 5xx or 429 of a moment included, clears the tokens of a
  session that lives (`auth.ts:214`).
- When a refused refresh of an API call clears the tokens, the guard of the page shown does not
  notice (`useAuth.ts:29` runs on mount only).
- Picking another file during an upload keeps `busy` but drops the banner of the first; a retry
  after a failure ingests a second document (`DocumentUpload.tsx:59`, `:91`).
- Answers of overlapping searches may leave an older page on show (`useSearch.ts:15`); "Try
  again" and the pager use the page last answered with the filters as they are now
  (`search/page.tsx:49`).
- A question typed while another is being answered is erased (`ai-research/page.tsx:21`).
- A timer that nothing clears takes the visitor out of a later visit of the wizard (`setup/page.tsx:277`).

## 4. What is proved

For any number of requests, tenants, connections and any clock bound
(`AuditChainProofs`), from `TenantAssumption`, `BoundAssumption` and
`NullAssumption` (the markers for "none" are no events):

| theorem | states |
|---|---|
| `TypeCorrect` | `Spec => []TypeOK` |
| `ChainNeverForks` | `Spec => []NoFork` |
| `HeadIsAlwaysTip` | `Spec => []HeadIsTip` |
| `ChainsAreLinear` | `Spec => []LinearChain` |
| `AckedEventsAreStored` | `Spec => []AckedIsStored` |
| `LockedRowExists` | `Spec => []RowVisible` |
| `ChainImplementsLedger` | `Spec => ImplementsLedger`: every step is one `LedgerAppend` or a stutter |

The argument is the inductive invariant `ChainInv`. `NoFork` alone is not inductive: a
request that has read a head may commit later. What carries it is
`LockedHeadIsCurrent` (the head a locked request linked to is still the committed
head, since it holds the row), with `HolderIsOpen` (a row is held by at most one
transaction, of its own tenant, past its `INSERT`), `StoredHaveEnded` (stored events
belong to requests that are over, so the event being stored is new) and
`LinksAreStored` (nothing stored links to it yet). `StoreKeepsChainInv` is the only
step where anything is at stake, shared by `Commit` and `CommitReplyLost`. The refinement uses
the same invariant: since the linked head is current, storing is one atomic append.

`LinearChain` speaks of a walk of any length. The invariant that carries it, `ListInv`, says
that there is a list of the hashes which the walk meets: it begins with the head and ends with
NULL, each event's hash is followed by what the event links to, and every event of the tenant is in
it. A commit puts its event at the front of that list (`StoreKeepsListInv`), because the head it
has linked to is current; so nothing is computed step by step. That the walk, a recursive function,
meets just this list (`WalksAlongList`) is shown at the least position at which the two would
differ, which exists by the well-foundedness of `<` (`LeastNat`).

For any number of events, timestamps and tenants and any page size (`AuditListingProofs`), from
`ListingAssumption` (ids are numbers, there are finitely many events):

| theorem | states |
|---|---|
| `ListingTyped` | `Spec => []TypeOK` |
| `WalksAreComplete` | `Spec => []WalkIsComplete` |

`WalkIsComplete` is about the end of a walk; its invariant `WalkInv` about every page: an event that
has not been delivered yet is not before the page asked for next. The lemma `AppendsPushBack`
says why appends do not spoil that (a row's position, the number of rows before it, only grows),
`PagesCoverTotal` why the last page is the last: the division rounds up.

For any number of requests, documents and workers and any number of faults of every kind
(`DocumentServiceProofs`), from `ServiceBounds`, `BucketAssumption` and `AbsentAssumption`:

| theorem | states |
|---|---|
| `ServiceTyped` | `Spec => []TypeOK` |
| `DownloadsAreIntact` | `Spec => []DeliveredIsIntact` |
| `AnswersAreAudited` | `Spec => []AnsweredIsAudited` |
| `AnswersAreStored` | `Spec => []AnsweredIsStored` |
| `AuditIsTrue` | `Spec => []AuditTellsTruth` |
| `ChangesAreRecorded` | `Spec => []ChangesAreAudited` |
| `HitsAreDocuments` | `Spec => []SearchShowsOnlyDocuments` |
| `IngestedAreFound` | `Spec => []SearchFindsIngested` |
| `UploadsAreFound` | `Spec => []UploadsStayAvailable` |

All nine follow from one invariant, `ServiceInv` (the last one with `UploadInv`): what a handler knows at each of its waits
(`HandlerInv`: it is on the path of its operation, has a committed record past its first database
call, holds bytes with the right digest past their check, has left them in the backend it resolved,
has its audit event before it answers) and what the stores hold (`StoresInv`: a key has its own bytes or
none, what is indexed is committed). A handler's knowledge must survive the steps of all others. That is
the lemma `OthersKeep`, which needs of a step only that what is committed stays, that a key which has
its bytes keeps them unless a worker restarts, and that faults add up (`Grows`).
`UploadInv` follows a download whose content was uploaded before: until it ends MinIO holds the
content, unless its upload was taken by the memory of a worker.

For any clients, users, addresses, limits, windows and number of failures of either kind
(`RateLimiterProofs`), from `LimitAssumption` (limits are positive), `WindowAssumption` (a
window is longer than two ticks: the windows are 60 seconds, the socket timeout is one),
`LimiterBounds` (finitely many clients) and `KeysApart` (an address, a user and the tenant have
different keys, as their prefixes make them):

| theorem | states |
|---|---|
| `LimiterTyped` | `Spec => []TypeOK` |
| `LimitsHold` | `Spec => []WindowBound` |
| `CountersGetTheirExpiry` | `Spec => []NoImmortalCounter` |
| `SharesAreBounded` | `Spec => []UserShareBounded` |

`WindowBound` is inductive with "a counter and the failures so far have counted every request that
passed"; while there is no failure, `NoImmortalCounter` with "the request that made a counter stays at its `EXPIRE`". That no
counter passes the bound of the instance needs `RoomIsLeft`: a counter and the clients that are
still to increment it stay within the bound together.

`SharesAreBounded` is the longest argument here, since it is about two clocks and about requests
on their way between two counters. `ShareIsLeft` is a budget: what is charged to the tenant's
window for a user, what is pending (past his check and not charged yet) and what he may pass in a
further window that still begins in the tenant's, stay together below what has passed in his
present window plus two limits. All this (`ShareInv`) holds until the first failure. A request only moves within the budget (`WhatRequestsAdd`). A new user window needs time, and the tenant's runs out at least as fast
(`WindowsRunDown`). The budget starts within bounds because at most `Limit - 1` requests of
earlier windows are ever pending (`PendingIsBounded`): the request that opened a window is through two
ticks later, as no round trip sees more than one.

For any number of lookups, keys and failed fetches and any TTL (`JwksCacheProofs`), from `CacheBounds` and
`NoneAssumption`:

| theorem | states |
|---|---|
| `CacheTypes` | `Spec => []TypeOK` |
| `RetiredKeysDie` | `Spec => []RetiredKeyDies` |
| `PublishedKeysAccepted` | `Spec => []PublishedKeyAccepted` |
| `WarmCacheServes` | `Spec => []WarmCacheNeverFails` |

`CacheInv` says of every copy of the key set, in the cache, read before an `await` or on its way back, that it
was served at the time of its stamp (`ServedAt`): none of its keys had been withdrawn then. That is
true of whatever is installed last, so the order of installations does not matter.

For any number of calls in flight, any pages, sessions, attempts, loads and faults
(`FrontendSessionProofs`), from `SlotsDiffer`, `PathsAssumption`, `SessionBounds`,
`NoneIsNoNumber` and `NoneIsNoRecord`:

| theorem | states |
|---|---|
| `SessionTypeCorrect` | `Spec => []TypeOK` |
| `TokensAreKept` | `Spec => SessionKept` |
| `SignInLands` | `Spec => LandsOnLatest` |

`SessionKept` needs the invariant `SessionInv`: all refreshes in flight are of one session, that of
the tab (`OneSession`); a code is exchanged only on the callback page, where no refresh runs
(`ExchangeIsOurs`); one session at most lives at Keycloak, that of the browser's cookie
(`OneLive`); and a refresh that is refused, other than by an HTTP error, is of a session that is over
(`RefusedIsDead`). Even
typing needs `ExchangeIsOurs`, since an exchange marks its code as spent. `LandsOnLatest` adds
`LandingInv`, which follows the path from the guard through the login page and storage to the
callback.

For any submissions, visits, edits and editable inputs (`SetupWizardProofs`), from
`WizardAssumption`:

| theorem | states |
|---|---|
| `WizardTypeCorrect` | `Spec => []TypeOK` |
| `VerdictIsCurrent` | `Spec => []ResultIsLatest` |
| `FlagByAcceptance` | `Spec => FlagMeansComplete` |

`ResultIsLatest` is inductive with `MountedIsLatest` (a call of this mount carries the
configuration sent last) and `OneMounted` (there is at most one). `FlagMeansComplete` rests on the
lemma `AcceptedIsComplete`: a configuration without warnings has every input its provider and its
notifications ask for.

For any files, flows, loads, documents and moves (`ConsoleDocumentsProofs`), from `ConsoleAssumption`
("none" is neither a file nor a document):

| theorem | states |
|---|---|
| `ConsoleTyped` | `Spec => []TypeOK` |
| `BannerTellsTruth` | `Spec => []BannerIsTrue` |
| `GapNoteTellsTruth` | `Spec => GapNoteIsTrue` |

`BannerIsTrue` needs `BannerInv`: the form belongs to one flow at most (`OneFlowShown`), shows that flow's own
document while its content is under way, or none once another file is picked
(`FlowShowsItsDocument`), and an upload that was answered has stored what was announced.
`GapNoteIsTrue` rests on `ReturnedIsCached`: what an upload or a search has returned is in the cache. The
steps of the two components are proved apart and combined by `Steps`.

So every safety property and every action property of a passing run is proved, and so is
the refinement of `AuditLedger`. Only model-checked are the liveness properties (`EveryAppendEnds`,
`EveryLookupEnds`, `WalkEnds`, `CheckEnds`, `WorkEnds`), as fairness is out of the prover's reach.
The bounds that the assumptions name (finitely many clients and events) exclude no state the program can be in.

## 5. What is not modelled, and the plan

Order of the modules still to be written:

1. `RequestPool`: the waits of the handlers for pooled connections
   (`main.py:567` holds one while a client sends its body).
2. `UserUpsert`: select, insert on the unique subject, the losing request's error.
3. `AuditChainFallback`: the append without a lock that SQLite runs, and the
   assumption on timestamps under which it makes a chain.
4. `EnvironmentalEngine` and `AccessPolicy`: pure operators against reference
   definitions, over all bounded inputs.

Not modelled in the console: which page of results a list shows, and so which of two answers
is the later; downloads; the forms of environmental reviews, cases, system health and AI research,
each of which sends one request at a time and shows its answer. `UploadFlow` takes the server's
ingest and upload as one step each, with failures before and after; `DocumentService` has
their steps.

Theorems to come: those of the modules above, each with its invariant. For liveness the
safety half of the argument can still be stated and proved: that a request which waits for a row
waits for one that waits for none, and that every step of a lookup or a flow lowers a measure.

Left out for good: tracing, metrics, headers and health probes (no state a property is
about); migrations, Docker, Helm, Terraform and nginx (declarative; their facts,
such as worker counts and unique keys, are used by the models); pages and tables that
only render; documents under the repository's root.
