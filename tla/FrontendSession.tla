--------------------------- MODULE FrontendSession ---------------------------
(***************************************************************************)
(* The session of one browser tab (frontend/lib/auth.ts, the guard of      *)
(* AppShell.tsx, the login, callback and root pages) against Keycloak.     *)
(*                                                                         *)
(* The tab is one thread; its calls interleave at every await.  A link or  *)
(* location.href loads a document and ends them, but only once it has      *)
(* unloaded the old one; the router changes the page without ending them.  *)
(* Keycloak lets a refresh token be used again, its default.               *)
(* A verifier and its state are one value, the number of the attempt, and  *)
(* tokens are their session's number.                                      *)
(***************************************************************************)
EXTENDS Naturals, FiniteSets

CONSTANTS
    Requests,       \* API calls of the page that may be in flight at once
    GuardSlot,      \* the call of useAuth, or of the callback page
    Paths, Home,    \* pages a visitor opens; "/dashboard"
    MaxSessions, MaxAttempts, MaxLoads, MaxFaults,  \* bounds
    None

ASSUME SlotsDiffer == GuardSlot \notin Requests
ASSUME PathsAssumption == None \notin Paths \cup {Home}
ASSUME SessionBounds == {MaxSessions, MaxAttempts, MaxLoads, MaxFaults} \subseteq Nat
ASSUME NoneIsNoNumber == None \notin Nat

Sessions == 1..MaxSessions
Attempts == 1..MaxAttempts
StoredTokens == [session : Sessions, fresh : BOOLEAN]
Codes == [attempt : Attempts, session : Sessions, spent : BOOLEAN]
Destinations == [to : {"app", "signin", "signout"}, path : Paths \cup {Home, None}]
ASSUME NoneIsNoRecord == None \notin StoredTokens \cup Codes \cup Destinations

VARIABLES
    stored,         \* sessionStorage: None or [session, fresh]
    pkce,           \* sessionStorage: verifier and state
    landing,        \* sessionStorage: the post-login redirect
    page, path,     \* page shown; its path, on /login its ?redirect=
    guard,          \* useAuth's state, or the callback page's
    calls,
    leaving,        \* location.href assigned, page not yet unloaded
    live, sso,      \* Keycloak: sessions, the one of this browser's cookie
    code,           \* the code and state of the callback's URL
    opened, attempt, loads, faults,    \* counters
    wanted          \* history: the path whose guard sent the visitor away

storage == <<stored, pkce, landing>>
keycloak == <<live, sso, code, opened>>
tab == <<page, path, guard, calls, leaving>>
vars == <<storage, keycloak, tab, attempt, loads, faults, wanted>>

Slots == Requests \cup {GuardSlot}
Places == Paths \cup {Home}

\* A call in the token endpoint, its answer on the way (the tokens, a refusal, or an
\* HTTP error of Keycloak or a proxy that says nothing of the session), or in the API.
AtTokens == {"sent", "granted", "refused", "erred"}
Call == [role    : {"none", "guard", "exchange", "request", "stray"},
         at      : {"idle", "api"} \cup AtTokens,
         session : Sessions \cup {None}]

Idle == [role |-> "none", at |-> "idle", session |-> None]
Send(role) == [role |-> role, at |-> "sent", session |-> stored.session]

Init ==
    /\ stored = None /\ pkce = None /\ landing = None
    /\ page = "root" /\ path = None /\ guard = "mounted" /\ leaving = None
    /\ calls = [c \in Slots |-> Idle]
    /\ live = {} /\ sso = None /\ code = None /\ opened = 0
    /\ attempt = 0 /\ loads = 0 /\ faults = 0 /\ wanted = None

-----------------------------------------------------------------------------
(* Pages *)

\* A document is loaded: nothing of the old one runs on.
Load(pg, p) ==
    /\ page' = pg /\ path' = p /\ guard' = "mounted" /\ leaving' = None
    /\ calls' = [c \in Slots |-> Idle]

\* The router swaps the page: its calls run on, their results are dropped.
Route(pg, p) ==
    /\ page' = pg /\ path' = p /\ guard' = "mounted" /\ leaving' = None
    /\ calls' = [c \in Slots |-> IF calls[c].at \in AtTokens
                                    /\ calls[c].role # "exchange"
                                 THEN [calls[c] EXCEPT !.role = "stray"] ELSE Idle]

Visit == loads < MaxLoads /\ loads' = loads + 1

\* A bookmark or the address bar.
Open(pg, p) ==
    /\ Visit
    /\ Load(pg, p) /\ wanted' = None
    /\ UNCHANGED <<storage, keycloak, attempt, faults>>

Reload ==
    /\ Visit /\ leaving = None /\ page \in {"app", "root", "login", "callback"}
    /\ Load(page, path)
    /\ UNCHANGED <<storage, keycloak, attempt, faults, wanted>>

\* A link of the sidebar.
Navigate(p) ==
    /\ Visit /\ leaving = None /\ page = "app" /\ guard = "in"
    /\ Route("app", p) /\ wanted' = None
    /\ UNCHANGED <<storage, keycloak, attempt, faults>>

Unload ==
    /\ leaving # None
    /\ Load(leaving.to, leaving.path)
    /\ wanted' = IF leaving.to = "app" THEN None ELSE wanted
    /\ UNCHANGED <<storage, keycloak, attempt, loads, faults>>

\* useAuth on mount: authenticated, nothing to refresh, or a refresh.
CheckSession ==
    /\ page \in {"app", "root", "login"} /\ guard = "mounted"
    /\ \/ /\ stored # None /\ stored.fresh
          /\ guard' = "in" /\ UNCHANGED calls
       \/ /\ stored = None
          /\ guard' = "out" /\ UNCHANGED calls
       \/ /\ stored # None /\ ~stored.fresh
          /\ calls[GuardSlot].at = "idle"
          /\ calls' = [calls EXCEPT ![GuardSlot] = Send("guard")]
          /\ guard' = "checking"
    /\ UNCHANGED <<storage, keycloak, page, path, leaving, attempt, loads, faults, wanted>>

\* AppShell's effect: to /login, which is told the path.
GuardRedirects ==
    /\ page = "app" /\ guard = "out" /\ leaving = None
    /\ Route("login", path) /\ wanted' = path
    /\ UNCHANGED <<storage, keycloak, attempt, loads, faults>>

RootRedirects ==
    /\ page = "root" /\ guard \in {"in", "out"} /\ leaving = None
    /\ IF guard = "in" THEN Route("app", Home) ELSE Route("login", None)
    /\ UNCHANGED <<storage, keycloak, attempt, loads, faults, wanted>>

OrHome(p) == IF p = None THEN Home ELSE p

LeavingTo == IF leaving = None THEN "nowhere" ELSE leaving.to

M_LoginRedirects_NoDefault ==
    /\ page = "login" /\ guard = "in" /\ leaving = None
    /\ leaving' = [to |-> "app", path |-> path]
    /\ UNCHANGED <<storage, keycloak, page, path, guard, calls, attempt, loads, faults, wanted>>

\* The login page's effect, for a visitor who is signed in after all.
LoginRedirects ==
    /\ page = "login" /\ guard = "in" /\ leaving = None
    /\ leaving' = [to |-> "app", path |-> OrHome(path)]
    /\ UNCHANGED <<storage, keycloak, page, path, guard, calls, attempt, loads, faults, wanted>>

M_Login_KeepsLanding ==
    /\ page = "login" /\ guard \in {"in", "out"} /\ LeavingTo \in {"nowhere", "app"}
    /\ attempt < MaxAttempts /\ attempt' = attempt + 1
    /\ pkce' = attempt + 1
    /\ landing' = IF landing # None THEN landing ELSE OrHome(path)
    /\ leaving' = [to |-> "signin", path |-> path]
    /\ UNCHANGED <<stored, keycloak, page, path, guard, calls, loads, faults, wanted>>

\* The button of the login page, disabled once it has started.
Login ==
    /\ page = "login" /\ guard \in {"in", "out"} /\ LeavingTo \in {"nowhere", "app"}
    /\ attempt < MaxAttempts /\ attempt' = attempt + 1
    /\ pkce' = attempt + 1 /\ landing' = OrHome(path)
    /\ leaving' = [to |-> "signin", path |-> path]
    /\ UNCHANGED <<stored, keycloak, page, path, guard, calls, loads, faults, wanted>>

\* The user menu is in the shell of every page; its own useAuth, on mount,
\* refreshes what has expired since as a request does.
MenuShown == page = "app" /\ guard = "in"

\* "Sign out" of the user menu.
Logout ==
    /\ MenuShown /\ leaving = None
    /\ stored' = None
    /\ leaving' = [to |-> "signout", path |-> None]
    /\ UNCHANGED <<pkce, landing, keycloak, page, path, guard, calls, attempt, loads, faults, wanted>>

-----------------------------------------------------------------------------
(* Keycloak's pages *)

\* The form of attempt a is submitted, perhaps one the visitor went back to.
\* A browser with a live session is not asked again.
SignIn(a) ==
    /\ page = "signin" /\ a \in 1..attempt
    /\ \/ /\ sso \in live
          /\ code' = [attempt |-> a, session |-> sso, spent |-> FALSE]
          /\ UNCHANGED <<live, sso, opened>>
       \/ /\ sso \notin live /\ opened < MaxSessions
          /\ opened' = opened + 1 /\ sso' = opened + 1 /\ live' = live \cup {opened + 1}
          /\ code' = [attempt |-> a, session |-> opened + 1, spent |-> FALSE]
    /\ Load("callback", None)
    /\ UNCHANGED <<storage, attempt, loads, faults, wanted>>

\* Keycloak returns with ?error=.
SignInRefused ==
    /\ page = "signin"
    /\ code' = None /\ Load("callback", None)
    /\ UNCHANGED <<storage, live, sso, opened, attempt, loads, faults, wanted>>

GoBack ==
    /\ page = "signin" /\ Visit
    /\ Load("login", path)
    /\ UNCHANGED <<storage, keycloak, attempt, faults, wanted>>

SignedOut ==
    /\ page = "signout"
    /\ live' = live \ {sso} /\ sso' = None
    /\ Load("login", None)
    /\ UNCHANGED <<storage, code, opened, attempt, loads, faults, wanted>>

\* A session ends at Keycloak: idle for too long, or ended by an administrator.
EndSession ==
    /\ \E s \in live : live' = live \ {s}
    /\ UNCHANGED <<storage, sso, code, opened, tab, attempt, loads, faults, wanted>>

-----------------------------------------------------------------------------
(* Calls *)

\* isTokenExpired becomes true, 30 s before the access token ends.
Expire ==
    /\ stored # None /\ stored.fresh
    /\ stored' = [stored EXCEPT !.fresh = FALSE]
    /\ UNCHANGED <<pkce, landing, keycloak, tab, attempt, loads, faults, wanted>>

\* api.ts request: the page's effects call it on mount, whatever the guard says.
Request(c) ==
    /\ page = "app" /\ calls[c].at = "idle"
    /\ calls' = [calls EXCEPT ![c] =
          IF stored # None /\ ~stored.fresh THEN Send("request")
          ELSE [role |-> "request", at |-> "api",
                session |-> IF stored = None THEN None ELSE stored.session]]
    /\ UNCHANGED <<storage, keycloak, page, path, guard, leaving, attempt, loads, faults, wanted>>

\* The callback must be of the latest attempt.
CallbackIsOurs == code # None /\ pkce # None /\ pkce = code.attempt

\* completeLogin up to its fetch.
CompleteLogin ==
    /\ page = "callback" /\ guard = "mounted"
    /\ IF CallbackIsOurs
       THEN /\ guard' = "checking"
            /\ calls' = [calls EXCEPT ![GuardSlot] =
                  [role |-> "exchange", at |-> "sent", session |-> code.session]]
       ELSE guard' = "failed" /\ UNCHANGED calls
    /\ UNCHANGED <<storage, keycloak, page, path, leaving, attempt, loads, faults, wanted>>

Fault == faults < MaxFaults /\ faults' = faults + 1

\* Keycloak answers: a live session's token is good, a code only once.  Or it, or a
\* proxy before it, answers with an HTTP error, having acted or not.
TokenEndpoint(c) ==
    /\ calls[c].at = "sent"
    /\ LET once == calls[c].role = "exchange"
           good == calls[c].session \in live /\ (once => ~code.spent)
           spent == IF once THEN [code EXCEPT !.spent = TRUE] ELSE code
       IN \/ /\ calls' = [calls EXCEPT ![c].at = IF good THEN "granted" ELSE "refused"]
             /\ code' = spent /\ UNCHANGED faults
          \/ /\ calls' = [calls EXCEPT ![c].at = "erred"]
             /\ code' \in {code, spent} /\ Fault
    /\ UNCHANGED <<storage, live, sso, opened, page, path, guard, leaving, attempt, loads, wanted>>

\* What goes on once refreshTokens has returned: a request calls the API.
Resume(c, ok) ==
    /\ calls' = [calls EXCEPT ![c] =
          IF calls[c].role # "request" THEN Idle
          ELSE [calls[c] EXCEPT !.at = "api", !.session = IF ok THEN @ ELSE None]]
    /\ guard' = IF calls[c].role # "guard" THEN guard ELSE IF ok THEN "in" ELSE "out"

\* refreshTokens: the answer's tokens replace what is stored by now.
Refreshed(c) ==
    /\ calls[c].at = "granted" /\ calls[c].role # "exchange"
    /\ stored' = [session |-> calls[c].session, fresh |-> TRUE]
    /\ Resume(c, TRUE)
    /\ UNCHANGED <<pkce, landing, keycloak, page, path, leaving, attempt, loads, faults, wanted>>

\* response.ok is false: every HTTP error counts as a refusal.
RefreshRefused(c) ==
    /\ calls[c].at \in {"refused", "erred"} /\ calls[c].role # "exchange"
    /\ stored' = None
    /\ Resume(c, FALSE)
    /\ UNCHANGED <<pkce, landing, keycloak, page, path, leaving, attempt, loads, faults, wanted>>

M_RefreshLost_ClearsTokens(c) ==
    /\ Fault
    /\ calls[c].at \in AtTokens /\ calls[c].role # "exchange"
    /\ stored' = None
    /\ Resume(c, FALSE)
    /\ UNCHANGED <<pkce, landing, keycloak, page, path, leaving, attempt, loads, wanted>>

M_RefreshLost_Throws(c) ==
    /\ Fault
    /\ calls[c].at \in AtTokens /\ calls[c].role # "exchange"
    /\ calls' = [calls EXCEPT ![c] = Idle]
    /\ UNCHANGED <<storage, keycloak, page, path, guard, leaving, attempt, loads, wanted>>

\* The catch of refreshTokens: the network failed before or after the answer.
RefreshLost(c) ==
    /\ Fault
    /\ calls[c].at \in AtTokens /\ calls[c].role # "exchange"
    /\ Resume(c, FALSE)
    /\ UNCHANGED <<storage, keycloak, page, path, leaving, attempt, loads, wanted>>

\* completeLogin stores the tokens; the callback page goes where it should.
LoginCompleted(c) ==
    /\ calls[c].at = "granted" /\ calls[c].role = "exchange"
    /\ stored' = [session |-> calls[c].session, fresh |-> TRUE]
    /\ pkce' = None /\ landing' = None
    /\ Route("app", OrHome(landing)) /\ wanted' = None
    /\ UNCHANGED <<keycloak, attempt, loads, faults>>

\* completeLogin returns an error: for an answer that is not ok, or for none.
LoginFailed(c) ==
    /\ calls[c].role = "exchange"
    /\ \/ calls[c].at \in {"refused", "erred"} /\ UNCHANGED faults
       \/ calls[c].at \in AtTokens /\ Fault
    /\ calls' = [calls EXCEPT ![c] = Idle] /\ guard' = "failed"
    /\ UNCHANGED <<storage, keycloak, page, path, leaving, attempt, loads, wanted>>

\* The tokens' answer breaks off in its body or is no JSON: completeLogin throws, the
\* callback page does not catch it and goes on saying "Completing sign-in".
ExchangeThrows(c) ==
    /\ Fault
    /\ calls[c].at = "granted" /\ calls[c].role = "exchange"
    /\ calls' = [calls EXCEPT ![c] = Idle] /\ guard' = "stranded"
    /\ UNCHANGED <<storage, keycloak, page, path, leaving, attempt, loads, wanted>>

\* The link of the callback page's error.
BackToSignIn ==
    /\ page = "callback" /\ guard = "failed"
    /\ Load("login", None)
    /\ UNCHANGED <<storage, keycloak, attempt, loads, faults, wanted>>

\* The API answers, fails, or apiTimeoutMs aborts the call.
ApiAnswers(c) ==
    /\ calls[c].at = "api"
    /\ calls' = [calls EXCEPT ![c] = Idle]
    /\ UNCHANGED <<storage, keycloak, page, path, guard, leaving, attempt, loads, faults, wanted>>

-----------------------------------------------------------------------------

CallStep(c) ==
    \/ TokenEndpoint(c)
    \/ Refreshed(c) \/ RefreshRefused(c) \/ RefreshLost(c)
    \/ LoginCompleted(c) \/ LoginFailed(c) \/ ExchangeThrows(c)
    \/ ApiAnswers(c)

Effects == CheckSession \/ GuardRedirects \/ RootRedirects \/ LoginRedirects \/ CompleteLogin

Visitor ==
    \/ \E p \in Paths : Open("app", p) \/ Navigate(p)
    \/ Open("root", None) \/ Reload \/ GoBack \/ BackToSignIn
    \/ Login \/ Logout
    \/ \E a \in Attempts : SignIn(a)
    \/ SignInRefused \/ SignedOut

Next ==
    \/ \E c \in Slots : CallStep(c)
    \/ \E c \in Requests : Request(c)
    \/ Effects \/ Unload \/ Visitor
    \/ Expire \/ EndSession

\* The browser runs mounted effects, completes a navigation, and ends each
\* call: with an answer or, as it gives up on a dead connection, an error.
Fairness ==
    /\ WF_vars(Effects) /\ WF_vars(Unload)
    /\ \A c \in Slots : WF_vars(CallStep(c))

Spec == Init /\ [][Next]_vars /\ Fairness

-----------------------------------------------------------------------------
(* Properties *)

\* Every variable keeps its type: a shown page has a path, and a call at the
\* token endpoint or carrying a token names its session.
TypeOK ==
    /\ stored \in StoredTokens \cup {None}
    /\ pkce \in Attempts \cup {None} /\ landing \in Places \cup {None}
    /\ page \in {"app", "root", "login", "callback", "signin", "signout"}
    /\ path \in Places \cup {None} /\ (page = "app" => path # None)
    /\ guard \in {"mounted", "checking", "in", "out", "failed", "stranded"}
    /\ calls \in [Slots -> Call]
    /\ \A c \in Slots : calls[c].at \in AtTokens => calls[c].session # None
    /\ leaving \in Destinations \cup {None}
    /\ leaving # None => (leaving.to = "app" => leaving.path # None)
    /\ live \subseteq Sessions /\ sso \in Sessions \cup {None}
    /\ code \in Codes \cup {None}
    /\ opened \in 0..MaxSessions /\ attempt \in 0..MaxAttempts
    /\ loads \in 0..MaxLoads /\ faults \in 0..MaxFaults
    /\ wanted \in Places \cup {None}

SignsOut == leaving = None /\ leaving' # None /\ leaving'.to = "signout"

\* refreshTokens returns the HTTP error it was answered for the tab's own session.
OwnRefreshErred ==
    \E c \in Slots : /\ calls[c].role # "exchange" /\ calls[c].at = "erred"
                     /\ calls[c].session = stored.session /\ calls'[c].at # "erred"

\* While its session lives at Keycloak a tab loses its tokens, or exchanges
\* them for those of another session, only when the visitor signs out or a
\* refresh of that very session is answered with an HTTP error: no lost
\* answer, no call of an earlier session and no race of refreshes signs
\* anybody out (auth.ts, refreshTokens).
SessionKept ==
    [][ /\ stored # None /\ stored.session \in live
        /\ stored' = None \/ stored'.session # stored.session
        => SignsOut \/ OwnRefreshErred ]_vars

\* Whoever was sent from a page to sign in ends there or, after an attempt
\* that failed, on the dashboard: never where an earlier attempt was to end.
LandsOnLatest ==
    [][ page = "callback" /\ page' = "app" /\ loads' = loads /\ wanted # None
        => path' \in {wanted, Home} ]_vars

\* AppShell.tsx: visitors are sent to /login "with the current path preserved
\* so they land back here after signing in".
LandsWhereAsked ==
    [][ page = "callback" /\ page' = "app" /\ loads' = loads /\ wanted # None
        => path' = wanted ]_vars

\* auth.ts, getValidAccessToken: "Returns null if the user isn't authenticated
\* at all", so a call goes without a token only if its session has ended.
NullMeansSignedOut ==
    [][ \A c \in Requests :
          /\ calls[c].role = "request" /\ calls[c].at \in AtTokens
          /\ calls'[c].at = "api" /\ calls'[c].session = None
          => calls[c].session \notin live ]_vars

\* Tokens appear in a tab that has none only by signing in.
LogoutSticks == [][ stored = None /\ stored' # None => page = "callback" ]_vars

Waiting == guard \in {"mounted", "checking"} /\ page \notin {"signin", "signout"}
Decided == guard \in {"in", "out", "failed"} \/ page \in {"signin", "signout"}

\* "Checking your session" comes to an end whatever is lost or refused, and
\* "Completing sign-in" does unless the exchange's answer cannot be read.
CheckEnds == Waiting ~> Decided \/ guard = "stranded"

\* "Completing sign-in" comes to an end always.
SignInEnds == Waiting ~> Decided
=============================================================================
