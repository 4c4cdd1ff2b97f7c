------------------------- MODULE FrontendSessionProofs -------------------------
(***************************************************************************)
(* Theorems about FrontendSession for any number of calls in flight, any   *)
(* pages, and any number of sessions, attempts, loads and faults.          *)
(***************************************************************************)
EXTENDS FrontendSession, TLAPS

\* The call is a refresh that has not returned.
Refreshing(c) ==
    calls[c].role # "exchange" /\ calls[c].at \in AtTokens

\* The refreshes of a document are those of one session, that of the tab.
OneSession ==
    /\ \A c, d \in Slots : Refreshing(c) /\ Refreshing(d) => calls[c].session = calls[d].session
    /\ stored # None => \A c \in Slots : Refreshing(c) => calls[c].session = stored.session

\* Only the callback page exchanges a code, the one it came with, and no
\* refresh runs beside it.
ExchangeIsOurs ==
    /\ \A c \in Slots : calls[c].role = "exchange" =>
          page = "callback" /\ code # None /\ calls[c].session = code.session
    /\ page = "callback" => leaving = None /\ \A c \in Slots : ~Refreshing(c)

\* Keycloak's cookie names the one session that may live, and so does a code.
OneLive ==
    /\ live \subseteq {sso}
    /\ page = "callback" /\ code # None => code.session = sso

\* A refresh is refused, if the answer is no mere HTTP error, only when its session
\* is over.
RefusedIsDead ==
    \A c \in Slots : Refreshing(c) /\ calls[c].at = "refused" => calls[c].session \notin live

\* SessionKept rests on all of them: what a call stores or clears is of the
\* session the tab holds, and a code is of the only one that lives.
SessionFacts == OneSession /\ ExchangeIsOurs /\ OneLive /\ RefusedIsDead

SessionInv == TypeOK /\ SessionFacts

\* From the guard to the callback, the path asked for is handed on or lost,
\* and the path stored is that of the latest attempt.
LandingInv ==
    wanted # None =>
        /\ page \in {"login", "signin"} => path \in {wanted, None}
        /\ page = "signin" => landing \in {wanted, Home}
        /\ page = "callback" => landing \in {wanted, Home, None} /\ leaving = None
        /\ leaving # None /\ leaving.to = "signin" =>
              page = "login" /\ leaving.path \in {wanted, None} /\ landing \in {wanted, Home}

-----------------------------------------------------------------------------
(* The type invariant *)

USE PathsAssumption, SessionBounds, NoneIsNoNumber
    DEF Slots, Places, Sessions, Attempts, Codes, Destinations, AtTokens

LEMMA IdleIsCall == Idle \in Call
BY DEF Idle, Call

\* A page that is loaded has no calls.
LEMMA LoadFacts ==
    ASSUME NEW pg, NEW p, Load(pg, p)
    PROVE  /\ calls' \in [Slots -> Call] /\ \A c \in Slots : calls'[c] = Idle
           /\ page' = pg /\ path' = p /\ guard' = "mounted" /\ leaving' = None
BY IdleIsCall DEF Load

\* A page that is routed to has the refreshes of the one before, and no exchange.
LEMMA RouteFacts ==
    ASSUME TypeOK, NEW pg, NEW p, Route(pg, p)
    PROVE  /\ calls' \in [Slots -> Call]
           /\ \A c \in Slots :
                 /\ calls'[c].role # "exchange"
                 /\ calls'[c].at # "idle" =>
                       /\ Refreshing(c)
                       /\ calls'[c].at = calls[c].at /\ calls'[c].session = calls[c].session
           /\ page' = pg /\ path' = p /\ guard' = "mounted" /\ leaving' = None
<1>1. \A c \in Slots : [calls[c] EXCEPT !.role = "stray"] \in Call
  BY DEF TypeOK, Call
<1>2. calls' \in [Slots -> Call]
  BY <1>1, IdleIsCall DEF Route
<1>3. ASSUME NEW c \in Slots
      PROVE  /\ calls'[c].role # "exchange"
             /\ calls'[c].at # "idle" =>
                   /\ Refreshing(c)
                   /\ calls'[c].at = calls[c].at /\ calls'[c].session = calls[c].session
  <2>1. calls[c] \in Call
    BY DEF TypeOK
  <2>2. QED
    BY <2>1 DEF Route, Refreshing, Idle, Call
<1>4. QED
  BY <1>2, <1>3 DEF Route

CallsOK ==
    /\ calls \in [Slots -> Call]
    /\ \A c \in Slots : calls[c].at \in AtTokens => calls[c].session # None

\* One call goes on.
LEMMA CallStepType ==
    ASSUME CallsOK, NEW c \in Slots, NEW v \in Call, calls' = [calls EXCEPT ![c] = v],
           v.at \in AtTokens => v.session # None
    PROVE  CallsOK'
BY DEF CallsOK

\* The end of a refresh leaves an idle call, or one of the API.
LEMMA ResumeType ==
    ASSUME TypeOK, NEW c \in Slots, NEW ok \in BOOLEAN, Resume(c, ok)
    PROVE  CallsOK' /\ guard' \in {"mounted", "checking", "in", "out", "failed", "stranded"}
<1>1. CallsOK /\ calls[c] \in Call
  BY DEF TypeOK, CallsOK
<1> DEFINE v == IF calls[c].role # "request" THEN Idle
                ELSE [calls[c] EXCEPT !.at = "api", !.session = IF ok THEN @ ELSE None]
<1>2. v \in Call /\ v.at \in {"idle", "api"}
  BY <1>1, IdleIsCall DEF Call, Idle
<1>3. calls' = [calls EXCEPT ![c] = v]
  BY DEF Resume
<1>4. CallsOK'
  <2> HIDE DEF v
  <2>1. QED
    BY <1>1, <1>2, <1>3, CallStepType
<1>5. QED
  BY <1>4 DEF Resume, TypeOK

LEMMA InitType == Init => TypeOK
BY IdleIsCall DEF Init, TypeOK, Idle

\* Every step keeps the types; a code is there while it is exchanged.
LEMMA StepKeepsType == TypeOK /\ ExchangeIsOurs /\ [Next]_vars => TypeOK'
<1> SUFFICES ASSUME TypeOK, ExchangeIsOurs, [Next]_vars PROVE TypeOK'
  OBVIOUS
<1> USE DEF storage, keycloak, tab
<1>1. CASE Reload
  BY <1>1, LoadFacts, IdleIsCall DEF Reload, Visit, TypeOK, OrHome, Idle, Send, Call, StoredTokens
<1>2. CASE Unload
  BY <1>2, LoadFacts, IdleIsCall DEF Unload, TypeOK, OrHome, Idle, Send, Call, StoredTokens
<1>3. CASE CheckSession
  BY <1>3, IdleIsCall DEF CheckSession, TypeOK, OrHome, Idle, Send, Call, StoredTokens
<1>4. CASE GuardRedirects
  BY <1>4, RouteFacts, IdleIsCall DEF GuardRedirects, TypeOK, OrHome, Idle, Send, Call, StoredTokens
<1>5. CASE RootRedirects
  BY <1>5, RouteFacts, IdleIsCall DEF RootRedirects, TypeOK, OrHome, Idle, Send, Call, StoredTokens
<1>6. CASE LoginRedirects
  BY <1>6, IdleIsCall DEF LoginRedirects, TypeOK, OrHome, Idle, Send, Call, StoredTokens
<1>7. CASE Login
  BY <1>7, IdleIsCall DEF Login, TypeOK, OrHome, Idle, Send, Call, StoredTokens
<1>8. CASE Logout
  BY <1>8, IdleIsCall DEF Logout, MenuShown, TypeOK, OrHome, Idle, Send, Call, StoredTokens
<1>9. CASE SignInRefused
  BY <1>9, LoadFacts, IdleIsCall DEF SignInRefused, TypeOK, OrHome, Idle, Send, Call, StoredTokens
<1>10. CASE GoBack
  BY <1>10, LoadFacts, IdleIsCall DEF GoBack, Visit, TypeOK, OrHome, Idle, Send, Call, StoredTokens
<1>11. CASE SignedOut
  BY <1>11, LoadFacts, IdleIsCall DEF SignedOut, TypeOK, OrHome, Idle, Send, Call, StoredTokens
<1>12. CASE EndSession
  BY <1>12, IdleIsCall DEF EndSession, TypeOK, OrHome, Idle, Send, Call, StoredTokens
<1>13. CASE Expire
  <2>1. stored' \in StoredTokens
    BY <1>13 DEF Expire, TypeOK, StoredTokens
  <2>2. QED
    BY <1>13, <2>1 DEF Expire, TypeOK
<1>14. CASE CompleteLogin
  <2>1. CallsOK'
    <3>1. CASE CallbackIsOurs
      <4>1. code.session \in Sessions
        BY <3>1 DEF CallbackIsOurs, TypeOK
      <4>2. [role |-> "exchange", at |-> "sent", session |-> code.session] \in Call
        BY <4>1 DEF Call
      <4>3. QED
        BY <1>14, <3>1, <4>1, <4>2, CallStepType DEF CompleteLogin, TypeOK, CallsOK
    <3>2. CASE ~CallbackIsOurs
      BY <1>14, <3>2 DEF CompleteLogin, TypeOK, CallsOK
    <3>3. QED
      BY <3>1, <3>2
  <2>2. QED
    BY <1>14, <2>1 DEF CompleteLogin, TypeOK, CallsOK
<1>15. CASE BackToSignIn
  BY <1>15, LoadFacts, IdleIsCall DEF BackToSignIn, TypeOK, OrHome, Idle, Send, Call, StoredTokens
<1>16. ASSUME NEW p \in Paths, Open("app", p) PROVE TypeOK'
  BY <1>16, LoadFacts, IdleIsCall DEF Open, Visit, TypeOK, Idle, Send, Call, StoredTokens
<1>17. ASSUME NEW p \in Paths, Navigate(p) PROVE TypeOK'
  BY <1>17, RouteFacts, IdleIsCall DEF Navigate, Visit, TypeOK, Idle, Send, Call, StoredTokens
<1>18. ASSUME NEW a \in Attempts, SignIn(a) PROVE TypeOK'
  <2>1. \/ code' = [attempt |-> a, session |-> sso, spent |-> FALSE]
              /\ sso \in live /\ UNCHANGED <<live, sso, opened>>
        \/ /\ opened < MaxSessions /\ opened' = opened + 1
           /\ sso' = opened + 1 /\ live' = live \cup {opened + 1}
           /\ code' = [attempt |-> a, session |-> opened + 1, spent |-> FALSE]
    BY <1>18 DEF SignIn
  <2>2. opened < MaxSessions => opened + 1 \in Sessions /\ opened + 1 \in 0..MaxSessions
    BY DEF TypeOK
  <2>3. /\ live' \subseteq Sessions /\ sso' \in Sessions \cup {None} /\ opened' \in 0..MaxSessions
        /\ code' \in Codes
    <3>1. CASE UNCHANGED <<live, sso, opened>> /\ sso \in live
                /\ code' = [attempt |-> a, session |-> sso, spent |-> FALSE]
      BY <3>1 DEF TypeOK
    <3>2. CASE /\ opened < MaxSessions /\ opened' = opened + 1
               /\ sso' = opened + 1 /\ live' = live \cup {opened + 1}
               /\ code' = [attempt |-> a, session |-> opened + 1, spent |-> FALSE]
      BY <2>2, <3>2 DEF TypeOK
    <3>3. QED
      BY <2>1, <3>1, <3>2
  <2>4. Load("callback", None) /\ UNCHANGED <<storage, attempt, loads, faults, wanted>>
    BY <1>18 DEF SignIn
  <2>5. QED
    BY <2>3, <2>4, LoadFacts DEF TypeOK, Idle
<1>19. ASSUME NEW c \in Requests, Request(c) PROVE TypeOK'
  BY <1>19, IdleIsCall DEF Request, Visit, TypeOK, Idle, Send, Call, StoredTokens
<1>20. CASE Open("root", None)
  BY <1>20, LoadFacts DEF Open, Visit, TypeOK, Idle
<1>21. ASSUME NEW c \in Slots, TokenEndpoint(c) PROVE TypeOK'
  <2>1. calls[c] \in Call /\ calls[c].session # None
    BY <1>21 DEF TokenEndpoint, TypeOK
  <2>2. PICK at \in {"granted", "refused", "erred"} : calls' = [calls EXCEPT ![c].at = at]
    BY <1>21 DEF TokenEndpoint
  <2>3. [calls[c] EXCEPT !.at = at] \in Call
    BY <2>1 DEF Call
  <2>4. CallsOK'
    BY <2>1, <2>2, <2>3, CallStepType DEF TypeOK, CallsOK, Call
  <2>5. code' \in Codes \cup {None}
    <3>1. code' = code \/ (calls[c].role = "exchange" /\ code' = [code EXCEPT !.spent = TRUE])
      BY <1>21 DEF TokenEndpoint
    <3>2. calls[c].role = "exchange" => code \in Codes
      BY DEF ExchangeIsOurs, TypeOK
    <3>3. QED
      BY <3>1, <3>2 DEF TypeOK
  <2>6. faults' \in 0..MaxFaults
    BY <1>21 DEF TokenEndpoint, Fault, TypeOK
  <2>7. QED
    BY <1>21, <2>4, <2>5, <2>6 DEF TokenEndpoint, TypeOK, CallsOK
<1>22. ASSUME NEW c \in Slots, Refreshed(c) PROVE TypeOK'
  <2>1. stored' \in StoredTokens
    BY <1>22 DEF Refreshed, TypeOK, Call, StoredTokens
  <2>2. CallsOK' /\ guard' \in {"mounted", "checking", "in", "out", "failed", "stranded"}
    <3>1. Resume(c, TRUE)
      BY <1>22 DEF Refreshed
    <3>2. QED
      BY <3>1, ResumeType
  <2>3. QED
    BY <1>22, <2>1, <2>2 DEF Refreshed, TypeOK, CallsOK
<1>23. ASSUME NEW c \in Slots, RefreshRefused(c) PROVE TypeOK'
  <2>1. CallsOK' /\ guard' \in {"mounted", "checking", "in", "out", "failed", "stranded"}
    <3>1. Resume(c, FALSE)
      BY <1>23 DEF RefreshRefused
    <3>2. QED
      BY <3>1, ResumeType
  <2>2. QED
    BY <1>23, <2>1 DEF RefreshRefused, TypeOK, CallsOK
<1>24. ASSUME NEW c \in Slots, RefreshLost(c) PROVE TypeOK'
  <2>1. faults' \in 0..MaxFaults
    BY <1>24 DEF RefreshLost, Fault, TypeOK
  <2>2. CallsOK' /\ guard' \in {"mounted", "checking", "in", "out", "failed", "stranded"}
    <3>1. Resume(c, FALSE)
      BY <1>24 DEF RefreshLost
    <3>2. QED
      BY <3>1, ResumeType
  <2>3. QED
    BY <1>24, <2>1, <2>2 DEF RefreshLost, TypeOK, CallsOK
<1>25. ASSUME NEW c \in Slots, LoginCompleted(c) PROVE TypeOK'
  BY <1>25, RouteFacts, IdleIsCall
  DEF LoginCompleted, Resume, Fault, OrHome, ExchangeIsOurs, TypeOK, Idle, Call, StoredTokens
<1>26. ASSUME NEW c \in Slots, LoginFailed(c) PROVE TypeOK'
  BY <1>26, IdleIsCall
  DEF LoginFailed, Resume, Fault, OrHome, ExchangeIsOurs, TypeOK, Idle, Call, StoredTokens
<1>27. ASSUME NEW c \in Slots, ApiAnswers(c) PROVE TypeOK'
  BY <1>27, IdleIsCall
  DEF ApiAnswers, Resume, Fault, OrHome, ExchangeIsOurs, TypeOK, Idle, Call, StoredTokens
<1>28. ASSUME NEW c \in Slots, ExchangeThrows(c) PROVE TypeOK'
  BY <1>28, IdleIsCall DEF ExchangeThrows, Fault, TypeOK, Idle, Call
<1>29. CASE UNCHANGED vars
  BY <1>29 DEF vars, TypeOK
<1>30. QED
  BY <1>1, <1>2, <1>3, <1>4, <1>5, <1>6, <1>7, <1>8, <1>9, <1>10, <1>11, <1>12, <1>13, <1>14,
     <1>15, <1>16, <1>17, <1>18, <1>19, <1>20, <1>21, <1>22, <1>23, <1>24, <1>25, <1>26, <1>27,
     <1>28, <1>29
  DEF Next, CallStep, Effects, Visitor

-----------------------------------------------------------------------------
(* The session of the tab *)

\* A page that is loaded knows no session, so only what Keycloak has matters.
LEMMA LoadKeepsFacts ==
    ASSUME NEW pg, NEW p, Load(pg, p), OneLive' PROVE SessionFacts'
BY LoadFacts DEF SessionFacts, OneSession, ExchangeIsOurs, RefusedIsDead, Refreshing, Idle

\* A page that is routed to knows the session the one before knew.
LEMMA RouteKeepsFacts ==
    ASSUME TypeOK, SessionFacts, NEW pg, NEW p, Route(pg, p), pg # "callback",
           live' = live, sso' = sso, stored' = stored
    PROVE  SessionFacts'
BY RouteFacts DEF SessionFacts, OneSession, ExchangeIsOurs, OneLive, RefusedIsDead, Refreshing

\* Steps that change nothing these facts are about.
LEMMA QuietKeepsFacts ==
    ASSUME SessionFacts, UNCHANGED <<calls, live, sso, code, page>>,
           leaving' = leaving \/ page # "callback",
           stored' = None \/ stored' = stored \/ (stored # None /\ stored' # None /\ stored'.session = stored.session)
    PROVE  SessionFacts'
BY DEF SessionFacts, OneSession, ExchangeIsOurs, OneLive, RefusedIsDead, Refreshing

LEMMA StepKeepsFacts == TypeOK /\ SessionFacts /\ [Next]_vars => SessionFacts'
<1> SUFFICES ASSUME TypeOK, SessionFacts, [Next]_vars PROVE SessionFacts'
  OBVIOUS
<1> USE DEF storage, keycloak, tab
<1>1. CASE Reload
  <2>1. OneLive'
    BY <1>1 DEF Reload, Visit, Load, TypeOK, SessionFacts, OneLive
  <2>2. QED
    BY <1>1, <2>1, LoadKeepsFacts DEF Reload, Visit
<1>2. CASE Unload
  <2>1. OneLive'
    BY <1>2 DEF Unload, Load, TypeOK, SessionFacts, OneLive
  <2>2. QED
    BY <1>2, <2>1, LoadKeepsFacts DEF Unload
<1>3. CASE SignInRefused
  <2>1. OneLive'
    BY <1>3 DEF SignInRefused, Load, TypeOK, SessionFacts, OneLive
  <2>2. QED
    BY <1>3, <2>1, LoadKeepsFacts DEF SignInRefused
<1>4. CASE GoBack
  <2>1. OneLive'
    BY <1>4 DEF GoBack, Visit, Load, TypeOK, SessionFacts, OneLive
  <2>2. QED
    BY <1>4, <2>1, LoadKeepsFacts DEF GoBack, Visit
<1>5. CASE SignedOut
  <2>1. OneLive'
    BY <1>5 DEF SignedOut, Load, TypeOK, SessionFacts, OneLive
  <2>2. QED
    BY <1>5, <2>1, LoadKeepsFacts DEF SignedOut
<1>6. CASE BackToSignIn
  <2>1. OneLive'
    BY <1>6 DEF BackToSignIn, Load, TypeOK, SessionFacts, OneLive
  <2>2. QED
    BY <1>6, <2>1, LoadKeepsFacts DEF BackToSignIn
<1>7. ASSUME NEW p \in Paths, Open("app", p) PROVE SessionFacts'
  <2>1. OneLive'
    BY <1>7 DEF Open, Visit, Load, TypeOK, SessionFacts, OneLive
  <2>2. QED
    BY <1>7, <2>1, LoadKeepsFacts DEF Open, Visit
<1>8. CASE Open("root", None)
  <2>1. OneLive'
    BY <1>8 DEF Open, Visit, Load, TypeOK, SessionFacts, OneLive
  <2>2. QED
    BY <1>8, <2>1, LoadKeepsFacts DEF Open, Visit
<1>9. ASSUME NEW a \in Attempts, SignIn(a) PROVE SessionFacts'
  <2>1. OneLive'
    <3>1. code'.session = sso'
      BY <1>9 DEF SignIn
    <3>2. live' \subseteq {sso'}
      BY <1>9 DEF SignIn, SessionFacts, OneLive
    <3>3. QED
      BY <3>1, <3>2 DEF OneLive
  <2>2. QED
    BY <1>9, <2>1, LoadKeepsFacts DEF SignIn
<1>10. CASE GuardRedirects
  BY <1>10, RouteKeepsFacts DEF GuardRedirects
<1>11. CASE RootRedirects
  BY <1>11, RouteKeepsFacts DEF RootRedirects
<1>12. ASSUME NEW p \in Paths, Navigate(p) PROVE SessionFacts'
  BY <1>12, RouteKeepsFacts DEF Navigate, Visit
<1>13. CASE LoginRedirects
  BY <1>13, QuietKeepsFacts DEF LoginRedirects, TypeOK, StoredTokens
<1>14. CASE Login
  BY <1>14, QuietKeepsFacts DEF Login, TypeOK, StoredTokens
<1>15. CASE Logout
  BY <1>15, QuietKeepsFacts DEF Logout, MenuShown, TypeOK, StoredTokens
<1>16. CASE Expire
  BY <1>16, QuietKeepsFacts DEF Expire, TypeOK, StoredTokens
<1>17. CASE EndSession
  BY <1>17 DEF EndSession, SessionFacts, OneSession, ExchangeIsOurs, OneLive, RefusedIsDead,
     Refreshing
<1>18. CASE CheckSession
  BY <1>18 DEF CheckSession, Send, Idle, Resume, Fault, TypeOK, Call, SessionFacts, OneSession,
     ExchangeIsOurs, OneLive, RefusedIsDead, Refreshing
<1>19. CASE CompleteLogin
  BY <1>19 DEF CompleteLogin, CallbackIsOurs, Send, Idle, Resume, Fault, TypeOK, Call,
     SessionFacts, OneSession, ExchangeIsOurs, OneLive, RefusedIsDead, Refreshing
<1>20. ASSUME NEW c \in Requests, Request(c) PROVE SessionFacts'
  BY <1>20 DEF Request, Send, Idle, Resume, Fault, TypeOK, Call, SessionFacts, OneSession,
     ExchangeIsOurs, OneLive, RefusedIsDead, Refreshing
<1>21. ASSUME NEW c \in Slots, TokenEndpoint(c) PROVE SessionFacts'
  <2>1. /\ \A d \in Slots :
              /\ calls'[d].role = calls[d].role
              /\ calls'[d].session = calls[d].session
              /\ calls'[d].at \in AtTokens => calls[d].at \in AtTokens
        /\ \A d \in Slots \ {c} : calls'[d] = calls[d]
    <3>1. PICK at \in {"granted", "refused", "erred"} : calls' = [calls EXCEPT ![c].at = at]
      BY <1>21 DEF TokenEndpoint
    <3>2. calls[c].at = "sent"
      BY <1>21 DEF TokenEndpoint
    <3>3. QED
      BY <3>1, <3>2 DEF TypeOK, Call
  <2>2. calls[c].role # "exchange" /\ calls'[c].at = "refused" => calls[c].session \notin live
    <3>1. CASE calls' = [calls EXCEPT ![c].at = "erred"]
      BY <3>1 DEF TypeOK, Call
    <3>2. CASE calls' # [calls EXCEPT ![c].at = "erred"]
      BY <1>21, <3>2 DEF TokenEndpoint, TypeOK
    <3>3. QED
      BY <3>1, <3>2
  <2>3. /\ code = None => code' = None
        /\ code # None => code' # None /\ code'.session = code.session
    <3>1. CASE calls[c].role = "exchange"
      <4>1. code \in Codes
        BY <3>1 DEF SessionFacts, ExchangeIsOurs, TypeOK
      <4>2. code' = code \/ code' = [code EXCEPT !.spent = TRUE]
        BY <1>21, <3>1 DEF TokenEndpoint
      <4>3. code' \in Codes
        BY <4>1, <4>2 DEF Codes
      <4>4. None \notin Codes
        BY NoneIsNoRecord
      <4>5. QED
        BY <4>1, <4>2, <4>3, <4>4 DEF Codes
    <3>2. CASE calls[c].role # "exchange"
      BY <1>21, <3>2 DEF TokenEndpoint
    <3>3. QED
      BY <3>1, <3>2
  <2>4. stored' = stored /\ page' = page /\ leaving' = leaving /\ live' = live /\ sso' = sso
    BY <1>21 DEF TokenEndpoint
  <2>5. OneSession'
    BY <2>1, <2>4 DEF SessionFacts, OneSession, Refreshing
  <2>6. RefusedIsDead'
    <3> SUFFICES ASSUME NEW d \in Slots, Refreshing(d)', calls'[d].at = "refused"
                 PROVE  calls'[d].session \notin live'
      BY DEF RefusedIsDead
    <3>1. CASE d = c
      BY <2>1, <2>2, <2>4, <3>1 DEF Refreshing
    <3>2. CASE d # c
      BY <2>1, <2>4, <3>2 DEF SessionFacts, RefusedIsDead, Refreshing
    <3>3. QED
      BY <3>1, <3>2
  <2>7. ExchangeIsOurs'
    BY <2>1, <2>3, <2>4 DEF SessionFacts, ExchangeIsOurs, Refreshing
  <2>8. OneLive'
    BY <2>3, <2>4 DEF SessionFacts, OneLive
  <2>9. QED
    BY <2>5, <2>6, <2>7, <2>8 DEF SessionFacts
<1>22. ASSUME NEW c \in Slots, Refreshed(c) PROVE SessionFacts'
  BY <1>22 DEF Refreshed, Send, Idle, Resume, Fault, TypeOK, Call, SessionFacts, OneSession,
     ExchangeIsOurs, OneLive, RefusedIsDead, Refreshing
<1>23. ASSUME NEW c \in Slots, RefreshRefused(c) PROVE SessionFacts'
  BY <1>23 DEF RefreshRefused, Send, Idle, Resume, Fault, TypeOK, Call, SessionFacts, OneSession,
     ExchangeIsOurs, OneLive, RefusedIsDead, Refreshing
<1>24. ASSUME NEW c \in Slots, RefreshLost(c) PROVE SessionFacts'
  BY <1>24 DEF RefreshLost, Send, Idle, Resume, Fault, TypeOK, Call, SessionFacts, OneSession,
     ExchangeIsOurs, OneLive, RefusedIsDead, Refreshing
<1>25. ASSUME NEW c \in Slots, LoginFailed(c) PROVE SessionFacts'
  BY <1>25 DEF LoginFailed, Send, Idle, Resume, Fault, TypeOK, Call, SessionFacts, OneSession,
     ExchangeIsOurs, OneLive, RefusedIsDead, Refreshing
<1>26. ASSUME NEW c \in Slots, ApiAnswers(c) PROVE SessionFacts'
  BY <1>26 DEF ApiAnswers, Send, Idle, Resume, Fault, TypeOK, Call, SessionFacts, OneSession,
     ExchangeIsOurs, OneLive, RefusedIsDead, Refreshing
<1>27. ASSUME NEW c \in Slots, LoginCompleted(c) PROVE SessionFacts'
  BY <1>27, RouteFacts DEF LoginCompleted, TypeOK, SessionFacts, OneSession, ExchangeIsOurs,
     OneLive, RefusedIsDead, Refreshing
<1>28. ASSUME NEW c \in Slots, ExchangeThrows(c) PROVE SessionFacts'
  BY <1>28 DEF ExchangeThrows, Idle, Fault, TypeOK, Call, SessionFacts, OneSession,
              ExchangeIsOurs, OneLive, RefusedIsDead, Refreshing
<1>29. CASE UNCHANGED vars
  BY <1>29 DEF vars, SessionFacts, OneSession, ExchangeIsOurs, OneLive, RefusedIsDead, Refreshing
<1>30. QED
  BY <1>1, <1>2, <1>3, <1>4, <1>5, <1>6, <1>7, <1>8, <1>9, <1>10, <1>11, <1>12, <1>13, <1>14,
     <1>15, <1>16, <1>17, <1>18, <1>19, <1>20, <1>21, <1>22, <1>23, <1>24, <1>25, <1>26, <1>27,
     <1>28, <1>29
  DEF Next, CallStep, Effects, Visitor

LEMMA InitFacts == Init => SessionFacts
BY DEF Init, Idle, SessionFacts, OneSession, ExchangeIsOurs, OneLive, RefusedIsDead, Refreshing

THEOREM SessionInvHolds == Spec => []SessionInv
<1>1. Init => SessionInv
  BY InitType, InitFacts DEF SessionInv
<1>2. SessionInv /\ [Next]_vars => SessionInv'
  BY StepKeepsType, StepKeepsFacts DEF SessionInv, SessionFacts
<1>3. QED
  BY <1>1, <1>2, PTL DEF Spec

\* Type correctness: a shown page has a path, and a call that carries a token
\* names its session.
THEOREM SessionTypeCorrect == Spec => []TypeOK
BY SessionInvHolds, PTL DEF SessionInv

\* Only signing out, or an HTTP error as the answer to a refresh of that session,
\* costs a tab the tokens of a session that lives: not a lost answer, nor a race.
THEOREM TokensAreKept == Spec => SessionKept
<1>1. SessionInv /\ [Next]_vars =>
        [/\ stored # None /\ stored.session \in live
         /\ stored' = None \/ stored'.session # stored.session
         => SignsOut \/ OwnRefreshErred]_vars
  <2> SUFFICES ASSUME SessionInv, Next, stored # None, stored.session \in live,
                      stored' = None \/ stored'.session # stored.session
               PROVE  SignsOut \/ OwnRefreshErred
    BY DEF vars
  <2> USE DEF storage, keycloak, tab
  <2>1. CASE Logout
    BY <2>1, NoneIsNoRecord DEF Logout, MenuShown, SignsOut, SessionInv, TypeOK
  <2>2. CASE Expire
    <3>1. stored \in StoredTokens
      BY DEF SessionInv, TypeOK
    <3>2. stored' \in StoredTokens /\ stored'.session = stored.session
      BY <2>2, <3>1 DEF Expire, StoredTokens
    <3>3. QED
      BY <3>2, NoneIsNoRecord
  <2>3. ASSUME NEW c \in Slots, Refreshed(c) PROVE FALSE
    <3>1. stored'.session = stored.session /\ stored'.session \in Sessions
      BY <2>3 DEF Refreshed, SessionInv, SessionFacts, OneSession, Refreshing, TypeOK
    <3>2. stored' \in StoredTokens
      BY <2>3, <3>1 DEF Refreshed, StoredTokens
    <3>3. QED
      BY <3>1, <3>2, NoneIsNoRecord
  <2>4. ASSUME NEW c \in Slots, RefreshRefused(c) PROVE OwnRefreshErred
    <3>1. Refreshing(c) /\ calls[c].session = stored.session
      BY <2>4 DEF RefreshRefused, SessionInv, SessionFacts, OneSession, Refreshing
    <3>2. calls[c].at = "erred"
      BY <2>4, <3>1 DEF RefreshRefused, SessionInv, SessionFacts, RefusedIsDead
    <3>3. calls'[c].at # "erred"
      BY <2>4, <3>2 DEF RefreshRefused, Resume, Idle, SessionInv, TypeOK, Call
    <3>4. QED
      BY <3>1, <3>2, <3>3 DEF OwnRefreshErred, Refreshing
  <2>5. ASSUME NEW c \in Slots, LoginCompleted(c) PROVE FALSE
    <3>1. stored'.session = stored.session /\ stored'.session \in Sessions
      BY <2>5 DEF LoginCompleted, SessionInv, SessionFacts, ExchangeIsOurs, OneLive, TypeOK
    <3>2. stored' \in StoredTokens
      BY <2>5, <3>1 DEF LoginCompleted, StoredTokens
    <3>3. QED
      BY <3>1, <3>2, NoneIsNoRecord
  <2>6. stored' # stored
    OBVIOUS
  <2>7. QED
    BY <2>1, <2>2, <2>3, <2>4, <2>5, <2>6
    DEF Next, CallStep, Effects, Visitor, Open, Visit, Reload, Navigate, Unload, CheckSession,
        GuardRedirects, RootRedirects, LoginRedirects, Login, SignIn, SignInRefused, GoBack,
        SignedOut, EndSession, Request, CompleteLogin, TokenEndpoint, RefreshLost, LoginFailed,
        ExchangeThrows, BackToSignIn, ApiAnswers
<1>2. QED
  BY <1>1, SessionInvHolds, PTL DEF Spec, SessionKept

-----------------------------------------------------------------------------
(* Where a sign-in ends *)

LEMMA StepKeepsLanding == SessionInv /\ LandingInv /\ [Next]_vars => LandingInv'
<1> SUFFICES ASSUME SessionInv, LandingInv, [Next]_vars PROVE LandingInv'
  OBVIOUS
<1> USE DEF storage, keycloak, tab
<1>1. CASE Reload
  BY <1>1, LoadFacts DEF Reload, Visit, LandingInv, SessionInv, TypeOK, SessionFacts, ExchangeIsOurs
<1>2. CASE Unload
  BY <1>2, LoadFacts DEF Unload, Visit, LandingInv, SessionInv, TypeOK, SessionFacts, ExchangeIsOurs
<1>3. CASE SignInRefused
  BY <1>3, LoadFacts DEF SignInRefused, Visit, LandingInv, SessionInv, TypeOK, SessionFacts,
     ExchangeIsOurs
<1>4. CASE GoBack
  BY <1>4, LoadFacts DEF GoBack, Visit, LandingInv, SessionInv, TypeOK, SessionFacts, ExchangeIsOurs
<1>5. CASE SignedOut
  BY <1>5, LoadFacts DEF SignedOut, Visit, LandingInv, SessionInv, TypeOK, SessionFacts,
     ExchangeIsOurs
<1>6. CASE BackToSignIn
  BY <1>6, LoadFacts DEF BackToSignIn, Visit, LandingInv, SessionInv, TypeOK, SessionFacts,
     ExchangeIsOurs
<1>7. ASSUME NEW p \in Paths, Open("app", p) PROVE LandingInv'
  BY <1>7, LoadFacts DEF Open, LandingInv, SessionInv, TypeOK, SessionFacts, ExchangeIsOurs
<1>8. CASE Open("root", None)
  BY <1>8, LoadFacts DEF Open, LandingInv, SessionInv, TypeOK, SessionFacts, ExchangeIsOurs
<1>9. ASSUME NEW a \in Attempts, SignIn(a) PROVE LandingInv'
  BY <1>9, LoadFacts DEF SignIn, LandingInv, SessionInv, TypeOK, SessionFacts, ExchangeIsOurs
<1>10. CASE GuardRedirects
  BY <1>10, RouteFacts
  DEF GuardRedirects, LandingInv, SessionInv, TypeOK, SessionFacts, ExchangeIsOurs
<1>11. CASE RootRedirects
  BY <1>11, RouteFacts
  DEF RootRedirects, LandingInv, SessionInv, TypeOK, SessionFacts, ExchangeIsOurs
<1>12. ASSUME NEW p \in Paths, Navigate(p) PROVE LandingInv'
  BY <1>12, RouteFacts DEF Navigate, LandingInv, SessionInv, TypeOK, SessionFacts, ExchangeIsOurs
<1>13. CASE LoginRedirects
  BY <1>13 DEF LoginRedirects, LeavingTo, OrHome, LandingInv, SessionInv, TypeOK, SessionFacts,
     ExchangeIsOurs
<1>14. CASE Login
  BY <1>14 DEF Login, LeavingTo, OrHome, LandingInv, SessionInv, TypeOK, SessionFacts,
     ExchangeIsOurs
<1>15. CASE Logout
  BY <1>15 DEF Logout, MenuShown, LandingInv, SessionInv, TypeOK, SessionFacts, ExchangeIsOurs
<1>16. CASE Expire
  BY <1>16 DEF Expire, LandingInv, SessionInv, TypeOK, SessionFacts, ExchangeIsOurs
<1>17. CASE EndSession
  BY <1>17 DEF EndSession, LandingInv, SessionInv, TypeOK, SessionFacts, ExchangeIsOurs
<1>18. CASE CheckSession
  BY <1>18 DEF CheckSession, LandingInv, SessionInv, TypeOK, SessionFacts, ExchangeIsOurs
<1>19. CASE CompleteLogin
  BY <1>19 DEF CompleteLogin, LandingInv, SessionInv, TypeOK, SessionFacts, ExchangeIsOurs
<1>20. ASSUME NEW c \in Requests, Request(c) PROVE LandingInv'
  BY <1>20 DEF Request, LandingInv, SessionInv, TypeOK, SessionFacts, ExchangeIsOurs
<1>21. ASSUME NEW c \in Slots, TokenEndpoint(c) PROVE LandingInv'
  BY <1>21 DEF TokenEndpoint, LandingInv
<1>22. ASSUME NEW c \in Slots, Refreshed(c) PROVE LandingInv'
  BY <1>22 DEF Refreshed, LandingInv
<1>23. ASSUME NEW c \in Slots, RefreshRefused(c) PROVE LandingInv'
  BY <1>23 DEF RefreshRefused, LandingInv
<1>24. ASSUME NEW c \in Slots, RefreshLost(c) PROVE LandingInv'
  BY <1>24 DEF RefreshLost, LandingInv
<1>25. ASSUME NEW c \in Slots, LoginFailed(c) PROVE LandingInv'
  BY <1>25 DEF LoginFailed, LandingInv
<1>26. ASSUME NEW c \in Slots, ApiAnswers(c) PROVE LandingInv'
  BY <1>26 DEF ApiAnswers, LandingInv
<1>27. ASSUME NEW c \in Slots, LoginCompleted(c) PROVE LandingInv'
  BY <1>27 DEF LoginCompleted, LandingInv
<1>28. ASSUME NEW c \in Slots, ExchangeThrows(c) PROVE LandingInv'
  BY <1>28 DEF ExchangeThrows, LandingInv
<1>29. CASE UNCHANGED vars
  BY <1>29 DEF vars, LandingInv
<1>30. QED
  BY <1>1, <1>2, <1>3, <1>4, <1>5, <1>6, <1>7, <1>8, <1>9, <1>10, <1>11, <1>12, <1>13, <1>14,
     <1>15, <1>16, <1>17, <1>18, <1>19, <1>20, <1>21, <1>22, <1>23, <1>24, <1>25, <1>26, <1>27,
     <1>28, <1>29
  DEF Next, CallStep, Effects, Visitor

\* Whoever was sent to sign in ends where the last guard stopped them, or at home.
THEOREM SignInLands == Spec => LandsOnLatest
<1>1. Init => LandingInv
  BY DEF Init, LandingInv
<1>2. SessionInv /\ LandingInv /\ [Next]_vars =>
        [page = "callback" /\ page' = "app" /\ loads' = loads /\ wanted # None
         => path' \in {wanted, Home}]_vars
  <2> SUFFICES ASSUME SessionInv, LandingInv, Next,
                      page = "callback", page' = "app", loads' = loads, wanted # None
               PROVE  path' \in {wanted, Home}
    BY DEF vars
  <2>1. PICK c \in Slots : LoginCompleted(c)
    BY LoadFacts, RouteFacts
    DEF SessionInv, SessionFacts, ExchangeIsOurs, TypeOK, tab, Next, CallStep, Effects, Visitor,
        Open, Visit, Reload, Navigate, Unload, CheckSession, GuardRedirects, RootRedirects,
        LoginRedirects, Login, Logout, MenuShown, SignIn, SignInRefused, GoBack, SignedOut, EndSession,
        Expire, Request, CompleteLogin, TokenEndpoint, Refreshed, RefreshRefused, RefreshLost,
        LoginFailed, ExchangeThrows, BackToSignIn, ApiAnswers
  <2>2. path' = OrHome(landing)
    BY <2>1 DEF LoginCompleted, Route
  <2>3. QED
    BY <2>2 DEF OrHome, LandingInv
<1>3. QED
  BY <1>1, <1>2, StepKeepsLanding, SessionInvHolds, PTL DEF Spec, LandsOnLatest
=============================================================================
