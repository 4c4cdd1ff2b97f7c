------------------------------ MODULE SetupWizard ------------------------------
(***************************************************************************)
(* The setup wizard (app/setup/page.tsx) in one tab, and the endpoint that *)
(* judges what it submits (main.py, submit_setup_configuration).           *)
(*                                                                         *)
(* No step checks its fields, the steps are visited in any order, and the  *)
(* form can be changed while a configuration is on its way.  An accepted   *)
(* one sets a flag in localStorage and starts a timer that takes the       *)
(* visitor home.  Calls and timers outlive the page when it is left by a   *)
(* link or the history, not when it is left by a full load.                *)
(***************************************************************************)
EXTENDS Naturals, FiniteSets

CONSTANTS
    Editable,               \* fields the visitor changes
    Calls,                  \* submissions that may be in flight at once
    MaxVisits, MaxEdits, MaxSubmits,    \* bounds
    None

Steps == {"database", "storage", "search", "cache", "identity",
          "ocr", "ai", "notifications", "review"}
Providers == {"keycloak", "azure_ad", "microsoft_entra_id"}

\* The text inputs; ocr and ai have none that the endpoint looks at.
Fields == {"postgresqlUrl", "minioEndpoint", "objectStorageBucket", "opensearchUrl",
           "redisUrl", "keycloakIssuer", "azureAdTenantId", "azureAdClientId",
           "entraIdTenantId", "emailSmtpHost", "emailFromAddress"}

WarningNames == {"keycloak_issuer_missing", "azure_ad_credentials_incomplete",
                 "microsoft_entra_id_tenant_missing", "email_notification_settings_incomplete"}
SetupResponse == [accepted : BOOLEAN, warnings : SUBSET WarningNames]

ASSUME WizardAssumption ==
    /\ Editable \subseteq Fields
    /\ {MaxVisits, MaxEdits, MaxSubmits} \subseteq Nat
    /\ None \notin SetupResponse

\* WizardState: a text input is filled or empty.
Configuration == [filled : SUBSET Fields, provider : Providers, email : BOOLEAN]

DEFAULT_STATE ==
    [filled |-> Fields \ {"azureAdTenantId", "azureAdClientId", "entraIdTenantId",
                          "emailSmtpHost", "emailFromAddress"},
     provider |-> "keycloak", email |-> FALSE]

IdentityFields(provider) ==
    CASE provider = "keycloak" -> {"keycloakIssuer"}
      [] provider = "azure_ad" -> {"azureAdTenantId", "azureAdClientId"}
      [] provider = "microsoft_entra_id" -> {"entraIdTenantId"}

\* The inputs marked required of a step, those it shows for c.
Shown(step, c) ==
    CASE step = "database" -> {"postgresqlUrl"}
      [] step = "storage" -> {"minioEndpoint", "objectStorageBucket"}
      [] step = "search" -> {"opensearchUrl"}
      [] step = "cache" -> {"redisUrl"}
      [] step = "identity" -> IdentityFields(c.provider)
      [] step = "notifications" -> IF c.email THEN {"emailSmtpHost", "emailFromAddress"} ELSE {}
      [] OTHER -> {}

M_Warnings_NoEmail(c) ==
    {w \in {"keycloak_issuer_missing"} :
        c.provider = "keycloak" /\ "keycloakIssuer" \notin c.filled}
    \cup
    {w \in {"azure_ad_credentials_incomplete"} :
        c.provider = "azure_ad" /\ ~({"azureAdTenantId", "azureAdClientId"} \subseteq c.filled)}
    \cup
    {w \in {"microsoft_entra_id_tenant_missing"} :
        c.provider = "microsoft_entra_id" /\ "entraIdTenantId" \notin c.filled}

\* submit_setup_configuration; an empty input is sent as null, or as an empty
\* string that the endpoint takes for a value.
Warnings(c) ==
    {w \in {"keycloak_issuer_missing"} :
        c.provider = "keycloak" /\ "keycloakIssuer" \notin c.filled}
    \cup
    {w \in {"azure_ad_credentials_incomplete"} :
        c.provider = "azure_ad" /\ ~({"azureAdTenantId", "azureAdClientId"} \subseteq c.filled)}
    \cup
    {w \in {"microsoft_entra_id_tenant_missing"} :
        c.provider = "microsoft_entra_id" /\ "entraIdTenantId" \notin c.filled}
    \cup
    {w \in {"email_notification_settings_incomplete"} :
        c.email /\ ~({"emailSmtpHost", "emailFromAddress"} \subseteq c.filled)}

Verdict(c) == [accepted |-> Warnings(c) = {}, warnings |-> Warnings(c)]

VARIABLES
    flag,               \* localStorage: setup is completed
    page,               \* the wizard is shown, or another page
    mounting,           \* the mount effect has not run
    leaving,            \* router.replace or router.push is under way
    step, state,        \* the form
    submitting, result, error,
    calls,              \* submissions: the configuration each has sent
    timer,              \* redirectTimeoutRef holds a timer that is running
    strays,             \* timers running that no ref holds
    latest,             \* history: the last configuration this mount has sent
    visits, edits, submits

form == <<step, state>>
outcome == <<submitting, result, error>>
timers == <<timer, strays>>
counts == <<visits, edits, submits>>
vars == <<flag, page, mounting, leaving, form, outcome, calls, timers, latest, counts>>

Idle == [at |-> "idle", sent |-> DEFAULT_STATE, mounted |-> FALSE]
Call == [at : {"idle", "sent"}, sent : Configuration, mounted : BOOLEAN]

NewWizard ==
    /\ step' = "database" /\ state' = DEFAULT_STATE
    /\ submitting' = FALSE /\ result' = None /\ error' = FALSE
    /\ latest' = DEFAULT_STATE

Init ==
    /\ flag = FALSE
    /\ page = "other" /\ mounting = FALSE /\ leaving = FALSE
    /\ step = "database" /\ state = DEFAULT_STATE
    /\ submitting = FALSE /\ result = None /\ error = FALSE
    /\ calls = [i \in Calls |-> Idle]
    /\ timer = FALSE /\ strays = 0
    /\ latest = DEFAULT_STATE
    /\ visits = 0 /\ edits = 0 /\ submits = 0

-----------------------------------------------------------------------------
(* Coming and going *)

\* The wizard's link in the sidebar; the application goes on running.
Visit ==
    /\ page = "other" /\ visits < MaxVisits
    /\ page' = "setup" /\ mounting' = TRUE /\ visits' = visits + 1
    /\ NewWizard
    /\ UNCHANGED <<flag, leaving, calls, timers, edits, submits>>

\* The effect on mount: a completed setup sends the visitor home; what cannot
\* be read is not completed.
CheckFlag ==
    /\ mounting /\ mounting' = FALSE
    /\ leaving' \in {leaving, leaving \/ flag}
    /\ UNCHANGED <<flag, page, form, outcome, calls, timers, latest, counts>>

\* The wizard is unmounted: its effect clears the one timer the ref holds.
Unmount ==
    /\ page' = "other" /\ mounting' = FALSE /\ leaving' = FALSE
    /\ NewWizard
    /\ calls' = [i \in Calls |-> IF calls[i].at = "idle" THEN Idle
                                 ELSE [calls[i] EXCEPT !.mounted = FALSE]]
    /\ timer' = FALSE
    /\ UNCHANGED <<flag, strays, counts>>

\* The router comes to "/".
Arrive == leaving /\ Unmount

\* The browser's Back, or a link of the sidebar.
Leave == page = "setup" /\ Unmount

\* "Back to app" is a full load, and so is a reload: all that runs is gone.
FullLoad ==
    /\ page = "setup"
    /\ \/ page' = "other" /\ mounting' = FALSE /\ UNCHANGED visits
       \/ mounting' = TRUE /\ visits < MaxVisits /\ visits' = visits + 1 /\ UNCHANGED page
    /\ NewWizard
    /\ leaving' = FALSE /\ timer' = FALSE /\ strays' = 0
    /\ calls' = [i \in Calls |-> Idle]
    /\ UNCHANGED <<flag, edits, submits>>

-----------------------------------------------------------------------------
(* The form *)

\* A button of the step list, Back or Next: never disabled, whatever is filled.
GoTo(s) ==
    /\ page = "setup" /\ s # step /\ step' = s
    /\ UNCHANGED <<flag, page, mounting, leaving, state, outcome, calls, timers, latest, counts>>

Edit ==
    /\ page = "setup" /\ edits < MaxEdits /\ edits' = edits + 1
    /\ UNCHANGED <<flag, page, mounting, leaving, step, outcome, calls, timers, latest,
                   visits, submits>>

\* update: an input is filled or emptied, ...
Type(f) ==
    /\ f \in Shown(step, state)
    /\ state' = [state EXCEPT !.filled = IF f \in @ THEN @ \ {f} ELSE @ \cup {f}]
    /\ Edit

\* ... another provider is chosen, which keeps what the hidden inputs hold, ...
Choose(p) ==
    /\ step = "identity" /\ state.provider # p
    /\ state' = [state EXCEPT !.provider = p]
    /\ Edit

\* ... or notifications are switched.
Toggle ==
    /\ step = "notifications"
    /\ state' = [state EXCEPT !.email = ~@]
    /\ Edit

-----------------------------------------------------------------------------
(* handleFinish *)

M_HandleFinish_Unguarded(i) ==
    /\ page = "setup" /\ step = "review" /\ submits < MaxSubmits
    /\ calls[i].at = "idle"
    /\ calls' = [calls EXCEPT ![i] = [at |-> "sent", sent |-> state, mounted |-> TRUE]]
    /\ submitting' = TRUE /\ error' = FALSE /\ result' = None
    /\ latest' = state /\ submits' = submits + 1
    /\ UNCHANGED <<flag, page, mounting, leaving, form, timers, visits, edits>>

\* To its first await: one submission at a time, of the form as it is now.
HandleFinish(i) ==
    /\ page = "setup" /\ step = "review" /\ submits < MaxSubmits
    /\ ~submitting
    /\ calls[i].at = "idle"
    /\ calls' = [calls EXCEPT ![i] = [at |-> "sent", sent |-> state, mounted |-> TRUE]]
    /\ submitting' = TRUE /\ error' = FALSE /\ result' = None
    /\ latest' = state /\ submits' = submits + 1
    /\ UNCHANGED <<flag, page, mounting, leaving, form, timers, visits, edits>>

Ends(i) == calls[i].at = "sent" /\ calls' = [calls EXCEPT ![i] = Idle]

\* The timer of an accepted configuration goes to the ref; one the ref held
\* runs on, and that of a wizard that is gone is not cleared by anyone.
StartTimer(mounted) ==
    IF mounted THEN timer' = TRUE /\ strays' = strays + (IF timer THEN 1 ELSE 0)
               ELSE timer' = timer /\ strays' = strays + 1

\* The answer is read; the flag is written in silence if storage refuses it.
Answered(i) ==
    LET verdict == Verdict(calls[i].sent)
        mounted == calls[i].mounted IN
    /\ Ends(i)
    /\ IF verdict.accepted THEN flag' \in {flag, TRUE} /\ StartTimer(mounted)
                           ELSE UNCHANGED <<flag, timers>>
    /\ result' = IF mounted THEN verdict ELSE result
    /\ submitting' = IF mounted THEN FALSE ELSE submitting
    /\ UNCHANGED <<page, mounting, leaving, form, error, latest, counts>>

M_Failed_NoFinally(i) ==
    /\ Ends(i)
    /\ error' = (calls[i].mounted \/ error)
    /\ UNCHANGED <<flag, page, mounting, leaving, form, submitting, result, timers, latest, counts>>

\* No answer, one that is no SetupResponse, an HTTP error, or 20 seconds gone:
\* whatever the endpoint made of it.
Failed(i) ==
    /\ Ends(i)
    /\ error' = (calls[i].mounted \/ error)
    /\ submitting' = IF calls[i].mounted THEN FALSE ELSE submitting
    /\ UNCHANGED <<flag, page, mounting, leaving, form, result, timers, latest, counts>>

\* router.push("/"): from the wizard, a later visit to it, or another page,
\* where it changes nothing of what is modelled.
TimerFires ==
    /\ \/ timer /\ timer' = FALSE /\ UNCHANGED strays
       \/ strays > 0 /\ strays' = strays - 1 /\ UNCHANGED timer
    /\ leaving' = (page = "setup")
    /\ UNCHANGED <<flag, page, mounting, form, outcome, calls, latest, counts>>

-----------------------------------------------------------------------------

Next ==
    \/ Visit \/ CheckFlag \/ Arrive \/ Leave \/ FullLoad
    \/ \E s \in Steps : GoTo(s)
    \/ \E f \in Editable : Type(f)
    \/ \E p \in Providers : Choose(p)
    \/ Toggle
    \/ \E i \in Calls : HandleFinish(i) \/ Answered(i) \/ Failed(i)
    \/ TimerFires

Spec == Init /\ [][Next]_vars

-----------------------------------------------------------------------------
(* Properties *)

\* Every variable keeps its type; the Finish button is disabled exactly while a
\* call of this mount is in flight.
TypeOK ==
    /\ flag \in BOOLEAN /\ page \in {"setup", "other"}
    /\ mounting \in BOOLEAN /\ leaving \in BOOLEAN
    /\ step \in Steps /\ state \in Configuration /\ latest \in Configuration
    /\ submitting \in BOOLEAN /\ result \in SetupResponse \cup {None} /\ error \in BOOLEAN
    /\ calls \in [Calls -> Call]
    /\ timer \in BOOLEAN /\ strays \in Nat
    /\ visits \in Nat /\ edits \in Nat /\ submits \in Nat
    /\ submitting <=> \E i \in Calls : calls[i].mounted

\* What the two steps with inputs that come and go ask of a configuration.
Complete(c) ==
    \A s \in {"identity", "notifications"} : Shown(s, c) \subseteq c.filled

\* The wizard, which checks no input, is completed only by a configuration
\* with every input its provider and its notifications call for: the warnings
\* of the endpoint cover the inputs marked required on these steps, whatever
\* is switched or emptied on the way to "Finish" or during the call.
FlagMeansComplete ==
    [][ ~flag /\ flag' =>
          \E i \in Calls : /\ calls[i].at = "sent" /\ calls'[i].at = "idle"
                           /\ Complete(calls[i].sent) ]_vars

\* The result shown is the verdict on the configuration sent last, never that
\* of an earlier call or of an earlier visit whose answer comes late.
ResultIsLatest == page = "setup" /\ result # None => result = Verdict(latest)

\* The same of every step: the inputs marked required are filled.
FlagMeansFilled ==
    [][ ~flag /\ flag' =>
          \E i \in Calls : /\ calls[i].at = "sent" /\ calls'[i].at = "idle"
                           /\ \A s \in Steps :
                                 Shown(s, calls[i].sent) \subseteq calls[i].sent.filled ]_vars
=============================================================================
