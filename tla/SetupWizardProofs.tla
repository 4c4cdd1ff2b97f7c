--------------------------- MODULE SetupWizardProofs ---------------------------
(***************************************************************************)
(* Theorems about SetupWizard for any number of calls in flight, any       *)
(* inputs changed, and any number of visits, edits and submissions.        *)
(***************************************************************************)
EXTENDS SetupWizard, TLAPS

\* A call whose wizard is still mounted sent the configuration sent last, and
\* nothing is shown while it is on its way.
MountedIsLatest ==
    \A i \in Calls : calls[i].mounted =>
        /\ page = "setup" /\ calls[i].at = "sent"
        /\ calls[i].sent = latest /\ result = None

\* submittingRef admits one call of a mount at a time.
OneMounted == \A i, j \in Calls : calls[i].mounted /\ calls[j].mounted => i = j

\* ResultIsLatest is not inductive alone: an answer is that to the last
\* configuration because no other call of the mount can be under way.
WizardInv ==
    /\ TypeOK
    /\ MountedIsLatest
    /\ OneMounted
    /\ ResultIsLatest

-----------------------------------------------------------------------------

\* The endpoint's answer is a SetupResponse, whatever it is sent.
LEMMA VerdictType == ASSUME NEW c PROVE Verdict(c) \in SetupResponse
BY DEF Verdict, Warnings, SetupResponse, WarningNames

\* An accepted configuration has the inputs its provider and notifications need.
LEMMA AcceptedIsComplete ==
    ASSUME NEW c \in Configuration, Verdict(c).accepted PROVE Complete(c)
<1>1. /\ ~(c.provider = "keycloak" /\ "keycloakIssuer" \notin c.filled)
      /\ ~(c.provider = "azure_ad" /\ ~({"azureAdTenantId", "azureAdClientId"} \subseteq c.filled))
      /\ ~(c.provider = "microsoft_entra_id" /\ "entraIdTenantId" \notin c.filled)
      /\ ~(c.email /\ ~({"emailSmtpHost", "emailFromAddress"} \subseteq c.filled))
  BY DEF Verdict, Warnings
<1>2. c.provider \in Providers
  BY DEF Configuration
<1>3. Shown("identity", c) \subseteq c.filled
  BY <1>1, <1>2 DEF Shown, IdentityFields, Providers
<1>4. Shown("notifications", c) \subseteq c.filled
  BY <1>1 DEF Shown
<1>5. QED
  BY <1>3, <1>4 DEF Complete

LEMMA DefaultIsConfiguration == DEFAULT_STATE \in Configuration
BY DEF DEFAULT_STATE, Configuration, Fields, Providers

LEMMA IdleIsCall == Idle \in Call
BY DefaultIsConfiguration DEF Idle, Call

\* At the start nothing is under way.
LEMMA InitInv == Init => WizardInv
<1> SUFFICES ASSUME Init PROVE WizardInv
  OBVIOUS
<1>1. calls \in [Calls -> Call] /\ \A i \in Calls : ~calls[i].mounted
  BY DefaultIsConfiguration DEF Init, Idle, Call
<1>2. TypeOK
  BY <1>1, DefaultIsConfiguration DEF Init, TypeOK, Steps
<1>3. QED
  BY <1>1, <1>2 DEF Init, WizardInv, MountedIsLatest, OneMounted, ResultIsLatest

\* A submission is added when no call of the mount is under way.
LEMMA FinishKeepsInv ==
    ASSUME WizardInv, NEW i \in Calls, HandleFinish(i) PROVE WizardInv'
<1> USE WizardAssumption DEF WizardInv
<1>1. calls'[i] = [at |-> "sent", sent |-> state, mounted |-> TRUE]
  BY DEF HandleFinish, TypeOK
<1>2. \A j \in Calls \ {i} : calls'[j] = calls[j] /\ ~calls[j].mounted
  BY DEF HandleFinish, TypeOK
<1>3. calls' \in [Calls -> Call]
  BY DEF HandleFinish, TypeOK, Call
<1>4. TypeOK'
  <2>1. submitting' /\ \E j \in Calls : calls'[j].mounted
    BY <1>1 DEF HandleFinish
  <2>2. submits' \in Nat
    BY DEF HandleFinish, TypeOK
  <2>3. QED
    BY <1>3, <2>1, <2>2 DEF HandleFinish, TypeOK, form, timers
<1>5. MountedIsLatest'
  BY <1>1, <1>2 DEF HandleFinish, MountedIsLatest
<1>6. OneMounted'
  BY <1>1, <1>2 DEF OneMounted
<1>7. ResultIsLatest'
  BY DEF HandleFinish, ResultIsLatest
<1>8. QED
  BY <1>4, <1>5, <1>6, <1>7

\* An answer is shown, and the button comes back, by the one mounted call.
LEMMA AnswerKeepsInv ==
    ASSUME WizardInv, NEW i \in Calls, Answered(i) \/ Failed(i) PROVE WizardInv'
<1> USE WizardAssumption DEF WizardInv
<1>1. calls'[i] = Idle /\ \A j \in Calls \ {i} : calls'[j] = calls[j]
  BY DEF Answered, Failed, Ends, TypeOK
<1>2. calls' \in [Calls -> Call]
  BY IdleIsCall DEF Answered, Failed, Ends, TypeOK
<1>3. calls[i].mounted \in BOOLEAN
  BY DEF TypeOK, Call
<1>4. submitting' <=> \E j \in Calls : calls'[j].mounted
  <2>1. CASE calls[i].mounted
    <3>1. ~submitting' /\ \A j \in Calls \ {i} : ~calls[j].mounted
      BY <2>1 DEF Answered, Failed, OneMounted
    <3>2. QED
      BY <1>1, <3>1 DEF Idle
  <2>2. CASE ~calls[i].mounted
    <3>1. submitting' = submitting
      BY <2>2 DEF Answered, Failed
    <3>2. QED
      BY <1>1, <2>2, <3>1 DEF TypeOK, Idle
  <2>3. QED
    BY <2>1, <2>2
<1>5. strays' \in Nat /\ timer' \in BOOLEAN /\ flag' \in BOOLEAN
  <2>1. strays' \in Nat
    <3>1. strays' = strays \/ strays' = strays + 0 \/ strays' = strays + 1
      BY Zenon DEF Answered, Failed, StartTimer, timers
    <3>2. QED
      BY <3>1 DEF TypeOK
  <2>2. timer' \in BOOLEAN
    <3>1. timer' = TRUE \/ timer' = timer
      BY DEF Answered, Failed, StartTimer, timers
    <3>2. QED
      BY <3>1 DEF TypeOK
  <2>3. flag' \in BOOLEAN
    BY DEF Answered, Failed, TypeOK
  <2>4. QED
    BY <2>1, <2>2, <2>3
<1>6. result' \in SetupResponse \cup {None} /\ error' \in BOOLEAN
  BY <1>3, VerdictType DEF Answered, Failed, TypeOK
<1>7. submitting' \in BOOLEAN
  BY DEF Answered, Failed, TypeOK
<1>8. TypeOK'
  BY <1>2, <1>4, <1>5, <1>6, <1>7 DEF Answered, Failed, TypeOK, form, counts
<1>9. MountedIsLatest'
  <2> SUFFICES ASSUME NEW j \in Calls, calls'[j].mounted
               PROVE  /\ page' = "setup" /\ calls'[j].at = "sent"
                      /\ calls'[j].sent = latest' /\ result' = None
    BY DEF MountedIsLatest
  <2>1. j # i /\ calls'[j] = calls[j] /\ calls[j].mounted
    BY <1>1 DEF Idle
  <2>2. ~calls[i].mounted
    BY <2>1 DEF OneMounted
  <2>3. QED
    BY <2>1, <2>2 DEF Answered, Failed, MountedIsLatest
<1>10. OneMounted'
  BY <1>1 DEF OneMounted, Idle
<1>11. ResultIsLatest'
  BY DEF Answered, Failed, ResultIsLatest, MountedIsLatest
<1>12. QED
  BY <1>8, <1>9, <1>10, <1>11

\* A wizard that is left or loaded again leaves no call that is mounted.
LEMMA LeavingKeepsInv ==
    ASSUME WizardInv, Visit \/ Unmount \/ FullLoad PROVE WizardInv'
<1> USE WizardAssumption, DefaultIsConfiguration DEF WizardInv, NewWizard
<1>1. \A i \in Calls : ~calls'[i].mounted
  <2>1. CASE Visit
    BY <2>1 DEF Visit, MountedIsLatest
  <2>2. CASE Unmount
    BY <2>2 DEF Unmount, Idle, TypeOK, Call
  <2>3. CASE FullLoad
    BY <2>3 DEF FullLoad, Idle
  <2>4. QED
    BY <2>1, <2>2, <2>3
<1>2. calls' \in [Calls -> Call]
  <2>1. CASE Visit
    BY <2>1 DEF Visit, TypeOK
  <2>2. CASE Unmount
    <3>1. \A i \in Calls : [calls[i] EXCEPT !.mounted = FALSE] \in Call
      BY DEF TypeOK, Call
    <3>2. QED
      BY <2>2, <3>1, IdleIsCall DEF Unmount
  <2>3. CASE FullLoad
    BY <2>3, IdleIsCall DEF FullLoad
  <2>4. QED
    BY <2>1, <2>2, <2>3
<1>3. TypeOK'
  <2>1. /\ submitting' = FALSE /\ result' = None
        /\ step' \in Steps /\ state' \in Configuration /\ latest' \in Configuration
    BY DEF Visit, Unmount, FullLoad, Steps
  <2>2. visits' \in Nat /\ edits' \in Nat /\ submits' \in Nat /\ strays' \in Nat
    BY DEF Visit, Unmount, FullLoad, TypeOK, counts, timers
  <2>3. /\ flag' \in BOOLEAN /\ page' \in {"setup", "other"} /\ mounting' \in BOOLEAN
        /\ leaving' \in BOOLEAN /\ error' \in BOOLEAN /\ timer' \in BOOLEAN
    BY DEF Visit, Unmount, FullLoad, TypeOK, timers
  <2>4. QED
    BY <1>1, <1>2, <2>1, <2>2, <2>3 DEF TypeOK
<1>4. MountedIsLatest' /\ OneMounted'
  BY <1>1 DEF MountedIsLatest, OneMounted
<1>5. ResultIsLatest'
  BY DEF Visit, Unmount, FullLoad, ResultIsLatest
<1>6. QED
  BY <1>3, <1>4, <1>5

\* A change of the form leaves what was sent as it was.
LEMMA FormKeepsInv ==
    ASSUME WizardInv, page = "setup",
           step' \in Steps, state' \in Configuration, edits' \in Nat,
           UNCHANGED <<flag, page, mounting, leaving, outcome, calls, timers, latest,
                       visits, submits>>
    PROVE  WizardInv'
BY DEF WizardInv, TypeOK, MountedIsLatest, OneMounted, ResultIsLatest, outcome, timers

LEMMA StepKeepsInv == WizardInv /\ [Next]_vars => WizardInv'
<1> SUFFICES ASSUME WizardInv, [Next]_vars PROVE WizardInv'
  OBVIOUS
<1> USE WizardAssumption
<1>1. CASE Visit \/ Arrive \/ Leave \/ FullLoad
  BY <1>1, LeavingKeepsInv DEF Arrive, Leave
<1>2. CASE CheckFlag
  BY <1>2 DEF CheckFlag, WizardInv, TypeOK, MountedIsLatest, OneMounted, ResultIsLatest,
     form, outcome, timers, counts
<1>3. ASSUME NEW s \in Steps, GoTo(s) PROVE WizardInv'
  BY <1>3, FormKeepsInv DEF GoTo, WizardInv, TypeOK, counts
<1>4. ASSUME NEW f \in Editable, Type(f) PROVE WizardInv'
  <2>1. state' \in Configuration
    BY <1>4 DEF Type, WizardInv, TypeOK, Configuration
  <2>2. QED
    BY <1>4, <2>1, FormKeepsInv DEF Type, Edit, WizardInv, TypeOK
<1>5. ASSUME NEW p \in Providers, Choose(p) PROVE WizardInv'
  <2>1. state' \in Configuration
    BY <1>5 DEF Choose, WizardInv, TypeOK, Configuration
  <2>2. QED
    BY <1>5, <2>1, FormKeepsInv DEF Choose, Edit, WizardInv, TypeOK
<1>6. CASE Toggle
  <2>1. state' \in Configuration
    BY <1>6 DEF Toggle, WizardInv, TypeOK, Configuration
  <2>2. QED
    BY <1>6, <2>1, FormKeepsInv DEF Toggle, Edit, WizardInv, TypeOK
<1>7. ASSUME NEW i \in Calls, HandleFinish(i) PROVE WizardInv'
  BY <1>7, FinishKeepsInv
<1>8. ASSUME NEW i \in Calls, Answered(i) \/ Failed(i) PROVE WizardInv'
  BY <1>8, AnswerKeepsInv
<1>9. CASE TimerFires
  <2>1. strays' \in Nat
    BY <1>9 DEF TimerFires, WizardInv, TypeOK
  <2>2. timer' \in BOOLEAN /\ leaving' \in BOOLEAN
    BY <1>9 DEF TimerFires, WizardInv, TypeOK
  <2>3. QED
    BY <1>9, <2>1, <2>2 DEF TimerFires, WizardInv, TypeOK, MountedIsLatest, OneMounted,
       ResultIsLatest, form, outcome, counts
<1>10. CASE UNCHANGED vars
  BY <1>10 DEF vars, WizardInv, TypeOK, MountedIsLatest, OneMounted, ResultIsLatest,
     form, outcome, timers, counts
<1>11. QED
  BY <1>1, <1>2, <1>3, <1>4, <1>5, <1>6, <1>7, <1>8, <1>9, <1>10 DEF Next

THEOREM WizardInvHolds == Spec => []WizardInv
BY InitInv, StepKeepsInv, PTL DEF Spec

\* Type correctness, with the button disabled exactly while a call is under way.
THEOREM WizardTypeCorrect == Spec => []TypeOK
BY WizardInvHolds, PTL DEF WizardInv

\* Whatever the visitor edits, leaves and submits again, the verdict shown is
\* that on the configuration sent last.
THEOREM VerdictIsCurrent == Spec => []ResultIsLatest
BY WizardInvHolds, PTL DEF WizardInv

\* The flag is set by an answer, and only by one that accepts.
THEOREM FlagByAcceptance == Spec => FlagMeansComplete
<1>1. WizardInv /\ [Next]_vars =>
        [~flag /\ flag' =>
           \E i \in Calls : /\ calls[i].at = "sent" /\ calls'[i].at = "idle"
                            /\ Complete(calls[i].sent)]_vars
  <2> SUFFICES ASSUME WizardInv, Next, ~flag, flag'
               PROVE  \E i \in Calls : /\ calls[i].at = "sent" /\ calls'[i].at = "idle"
                                       /\ Complete(calls[i].sent)
    BY DEF vars
  <2>1. PICK i \in Calls : Answered(i)
    BY DEF Next, Visit, CheckFlag, Arrive, Leave, Unmount, FullLoad, GoTo, Type, Choose,
       Toggle, Edit, HandleFinish, Failed, TimerFires
  <2>2. Verdict(calls[i].sent).accepted
    BY <2>1 DEF Answered
  <2>3. calls[i].sent \in Configuration
    BY DEF WizardInv, TypeOK, Call
  <2>4. calls[i].at = "sent" /\ calls'[i].at = "idle"
    BY <2>1 DEF Answered, Ends, Idle, WizardInv, TypeOK
  <2>5. QED
    BY <2>2, <2>3, <2>4, AcceptedIsComplete
<1>2. QED
  BY <1>1, WizardInvHolds, PTL DEF Spec, FlagMeansComplete
=============================================================================
