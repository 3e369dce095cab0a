------------------------ MODULE WorkbenchIntegration ------------------------
(***************************************************************************)
(* The consent and bootstrap of src/workbenchNetApi/integration/           *)
(* workbenchIntegration.ts: what the user is asked, when the managed       *)
(* bridge is installed, and when the promises that activation (extension   *)
(* .ts) and the language client wait for are settled.  An action is the    *)
(* code between two awaits.  The setting is changed by the user and by the *)
(* coordinator; its events reach the coordinator through the compiler      *)
(* controller, which exists once consent is settled.                       *)
(***************************************************************************)
EXTENDS Naturals

CONSTANTS
    MaxSettings,        \* bound on the user's changes of the setting
    MaxWorkbench        \* bound on Workbench starts and stops

ASSUME SettingsAreBounded == MaxSettings \in Nat /\ MaxWorkbench \in Nat

VARIABLES
    setting,            \* workbench.enabled: "unset", "on" or "off"
    approved,           \* the stored approval
    enabled, promptWhenDisabled,
    bridgeReady, consent,   \* the promises ready and consent: "pending", "yes" or "no"
    startup,            \* bootstrapStartup: its step and its locals
    startupResult,      \* "none", "yes" or "no"
    startAgain,         \* start() waits for the startup under way to end
    disableRequested,   \* disableRequestedDuringStartup
    listening,          \* the compiler controller forwards events
    notified,           \* a configuration event is on its way
    connected, requiresRestart,
    disconnected,       \* disconnectedAfterRequiredRestart
    bootstrapFinished, profileWasMissing,
    retry,              \* retryMissingProfile: its step; bootstrapInProgress
    workbench,          \* whether Workbench is open
    profile,            \* whether its profile directory exists
    settings, outages

promises == <<bridgeReady, consent>>
restart == <<requiresRestart, disconnected>>
external == <<workbench, profile, outages>>
integrationVars ==
    <<setting, approved, enabled, promptWhenDisabled, promises, startup, startupResult,
      startAgain, disableRequested, listening, notified, connected, restart,
      bootstrapFinished, profileWasMissing, retry, external, settings>>

StartupSteps ==
    {"none", "status", "confirm", "disable", "install", "enable", "process", "ended"}
Idle == [step |-> "none", approved |-> FALSE, running |-> FALSE, changed |-> FALSE,
         profile |-> FALSE]
InProgress == startup.step \notin {"none", "ended"}

\* A promise resolves once.
Resolved(promise, answer) == IF promise = "pending" THEN answer ELSE promise

----------------------------------------------------------------------------
(* start and the configuration.                                            *)

StartSkipped ==
    \/ startup.step # "none" /\ (InProgress \/ startupResult # "no" \/ ~enabled')

Start ==
    IF StartSkipped
    THEN /\ consent' = IF approved THEN Resolved(consent, "yes") ELSE consent
         /\ UNCHANGED <<bridgeReady, startup>>
    ELSE IF ~enabled' /\ (~promptWhenDisabled \/ approved)
    THEN /\ consent' = Resolved(consent, IF approved THEN "yes" ELSE "no")
         /\ bridgeReady' = Resolved(bridgeReady, "yes")
         /\ UNCHANGED startup
    ELSE /\ consent' = IF approved THEN Resolved(consent, "yes") ELSE consent
         /\ startup' = [Idle EXCEPT !.step = "status"]
         /\ UNCHANGED bridgeReady

Disconnect ==
    /\ connected' = FALSE
    /\ disconnected' = (disconnected \/ requiresRestart)

\* Mutant: a setting turned off during startup is not remembered.
ConfigurationChangedUnremembered ==
    /\ enabled' = (setting = "on")
    /\ UNCHANGED disableRequested
    /\ IF enabled'
       THEN /\ IF InProgress
               THEN startAgain' = TRUE /\ UNCHANGED <<promises, startup>>
               ELSE Start /\ UNCHANGED startAgain
            /\ UNCHANGED <<connected, disconnected>>
       ELSE Disconnect /\ UNCHANGED <<promises, startup, startAgain>>
    /\ UNCHANGED <<setting, approved, promptWhenDisabled, startupResult, requiresRestart,
                   bootstrapFinished, profileWasMissing, retry, external, settings>>

\* onWorkbenchConfigurationChanged
ConfigurationChanged ==
    /\ enabled' = (setting = "on")
    /\ IF enabled'
       THEN /\ disableRequested' = FALSE
            /\ IF InProgress
               THEN startAgain' = TRUE /\ UNCHANGED <<promises, startup>>
               ELSE Start /\ UNCHANGED startAgain
            /\ UNCHANGED <<connected, disconnected>>
       ELSE /\ disableRequested' = (disableRequested \/ (setting = "off" /\ ~approved))
            /\ Disconnect
            /\ UNCHANGED <<promises, startup, startAgain>>
    /\ UNCHANGED <<setting, approved, promptWhenDisabled, startupResult, requiresRestart,
                   bootstrapFinished, profileWasMissing, retry, external, settings>>

\* Activation goes on and the compiler controller starts.
CompilerStarts ==
    /\ consent # "pending" /\ ~listening
    /\ listening' = TRUE
    /\ notified' = FALSE
    /\ ConfigurationChanged

ConfigurationEvent ==
    /\ listening /\ notified
    /\ notified' = FALSE
    /\ ConfigurationChanged
    /\ UNCHANGED listening

\* The startup that was under way when the setting was turned on has ended.
StartsAgain ==
    /\ startAgain /\ ~InProgress
    /\ startAgain' = FALSE
    /\ UNCHANGED enabled
    /\ IF enabled /\ startupResult = "no" THEN Start ELSE UNCHANGED <<promises, startup>>
    /\ UNCHANGED <<setting, approved, promptWhenDisabled, startupResult, disableRequested,
                   listening, notified, connected, restart, bootstrapFinished,
                   profileWasMissing, retry, external, settings>>

----------------------------------------------------------------------------
(* bootstrapStartup.                                                       *)

EndStartup(result) ==
    /\ startup' = [Idle EXCEPT !.step = "ended"]
    /\ startupResult' = result

\* finishIfReady, with what its caller leaves in the fields.
FinishIfReady ==
    bridgeReady' =
        IF /\ bootstrapFinished' /\ connected' /\ (~requiresRestart' \/ disconnected')
           /\ ~profileWasMissing'
        THEN Resolved(bridgeReady, "yes") ELSE bridgeReady

\* From bootstrapFinished on: s is the startup's locals.
Conclude(s) ==
    /\ bootstrapFinished' = TRUE
    /\ profileWasMissing' = ~s.profile
    /\ UNCHANGED connected
    /\ CASE s.changed /\ ~enabled' ->
            EndStartup("no") /\ UNCHANGED <<bridgeReady, restart>>
         [] s.changed /\ enabled' ->        \* handleBridgeChange
            /\ startup' = [s EXCEPT !.step = "process"]
            /\ requiresRestart' = TRUE
            /\ disconnected' = FALSE
            /\ UNCHANGED <<bridgeReady, startupResult>>
         [] ~s.changed /\ ~s.running ->
            /\ bridgeReady' = Resolved(bridgeReady, "yes")
            /\ EndStartup("yes")
            /\ UNCHANGED restart
         [] ~s.changed /\ s.running ->
            /\ UNCHANGED restart
            /\ FinishIfReady
            /\ EndStartup("yes")

\* A failed or declined bootstrap.
GiveUp ==
    /\ bootstrapFinished' = TRUE
    /\ bridgeReady' = Resolved(bridgeReady, "no")
    /\ EndStartup("no")
    /\ UNCHANGED <<restart, profileWasMissing, connected>>

\* Mutant: the step after the answer depends on a running Workbench alone.
StatusAnswersRunning(ok, complete) ==
    /\ startup.step = "status"
    /\ startup' = [startup EXCEPT !.step = IF ok /\ workbench THEN "running" ELSE "confirm"]
    /\ UNCHANGED <<setting, approved, enabled, promptWhenDisabled, promises, startupResult,
                   startAgain, disableRequested, listening, notified, connected, restart,
                   bootstrapFinished, profileWasMissing, retry, external, settings>>

\* integration-status answers, or fails at its deadline; complete when
\* nothing is left to install.
StatusAnswers(ok, complete) ==
    LET s == [startup EXCEPT !.approved = approved, !.running = ok /\ workbench,
                             !.profile = profile] IN
    /\ startup.step = "status"
    /\ complete => ok /\ profile
    /\ UNCHANGED enabled
    /\ CASE ~approved ->
            /\ startup' = [s EXCEPT !.step = "confirm"]
            /\ UNCHANGED <<bridgeReady, startupResult, restart, bootstrapFinished,
                           profileWasMissing, connected>>
         [] approved /\ ~complete ->
            /\ startup' = [s EXCEPT !.step = "install"]
            /\ UNCHANGED <<bridgeReady, startupResult, restart, bootstrapFinished,
                           profileWasMissing, connected>>
         [] approved /\ complete /\ ~enabled ->
            /\ EndStartup("no")
            /\ UNCHANGED <<bridgeReady, restart, bootstrapFinished, profileWasMissing, connected>>
         [] approved /\ complete /\ enabled -> Conclude(s)
    /\ UNCHANGED <<setting, approved, promptWhenDisabled, consent, startAgain,
                   disableRequested, listening, notified, retry, external, settings>>

\* confirmInstall
UserAnswers(yes) ==
    /\ startup.step = "confirm"
    /\ startup' = [startup EXCEPT !.step = IF yes THEN "install" ELSE "disable"]
    /\ consent' = IF yes THEN Resolved(consent, "yes") ELSE consent
    \* disableWorkbench writes the setting
    /\ setting' = IF yes THEN setting ELSE "off"
    /\ notified' = (notified \/ ~yes)
    /\ UNCHANGED <<approved, enabled, promptWhenDisabled, bridgeReady, startupResult, startAgain,
                   disableRequested, listening, connected, restart, bootstrapFinished,
                   profileWasMissing, retry, external, settings>>

\* Mutant: a declined prompt settles readiness alone.
DeclineSettlesReady ==
    /\ startup.step = "disable"
    /\ UNCHANGED consent
    /\ GiveUp
    /\ UNCHANGED <<setting, approved, enabled, promptWhenDisabled, startAgain,
                   disableRequested, listening, notified, retry, external, settings>>

DeclineSettles ==
    /\ startup.step = "disable"
    /\ consent' = Resolved(consent, "no")
    /\ GiveUp
    /\ UNCHANGED <<setting, approved, enabled, promptWhenDisabled, startAgain,
                   disableRequested, listening, notified, retry, external, settings>>

\* bootstrap or maintain returns, with whether it found a profile; changed when
\* it replaced bridge files.
InstallSettles(ok, changed) ==
    LET s == [startup EXCEPT !.changed = changed, !.profile = profile] IN
    /\ startup.step = "install"
    /\ changed => ok
    /\ UNCHANGED enabled
    /\ CASE startup.approved /\ ~enabled ->
            /\ EndStartup("no")
            /\ UNCHANGED <<bridgeReady, restart, bootstrapFinished, profileWasMissing, connected,
                           setting, notified>>
         [] ~(startup.approved /\ ~enabled) /\ (~ok \/ (~startup.approved /\ disableRequested)) ->
            GiveUp /\ UNCHANGED <<setting, notified>>
         [] ok /\ ~startup.approved /\ ~disableRequested ->     \* enableWorkbench
            /\ startup' = [s EXCEPT !.step = "enable"]
            /\ setting' = "on"
            /\ notified' = (notified \/ setting # "on")
            /\ UNCHANGED <<bridgeReady, startupResult, restart, bootstrapFinished,
                           profileWasMissing, connected>>
         [] ok /\ startup.approved /\ enabled ->
            Conclude(s) /\ UNCHANGED <<setting, notified>>
    /\ UNCHANGED <<approved, promptWhenDisabled, consent, startAgain, disableRequested,
                   listening, retry, external, settings>>

\* The setting is written and the approval stored.
EnableSettles ==
    /\ startup.step = "enable"
    /\ enabled' = TRUE
    /\ approved' = TRUE
    /\ Conclude(startup)
    /\ UNCHANGED <<setting, promptWhenDisabled, consent, startAgain, disableRequested,
                   listening, notified, retry, external, settings>>

\* A write of the setting, the prompt or the bootstrap rejects.
StartupThrows ==
    /\ startup.step \in {"confirm", "disable", "install", "enable"}
    /\ consent' = Resolved(consent, "no")
    /\ GiveUp
    /\ UNCHANGED <<setting, approved, enabled, promptWhenDisabled, startAgain,
                   disableRequested, listening, notified, retry, external, settings>>

\* The end of handleBridgeChange: a running Workbench has to be restarted.
ProcessAnswered(ok) ==
    IF ok /\ workbench
    THEN UNCHANGED <<requiresRestart, bridgeReady>>
    ELSE requiresRestart' = FALSE /\ bridgeReady' = Resolved(bridgeReady, "yes")

StartupProcessAnswers(ok) ==
    /\ startup.step = "process"
    /\ ProcessAnswered(ok)
    /\ EndStartup("yes")
    /\ UNCHANGED <<setting, approved, enabled, promptWhenDisabled, consent, startAgain,
                   disableRequested, listening, notified, connected, disconnected,
                   bootstrapFinished, profileWasMissing, retry, external, settings>>

----------------------------------------------------------------------------
(* The connection.                                                         *)

\* onWorkbenchConnected, after a status call of the compiler controller.
WorkbenchConnects ==
    /\ listening /\ setting = "on" /\ workbench
    /\ enabled
    /\ connected' = TRUE
    /\ UNCHANGED <<restart, bootstrapFinished, profileWasMissing>>
    /\ IF retry = "none" /\ profileWasMissing
       THEN retry' = "install" /\ UNCHANGED bridgeReady
       ELSE /\ UNCHANGED retry
            /\ IF retry = "none" THEN FinishIfReady ELSE UNCHANGED bridgeReady
    /\ UNCHANGED <<setting, approved, enabled, promptWhenDisabled, consent, startup,
                   startupResult, startAgain, disableRequested, listening, notified,
                   external, settings>>

\* A failed status call, whether or not Workbench was closed.
WorkbenchDisconnects ==
    /\ listening /\ (connected \/ ~disconnected)
    /\ Disconnect
    /\ UNCHANGED <<setting, approved, enabled, promptWhenDisabled, promises, startup,
                   startupResult, startAgain, disableRequested, listening, notified,
                   requiresRestart, bootstrapFinished, profileWasMissing, retry, external,
                   settings>>

\* retryMissingProfile after its maintain call.
RetrySettles(ok, changed) ==
    /\ retry = "install"
    /\ changed => ok
    /\ UNCHANGED <<connected, bootstrapFinished>>
    /\ profileWasMissing' = IF enabled /\ ok THEN ~profile ELSE profileWasMissing
    /\ IF enabled /\ changed
       THEN /\ retry' = "process"
            /\ requiresRestart' = TRUE
            /\ disconnected' = FALSE
            /\ UNCHANGED bridgeReady
       ELSE /\ retry' = "none"
            /\ UNCHANGED restart
            /\ IF enabled /\ ~ok THEN bridgeReady' = Resolved(bridgeReady, "no") ELSE FinishIfReady
    /\ UNCHANGED <<setting, approved, enabled, promptWhenDisabled, consent, startup,
                   startupResult, startAgain, disableRequested, listening, notified,
                   external, settings>>

RetryProcessAnswers(ok) ==
    /\ retry = "process"
    /\ retry' = "none"
    /\ UNCHANGED <<connected, disconnected, bootstrapFinished, profileWasMissing>>
    /\ IF ok /\ workbench
       THEN UNCHANGED requiresRestart /\ FinishIfReady
       ELSE requiresRestart' = FALSE /\ bridgeReady' = Resolved(bridgeReady, "yes")
    /\ UNCHANGED <<setting, approved, enabled, promptWhenDisabled, consent, startup,
                   startupResult, startAgain, disableRequested, listening, notified,
                   external, settings>>

----------------------------------------------------------------------------
(* The user.                                                               *)

ChangeSetting(value) ==
    /\ setting # value
    /\ settings < MaxSettings
    /\ settings' = settings + 1
    /\ setting' = value
    /\ notified' = TRUE
    /\ UNCHANGED <<approved, enabled, promptWhenDisabled, promises, startup, startupResult,
                   startAgain, disableRequested, listening, connected, restart,
                   bootstrapFinished, profileWasMissing, retry, external>>

\* Workbench makes its profile when it first runs.
ToggleWorkbench ==
    /\ outages < MaxWorkbench
    /\ outages' = outages + 1
    /\ workbench' = ~workbench
    /\ profile' = TRUE
    /\ UNCHANGED <<setting, approved, enabled, promptWhenDisabled, promises, startup,
                   startupResult, startAgain, disableRequested, listening, notified,
                   connected, restart, bootstrapFinished, profileWasMissing, retry, settings>>

----------------------------------------------------------------------------
\* createWorkbenchIntegration and the start() of activation.
IntegrationInit ==
    /\ setting \in {"unset", "on", "off"}
    /\ approved \in BOOLEAN
    /\ enabled = (setting = "on")
    /\ promptWhenDisabled = (setting # "off")
    /\ LET started == enabled \/ (promptWhenDisabled /\ ~approved) IN
       /\ startup = IF started THEN [Idle EXCEPT !.step = "status"] ELSE Idle
       /\ bridgeReady = IF started THEN "pending" ELSE "yes"
       /\ consent = IF approved THEN "yes" ELSE IF started THEN "pending" ELSE "no"
    /\ startupResult = "none"
    /\ startAgain = FALSE /\ disableRequested = FALSE
    /\ listening = FALSE /\ notified = FALSE
    /\ connected = FALSE /\ requiresRestart = FALSE /\ disconnected = FALSE
    /\ bootstrapFinished = FALSE /\ profileWasMissing = FALSE
    /\ retry = "none"
    /\ workbench \in BOOLEAN
    /\ profile \in BOOLEAN /\ (workbench => profile)
    /\ settings = 0 /\ outages = 0

Events == CompilerStarts \/ ConfigurationEvent \/ StartsAgain

Bootstrap ==
    \/ \E ok, complete \in BOOLEAN : StatusAnswers(ok, complete)
    \/ \E yes \in BOOLEAN : UserAnswers(yes)
    \/ DeclineSettles
    \/ \E ok, changed \in BOOLEAN : InstallSettles(ok, changed)
    \/ EnableSettles
    \/ StartupThrows
    \/ \E ok \in BOOLEAN : StartupProcessAnswers(ok)

Retrying ==
    \/ \E ok, changed \in BOOLEAN : RetrySettles(ok, changed)
    \/ \E ok \in BOOLEAN : RetryProcessAnswers(ok)

User == ToggleWorkbench \/ \E value \in {"on", "off"} : ChangeSetting(value)

IntegrationNext ==
    \/ Events \/ Bootstrap \/ Retrying \/ User
    \/ WorkbenchConnects \/ WorkbenchDisconnects

IntegrationSpec == IntegrationInit /\ [][IntegrationNext]_integrationVars

\* The user answers the prompt, calls are answered or time out, and the
\* compiler controller reports a Workbench that keeps running.
IntegrationFairness ==
    /\ WF_integrationVars(Events) /\ WF_integrationVars(Bootstrap) /\ WF_integrationVars(Retrying)
    /\ WF_integrationVars(WorkbenchConnects)

IntegrationFairSpec == IntegrationSpec /\ IntegrationFairness

----------------------------------------------------------------------------
Startups ==
    [step : StartupSteps, approved : BOOLEAN, running : BOOLEAN, changed : BOOLEAN,
     profile : BOOLEAN]
Promises == {"pending", "yes", "no"}

\* The type of every variable.
IntegrationTypeOK ==
    /\ setting \in {"unset", "on", "off"}
    /\ bridgeReady \in Promises /\ consent \in Promises
    /\ startup \in Startups /\ startupResult \in {"none", "yes", "no"}
    /\ retry \in {"none", "install", "process"}
    /\ approved \in BOOLEAN /\ enabled \in BOOLEAN /\ promptWhenDisabled \in BOOLEAN
    /\ startAgain \in BOOLEAN /\ disableRequested \in BOOLEAN
    /\ listening \in BOOLEAN /\ notified \in BOOLEAN
    /\ connected \in BOOLEAN /\ requiresRestart \in BOOLEAN /\ disconnected \in BOOLEAN
    /\ bootstrapFinished \in BOOLEAN /\ profileWasMissing \in BOOLEAN
    /\ workbench \in BOOLEAN /\ profile \in BOOLEAN
    /\ settings \in 0 .. MaxSettings /\ outages \in 0 .. MaxWorkbench

(***************************************************************************)
(* docs/development.md: an explicitly disabled setting remains off.  Once  *)
(* the coordinator has heard that the user turned the setting off, it does *)
(* not turn it on, whatever it was installing meanwhile.                   *)
(***************************************************************************)
DisabledStaysOff ==
    [][setting = "off" /\ ~notified /\ listening /\ setting' = "on"
         => settings' # settings]_integrationVars

(***************************************************************************)
(* Activation never hangs on the consent gate: every way through start and *)
(* bootstrapStartup settles it, also a decline, a failure and an exception.*)
(***************************************************************************)
ConsentSettles == <>(consent # "pending")

(***************************************************************************)
(* The promise the language client waits for before it asks Workbench for  *)
(* its graph is settled, if the setting stays on and Workbench is in the   *)
(* end open, with its profile, and not waiting for a restart.              *)
(***************************************************************************)
ReadySettles ==
    <>[](setting = "on" /\ workbench /\ connected /\ (requiresRestart => disconnected))
        => <>(bridgeReady # "pending")

\* Nobody waits for ever: neither activation nor the language client.
StartupSettles == ConsentSettles /\ ReadySettles
=============================================================================
