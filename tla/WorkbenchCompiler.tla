------------------------- MODULE WorkbenchCompiler -------------------------
(***************************************************************************)
(* The controller of src/workbenchNetApi/compiler/workbenchCompiler.ts:    *)
(* it polls Workbench, saves and validates scripts, and shows the result.  *)
(* The extension host runs one callback at a time, so an action is the     *)
(* code between two awaits.  A text is the number of the edit that made    *)
(* it.  A timer is present or absent and fires at any time; an answer of   *)
(* the gateway (src/workbenchNetApi/gateway/workbenchGateway.ts) comes at  *)
(* any time, or as a failure at its deadline.                              *)
(***************************************************************************)
EXTENDS Naturals, FiniteSets

CONSTANTS
    Documents,          \* eligible scripts of the one open add-on
    None,
    StartupValidation,  \* startupValidationEnabled
    MaxEdits,           \* bound on the user's edits
    MaxConfigurations,  \* bound on configuration changes
    MaxOutages,         \* bound on starts and stops of Workbench
    MaxProbes           \* bound on status calls in flight

ASSUME CompilerAssumption ==
    /\ StartupValidation \in BOOLEAN
    /\ MaxEdits \in Nat /\ MaxConfigurations \in Nat
    /\ MaxOutages \in Nat /\ MaxProbes \in Nat \ {0}

VARIABLES
    buffer,             \* editor text of each script
    disk,               \* saved text of each script
    active,             \* script of the active editor, or None
    edits,              \* scriptEditGeneration
    configuration,      \* generation, enabled, saveOnIdle
    validationTimer,    \* request the idle timer will queue, or None
    pending,            \* pendingValidation, or None
    run,                \* the validation under way (validating), or None
    probeTimer,         \* generation the probe timer was set for, or None
    probes,             \* status calls in flight, by generation
    phase,              \* what the status item shows
    result,             \* lastValidationResult, its snapshot and staleness
    startup,            \* startupValidationAttempted
    bridgeInactive,     \* the failure diagnosis the gateway reported
    connected,          \* lastStatus?.isRunning
    graphWanted,        \* onWorkbenchGraphRefreshRequested not yet served
    disposed,
    workbench,          \* "closed", "idle" (not running) or "running"
    outages,            \* changes of workbench so far
    saveOwed            \* history: an accepted save not yet followed by a validation

editor == <<buffer, disk, active, edits>>
polling == <<probeTimer, probes>>
display == <<phase, result, bridgeInactive>>
external == <<workbench, outages>>
vars == <<editor, configuration, validationTimer, pending, run, polling, display,
          startup, connected, graphWanted, disposed, external, saveOwed>>

Generations == 1..(MaxConfigurations + 1)
Texts == 0..MaxEdits
Phases == {"disabled", "connecting", "ready", "validating", "unavailable"}
Requests == [generation : Generations, save : Documents \cup {None}]
Runs == [step : {"saving"}, request : Requests, text : Texts]
   \cup [step : {"compiling", "compiled"}, request : Requests, edits : Texts,
         dirty : BOOLEAN, snapshot : [Documents -> Texts]]

ASSUME NoneIsNoRun == None \notin Runs

Generation == configuration.generation
Dirty(d) == buffer[d] # disk[d]
\* dispose counts the generation up as well
Current(request) == ~disposed /\ request.generation = Generation

----------------------------------------------------------------------------
(* Parts of the handlers.  Each fixes the primed variables it names.       *)

\* markDiagnosticsStale
Outdated == IF result = None THEN None ELSE [result EXCEPT !.stale = TRUE]

\* Mutant: the diagnosis of a failure is shown as a phase of its own.
NoteInactive == result' = Outdated /\ phase' = "inactive" /\ connected' = FALSE

\* noteFailure
NoteFailure ==
    /\ result' = Outdated
    /\ phase' = "unavailable"
    /\ connected' = FALSE

\* The synchronous head of validate: the edit generation and the dirty
\* scripts are read, and the gateway is called.
Compiling(request) ==
    [step |-> "compiling", request |-> request, edits |-> edits,
     dirty |-> \E d \in Documents : disk'[d] # buffer[d], snapshot |-> disk']

\* queueValidation up to its first await.
Begun(request) ==
    IF request.save # None /\ disk'[request.save] # buffer[request.save]
    THEN [step |-> "saving", request |-> request, text |-> buffer[request.save]]
    ELSE Compiling(request)

\* A validation that reaches the gateway pays for the saves before it.
Owed(next, owed) == owed /\ ~(next # None /\ next.step = "compiling")

QueueValidation(request, owed) ==
    IF run # None
    THEN /\ pending' = request
         /\ saveOwed' = owed
         /\ UNCHANGED <<run, probeTimer, phase>>
    ELSE /\ run' = Begun(request)
         /\ probeTimer' = None
         /\ phase' = "validating"
         /\ saveOwed' = Owed(run', owed)
         /\ UNCHANGED pending

\* The finally block of queueValidation.  shown, timer and owed are what the
\* body left in phase, probeTimer and saveOwed.
Finish(shown, timer, owed) ==
    /\ pending' = None
    /\ IF disposed
       THEN run' = None /\ phase' = shown /\ probeTimer' = timer /\ saveOwed' = owed
       ELSE IF pending # None /\ Current(pending)
       THEN /\ run' = Begun(pending)
            /\ phase' = "validating"
            /\ probeTimer' = None
            /\ saveOwed' = Owed(run', owed)
       ELSE /\ run' = None
            /\ phase' = shown
            /\ probeTimer' = IF ~Current(run.request) /\ configuration.enabled
                             THEN Generation ELSE timer
            /\ saveOwed' = owed

----------------------------------------------------------------------------
(* The user and the configuration.                                         *)

EditDocument(d) ==
    /\ edits < MaxEdits
    /\ edits' = edits + 1
    \* An edit makes a new text, or undoes to the saved one.
    /\ \E text \in {edits + 1, disk[d]} : buffer' = [buffer EXCEPT ![d] = text]
    /\ IF disposed
       THEN UNCHANGED <<result, validationTimer, pending>>
       ELSE /\ result' = Outdated
            /\ IF configuration.saveOnIdle /\ active = d /\ configuration.enabled
               THEN /\ validationTimer' = [generation |-> Generation, save |-> d]
                    /\ pending' = IF run # None THEN None ELSE pending
               ELSE UNCHANGED <<validationTimer, pending>>
    /\ UNCHANGED <<disk, active, configuration, run, polling, phase, bridgeInactive,
                   startup, connected, graphWanted, disposed, external, saveOwed>>

\* The user saves a script; not the save that a validation itself started.
SaveDocument(d) ==
    /\ Dirty(d)
    /\ disk' = [disk EXCEPT ![d] = buffer[d]]
    /\ IF \/ run # None /\ run.step = "saving" /\ run.request.save = d
          \/ disposed \/ ~configuration.enabled
       THEN UNCHANGED <<validationTimer, pending, run, probeTimer, phase, saveOwed>>
       ELSE /\ validationTimer' = None
            /\ QueueValidation([generation |-> Generation, save |-> None], TRUE)
    /\ UNCHANGED <<buffer, active, edits, configuration, probes, result, bridgeInactive,
                   startup, connected, graphWanted, disposed, external>>

\* None is an editor of anything but an eligible script.
SwitchEditor(d) ==
    /\ active # d
    /\ active' = d
    /\ UNCHANGED <<buffer, disk, edits, configuration, validationTimer, pending, run,
                   polling, display, startup, connected, graphWanted, disposed, external,
                   saveOwed>>

\* requestManualValidation; unsupported is a workspace of several folders.
RequestManualValidation(unsupported) ==
    /\ ~disposed
    /\ UNCHANGED editor
    /\ CASE ~configuration.enabled ->
            /\ phase' = "disabled"
            /\ result' = Outdated
            /\ UNCHANGED <<pending, run, probeTimer, connected, saveOwed>>
         [] configuration.enabled /\ unsupported ->
            /\ NoteFailure
            /\ UNCHANGED <<pending, run, probeTimer, saveOwed>>
         [] OTHER ->
            /\ QueueValidation(
                 [generation |-> Generation,
                  save |-> IF active # None /\ Dirty(active) THEN active ELSE None],
                 saveOwed)
            /\ UNCHANGED <<result, connected>>
    /\ UNCHANGED <<configuration, validationTimer, probes, bridgeInactive, startup,
                   graphWanted, disposed, external>>

ApplyConfiguration(enabled, saveOnIdle) ==
    /\ ~disposed
    /\ Generation < MaxConfigurations + 1
    /\ configuration' = [generation |-> Generation + 1, enabled |-> enabled,
                         saveOnIdle |-> saveOnIdle]
    /\ validationTimer' = None
    /\ pending' = None
    /\ saveOwed' = FALSE
    /\ result' = Outdated
    /\ connected' = FALSE
    /\ phase' = IF enabled THEN "connecting" ELSE "disabled"
    /\ probeTimer' = IF enabled THEN Generation + 1 ELSE None
    /\ UNCHANGED <<editor, run, probes, startup, bridgeInactive, graphWanted, disposed,
                   external>>

Dispose ==
    /\ ~disposed
    /\ disposed' = TRUE
    /\ pending' = None
    /\ probeTimer' = None
    /\ validationTimer' = None
    /\ saveOwed' = FALSE
    /\ UNCHANGED <<editor, configuration, run, probes, display, startup, connected,
                   graphWanted, external>>

----------------------------------------------------------------------------
(* Validation.                                                             *)

\* The idle timer of scheduleValidation.
ValidationTimerFires ==
    /\ validationTimer # None
    /\ validationTimer' = None
    /\ UNCHANGED editor
    /\ IF Current(validationTimer) /\ active = validationTimer.save
       THEN QueueValidation(validationTimer, saveOwed)
       ELSE UNCHANGED <<run, pending, probeTimer, phase, saveOwed>>
    /\ UNCHANGED <<configuration, probes, result, bridgeInactive, startup,
                   connected, graphWanted, disposed, external>>

\* saveForValidation resolves; edits made meanwhile may have missed the file.
SaveSettles(saved) ==
    LET d == run.request.save IN
    /\ run # None /\ run.step = "saving"
    /\ \E text \in IF saved THEN {run.text, buffer[d]} ELSE {disk[d]} :
          disk' = [disk EXCEPT ![d] = text]
    /\ CASE ~Current(run.request) ->
            /\ Finish(phase, probeTimer, saveOwed)
            /\ UNCHANGED <<result, connected>>
         [] Current(run.request) /\ ~saved ->
            /\ result' = Outdated
            /\ connected' = FALSE
            /\ Finish("unavailable", Generation, FALSE)   \* the user is told
         [] Current(run.request) /\ saved ->
            /\ run' = Compiling(run.request)
            /\ saveOwed' = FALSE
            /\ UNCHANGED <<result, connected, pending, phase, probeTimer>>
    /\ UNCHANGED <<buffer, active, edits, configuration, validationTimer, probes,
                   bridgeInactive, startup, graphWanted, disposed, external>>

\* Workbench reads the saved scripts.
WorkbenchCompiles ==
    /\ run # None /\ run.step = "compiling"
    /\ workbench = "running"
    /\ run' = [run EXCEPT !.step = "compiled", !.snapshot = disk]
    /\ UNCHANGED <<editor, configuration, validationTimer, pending, polling, display,
                   startup, connected, graphWanted, disposed, external, saveOwed>>

\* Mutant: only edits since the request count.
StaleByEdits == run.edits # edits

\* staleReason of a completed validation
Stale ==
    \/ run.edits # edits
    \/ run.dirty
    \/ \E d \in Documents : Dirty(d)

ValidationSucceeds ==
    /\ run # None /\ run.step = "compiled"
    /\ UNCHANGED disk
    /\ IF ~Current(run.request)
       THEN /\ Finish(phase, probeTimer, saveOwed)
            /\ UNCHANGED <<result, startup>>
       ELSE /\ result' = [snapshot |-> run.snapshot, stale |-> Stale,
                          generation |-> run.request.generation]
            /\ startup' = TRUE   \* validationCompletedThisSession
            /\ Finish("ready", Generation, saveOwed)
    /\ UNCHANGED <<buffer, active, edits, configuration, validationTimer, probes,
                   bridgeInactive, connected, graphWanted, disposed, external>>

\* A refused, broken or late answer.  The gateway first looks for the cause
\* (GatewayDiagnoses), then the controller notes the failure.
ValidationFails ==
    /\ run # None /\ run.step \in {"compiling", "compiled"}
    /\ UNCHANGED disk
    /\ IF ~Current(run.request)
       THEN /\ Finish(phase, probeTimer, saveOwed)
            /\ UNCHANGED <<result, connected>>
       ELSE /\ result' = Outdated
            /\ connected' = FALSE
            /\ Finish("unavailable", Generation, saveOwed)
    /\ UNCHANGED <<buffer, active, edits, configuration, validationTimer, probes,
                   bridgeInactive, startup, graphWanted, disposed, external>>

----------------------------------------------------------------------------
(* Polling.                                                                *)

ProbeTimerFires ==
    /\ probeTimer # None
    /\ IF disposed \/ probeTimer # Generation \/ ~configuration.enabled
       THEN probeTimer' = None /\ UNCHANGED probes
       ELSE IF run # None
       THEN UNCHANGED polling          \* scheduled again
       ELSE /\ probes[Generation] < MaxProbes
            /\ probeTimer' = None
            /\ probes' = [probes EXCEPT ![Generation] = @ + 1]
    /\ UNCHANGED <<editor, configuration, validationTimer, pending, run, display, startup,
                   connected, graphWanted, disposed, external, saveOwed>>

ProbeIgnored(g) == disposed \/ g # Generation \/ run # None

\* getStatus fails or times out.
ProbeFails(g) ==
    /\ probes[g] > 0
    /\ probes' = [probes EXCEPT ![g] = @ - 1]
    /\ IF ProbeIgnored(g)
       THEN UNCHANGED <<result, phase, connected, probeTimer>>
       ELSE NoteFailure /\ probeTimer' = g
    /\ UNCHANGED <<editor, configuration, validationTimer, pending, run, bridgeInactive,
                   startup, graphWanted, disposed, external, saveOwed>>

\* Mutant: an idle Workbench is not asked again.
ProbeFindsIdleAndStops(g) ==
    /\ probes[g] > 0
    /\ workbench = "idle"
    /\ probes' = [probes EXCEPT ![g] = @ - 1]
    /\ UNCHANGED probeTimer
    /\ IF ProbeIgnored(g)
       THEN UNCHANGED <<phase, connected>>
       ELSE phase' = "connecting" /\ connected' = FALSE
    /\ UNCHANGED <<editor, configuration, validationTimer, pending, run, result,
                   bridgeInactive, startup, graphWanted, disposed, external, saveOwed>>

\* getStatus answers that the Net API is up without a running Workbench.
ProbeFindsIdle(g) ==
    /\ probes[g] > 0
    /\ workbench = "idle"
    /\ probes' = [probes EXCEPT ![g] = @ - 1]
    /\ IF ProbeIgnored(g)
       THEN UNCHANGED <<phase, connected, probeTimer>>
       ELSE phase' = "connecting" /\ connected' = FALSE /\ probeTimer' = g
    /\ UNCHANGED <<editor, configuration, validationTimer, pending, run, result,
                   bridgeInactive, startup, graphWanted, disposed, external, saveOwed>>

\* Mutant: only a new connection asks for the graph.
GraphRefreshOnConnect == ~connected

\* shouldRefreshWorkbenchGraph
GraphRefreshNeeded == ~connected \/ bridgeInactive

\* getStatus answers that Workbench runs; the first such answer of a session
\* asks for a validation.
ProbeFindsRunning(g) ==
    /\ probes[g] > 0
    /\ workbench = "running"
    /\ probes' = [probes EXCEPT ![g] = @ - 1]
    /\ UNCHANGED disk
    /\ IF ProbeIgnored(g)
       THEN UNCHANGED <<phase, connected, probeTimer, graphWanted, startup, run, pending,
                        saveOwed>>
       ELSE /\ connected' = TRUE
            /\ graphWanted' = (graphWanted \/ GraphRefreshNeeded)
            /\ IF StartupValidation /\ ~startup
               THEN /\ startup' = TRUE
                    /\ QueueValidation([generation |-> g, save |-> None], saveOwed)
               ELSE /\ phase' = "ready"
                    /\ probeTimer' = g
                    /\ UNCHANGED <<startup, run, pending, saveOwed>>
    /\ UNCHANGED <<buffer, active, edits, configuration, validationTimer, result,
                   bridgeInactive, disposed, external>>

\* inspectFailedNetApiCall of a call in flight finds that the running
\* Workbench does not know the bridge's functions.
GatewayDiagnoses(g) ==
    /\ \/ probes[g] > 0
       \/ run # None /\ run.step # "saving" /\ run.request.generation = g
    /\ ~disposed /\ g = Generation /\ workbench = "running"
    /\ bridgeInactive' = TRUE
    /\ UNCHANGED <<editor, configuration, validationTimer, pending, run, polling, phase,
                   result, startup, connected, graphWanted, disposed, external, saveOwed>>

\* The language client serves the refresh; a graph that arrives clears the
\* diagnosis (resetWorkbenchFailureNotification).
GraphRefreshSettles(arrived) ==
    /\ graphWanted
    /\ graphWanted' = FALSE
    /\ arrived => workbench = "running"
    /\ bridgeInactive' = (bridgeInactive /\ ~arrived)
    /\ UNCHANGED <<editor, configuration, validationTimer, pending, run, polling, phase,
                   result, startup, connected, disposed, external, saveOwed>>

WorkbenchChanges(state) ==
    /\ workbench # state
    /\ outages < MaxOutages
    /\ workbench' = state
    /\ outages' = outages + 1
    /\ UNCHANGED <<editor, configuration, validationTimer, pending, run, polling, display,
                   startup, connected, graphWanted, disposed, saveOwed>>

----------------------------------------------------------------------------
\* The state start() leaves after its applyConfiguration.
Init ==
    /\ buffer = [d \in Documents |-> 0]
    /\ disk = buffer
    /\ active \in Documents \cup {None}
    /\ edits = 0
    /\ \E enabled, idle \in BOOLEAN :
        /\ configuration = [generation |-> 1, enabled |-> enabled, saveOnIdle |-> idle]
        /\ phase = IF enabled THEN "connecting" ELSE "disabled"
        /\ probeTimer = IF enabled THEN 1 ELSE None
    /\ validationTimer = None
    /\ pending = None
    /\ run = None
    /\ probes = [g \in Generations |-> 0]
    /\ result = None
    /\ startup = FALSE
    /\ bridgeInactive = FALSE
    /\ connected = FALSE
    /\ graphWanted = FALSE
    /\ disposed = FALSE
    /\ workbench \in {"closed", "running"}
    /\ outages = 0
    /\ saveOwed = FALSE

User ==
    \/ \E d \in Documents : EditDocument(d) \/ SaveDocument(d)
    \/ \E d \in Documents \cup {None} : SwitchEditor(d)
    \/ \E unsupported \in BOOLEAN : RequestManualValidation(unsupported)
    \/ \E enabled, idle \in BOOLEAN : ApplyConfiguration(enabled, idle)
    \/ Dispose

Validation ==
    \/ ValidationTimerFires
    \/ \E saved \in BOOLEAN : SaveSettles(saved)
    \/ WorkbenchCompiles
    \/ ValidationSucceeds
    \/ ValidationFails

Probing ==
    \/ ProbeTimerFires
    \/ \E g \in Generations : ProbeFails(g) \/ ProbeFindsIdle(g) \/ ProbeFindsRunning(g)

Next ==
    \/ User \/ Validation \/ Probing
    \/ \E g \in Generations : GatewayDiagnoses(g)
    \/ \E arrived \in BOOLEAN : GraphRefreshSettles(arrived)
    \/ \E state \in {"closed", "idle", "running"} : WorkbenchChanges(state)

Spec == Init /\ [][Next]_vars

\* Timers fire, calls are answered or reach their deadline, a save settles.
\* Calls to a running Workbench do not all time out, nor do all refreshes of
\* its graph fail.
Fairness ==
    /\ WF_vars(ValidationTimerFires)
    /\ WF_vars(\E saved \in BOOLEAN : SaveSettles(saved))
    /\ WF_vars(ValidationSucceeds \/ ValidationFails)
    /\ WF_vars(ProbeTimerFires)
    /\ \A g \in Generations : WF_vars(ProbeFails(g) \/ ProbeFindsIdle(g) \/ ProbeFindsRunning(g))
    /\ SF_vars(\E g \in Generations : ProbeFindsRunning(g))
    /\ SF_vars(GraphRefreshSettles(TRUE))

FairSpec == Spec /\ Fairness

----------------------------------------------------------------------------
TypeOK ==
    /\ buffer \in [Documents -> Texts] /\ disk \in [Documents -> Texts]
    /\ active \in Documents \cup {None}
    /\ edits \in Texts
    /\ configuration \in [generation : Generations, enabled : BOOLEAN, saveOnIdle : BOOLEAN]
    /\ validationTimer \in Requests \cup {None}
    /\ pending \in Requests \cup {None}
    /\ run \in Runs \cup {None}
    /\ probeTimer \in Generations \cup {None}
    /\ probes \in [Generations -> 0..MaxProbes]
    /\ phase \in Phases
    /\ result = None \/ result \in [snapshot : [Documents -> Texts], stale : BOOLEAN,
                                   generation : Generations]
    /\ {startup, bridgeInactive, connected, graphWanted, disposed, saveOwed} \subseteq BOOLEAN

(***************************************************************************)
(* A compiler result that the user is not told may be outdated describes   *)
(* the text in every editor and on disk, under the current configuration,  *)
(* in spite of edits and saves while it was computed (validate,            *)
(* markDiagnosticsStale).                                                  *)
(***************************************************************************)
FreshMeansCurrent ==
    result # None /\ ~result.stale /\ ~disposed =>
        /\ result.snapshot = buffer
        /\ disk = buffer
        /\ result.generation = Generation

(***************************************************************************)
(* While the integration is enabled and no validation runs, a status call  *)
(* of the current configuration is in flight or scheduled: no way out of   *)
(* probe, validate or queueValidation forgets to poll on.                  *)
(***************************************************************************)
PollingNeverStops ==
    configuration.enabled /\ ~disposed /\ run = None =>
        probeTimer = Generation \/ probes[Generation] > 0

(***************************************************************************)
(* If Workbench keeps running and no more validations are asked for, the   *)
(* status item recovers, and so does a bridge that was reported inactive,  *)
(* because every heartbeat asks for the graph again until it arrives.      *)
(***************************************************************************)
Reconnects ==
    <>[](workbench = "running" /\ configuration.enabled /\ ~disposed /\ run = None)
        => []<>(phase = "ready") /\ []<>~bridgeInactive

(***************************************************************************)
(* README.md:64-65: "Workbench validation is also requested at session     *)
(* start and after an eligible save."  A save during a validation waits in *)
(* pendingValidation, which scheduleValidation drops for an idle timer     *)
(* that may then decline to start.                                         *)
(***************************************************************************)
SavedIsValidated ==
    saveOwed => run # None \/ pending # None \/ validationTimer # None
=============================================================================
