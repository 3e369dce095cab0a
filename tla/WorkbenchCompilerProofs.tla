----------------------- MODULE WorkbenchCompilerProofs -----------------------
(***************************************************************************)
(* Proofs about the compiler controller, for any scripts, edits and        *)
(* configurations.                                                         *)
(*                                                                         *)
(* Types and PollingNeverStops are inductive together.  FreshMeansCurrent  *)
(* is not: a result is judged when a run ends, from what the run recorded  *)
(* when it began.  CleanRunIsCurrent says that a run nobody edited since,  *)
(* and that began without unsaved text, still describes every script; and  *)
(* SavingIsStale that while a save is under way no fresh result is shown,  *)
(* since something was unsaved when the save began.                        *)
(***************************************************************************)
EXTENDS WorkbenchCompiler, TLAPS

Contents == [Documents -> Texts]
Results == [snapshot : Contents, stale : BOOLEAN, generation : Generations]

CleanRunIsCurrent ==
    run # None /\ run.step # "saving" =>
        /\ run.edits <= edits
        /\ run.edits = edits /\ ~run.dirty => run.snapshot = buffer /\ disk = buffer

SavingIsStale ==
    run # None /\ run.step = "saving" /\ ~disposed => result = None \/ result.stale

Fresh == FreshMeansCurrent /\ CleanRunIsCurrent /\ SavingIsStale

-----------------------------------------------------------------------------
LEMMA OutdatedIsStale ==
  ASSUME result = None \/ result \in Results
  PROVE  Outdated = None \/ (Outdated \in Results /\ Outdated.stale)
BY DEF Outdated, Results

LEMMA Bounds ==
  ASSUME TypeOK
  PROVE  /\ MaxEdits \in Nat /\ MaxConfigurations \in Nat /\ MaxProbes \in Nat
         /\ edits \in Nat /\ Generation \in Generations /\ Generation \in Nat
BY CompilerAssumption DEF TypeOK, Texts, Generation, Generations

(* What a validation records as it begins. *)
LEMMA CompilingRecords ==
  ASSUME TypeOK, NEW request \in Requests, disk' \in Contents
  PROVE  /\ Compiling(request) \in Runs
         /\ Compiling(request).step = "compiling"
         /\ Compiling(request).request = request
         /\ Compiling(request).edits = edits
         /\ ~Compiling(request).dirty =>
                Compiling(request).snapshot = buffer /\ disk' = buffer
<1>1. Compiling(request) \in Runs
  BY DEF TypeOK, Compiling, Runs, Contents
<1>2. (\A d \in Documents : disk'[d] = buffer[d]) => disk' = buffer
  BY DEF TypeOK, Contents
<1> QED
  BY <1>1, <1>2 DEF Compiling

LEMMA BegunRecords ==
  ASSUME TypeOK, NEW request \in Requests, disk' \in Contents
  PROVE  /\ Begun(request) \in Runs /\ Begun(request) # None
         /\ Begun(request).step = "saving" =>
                request.save \in Documents /\ disk'[request.save] # buffer[request.save]
         /\ Begun(request).step # "saving" =>
                /\ Begun(request).edits = edits
                /\ ~Begun(request).dirty =>
                        Begun(request).snapshot = buffer /\ disk' = buffer
<1>1. CASE request.save # None /\ disk'[request.save] # buffer[request.save]
  <2>1. request.save \in Documents
    BY <1>1 DEF Requests
  <2>2. Begun(request) = [step |-> "saving", request |-> request,
                          text |-> buffer[request.save]]
    BY <1>1 DEF Begun
  <2>3. Begun(request) \in Runs
    BY <2>1, <2>2 DEF TypeOK, Runs
  <2> QED
    BY <1>1, <2>1, <2>2, <2>3, NoneIsNoRun
<1>2. CASE ~(request.save # None /\ disk'[request.save] # buffer[request.save])
  <2>1. Begun(request) = Compiling(request)
    BY <1>2 DEF Begun
  <2> QED
    BY <2>1, CompilingRecords, NoneIsNoRun
<1> QED
  BY <1>1, <1>2

(* What QueueValidation and Finish leave, in the terms of the invariants. *)
LEMMA QueueEffect ==
  ASSUME TypeOK, NEW request \in Requests, disk' \in Contents, NEW owed \in BOOLEAN,
         QueueValidation(request, owed)
  PROVE  /\ run' \in Runs /\ run' # None
         /\ run # None => run' = run
         /\ run = None => run' = Begun(request)
         /\ pending' \in Requests \cup {None} /\ probeTimer' \in Generations \cup {None}
         /\ phase' \in Phases /\ saveOwed' \in BOOLEAN
<1>1. CASE run # None
  BY <1>1 DEF QueueValidation, TypeOK
<1>2. CASE run = None
  BY <1>2, BegunRecords DEF QueueValidation, TypeOK, Phases, Owed
<1> QED
  BY <1>1, <1>2

LEMMA FinishEffect ==
  ASSUME TypeOK, disk' \in Contents, NEW shown \in Phases,
         NEW timer \in Generations \cup {None}, NEW owed \in BOOLEAN,
         Finish(shown, timer, owed)
  PROVE  /\ run' \in Runs \cup {None} /\ pending' = None
         /\ probeTimer' \in Generations \cup {None}
         /\ phase' \in Phases /\ saveOwed' \in BOOLEAN
         /\ \/ run' = None /\ (\/ disposed
                               \/ probeTimer' = timer /\ Current(run.request)
                               \/ probeTimer' = timer /\ ~configuration.enabled
                               \/ probeTimer' = Generation)
            \/ pending \in Requests /\ ~disposed /\ run' = Begun(pending)
<1>1. CASE disposed
  BY <1>1 DEF Finish
<1>2. CASE ~disposed /\ pending # None /\ Current(pending)
  <2>1. pending \in Requests
    BY <1>2 DEF TypeOK
  <2> QED
    BY <1>2, <2>1, BegunRecords DEF Finish, Phases, Owed
<1>3. CASE ~disposed /\ ~(pending # None /\ Current(pending))
  BY <1>3, Bounds DEF Finish
<1> QED
  BY <1>1, <1>2, <1>3

-----------------------------------------------------------------------------
(* Types.                                                                   *)

LEMMA TypeInit == Init => TypeOK
<1> SUFFICES ASSUME Init PROVE TypeOK
  OBVIOUS
<1>1. 0 \in Texts /\ 1 \in Generations /\ 0 \in 0..MaxProbes
  BY CompilerAssumption DEF Texts, Generations
<1>2. /\ buffer \in [Documents -> Texts] /\ disk \in [Documents -> Texts]
      /\ edits \in Texts /\ probes \in [Generations -> 0..MaxProbes]
  BY <1>1 DEF Init
<1>3. /\ configuration \in [generation : Generations, enabled : BOOLEAN,
                            saveOnIdle : BOOLEAN]
      /\ phase \in Phases /\ probeTimer \in Generations \cup {None}
  BY <1>1 DEF Init, Phases
<1> QED
  BY <1>2, <1>3 DEF Init, TypeOK

LEMMA TypeStep == TypeOK /\ [Next]_vars => TypeOK'
<1> SUFFICES ASSUME TypeOK, [Next]_vars PROVE TypeOK'
  OBVIOUS
<1>0. /\ disk \in Contents /\ buffer \in Contents /\ run \in Runs \cup {None}
      /\ pending \in Requests \cup {None} /\ validationTimer \in Requests \cup {None}
      /\ probeTimer \in Generations \cup {None} /\ phase \in Phases
      /\ result = None \/ result \in Results
      /\ saveOwed \in BOOLEAN
  BY DEF TypeOK, Contents, Results
<1> USE DEF editor, polling, display, external
<1>1. ASSUME NEW d \in Documents, EditDocument(d)
      PROVE  TypeOK'
  <2>1. edits' \in Texts /\ buffer' \in Contents
    <3>1. edits + 1 \in Texts /\ disk[d] \in Texts
      BY <1>1, CompilerAssumption DEF EditDocument, TypeOK, Texts
    <3> QED
      BY <1>0, <1>1, <3>1 DEF EditDocument, Contents
  <2>2. result' = None \/ result' \in Results
    BY <1>0, <1>1, OutdatedIsStale DEF EditDocument
  <2>3. validationTimer' \in Requests \cup {None} /\ pending' \in Requests \cup {None}
    BY <1>0, <1>1, Bounds DEF EditDocument, Requests
  <2> QED
    BY <1>1, <2>1, <2>2, <2>3 DEF TypeOK, EditDocument, Contents, Results
<1>2. ASSUME NEW d \in Documents, SaveDocument(d)
      PROVE  TypeOK'
  <2>1. disk' \in Contents
    BY <1>0, <1>2 DEF SaveDocument, Contents
  <2>2. /\ run' \in Runs \cup {None} /\ pending' \in Requests \cup {None}
        /\ probeTimer' \in Generations \cup {None} /\ phase' \in Phases
        /\ saveOwed' \in BOOLEAN /\ validationTimer' \in Requests \cup {None}
    <3>1. [generation |-> Generation, save |-> None] \in Requests
      BY Bounds DEF Requests
    <3> QED
      BY <1>0, <1>2, <2>1, <3>1, QueueEffect DEF SaveDocument
  <2> QED
    BY <1>2, <2>1, <2>2 DEF TypeOK, SaveDocument, Contents
<1>3. ASSUME NEW d \in Documents \cup {None}, SwitchEditor(d)
      PROVE  TypeOK'
  BY <1>3 DEF TypeOK, SwitchEditor
<1>4. ASSUME NEW unsupported \in BOOLEAN, RequestManualValidation(unsupported)
      PROVE  TypeOK'
  <2>1. /\ run' \in Runs \cup {None} /\ pending' \in Requests \cup {None}
        /\ probeTimer' \in Generations \cup {None} /\ phase' \in Phases
        /\ saveOwed' \in BOOLEAN
    <3>1. [generation |-> Generation,
           save |-> IF active # None /\ Dirty(active) THEN active ELSE None] \in Requests
      BY Bounds DEF Requests, TypeOK
    <3>2. disk' \in Contents
      BY <1>0, <1>4 DEF RequestManualValidation
    <3> QED
      BY <1>0, <1>4, <3>1, <3>2, QueueEffect DEF RequestManualValidation, NoteFailure, Phases
  <2>2. /\ result' = None \/ result' \in Results
        /\ connected' \in BOOLEAN
    BY <1>0, <1>4, OutdatedIsStale DEF RequestManualValidation, NoteFailure, TypeOK
  <2> QED
    BY <1>4, <2>1, <2>2 DEF TypeOK, RequestManualValidation, Results, Contents
<1>5. ASSUME NEW enabled \in BOOLEAN, NEW saveOnIdle \in BOOLEAN,
             ApplyConfiguration(enabled, saveOnIdle)
      PROVE  TypeOK'
  <2>1. Generation + 1 \in Generations
    BY <1>5, Bounds DEF ApplyConfiguration, Generations
  <2>2. result' = None \/ result' \in Results
    BY <1>0, <1>5, OutdatedIsStale DEF ApplyConfiguration
  <2> QED
    BY <1>5, <2>1, <2>2 DEF TypeOK, ApplyConfiguration, Results, Contents, Phases
<1>6. ASSUME Dispose
      PROVE  TypeOK'
  BY <1>6 DEF TypeOK, Dispose
<1>7. ASSUME ValidationTimerFires
      PROVE  TypeOK'
  <2>1. validationTimer \in Requests /\ disk' \in Contents
    BY <1>0, <1>7 DEF ValidationTimerFires
  <2>2. /\ run' \in Runs \cup {None} /\ pending' \in Requests \cup {None}
        /\ probeTimer' \in Generations \cup {None} /\ phase' \in Phases
        /\ saveOwed' \in BOOLEAN
    BY <1>0, <1>7, <2>1, QueueEffect DEF ValidationTimerFires
  <2> QED
    BY <1>7, <2>2 DEF TypeOK, ValidationTimerFires
<1>8. ASSUME NEW saved \in BOOLEAN, SaveSettles(saved)
      PROVE  TypeOK'
  <2>1. run \in Runs /\ run.step = "saving" /\ run.request \in Requests
        /\ run.text \in Texts
    BY <1>0, <1>8 DEF SaveSettles, Runs
  <2>2. disk' \in Contents
    <3> DEFINE d == run.request.save
    <3>1. d \in Documents => buffer[d] \in Texts /\ disk[d] \in Texts
      BY <1>0 DEF Contents
    <3>2. PICK text \in IF saved THEN {run.text, buffer[d]} ELSE {disk[d]} :
             disk' = [disk EXCEPT ![d] = text]
      BY <1>8 DEF SaveSettles
    <3>3. CASE d \in Documents
      BY <1>0, <2>1, <3>1, <3>2, <3>3 DEF Contents
    <3>4. CASE d \notin Documents
      BY <1>0, <3>2, <3>4 DEF Contents
    <3> QED
      BY <3>3, <3>4
  <2>3. /\ run' \in Runs \cup {None} /\ pending' \in Requests \cup {None}
        /\ probeTimer' \in Generations \cup {None} /\ phase' \in Phases
        /\ saveOwed' \in BOOLEAN
    BY <1>0, <1>8, <2>1, <2>2, FinishEffect, CompilingRecords, Bounds
       DEF SaveSettles, Phases
  <2>4. /\ result' = None \/ result' \in Results
        /\ connected' \in BOOLEAN
    BY <1>0, <1>8, OutdatedIsStale DEF SaveSettles, TypeOK
  <2> QED
    BY <1>8, <2>2, <2>3, <2>4 DEF TypeOK, SaveSettles, Results, Contents
<1>9. ASSUME WorkbenchCompiles
      PROVE  TypeOK'
  <2>1. run \in Runs /\ run.step = "compiling"
    BY <1>0, <1>9 DEF WorkbenchCompiles
  <2>2. [run EXCEPT !.step = "compiled", !.snapshot = disk] \in Runs
    BY <1>0, <2>1 DEF Runs, Contents
  <2> QED
    BY <1>9, <2>2 DEF TypeOK, WorkbenchCompiles
<1>10. ASSUME ValidationSucceeds
       PROVE  TypeOK'
  <2>1. run \in Runs /\ run.step = "compiled" /\ disk' \in Contents
    BY <1>0, <1>10 DEF ValidationSucceeds
  <2>2. run.request \in Requests /\ run.snapshot \in Contents
    BY <2>1 DEF Runs, Contents
  <2>3. /\ run' \in Runs \cup {None} /\ pending' \in Requests \cup {None}
        /\ probeTimer' \in Generations \cup {None} /\ phase' \in Phases
        /\ saveOwed' \in BOOLEAN
    BY <1>0, <1>10, <2>1, FinishEffect, Bounds DEF ValidationSucceeds, Phases
  <2>4. [snapshot |-> run.snapshot, stale |-> Stale, generation |-> run.request.generation]
          \in Results
    BY <2>2 DEF Results, Requests, Stale
  <2>5. /\ result' = None \/ result' \in Results
        /\ startup' \in BOOLEAN
    BY <1>0, <1>10, <2>4 DEF ValidationSucceeds, TypeOK
  <2> QED
    BY <1>10, <2>3, <2>5 DEF TypeOK, ValidationSucceeds, Results, Contents
<1>11. ASSUME ValidationFails
       PROVE  TypeOK'
  <2>1. disk' \in Contents
    BY <1>0, <1>11 DEF ValidationFails
  <2>2. /\ run' \in Runs \cup {None} /\ pending' \in Requests \cup {None}
        /\ probeTimer' \in Generations \cup {None} /\ phase' \in Phases
        /\ saveOwed' \in BOOLEAN
    BY <1>0, <1>11, <2>1, FinishEffect, Bounds DEF ValidationFails, Phases
  <2>3. /\ result' = None \/ result' \in Results
        /\ connected' \in BOOLEAN
    BY <1>0, <1>11, OutdatedIsStale DEF ValidationFails, TypeOK
  <2> QED
    BY <1>11, <2>2, <2>3 DEF TypeOK, ValidationFails, Results, Contents
<1>12. ASSUME ProbeTimerFires
       PROVE  TypeOK'
  <2>1. probes' \in [Generations -> 0..MaxProbes]
    BY <1>12, Bounds DEF ProbeTimerFires, TypeOK
  <2>2. probeTimer' \in Generations \cup {None}
    BY <1>0, <1>12 DEF ProbeTimerFires
  <2> QED
    BY <1>12, <2>1, <2>2 DEF TypeOK, ProbeTimerFires
(* An answered status call is in flight no more. *)
<1>13. ASSUME NEW g \in Generations, probes[g] > 0, probes' = [probes EXCEPT ![g] = @ - 1]
       PROVE  probes' \in [Generations -> 0..MaxProbes]
  BY <1>13, Bounds DEF TypeOK
<1>14. ASSUME NEW g \in Generations, ProbeFails(g)
       PROVE  TypeOK'
  <2>1. /\ result' = None \/ result' \in Results
        /\ phase' \in Phases /\ connected' \in BOOLEAN
        /\ probeTimer' \in Generations \cup {None}
    BY <1>0, <1>14, OutdatedIsStale DEF ProbeFails, NoteFailure, TypeOK, Phases
  <2> QED
    BY <1>13, <1>14, <2>1 DEF TypeOK, ProbeFails, Results, Contents
<1>15. ASSUME NEW g \in Generations, ProbeFindsIdle(g)
       PROVE  TypeOK'
  BY <1>13, <1>15 DEF TypeOK, ProbeFindsIdle, Phases
<1>16. ASSUME NEW g \in Generations, ProbeFindsRunning(g)
       PROVE  TypeOK'
  <2>1. disk' \in Contents /\ [generation |-> g, save |-> None] \in Requests
    BY <1>0, <1>16 DEF ProbeFindsRunning, Requests
  <2>2. /\ run' \in Runs \cup {None} /\ pending' \in Requests \cup {None}
        /\ probeTimer' \in Generations \cup {None} /\ phase' \in Phases
        /\ saveOwed' \in BOOLEAN
    BY <1>0, <1>16, <2>1, QueueEffect DEF ProbeFindsRunning, Phases
  <2>3. {connected', graphWanted', startup'} \subseteq BOOLEAN
    BY <1>16 DEF ProbeFindsRunning, TypeOK, GraphRefreshNeeded
  <2> QED
    BY <1>13, <1>16, <2>2, <2>3 DEF TypeOK, ProbeFindsRunning
<1>17. ASSUME NEW g \in Generations, GatewayDiagnoses(g)
       PROVE  TypeOK'
  BY <1>17 DEF TypeOK, GatewayDiagnoses
<1>18. ASSUME NEW arrived \in BOOLEAN, GraphRefreshSettles(arrived)
       PROVE  TypeOK'
  BY <1>18 DEF TypeOK, GraphRefreshSettles
<1>19. ASSUME NEW state, WorkbenchChanges(state)
       PROVE  TypeOK'
  BY <1>19 DEF TypeOK, WorkbenchChanges
<1>20. CASE UNCHANGED vars
  BY <1>20 DEF TypeOK, vars
<1> QED
  BY <1>1, <1>2, <1>3, <1>4, <1>5, <1>6, <1>7, <1>8, <1>9, <1>10, <1>11, <1>12,
     <1>14, <1>15, <1>16, <1>17, <1>18, <1>19, <1>20
     DEF Next, User, Validation, Probing

-----------------------------------------------------------------------------
(* Polling.                                                                 *)

LEMMA PollingInit == Init => PollingNeverStops
BY DEF Init, PollingNeverStops, Generation

LEMMA PollingStep == TypeOK /\ PollingNeverStops /\ [Next]_vars => PollingNeverStops'
<1> SUFFICES ASSUME TypeOK, PollingNeverStops, [Next]_vars,
                    configuration'.enabled, ~disposed', run' = None
             PROVE  probeTimer' = Generation' \/ probes'[Generation'] > 0
  BY DEF PollingNeverStops
<1>0. Generation \in Generations /\ Generation \in Nat /\ probes \in [Generations -> Nat]
      /\ disk \in Contents /\ phase \in Phases /\ saveOwed \in BOOLEAN
      /\ probeTimer \in Generations \cup {None} /\ pending \in Requests \cup {None}
  BY Bounds DEF TypeOK, Contents
<1> USE DEF editor, polling, display, external
(* Where polling is as it was, and nothing else that matters changed. *)
<1>1. ASSUME UNCHANGED <<configuration, polling>>, ~disposed, run = None
      PROVE  probeTimer' = Generation' \/ probes'[Generation'] > 0
  BY <1>1 DEF PollingNeverStops, Generation
(* A request that finds no run starts one. *)
<1>2. ASSUME NEW request \in Requests, NEW owed \in BOOLEAN, disk' \in Contents,
             QueueValidation(request, owed)
      PROVE  FALSE
  BY <1>2, QueueEffect
(* The end of a run sets the timer, unless its own configuration is still *)
(* current and its body set it.                                           *)
<1>3. ASSUME NEW shown \in Phases, NEW owed \in BOOLEAN, disk' \in Contents,
             NEW timer \in Generations \cup {None}, Finish(shown, timer, owed),
             UNCHANGED <<configuration, disposed>>,
             Current(run.request) => timer = Generation
      PROVE  probeTimer' = Generation'
  BY <1>3, FinishEffect, BegunRecords DEF Generation
<1>4. ASSUME NEW d \in Documents, EditDocument(d)
      PROVE  probeTimer' = Generation' \/ probes'[Generation'] > 0
  BY <1>1, <1>4 DEF EditDocument
<1>5. ASSUME NEW d \in Documents, SaveDocument(d)
      PROVE  probeTimer' = Generation' \/ probes'[Generation'] > 0
  <2>1. disk' \in Contents /\ [generation |-> Generation, save |-> None] \in Requests
    BY <1>0, <1>5 DEF SaveDocument, Contents, Requests, TypeOK
  <2> QED
    BY <1>1, <1>2, <1>5, <2>1 DEF SaveDocument
<1>6. ASSUME NEW unsupported \in BOOLEAN, RequestManualValidation(unsupported)
      PROVE  probeTimer' = Generation' \/ probes'[Generation'] > 0
  <2>1. /\ [generation |-> Generation,
            save |-> IF active # None /\ Dirty(active) THEN active ELSE None] \in Requests
        /\ disk' \in Contents
    BY <1>0, <1>6 DEF Requests, TypeOK, RequestManualValidation
  <2> QED
    BY <1>0, <1>1, <1>2, <1>6, <2>1 DEF RequestManualValidation
<1>7. ASSUME NEW enabled \in BOOLEAN, NEW saveOnIdle \in BOOLEAN,
             ApplyConfiguration(enabled, saveOnIdle)
      PROVE  probeTimer' = Generation'
  BY <1>7 DEF ApplyConfiguration, Generation
<1>8. ASSUME ValidationTimerFires
      PROVE  probeTimer' = Generation' \/ probes'[Generation'] > 0
  <2>1. validationTimer \in Requests /\ disk' \in Contents
    BY <1>0, <1>8 DEF ValidationTimerFires, TypeOK
  <2> QED
    BY <1>0, <1>1, <1>2, <1>8, <2>1 DEF ValidationTimerFires
<1>9. ASSUME NEW saved \in BOOLEAN, SaveSettles(saved)
      PROVE  probeTimer' = Generation'
  <2>1. /\ disk' \in Contents /\ UNCHANGED <<configuration, disposed>>
        /\ run \in Runs /\ run.request \in Requests
    BY <1>9, TypeStep DEF SaveSettles, TypeOK, Contents, Runs
  <2>2. CASE ~Current(run.request)
    BY <1>0, <1>3, <1>9, <2>1, <2>2 DEF SaveSettles
  <2>3. CASE Current(run.request) /\ ~saved
    BY <1>0, <1>3, <1>9, <2>1, <2>3 DEF SaveSettles, Phases
  <2>4. CASE Current(run.request) /\ saved
    <3>1. Compiling(run.request) \in Runs
      BY <2>1, CompilingRecords
    <3> QED
      BY <1>9, <2>4, <3>1, NoneIsNoRun DEF SaveSettles
  <2> QED
    BY <2>2, <2>3, <2>4
<1>10. ASSUME WorkbenchCompiles
       PROVE  FALSE
  <2>1. run \in Runs /\ run.step = "compiling"
    BY <1>10 DEF WorkbenchCompiles, TypeOK
  <2>2. [run EXCEPT !.step = "compiled", !.snapshot = disk] \in Runs
    BY <1>0, <2>1 DEF Runs, Contents
  <2> QED
    BY <1>10, <2>2, NoneIsNoRun DEF WorkbenchCompiles
<1>11. ASSUME ValidationSucceeds \/ ValidationFails
       PROVE  probeTimer' = Generation'
  <2>1. disk' \in Contents /\ UNCHANGED <<configuration, disposed>>
    BY <1>0, <1>11 DEF ValidationSucceeds, ValidationFails
  <2> QED
    BY <1>0, <1>3, <1>11, <2>1 DEF ValidationSucceeds, ValidationFails, Phases
<1>12. ASSUME ProbeTimerFires
       PROVE  probeTimer' = Generation' \/ probes'[Generation'] > 0
  BY <1>0, <1>12 DEF ProbeTimerFires, PollingNeverStops, Generation
(* A status call of another configuration does not count, and the answer of *)
(* one of this configuration sets the timer or starts a run.                *)
<1>13. ASSUME NEW g \in Generations, ProbeFails(g) \/ ProbeFindsIdle(g)
       PROVE  probeTimer' = Generation' \/ probes'[Generation'] > 0
  BY <1>0, <1>13 DEF ProbeFails, ProbeFindsIdle, ProbeIgnored, PollingNeverStops, Generation
<1>14. ASSUME NEW g \in Generations, ProbeFindsRunning(g)
       PROVE  probeTimer' = Generation' \/ probes'[Generation'] > 0
  <2>1. disk' \in Contents /\ [generation |-> g, save |-> None] \in Requests
    BY <1>0, <1>14 DEF ProbeFindsRunning, Requests
  <2>2. CASE ProbeIgnored(g)
    BY <1>0, <1>14, <2>2 DEF ProbeFindsRunning, ProbeIgnored, PollingNeverStops, Generation
  <2>3. CASE ~ProbeIgnored(g)
    BY <1>0, <1>2, <1>14, <2>1, <2>3 DEF ProbeFindsRunning, ProbeIgnored, Generation
  <2> QED
    BY <2>2, <2>3
<1>15. CASE \/ \E d \in Documents \cup {None} : SwitchEditor(d)
            \/ Dispose
            \/ \E g \in Generations : GatewayDiagnoses(g)
            \/ \E arrived \in BOOLEAN : GraphRefreshSettles(arrived)
            \/ \E state \in {"closed", "idle", "running"} : WorkbenchChanges(state)
            \/ UNCHANGED vars
  BY <1>1, <1>15 DEF SwitchEditor, Dispose, GatewayDiagnoses, GraphRefreshSettles,
     WorkbenchChanges, vars
<1> QED
  BY <1>4, <1>5, <1>6, <1>7, <1>8, <1>9, <1>10, <1>11, <1>12, <1>13, <1>14, <1>15
     DEF Next, User, Validation, Probing

-----------------------------------------------------------------------------
(* Fresh results.                                                           *)

Stales(r) == r = None \/ r.stale

LEMMA FreshInit == Init => Fresh
BY DEF Init, Fresh, FreshMeansCurrent, CleanRunIsCurrent, SavingIsStale

(* Without a fresh result, and with the same run and texts. *)
LEMMA StaleStep ==
  ASSUME Fresh, Stales(result'), UNCHANGED <<buffer, disk, edits, run>>,
         disposed => disposed'
  PROVE  Fresh'
BY DEF Fresh, FreshMeansCurrent, CleanRunIsCurrent, SavingIsStale, Stales

(* Nothing that matters changes, or the controller is disposed. *)
LEMMA SameStep ==
  ASSUME Fresh, UNCHANGED <<buffer, disk, edits, run, result, configuration>>,
         disposed => disposed'
  PROVE  Fresh'
BY DEF Fresh, FreshMeansCurrent, CleanRunIsCurrent, SavingIsStale, Generation

(* A run that begins records the texts it finds; if it begins with a save, *)
(* a script is unsaved, and no result can be fresh.                        *)
LEMMA BegunStep ==
  ASSUME TypeOK, FreshMeansCurrent', NEW request \in Requests, disk' \in Contents,
         run' = Begun(request), UNCHANGED <<buffer, edits>>
  PROVE  Fresh'
<1>1. CleanRunIsCurrent'
  BY BegunRecords, Bounds DEF CleanRunIsCurrent
<1>2. SavingIsStale'
  BY BegunRecords DEF SavingIsStale, FreshMeansCurrent
<1> QED
  BY <1>1, <1>2 DEF Fresh

(* A request that is queued or begun does not touch the result. *)
LEMMA QueueStep ==
  ASSUME TypeOK, Fresh, NEW request \in Requests, NEW owed \in BOOLEAN,
         QueueValidation(request, owed), UNCHANGED <<buffer, disk, edits, configuration>>,
         result' = result \/ Stales(result'), UNCHANGED disposed
  PROVE  Fresh'
<1>1. disk' \in Contents
  BY DEF TypeOK, Contents
<1>2. FreshMeansCurrent'
  BY DEF Fresh, FreshMeansCurrent, Stales, Generation
<1>3. CASE run # None
  BY <1>2, <1>3, QueueEffect, <1>1
     DEF Fresh, CleanRunIsCurrent, SavingIsStale, Stales
<1>4. CASE run = None
  <2>1. run' = Begun(request)
    BY <1>1, <1>4, QueueEffect
  <2> QED
    BY <1>1, <1>2, <2>1, BegunStep
<1> QED
  BY <1>3, <1>4

(* The end of a run leaves none or begins the one that waited. *)
LEMMA FinishStep ==
  ASSUME TypeOK, FreshMeansCurrent', NEW shown \in Phases, NEW owed \in BOOLEAN,
         NEW timer \in Generations \cup {None}, disk' \in Contents,
         Finish(shown, timer, owed), UNCHANGED <<buffer, edits>>
  PROVE  Fresh'
<1>1. CASE run' = None
  BY <1>1 DEF Fresh, CleanRunIsCurrent, SavingIsStale
<1>2. CASE pending \in Requests /\ run' = Begun(pending)
  BY <1>2, BegunStep
<1> QED
  BY <1>1, <1>2, FinishEffect

LEMMA FreshStep == TypeOK /\ Fresh /\ [Next]_vars => Fresh'
<1> SUFFICES ASSUME TypeOK, Fresh, [Next]_vars PROVE Fresh'
  OBVIOUS
<1>0. /\ disk \in Contents /\ buffer \in Contents /\ run \in Runs \cup {None}
      /\ validationTimer \in Requests \cup {None} /\ phase \in Phases
      /\ probeTimer \in Generations \cup {None} /\ Generation \in Generations
      /\ result = None \/ result \in Results
      /\ saveOwed \in BOOLEAN /\ edits \in Nat
  BY Bounds DEF TypeOK, Contents, Results
<1>00. Stales(Outdated)
  BY <1>0, OutdatedIsStale DEF Stales
<1> USE DEF editor, polling, display, external
(* An edit outdates the result, and every run of before. *)
<1>1. ASSUME NEW d \in Documents, EditDocument(d)
      PROVE  Fresh'
  <2>1. edits' = edits + 1 /\ UNCHANGED <<run, disk, disposed>>
    BY <1>1 DEF EditDocument
  <2>2. ~disposed' => Stales(result')
    BY <1>00, <1>1 DEF EditDocument
  <2>3. run # None /\ run.step # "saving" => run.edits \in Nat
    BY <1>0 DEF Runs, Texts
  <2>4. CleanRunIsCurrent'
    BY <1>0, <2>1, <2>3 DEF Fresh, CleanRunIsCurrent
  <2> QED
    BY <2>2, <2>4 DEF Fresh, FreshMeansCurrent, SavingIsStale, Stales
(* With something to save, nothing is fresh and no run is clean. *)
<1>2. ASSUME NEW d \in Documents, SaveDocument(d)
      PROVE  Fresh'
  <2>1. disk # buffer /\ UNCHANGED <<buffer, edits, result, configuration, disposed>>
    BY <1>2 DEF SaveDocument, Dirty
  <2>2. disk' \in Contents /\ [generation |-> Generation, save |-> None] \in Requests
    BY <1>0, <1>2 DEF SaveDocument, Contents, Requests
  <2>3. FreshMeansCurrent'
    BY <2>1 DEF Fresh, FreshMeansCurrent
  <2>4. CASE run' = run
    BY <2>1, <2>3, <2>4 DEF Fresh, CleanRunIsCurrent, SavingIsStale
  <2>5. CASE run' = Begun([generation |-> Generation, save |-> None])
    BY <2>1, <2>2, <2>3, <2>5, BegunStep
  <2>6. run' = run \/ run' = Begun([generation |-> Generation, save |-> None])
    BY <1>2 DEF SaveDocument, QueueValidation
  <2> QED
    BY <2>4, <2>5, <2>6
<1>3. ASSUME NEW unsupported \in BOOLEAN, RequestManualValidation(unsupported)
      PROVE  Fresh'
  <2>1. [generation |-> Generation,
         save |-> IF active # None /\ Dirty(active) THEN active ELSE None] \in Requests
    BY <1>0 DEF Requests, TypeOK
  <2>2. UNCHANGED <<buffer, disk, edits, configuration, disposed>>
    BY <1>3 DEF RequestManualValidation
  <2>3. CASE configuration.enabled /\ ~unsupported
    BY <1>0, <1>3, <2>1, <2>2, <2>3, QueueStep DEF RequestManualValidation
  <2>4. CASE ~(configuration.enabled /\ ~unsupported)
    <3>1. Stales(result') /\ run' = run
      BY <1>00, <1>3, <2>4 DEF RequestManualValidation, NoteFailure
    <3> QED
      BY <2>2, <3>1, StaleStep
  <2> QED
    BY <2>3, <2>4
<1>4. ASSUME NEW enabled \in BOOLEAN, NEW saveOnIdle \in BOOLEAN,
             ApplyConfiguration(enabled, saveOnIdle)
      PROVE  Fresh'
  BY <1>00, <1>4, StaleStep DEF ApplyConfiguration
<1>5. ASSUME ValidationTimerFires
      PROVE  Fresh'
  <2>1. UNCHANGED <<buffer, disk, edits, configuration, disposed, result>>
        /\ validationTimer \in Requests
    BY <1>0, <1>5 DEF ValidationTimerFires
  <2>2. CASE QueueValidation(validationTimer, saveOwed)
    BY <1>0, <2>1, <2>2, QueueStep
  <2>3. CASE run' = run
    BY <2>1, <2>3, SameStep
  <2> QED
    BY <1>5, <2>2, <2>3 DEF ValidationTimerFires
(* While a save is under way nothing is fresh, whatever the save writes. *)
<1>6. ASSUME NEW saved \in BOOLEAN, SaveSettles(saved)
      PROVE  Fresh'
  <2>1. /\ run \in Runs /\ run.step = "saving" /\ run.request \in Requests
        /\ UNCHANGED <<buffer, edits, configuration, disposed>>
    BY <1>0, <1>6 DEF SaveSettles, Runs
  <2>2. disk' \in Contents
    BY <1>6, TypeStep DEF TypeOK, Contents
  <2>3. ~disposed => Stales(result) /\ Stales(result')
    BY <1>00, <1>6, <2>1, NoneIsNoRun DEF SaveSettles, Fresh, SavingIsStale, Stales
  <2>4. FreshMeansCurrent'
    BY <2>1, <2>3 DEF FreshMeansCurrent, Stales
  <2>5. CASE Current(run.request) /\ saved
    <3>1. run' = Compiling(run.request)
      BY <1>6, <2>5 DEF SaveSettles
    <3>2. CleanRunIsCurrent' /\ SavingIsStale'
      BY <1>0, <2>1, <2>2, <3>1, CompilingRecords DEF CleanRunIsCurrent, SavingIsStale
    <3> QED
      BY <2>4, <3>2 DEF Fresh
  <2>6. CASE ~Current(run.request)
    BY <1>0, <1>6, <2>1, <2>2, <2>4, <2>6, FinishStep DEF SaveSettles
  <2>7. CASE Current(run.request) /\ ~saved
    BY <1>0, <1>6, <2>1, <2>2, <2>4, <2>7, FinishStep DEF SaveSettles, Phases
  <2> QED
    BY <2>5, <2>6, <2>7
(* Workbench reads the files; those of a clean run are still the texts. *)
<1>7. ASSUME WorkbenchCompiles
      PROVE  Fresh'
  <2> DEFINE next == [run EXCEPT !.step = "compiled", !.snapshot = disk]
  <2>1. run \in Runs /\ run # None /\ run.step = "compiling"
    BY <1>0, <1>7 DEF WorkbenchCompiles
  <2>2. /\ next.step = "compiled" /\ next.snapshot = disk
        /\ next.edits = run.edits /\ next.dirty = run.dirty
    BY <2>1 DEF Runs
  <2>3. run' = next /\ UNCHANGED <<buffer, disk, edits, result, configuration, disposed>>
    BY <1>7 DEF WorkbenchCompiles
  <2> HIDE DEF next
  <2>4. CleanRunIsCurrent' /\ SavingIsStale'
    BY <2>1, <2>2, <2>3 DEF Fresh, CleanRunIsCurrent, SavingIsStale
  <2>5. FreshMeansCurrent'
    BY <2>3 DEF Fresh, FreshMeansCurrent, Generation
  <2> QED
    BY <2>4, <2>5 DEF Fresh
<1>8. ASSUME ValidationSucceeds
      PROVE  Fresh'
  <2>1. /\ run \in Runs /\ run # None /\ run.step = "compiled"
        /\ UNCHANGED <<buffer, disk, edits, configuration, disposed>>
        /\ disk' \in Contents
    BY <1>0, <1>8 DEF ValidationSucceeds
  <2>2. CASE ~Current(run.request)
    <3>1. FreshMeansCurrent'
      BY <1>8, <2>1, <2>2 DEF ValidationSucceeds, Fresh, FreshMeansCurrent, Generation
    <3> QED
      BY <1>0, <1>8, <2>1, <2>2, <3>1, FinishStep DEF ValidationSucceeds
  <2>3. CASE Current(run.request)
    <3>1. result' = [snapshot |-> run.snapshot, stale |-> Stale,
                     generation |-> run.request.generation]
      BY <1>8, <2>3 DEF ValidationSucceeds
    <3>2. ~Stale => run.edits = edits /\ ~run.dirty
      BY DEF Stale
    <3>3. ~Stale => run.snapshot = buffer /\ disk = buffer
      BY <2>1, <3>2 DEF Fresh, CleanRunIsCurrent
    <3>4. FreshMeansCurrent'
      BY <2>1, <2>3, <3>1, <3>3 DEF FreshMeansCurrent, Current, Generation
    <3> QED
      BY <1>0, <1>8, <2>1, <2>3, <3>4, FinishStep DEF ValidationSucceeds, Phases
  <2> QED
    BY <2>2, <2>3
<1>9. ASSUME ValidationFails
      PROVE  Fresh'
  <2>1. /\ UNCHANGED <<buffer, disk, edits, configuration, disposed>>
        /\ disk' \in Contents
    BY <1>0, <1>9 DEF ValidationFails
  <2>2. FreshMeansCurrent'
    BY <1>00, <1>9, <2>1
       DEF ValidationFails, Fresh, FreshMeansCurrent, Generation, Stales
  <2> QED
    BY <1>0, <1>9, <2>1, <2>2, FinishStep DEF ValidationFails, Phases
<1>10. ASSUME NEW g \in Generations, ProbeFails(g)
       PROVE  Fresh'
  <2>1. UNCHANGED <<buffer, disk, edits, run, configuration, disposed>>
    BY <1>10 DEF ProbeFails
  <2>2. result' = result \/ Stales(result')
    BY <1>00, <1>10 DEF ProbeFails, NoteFailure
  <2> QED
    BY <2>1, <2>2, SameStep, StaleStep
<1>11. ASSUME NEW g \in Generations, ProbeFindsRunning(g)
       PROVE  Fresh'
  <2>1. UNCHANGED <<buffer, disk, edits, configuration, disposed, result>>
        /\ [generation |-> g, save |-> None] \in Requests
    BY <1>11 DEF ProbeFindsRunning, Requests
  <2>2. CASE QueueValidation([generation |-> g, save |-> None], saveOwed)
    BY <1>0, <2>1, <2>2, QueueStep
  <2>3. CASE run' = run
    BY <2>1, <2>3, SameStep
  <2> QED
    BY <1>11, <2>2, <2>3 DEF ProbeFindsRunning
<1>12. CASE \/ \E d \in Documents \cup {None} : SwitchEditor(d)
            \/ Dispose \/ ProbeTimerFires
            \/ \E g \in Generations : ProbeFindsIdle(g) \/ GatewayDiagnoses(g)
            \/ \E arrived \in BOOLEAN : GraphRefreshSettles(arrived)
            \/ \E state \in {"closed", "idle", "running"} : WorkbenchChanges(state)
            \/ UNCHANGED vars
  BY <1>12, SameStep DEF SwitchEditor, Dispose, ProbeTimerFires, ProbeFindsIdle,
     GatewayDiagnoses, GraphRefreshSettles, WorkbenchChanges, vars
<1> QED
  BY <1>1, <1>2, <1>3, <1>4, <1>5, <1>6, <1>7, <1>8, <1>9, <1>10, <1>11, <1>12
     DEF Next, User, Validation, Probing

-----------------------------------------------------------------------------
(* The controller keeps its types: in particular every timer, waiting      *)
(* request and run carries a configuration that exists.                    *)
THEOREM CompilerTypeCorrect == Spec => []TypeOK
<1> QED
  BY TypeInit, TypeStep, PTL DEF Spec

(* While the integration is enabled and idle, the next status call is      *)
(* always scheduled or under way, whatever timers, answers, failures and   *)
(* changes of the configuration come in between.                           *)
THEOREM PollingGoesOn == Spec => []PollingNeverStops
<1> QED
  BY TypeInit, TypeStep, PollingInit, PollingStep, PTL DEF Spec

(* A result that is not marked stale is about the text that every editor   *)
(* and every file holds now, however edits, saves and runs interleave.     *)
THEOREM FreshIsCurrent == Spec => []FreshMeansCurrent
<1>1. Fresh => FreshMeansCurrent
  BY DEF Fresh
<1> QED
  BY <1>1, TypeInit, TypeStep, FreshInit, FreshStep, PTL DEF Spec
=============================================================================
