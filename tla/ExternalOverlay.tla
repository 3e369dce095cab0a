-------------------------- MODULE ExternalOverlay --------------------------
(***************************************************************************)
(* The external index overlay (server/src/lsp/external_overlay.rs): the    *)
(* workspace and game-data layers behind one mutex, and the threads that   *)
(* replace them - the startup thread, the workspace update worker, and one *)
(* thread for each Workbench graph the editor delivers - while the main    *)
(* loop accepts file notifications and captures snapshots.                 *)
(*                                                                         *)
(* A step is one critical section of the mutex; what a thread computes     *)
(* between two of them depends only on what it read in the first.  A file  *)
(* is abstracted to the sequence number of the notification that carried   *)
(* it, 0 when the startup scan read it from disk; an index is abstracted   *)
(* to the files or the graph it was built from.  The mode is `loaded': in  *)
(* the other two modes no graph is ever loaded.  Progress events, logging  *)
(* and summaries are left out, and the event channel never fills here.     *)
(***************************************************************************)
EXTENDS Naturals, FiniteSets

CONSTANTS
  Paths,           \* the workspace's normalized script paths
  Graphs,          \* loaded add-on graphs, told apart by their scope
  Sources,         \* of "inventory", "dependencies", "none": what startup finds
  MaxExclusions,   \* MAX_DOCUMENT_EXCLUDED_WORKSPACE_INDEXES
  MaxSequence,     \* bound on the client's sequence numbers
  MaxGraphLoads    \* bound on delivered graphs

ASSUME BoundsAreNatural ==
  MaxExclusions \in Nat /\ MaxSequence \in Nat /\ MaxGraphLoads \in Nat

VARIABLES
  workspace,    \* the workspace layer of ExternalIndexState
  gameData,     \* its game-data layer
  status,       \* ExternalIndexStatus
  generation,   \* ExternalIndexState.generation
  queue,        \* WorkspaceUpdateQueue.pending
  worker,       \* the workspace update worker
  startup,      \* the startup thread
  loads,        \* the thread of each delivered graph
  events,       \* ExternalIndexChanged events on their way to the main loop
  main,         \* what the main loop has observed and captured
  newest        \* the newest report about each path that was received

vars == <<workspace, gameData, status, generation, queue, worker, startup,
          loads, events, main, newest>>

-----------------------------------------------------------------------------
Contents == 0 .. MaxSequence
Deleted == MaxSequence + 1   \* the None of a change, not a content
NoGraph == "none"
NoIndex == [graph |-> NoGraph, load |-> 0]
NoFiles == [p \in {} |-> {}]

(* BTreeMap::extend *)
Extend(f, g) ==
  [x \in (DOMAIN f) \union (DOMAIN g) |-> IF x \in DOMAIN g THEN g[x] ELSE f[x]]

(* Defect: a deletion is kept as if it were a file. *)
ApplyKeepsDeleted(files, changes) == Extend(files, changes)

(* The files after a batch of replacements and deletions. *)
Apply(files, changes) ==
  LET merged == Extend(files, changes)
  IN  [p \in {q \in DOMAIN merged : merged[q] # Deleted} |-> merged[p]]

Init ==
  /\ workspace = [files |-> NoFiles, exclusions |-> NoFiles,
                  liveChanges |-> NoFiles, generation |-> 0,
                  startupPending |-> TRUE, lastSequences |-> [p \in Paths |-> 0]]
  /\ gameData = [index |-> NoIndex, authority |-> "none", scope |-> NoGraph,
                 graphGeneration |-> 0]
  /\ status = "building"
  /\ generation = 0
  /\ queue = NoFiles
  /\ worker = [at |-> "idle", changes |-> NoFiles, files |-> NoFiles,
               generation |-> 0, startupPending |-> FALSE]
  /\ \E source \in Sources, graph \in Graphs :
       startup = [at |-> "optimistic", source |-> source, graph |-> graph,
                  baseline |-> NoFiles, files |-> NoFiles, generation |-> 0]
  /\ loads = [n \in {} |-> {}]
  /\ events = 0
  /\ main = [observed |-> 0, at |-> "idle", label |-> 0,
             files |-> NoFiles, index |-> NoIndex]
  /\ newest = [p \in Paths |-> [sequence |-> 0, content |-> Deleted]]

(* The status both publications of the workspace end with. *)
Layered(files, index, otherwise) ==
  IF files # NoFiles \/ index # NoIndex THEN "ready" ELSE otherwise

-----------------------------------------------------------------------------
(* The main loop: file notifications.                                      *)

(* Defect: reports are accepted in the order they arrive. *)
AcceptsAny(p, sequence) == TRUE

Accepts(p, sequence) == workspace.lastSequences[p] < sequence

(* update_workspace_file and delete_workspace_file, called by the main     *)
(* loop only: accept_workspace_sequence, submit to the latest-wins queue,  *)
(* and the dispatcher's tail, which observes the generation.  The editor   *)
(* reads a changed file before it reports it, so reports may arrive in any *)
(* order, or not at all.                                                   *)
ReportFile(p, sequence, content) ==
  /\ main.at = "idle"
  /\ newest' = IF sequence > newest[p].sequence
               THEN [newest EXCEPT ![p] = [sequence |-> sequence,
                                           content |-> content]]
               ELSE newest
  /\ IF Accepts(p, sequence)
     THEN /\ workspace' = [workspace EXCEPT !.lastSequences[p] = sequence]
          /\ queue' = Extend(queue, [q \in {p} |-> content])
     ELSE UNCHANGED <<workspace, queue>>
  /\ main' = [main EXCEPT !.observed = generation]
  /\ UNCHANGED <<gameData, status, generation, worker, startup, loads, events>>

-----------------------------------------------------------------------------
(* The workspace update worker.                                            *)

TakeBatch ==
  /\ worker.at = "idle"
  /\ queue # NoFiles
  /\ worker' = [worker EXCEPT !.at = "snapshot", !.changes = queue]
  /\ queue' = NoFiles
  /\ UNCHANGED <<workspace, gameData, status, generation, startup, loads,
                 events, main, newest>>

(* publish_workspace_changes reads what it will replace... *)
SnapshotWorkspace ==
  /\ worker.at = "snapshot"
  /\ worker' = [worker EXCEPT !.at = "publish",
                  !.files = workspace.files,
                  !.generation = workspace.generation,
                  !.startupPending = workspace.startupPending]
  /\ UNCHANGED <<workspace, gameData, status, generation, queue, startup,
                 loads, events, main, newest>>

PublishedChange ==
  \E p \in DOMAIN worker.changes :
    \/ worker.changes[p] # Deleted
    \/ p \in DOMAIN worker.files
    \/ worker.startupPending

(* What the critical section of publish_workspace_changes writes. *)
ReplaceWorkspace(exclusions) ==
  LET files == Apply(worker.files, worker.changes)
      bump == IF PublishedChange THEN 1 ELSE 0
  IN  /\ workspace' =
           [workspace EXCEPT
              !.files = files,
              !.exclusions = exclusions,
              !.liveChanges = IF worker.startupPending
                              THEN Extend(@, worker.changes) ELSE @,
              !.generation = @ + bump]
      /\ generation' = generation + bump
      /\ status' = Layered(files, gameData.index, "missing")
      /\ worker' = [worker EXCEPT !.at = IF PublishedChange THEN "announce"
                                         ELSE "idle",
                                  !.changes = NoFiles, !.files = NoFiles]

(* ... and replaces it.  Only the worker itself ever counts up the         *)
(* workspace generation, so the code's retry branch is the ELSE never      *)
(* taken: another publication in between goes unnoticed.                   *)
PublishWorkspace ==
  /\ worker.at = "publish"
  /\ IF workspace.generation = worker.generation THEN ReplaceWorkspace(NoFiles)
     ELSE /\ worker' = [worker EXCEPT !.at = "snapshot"]
          /\ UNCHANGED <<workspace, generation, status>>
  /\ UNCHANGED <<gameData, queue, startup, loads, events, main, newest>>

(* Defect: the worker's publication is not announced. *)
AnnounceWorkspaceSilently ==
  /\ worker.at = "announce"
  /\ worker' = [worker EXCEPT !.at = "idle"]
  /\ UNCHANGED <<workspace, gameData, status, generation, queue, startup,
                 loads, events, main, newest>>

AnnounceWorkspace ==
  /\ worker.at = "announce"
  /\ worker' = [worker EXCEPT !.at = "idle"]
  /\ events' = events + 1
  /\ UNCHANGED <<workspace, gameData, status, generation, queue, startup,
                 loads, main, newest>>

-----------------------------------------------------------------------------
(* The startup thread.                                                     *)

(* Defects: a publication that is not counted, or leaves the status. *)
PublishLoadedUncounted(graph, load) ==
  /\ gameData' = [gameData EXCEPT !.index = [graph |-> graph, load |-> load],
                    !.authority = "workbench", !.scope = graph]
  /\ status' = "ready"
  /\ UNCHANGED generation

PublishLoadedStillUpdating(graph, load) ==
  /\ gameData' = [gameData EXCEPT !.index = [graph |-> graph, load |-> load],
                    !.authority = "workbench", !.scope = graph]
  /\ generation' = generation + 1
  /\ UNCHANGED status

(* publish_loaded_addon_result *)
PublishLoaded(graph, load) ==
  /\ gameData' = [gameData EXCEPT !.index = [graph |-> graph, load |-> load],
                    !.authority = "workbench", !.scope = graph]
  /\ generation' = generation + 1
  /\ status' = "ready"

(* The cached projection of the startup inventory, published before any    *)
(* source is inspected, when the cache has some of it.                     *)
PublishOptimistic ==
  /\ startup.at = "optimistic"
  /\ startup.source = "inventory"
  /\ PublishLoaded(startup.graph, 0)
  /\ startup' = [startup EXCEPT !.at = "announceOptimistic"]
  /\ UNCHANGED <<workspace, queue, worker, loads, events, main, newest>>

SkipOptimistic ==
  /\ startup.at = "optimistic"
  /\ startup' = [startup EXCEPT !.at = "scan"]
  /\ UNCHANGED <<workspace, gameData, status, generation, queue, worker,
                 loads, events, main, newest>>

AnnounceOptimistic ==
  /\ startup.at = "announceOptimistic"
  /\ startup' = [startup EXCEPT !.at = "scan"]
  /\ events' = events + 1
  /\ UNCHANGED <<workspace, gameData, status, generation, queue, worker,
                 loads, main, newest>>

(* build_workspace_indexes: the files found, none when the scan fails. *)
ScanWorkspace ==
  /\ startup.at = "scan"
  /\ \E found \in SUBSET Paths :
       startup' = [startup EXCEPT !.at = "merge",
                                  !.baseline = [p \in found |-> 0]]
  /\ UNCHANGED <<workspace, gameData, status, generation, queue, worker,
                 loads, events, main, newest>>

(* Defect: edits made during startup are not merged over the scan. *)
MergeNothing ==
  /\ startup.at = "merge"
  /\ startup' = [startup EXCEPT !.at = "publish", !.files = startup.baseline,
                                !.generation = workspace.generation]
  /\ UNCHANGED <<workspace, gameData, status, generation, queue, worker,
                 loads, events, main, newest>>

MergeBaseline ==
  /\ startup.at = "merge"
  /\ startup' = [startup EXCEPT !.at = "publish",
                   !.files = Apply(startup.baseline, workspace.liveChanges),
                   !.generation = workspace.generation]
  /\ UNCHANGED <<workspace, gameData, status, generation, queue, worker,
                 loads, events, main, newest>>

(* What the startup source gave: with a source the layer is overwritten,   *)
(* by nothing at all when loading it failed.                               *)
StartupGameData(loaded) ==
  IF startup.source = "none" THEN gameData
  ELSE [gameData EXCEPT
          !.index = IF loaded THEN [graph |-> startup.graph, load |-> 0]
                    ELSE NoIndex,
          !.authority = IF ~ loaded THEN "none"
                        ELSE IF startup.source = "inventory" THEN "workbench"
                        ELSE "dependencies"]

PublishStartup ==
  /\ startup.at = "publish"
  /\ workspace.generation = startup.generation
  /\ \E loaded \in BOOLEAN, otherwise \in {"missing", "failed"} :
       /\ otherwise = "failed" \/ loaded \/ startup.source = "none"
       /\ otherwise = "failed" =>
            \/ ~ loaded /\ startup.source # "none"
            \/ startup.baseline = NoFiles
       /\ gameData' = StartupGameData(loaded)
       /\ status' = Layered(startup.files, gameData'.index, otherwise)
  /\ workspace' = [workspace EXCEPT !.files = startup.files,
                     !.exclusions = NoFiles, !.liveChanges = NoFiles,
                     !.startupPending = FALSE]
  /\ generation' = generation + 1
  /\ startup' = [startup EXCEPT !.at = "announce", !.files = NoFiles]
  /\ UNCHANGED <<queue, worker, loads, events, main, newest>>

RetryStartup ==
  /\ startup.at = "publish"
  /\ workspace.generation # startup.generation
  /\ startup' = [startup EXCEPT !.at = "merge"]
  /\ UNCHANGED <<workspace, gameData, status, generation, queue, worker,
                 loads, events, main, newest>>

AnnounceStartup ==
  /\ startup.at = "announce"
  /\ startup' = [startup EXCEPT !.at = "done"]
  /\ events' = events + 1
  /\ UNCHANGED <<workspace, gameData, status, generation, queue, worker,
                 loads, main, newest>>

-----------------------------------------------------------------------------
(* Delivered Workbench graphs.                                             *)

(* load_workbench_graph: the generation a thread carries is its name.      *)
DeliverGraph(graph) ==
  LET n == gameData.graphGeneration + 1
  IN  /\ main.at = "idle"
      /\ n <= MaxGraphLoads
      /\ gameData' = [gameData EXCEPT !.graphGeneration = n]
      /\ status' = "updating"
      /\ loads' = [m \in (DOMAIN loads) \union {n} |->
           IF m = n THEN [at |-> "match", graph |-> graph, warm |-> gameData.scope]
           ELSE loads[m]]
      /\ UNCHANGED <<workspace, generation, queue, worker, startup, events,
                     main, newest>>

(* Defect: any thread may publish, however old its graph. *)
NeverSuperseded(n) == TRUE

NotSuperseded(n) == gameData.graphGeneration = n

Goto(n, at) == loads' = [loads EXCEPT ![n].at = at]

(* A graph with the warm scope keeps the snapshot in place and promotes    *)
(* its authority; an unreadable inventory does not match.                  *)
PromoteWarmScope(n) ==
  /\ loads[n].at = "match"
  /\ loads[n].warm = loads[n].graph
  /\ IF NotSuperseded(n)
     THEN /\ gameData' = [gameData EXCEPT !.authority = "workbench"]
          /\ status' = "ready"
     ELSE UNCHANGED <<gameData, status>>
  /\ Goto(n, "announceWarm")
  /\ UNCHANGED <<workspace, generation, queue, worker, startup, events, main,
                 newest>>

LoadAnyway(n) ==
  /\ loads[n].at = "match"
  /\ Goto(n, "load")
  /\ UNCHANGED <<workspace, gameData, status, generation, queue, worker,
                 startup, events, main, newest>>

AnnounceWarm(n) ==
  /\ loads[n].at = "announceWarm"
  /\ Goto(n, "validate")
  /\ events' = events + 1
  /\ UNCHANGED <<workspace, gameData, status, generation, queue, worker,
                 startup, main, newest>>

(* loaded_addon_sources_are_current: valid or failed, the warm snapshot    *)
(* stays; changed sources load the graph after all.                        *)
ValidateWarm(n) ==
  /\ loads[n].at = "validate"
  /\ \/ Goto(n, "done") /\ UNCHANGED status
     \/ /\ Goto(n, "done")
        /\ status' = IF NotSuperseded(n) THEN "ready" ELSE status
     \/ Goto(n, "load") /\ UNCHANGED status
  /\ UNCHANGED <<workspace, gameData, generation, queue, worker, startup,
                 events, main, newest>>

(* load_or_build_loaded_addon_indexes returned for a superseded graph. *)
DiscardGraph(n) ==
  /\ loads[n].at = "load"
  /\ ~ NotSuperseded(n)
  /\ Goto(n, "done")
  /\ UNCHANGED <<workspace, gameData, status, generation, queue, worker,
                 startup, events, main, newest>>

PublishGraph(n) ==
  /\ loads[n].at = "load"
  /\ NotSuperseded(n)
  /\ PublishLoaded(loads[n].graph, n)
  /\ Goto(n, "announce")
  /\ UNCHANGED <<workspace, queue, worker, startup, events, main, newest>>

(* A failed or cancelled load clears the layer, but not the warm scope,    *)
(* and keeps one that startup found through project dependencies.          *)
FailGraph(n) ==
  /\ loads[n].at = "load"
  /\ NotSuperseded(n)
  /\ gameData' = IF gameData.authority = "dependencies" THEN gameData
                 ELSE [gameData EXCEPT !.index = NoIndex, !.authority = "none"]
  /\ generation' = generation + 1
  /\ status' = Layered(workspace.files, gameData'.index, "failed")
  /\ Goto(n, "announce")
  /\ UNCHANGED <<workspace, queue, worker, startup, events, main, newest>>

AnnounceGraph(n) ==
  /\ loads[n].at = "announce"
  /\ Goto(n, "done")
  /\ events' = events + 1
  /\ UNCHANGED <<workspace, gameData, status, generation, queue, worker,
                 startup, main, newest>>

-----------------------------------------------------------------------------
(* The main loop: events and captures.                                     *)

(* handle_internal_event, ExternalIndexChanged. *)
ObserveGeneration ==
  /\ main.at = "idle"
  /\ events > 0
  /\ events' = events - 1
  /\ main' = [main EXCEPT !.observed = generation]
  /\ UNCHANGED <<workspace, gameData, status, generation, queue, worker,
                 startup, loads, newest>>

(* What a handler passes to background work: it reads the generation, and  *)
(* then, in a second critical section, the layers.                         *)
CaptureGeneration ==
  /\ main.at = "idle"
  /\ main' = [main EXCEPT !.at = "capturing", !.label = generation]
  /\ UNCHANGED <<workspace, gameData, status, generation, queue, worker,
                 startup, loads, events, newest>>

(* snapshot_for_document_identity: the exclusion of a document the         *)
(* workspace has is cached.  A full cache first evicts its least path; the *)
(* model evicts any.                                                       *)
Evicted(exclusions) ==
  IF Cardinality(DOMAIN exclusions) < MaxExclusions THEN {exclusions}
  ELSE {[q \in (DOMAIN exclusions) \ {p} |-> exclusions[q]] :
          p \in DOMAIN exclusions}

CaptureSnapshot ==
  /\ main.at = "capturing"
  /\ main' = [main EXCEPT !.at = "idle", !.files = workspace.files,
                          !.index = gameData.index]
  /\ \/ UNCHANGED workspace
     \/ \E p \in DOMAIN workspace.files \ DOMAIN workspace.exclusions :
          \E kept \in Evicted(workspace.exclusions) :
            workspace' = [workspace EXCEPT
              !.exclusions = Extend(kept, [q \in {p} |-> workspace.files])]
  /\ UNCHANGED <<gameData, status, generation, queue, worker, startup, loads,
                 events, newest>>

-----------------------------------------------------------------------------
MainStep ==
  \/ \E p \in Paths, sequence \in 1 .. MaxSequence :
       \E content \in {sequence, Deleted} : ReportFile(p, sequence, content)
  \/ \E graph \in Graphs : DeliverGraph(graph)
  \/ ObserveGeneration
  \/ CaptureGeneration
  \/ CaptureSnapshot

WorkerStep ==
  \/ TakeBatch
  \/ SnapshotWorkspace
  \/ PublishWorkspace
  \/ AnnounceWorkspace

StartupStep ==
  \/ PublishOptimistic
  \/ SkipOptimistic
  \/ AnnounceOptimistic
  \/ ScanWorkspace
  \/ MergeBaseline
  \/ PublishStartup
  \/ RetryStartup
  \/ AnnounceStartup

LoadStep(n) ==
  \/ PromoteWarmScope(n)
  \/ LoadAnyway(n)
  \/ AnnounceWarm(n)
  \/ ValidateWarm(n)
  \/ DiscardGraph(n)
  \/ PublishGraph(n)
  \/ FailGraph(n)
  \/ AnnounceGraph(n)

Next ==
  \/ MainStep
  \/ WorkerStep
  \/ StartupStep
  \/ \E n \in DOMAIN loads : LoadStep(n)

Spec == Init /\ [][Next]_vars

(* Every thread keeps running and the main loop keeps taking events, a     *)
(* capture ending before the next one; nothing is assumed of the editor.   *)
FairSpec ==
  /\ Spec
  /\ WF_vars(WorkerStep) /\ WF_vars(StartupStep)
  /\ \A n \in 1 .. MaxGraphLoads : WF_vars(n \in DOMAIN loads /\ LoadStep(n))
  /\ WF_vars(CaptureSnapshot) /\ SF_vars(ObserveGeneration)

-----------------------------------------------------------------------------
FileMaps == UNION {[F -> Contents] : F \in SUBSET Paths}
ChangeMaps == UNION {[F -> Contents \union {Deleted}] : F \in SUBSET Paths}
Indexes == [graph : Graphs \union {NoGraph}, load : 0 .. MaxGraphLoads]

TypeOK ==
  /\ workspace.files \in FileMaps
  /\ workspace.liveChanges \in ChangeMaps
  /\ workspace.generation \in Nat
  /\ gameData.index \in Indexes
  /\ gameData.authority \in {"none", "workbench", "dependencies"}
  /\ gameData.scope \in Graphs \union {NoGraph}
  /\ status \in {"building", "updating", "ready", "missing", "failed"}
  /\ queue \in ChangeMaps /\ worker.changes \in ChangeMaps
  /\ worker.files \in FileMaps
  /\ startup.baseline \in FileMaps /\ startup.files \in FileMaps
  /\ DOMAIN loads = 1 .. gameData.graphGeneration
  /\ main.files \in FileMaps /\ main.index \in Indexes
  /\ generation \in Nat /\ events \in Nat /\ main.observed \in Nat

Holds(files, p, content) ==
  IF content = Deleted THEN p \notin DOMAIN files
  ELSE p \in DOMAIN files /\ files[p] = content

(* Of all reports about a file, in whatever order they came, the workspace *)
(* shows the newest one, or it is on its way: queued, or in the worker's   *)
(* batch.  Neither the startup merge nor a retried aggregation loses it.   *)
NewestReportWins ==
  \A p \in Paths : newest[p].sequence > 0 =>
    \/ p \in DOMAIN queue /\ queue[p] = newest[p].content
    \/ /\ p \notin DOMAIN queue
       /\ p \in DOMAIN worker.changes /\ worker.changes[p] = newest[p].content
    \/ /\ p \notin (DOMAIN queue \union DOMAIN worker.changes)
       /\ Holds(workspace.files, p, newest[p].content)

(* What was captured with the current generation's number is the current   *)
(* content: a generation names one content of both layers, and a capture   *)
(* that straddles a publication is labelled with the older number.         *)
GenerationNamesContent ==
  (main.at = "idle" /\ main.label = generation) =>
    main.files = workspace.files /\ main.index = gameData.index

(* The main loop never rests on an old generation: if it has not observed  *)
(* the current one, an event that will make it do so is under way.         *)
ChangesAreAnnounced ==
  main.observed # generation =>
    \/ events > 0
    \/ worker.at = "announce"
    \/ startup.at \in {"announceOptimistic", "announce"}
    \/ \E n \in DOMAIN loads : loads[n].at = "announce"

(* A cached exclusion is of the files the workspace has now, and there are *)
(* never more than the cache may hold.                                     *)
ExclusionsAreCurrent ==
  /\ Cardinality(DOMAIN workspace.exclusions) <= MaxExclusions
  /\ \A p \in DOMAIN workspace.exclusions :
       /\ p \in DOMAIN workspace.files
       /\ workspace.exclusions[p] = workspace.files

(* What is captured and what is cached is what the layers hold now.        *)
CapturesAreCurrent == GenerationNamesContent /\ ExclusionsAreCurrent

(* When no publisher is at work the status is a final one, and it is       *)
(* "ready" if either layer has something to show.                          *)
SettledStatus ==
  (/\ ~ workspace.startupPending
   /\ \A n \in DOMAIN loads : loads[n].at \in {"announce", "done"}) =>
    /\ status \notin {"building", "updating"}
    /\ (workspace.files # NoFiles \/ gameData.index # NoIndex) =>
         status = "ready"

(* A superseded graph never replaces the index of a later one.             *)
GraphsNeverRegress ==
  [][gameData'.index.load > 0 =>
       gameData'.index.load >= gameData.index.load]_vars

(* external_overlay.rs:1223-1224, of the startup publication: "publish     *)
(* only if no live edit raced the snapshot".  Once it is out, a file of    *)
(* the baseline scan that nothing was ever reported about is there.        *)
BaselineIsKept ==
  ~ workspace.startupPending =>
    \A p \in DOMAIN startup.baseline :
      newest[p].sequence = 0 => p \in DOMAIN workspace.files

(* docs/architecture.md:47-49, "A later live Workbench graph replaces this *)
(* explicitly provisional dependency scope": a delivered graph stays until *)
(* a newer one is delivered.                                               *)
DeliveredGraphStays ==
  [][gameData.index.load > 0 /\ gameData'.index.load = 0 =>
       \E n \in DOMAIN loads : n > gameData.index.load]_vars

(* docs/architecture.md:53-55, on promoting the warm scope: "Rust keeps    *)
(* that immutable snapshot in place".  What is labelled as the live        *)
(* Workbench graph is an index of that graph.                              *)
WorkbenchLabelIsTrue ==
  gameData.authority = "workbench" => gameData.index.graph = gameData.scope

(* Liveness: the newest report about a file is eventually shown.           *)
ReportsArePublished ==
  \A p \in Paths : []<>(newest[p].sequence > 0 =>
                          Holds(workspace.files, p, newest[p].content))

(* Liveness: the main loop catches up with every generation.               *)
MainLoopCatchesUp == []<>(main.observed = generation)
=============================================================================
