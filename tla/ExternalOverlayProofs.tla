----------------------- MODULE ExternalOverlayProofs -----------------------
(***************************************************************************)
(* Proofs about the external index overlay, for any paths, graphs, sources *)
(* and bounds.                                                             *)
(*                                                                         *)
(* Five inductive invariants, each proved with the help of those before    *)
(* it.  Types gives every variable its type.  Threads says what a thread   *)
(* may rely on between two of its critical sections: only the worker       *)
(* counts up the workspace generation, so what it read is still there      *)
(* unless the startup publication came between, and that one it will merge *)
(* over and announce.  ReportsKept, CapturesKept and StatusKept are the     *)
(* properties with what has to be remembered inside the threads.           *)
(***************************************************************************)
EXTENDS ExternalOverlay, FiniteSetTheorems, TLAPS

ExclusionMaps == UNION {[F -> FileMaps] : F \in SUBSET Paths}

Workspaces ==
  [files : FileMaps, exclusions : ExclusionMaps, liveChanges : ChangeMaps,
   generation : Nat, startupPending : BOOLEAN, lastSequences : [Paths -> Nat]]
GameData ==
  [index : Indexes, authority : {"none", "workbench", "dependencies"},
   scope : Graphs \union {NoGraph}, graphGeneration : 0 .. MaxGraphLoads]
Statuses == {"building", "updating", "ready", "missing", "failed"}
Workers ==
  [at : {"idle", "snapshot", "publish", "announce"}, changes : ChangeMaps,
   files : FileMaps, generation : Nat, startupPending : BOOLEAN]
Startups ==
  [at : {"optimistic", "announceOptimistic", "scan", "merge", "publish", "announce",
         "done"},
   source : Sources, graph : Graphs, baseline : FileMaps, files : FileMaps,
   generation : Nat]
Loads ==
  [at : {"match", "announceWarm", "validate", "load", "announce", "done"},
   graph : Graphs, warm : Graphs \union {NoGraph}]
Mains ==
  [observed : Nat, at : {"idle", "capturing"}, label : Nat, files : FileMaps,
   index : Indexes]
Reports == [sequence : 0 .. MaxSequence, content : Contents \union {Deleted}]

Types ==
  /\ workspace \in Workspaces
  /\ gameData \in GameData
  /\ status \in Statuses
  /\ generation \in Nat
  /\ queue \in ChangeMaps
  /\ worker \in Workers
  /\ startup \in Startups
  /\ loads \in [1 .. gameData.graphGeneration -> Loads]
  /\ events \in Nat
  /\ main \in Mains
  /\ newest \in [Paths -> Reports]
  /\ gameData.index.load <= gameData.graphGeneration

Threads ==
  /\ worker.at \in {"idle", "announce"} => worker.changes = NoFiles
  /\ worker.at \in {"snapshot", "publish"} => worker.changes # NoFiles
  /\ worker.at = "publish" =>
       /\ worker.generation = workspace.generation
       /\ workspace.startupPending => worker.startupPending
       /\ ~ worker.startupPending => worker.files = workspace.files
  /\ workspace.startupPending <=> startup.at \notin {"announce", "done"}
  /\ startup.generation <= workspace.generation

(* A report is queued, or in the worker's batch, or published: then it is  *)
(* in the layer, in the files the worker will merge into and, until the    *)
(* startup publication, in the live changes and in the merge made of them. *)
ReportKept(p) ==
  /\ newest[p].sequence = workspace.lastSequences[p]
  /\ newest[p].sequence > 0 =>
       \/ p \in DOMAIN queue /\ queue[p] = newest[p].content
       \/ /\ p \notin DOMAIN queue
          /\ p \in DOMAIN worker.changes /\ worker.changes[p] = newest[p].content
       \/ /\ p \notin (DOMAIN queue \union DOMAIN worker.changes)
          /\ Holds(workspace.files, p, newest[p].content)
          /\ worker.at = "publish" => Holds(worker.files, p, newest[p].content)
          /\ workspace.startupPending =>
               /\ p \in DOMAIN workspace.liveChanges
               /\ workspace.liveChanges[p] = newest[p].content
          /\ startup.at = "publish" /\ startup.generation = workspace.generation =>
               Holds(startup.files, p, newest[p].content)

ReportsKept == \A p \in Paths : ReportKept(p)

CapturesKept ==
  /\ GenerationNamesContent
  /\ main.label <= generation
  /\ IsFiniteSet(DOMAIN workspace.exclusions)
  /\ ExclusionsAreCurrent

StatusKept ==
  /\ status = "building" => workspace.startupPending
  /\ status = "updating" =>
       /\ gameData.graphGeneration > 0
       /\ loads[gameData.graphGeneration].at \in {"match", "load"}
  /\ workspace.files # NoFiles \/ gameData.index # NoIndex =>
       status \in {"ready", "updating"}

-----------------------------------------------------------------------------
(* Maps of files and of changes.                                           *)

LEMMA FileMapIs ==
  \A f : f \in FileMaps <=>
    f = [p \in DOMAIN f |-> f[p]] /\ DOMAIN f \subseteq Paths
      /\ \A p \in DOMAIN f : f[p] \in Contents
<1> SUFFICES ASSUME NEW f
             PROVE  f \in FileMaps <=>
                      f = [p \in DOMAIN f |-> f[p]] /\ DOMAIN f \subseteq Paths
                        /\ \A p \in DOMAIN f : f[p] \in Contents
  OBVIOUS
<1>1. f \in FileMaps <=> \E F \in SUBSET Paths : f \in [F -> Contents]
  BY Zenon DEF FileMaps
<1> QED
  BY <1>1

LEMMA ChangeMapIs ==
  \A f : f \in ChangeMaps <=>
    f = [p \in DOMAIN f |-> f[p]] /\ DOMAIN f \subseteq Paths
      /\ \A p \in DOMAIN f : f[p] \in Contents \union {Deleted}
<1> SUFFICES ASSUME NEW f
             PROVE  f \in ChangeMaps <=>
                      f = [p \in DOMAIN f |-> f[p]] /\ DOMAIN f \subseteq Paths
                        /\ \A p \in DOMAIN f : f[p] \in Contents \union {Deleted}
  OBVIOUS
<1>1. f \in ChangeMaps <=>
        \E F \in SUBSET Paths : f \in [F -> Contents \union {Deleted}]
  BY Zenon DEF ChangeMaps
<1> QED
  BY <1>1

LEMMA ExclusionMapIs ==
  \A f : f \in ExclusionMaps <=>
    f = [p \in DOMAIN f |-> f[p]] /\ DOMAIN f \subseteq Paths
      /\ \A p \in DOMAIN f : f[p] \in FileMaps
<1> SUFFICES ASSUME NEW f
             PROVE  f \in ExclusionMaps <=>
                      f = [p \in DOMAIN f |-> f[p]] /\ DOMAIN f \subseteq Paths
                        /\ \A p \in DOMAIN f : f[p] \in FileMaps
  OBVIOUS
<1>1. f \in ExclusionMaps <=> \E F \in SUBSET Paths : f \in [F -> FileMaps]
  BY Zenon DEF ExclusionMaps
<1> QED
  BY <1>1

LEMMA EmptyMaps ==
  /\ NoFiles \in FileMaps /\ NoFiles \in ChangeMaps /\ NoFiles \in ExclusionMaps
  /\ DOMAIN NoFiles = {}
  /\ \A f \in ChangeMaps : DOMAIN f = {} => f = NoFiles
<1>1. DOMAIN NoFiles = {} /\ NoFiles = [p \in DOMAIN NoFiles |-> NoFiles[p]]
  BY DEF NoFiles
<1>2. \A f \in ChangeMaps : DOMAIN f = {} => f = NoFiles
  BY ChangeMapIs DEF NoFiles
<1> QED
  BY <1>1, <1>2, FileMapIs, ChangeMapIs, ExclusionMapIs

(* Extend keeps what it is not given anew. *)
LEMMA ExtendIs ==
  \A f, g :
    /\ DOMAIN Extend(f, g) = (DOMAIN f) \union (DOMAIN g)
    /\ \A p \in DOMAIN g : Extend(f, g)[p] = g[p]
    /\ \A p \in (DOMAIN f) \ (DOMAIN g) : Extend(f, g)[p] = f[p]
BY DEF Extend

LEMMA ExtendChanges ==
  ASSUME NEW f \in ChangeMaps, NEW g \in ChangeMaps
  PROVE  Extend(f, g) \in ChangeMaps
<1> DEFINE merged == Extend(f, g)
<1>1. merged = [p \in DOMAIN merged |-> merged[p]]
  BY DEF Extend
<1>2. /\ DOMAIN merged = (DOMAIN f) \union (DOMAIN g)
      /\ \A p \in DOMAIN g : merged[p] = g[p]
      /\ \A p \in (DOMAIN f) \ (DOMAIN g) : merged[p] = f[p]
  BY DEF Extend
<1> HIDE DEF merged
<1> QED
  BY <1>1, <1>2, ChangeMapIs DEF merged

(* A batch of changes leaves files, in which what was deleted is missing,  *)
(* what was replaced is new and everything else is as before.              *)
LEMMA ApplyIs ==
  ASSUME NEW files \in FileMaps, NEW changes \in ChangeMaps
  PROVE  /\ Apply(files, changes) \in FileMaps
         /\ \A p \in DOMAIN changes :
              Holds(Apply(files, changes), p, changes[p])
         /\ \A p, content : p \notin DOMAIN changes /\ Holds(files, p, content) =>
              Holds(Apply(files, changes), p, content)
<1> DEFINE merged == Extend(files, changes)
           applied == Apply(files, changes)
<1>1. /\ DOMAIN merged = (DOMAIN files) \union (DOMAIN changes)
      /\ \A p \in DOMAIN changes : merged[p] = changes[p]
      /\ \A p \in (DOMAIN files) \ (DOMAIN changes) : merged[p] = files[p]
  BY DEF Extend
<1>2. /\ DOMAIN applied = {q \in DOMAIN merged : merged[q] # Deleted}
      /\ applied = [p \in DOMAIN applied |-> applied[p]]
      /\ \A p \in DOMAIN applied : applied[p] = merged[p]
  BY DEF Apply
<1>3. /\ DOMAIN files \subseteq Paths /\ DOMAIN changes \subseteq Paths
      /\ \A p \in DOMAIN files : files[p] \in Contents
      /\ \A p \in DOMAIN changes : changes[p] \in Contents \union {Deleted}
  BY FileMapIs, ChangeMapIs
<1>4. Deleted \notin Contents
  BY BoundsAreNatural DEF Deleted, Contents
<1> HIDE DEF merged, applied
<1>5. applied \in FileMaps
  BY <1>1, <1>2, <1>3, FileMapIs
<1>6. \A p \in DOMAIN changes : Holds(applied, p, changes[p])
  BY <1>1, <1>2 DEF Holds
<1>7. \A p, content : p \notin DOMAIN changes /\ Holds(files, p, content) =>
        Holds(applied, p, content)
  BY <1>1, <1>2, <1>3, <1>4 DEF Holds
<1> QED
  BY <1>5, <1>6, <1>7 DEF applied

(* Deletions of files that are not there leave everything as it is. *)
LEMMA ApplyNothing ==
  ASSUME NEW files \in FileMaps, NEW changes \in ChangeMaps,
         \A p \in DOMAIN changes : changes[p] = Deleted /\ p \notin DOMAIN files
  PROVE  Apply(files, changes) = files
<1> DEFINE merged == Extend(files, changes)
<1>1. /\ DOMAIN merged = (DOMAIN files) \union (DOMAIN changes)
      /\ \A p \in DOMAIN changes : merged[p] = Deleted
      /\ \A p \in DOMAIN files : merged[p] = files[p]
  BY DEF Extend
<1>2. /\ files = [p \in DOMAIN files |-> files[p]]
      /\ \A p \in DOMAIN files : files[p] # Deleted
  BY FileMapIs, BoundsAreNatural DEF Deleted, Contents
<1> HIDE DEF merged
<1>3. {q \in DOMAIN merged : merged[q] # Deleted} = DOMAIN files
  BY <1>1, <1>2
<1>4. Apply(files, changes) = [p \in DOMAIN files |-> merged[p]]
  BY <1>3 DEF Apply, merged
<1> QED
  BY <1>1, <1>2, <1>4

-----------------------------------------------------------------------------
(* Types.                                                                  *)

LEMMA EmptyIndex == NoIndex \in Indexes
BY BoundsAreNatural DEF NoIndex, Indexes

LEMMA InitTypes == Init => Types
<1> SUFFICES ASSUME Init PROVE Types
  OBVIOUS
<1>1. 0 \in 0 .. MaxGraphLoads /\ 0 \in 0 .. MaxSequence
  BY BoundsAreNatural
<1>2. /\ workspace \in Workspaces /\ gameData \in GameData /\ worker \in Workers
      /\ main \in Mains /\ startup \in Startups
  BY <1>1, EmptyMaps, EmptyIndex DEF Init, Workspaces, GameData, Workers, Mains,
     Startups
<1>3. newest \in [Paths -> Reports]
  BY <1>1 DEF Init, Reports
<1>4. loads \in [1 .. gameData.graphGeneration -> Loads]
  BY DEF Init
<1>5. gameData.index.load <= gameData.graphGeneration
  BY DEF Init, NoIndex
<1> QED
  BY <1>2, <1>3, <1>4, <1>5, EmptyMaps DEF Init, Types, Statuses

LEMMA LayeredStatus ==
  \A files, index : \A otherwise \in Statuses : Layered(files, index, otherwise) \in Statuses
BY DEF Layered, Statuses

LEMMA MainTypes == Types /\ MainStep => Types'
<1> SUFFICES ASSUME Types, MainStep PROVE Types'
  OBVIOUS
<1>1. ASSUME NEW p \in Paths, NEW sequence \in 1 .. MaxSequence,
             NEW content \in {sequence, Deleted}, ReportFile(p, sequence, content)
      PROVE  Types'
  <2>1. newest' \in [Paths -> Reports]
    BY <1>1, BoundsAreNatural DEF Types, ReportFile, Reports, Contents
  <2>2. workspace' \in Workspaces
    <3> DEFINE last == [workspace.lastSequences EXCEPT ![p] = sequence]
    <3>1. last \in [Paths -> Nat]
      BY DEF Types, Workspaces
    <3>2. workspace' = workspace \/ workspace' = [workspace EXCEPT !.lastSequences = last]
      BY <1>1 DEF ReportFile
    <3> HIDE DEF last
    <3> QED
      BY <3>1, <3>2 DEF Types, Workspaces
  <2>3. queue' \in ChangeMaps
    <3>1. [q \in {p} |-> content] \in ChangeMaps
      BY ChangeMapIs, BoundsAreNatural DEF Contents, Deleted
    <3> QED
      BY <1>1, <3>1, ExtendChanges DEF Types, ReportFile
  <2>4. main' \in Mains
    BY <1>1 DEF Types, ReportFile, Mains
  <2> QED
    BY <1>1, <2>1, <2>2, <2>3, <2>4 DEF Types, ReportFile
<1>2. ASSUME NEW graph \in Graphs, DeliverGraph(graph)
      PROVE  Types'
  <2>1. gameData' \in GameData /\ gameData'.graphGeneration = gameData.graphGeneration + 1
        /\ gameData'.index = gameData.index
    <3> DEFINE n == gameData.graphGeneration + 1
    <3>1. n \in 0 .. MaxGraphLoads /\ gameData' = [gameData EXCEPT !.graphGeneration = n]
      BY <1>2, BoundsAreNatural DEF Types, DeliverGraph, GameData
    <3> HIDE DEF n
    <3>2. gameData' \in GameData /\ gameData'.graphGeneration = n
          /\ gameData'.index = gameData.index
      BY <3>1 DEF Types, GameData
    <3> QED
      BY <3>2 DEF n
  <2>2. loads' \in [1 .. gameData'.graphGeneration -> Loads]
    BY <1>2, <2>1 DEF Types, DeliverGraph, GameData, Loads
  <2>3. gameData'.index.load <= gameData'.graphGeneration
    BY <2>1 DEF Types, GameData, Indexes
  <2> QED
    BY <1>2, <2>1, <2>2, <2>3 DEF Types, DeliverGraph, Statuses
<1>3. ASSUME ObserveGeneration PROVE Types'
  BY <1>3 DEF Types, ObserveGeneration, Mains
<1>4. ASSUME CaptureGeneration PROVE Types'
  BY <1>4 DEF Types, CaptureGeneration, Mains
<1>5. ASSUME CaptureSnapshot PROVE Types'
  <2>1. main' \in Mains
    BY <1>5 DEF Types, CaptureSnapshot, Mains, Workspaces, GameData
  <2>2. workspace' \in Workspaces
    <3>1. ASSUME NEW p \in DOMAIN workspace.files \ DOMAIN workspace.exclusions,
                 NEW kept \in Evicted(workspace.exclusions),
                 workspace' = [workspace EXCEPT
                   !.exclusions = Extend(kept, [q \in {p} |-> workspace.files])]
          PROVE  workspace' \in Workspaces
      <4>1. workspace.files \in FileMaps /\ workspace.exclusions \in ExclusionMaps
        BY DEF Types, Workspaces
      <4>2. p \in Paths
        BY <4>1, FileMapIs
      <4>3. kept \in ExclusionMaps
        <5>1. CASE Cardinality(DOMAIN workspace.exclusions) < MaxExclusions
          BY <4>1, <5>1 DEF Evicted
        <5>2. ASSUME NEW out \in DOMAIN workspace.exclusions,
                     kept = [q \in (DOMAIN workspace.exclusions) \ {out} |->
                               workspace.exclusions[q]]
              PROVE  kept \in ExclusionMaps
          BY <4>1, <5>2, ExclusionMapIs
        <5> QED
          BY <5>1, <5>2 DEF Evicted
      <4>4. Extend(kept, [q \in {p} |-> workspace.files]) \in ExclusionMaps
        BY <4>1, <4>2, <4>3, ExclusionMapIs DEF Extend
      <4> QED
        BY <3>1, <4>4 DEF Types, Workspaces
    <3> QED
      BY <1>5, <3>1 DEF Types, CaptureSnapshot
  <2> QED
    BY <1>5, <2>1, <2>2 DEF Types, CaptureSnapshot
<1> QED
  BY <1>1, <1>2, <1>3, <1>4, <1>5 DEF MainStep

LEMMA WorkerTypes == Types /\ WorkerStep => Types'
<1> SUFFICES ASSUME Types, WorkerStep PROVE Types'
  OBVIOUS
<1>1. ASSUME TakeBatch PROVE Types'
  BY <1>1, EmptyMaps DEF Types, TakeBatch, Workers
<1>2. ASSUME SnapshotWorkspace PROVE Types'
  BY <1>2 DEF Types, SnapshotWorkspace, Workers, Workspaces
<1>3. ASSUME PublishWorkspace PROVE Types'
  <2>1. CASE workspace.generation = worker.generation
    <3> DEFINE files == Apply(worker.files, worker.changes)
               bump == IF PublishedChange THEN 1 ELSE 0
               live == IF worker.startupPending
                       THEN Extend(workspace.liveChanges, worker.changes)
                       ELSE workspace.liveChanges
    <3>1. /\ worker.files \in FileMaps /\ worker.changes \in ChangeMaps
          /\ workspace.liveChanges \in ChangeMaps
          /\ workspace.generation \in Nat /\ generation \in Nat /\ bump \in Nat
      BY DEF Types, Workers, Workspaces
    <3>2. files \in FileMaps /\ live \in ChangeMaps /\ workspace.generation + bump \in Nat
      BY <3>1, ApplyIs, ExtendChanges
    <3> HIDE DEF files, bump, live
    <3>3. workspace' = [workspace EXCEPT
              !.files = files, !.exclusions = NoFiles,
              !.liveChanges = live, !.generation = workspace.generation + bump]
          /\ generation' = generation + bump
          /\ status' = Layered(files, gameData.index, "missing")
          /\ worker' = [worker EXCEPT !.at = IF PublishedChange THEN "announce"
                                             ELSE "idle",
                                      !.changes = NoFiles, !.files = NoFiles]
      BY <1>3, <2>1 DEF PublishWorkspace, ReplaceWorkspace, files, bump, live
    <3>4. workspace' \in Workspaces
      BY <3>1, <3>2, <3>3, EmptyMaps DEF Types, Workspaces
    <3>5. worker' \in Workers
      BY <3>3, EmptyMaps DEF Types, Workers
    <3>6. generation' \in Nat /\ status' \in Statuses
      BY <3>1, <3>3, LayeredStatus DEF Statuses
    <3> QED
      BY <1>3, <3>4, <3>5, <3>6 DEF Types, PublishWorkspace
  <2>2. CASE workspace.generation # worker.generation
    BY <1>3, <2>2 DEF Types, PublishWorkspace, Workers
  <2> QED
    BY <2>1, <2>2
<1>4. ASSUME AnnounceWorkspace PROVE Types'
  BY <1>4 DEF Types, AnnounceWorkspace, Workers
<1> QED
  BY <1>1, <1>2, <1>3, <1>4 DEF WorkerStep

LEMMA IndexTypes ==
  ASSUME Types, NEW graph \in Graphs, NEW n \in 0 .. gameData.graphGeneration
  PROVE  [graph |-> graph, load |-> n] \in Indexes
BY BoundsAreNatural DEF Types, GameData, Indexes

LEMMA StartupTypes == Types /\ StartupStep => Types'
<1> SUFFICES ASSUME Types, StartupStep PROVE Types'
  OBVIOUS
<1> USE DEF Statuses
<1>1. ASSUME PublishOptimistic PROVE Types'
  <2>1. startup.graph \in Graphs /\ gameData.graphGeneration \in Nat
    BY DEF Types, Startups, GameData
  <2>2. [graph |-> startup.graph, load |-> 0] \in Indexes
    BY <2>1, IndexTypes
  <2>3. gameData' \in GameData /\ gameData'.index.load = 0
        /\ gameData'.graphGeneration = gameData.graphGeneration
    BY <1>1, <2>1, <2>2 DEF Types, PublishOptimistic, PublishLoaded, GameData
  <2>4. startup' \in Startups
    BY <1>1 DEF Types, PublishOptimistic, Startups
  <2> QED
    BY <1>1, <2>1, <2>3, <2>4 DEF Types, PublishOptimistic, PublishLoaded
<1>2. ASSUME SkipOptimistic PROVE Types'
  BY <1>2 DEF Types, SkipOptimistic, Startups
<1>3. ASSUME AnnounceOptimistic PROVE Types'
  BY <1>3 DEF Types, AnnounceOptimistic, Startups
<1>4. ASSUME ScanWorkspace PROVE Types'
  <2>1. \A found \in SUBSET Paths : [p \in found |-> 0] \in FileMaps
    BY FileMapIs, BoundsAreNatural DEF Contents
  <2>2. startup' \in Startups
    BY <1>4, <2>1 DEF Types, ScanWorkspace, Startups
  <2> QED
    BY <1>4, <2>2 DEF Types, ScanWorkspace
<1>5. ASSUME MergeBaseline PROVE Types'
  <2>1. Apply(startup.baseline, workspace.liveChanges) \in FileMaps
    BY ApplyIs DEF Types, Startups, Workspaces
  <2>2. startup' \in Startups
    BY <1>5, <2>1 DEF Types, MergeBaseline, Startups, Workspaces
  <2> QED
    BY <1>5, <2>2 DEF Types, MergeBaseline
<1>6. ASSUME PublishStartup PROVE Types'
  <2>1. gameData' \in GameData /\ gameData'.graphGeneration = gameData.graphGeneration
        /\ gameData'.index.load <= gameData'.graphGeneration
    <3>1. PICK loaded \in BOOLEAN : gameData' = StartupGameData(loaded)
      BY <1>6 DEF PublishStartup
    <3>2. startup.graph \in Graphs /\ gameData.graphGeneration \in Nat
      BY DEF Types, Startups, GameData
    <3>3. [graph |-> startup.graph, load |-> 0] \in Indexes
      BY <3>2, IndexTypes
    <3>4. CASE startup.source = "none"
      BY <3>1, <3>4 DEF Types, StartupGameData
    <3>5. ASSUME NEW index \in Indexes, index.load = 0,
                 NEW authority \in {"none", "workbench", "dependencies"},
                 gameData' = [gameData EXCEPT !.index = index, !.authority = authority]
          PROVE  gameData' \in GameData
                 /\ gameData'.graphGeneration = gameData.graphGeneration
                 /\ gameData'.index.load <= gameData'.graphGeneration
      <4>1. gameData' \in GameData /\ gameData'.index = index
            /\ gameData'.graphGeneration = gameData.graphGeneration
        BY <3>5 DEF Types, GameData
      <4> QED
        BY <3>2, <3>5, <4>1
    <3>6. CASE startup.source # "none" /\ loaded
      <4> DEFINE authority == IF startup.source = "inventory" THEN "workbench"
                              ELSE "dependencies"
      <4>1. gameData' = [gameData EXCEPT !.index = [graph |-> startup.graph, load |-> 0],
                                         !.authority = authority]
        BY <3>1, <3>6 DEF StartupGameData
      <4> QED
        BY <3>3, <3>5, <4>1
    <3>7. CASE startup.source # "none" /\ ~ loaded
      <4>1. gameData' = [gameData EXCEPT !.index = NoIndex, !.authority = "none"]
        BY <3>1, <3>7 DEF StartupGameData
      <4> QED
        BY <3>5, <4>1, EmptyIndex DEF NoIndex
    <3> QED
      BY <3>4, <3>6, <3>7
  <2>2. workspace' \in Workspaces
    BY <1>6, EmptyMaps DEF Types, PublishStartup, Workspaces, Startups
  <2>3. startup' \in Startups
    BY <1>6, EmptyMaps DEF Types, PublishStartup, Startups
  <2>4. status' \in Statuses
    BY <1>6, LayeredStatus DEF PublishStartup
  <2> QED
    BY <1>6, <2>1, <2>2, <2>3, <2>4 DEF Types, PublishStartup
<1>7. ASSUME RetryStartup PROVE Types'
  BY <1>7 DEF Types, RetryStartup, Startups
<1>8. ASSUME AnnounceStartup PROVE Types'
  BY <1>8 DEF Types, AnnounceStartup, Startups
<1> QED
  BY <1>1, <1>2, <1>3, <1>4, <1>5, <1>6, <1>7, <1>8 DEF StartupStep

LEMMA LoadTypes == ASSUME Types, NEW n \in DOMAIN loads, LoadStep(n) PROVE Types'
<1> USE DEF Statuses
<1>0. /\ n \in 1 .. gameData.graphGeneration /\ gameData.graphGeneration \in Nat
      /\ loads[n] \in Loads
      /\ \A at \in {"match", "announceWarm", "validate", "load", "announce", "done"} :
           [loads EXCEPT ![n].at = at] \in [1 .. gameData.graphGeneration -> Loads]
  BY DEF Types, GameData, Loads
<1>1. ASSUME PromoteWarmScope(n) PROVE Types'
  <2>1. gameData' \in GameData /\ gameData'.graphGeneration = gameData.graphGeneration
        /\ gameData'.index = gameData.index
    BY <1>1 DEF Types, PromoteWarmScope, GameData
  <2> QED
    BY <1>0, <1>1, <2>1 DEF Types, PromoteWarmScope, Goto
<1>2. ASSUME LoadAnyway(n) PROVE Types'
  BY <1>0, <1>2 DEF Types, LoadAnyway, Goto
<1>3. ASSUME AnnounceWarm(n) PROVE Types'
  BY <1>0, <1>3 DEF Types, AnnounceWarm, Goto
<1>4. ASSUME ValidateWarm(n) PROVE Types'
  BY <1>0, <1>4 DEF Types, ValidateWarm, Goto
<1>5. ASSUME DiscardGraph(n) PROVE Types'
  BY <1>0, <1>5 DEF Types, DiscardGraph, Goto
<1>6. ASSUME PublishGraph(n) PROVE Types'
  <2>1. [graph |-> loads[n].graph, load |-> n] \in Indexes
    BY <1>0, IndexTypes DEF Loads
  <2>2. gameData' \in GameData /\ gameData'.graphGeneration = gameData.graphGeneration
        /\ gameData'.index.load = n
    BY <1>0, <1>6, <2>1 DEF Types, PublishGraph, PublishLoaded, GameData, Loads
  <2> QED
    BY <1>0, <1>6, <2>2 DEF Types, PublishGraph, PublishLoaded, Goto
<1>7. ASSUME FailGraph(n) PROVE Types'
  <2>1. gameData' \in GameData /\ gameData'.graphGeneration = gameData.graphGeneration
        /\ gameData'.index.load <= gameData.graphGeneration
    <3>1. CASE gameData' = gameData
      BY <3>1 DEF Types
    <3>2. CASE gameData' = [gameData EXCEPT !.index = NoIndex, !.authority = "none"]
      <4>1. gameData' \in GameData /\ gameData'.graphGeneration = gameData.graphGeneration
            /\ gameData'.index = NoIndex
        BY <3>2, EmptyIndex DEF Types, GameData
      <4> QED
        BY <1>0, <4>1 DEF NoIndex
    <3> QED
      BY <1>7, <3>1, <3>2 DEF FailGraph
  <2>2. status' \in Statuses
    BY <1>7, LayeredStatus DEF FailGraph
  <2> QED
    BY <1>0, <1>7, <2>1, <2>2 DEF Types, FailGraph, Goto
<1>8. ASSUME AnnounceGraph(n) PROVE Types'
  BY <1>0, <1>8 DEF Types, AnnounceGraph, Goto
<1> QED
  BY <1>1, <1>2, <1>3, <1>4, <1>5, <1>6, <1>7, <1>8 DEF LoadStep

LEMMA NextTypes == Types /\ [Next]_vars => Types'
<1>1. Types /\ UNCHANGED vars => Types'
  BY DEF Types, vars
<1> QED
  BY <1>1, MainTypes, WorkerTypes, StartupTypes, LoadTypes DEF Next

(* The type of every variable, as the runs check it. *)
THEOREM OverlayTypeCorrect == Spec => []TypeOK
<1>1. Types => TypeOK
  BY DEF Types, TypeOK, Workspaces, GameData, Statuses, Workers, Startups, Mains
<1> QED
  BY <1>1, InitTypes, NextTypes, PTL DEF Spec

-----------------------------------------------------------------------------
(* What a thread may rely on between its critical sections.                *)

LEMMA InitThreads == Init => Threads
BY DEF Init, Threads

(* The layer, the worker and the startup thread change only in the steps   *)
(* of the last two; a report and a capture touch other fields of the layer.*)
LEMMA OthersKeepThreads ==
  ASSUME Types, MainStep \/ \E n \in DOMAIN loads : LoadStep(n)
  PROVE  /\ UNCHANGED <<worker, startup>>
         /\ UNCHANGED <<workspace.files, workspace.generation,
                        workspace.startupPending, workspace.liveChanges>>
<1>1. ASSUME NEW p \in Paths, NEW sequence \in 1 .. MaxSequence,
             NEW content \in {sequence, Deleted}, ReportFile(p, sequence, content)
      PROVE  /\ UNCHANGED <<worker, startup>>
             /\ UNCHANGED <<workspace.files, workspace.generation,
                            workspace.startupPending, workspace.liveChanges>>
  BY <1>1 DEF Types, Workspaces, ReportFile
<1>2. ASSUME CaptureSnapshot
      PROVE  /\ UNCHANGED <<worker, startup>>
             /\ UNCHANGED <<workspace.files, workspace.generation,
                            workspace.startupPending, workspace.liveChanges>>
  BY <1>2 DEF Types, Workspaces, CaptureSnapshot
<1>3. ASSUME NEW graph \in Graphs, DeliverGraph(graph)
      PROVE  UNCHANGED <<workspace, worker, startup>>
  BY <1>3 DEF DeliverGraph
<1>4. ASSUME ObserveGeneration \/ CaptureGeneration
      PROVE  UNCHANGED <<workspace, worker, startup>>
  BY <1>4 DEF ObserveGeneration, CaptureGeneration
<1>5. ASSUME NEW n \in DOMAIN loads, LoadStep(n)
      PROVE  UNCHANGED <<workspace, worker, startup>>
  BY <1>5 DEF LoadStep, PromoteWarmScope, LoadAnyway, AnnounceWarm, ValidateWarm,
     DiscardGraph, PublishGraph, FailGraph, AnnounceGraph
<1> QED
  BY <1>1, <1>2, <1>3, <1>4, <1>5 DEF MainStep

(* The worker's publication, which finds what it read: the ELSE of         *)
(* PublishWorkspace is never taken.                                        *)
LEMMA WorkerPublishes ==
  ASSUME Types, Threads, PublishWorkspace
  PROVE  /\ ReplaceWorkspace(NoFiles)
         /\ UNCHANGED <<gameData, queue, startup, loads, events, main, newest>>
         /\ workspace' \in Workspaces /\ worker' \in Workers
         /\ workspace'.files = Apply(worker.files, worker.changes)
         /\ workspace'.exclusions = NoFiles
         /\ workspace'.startupPending = workspace.startupPending
         /\ workspace'.lastSequences = workspace.lastSequences
         /\ workspace'.liveChanges = IF worker.startupPending
              THEN Extend(workspace.liveChanges, worker.changes)
              ELSE workspace.liveChanges
         /\ workspace'.generation
              = workspace.generation + (IF PublishedChange THEN 1 ELSE 0)
         /\ generation' = generation + (IF PublishedChange THEN 1 ELSE 0)
         /\ worker'.at = IF PublishedChange THEN "announce" ELSE "idle"
         /\ worker'.changes = NoFiles
         /\ worker.at = "publish"
<1>1. worker.at = "publish" /\ ReplaceWorkspace(NoFiles)
      /\ UNCHANGED <<gameData, queue, startup, loads, events, main, newest>>
  BY DEF PublishWorkspace, Threads
<1>2. Types'
  BY WorkerTypes DEF WorkerStep
<1>3. /\ workspace \in Workspaces /\ worker \in Workers
      /\ workspace' \in Workspaces /\ worker' \in Workers
  BY <1>2 DEF Types
<1> DEFINE files == Apply(worker.files, worker.changes)
           bump == IF PublishedChange THEN 1 ELSE 0
           live == IF worker.startupPending
                   THEN Extend(workspace.liveChanges, worker.changes)
                   ELSE workspace.liveChanges
           at == IF PublishedChange THEN "announce" ELSE "idle"
<1>4. /\ workspace' = [workspace EXCEPT !.files = files, !.exclusions = NoFiles,
           !.liveChanges = live, !.generation = workspace.generation + bump]
      /\ worker' = [worker EXCEPT !.at = at, !.changes = NoFiles, !.files = NoFiles]
      /\ generation' = generation + bump
  BY <1>1 DEF ReplaceWorkspace
<1> HIDE DEF files, bump, live, at
<1>5. /\ workspace'.files = files /\ workspace'.exclusions = NoFiles
      /\ workspace'.startupPending = workspace.startupPending
      /\ workspace'.lastSequences = workspace.lastSequences
      /\ workspace'.liveChanges = live
      /\ workspace'.generation = workspace.generation + bump
  BY <1>3, <1>4 DEF Workspaces
<1>6. worker'.at = at /\ worker'.changes = NoFiles
  BY <1>3, <1>4 DEF Workers
<1> QED
  BY <1>1, <1>3, <1>4, <1>5, <1>6 DEF files, bump, live, at

LEMMA NextThreads == Types /\ Threads /\ [Next]_vars => Threads'
<1> SUFFICES ASSUME Types, Threads, [Next]_vars PROVE Threads'
  OBVIOUS
<1>1. ASSUME MainStep \/ \E n \in DOMAIN loads : LoadStep(n) PROVE Threads'
  BY <1>1, OthersKeepThreads DEF Threads
<1>2. ASSUME TakeBatch PROVE Threads'
  BY <1>2 DEF Types, Threads, TakeBatch, Workers
<1>3. ASSUME SnapshotWorkspace PROVE Threads'
  BY <1>3 DEF Types, Threads, SnapshotWorkspace, Workers
<1>4. ASSUME PublishWorkspace PROVE Threads'
  <2>1. workspace.generation \in Nat /\ startup.generation \in Nat
    BY DEF Types, Workspaces, Startups
  <2> QED
    BY <1>4, <2>1, WorkerPublishes DEF Threads
<1>5. ASSUME AnnounceWorkspace PROVE Threads'
  BY <1>5 DEF Types, Threads, AnnounceWorkspace, Workers
<1>6. ASSUME PublishOptimistic \/ SkipOptimistic \/ AnnounceOptimistic \/ ScanWorkspace
               \/ RetryStartup \/ AnnounceStartup
      PROVE  Threads'
  BY <1>6 DEF Types, Threads, Startups, PublishOptimistic, SkipOptimistic,
     AnnounceOptimistic, ScanWorkspace, RetryStartup, AnnounceStartup
<1>7. ASSUME MergeBaseline PROVE Threads'
  BY <1>7 DEF Types, Threads, Startups, Workspaces, MergeBaseline
<1>8. ASSUME PublishStartup PROVE Threads'
  <2>1. /\ worker' = worker /\ startup'.at = "announce"
        /\ startup'.generation = startup.generation
        /\ workspace'.generation = workspace.generation
        /\ ~ workspace'.startupPending /\ workspace.startupPending
    BY <1>8 DEF Types, Threads, Startups, Workspaces, PublishStartup
  <2> QED
    BY <2>1 DEF Threads
<1>9. CASE UNCHANGED vars
  BY <1>9 DEF Threads, vars
<1> QED
  BY <1>1, <1>2, <1>3, <1>4, <1>5, <1>6, <1>7, <1>8, <1>9
  DEF Next, WorkerStep, StartupStep

-----------------------------------------------------------------------------
(* The newest report about a file.                                         *)

LEMMA InitReports == Init => ReportsKept
BY DEF Init, ReportsKept, ReportKept

(* What the step of another thread leaves alone suffices. *)
LEMMA SameReports ==
  ASSUME ReportsKept, UNCHANGED <<newest, queue>>,
         UNCHANGED <<worker.changes, workspace.files, workspace.generation,
                     workspace.startupPending, workspace.liveChanges,
                     workspace.lastSequences>>,
         worker'.at = "publish" =>
           worker.at = "publish" /\ worker'.files = worker.files,
         startup'.at = "publish" => UNCHANGED startup
  PROVE  ReportsKept'
BY DEF ReportsKept, ReportKept

LEMMA ReportFileKeeps ==
  ASSUME Types, ReportsKept, NEW p \in Paths, NEW sequence \in 1 .. MaxSequence,
         NEW content \in {sequence, Deleted}, ReportFile(p, sequence, content)
  PROVE  ReportsKept'
<1> SUFFICES ASSUME NEW q \in Paths PROVE ReportKept(q)'
  BY DEF ReportsKept
<1>1. ReportKept(q) /\ newest[q].sequence \in Nat
  BY DEF ReportsKept, Types, Reports
<1>2. /\ UNCHANGED <<worker, startup>>
      /\ UNCHANGED <<workspace.files, workspace.generation,
                     workspace.startupPending, workspace.liveChanges>>
  BY OthersKeepThreads DEF MainStep
<1>3. newest[p].sequence = workspace.lastSequences[p]
  BY DEF ReportsKept, ReportKept
<1>4. CASE workspace.lastSequences[p] < sequence
  <2>1. /\ newest' = [newest EXCEPT ![p] = [sequence |-> sequence, content |-> content]]
        /\ queue' = Extend(queue, [x \in {p} |-> content])
        /\ workspace' = [workspace EXCEPT !.lastSequences[p] = sequence]
    BY <1>3, <1>4, BoundsAreNatural DEF ReportFile, Accepts, Types, Reports
  <2>2. DOMAIN queue' = DOMAIN queue \union {p} /\ queue'[p] = content
        /\ \A x \in DOMAIN queue : x # p => queue'[x] = queue[x]
    BY <2>1 DEF Extend
  <2>3. /\ workspace'.lastSequences = [workspace.lastSequences EXCEPT ![p] = sequence]
        /\ workspace.lastSequences \in [Paths -> Nat]
    BY <2>1 DEF Types, Workspaces
  <2>4. CASE q = p
    <3>1. newest'[q].sequence = sequence /\ newest'[q].content = content
      BY <2>1, <2>4 DEF Types
    <3> QED
      BY <2>2, <2>3, <2>4, <3>1 DEF ReportKept
  <2>5. CASE q # p
    <3>1. newest'[q] = newest[q] /\ workspace'.lastSequences[q] = workspace.lastSequences[q]
      BY <2>1, <2>3, <2>5 DEF Types
    <3>2. /\ q \in DOMAIN queue' <=> q \in DOMAIN queue
          /\ q \in DOMAIN queue => queue'[q] = queue[q]
      BY <2>2, <2>5
    <3> QED
      BY <1>1, <1>2, <3>1, <3>2 DEF ReportKept
  <2> QED
    BY <2>4, <2>5
<1>5. CASE ~ (workspace.lastSequences[p] < sequence)
  <2>1. UNCHANGED <<newest, queue, workspace>>
    BY <1>3, <1>5, BoundsAreNatural DEF ReportFile, Accepts, Types, Reports
  <2> QED
    BY <1>1, <1>2, <2>1 DEF ReportKept
<1> QED
  BY <1>4, <1>5

(* The worker publishes its batch over files that hold what was published  *)
(* before it, whatever startup did meanwhile; and a merge that startup has *)
(* ready is out of date if the batch may change it.                        *)
LEMMA PublishKeeps ==
  ASSUME Types, Threads, ReportsKept, PublishWorkspace
  PROVE  ReportsKept'
<1> SUFFICES ASSUME NEW p \in Paths PROVE ReportKept(p)'
  BY DEF ReportsKept
<1> DEFINE content == newest[p].content
           changes == worker.changes
<1>1. /\ worker.at = "publish" /\ worker'.changes = NoFiles /\ worker'.at # "publish"
      /\ UNCHANGED <<newest, queue, startup, workspace.lastSequences,
                     workspace.startupPending>>
      /\ DOMAIN NoFiles = {}
  BY WorkerPublishes, EmptyMaps
<1>2. worker.files \in FileMaps /\ changes \in ChangeMaps
      /\ workspace.liveChanges \in ChangeMaps
  BY DEF Types, Workers, Workspaces
<1>3. ReportKept(p)
  BY DEF ReportsKept
<1>4. ASSUME p \notin DOMAIN queue, newest[p].sequence > 0
      PROVE  Holds(workspace'.files, p, content)
  <2>1. workspace'.files = Apply(worker.files, changes)
    BY WorkerPublishes
  <2>2. CASE p \in DOMAIN changes
    BY <1>2, <1>3, <1>4, <2>1, <2>2, ApplyIs DEF ReportKept
  <2>3. CASE p \notin DOMAIN changes
    <3>1. Holds(worker.files, p, content)
      BY <1>1, <1>3, <1>4, <2>3 DEF ReportKept
    <3> QED
      BY <1>2, <2>1, <2>3, <3>1, ApplyIs
  <2> QED
    BY <2>2, <2>3
<1>5. ASSUME p \notin DOMAIN queue, newest[p].sequence > 0, workspace.startupPending
      PROVE  p \in DOMAIN workspace'.liveChanges /\ workspace'.liveChanges[p] = content
  <2>1. workspace'.liveChanges = Extend(workspace.liveChanges, changes)
    BY <1>1, <1>5, WorkerPublishes DEF Threads
  <2>2. \/ p \in DOMAIN changes /\ changes[p] = content
        \/ /\ p \notin DOMAIN changes
           /\ p \in DOMAIN workspace.liveChanges /\ workspace.liveChanges[p] = content
    BY <1>3, <1>5 DEF ReportKept
  <2> QED
    BY <2>1, <2>2 DEF Extend
<1>6. ~ (startup.at = "publish" /\ startup.generation = workspace'.generation)
  <2> SUFFICES ASSUME startup.at = "publish"
               PROVE  startup.generation # workspace'.generation
    OBVIOUS
  <2>1. worker.startupPending /\ changes # NoFiles
    BY <1>1 DEF Threads
  <2>2. PublishedChange
    <3>1. DOMAIN changes # {}
      BY <1>2, <2>1, EmptyMaps
    <3> QED
      BY <2>1, <3>1 DEF PublishedChange
  <2>3. workspace'.generation = workspace.generation + 1
    BY <2>2, WorkerPublishes
  <2> QED
    BY <2>3 DEF Threads, Types, Workspaces, Startups
<1> HIDE DEF content, changes
<1> QED
  BY <1>1, <1>3, <1>4, <1>5, <1>6 DEF ReportKept, content, changes

LEMMA NextReports == Types /\ Threads /\ ReportsKept /\ [Next]_vars => ReportsKept'
<1> SUFFICES ASSUME Types, Threads, ReportsKept, [Next]_vars PROVE ReportsKept'
  OBVIOUS
<1>1. ASSUME NEW p \in Paths, NEW sequence \in 1 .. MaxSequence,
             NEW content \in {sequence, Deleted}, ReportFile(p, sequence, content)
      PROVE  ReportsKept'
  BY <1>1, ReportFileKeeps
<1>2. ASSUME \/ CaptureSnapshot \/ ObserveGeneration \/ CaptureGeneration
             \/ \E graph \in Graphs : DeliverGraph(graph)
             \/ \E n \in DOMAIN loads : LoadStep(n)
      PROVE  ReportsKept'
  <2>1. UNCHANGED <<newest, queue>>
    BY <1>2 DEF CaptureSnapshot, ObserveGeneration, CaptureGeneration, DeliverGraph,
       LoadStep, PromoteWarmScope, LoadAnyway, AnnounceWarm, ValidateWarm,
       DiscardGraph, PublishGraph, FailGraph, AnnounceGraph
  <2>2. /\ UNCHANGED <<worker, startup>>
        /\ UNCHANGED <<workspace.files, workspace.generation,
                       workspace.startupPending, workspace.liveChanges>>
    BY <1>2, OthersKeepThreads DEF MainStep
  <2>3. UNCHANGED workspace.lastSequences
    BY <1>2 DEF Types, Workspaces, CaptureSnapshot, ObserveGeneration,
       CaptureGeneration, DeliverGraph,
       LoadStep, PromoteWarmScope, LoadAnyway, AnnounceWarm, ValidateWarm,
       DiscardGraph, PublishGraph, FailGraph, AnnounceGraph
  <2> QED
    BY <2>1, <2>2, <2>3, SameReports
<1>3. ASSUME TakeBatch PROVE ReportsKept'
  <2>1. /\ worker'.changes = queue /\ worker'.at = "snapshot" /\ DOMAIN queue' = {}
        /\ DOMAIN worker.changes = {}
        /\ UNCHANGED <<workspace, startup, newest>>
    BY <1>3, EmptyMaps DEF TakeBatch, Threads, Types, Workers
  <2> QED
    BY <2>1 DEF ReportsKept, ReportKept
<1>4. ASSUME SnapshotWorkspace PROVE ReportsKept'
  <2>1. /\ worker'.changes = worker.changes /\ worker'.files = workspace.files
        /\ UNCHANGED <<workspace, startup, newest, queue>>
    BY <1>4 DEF SnapshotWorkspace, Types, Workers
  <2> QED
    BY <2>1 DEF ReportsKept, ReportKept
<1>5. ASSUME PublishWorkspace PROVE ReportsKept'
  BY <1>5, PublishKeeps
<1>6. ASSUME AnnounceWorkspace PROVE ReportsKept'
  <2>1. /\ worker'.changes = worker.changes /\ worker'.at = "idle"
        /\ UNCHANGED <<workspace, startup, newest, queue>>
    BY <1>6 DEF AnnounceWorkspace, Types, Workers
  <2> QED
    BY <2>1, SameReports
<1>7. ASSUME PublishOptimistic \/ SkipOptimistic \/ AnnounceOptimistic \/ ScanWorkspace
               \/ RetryStartup \/ AnnounceStartup
      PROVE  ReportsKept'
  <2>1. startup'.at # "publish" /\ UNCHANGED <<workspace, worker, newest, queue>>
    BY <1>7 DEF Types, Startups, PublishOptimistic, SkipOptimistic,
     AnnounceOptimistic, ScanWorkspace, RetryStartup, AnnounceStartup
  <2> QED
    BY <2>1, SameReports
<1>8. ASSUME MergeBaseline PROVE ReportsKept'
  <2>1. /\ startup'.files = Apply(startup.baseline, workspace.liveChanges)
        /\ UNCHANGED <<workspace, worker, newest, queue>>
        /\ workspace.startupPending
    BY <1>8 DEF Types, Threads, Startups, MergeBaseline
  <2>2. \A p \in DOMAIN workspace.liveChanges :
          Holds(startup'.files, p, workspace.liveChanges[p])
    BY <2>1, ApplyIs DEF Types, Workspaces, Startups
  <2> QED
    BY <2>1, <2>2 DEF ReportsKept, ReportKept
<1>9. ASSUME PublishStartup PROVE ReportsKept'
  <2>1. /\ startup.at = "publish" /\ startup.generation = workspace.generation
        /\ workspace'.files = startup.files /\ ~ workspace'.startupPending
        /\ workspace'.lastSequences = workspace.lastSequences
        /\ startup'.at = "announce"
        /\ UNCHANGED <<worker, newest, queue>>
    BY <1>9 DEF Types, Startups, Workspaces, PublishStartup
  <2> QED
    BY <2>1 DEF ReportsKept, ReportKept
<1>10. CASE UNCHANGED vars
  BY <1>10, SameReports DEF vars
<1> QED
  BY <1>1, <1>2, <1>3, <1>4, <1>5, <1>6, <1>7, <1>8, <1>9, <1>10
  DEF Next, MainStep, WorkerStep, StartupStep

(* Of all reports about a file the workspace shows the newest one, or it   *)
(* is on its way: in whatever order reports come and however the worker's  *)
(* publications and the startup publication interleave.                    *)
THEOREM NewestReportIsKept == Spec => []NewestReportWins
<1>1. ReportsKept => NewestReportWins
  BY DEF ReportsKept, ReportKept, NewestReportWins
<1> QED
  BY <1>1, InitTypes, NextTypes, InitThreads, NextThreads, InitReports, NextReports, PTL
  DEF Spec

-----------------------------------------------------------------------------
(* What is captured and what is cached.                                    *)

(* A publication that is not counted leaves both layers as they are: the   *)
(* worker only had deletions of files that are not there.                  *)
LEMMA ContentIsCounted ==
  ASSUME Types, Threads, [Next]_vars
  PROVE  /\ generation' \in Nat /\ generation \in Nat /\ generation' >= generation
         /\ generation' = generation =>
              UNCHANGED <<workspace.files, gameData.index>>
<1> DEFINE Goal == /\ generation' >= generation
                   /\ generation' = generation =>
                        UNCHANGED <<workspace.files, gameData.index>>
<1>0. generation \in Nat /\ generation' \in Nat
  BY NextTypes DEF Types
<1>1. ASSUME MainStep PROVE Goal
  <2>1. UNCHANGED <<generation, gameData.index>>
    BY <1>1 DEF MainStep, ReportFile, DeliverGraph, ObserveGeneration,
       CaptureGeneration, CaptureSnapshot, Types, GameData
  <2> QED
    BY <1>0, <1>1, <2>1, OthersKeepThreads
<1>2. ASSUME TakeBatch \/ SnapshotWorkspace \/ AnnounceWorkspace PROVE Goal
  BY <1>0, <1>2 DEF TakeBatch, SnapshotWorkspace, AnnounceWorkspace
<1>3. ASSUME PublishWorkspace PROVE Goal
  <2>1. /\ generation' = generation + (IF PublishedChange THEN 1 ELSE 0)
        /\ workspace'.files = Apply(worker.files, worker.changes)
        /\ worker.at = "publish" /\ UNCHANGED gameData
    BY <1>3, WorkerPublishes
  <2>2. CASE PublishedChange
    BY <1>0, <2>1, <2>2
  <2>3. CASE ~ PublishedChange
    <3>1. worker.changes \in ChangeMaps /\ worker.files \in FileMaps
          /\ worker.changes # NoFiles
      BY <2>1 DEF Types, Workers, Threads
    <3>2. PICK p \in DOMAIN worker.changes : TRUE
      BY <3>1, EmptyMaps
    <3>3. worker.files = workspace.files
      BY <2>1, <2>3, <3>2 DEF PublishedChange, Threads
    <3>4. Apply(worker.files, worker.changes) = worker.files
      BY <2>3, <3>1, ApplyNothing DEF PublishedChange
    <3> QED
      BY <1>0, <2>1, <2>3, <3>3, <3>4
  <2> QED
    BY <2>2, <2>3
<1>4. ASSUME PublishOptimistic \/ PublishStartup PROVE Goal
  <2>1. generation' = generation + 1
    BY <1>4 DEF PublishOptimistic, PublishStartup, PublishLoaded
  <2>2. generation' # generation /\ generation' >= generation
    BY <1>0, <2>1
  <2> QED
    BY <2>2
<1>5. ASSUME SkipOptimistic \/ AnnounceOptimistic \/ ScanWorkspace \/ MergeBaseline
               \/ RetryStartup \/ AnnounceStartup
      PROVE  Goal
  <2>1. UNCHANGED <<workspace, gameData, generation>>
    BY <1>5 DEF SkipOptimistic, AnnounceOptimistic, ScanWorkspace, MergeBaseline,
       RetryStartup, AnnounceStartup
  <2> QED
    BY <1>0, <2>1
<1>6. ASSUME NEW n \in DOMAIN loads, LoadStep(n) PROVE Goal
  <2>1. ASSUME PromoteWarmScope(n) PROVE Goal
    BY <1>0, <2>1 DEF PromoteWarmScope, Types, GameData
  <2>2. ASSUME LoadAnyway(n) \/ AnnounceWarm(n) \/ ValidateWarm(n) \/ DiscardGraph(n)
                 \/ AnnounceGraph(n)
        PROVE  Goal
    BY <1>0, <2>2 DEF LoadAnyway, AnnounceWarm, ValidateWarm, DiscardGraph, AnnounceGraph
  <2>3. ASSUME PublishGraph(n) \/ FailGraph(n) PROVE Goal
    BY <1>0, <2>3 DEF PublishGraph, PublishLoaded, FailGraph
  <2> QED
    BY <1>6, <2>1, <2>2, <2>3 DEF LoadStep
<1>7. CASE UNCHANGED vars
  BY <1>0, <1>7 DEF vars
<1> QED
  BY <1>0, <1>1, <1>2, <1>3, <1>4, <1>5, <1>6, <1>7 DEF Next, WorkerStep, StartupStep

(* What an eviction leaves has room for one more. *)
LEMMA EvictedHasRoom ==
  ASSUME NEW exclusions, NEW kept \in Evicted(exclusions),
         IsFiniteSet(DOMAIN exclusions),
         Cardinality(DOMAIN exclusions) <= MaxExclusions
  PROVE  /\ IsFiniteSet(DOMAIN kept)
         /\ Cardinality(DOMAIN kept) \in Nat
         /\ Cardinality(DOMAIN kept) + 1 <= MaxExclusions
         /\ \A q \in DOMAIN kept : q \in DOMAIN exclusions /\ kept[q] = exclusions[q]
<1>0. Cardinality(DOMAIN exclusions) \in Nat /\ MaxExclusions \in Nat
  BY FS_CardinalityType, BoundsAreNatural
<1>1. CASE Cardinality(DOMAIN exclusions) < MaxExclusions
  <2>1. kept = exclusions
    BY <1>1 DEF Evicted
  <2> QED
    BY <1>0, <1>1, <2>1
<1>2. CASE ~ (Cardinality(DOMAIN exclusions) < MaxExclusions)
  <2>1. PICK out \in DOMAIN exclusions :
          kept = [q \in (DOMAIN exclusions) \ {out} |-> exclusions[q]]
    BY <1>2 DEF Evicted
  <2>2. DOMAIN kept = (DOMAIN exclusions) \ {out}
    BY <2>1
  <2>3. /\ IsFiniteSet(DOMAIN kept)
        /\ Cardinality(DOMAIN kept) = Cardinality(DOMAIN exclusions) - 1
    BY <2>2, FS_RemoveElement
  <2>4. Cardinality(DOMAIN kept) \in Nat
    BY <2>3, FS_CardinalityType
  <2> QED
    BY <1>0, <2>1, <2>3, <2>4
<1> QED
  BY <1>1, <1>2

LEMMA InitCaptures == Init => CapturesKept
<1> SUFFICES ASSUME Init PROVE CapturesKept
  OBVIOUS
<1>1. DOMAIN workspace.exclusions = {}
  BY EmptyMaps DEF Init
<1>2. IsFiniteSet(DOMAIN workspace.exclusions)
      /\ Cardinality(DOMAIN workspace.exclusions) = 0
  BY <1>1, FS_EmptySet
<1> QED
  BY <1>1, <1>2, BoundsAreNatural
  DEF Init, CapturesKept, GenerationNamesContent, ExclusionsAreCurrent

CacheKept ==
  IsFiniteSet(DOMAIN workspace.exclusions) /\ ExclusionsAreCurrent

LEMMA CacheStaysCurrent ==
  ASSUME Types, Threads, CacheKept, [Next]_vars PROVE CacheKept'
<1>1. ASSUME CaptureSnapshot PROVE CacheKept'
  <2>1. ASSUME NEW p \in DOMAIN workspace.files \ DOMAIN workspace.exclusions,
               NEW kept \in Evicted(workspace.exclusions),
               workspace' = [workspace EXCEPT
                 !.exclusions = Extend(kept, [q \in {p} |-> workspace.files])]
        PROVE  CacheKept'
    <3> DEFINE cached == Extend(kept, [q \in {p} |-> workspace.files])
    <3>1. /\ DOMAIN cached = (DOMAIN kept) \union {p}
          /\ cached[p] = workspace.files
          /\ \A q \in DOMAIN kept : q # p => cached[q] = kept[q]
      BY DEF Extend
    <3>2. workspace'.exclusions = cached /\ workspace'.files = workspace.files
      BY <2>1 DEF Types, Workspaces
    <3> HIDE DEF cached
    <3>3. /\ IsFiniteSet(DOMAIN kept) /\ Cardinality(DOMAIN kept) \in Nat
          /\ Cardinality(DOMAIN kept) + 1 <= MaxExclusions
          /\ \A q \in DOMAIN kept : q \in DOMAIN workspace.exclusions
                                    /\ kept[q] = workspace.exclusions[q]
      BY EvictedHasRoom DEF CacheKept, ExclusionsAreCurrent
    <3>4. /\ IsFiniteSet(DOMAIN cached)
          /\ Cardinality(DOMAIN cached) <= MaxExclusions
      <4>1. p \notin DOMAIN kept
        BY <3>3
      <4>2. IsFiniteSet(DOMAIN cached)
            /\ Cardinality(DOMAIN cached) = Cardinality(DOMAIN kept) + 1
        BY <3>1, <3>3, <4>1, FS_AddElement
      <4> QED
        BY <3>3, <4>2
    <3> QED
      BY <3>1, <3>2, <3>3, <3>4 DEF CacheKept, ExclusionsAreCurrent
  <2> QED
    BY <1>1, <2>1 DEF CaptureSnapshot, CacheKept, ExclusionsAreCurrent
<1>2. ASSUME PublishWorkspace \/ PublishStartup PROVE CacheKept'
  <2>1. workspace'.exclusions = NoFiles
    BY <1>2, WorkerPublishes DEF PublishStartup, Types, Workspaces
  <2>2. DOMAIN workspace'.exclusions = {}
    BY <2>1, EmptyMaps
  <2>3. IsFiniteSet(DOMAIN workspace'.exclusions)
        /\ Cardinality(DOMAIN workspace'.exclusions) = 0
    BY <2>2, FS_EmptySet
  <2> QED
    BY <2>2, <2>3, BoundsAreNatural DEF CacheKept, ExclusionsAreCurrent
<1>3. ASSUME NEW p \in Paths, NEW sequence \in 1 .. MaxSequence,
             NEW content \in {sequence, Deleted}, ReportFile(p, sequence, content)
      PROVE  CacheKept'
  <2>1. UNCHANGED <<workspace.exclusions, workspace.files>>
    BY <1>3 DEF ReportFile, Types, Workspaces
  <2> QED
    BY <2>1 DEF CacheKept, ExclusionsAreCurrent
<1>4. ASSUME UNCHANGED workspace PROVE CacheKept'
  BY <1>4 DEF CacheKept, ExclusionsAreCurrent
<1>5. ASSUME \/ ObserveGeneration \/ CaptureGeneration
             \/ \E graph \in Graphs : DeliverGraph(graph)
             \/ \E n \in DOMAIN loads : LoadStep(n)
             \/ TakeBatch \/ SnapshotWorkspace \/ AnnounceWorkspace
             \/ PublishOptimistic \/ SkipOptimistic \/ AnnounceOptimistic
             \/ ScanWorkspace \/ MergeBaseline \/ RetryStartup \/ AnnounceStartup
             \/ UNCHANGED vars
      PROVE  UNCHANGED workspace
  BY <1>5 DEF ObserveGeneration, CaptureGeneration, DeliverGraph, LoadStep,
     PromoteWarmScope, LoadAnyway, AnnounceWarm, ValidateWarm, DiscardGraph,
     PublishGraph, FailGraph, AnnounceGraph, TakeBatch, SnapshotWorkspace,
     AnnounceWorkspace, PublishOptimistic, SkipOptimistic, AnnounceOptimistic,
     ScanWorkspace, MergeBaseline, RetryStartup, AnnounceStartup, vars
<1> QED
  BY <1>1, <1>2, <1>3, <1>4, <1>5 DEF Next, MainStep, WorkerStep, StartupStep

(* A capture that straddles a publication has an older label. *)
LEMMA NextCaptures == Types /\ Threads /\ CapturesKept /\ [Next]_vars => CapturesKept'
<1> SUFFICES ASSUME Types, Threads, CapturesKept, [Next]_vars PROVE CapturesKept'
  OBVIOUS
<1> DEFINE Labelled == GenerationNamesContent /\ main.label <= generation
<1>1. CacheKept'
  BY CacheStaysCurrent DEF CapturesKept, CacheKept
<1>2. /\ generation' \in Nat /\ generation \in Nat /\ generation' >= generation
      /\ generation' = generation => UNCHANGED <<workspace.files, gameData.index>>
      /\ main.label \in Nat /\ Labelled
  BY ContentIsCounted DEF CapturesKept, Types, Mains
<1>3. ASSUME UNCHANGED <<main.at, main.label, main.files, main.index>>
      PROVE  Labelled'
  BY <1>2, <1>3 DEF GenerationNamesContent
<1>4. ASSUME CaptureGeneration PROVE Labelled'
  <2>1. main'.at = "capturing" /\ main'.label = generation
    BY <1>4 DEF CaptureGeneration, Types, Mains
  <2> QED
    BY <1>2, <2>1 DEF GenerationNamesContent
<1>5. ASSUME CaptureSnapshot PROVE Labelled'
  <2>1. /\ main'.files = workspace.files /\ main'.index = gameData.index
        /\ main'.label = main.label /\ generation' = generation
    BY <1>5 DEF CaptureSnapshot, Types, Mains
  <2> QED
    BY <1>2, <2>1 DEF GenerationNamesContent
<1>6. ASSUME MainStep, ~ CaptureGeneration, ~ CaptureSnapshot
      PROVE  UNCHANGED <<main.at, main.label, main.files, main.index>>
  BY <1>6 DEF MainStep, ReportFile, DeliverGraph, ObserveGeneration, Types, Mains
<1>7. ASSUME WorkerStep \/ StartupStep \/ (\E n \in DOMAIN loads : LoadStep(n))
               \/ UNCHANGED vars
      PROVE  UNCHANGED main
  BY <1>7 DEF WorkerStep, StartupStep, LoadStep,
     PromoteWarmScope, LoadAnyway, AnnounceWarm, ValidateWarm, DiscardGraph,
     PublishGraph, FailGraph, AnnounceGraph, TakeBatch, SnapshotWorkspace,
     PublishWorkspace, AnnounceWorkspace, PublishOptimistic, SkipOptimistic,
     AnnounceOptimistic, ScanWorkspace, MergeBaseline, PublishStartup, RetryStartup,
     AnnounceStartup, vars
<1>8. Labelled'
  BY <1>3, <1>4, <1>5, <1>6, <1>7 DEF Next
<1> QED
  BY <1>1, <1>8 DEF CapturesKept, CacheKept

(* A generation names one content of both layers, whenever it was captured,*)
(* and a cached exclusion is of the files the workspace has now.           *)
THEOREM CapturesStayCurrent == Spec => []CapturesAreCurrent
<1>1. CapturesKept => CapturesAreCurrent
  BY DEF CapturesKept, CapturesAreCurrent
<1> QED
  BY <1>1, InitTypes, NextTypes, InitThreads, NextThreads, InitCaptures, NextCaptures,
     PTL DEF Spec

-----------------------------------------------------------------------------
(* Publications are announced, and the status ends right.                  *)

(* A thread of a delivered graph moves alone. *)
LEMMA GotoMoves ==
  ASSUME Types, NEW n \in DOMAIN loads, NEW at, Goto(n, at)
  PROVE  /\ DOMAIN loads' = DOMAIN loads /\ loads'[n].at = at
         /\ \A m \in DOMAIN loads : m # n => loads'[m] = loads[m]
BY DEF Types, Loads, Goto

(* A generation the main loop has not observed is being announced: each of *)
(* the publishers goes on to announce what it counted.                     *)
LEMMA NextAnnounced == Types /\ Threads /\ ChangesAreAnnounced /\ [Next]_vars
                         => ChangesAreAnnounced'
<1> SUFFICES ASSUME Types, Threads, ChangesAreAnnounced, [Next]_vars
             PROVE  ChangesAreAnnounced'
  OBVIOUS
<1>1. ASSUME MainStep PROVE ChangesAreAnnounced'
  <2>1. ASSUME NEW p \in Paths, NEW sequence \in 1 .. MaxSequence,
               NEW content \in {sequence, Deleted}, ReportFile(p, sequence, content)
        PROVE  main'.observed = generation'
    BY <2>1 DEF ReportFile, Types, Mains
  <2>2. ASSUME NEW graph \in Graphs, DeliverGraph(graph) PROVE ChangesAreAnnounced'
    <3>1. /\ UNCHANGED <<main, generation, events, worker, startup>>
          /\ \A n \in DOMAIN loads : n \in DOMAIN loads' /\ loads'[n] = loads[n]
      BY <2>2 DEF DeliverGraph, Types, GameData
    <3> QED
      BY <3>1 DEF ChangesAreAnnounced
  <2>3. ASSUME ObserveGeneration PROVE main'.observed = generation'
    BY <2>3 DEF ObserveGeneration, Types, Mains
  <2>4. ASSUME CaptureGeneration \/ CaptureSnapshot PROVE ChangesAreAnnounced'
    <3>1. /\ main'.observed = main.observed
          /\ UNCHANGED <<generation, events, worker, startup, loads>>
      BY <2>4 DEF CaptureGeneration, CaptureSnapshot, Types, Mains
    <3> QED
      BY <3>1 DEF ChangesAreAnnounced
  <2> QED
    BY <1>1, <2>1, <2>2, <2>3, <2>4 DEF MainStep, ChangesAreAnnounced
<1>2. ASSUME TakeBatch \/ SnapshotWorkspace PROVE ChangesAreAnnounced'
  <2>1. worker.at # "announce" /\ UNCHANGED <<main, generation, events, startup, loads>>
    BY <1>2 DEF TakeBatch, SnapshotWorkspace
  <2> QED
    BY <2>1 DEF ChangesAreAnnounced
<1>3. ASSUME PublishWorkspace PROVE ChangesAreAnnounced'
  <2>1. /\ worker.at = "publish"
        /\ UNCHANGED <<main, events, startup, loads>>
        /\ \/ worker'.at = "announce"
           \/ generation' = generation + 0
    BY <1>3, WorkerPublishes
  <2>2. generation + 0 = generation
    BY DEF Types
  <2> QED
    BY <2>1, <2>2 DEF ChangesAreAnnounced
<1>4. ASSUME AnnounceWorkspace \/ AnnounceOptimistic \/ AnnounceStartup
      PROVE  ChangesAreAnnounced'
  <2>1. events' = events + 1 /\ events \in Nat
    BY <1>4 DEF AnnounceWorkspace, AnnounceOptimistic, AnnounceStartup, Types
  <2> QED
    BY <2>1 DEF ChangesAreAnnounced
<1>5. ASSUME PublishOptimistic \/ PublishStartup PROVE ChangesAreAnnounced'
  <2>1. startup'.at \in {"announceOptimistic", "announce"}
    BY <1>5 DEF PublishOptimistic, PublishStartup, Types, Startups
  <2> QED
    BY <2>1 DEF ChangesAreAnnounced
<1>6. ASSUME SkipOptimistic \/ ScanWorkspace \/ MergeBaseline \/ RetryStartup
      PROVE  ChangesAreAnnounced'
  <2>1. /\ startup.at \notin {"announceOptimistic", "announce"}
        /\ UNCHANGED <<main, generation, events, worker, loads>>
    BY <1>6 DEF SkipOptimistic, ScanWorkspace, MergeBaseline, RetryStartup
  <2> QED
    BY <2>1 DEF ChangesAreAnnounced
<1>7. ASSUME NEW n \in DOMAIN loads, LoadStep(n) PROVE ChangesAreAnnounced'
  <2>1. ASSUME PromoteWarmScope(n) \/ LoadAnyway(n) \/ ValidateWarm(n) \/ DiscardGraph(n)
        PROVE  ChangesAreAnnounced'
    <3>1. /\ loads[n].at # "announce" /\ \E at : Goto(n, at)
          /\ UNCHANGED <<main, generation, events, worker, startup>>
      BY <2>1 DEF PromoteWarmScope, LoadAnyway, ValidateWarm, DiscardGraph
    <3> QED
      BY <3>1, GotoMoves DEF ChangesAreAnnounced
  <2>2. ASSUME AnnounceWarm(n) \/ AnnounceGraph(n) PROVE ChangesAreAnnounced'
    <3>1. events' = events + 1 /\ events \in Nat
      BY <2>2 DEF AnnounceWarm, AnnounceGraph, Types
    <3> QED
      BY <3>1 DEF ChangesAreAnnounced
  <2>3. ASSUME PublishGraph(n) \/ FailGraph(n) PROVE ChangesAreAnnounced'
    <3>1. Goto(n, "announce")
      BY <2>3 DEF PublishGraph, FailGraph
    <3> QED
      BY <3>1, GotoMoves DEF ChangesAreAnnounced
  <2> QED
    BY <1>7, <2>1, <2>2, <2>3 DEF LoadStep
<1>8. CASE UNCHANGED vars
  BY <1>8 DEF vars, ChangesAreAnnounced
<1> QED
  BY <1>1, <1>2, <1>3, <1>4, <1>5, <1>6, <1>7, <1>8 DEF Next, WorkerStep, StartupStep

(* The main loop never rests on an old generation without an event under   *)
(* way that will make it look.                                             *)
THEOREM PublicationsAreAnnounced == Spec => []ChangesAreAnnounced
<1>1. Init => ChangesAreAnnounced
  BY DEF Init, ChangesAreAnnounced
<1> QED
  BY <1>1, InitTypes, NextTypes, InitThreads, NextThreads, NextAnnounced, PTL DEF Spec

LEMMA InitStatus == Init => StatusKept
BY DEF Init, StatusKept

(* What the status may be after a publication with Layered. *)
LEMMA LayeredIsFinal ==
  ASSUME NEW files, NEW index, NEW otherwise \in {"missing", "failed"}
  PROVE  /\ Layered(files, index, otherwise) \in {"ready", "missing", "failed"}
         /\ files # NoFiles \/ index # NoIndex =>
              Layered(files, index, otherwise) = "ready"
BY DEF Layered

LEMMA NextStatus == Types /\ Threads /\ StatusKept /\ [Next]_vars => StatusKept'
<1> SUFFICES ASSUME Types, Threads, StatusKept, [Next]_vars PROVE StatusKept'
  OBVIOUS
<1>1. ASSUME NEW p \in Paths, NEW sequence \in 1 .. MaxSequence,
             NEW content \in {sequence, Deleted}, ReportFile(p, sequence, content)
      PROVE  StatusKept'
  <2>1. UNCHANGED <<workspace.files, workspace.startupPending, gameData, status, loads>>
    BY <1>1 DEF ReportFile, Types, Workspaces
  <2> QED
    BY <2>1 DEF StatusKept
<1>2. ASSUME NEW graph \in Graphs, DeliverGraph(graph) PROVE StatusKept'
  <2>1. /\ gameData'.graphGeneration = gameData.graphGeneration + 1
        /\ gameData.graphGeneration \in Nat
        /\ status' = "updating" /\ UNCHANGED workspace
        /\ loads'[gameData.graphGeneration + 1].at = "match"
    BY <1>2 DEF DeliverGraph, Types, GameData
  <2> QED
    BY <2>1 DEF StatusKept
<1>3. ASSUME CaptureSnapshot PROVE StatusKept'
  <2>1. UNCHANGED <<workspace.files, workspace.startupPending, gameData, status, loads>>
    BY <1>3 DEF CaptureSnapshot, Types, Workspaces
  <2> QED
    BY <2>1 DEF StatusKept
<1>4. ASSUME \/ ObserveGeneration \/ CaptureGeneration \/ TakeBatch
             \/ SnapshotWorkspace \/ AnnounceWorkspace \/ SkipOptimistic
             \/ AnnounceOptimistic \/ ScanWorkspace \/ MergeBaseline
             \/ RetryStartup \/ AnnounceStartup \/ UNCHANGED vars
      PROVE  StatusKept'
  <2>1. UNCHANGED <<workspace, gameData, status, loads>>
    BY <1>4 DEF ObserveGeneration, CaptureGeneration, TakeBatch, SnapshotWorkspace,
       AnnounceWorkspace, SkipOptimistic, AnnounceOptimistic, ScanWorkspace,
       MergeBaseline, RetryStartup, AnnounceStartup, vars
  <2> QED
    BY <2>1 DEF StatusKept
<1>5. ASSUME PublishWorkspace PROVE StatusKept'
  <2>1. /\ status' = Layered(workspace'.files, gameData'.index, "missing")
        /\ UNCHANGED gameData
    BY <1>5, WorkerPublishes DEF ReplaceWorkspace
  <2> QED
    BY <2>1, LayeredIsFinal DEF StatusKept
<1>6. ASSUME PublishStartup PROVE StatusKept'
  <2>1. \E otherwise \in {"missing", "failed"} :
          status' = Layered(workspace'.files, gameData'.index, otherwise)
    BY <1>6 DEF PublishStartup, Types, Workspaces
  <2> QED
    BY <2>1, LayeredIsFinal DEF StatusKept
<1>7. ASSUME PublishOptimistic PROVE StatusKept'
  BY <1>7 DEF PublishOptimistic, PublishLoaded, StatusKept
<1>8. ASSUME NEW n \in DOMAIN loads, LoadStep(n) PROVE StatusKept'
  <2>1. /\ n \in 1 .. gameData.graphGeneration /\ gameData.graphGeneration \in Nat
        /\ gameData.graphGeneration > 0
        /\ gameData.graphGeneration \in DOMAIN loads
    BY DEF Types, GameData
  <2>2. ASSUME PublishGraph(n) PROVE StatusKept'
    BY <2>2 DEF PublishGraph, PublishLoaded, StatusKept
  <2>3. ASSUME FailGraph(n) PROVE StatusKept'
    <3>1. status' = Layered(workspace'.files, gameData'.index, "failed")
      BY <2>3 DEF FailGraph
    <3> QED
      BY <3>1, LayeredIsFinal DEF StatusKept
  <2>4. ASSUME PromoteWarmScope(n) PROVE StatusKept'
    <3>1. CASE NotSuperseded(n)
      BY <2>4, <3>1 DEF PromoteWarmScope, StatusKept
    <3>2. CASE ~ NotSuperseded(n)
      <4>1. UNCHANGED <<workspace, gameData, status>> /\ Goto(n, "announceWarm")
        BY <2>4, <3>2 DEF PromoteWarmScope
      <4>2. n # gameData.graphGeneration
        BY <3>2 DEF NotSuperseded
      <4> QED
        BY <2>1, <4>1, <4>2, GotoMoves DEF StatusKept
    <3> QED
      BY <3>1, <3>2
  <2>5. ASSUME LoadAnyway(n) PROVE StatusKept'
    <3>1. UNCHANGED <<workspace, gameData, status>> /\ Goto(n, "load")
      BY <2>5 DEF LoadAnyway
    <3> QED
      BY <2>1, <3>1, GotoMoves DEF StatusKept
  <2>6. ASSUME AnnounceWarm(n) \/ AnnounceGraph(n) PROVE StatusKept'
    <3>1. /\ UNCHANGED <<workspace, gameData, status>> /\ \E at : Goto(n, at)
          /\ loads[n].at \notin {"match", "load"}
      BY <2>6 DEF AnnounceWarm, AnnounceGraph
    <3> QED
      BY <2>1, <3>1, GotoMoves DEF StatusKept
  <2>7. ASSUME ValidateWarm(n) PROVE StatusKept'
    <3>1. /\ UNCHANGED <<workspace, gameData>> /\ \E at : Goto(n, at)
          /\ loads[n].at \notin {"match", "load"}
          /\ status' \in {status, "ready"}
      BY <2>7 DEF ValidateWarm
    <3> QED
      BY <2>1, <3>1, GotoMoves DEF StatusKept
  <2>8. ASSUME DiscardGraph(n) PROVE StatusKept'
    <3>1. /\ UNCHANGED <<workspace, gameData, status>> /\ Goto(n, "done")
          /\ n # gameData.graphGeneration
      BY <2>8 DEF DiscardGraph, NotSuperseded
    <3> QED
      BY <2>1, <3>1, GotoMoves DEF StatusKept
  <2> QED
    BY <1>8, <2>2, <2>3, <2>4, <2>5, <2>6, <2>7, <2>8 DEF LoadStep
<1> QED
  BY <1>1, <1>2, <1>3, <1>4, <1>5, <1>6, <1>7, <1>8
  DEF Next, MainStep, WorkerStep, StartupStep

(* When no publisher is at work the status is final, and "ready" if there  *)
(* is something to show.                                                   *)
THEOREM StatusSettles == Spec => []SettledStatus
<1>1. Types /\ StatusKept => SettledStatus
  <2> SUFFICES ASSUME Types, StatusKept, ~ workspace.startupPending,
                      \A n \in DOMAIN loads : loads[n].at \in {"announce", "done"}
               PROVE  /\ status \notin {"building", "updating"}
                      /\ workspace.files # NoFiles \/ gameData.index # NoIndex =>
                           status = "ready"
    BY DEF SettledStatus
  <2>1. gameData.graphGeneration > 0 => gameData.graphGeneration \in DOMAIN loads
    BY DEF Types, GameData
  <2> QED
    BY <2>1 DEF StatusKept
<1> QED
  BY <1>1, InitTypes, NextTypes, InitThreads, NextThreads, InitStatus, NextStatus, PTL
  DEF Spec

(* A superseded graph never replaces the index of a later one: a thread    *)
(* publishes only while its own generation is the latest.                  *)
THEOREM GraphsOnlyAdvance == Spec => GraphsNeverRegress
<1>1. Types /\ [Next]_vars =>
        (gameData'.index.load > 0 => gameData'.index.load >= gameData.index.load)
  <2> SUFFICES ASSUME Types, [Next]_vars
               PROVE  gameData'.index.load > 0 =>
                        gameData'.index.load >= gameData.index.load
    OBVIOUS
  <2>1. gameData.index.load \in Nat /\ gameData.index.load <= gameData.graphGeneration
    <3>1. gameData.index \in Indexes
      BY DEF Types, GameData
    <3>2. gameData.index.load \in 0 .. MaxGraphLoads
      BY <3>1 DEF Indexes
    <3> QED
      BY <3>2, BoundsAreNatural DEF Types
  <2>2. ASSUME gameData'.index = gameData.index
        PROVE  gameData'.index.load >= gameData.index.load
    BY <2>1, <2>2
  <2>3. ASSUME NEW graph \in Graphs, DeliverGraph(graph)
        PROVE  gameData'.index = gameData.index
    BY <2>3 DEF DeliverGraph, Types, GameData
  <2>4. ASSUME NEW n \in DOMAIN loads, LoadStep(n)
        PROVE  gameData'.index.load > 0 => gameData'.index.load >= gameData.index.load
    <3>1. ASSUME PublishGraph(n)
          PROVE  gameData'.index.load = n /\ n = gameData.graphGeneration
      BY <3>1 DEF PublishGraph, PublishLoaded, NotSuperseded, Types, GameData
    <3>2. ASSUME FailGraph(n)
          PROVE  gameData' = gameData \/ gameData'.index.load = 0
      BY <3>2 DEF FailGraph, Types, GameData, NoIndex
    <3>3. ASSUME PromoteWarmScope(n) PROVE gameData'.index = gameData.index
      BY <3>3 DEF PromoteWarmScope, Types, GameData
    <3>4. ASSUME LoadAnyway(n) \/ AnnounceWarm(n) \/ ValidateWarm(n) \/ DiscardGraph(n)
                   \/ AnnounceGraph(n)
          PROVE  gameData'.index = gameData.index
      BY <3>4 DEF LoadAnyway, AnnounceWarm, ValidateWarm, DiscardGraph, AnnounceGraph
    <3> QED
      BY <2>1, <2>2, <2>4, <3>1, <3>2, <3>3, <3>4 DEF LoadStep
  <2>5. ASSUME PublishOptimistic \/ PublishStartup
        PROVE  gameData' = gameData \/ gameData'.index.load = 0
    <3>1. ASSUME PublishOptimistic PROVE gameData'.index.load = 0
      BY <3>1 DEF PublishOptimistic, PublishLoaded, Types, GameData
    <3>2. ASSUME NEW loaded \in BOOLEAN, gameData' = StartupGameData(loaded)
          PROVE  gameData' = gameData \/ gameData'.index.load = 0
      BY <3>2 DEF StartupGameData, Types, GameData, NoIndex
    <3> QED
      BY <2>5, <3>1, <3>2 DEF PublishStartup
  <2>6. ASSUME MainStep, ~ \E graph \in Graphs : DeliverGraph(graph)
        PROVE  gameData' = gameData
    BY <2>6 DEF MainStep, ReportFile, ObserveGeneration, CaptureGeneration,
       CaptureSnapshot
  <2>7. ASSUME WorkerStep PROVE gameData' = gameData
    BY <2>7 DEF WorkerStep, TakeBatch, SnapshotWorkspace, PublishWorkspace,
       AnnounceWorkspace
  <2>8. ASSUME StartupStep, ~ PublishOptimistic, ~ PublishStartup
        PROVE  gameData' = gameData
    BY <2>8 DEF StartupStep, SkipOptimistic, AnnounceOptimistic, ScanWorkspace,
       MergeBaseline, RetryStartup, AnnounceStartup
  <2>9. ASSUME UNCHANGED vars PROVE gameData' = gameData
    BY <2>9 DEF vars
  <2>10. \/ gameData'.index = gameData.index \/ gameData'.index.load = 0
         \/ \E n \in DOMAIN loads : LoadStep(n)
    BY <2>3, <2>5, <2>6, <2>7, <2>8, <2>9 DEF Next
  <2> QED
    BY <2>2, <2>4, <2>10
<1> QED
  BY <1>1, InitTypes, NextTypes, PTL DEF Spec, GraphsNeverRegress
=============================================================================
