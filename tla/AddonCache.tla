----------------------------- MODULE AddonCache -----------------------------
(***************************************************************************)
(* The add-on index store of addon_sources.rs and index_cache.rs: one      *)
(* directory per add-on instance with symbols.bin, manifest.json and       *)
(* manifest-header.json, and one cache-catalogue.json, shared by every     *)
(* language server and MCP process of the user, without a lock.  A source  *)
(* is identified by its content: a revision is the digest of what          *)
(* inspect_packed_addon read, so the model writes one for the other.       *)
(* Every file is replaced by a rename: an interrupted or failed write      *)
(* leaves the old file.  All indexes count as equally long, so that the    *)
(* byte count kept in a manifest never tells two of them apart.            *)
(***************************************************************************)
EXTENDS Naturals, FiniteSets

CONSTANTS
    Addons, Processes, Contents, Missing,
    Packed,             \* the add-ons whose scripts are in packs: read verified
    MaxLoads,           \* bound on the loads that processes start
    MaxEdits,           \* bound on the changes of sources
    MaxFaults           \* bound on crashes, cancellations and failed writes

ASSUME PacksAreAddons == Packed \subseteq Addons /\ Contents # {}
ASSUME CacheBoundsAreNaturals == MaxLoads \in Nat /\ MaxEdits \in Nat /\ MaxFaults \in Nat

VARIABLES
    source,             \* what each add-on's files hold
    store,              \* directory of each add-on: symbols, manifest, header
    catalogue,          \* cache-catalogue.json: Missing, or the entries it lists
    process,            \* each process: the load it runs
    work,               \* each process: the task of each add-on
    known,              \* SOURCE_REVISIONS: stamp and payload by add-on, revision
    roots,              \* SOURCE_REVISION_ROOTS: the revisions with a cache root
    served,             \* the last virtual document: revision asked, text returned
    alone,              \* history: nobody else has worked since the load began
    loads, edits, faults

cacheVars == <<source, store, catalogue, process, work, known, roots, served, alone,
               loads, edits, faults>>
memory == <<known, roots, served>>
bounds == <<loads, edits, faults>>

Revisions == Contents \union {Missing}
Indexes == [revision : Contents, content : Contents]

ASSUME MissingIsNothing == Missing \notin Contents \union Indexes

Empty == [symbols |-> Missing, manifest |-> Missing, header |-> Missing]
Unstarted == [step |-> "none", revision |-> Missing, content |-> Missing]
NoWork == [addon \in Addons |-> Unstarted]
NoLoad == [mode |-> "none", step |-> "idle", graph |-> {}, removes |-> {}, found |-> {},
         cancelled |-> FALSE]

Removed(directory, files) ==
    [file \in DOMAIN directory |-> IF file \in files THEN Missing ELSE directory[file]]

Others(p) == Processes \ {p}
Busy(p) == process[p].step # "idle"

\* The rest of the state, for the steps of one task.
Task(p, a, step) == work' = [work EXCEPT ![p][a].step = step]
InTask(p, a, mode, step) ==
    process[p].step = mode /\ a \in process[p].graph /\ work[p][a].step = step

----------------------------------------------------------------------------
(* Loads.  "graph": load_or_build_loaded_addon_indexes, the authoritative  *)
(* load; "dependency": load_or_build_addon_indexes for the project's       *)
(* dependencies; "cached": load_cached_loaded_addon_indexes; "all":        *)
(* load_all_cached_addon_indexes.                                          *)

BeginLoad(p, mode, graph, workspace) ==
    LET removes == CASE mode \in {"graph", "cached"} -> Addons \ (graph \ workspace)
                     [] mode = "dependency" -> workspace
                     [] OTHER -> {}
    IN  /\ process' = [process EXCEPT ![p] =
             [NoLoad EXCEPT !.mode = mode,
                          !.step = IF mode = "all" THEN "select" ELSE "remove",
                          !.graph = graph \ workspace,
                          !.removes = {a \in removes : store[a] # Empty}]]
        /\ work' = [work EXCEPT ![p] = NoWork]
        /\ alone' = [q \in Processes |-> IF q = p THEN \A o \in Others(p) : ~Busy(o)
                                                  ELSE alone[q] /\ ~Busy(q)]

StartLoad(p) ==
    /\ ~Busy(p) /\ loads < MaxLoads
    /\ \/ \E mode \in {"graph", "dependency", "cached"}, graph \in (SUBSET Addons) \ {{}} :
             \E workspace \in SUBSET graph : BeginLoad(p, mode, graph, workspace)
       \/ BeginLoad(p, "all", {}, {})
    /\ loads' = loads + 1
    /\ UNCHANGED <<source, store, catalogue, memory, edits, faults>>

\* prune_unloaded_addon_caches and remove_workspace_addon_cache.
RemoveDirectory(p) ==
    /\ process[p].step = "remove"
    /\ \E a \in process[p].removes :
          /\ store' = [store EXCEPT ![a] = Empty]
          /\ process' = [process EXCEPT ![p].removes = @ \ {a}]
    /\ UNCHANGED <<source, catalogue, work, memory, alone, bounds>>

RemovalEnds(p) ==
    /\ process[p].step = "remove" /\ process[p].removes = {}
    /\ process' = [process EXCEPT ![p].step =
         IF process[p].mode = "cached" THEN "read" ELSE "inspect"]
    /\ work' = [work EXCEPT ![p] =
         [a \in Addons |-> IF a \in process[p].graph
                           THEN [Unstarted EXCEPT !.step = "queued"] ELSE Unstarted]]
    /\ UNCHANGED <<source, store, catalogue, memory, alone, bounds>>

----------------------------------------------------------------------------
(* The authoritative load: every add-on is inspected before one is built.  *)

Fail(p, a) == Task(p, a, "failed") /\ UNCHANGED <<store, memory>>

InspectAddon(p, a) ==
    /\ InTask(p, a, "inspect", "queued")
    /\ IF process[p].cancelled THEN Task(p, a, "failed")
       ELSE work' = [work EXCEPT ![p][a] =
              [step |-> "inspected", revision |-> source[a], content |-> Missing]]
    /\ UNCHANGED <<source, store, catalogue, process, memory, alone, bounds>>

Tasks(p) == {work[p][a].step : a \in process[p].graph}

InspectionEnds(p) ==
    /\ process[p].step = "inspect"
    /\ Tasks(p) \subseteq {"inspected", "failed"}
    /\ process' = [process EXCEPT ![p] = IF "failed" \in Tasks(p) THEN NoLoad
                                         ELSE [@ EXCEPT !.step = "build"]]
    /\ UNCHANGED <<source, store, catalogue, work, memory, alone, bounds>>

\* Mutant: the header alone decides.
ManifestMatchesHeader(a, revision) ==
    /\ store[a].symbols # Missing
    /\ IF store[a].header # Missing THEN store[a].header = revision ELSE store[a].manifest = revision

\* cached_manifest_matches_inspection: the compact header, which must name the
\* manifest it was written with, or the manifest when there is no header.
ManifestMatches(a, revision) ==
    /\ store[a].symbols # Missing
    /\ IF store[a].header # Missing
       THEN store[a].header = revision /\ store[a].manifest = store[a].header
       ELSE store[a].manifest = revision

Check(p, a) ==
    /\ InTask(p, a, "build", "inspected")
    /\ Task(p, a, IF process[p].cancelled THEN "failed"
                  ELSE IF ManifestMatches(a, work[p][a].revision) THEN "reuse" ELSE "rebuild")
    /\ UNCHANGED <<source, store, catalogue, process, memory, alone, bounds>>

\* load_cached_index: the fingerprint inside symbols.bin decides.
Validates(a, revision) == store[a].symbols # Missing /\ store[a].symbols.revision = revision

Register(p, a, revision) ==
    known' = [known EXCEPT ![p][a][revision] = [stamp |-> revision, payload |-> revision]]

Load(p, a) ==
    /\ InTask(p, a, "build", "reuse")
    /\ IF Validates(a, work[p][a].revision)
       THEN /\ work' = [work EXCEPT ![p][a].step = "ready",
                                    ![p][a].content = store[a].symbols.content]
            /\ Register(p, a, work[p][a].revision)
       ELSE Task(p, a, "rebuild") /\ UNCHANGED known
    /\ UNCHANGED <<source, store, catalogue, process, roots, served, alone, bounds>>

\* Mutant: the digests are not compared.
ReadableAlways(p, a) == TRUE

\* build_inspected_base_game: a pack is read against the digests of its
\* inspection, a loose file as it is now.
Readable(p, a) == a \notin Packed \/ source[a] = work[p][a].revision

Build(p, a) ==
    /\ InTask(p, a, "build", "rebuild")
    /\ IF process[p].cancelled \/ ~Readable(p, a) THEN Task(p, a, "failed")
       ELSE work' = [work EXCEPT ![p][a].step = "built", ![p][a].content = source[a]]
    /\ UNCHANGED <<source, store, catalogue, process, memory, alone, bounds>>

WriteSymbols(p, a) ==
    /\ InTask(p, a, "build", "built")
    /\ store' = [store EXCEPT ![a].symbols =
         [revision |-> work[p][a].revision, content |-> work[p][a].content]]
    /\ Task(p, a, "symbols")
    /\ UNCHANGED <<source, catalogue, process, memory, alone, bounds>>

WriteManifest(p, a) ==
    /\ InTask(p, a, "build", "symbols")
    /\ IF process[p].cancelled THEN Fail(p, a)
       ELSE /\ store' = [store EXCEPT ![a].manifest = work[p][a].revision]
            /\ Task(p, a, "manifest") /\ UNCHANGED memory
    /\ UNCHANGED <<source, catalogue, process, alone, bounds>>

WriteHeader(p, a) ==
    /\ InTask(p, a, "build", "manifest")
    /\ store' = [store EXCEPT ![a].header = work[p][a].revision]
    /\ Task(p, a, "ready")
    /\ Register(p, a, work[p][a].revision)
    /\ UNCHANGED <<source, catalogue, process, roots, served, alone, bounds>>

WriteFails(p, a) ==
    /\ process[p].step = "build" /\ a \in process[p].graph
    /\ work[p][a].step \in {"built", "symbols", "manifest"}
    /\ faults < MaxFaults
    /\ Fail(p, a)
    /\ faults' = faults + 1
    /\ UNCHANGED <<source, catalogue, process, alone, loads, edits>>

\* One failed add-on fails the load, and then the catalogue is not refreshed.
BuildEnds(p) ==
    /\ process[p].step = "build"
    /\ Tasks(p) \subseteq {"ready", "failed"}
    /\ process' = [process EXCEPT ![p] = IF "failed" \in Tasks(p) THEN NoLoad
                                         ELSE [@ EXCEPT !.step = "scan"]]
    /\ UNCHANGED <<source, store, catalogue, work, memory, alone, bounds>>

----------------------------------------------------------------------------
(* The catalogue.                                                          *)

Metadata(a) == IF store[a].header # Missing THEN store[a].header ELSE store[a].manifest

AddonsOf(entries) == {entry.addon : entry \in entries}

\* scan_cached_manifest_descriptors lists the directories with metadata, and the
\* revision it names.
Described ==
    {[addon |-> a, revision |-> Metadata(a)] : a \in {b \in Addons : Metadata(b) # Missing}}

Scan(p) ==
    /\ process[p].step = "scan"
    /\ process' = [process EXCEPT ![p].step = "catalogue", ![p].found = Described]
    /\ UNCHANGED <<source, store, catalogue, work, memory, alone, bounds>>

AfterCatalogue(p) == IF process[p].mode = "all" THEN "read" ELSE "done"

WriteCatalogue(p) ==
    /\ process[p].step = "catalogue"
    /\ catalogue' = process[p].found
    /\ process' = [process EXCEPT ![p].step = AfterCatalogue(p),
                                  ![p].graph = IF process[p].mode = "all"
                                               THEN AddonsOf(process[p].found) ELSE @]
    /\ UNCHANGED <<source, store, work, memory, alone, bounds>>

\* cached_manifest_descriptors trusts a catalogue whose indexes all exist.
Trusted == catalogue # Missing /\ \A a \in AddonsOf(catalogue) : store[a].symbols # Missing

Select(p) ==
    /\ process[p].step = "select"
    /\ process' = [process EXCEPT
         ![p] = IF Trusted THEN [@ EXCEPT !.step = "read", !.found = catalogue,
                                          !.graph = AddonsOf(catalogue)]
                ELSE [@ EXCEPT !.step = "scan"]]
    /\ UNCHANGED <<source, store, catalogue, work, memory, alone, bounds>>

----------------------------------------------------------------------------
(* Loads that only read: each add-on's index, whatever its revision.       *)

\* The revision under which a directory is remembered: that of its index, or that
\* of the entry which led there.
RootRevisions(p, a) ==
    IF process[p].mode = "all"
    THEN {entry.revision : entry \in {e \in process[p].found : e.addon = a}}
    ELSE {store[a].symbols.revision}

ReadCached(p, a) ==
    /\ process[p].step = "read" /\ a \in process[p].graph
    /\ work[p][a].step \notin {"ready", "failed"}
    /\ IF process[p].cancelled \/ store[a].symbols = Missing
       THEN Task(p, a, "failed") /\ UNCHANGED roots
       ELSE /\ work' = [work EXCEPT ![p][a] =
                 [step |-> "ready", revision |-> store[a].symbols.revision,
                  content |-> store[a].symbols.content]]
            /\ roots' = [roots EXCEPT ![p][a] = @ \union RootRevisions(p, a)]
    /\ UNCHANGED <<source, store, catalogue, process, known, served, alone, bounds>>

ReadEnds(p) ==
    /\ process[p].step = "read"
    /\ Tasks(p) \subseteq {"ready", "failed"}
    /\ process' = [process EXCEPT ![p].step = "done"]
    /\ UNCHANGED <<source, store, catalogue, work, memory, alone, bounds>>

Finish(p) ==
    /\ process[p].step = "done"
    /\ process' = [process EXCEPT ![p] = NoLoad]
    /\ UNCHANGED <<source, store, catalogue, work, memory, alone, bounds>>

----------------------------------------------------------------------------
(* Virtual documents: read_virtual_source and load_cached_source_revision. *)

\* The locator table comes from symbols.bin, everything else from the header.
Locator(p, a, revision) ==
    IF known[p][a][revision] # Missing THEN known[p][a][revision]
    ELSE IF revision \in roots[p][a] /\ Metadata(a) = revision /\ store[a].symbols # Missing
         THEN [stamp |-> revision, payload |-> store[a].symbols.revision]
         ELSE Missing

Verified(a, located) == source[a] = located.payload

ReadVirtual(p, a, revision) ==
    LET located == Locator(p, a, revision) IN
    /\ located # Missing
    /\ known' = [known EXCEPT ![p][a][revision] = located]
    /\ served' = IF located.stamp = source[a] /\ Verified(a, located)
                 THEN [asked |-> revision, text |-> source[a]] ELSE served
    /\ UNCHANGED <<source, store, catalogue, process, work, roots, alone, bounds>>

----------------------------------------------------------------------------
(* Faults and edits.                                                       *)

Forget(p) ==
    /\ process' = [process EXCEPT ![p] = NoLoad]
    /\ work' = [work EXCEPT ![p] = NoWork]
    /\ known' = [known EXCEPT ![p] = [a \in Addons |-> [c \in Contents |-> Missing]]]
    /\ roots' = [roots EXCEPT ![p] = [a \in Addons |-> {}]]

\* A process ends at any point; a directory may be left half removed.
Crash(p) ==
    /\ Busy(p) /\ faults < MaxFaults
    /\ faults' = faults + 1
    /\ Forget(p)
    /\ \/ UNCHANGED store
       \/ /\ process[p].step = "remove"
          /\ \E a \in process[p].removes, files \in SUBSET {"symbols", "manifest", "header"} :
                store' = [store EXCEPT ![a] = Removed(@, files)]
    /\ UNCHANGED <<source, catalogue, served, alone, loads, edits>>

Cancel(p) ==
    /\ Busy(p) /\ ~process[p].cancelled /\ faults < MaxFaults
    /\ process' = [process EXCEPT ![p].cancelled = TRUE]
    /\ faults' = faults + 1
    /\ UNCHANGED <<source, store, catalogue, work, memory, alone, loads, edits>>

EditSource(a) ==
    /\ edits < MaxEdits
    /\ \E content \in Contents \ {source[a]} : source' = [source EXCEPT ![a] = content]
    /\ edits' = edits + 1
    /\ UNCHANGED <<store, catalogue, process, work, memory, alone, loads, faults>>

----------------------------------------------------------------------------
CacheInit ==
    /\ source \in [Addons -> {CHOOSE content \in Contents : TRUE}]
    /\ store = [a \in Addons |-> Empty]
    /\ catalogue = Missing
    /\ process = [p \in Processes |-> NoLoad]
    /\ work = [p \in Processes |-> NoWork]
    /\ known = [p \in Processes |-> [a \in Addons |-> [c \in Contents |-> Missing]]]
    /\ roots = [p \in Processes |-> [a \in Addons |-> {}]]
    /\ served = [asked |-> Missing, text |-> Missing]
    /\ alone = [p \in Processes |-> FALSE]
    /\ loads = 0 /\ edits = 0 /\ faults = 0

TaskStep(p, a) ==
    \/ InspectAddon(p, a) \/ Check(p, a) \/ Load(p, a) \/ Build(p, a)
    \/ WriteSymbols(p, a) \/ WriteManifest(p, a) \/ WriteHeader(p, a) \/ ReadCached(p, a)

LoadStep(p) ==
    \/ RemoveDirectory(p) \/ RemovalEnds(p) \/ InspectionEnds(p) \/ BuildEnds(p)
    \/ Scan(p) \/ WriteCatalogue(p) \/ Select(p) \/ ReadEnds(p) \/ Finish(p)

CacheNext ==
    \/ \E p \in Processes :
          \/ StartLoad(p) \/ LoadStep(p) \/ Crash(p) \/ Cancel(p)
          \/ \E a \in Addons :
                \/ TaskStep(p, a) \/ WriteFails(p, a)
                \/ \E revision \in Contents : ReadVirtual(p, a, revision)
    \/ \E a \in Addons : EditSource(a)

CacheSpec == CacheInit /\ [][CacheNext]_cacheVars

----------------------------------------------------------------------------
CatalogueEntries == [addon : Addons, revision : Contents]
Loads ==
    [mode : {"none", "graph", "dependency", "cached", "all"},
     step : {"idle", "remove", "inspect", "build", "scan", "catalogue", "select", "read", "done"},
     graph : SUBSET Addons, removes : SUBSET Addons, found : SUBSET CatalogueEntries,
     cancelled : BOOLEAN]
WorkOnAddons ==
    [step : {"none", "queued", "inspected", "reuse", "rebuild", "built", "symbols", "manifest",
             "ready", "failed"},
     revision : Revisions, content : Revisions]
Directories == [symbols : Indexes \union {Missing}, manifest : Revisions, header : Revisions]
Locators == [stamp : Contents, payload : Contents]

CacheTypeOK ==
    /\ source \in [Addons -> Contents]
    /\ store \in [Addons -> Directories]
    /\ catalogue \in (SUBSET CatalogueEntries) \union {Missing}
    /\ process \in [Processes -> Loads]
    /\ work \in [Processes -> [Addons -> WorkOnAddons]]
    /\ known \in [Processes -> [Addons -> [Contents -> Locators \union {Missing}]]]
    /\ roots \in [Processes -> [Addons -> SUBSET Contents]]
    /\ served \in [asked : Revisions, text : Revisions]
    /\ alone \in [Processes -> BOOLEAN]
    /\ loads \in 0..MaxLoads /\ edits \in 0..MaxEdits /\ faults \in 0..MaxFaults

(***************************************************************************)
(* Whoever wrote last and wherever a writer was interrupted: the index an  *)
(* authoritative load hands on for a packed add-on was made from exactly   *)
(* the scripts of the revision the load inspected, and a reforger-pak      *)
(* document never shows another revision's text, although its locators,    *)
(* its header and its pack may be of three revisions.                      *)
(***************************************************************************)
LoadedIsInspected ==
    \A p \in Processes, a \in Packed :
        process[p].mode \in {"graph", "dependency"} /\ work[p][a].step = "ready"
            => work[p][a].content = work[p][a].revision

ReadsAreOfTheirRevision == served.asked = served.text

RevisionsAreTrue == LoadedIsInspected /\ ReadsAreOfTheirRevision

(***************************************************************************)
(* An authoritative load that nobody disturbs leaves each of its add-ons   *)
(* with an index and metadata of one revision, whatever half-written or    *)
(* half-removed directory an earlier process left behind.                  *)
(***************************************************************************)
DirectoriesAreRepaired ==
    \A p \in Processes :
        process[p].mode \in {"graph", "dependency"} /\ process[p].step = "done" /\ alone[p]
            => \A a \in process[p].graph :
                  /\ store[a].symbols # Missing
                  /\ store[a].symbols.revision = work[p][a].revision
                  /\ store[a].manifest = work[p][a].revision
                  /\ store[a].header \in {Missing, work[p][a].revision}

=============================================================================
