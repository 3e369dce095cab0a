# Verification of reforger-script-tools

This directory holds TLA+ modules, TLC configurations and TLAPS proofs about the
stateful core of the Reforger Script Tools: how the language server admits
analysis work, publishes results and answers requests; how it replaces the
external index, stores and layers the indexes of add-ons and parses a script;
how the extension starts the server, asks for consent and follows the compiler
of the Workbench; how Workbench processes are launched and ended; and how the
bridge package is kept in the Workbench profile and edits go through it.

## 1. The system

The repository is a VS Code extension (TypeScript, `src/src/`), a Rust language
server that is also an MCP server (`src/server/src/`), scripts that run inside
the Enfusion Workbench (`src/server/bridge/`), build tools and documentation.
Paths below are relative to `src/`; `lsp/` is `server/src/lsp/`, and
`workbenchNetApi/` and `languageClient/` are under `src/src/`.

| Component | State it keeps | Operations | Concurrency |
|---|---|---|---|
| Analysis runtime, `server/src/analysis_runtime.rs` | open snapshots by uri; admission table: retained tasks by (class, uri), a queue for each class, byte total, sequence | upsert, close, admit, take_next, complete | owned by the main loop; a task's cancellation flag is shared with its worker |
| Document runtime, `lsp/document_runtime.rs`, `lsp/open_documents.rs` | open documents and their readiness, token overlay and pending projection, deferred requests, refresh state, last generation seen | open, change, close, defer, interpret events, observe a generation | main loop only |
| Work executor, `lsp/runtime_scheduler.rs` | jobs by (class, uri) | schedule, take, execute, send | one or two workers and the main loop share the map |
| Main loop, `lsp/mod.rs`, `lsp/incoming_scheduler.rs`, `lsp/feature_dispatch.rs`, `lsp/response_writer.rs` | a bounded channel (64 events), the event set aside, the lifecycle flags | take a message or event, collapse edits, dispatch, deliver effects | reader, workers and index threads all send into the channel |
| External overlay, `lsp/external_overlay.rs` | workspace layer, game-data layer, status, generations, exclusion cache, latest-wins queue of changes | report a file, deliver a graph, snapshot | startup thread, update worker, one thread for each graph, and the main loop around one mutex |
| Add-on sources and index cache, `server/src/addon_sources.rs`, `index_cache.rs`, `index_build.rs` | one directory per add-on instance with an index and its manifests, a catalogue, remembered revisions and pack roots | load a graph, a closure, all or the warm set; remove, prune, read a document | several processes share the storage without a lock; parallel build workers |
| Symbol index and its queries, `server/src/index.rs`, `index_query.rs` | immutable: files, symbols, lookup maps, layers | build, compact, layer, look up, complete | none |
| Parser, `server/src/parser.rs` | none | one text to one tree | none |
| Workbench controller, `server/src/workbench.rs` | observed processes | launch, stop, restart, save | tool calls on up to eight threads; the user's own Workbench processes |
| Bridge installer, `server/src/workbench.rs` | the managed package and the flat one of earlier releases: script files and a manifest | bootstrap, maintain, install, migrate | one lock in a process; several processes, of several versions, share the directory |
| Editing tools, `server/src/workbench.rs`, `server/bridge/` | single-use write descriptors and confirmations; the entity or prefab resource in Workbench | inspect, add, remove, set, delete | tool calls on up to eight threads; Workbench takes one request at a time; its user edits |
| Workbench compiler, `workbenchNetApi/compiler/`, `gateway/` | phase, running and pending validation, timers, configuration, result | schedule, validate, probe, configure, dispose | promises and timers of the extension host |
| Workbench integration, `workbenchNetApi/integration/` | consent, readiness, bootstrap, retry | start, bootstrap, react to the setting and to connections | promises, a modal prompt |
| Language client, `languageClient/` | client, start generation, restart coordinator, graph fetches, confirmation | start, restart, refresh, deliver, confirm | promises; the server process |
| Resolver, scopes, language features, MCP catalogues and searches | none | functions of immutable snapshots | cancellable |

How they interact.  The editor's messages reach the main loop through the
bounded channel.  A document notification gives the document a new revision in
the analysis runtime, which flags all work of the older one, and admits a
foreground task; its completion event installs diagnostics and admits the
semantic task, whose completion replays the requests that waited for it and
admits the rich projection.  `complete` is the only authority on whether a
result may be published.  Independently, the overlay's threads publish new
index *generations* and send `ExternalIndexChanged`; the main loop then drops
token overlays of older generations, rejects the token requests deferred for
them, and asks the client to refresh.  The indexes come from the add-on store,
which builds them with the parser and layers them with the workspace's own.  On
the extension's side the integration coordinator settles consent, then the
language client starts the server, asks Workbench for its graph once the
integration is ready, delivers it and confirms what the server accepted, while
the compiler controller polls Workbench and validates saved scripts.

The hard behaviours are results of tasks that were replaced, cancelled or
overtaken; requests parked in several places with many ways out; critical
sections that read, compute unlocked, and write back; publications whose
announcement is a separate step; limits shared by all documents; files replaced
one after the other by processes that do not know of each other; code between
two awaits that acts on what it read before the first; process ids that are
reused while a call waits; and recovery, in the parser, from whatever a user has
typed so far.  `PROJECT.json` lists the hazards at their lines, with the
properties below that watch them.

## 2. Modules

Server, documents and requests:

- `AdmissionTable` - `TaskAdmission` as operators on a record.  Shared by the
  next two modules, so that what is proved of it and what the document runtime
  uses is the same text.  A cancellation flag (`Arc<AtomicBool>`) is a member
  of the set `cancelled` of sequence numbers.
- `AnalysisRuntime` - `DocumentStore` and the table under any legal sequence of
  calls; `handed` are the identities held by workers or events, `published` is
  a history variable.  `CancelPending` is the one writer of a flag outside of the
  runtime: the token cache gives up a projection it waits for, whose task stays
  retained (`lsp/open_documents.rs:467-471`).
- `PublicationGate` - the abstract promise: tickets, of which a key has at most
  one live, publishable once.  `AnalysisRuntime` implements it (`GateSpec`).
- `DocumentRuntime` - the main loop's handlers over the table, the executor's
  job map and lanes, the channel, the client and the publishers of generations.
  One handler is one action: it includes the admission, `take_next` and
  scheduling that the code performs in it.  Replays are the one exception: the
  code delivers them one by one at the end of a handler, while workers run, so
  each is a step, and no other message or event is taken until they are done
  (`LoopIsFree`).
- `EventChannel` - what lies before those handlers: the reader thread, the
  bounded channel, the collapsing of `didChange`, the one event set aside, the
  lifecycle handshake, the loop's own send when a graph arrives, and how the
  loop ends.

Server, indexes:

- `ExternalOverlay` - one action for each critical section of the overlay's
  mutex; between two of them a thread carries what it read in its own record
  (`worker`, `startup`, `loads[n]`).
- `AddonCache` - the add-on store on disk and the processes that inspect,
  reuse, build, publish, remove and prune in it; a write may fail and a process
  may die between any two steps.
- `SymbolIndex` (with the sample contributions of `SymbolFiles`) - building,
  compacting and layering of indexes, the walk over bases, member completion,
  static lookups, as operators; its actions add sources and layers.
- `Parser` (with the sample sources of `SourceTexts`) - every parse function
  with its look-ahead, recovery and recursion limit, over sequences of token
  kinds.  Its actions parse a source and break one of its lines.

Workbench and extension:

- `WorkbenchControl` - launch, stop and restart with their saves and waits, one
  action for each stretch between two observations of the system.  An observation
  is a list of processes that `powershell.exe` gives; one that fails reads as
  empty, so each is a choice between what runs and nothing (`Listings`).
- `WorkbenchBridge` - the calls that prepare the package, one action for each
  file operation; a file is emptied and refilled in two steps.  A process may
  die, a write fail, or the user change the directory between any two steps.
- `WorkbenchEdits` - the editing tools of one entity or one prefab resource with
  the handlers in Workbench: one action for each critical section of the maps of
  descriptors and confirmations and for each request Workbench serves.
- `WorkbenchCompiler`, `WorkbenchIntegration`, `LanguageClient` - one action for
  the code between two awaits of one callback of the extension host.

A module `XProofs` holds the theorems about `X` and the lemmas they rest on:
`AdmissionTableProofs`, `AnalysisRuntimeProofs` (with those about the gate it
implements), `DocumentRuntimeProofs`, `ExternalOverlayProofs`,
`WorkbenchCompilerProofs` and `LanguageClientProofs`, which is about
`WorkbenchIntegration` too.  `DocumentWorkProofs`
extends `DocumentRuntimeProofs` with the proof of `WorkIsComing`; `ServerProofs`
is about five of the parts that `MCServer` combines: `EventChannel`,
`AddonCache`, `WorkbenchControl`, `WorkbenchEdits` and `WorkbenchBridge`.  The
`MC*` modules are what TLC runs.  `MCDocumentRuntime`, `MCOverlay` and
`MCWorkbenchCompiler` extend the module they run, `MCExtensionStart` both of its
coordinators, `MCServer` these five, so a property that TLC checks is the
definition the theorem names.

Four combine several instances in one behaviour-by-behaviour sum: a
variable (`focus` or `part`), fixed in the initial state, says which load, or
which of several independent components, moves; the others keep their initial
values.  A behaviour of the sum is then a behaviour of one of its terms next to
constants, and conversely, so an invariant `focus = "x" => P`, or a `P` of a
component's own variables, holds of the sum exactly if it holds of the term.
Fairness is stated for the moving part only, with subscripts of its own
variables.  What is summed either shares no state in the program (the parser
and process control, say) or is the same component under another load, so no
interaction is lost by the sum; the interactions that exist are inside of a
module.  In `MCExtensionStart` and `MCWorkbenchCompiler` a load bounds the user,
Workbench and crashes, never a step of the extension.

Abstractions.  A text is its size (the limits look at nothing else) and the
revision it was given, or the number of the message or edit that made it; an
analysis or a token projection is the revision and generation it was computed
for; a file is the number of the report that carried it, 0 for the startup scan;
an overlay index is the files or the graph it was built from; in `AddonCache` a
revision stands for the digest of its content.  To the parser a source is its
token kinds, with trivia told apart by whether it holds a line break, which is
all the parser looks at; the lexer, and the wording of diagnostics, are left
out.  `saturating_sub` is modelled as such; the u64 counters never saturate in
practice and are naturals.  Among equal-class jobs and among evicted cache
entries the code takes the least uri or path, the models take any, which keeps
uris symmetric and only adds behaviours.  A worker that finishes may see a flag
raised while it ran or miss it.  Time is abstracted everywhere: a deadline may
pass at any moment at which what is waited for is not there.

Operators whose comment says "Defect" or "Mutant" are not part of the model:
each is a plausible bug that `PROJECT.json` substitutes for a definition to see
that the property named beside it notices.

## 3. Runs

| Run | Instance | Shows |
|---|---|---|
| `analysis_runtime` | 2 documents, 2 task slots, 4 size units, sizes 1 and 3, 3 revisions, 3 admissions | table and publication properties, refinement of the gate |
| `documents` | *requests*: 1 document with 2 revisions, 2 requests, 2 generations, both lanes, channel of 2, fair; *single*: the same with 1 request and the single-CPU lane, fair; *overload*: 2 documents, 1 slot, the single-CPU lane, a text that never fits, deferral limit 1 | the life of a request, freshness, convergence |
| `overlay` | *files*: 2 files, one report each, room for 1 exclusion; *reports*: 1 file, 2 reports in any order, a cached inventory, fair; *graphs*: 2 deliveries of 2 graphs while startup has no source or dependencies; *warm*: 1 delivery after an inventory | races of reports, startup and graphs |
| `workbench_compiler` | 1 script; *user*: an edit and a configuration change; *workbench*: an outage; one status call in flight, fair | staleness, polling, reconnection |
| `extension_start` | 2 changes of the setting and of Workbench for the integration; for the client 3 restarts, or a restart and a graph refresh, or a restart and a crash; fair | one current client, consent, readiness |
| `server` | *channel*: 2 documents, 4 messages, channel of 2, 1 background event; *syntax*: the sources of `SourceTexts`, recursion limit 7; *shared*: 1 add-on, 2 processes, 2 loads, 1 change of a pack, 1 fault; *several*: 2 add-ons, 3 loads, 1 fault; *index*: the files of `SymbolFiles`, at most 3 in 3 layers; *control*: 1 process id, 2 starts, 2 calls; *bridge*: 2 processes of 2 versions, of which the newer drops a file, 2 calls, 1 fault; *edits*: 2 components of one class with 2 values, 2 concurrent calls, 3 tool calls or changes of the user; fair where a liveness property needs it | the parts of the server that share no state |
| `debug_starvation` | 1 document, 2 debug captures, fair | *violated*: see section 5 |
| `baseline_lost`, `graph_overwritten`, `warm_scope` | small instances of the overlay | *violated* |
| `static_lookup` | the sources of `SymbolFiles` | *violated* |
| `saved_is_validated` | 1 script edited twice | *violated* |

Why the bounds are enough for what is claimed.

Documents.  Replacement needs an older and a newer revision or task of one key,
hence two or three revisions and admissions.  Competition for the global limits
needs a second document and a slot fewer than the keys that want one; sizes 1
and 3 against 4 units make both limits bite, and 9 against 8 is a document that
never fits.  A request is overtaken by at most one edit and one generation at a
time, and every list it waits in is cleared as a whole; a second request shows
that clearing one does not disturb another.  With one worker nothing overlaps but
the worker and the loop, so one request is enough there; what matters is that
background work is taken at all.  The event channel holds 2 events (4
in the overload) instead of 64, so that producers do block on it.

Overlay.  Each race has two parties and each critical section replaces a layer
as a whole, so one or two files, reports and graphs suffice; three graph loads
are needed only for the reuse of a scope after a failure.

Channel.  A run of collapsed edits of one document is ended by an edit of
another, by a request, or by the limit, which is 2; four messages make a run, its
end, and something behind it.

Parser.  `WellFormed` combines every form of expression with every form of
statement, and every pair of members.  The other sources put up to two arbitrary
words of `Words` (three of a smaller set) in a method, among the members and at
the start of a file, and one or two of them inside nested blocks, initializers
or calls as deep as the limit, which is 7 instead of 128: about 10,000 sources,
with every line break of each well-formed one.  The limit is reached with and
without a token to consume.

Caches.  A disagreement of `symbols.bin`, `manifest.json` and the header needs
one interrupted writer and one later one, or two writers and a change of the
pack between them: two processes, two loads, one change, one fault.  The
catalogue and removals need a second add-on and a third load.

Index.  Rebasing of ids needs two layers with files before them; shadowing and
cycles need three declarations.

Bridge.  A half-written package needs one interrupted call and one that meets
it; a disagreement needs two calls that overlap.  A file that only the older
version has shows that nothing of a replaced package stays.  Edits.  A confirmed
write needs an inspection, a preview and the write; two components of one class
are the least that an index confuses, and two calls the least that use one token
at once.

Control.  One process id makes every later process reuse it; two calls are the
two that race.  Extension: settings, restarts, refreshes and crashes are counted
by what interrupts a sequence of awaits once, and restarts up to three times: one
that runs, one that is coalesced behind it, and one that is asked for when the
two are done or rejected.

The bounds `MaxRevision`, `MaxSequence`, `MaxVersion`, `MaxGeneration`,
`MaxGraphLoads`, `MaxSent`, `Background`, `MaxLoads`, `MaxEdits`, `MaxFaults`,
`MaxFiles`, `MaxLayers`, `MaxGroup`, `MaxStarts`, `MaxCalls`, `MaxRestarts`,
`MaxRefreshes`, `MaxCrashes`, `MaxSettings`, `MaxWorkbench`,
`MaxConfigurations`, `MaxComponents`, `MaxEvents`, `MaxInstalls`, `MaxDamages`,
`MaxOutages` and `MaxProbes` stop the environment's input, publications and
faults; nothing else is capped.

Deadlock is not checked, since a run may stop with its inputs spent and all
threads idle, which is a legal idle server; that nobody waits for ever is
stated by the liveness properties instead.

## 4. Properties

`analysis_runtime`: `WithinLimits`; `TableIsExact` (bytes and queues are what
they would be if computed from the retained tasks, so the "defensive" skip of
`take_next` is dead code); `RetainedIsLatestSnapshot`; `FlagsFollowTickets` (a
handed-out task that lost its ticket is flagged; one that may publish is not,
unless it is a projection that the document layer gave up); `OnlyNewestPublishes`;
`GateSpec`.

`documents`: `RequestsAreHeld` (a waiting request is held by exactly one queue,
job or replay, and what is deferred is of the revision on screen);
`WorkIsComing` (what anything waits for exists); `StaleTokensAreAnnounced`;
`NoStaleAnswer`; `DiagnosticsNeverRegress`; `RequestsAreAnswered`;
`LoadConverges`; the last two with two workers and with the one that does
background work only while idle.  Debug captures are excepted from the first, and the second is
claimed where none is sent (`NoCaptures`); section 5 says what a capture breaks.

`overlay`: `CapturesAreCurrent` (a generation names one content, a cached
exclusion is of the current files), `NewestReportWins`, `ChangesAreAnnounced`,
`SettledStatus`, `GraphsNeverRegress`, `ReportsAreSeen`.

`workbench_compiler`: `FreshMeansCurrent` (a result not marked stale is about
the text of every editor and file and of the current configuration),
`PollingNeverStops`, `Reconnects`.

`extension_start`: `OneCurrentClient` (no client is forgotten, the one in use
has the mode of the setting unless a rejected restart dropped the one that would
have given it, a confirmed scope is its own), `DisabledStaysOff`,
`PromisesSettle` (with `RestartsEnd` of the client).

`server`: `EditsKeepTheirPlace` (a request sees exactly the text its client had
when it sent it, and no edit is lost); `RequestsEnd` (of the channel,
`MessagesAreHandled`: every message is handled, or the server ends, or the loop
has wedged itself in its own channel, see section 5; of process control,
`CallsEnd`: every call is answered);
`SourceIsKept` (the tree holds every token once and in order; the parser stops
making progress only at the recursion limit; a class after a broken method is
recognised; a well-formed source has no diagnostic, and breaking a line of it
changes no node); `RevisionsAreTrue` (an authoritative load hands on the index
of the revision it inspected, and a virtual document is of the revision its
locator names); `DirectoriesAreRepaired` (a load that nobody disturbs is complete
whatever was left half-written); `BridgeRecovers` (and so is an installation of
the bridge: it never downgrades and leaves nothing of the package it replaces;
installations of one version that meet agree); `EditsAreAuthorised` (what needs a confirmation is done
only with one given for exactly this, a descriptor or confirmation serves for
one edit, a write replaces the value that was seen, and a confirmed removal
takes the component that was shown unless one was removed meanwhile);
`IndexAnswers` (layered, cached or built at once, an index answers the same, and
completion offers what is not shadowed); `ExactlyTheTargetEnds` (only
the process a call chose is closed or killed, and it is gone before the call
says so, unless the list that told so had failed, see section 5).

Fairness.

- `DocumentRuntime`: the loop keeps delivering effects and taking events
  (`run_message_channels` blocks only on an empty channel), every lane's thread
  keeps running (`run` never exits), a publisher reaches its send.
- `ExternalOverlay`: weak fairness of the worker and the startup thread, which
  are loops or straight-line threads; of the end of a capture, which is
  straight-line code; and strong fairness of taking an `ExternalIndexChanged`,
  because the loop serves one channel in order, so that an event that is in it
  again and again cannot be passed over for ever.
- `EventChannel`: the loop, the reader's send and the background threads' sends.
- `WorkbenchControl`: each call's step.  The waits of the code for a save, an
  exit and the NET API have deadlines; its waits for `powershell.exe` to list or
  close processes (`server/src/workbench.rs:4978-4989`, `:8303-8311`) have none,
  and that it returns is an assumption.
- `WorkbenchCompiler`: timers fire, calls are answered or reach their deadline, a
  save settles.  Two strong assumptions are about Workbench and are stated as
  such: calls to a running Workbench do not time out every time, and refreshes of
  its graph do not fail every time; nothing in the code can replace them.
- `WorkbenchIntegration`: the user answers the prompt, calls are answered or time
  out, the compiler reports a Workbench that keeps running.
- `LanguageClient`: calls of the editor and the gateway end, a running server
  finishes its index and its graphs.

Nothing is assumed of the client or the editor's edits.

## 5. Where the code disagrees with its documentation

Each of these is a run that TLC refutes in a few steps.

1. `debug_starvation`.  Two `debugHover`/`debugCompletion` requests for one
   document before the background worker takes the first:
   `RuntimeWorkExecutor::schedule_work` (`lsp/runtime_scheduler.rs:418`)
   overwrites the queued job, and the first request's id goes with it.  The
   comment above it says replacing a queued key "only removes a task that the
   runtime has already made ineligible for publication"; for a debug job it
   also removes an answer that is owed.  The same overwriting strands token
   requests when a debug capture replaces a queued projection, which is why the
   *requests* and *single* loads send no debug captures.
2. `baseline_lost`.  The startup publication does not count
   `workspace_generation` up, so an update worker that took its snapshot before
   it publishes over it, and every file of the scan is gone until it changes.
3. `graph_overwritten`.  A startup that resolved project dependencies publishes
   them over a live graph that arrived meanwhile.
4. `warm_scope`.  A failed graph load clears the game-data index but not the
   remembered scope; the next delivery with that scope "reuses" it and labels
   nothing at all as the live Workbench graph.
5. `static_lookup`.  Two typedefs of each other make
   `completion_static_members_for_type` recurse for ever; the lookups through
   bases are tested to end on cycles.
6. `saved_is_validated`.  A save while a validation runs waits in
   `pendingValidation`; an idle validation scheduled meanwhile drops it and may
   then decline to start, so the saved text is not validated.

Met while modelling, and left without a run of their own:

- *Parser.*  A local initializer on the line after `=` that reads as a
  declaration (`int x =` / `a + b;`) is taken for a new one, with a false
  "Expected expression" (`server/src/parser.rs:1625-1637`, `:745-752`; the
  nearest test is `:3211`).  `LayoutIsIrrelevant` excepts exactly that
  (`Misread`).  At the recursion limit a statement, argument or initializer loop
  before `;` or `}` consumes nothing and `assert_progress` (`:2032-2041`) ends
  the process; `parse_attribute_args` (`:1457-1475`) would loop for ever.
  `StuckOnlyAtTheLimit` says that it happens nowhere else.  A modifier,
  attribute or `class x :` just before `}` consumes the brace of the class
  around it; a `?` without `:` swallows a `}`, and so does a directive on its
  line.
- *Channel.*  `load_workbench_graph` sends progress from the main loop into the
  channel only that loop empties: with 64 events in it the server waits for
  itself.  `MessagesAreHandled` excepts exactly that (`Wedged`).
- *Overlay and client.*  `docs/architecture.md:178` describes what follows an
  accepted graph, but a graph whose scope was promoted from the warm snapshot can
  stay unconfirmed by the client (`lsp/external_overlay.rs:337-396` with
  `languageClient/languageClient.ts:655-689`); in `all` mode an incompatible
  cache is not selected but is not rebuilt either (`docs/architecture.md:171-172`
  with `server/src/addon_sources.rs:1374-1398`).
- *Restarts.*  `docs/architecture.md:60-61` says "Changing `externalIndexMode`
  invalidates any in-flight language-server startup, restarts the client with the
  new mode", and `docs/development.md:411` "Changing this setting immediately
  restarts the language server".  A restart asked for during the initial startup
  awaits that startup and is rejected with it
  (`languageClient/languageClient.ts:924-931`); the drain of the coordinator then
  gives up the change that was coalesced into it or waits behind it
  (`languageClient/restartCoordinator.ts:22-27`), and the client stays in the
  former mode.  `OneCurrentClient` excepts exactly that (`coordinator.rejected`); the exception
  was found by the proof, and TLC needs three restarts to meet it.
- *Process control.*  A list of processes that fails, because `powershell.exe`
  cannot be started or its output does not parse, reads as an empty one
  (`server/src/workbench.rs:8301-8316`, `:8328-8334`).  After such a failure a stop
  answers `exited: true` (`:5022-5037`, `:5067-5085`) and a restart launches again
  (`:5187-5190`) while the process runs, and a launch starts another one beside
  it (`:4760-4762`).  `ExactlyTheTargetEnds` excepts exactly a call whose last list
  had failed (`blind`), and says of it that the process was at least asked to
  close.  The comment at `server/src/workbench.rs:5042` speaks of the
  process's own save, but the NET API answers for whichever Workbench holds its
  port, so an acknowledged save may be another's.  Two concurrent launches start
  two processes.  An acknowledged close still falls back to force after its
  timeout.
- *Bridge.*  `docs/architecture.md:358-359` says "newer package versions are
  never downgraded".  Of two processes of different versions that work at the
  same time the older may write last, and it also overwrites a newer package
  whose manifest it finds torn; `CallsRepair` therefore speaks of undisturbed
  calls.  A flat package of another version is not migrated and stays beside the
  new one, and a crash in a migration leaves the rest of the flat files for good
  (`server/src/workbench.rs:5384-5404`).
- *Edits.*  A component is named by its index and class, so after any removal
  the id that a preview showed may be that of the next component of the class,
  and a confirmed removal takes that one;
  `docs/mcp-api/tools/workbench_remove_component.md:6` speaks of "one exact
  entity-local component identity".  `ExactComponentIsRemoved` excepts exactly
  that.  An edit of a prefab resource whose save is rejected stays in the loaded
  resource, though the tool reports a failure
  (`server/bridge/RST_WorkbenchPrefab.c:868-873`).  The listings replace `|` and
  `;` in values, and the handlers compare with the unreplaced value, so a
  property that holds one is always refused as stale
  (`server/bridge/RST_WorkbenchComponents.c:167-168`, `:408`).
- *Completion.*  Where no own member exists, which inherited one is kept follows
  file priorities before distance (`server/src/index_query.rs:428-473` with the
  test at `server/src/index.rs:3413`).

## 6. Proofs

TLAPS proves, for every value of the constants:

| Theorem | States |
|---|---|
| `TypeCorrect`, `LimitsHold`, `TableStaysExact`, `TasksAreCurrent`, `FlagsAreFollowed`, `NewestPublishes` | `Spec => []P` for `TypeOK`, `WithinLimits`, `TableIsExact`, `RetainedIsLatestSnapshot`, `FlagsFollowTickets`, `OnlyNewestPublishes` of `AnalysisRuntime` |
| `RuntimeImplementsGate` | `AnalysisRuntime` implements `PublicationGate` |
| `GateLiveIsNewest`, `GatePublishesForward` | a live ticket of the gate is newer than all its key published, so that no key publishes backwards |
| `RuntimePublishesForward` | with the two lines above, neither does the runtime |
| `DocumentTypeCorrect`, `StaleTokensGetAnnounced` | `DocumentRuntime`: `TypeOK`, `StaleTokensAreAnnounced` |
| `AnswersAreFresh`, `DiagnosticsMoveForward` | `DocumentRuntime`: the action properties `NoStaleAnswer`, `DiagnosticsNeverRegress` |
| `RequestsStayHeld` | `DocumentRuntime`: `RequestsAreHeld`; `DeferredStaysCurrent` is its part `DeferredIsCurrent` |
| `WorkKeepsComing` | `DocumentRuntime`: `WorkIsComing`; `NothingStaysQueued` is its part `NothingLeftQueued` |
| `ChannelTypeCorrect`, `EditsStayInPlace` | `EventChannel`: `ChannelTypeOK`, `EditsKeepTheirPlace` |
| `CacheTypeCorrect`, `RevisionsStayTrue`, `DirectoriesStayRepaired` | `AddonCache`: `CacheTypeOK`, `RevisionsAreTrue`, `DirectoriesAreRepaired` |
| `OverlayTypeCorrect`, `NewestReportIsKept`, `CapturesStayCurrent`, `PublicationsAreAnnounced`, `StatusSettles` | `ExternalOverlay`: `TypeOK`, `NewestReportWins`, `CapturesAreCurrent`, `ChangesAreAnnounced`, `SettledStatus` |
| `GraphsOnlyAdvance` | `ExternalOverlay`: the action property `GraphsNeverRegress` |
| `ControlTypeCorrect`, `ReportedExitsAreReal`, `ExactlyTheTarget` | `WorkbenchControl`: types; an exit that is reported is real, unless the last process list had failed; only the chosen process is ended (`ExactlyTheTargetEnds`) |
| `EditsStayAuthorised` | `WorkbenchEdits`: `EditsAreAuthorised`, with its part `ExactComponentIsRemoved`, which excepts a removal in between |
| `BridgeTypeCorrect`, `BridgeStaysRecoverable` | `WorkbenchBridge`: `BridgeTypeOK`, `BridgeRecovers` |
| `CompilerTypeCorrect`, `PollingGoesOn`, `FreshIsCurrent` | `WorkbenchCompiler`: `TypeOK`, `PollingNeverStops`, `FreshMeansCurrent` |
| `ClientTypeCorrect`, `OneClientIsCurrent` | `LanguageClient`: `TypeOK`, `OneCurrentClient` |
| `IntegrationTypeCorrect`, `TurnedOffStaysOff` | `WorkbenchIntegration`: `IntegrationTypeOK`, the action property `DisabledStaysOff` |

The assumptions are those of the modules: limits, sizes and bounds are naturals
(at least one status call may be in flight, and the channel has room for an
event), kinds of request and lanes are among
those the code has, and the value of a job without a request is none
(`RuntimeAssumption`); and the value `None` that stands for
"nothing" is neither a process (`NoneIsNoProcess`), nor a validation run
(`NoneIsNoRun`), nor a server, a generation or a restart (`NoneIsNothing`), as
`Nothing` is no event (`NothingIsNoEvent`), `Missing` neither a content nor an
index (`MissingIsNothing`), and `NoFile` and `Torn` neither a file nor a manifest
of any version (`NoFileIsTorn`).  Packed add-ons are add-ons, and there is at
least one content a file can have (`PacksAreAddons`).  Versions are positive, so
that a manifest nobody can read is below all of them, and every package has a
file (`PackagesHaveFiles`).

Analysis runtime.  `AdmissionTableProofs` says what each operation does to a
table that is `Sound`: its types, that a retained task sits under its own key,
has a sequence number already given out, that a queued task, and one that is not a
projection, is not flagged, and that the limits hold.  `Remove`, `Retain`, `Admit`, `TakeAt`,
`Complete` and `CancelUri` each preserve it and change only the retained keys
they name; these lemmas are all the runtime's proof knows of the table.  The
inductive invariant of `AnalysisRuntimeProofs` is `Tickets /\ Snapshotted`.  The
safety properties are not inductive alone: `FlagsFollowTickets` needs that every
identity handed out carries a number the table has issued and is flagged unless
it is retained, `OnlyNewestPublishes` needs that nothing published, handed out or
retained has a number above `table.sequence`, and that two retained keys never
share one.  `Snapshotted` ties retained tasks to `documents`; `Upsert` and
`Close` keep it because they cancel the whole uri first.

`TableIsExact` is about a sum, a fold, and queues.  The induction theorems of the
library take a predicate as a parameter, which the provers cannot instantiate;
the inductions here are over sets instead: the naturals are the least set with 0
and successors (`NaturalsAreLeast`), so a set of numbers that is closed under
them is all of them.  That yields the recursive function behind the fold
(`SumsExist`), that the order of the elements does not matter (`SumsCommute`),
and what adding, removing or replacing a task does to the total.

Document runtime.  The loop's record `main` is one state, and a handler composes
up to a dozen functions of it.  `Good` says that such a state is well typed over
an `Idle` table (what is admitted is taken at once, so no queue holds anything), and `Consistent` adds that what is deferred,
retained and replayed is of the revision on screen, that diagnostics are of a
revision the document has had, and that a client which shows old tokens has been
or will be told.  Each function is shown to be a step of one of a few kinds,
which compose: `Calm` keeps all parts of `Consistent` and the revisions, `Quiet`
gives no result either, `Resolves` may schedule one good job and give fresh
results.  An edit, an open and a close are not calm, since they replace the
revision; they first clear whatever is of the old one (`Cleared`).  `Handles` is
what each handler shows of its outcome.  The invariant `Inv` is `Consistent(main)`
with the jobs, the running work and the events being those of issued tasks, and
with the event of a generation the loop has not observed still to come.
Deferred vectors are split by `Kept`, a recursive function, whose properties are
proved by the same induction over sets.

`RequestsAreHeld` counts holders, and a count does not compose; `Filed(s, X)`
does.  A request waits in a box: the deferred requests or the deferred tokens of
a document, or the replays.  X is what a handler has in hand, taken from a box
and not yet answered or put away.  `Filed` says that no box has a request twice
(`Ordered`), that a request is in one box at most and nothing in hand is in any
(`Apart`), and that an ordinary request has one answer or none, as its state
says, and waits exactly if it is in a box or in hand (`Owed`).  Every function of a handler
files some of what is in hand and takes some of what is filed, so a handler
starts and ends with empty hands: `Spec => [](Inv /\ Filed(main, {}))`.  No
ordinary request is ever held by a job (`NoJobHolds`): a job has a request only
if that is a debug capture, which is why a capture alone can be lost.  The count
follows because the sets it adds up are empty or have one element.

Channel.  An edit passes from the client through the reader, the channel, the
event set aside and the collected run before it reaches `documents`, so neither
part of `EditsKeepTheirPlace` is inductive.  `Flows` says that all of it, applied
in this order (`Takes` for one event, `Through` for a sequence, by the documents
between its events), leads from the server's documents to the client's, each
change and request being about the document it finds.  A step takes from the
front, appends at the back (a background event changes nothing), or replaces two
changes in a row by the newer one, which leads to the same documents
(`TakesNewer`).  When the loop handles a request, the documents before it are the
server's.  Nothing is claimed of events that the end of the loop leaves behind.

Overlay.  Five invariants, each inductive with those before it.  `Types`;
`Threads`: what a thread may rely on between two critical sections (only the
worker counts up the workspace generation, so what it read is still there unless
the startup publication came between); `ReportsKept`, `CapturesKept` and
`StatusKept`: the properties, with what threads carry that has not been merged
yet.

Caches.  `CacheHolds` speaks of each variable apart from the others: an index of
a packed add-on has the content of the revision it is filed under, in a directory
(`DirectoryFits`) and in the task of a load (`TaskFits`), and a locator has the
stamp of the revision it is filed under.  So no order of the writes matters to
`RevisionsAreTrue`: what `Build` reads of a pack is compared with the revision
that was inspected, and what is read back names its own.
`DirectoriesAreRepaired` needs the order.  `CacheMends` adds that a process that
is alone with its load is the only busy one, and that each directory of its load
is as far as the task that works on it (`Mended`): reuse has seen that the
metadata are of its revision, and the three files are written one after the
other.  What another process, or an interruption, left there before does not
occur in it.

Process control.  The inductive invariant is `Shapes /\ StartsIdentify` with
`TargetKnown` of every call.  A process is closed when its id *and* start time
match, so the heart is `StartsIdentify`: among all processes that run, were
observed or were chosen, a start time names one, and none is later than the
clock.  `CallShape` says what a call in each phase holds, and `TargetKnown` that
a call that waits for an exit waits for a process that was asked to close, killed,
or is gone (`Going`), so that a list which failed can hide it but never make up that it
was asked to go.  A stop looks for its process by the id alone, which is
why `ReportedExitsAreReal` needs that no two running processes share an id.

Edits.  A confirmation or a descriptor goes from its table to the one call that
takes it, and from there to the one edit of that call.  `Entries` says that what
was handed out is numbered, each number once; `Fits` what a call holds: one that
took its confirmation (`Spent`), or is sent with its descriptor (`Used`), is the
only holder, since the token is in no table, no edit and no other call, and a
call that is sent expects the value its descriptor was issued for (`Aims`).
`Traced` says the same of an edit once it is done.  `Points` is what a preview may
rely on: while the count of removals is the same, the component it showed is at
its index.  That needs no assumption on the constants, and in particular no
bound on callers: a call that repeats or swaps its tokens ends in
`TakeConfirmation` or `TakeDescriptor`.

Bridge.  `CallsRepair` and `CallsAgree` speak of calls that have ended; the
invariant follows them from their first step.  A call that nobody disturbs is the
only one (`SoleInstaller`), and `Keeps` says what it can rely on at each step: up
to `previous`, that the manifest is still at least the version it met and lists
the files it met; while it writes, that what is not left to do is as it should
be.  Nothing is said of what was there before, which is why any damage is
repaired.  Calls of one version disturb each other all the time, but write the
same.  Once any of them writes or has ended, every file of the version is as it
should be, or is still on the list of a call that writes (`AllCovered`), and so is
the manifest (`ManifestCovered`); a file that one call empties is on its own list.
Calls that migrate take files from one flat package: as long as its manifest is
there, a missing file is one that some of them moved, and of two calls that
migrate each file is still to be moved by one at least, so only one gets to the
manifest (`Migrating`).  `OneVersion` includes that no call was interrupted: a
call that dies between emptying and filling leaves a torn file that another one
may already have passed, which the next undisturbed call repairs.

Compiler.  Types and `PollingNeverStops` are inductive together.
`FreshMeansCurrent` is not: a result is judged when its run ends, from what the
run recorded when it began.  `CleanRunIsCurrent` says that a run that nobody
edited since, and that began without unsaved text, still describes every script;
`SavingIsStale` that no fresh result is shown while a save is under way.

Language client.  `OneCurrentClient` needs what the start generations mean: no two
starts share one, the client in use has the newest, every start is stale while a
client is being stopped (`Issued`, `Owned`), and a restart that is still to come
answers for the mode (`Superseded`).  `Counted` bounds the generations by those
owed to the restarts asked for.

Integration.  `DisabledStaysOff` is about steps: the only one that turns the
setting on without the user is a startup that has installed the bridge, and it
looks at `disableRequested` and at what it read of the approval several awaits
before.  The invariant says that both are still true then: what a startup knows of
the approval is the stored approval for as long as it asks, installs or writes
(`ApprovalIsKnown`, since nothing else stores one), and a setting that is off, and
whose change the coordinator has seen, is remembered as a request to disable
unless the user has approved the integration (`OffIsRemembered`).

Model-checked only:

- liveness and anything with ENABLED, which the prover does not reach;
- `SymbolIndex` and `Parser`, which are recursive and therefore outside of the
  prover's reach.

## 7. Not modelled, and what is left

Left out of the modelled components: self-save preservation of a projection
(only tests call it), the synchronous path of a server without an executor,
progress events, the overlay modes `all` and `none` beyond the loads of
`AddonCache`, the panic path of the startup thread, and a restarted client's
fresh report counters.  Of the add-on store: the PAC1 format, discovery,
batches of documents and the publication of inventories.  Of the index: the
resolver, scopes and expression types, which need the tree.  Of the parser's
neighbours: the lexer, and the AST, semantic file and formatting, which are
projections of the tree.  Of the controller: registration of the protocol and of
the NET API, validation and resource queries; of the editing tools: creation,
transforms, shapes, splines and history, whose effects are defined inside
Workbench.  Of the coordinator and client: disposal and bracket colouring.

Not modelled at all: the language features and MCP searches, which are functions
of one captured snapshot with no protocol of their own; workspace requests and
file identity, which parse and normalise; the editor bridges and the search and
diagnostics UI, whose hard parts are semantics of VS Code's API; the bridge
scripts beyond `WorkbenchEdits`, which run on an engine the repository does not
define; build tools and wiki data.  These are most of the repository's lines.

Hazards seen and not covered by a property: startup's merge retries while edits
keep coming, without a bound (`lsp/external_overlay.rs:1248`); an empty startup
layer is published over the cached one when the live source fails (`:1188`);
`didOpen` of an open document drops its deferred requests
(`lsp/document_runtime.rs:382`); a concurrent prune may remove a directory being
filled (`server/src/addon_sources.rs:1974-2012`); renames are not followed by a
sync to disk.

In the order in which they would add most:

1. A generation source as an abstraction that `ExternalOverlay` implements and
   `DocumentRuntime` uses for `PublishGeneration` and `AnnounceGeneration`.
2. The watch bridge with restarted sequence counters, composed with the overlay.
3. The resolver over the trees of `Parser`, against a reference definition of
   scoping.
