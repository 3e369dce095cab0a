--------------------------- MODULE LanguageClient ---------------------------
(***************************************************************************)
(* Starting, restarting and feeding the language server from the extension *)
(* host: src/languageClient/languageClient.ts with restartCoordinator.ts   *)
(* and the confirmation of src/gameData/localSourceInventory.ts.  The host *)
(* runs one callback at a time, so an action is the code between two       *)
(* awaits.  A start is known by its languageClientStartGeneration, and so  *)
(* is the client it creates.  The server is seen from its client: how it   *)
(* settles a delivered graph is that of external_overlay.rs.               *)
(***************************************************************************)
EXTENDS Naturals, Sequences, FiniteSets

CONSTANTS
    Graphs,          \* loaded add-on graphs, told apart by their scope
    None,
    MaxRestarts,     \* bound on restarts asked for
    MaxRefreshes,    \* bound on refreshes of the Workbench graph
    MaxCrashes       \* bound on crashes of a server

ASSUME ClientAssumption ==
    MaxRestarts \in Nat /\ MaxRefreshes \in Nat /\ MaxCrashes \in Nat

VARIABLES
    mode,            \* the externalIndexMode setting
    generation,      \* languageClientStartGeneration
    start,           \* the initial start and the start of a restart
    coordinator,     \* RestartCoordinator and the operation it runs
    client,          \* the client in use, or None
    servers,         \* every client created, with its server and its monitor
    refreshable,     \* the client refreshWorkbenchGraph belongs to, or None
    fetches,         \* graph requests, each with its delivery
    ready,           \* workbenchReady: "pending", "yes" or "no"
    inventory,       \* the graph in the published inventory file, or None
    confirmed,       \* the client that confirmed the inventory, or None
    refused,         \* history: clients that could not be stopped
    restarts, refreshes, crashes    \* the bounded events so far

session == <<mode, generation, start, coordinator, client>>
graph == <<refreshable, fetches, ready, inventory, confirmed>>
counters == <<restarts, refreshes, crashes>>
vars == <<session, servers, graph, refused, counters>>

Modes == {"loaded", "none"}       \* "all" asks for no graph either
Starters == {"initial", "restart"}
Operations == {"now", "wait"}     \* waitForInitialStartup
Generations == 1..(1 + 2 * MaxRestarts)
Steps == {"none", "path", "workspace", "launching", "indexing", "done", "rejected"}
Messages == {"complete", "workbench-reconciliation"}
Servers ==
    [life : {"starting", "running", "stopped"}, mode : Modes, complete : BOOLEAN,
     warm : Graphs \cup {None}, loading : BOOLEAN, inbox : Seq(Messages)]

ASSUME NoneIsNothing == None \notin Nat \cup Operations /\ None \notin Servers

Settled(s) == start[s].step \in {"done", "rejected"}
Stale(s) == start[s].generation # generation
Started(g, progress) == [step |-> "path", generation |-> g, mode |-> mode,
                         progress |-> progress]

\* monitorExternalIndexProgress of a client that is stopped or disposed of:
\* every waiter resolves.
Released(fs, g) ==
    [i \in DOMAIN fs |->
        IF fs[i].client = g /\ fs[i].step = "waiting"
        THEN [fs[i] EXCEPT !.step = "resolved"] ELSE fs[i]]

----------------------------------------------------------------------------
(* startLanguageClient.                                                    *)

End(s, step) == start' = [start EXCEPT ![s].step = step,
                             ![s].progress = @ /\ step \notin {"done", "rejected"}]

\* resolveLanguageServerPath settles; a newer start ends this one.
PathResolves(s, found) ==
    /\ start[s].step = "path"
    /\ IF ~found \/ Stale(s)
       THEN End(s, "done") /\ UNCHANGED <<fetches, confirmed>>
       ELSE /\ start' = [start EXCEPT ![s].step = "workspace", ![s].mode = mode]
            /\ confirmed' = None
            /\ fetches' = IF mode = "loaded"
                          THEN Append(fetches, [client |-> start[s].generation, startup |-> TRUE,
                                                step |-> "gate", observed |-> FALSE])
                          ELSE fetches
    /\ UNCHANGED <<mode, generation, coordinator, client, servers, refreshable, ready,
                   inventory, refused, counters>>

\* complete and inbox are what the monitor has seen and has yet to see; warm
\* is the scope published by the server.
NewServer(life, m) == [life |-> life, mode |-> m, complete |-> life = "stopped",
                       warm |-> None, loading |-> FALSE, inbox |-> <<>>]

\* Mutant: the workspace's answer is used by whichever start it reaches.
WorkspaceFoundAnyway(s) ==
    LET g == start[s].generation IN
    /\ start[s].step = "workspace"
    /\ End(s, "launching")
    /\ client' = g
    /\ servers' = [servers EXCEPT ![g] = NewServer("starting", start[s].mode)]
    /\ UNCHANGED <<mode, generation, coordinator, graph, refused, counters>>

\* The workspace is discovered and the client created.
WorkspaceFound(s) ==
    LET g == start[s].generation IN
    /\ start[s].step = "workspace"
    /\ IF Stale(s)
       THEN End(s, "done") /\ UNCHANGED <<client, servers>>
       ELSE /\ End(s, "launching")
            /\ client' = g
            /\ servers' = [servers EXCEPT ![g] = NewServer("starting", start[s].mode)]
    /\ UNCHANGED <<mode, generation, coordinator, graph, refused, counters>>

\* The binary's path, the log directory or the workspace cannot be read.
StartRejects(s) ==
    /\ start[s].step \in {"path", "workspace"}
    /\ End(s, "rejected")
    /\ UNCHANGED <<mode, generation, coordinator, client, servers, graph, refused, counters>>

\* The server answers initialize; it may hold any scope it found cached.
ClientStarts(s) ==
    LET g == start[s].generation IN
    /\ start[s].step = "launching"
    /\ \E scope \in Graphs \cup {None} :
          servers' = [servers EXCEPT ![g].life = "running", ![g].warm = scope]
    /\ IF Stale(s) \/ client # g
       THEN End(s, "done") /\ UNCHANGED refreshable
       ELSE /\ refreshable' = g
            /\ End(s, IF start[s].progress /\ ~servers[g].complete THEN "indexing" ELSE "done")
    /\ UNCHANGED <<mode, generation, coordinator, client, fetches, ready, inventory,
                   confirmed, refused, counters>>

ClientStartFails(s) ==
    LET g == start[s].generation IN
    /\ start[s].step = "launching"
    /\ servers' = [servers EXCEPT ![g] = NewServer("stopped", @.mode)]
    /\ fetches' = Released(fetches, g)
    /\ End(s, "done")
    /\ UNCHANGED <<mode, generation, coordinator, client, refreshable, ready, inventory,
                   confirmed, refused, counters>>

IndexCompletes(s) ==
    /\ start[s].step = "indexing"
    /\ servers[start[s].generation].complete
    /\ End(s, "done")
    /\ UNCHANGED <<mode, generation, coordinator, client, servers, graph, refused, counters>>

----------------------------------------------------------------------------
(* RestartCoordinator and the operation of restartLanguageClient.          *)

\* Up to the await of stop: the start under way is invalidated, the client
\* disposed of.
StopHead ==
    /\ generation' = generation + 1
    /\ refreshable' = None
    /\ client' = None
    /\ servers' = [g \in Generations |->
                     IF servers[g] # None /\ g = client
                     THEN [servers[g] EXCEPT !.complete = TRUE] ELSE servers[g]]
    /\ fetches' = Released(fetches, client)

\* A round of drain begins; rejected is a history of how the last one ended.
Coordinator(step, victim) ==
    [step |-> step, victim |-> victim, pending |-> None, rejected |-> FALSE]

Begin(operation) ==
    IF operation = "wait" /\ ~Settled("initial")
    THEN /\ coordinator' = Coordinator("waiting", None)
         /\ UNCHANGED <<generation, refreshable, client, servers, fetches>>
    ELSE /\ coordinator' = Coordinator("stopping", client)
         /\ StopHead

\* RestartCoordinator.run
Run(operation) ==
    IF coordinator.step # "idle"
    THEN /\ coordinator' = [coordinator EXCEPT !.pending = operation]
         /\ UNCHANGED <<generation, refreshable, client, servers, fetches>>
    ELSE Begin(operation)

\* The operation rejects: drain ends, whatever is pending.
Reject ==
    /\ coordinator' = [coordinator EXCEPT !.step = "idle", !.victim = None,
                                            !.rejected = TRUE]
    /\ UNCHANGED <<generation, refreshable, client, servers, fetches>>

InitialStartupSettles ==
    /\ coordinator.step = "waiting"
    /\ Settled("initial")
    /\ IF start["initial"].step = "rejected"
       THEN Reject
       ELSE /\ coordinator' = [coordinator EXCEPT !.step = "stopping", !.victim = client]
            /\ StopHead
    /\ UNCHANGED <<mode, start, ready, inventory, confirmed, refused, counters>>

\* stop resolves, or rejects because its client is still starting; then the
\* next start begins, with the progress of a refresh if one is shown.
StopSettles(progress) ==
    LET g == coordinator.victim IN
    /\ coordinator.step = "stopping"
    /\ IF g = None
       THEN UNCHANGED <<servers, refused>>
       ELSE IF servers[g].life = "starting"
       THEN refused' = refused \cup {g} /\ UNCHANGED servers
       ELSE /\ servers' = [servers EXCEPT ![g] = NewServer("stopped", @.mode)]
            /\ UNCHANGED refused
    /\ generation' = generation + 1
    /\ start' = [start EXCEPT !["restart"] = Started(generation + 1, progress)]
    /\ coordinator' = [coordinator EXCEPT !.step = "starting", !.victim = None]
    /\ UNCHANGED <<mode, client, graph, counters>>

\* drain goes on with the operation that arrived meanwhile.
RestartSettles ==
    /\ coordinator.step = "starting"
    /\ Settled("restart")
    /\ IF start["restart"].step = "rejected" THEN Reject
       ELSE IF coordinator.pending # None THEN Begin(coordinator.pending)
       ELSE /\ coordinator' = [coordinator EXCEPT !.step = "idle"]
            /\ UNCHANGED <<generation, refreshable, client, servers, fetches>>
    /\ UNCHANGED <<mode, start, ready, inventory, confirmed, refused, counters>>

\* The externalIndexMode setting changes.
ChangeMode(m) ==
    /\ m # mode
    /\ restarts < MaxRestarts
    /\ restarts' = restarts + 1
    /\ mode' = m
    /\ Run("now")
    /\ UNCHANGED <<start, ready, inventory, confirmed, refused, refreshes, crashes>>

\* Bracket colouring, a new development binary, or a game-data refresh
\* without a client to refresh.
RequestRestart ==
    /\ restarts < MaxRestarts
    /\ restarts' = restarts + 1
    /\ Run("wait")
    /\ UNCHANGED <<mode, start, ready, inventory, confirmed, refused, refreshes, crashes>>

----------------------------------------------------------------------------
(* The Workbench graph.                                                    *)

\* refreshWorkbenchGraph
RefreshGraph ==
    /\ refreshable # None
    /\ servers[refreshable].mode = "loaded"
    /\ refreshes < MaxRefreshes
    /\ refreshes' = refreshes + 1
    /\ fetches' = Append(fetches, [client |-> refreshable, startup |-> FALSE,
                                   step |-> "asking", observed |-> FALSE])
    /\ UNCHANGED <<session, servers, refreshable, ready, inventory, confirmed, refused,
                   restarts, crashes>>

WorkbenchReadySettles(answer) ==
    /\ ready = "pending"
    /\ ready' = answer
    /\ UNCHANGED <<session, servers, refreshable, fetches, inventory, confirmed, refused,
                   counters>>

StepFetch(i, step) == fetches' = [fetches EXCEPT ![i].step = step]

\* resolveCurrentWorkbenchAddonInventory: a start waits for workbenchReady.
GateOpens(i) ==
    /\ fetches[i].step = "gate" /\ ready # "pending"
    /\ StepFetch(i, IF ready = "yes" THEN "asking" ELSE "ended")
    /\ UNCHANGED <<session, servers, refreshable, ready, inventory, confirmed, refused,
                   counters>>

\* resolveWorkbenchLoadedAddonInventory: Workbench answers and the inventory
\* is published, or there is no graph.
GraphArrives(i) ==
    /\ fetches[i].step = "asking"
    /\ \E g \in Graphs : inventory' = g
    /\ StepFetch(i, "written")
    /\ UNCHANGED <<session, servers, refreshable, ready, confirmed, refused, counters>>

GraphUnavailable(i) ==
    /\ fetches[i].step = "asking"
    /\ StepFetch(i, "ended")
    /\ UNCHANGED <<session, servers, refreshable, ready, inventory, confirmed, refused,
                   counters>>

\* The graph is sent to the client that asked for it, if that is still in
\* use; a start sends it once its client runs.
DeliverGraph(i) ==
    LET g == fetches[i].client IN
    /\ fetches[i].step = "written"
    /\ fetches[i].startup =>
         \A s \in Starters : start[s].generation = g =>
            start[s].step \notin {"workspace", "launching"}
    /\ IF client = g /\ servers[g] # None /\ servers[g].life # "stopped"
       THEN /\ StepFetch(i, "waiting")
            /\ servers' = [servers EXCEPT ![g].loading = TRUE]
       ELSE StepFetch(i, "ended") /\ UNCHANGED servers
    /\ UNCHANGED <<session, refreshable, ready, inventory, confirmed, refused, counters>>

\* The await of the reconciliation ends; confirmLoadedAddonSourceInventory.
Confirm(i) ==
    /\ fetches[i].step = "resolved"
    /\ StepFetch(i, "ended")
    /\ confirmed' = IF client = fetches[i].client THEN client ELSE confirmed
    /\ UNCHANGED <<session, servers, refreshable, ready, inventory, refused, counters>>

----------------------------------------------------------------------------
(* The server and its messages.                                            *)

\* The startup index is complete.
ServerIndexes(g) ==
    /\ servers[g] # None /\ servers[g].life = "running"
    /\ ~servers[g].complete /\ servers[g].inbox = <<>> /\ ~servers[g].loading
    /\ servers' = [servers EXCEPT ![g].inbox = <<"complete">>]
    /\ UNCHANGED <<session, graph, refused, counters>>

\* The newest delivered graph has the scope already published: it is taken
\* over without a rebuild.
ServerReusesScope(g) ==
    /\ servers[g] # None /\ servers[g].life = "running"
    /\ servers[g].loading /\ servers[g].warm = inventory
    /\ \E current \in BOOLEAN :     \* sources changed: it rebuilds after all
          servers' = [servers EXCEPT
             ![g].loading = ~current,
             ![g].warm = IF current THEN @ ELSE None,
             ![g].inbox = Append(@, "complete")]
    /\ UNCHANGED <<session, graph, refused, counters>>

ServerRebuilds(g) ==
    /\ servers[g] # None /\ servers[g].life = "running"
    /\ servers[g].loading /\ servers[g].warm # inventory
    /\ servers' = [servers EXCEPT
          ![g].warm = inventory, ![g].loading = FALSE,
          ![g].inbox = @ \o <<"workbench-reconciliation", "complete">>]
    /\ UNCHANGED <<session, graph, refused, counters>>

ServerFailsGraph(g) ==
    /\ servers[g] # None /\ servers[g].life = "running"
    /\ servers[g].loading /\ servers[g].warm # inventory
    /\ servers' = [servers EXCEPT ![g].loading = FALSE,
                                  ![g].inbox = Append(@, "complete")]
    /\ UNCHANGED <<session, graph, refused, counters>>

\* The notification handler of monitorExternalIndexProgress: the end of the
\* first index resolves every wait, a later end those that saw the graph load.
ReceiveProgress(g) ==
    /\ servers[g] # None /\ servers[g].inbox # <<>>
    /\ LET message == Head(servers[g].inbox)
           mine(f) == f.client = g /\ f.step = "waiting"
       IN fetches' = [i \in DOMAIN fetches |->
             LET f == fetches[i] IN
             CASE mine(f) /\ message = "workbench-reconciliation" ->
                    [f EXCEPT !.observed = TRUE]
               [] mine(f) /\ message = "complete" /\ (f.observed \/ ~servers[g].complete) ->
                    [f EXCEPT !.step = "resolved"]
               [] OTHER -> f]
    /\ servers' = [servers EXCEPT ![g].inbox = Tail(@),
                      ![g].complete = @ \/ Head(servers[g].inbox) = "complete"]
    /\ UNCHANGED <<session, refreshable, ready, inventory, confirmed, refused, counters>>

\* The server process dies; the client library starts another, and the
\* monitor takes the stopped state for the end of every wait.
ServerCrashes(g) ==
    /\ servers[g] # None /\ servers[g].life = "running"
    /\ crashes < MaxCrashes
    /\ crashes' = crashes + 1
    /\ servers' = [servers EXCEPT ![g].complete = TRUE, ![g].warm = None,
                      ![g].loading = FALSE, ![g].inbox = <<>>]
    /\ fetches' = Released(fetches, g)
    /\ UNCHANGED <<session, refreshable, ready, inventory, confirmed, refused, restarts,
                   refreshes>>

----------------------------------------------------------------------------
\* registerLanguageClientFeatures has begun the first start.
Init ==
    /\ mode \in Modes
    /\ generation = 1
    /\ start = [s \in Starters |->
                  IF s = "initial" THEN Started(1, TRUE)
                  ELSE [step |-> "none", generation |-> 0, mode |-> mode, progress |-> FALSE]]
    /\ coordinator = Coordinator("idle", None)
    /\ client = None
    /\ servers = [g \in Generations |-> None]
    /\ refreshable = None
    /\ fetches = <<>>
    /\ ready = "pending"
    /\ inventory = None
    /\ confirmed = None
    /\ refused = {}
    /\ restarts = 0 /\ refreshes = 0 /\ crashes = 0

Starting(s) ==
    \/ \E found \in BOOLEAN : PathResolves(s, found)
    \/ WorkspaceFound(s) \/ StartRejects(s)
    \/ ClientStarts(s) \/ ClientStartFails(s) \/ IndexCompletes(s)

Restarting ==
    \/ InitialStartupSettles
    \/ \E progress \in BOOLEAN : StopSettles(progress)
    \/ RestartSettles

Fetching(i) ==
    \/ GateOpens(i) \/ GraphArrives(i) \/ GraphUnavailable(i) \/ DeliverGraph(i) \/ Confirm(i)

Serving(g) ==
    \/ ServerIndexes(g) \/ ServerReusesScope(g) \/ ServerRebuilds(g) \/ ServerFailsGraph(g)

Next ==
    \/ \E s \in Starters : Starting(s)
    \/ Restarting
    \/ \E m \in Modes : ChangeMode(m)
    \/ RequestRestart \/ RefreshGraph
    \/ \E answer \in {"yes", "no"} : WorkbenchReadySettles(answer)
    \/ \E i \in DOMAIN fetches : Fetching(i)
    \/ \E g \in Generations : Serving(g) \/ ReceiveProgress(g) \/ ServerCrashes(g)

Spec == Init /\ [][Next]_vars

\* Calls of the editor and of the gateway are answered or time out, and a
\* running server finishes its index and its graphs.
Fairness ==
    /\ \A s \in Starters : WF_vars(Starting(s))
    /\ WF_vars(Restarting)
    /\ \A i \in 1..(MaxRefreshes + MaxRestarts + 1) :
          WF_vars(i \in DOMAIN fetches /\ Fetching(i))
    /\ \A g \in Generations : WF_vars(Serving(g)) /\ WF_vars(ReceiveProgress(g))

FairSpec == Spec /\ Fairness

----------------------------------------------------------------------------
Starts == [step : Steps, generation : Generations \cup {0}, mode : Modes,
           progress : BOOLEAN]
Fetches ==
    [client : Generations, startup : BOOLEAN,
     step : {"gate", "asking", "written", "waiting", "resolved", "ended"},
     observed : BOOLEAN]

\* The type of every variable but the generation, whose bound takes counting.
Types ==
    /\ mode \in Modes
    /\ start \in [Starters -> Starts]
    /\ coordinator \in [step : {"idle", "waiting", "stopping", "starting"},
                        victim : Generations \cup {None},
                        pending : Operations \cup {None}, rejected : BOOLEAN]
    /\ {client, refreshable, confirmed} \subseteq Generations \cup {None}
    /\ servers \in [Generations -> Servers \cup {None}]
    /\ fetches \in Seq(Fetches)
    /\ ready \in {"pending", "yes", "no"}
    /\ inventory \in Graphs \cup {None}
    /\ refused \subseteq Generations

TypeOK == Types /\ generation \in Generations

Quiet == coordinator.step = "idle" /\ \A s \in Starters : start[s].step = "none" \/ Settled(s)

(***************************************************************************)
(* When no start and no restart is under way, the client in use was        *)
(* started with the mode the setting has now, although settings change     *)
(* while starts are under way and overlapping restarts are coalesced       *)
(* (restartCoordinator.ts).  The exception is a restart that waited for    *)
(* the initial startup and was rejected with it: whatever it had replaced, *)
(* and whatever waits behind it, is dropped, and the client stays.         *)
(***************************************************************************)
SettledClientIsCurrent ==
    Quiet /\ client # None /\ ~coordinator.rejected => servers[client].mode = mode

(***************************************************************************)
(* No client is forgotten: each that still runs is the one in use, or is   *)
(* being stopped, or could not be stopped because it had not started yet.  *)
(* Two starts never both leave a client behind.                            *)
(***************************************************************************)
NoClientIsForgotten ==
    \A g \in Generations :
        servers[g] # None /\ servers[g].life # "stopped" =>
            g = client \/ g = coordinator.victim \/ g \in refused

(***************************************************************************)
(* A confirmed Workbench scope was confirmed by the client in use, never   *)
(* by one that a restart replaced while its graph was on the way           *)
(* (clearConfirmedLoadedAddonSourceInventory and the checks of client).    *)
(***************************************************************************)
ConfirmedByThisClient ==
    confirmed # None /\ client # None => confirmed = client

\* The three together: whatever overlaps, one client is left, with the mode of
\* the setting and with its own confirmation only.
OneCurrentClient ==
    SettledClientIsCurrent /\ NoClientIsForgotten /\ ConfirmedByThisClient

(***************************************************************************)
(* Every restart ends, also one that waits for the initial startup or for  *)
(* an index whose server is stopped or dies meanwhile.                     *)
(***************************************************************************)
RestartsEnd == coordinator.step # "idle" ~> coordinator.step = "idle"

=============================================================================
