----------------------------- MODULE MCOverlay -----------------------------
(***************************************************************************)
(* The external overlay under four loads, one per behaviour: one report of *)
(* each of two files with room for one exclusion; two reports of one file  *)
(* while startup publishes a cached index; two graph deliveries while      *)
(* startup has no source or loads dependencies; one graph delivery after   *)
(* startup has published the graph of an inventory.  A load limits what    *)
(* the editor sends and what startup finds, never a thread of the server.  *)
(***************************************************************************)
EXTENDS ExternalOverlay

VARIABLE focus

\* Which path the loads of one file use, and which of the graphs startup knows,
\* makes no difference.
OnlyPath == CHOOSE p \in Paths : TRUE
KnownGraph == CHOOSE graph \in Graphs : TRUE

Reported(limit, files) ==
    /\ \A p \in Paths : newest[p].sequence <= IF p \in files THEN limit ELSE 0
    /\ DOMAIN startup.baseline \subseteq files

Delivered(limit) == gameData.graphGeneration <= limit

InLoad ==
    /\ startup.graph = KnownGraph
    /\ \/ /\ focus = "files" /\ startup.source = "none"
          /\ Reported(1, Paths) /\ Delivered(0)
       \/ /\ focus = "reports" /\ startup.source = "inventory"
          /\ Reported(2, {OnlyPath}) /\ Delivered(0)
       \/ /\ focus = "graphs" /\ startup.source \in {"none", "dependencies"}
          /\ Reported(0, {OnlyPath}) /\ Delivered(2)
       \/ /\ focus = "warm" /\ startup.source = "inventory"
          /\ Reported(0, {OnlyPath}) /\ Delivered(1)

LoadInit == focus \in {"files", "reports", "graphs", "warm"} /\ Init /\ InLoad

LoadNext == UNCHANGED focus /\ Next /\ InLoad'

\* The fairness of FairSpec, for the load with reports.
LoadFairness ==
    /\ WF_vars(focus = "reports" /\ WorkerStep)
    /\ WF_vars(focus = "reports" /\ StartupStep)
    /\ WF_vars(focus = "reports" /\ CaptureSnapshot)
    /\ SF_vars(focus = "reports" /\ ObserveGeneration)

LoadSpec == LoadInit /\ [][LoadNext]_<<focus, vars>> /\ LoadFairness

-----------------------------------------------------------------------------
\* The newest report about a file is eventually shown, and the main loop
\* catches up with every generation.
ReportsAreSeen ==
    /\ []<>(focus = "reports" /\ newest[OnlyPath].sequence > 0 =>
            Holds(workspace.files, OnlyPath, newest[OnlyPath].content))
    /\ []<>(focus = "reports" => main.observed = generation)
=============================================================================
