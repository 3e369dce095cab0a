-------------------------- MODULE MCExtensionStart --------------------------
(***************************************************************************)
(* The two coordinators of the extension's activation, one per behaviour:  *)
(* the Workbench integration, and the language client under three loads:   *)
(* three restarts without Workbench, a restart with a refresh of the graph,*)
(* a restart with a crash.  A load limits the user, Workbench and crashes, *)
(* never a step of the extension.  The coordinator at rest stays in one of *)
(* its initial states.                                                     *)
(***************************************************************************)
EXTENDS LanguageClient, WorkbenchIntegration

VARIABLE part

StartInit ==
    /\ Init /\ IntegrationInit
    /\ \/ part = "integration" /\ mode = CHOOSE m \in Modes : TRUE
       \/ /\ part \in {"restarts", "refreshes", "crashes"}
          /\ setting = "off" /\ ~approved /\ ~workbench /\ ~profile

StartNext ==
    /\ UNCHANGED part
    /\ \/ part = "integration" /\ IntegrationNext /\ UNCHANGED vars
       \/ /\ part # "integration" /\ Next /\ UNCHANGED integrationVars
          /\ part = "restarts" => ready' # "yes"
          /\ restarts' <= IF part = "restarts" THEN 3 ELSE 1
          /\ refreshes' <= IF part = "refreshes" THEN 1 ELSE 0
          /\ crashes' <= IF part = "crashes" THEN 1 ELSE 0

Client(A) == part # "integration" /\ A
Bridge(A) == part = "integration" /\ A

\* The fairness of both modules, each for the behaviours in which it moves.
StartFairness ==
    /\ \A s \in Starters : WF_vars(Client(Starting(s)))
    /\ WF_vars(Client(Restarting))
    /\ \A i \in 1 .. (MaxRefreshes + MaxRestarts + 1) :
          WF_vars(Client(i \in DOMAIN fetches /\ Fetching(i)))
    /\ \A g \in Generations :
          WF_vars(Client(Serving(g))) /\ WF_vars(Client(ReceiveProgress(g)))
    /\ WF_integrationVars(Bridge(Events))
    /\ WF_integrationVars(Bridge(Bootstrap))
    /\ WF_integrationVars(Bridge(Retrying))
    /\ WF_integrationVars(Bridge(WorkbenchConnects))

StartSpec == StartInit /\ [][StartNext]_<<part, vars, integrationVars>> /\ StartFairness

-----------------------------------------------------------------------------
(* The other properties are those of the two modules, which explain them.  *)

\* The type of every variable of both modules.
BothTypeOK == TypeOK /\ IntegrationTypeOK

\* Neither activation, nor the language client, nor a restart waits for ever.
PromisesSettle == StartupSettles /\ RestartsEnd
=============================================================================
