------------------------ MODULE MCWorkbenchCompiler -------------------------
(***************************************************************************)
(* The compiler controller under two loads, one per behaviour: a user who  *)
(* edits and changes the configuration while Workbench stays as it is, and *)
(* a Workbench that comes and goes while nobody edits.  A load limits the  *)
(* user and Workbench, never the controller.                               *)
(***************************************************************************)
EXTENDS WorkbenchCompiler

VARIABLE focus

LoadInit == Init /\ focus \in {"user", "workbench"}

LoadNext ==
    /\ Next /\ UNCHANGED focus
    /\ focus = "user" => outages' = 0
    /\ focus = "workbench" => edits' = 0

LoadSpec == LoadInit /\ [][LoadNext]_<<vars, focus>> /\ Fairness
=============================================================================
