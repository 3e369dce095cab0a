------------------------- MODULE MCDocumentRuntime --------------------------
(***************************************************************************)
(* The document runtime under three loads, one per behaviour.  "requests": *)
(* one document edited once while two requests wait for it and the         *)
(* external index changes once; a channel of two events blocks its         *)
(* producers.  "single": the same on a computer with one CPU, for one      *)
(* request.  "overload": two documents compete for one task slot on the    *)
(* worker of one CPU, a snapshot of nine units can never be admitted, and  *)
(* one request may be a debug capture.                                     *)
(***************************************************************************)
EXTENDS DocumentRuntime

CONSTANTS SecondUri, SecondRequest

VARIABLE focus

Overload == INSTANCE DocumentRuntime WITH
    Kinds <- {"tokens", "completion", "debug"}, Sizes <- {1, 9},
    Lanes <- {"foregroundWithIdleBackground"}, DeferralLimit <- 1,
    EventCapacity <- 4, MaxRetainedJobs <- 1, MaxGeneration <- 0

IdleLane == "foregroundWithIdleBackground"

Single == INSTANCE DocumentRuntime WITH Lanes <- {IdleLane}

OneDocument ==
    /\ ~ IsOpen(main', SecondUri)
    /\ \A r \in Requests : UriOf(main', r) # SecondUri

LoadInit == Init /\ focus \in {"requests", "single", "overload"}

LoadNext ==
    /\ UNCHANGED focus
    /\ \/ focus = "requests" /\ Next /\ OneDocument
       \/ /\ focus = "single" /\ Single!Next /\ OneDocument
          /\ main'.requests[SecondRequest].state = "unsent"
       \/ /\ focus = "overload" /\ Overload!Next
          /\ main'.requests[SecondRequest].state = "unsent"

\* The fairness of FairSpec, for the loads whose work fits the limits.
Fits == focus # "overload"

LoadSpec ==
    /\ LoadInit /\ [][LoadNext]_<<focus, vars>>
    /\ []<>(Fits => LoopIsFree)
    /\ WF_events(Fits /\ TakesEvent)
    /\ \A lane \in Lanes :
        /\ WF_vars(focus = "requests" /\ TakeJob(lane))
        /\ WF_vars(focus = "requests" /\ FinishJob(lane))
    /\ WF_vars(focus = "single" /\ TakeJob(IdleLane))
    /\ WF_vars(focus = "single" /\ FinishJob(IdleLane))
    /\ WF_vars(Fits /\ AnnounceGeneration)

-----------------------------------------------------------------------------
(* The liveness properties of DocumentRuntime, for those loads.            *)

\* Every request is answered, once the work it waits for is done or dropped,
\* by both lanes or by the one worker that does background work when idle.
RequestsAreAnswered ==
    \A r \in Requests :
        Fits /\ r \in WaitingRequests ~> Fits /\ r \notin WaitingRequests

\* An open document is analysed, or rejected, or replaced, again and again;
\* then its diagnostics are those of its own revision: also with one CPU, where
\* background work waits until no foreground work is left.
LoadConverges == \A u \in Uris : []<>(Fits => Converged(u))
=============================================================================
