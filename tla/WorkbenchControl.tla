-------------------------- MODULE WorkbenchControl --------------------------
(***************************************************************************)
(* Launching, stopping and restarting Workbench processes                  *)
(* (server/src/workbench.rs, WorkbenchController).                         *)
(*                                                                         *)
(* Tool calls run on worker threads, up to eight at once, and share one    *)
(* controller.  A process is named by its id and its start time, since the *)
(* system reuses ids.  Saving goes over the NET API, which one Workbench   *)
(* serves on one port: it is not addressed to a process.                   *)
(*                                                                         *)
(* Workbench, its user and the operating system are external: processes    *)
(* start, edit, bind the port when it is free and exit on their own.  Time *)
(* is abstracted: a wait of the code may end by its deadline at any moment *)
(* at which what it waits for is not there.                                *)
(***************************************************************************)
EXTENDS Naturals, FiniteSets

CONSTANTS
    Ids,        \* process ids
    Projects,   \* project files
    Calls,      \* tool calls that may run at the same time
    None,
    MaxStarts,  \* bound on the processes ever started
    MaxCalls    \* bound on the tool calls ever made

ASSUME StartsAreCounted == MaxStarts \in Nat /\ MaxCalls \in Nat

VARIABLES
    running,    \* the Workbench processes
    server,     \* the process that serves the NET API
    unsaved,    \* processes with unsaved work
    closing,    \* processes asked to close their main window
    killed,     \* processes being ended by force
    started,    \* processes started so far: the clock of start times
    observed,   \* identities this session has seen
    call,       \* the calls in progress
    made        \* calls made so far

vars == <<running, server, unsaved, closing, killed, started, observed, call, made>>

Process == [id : Ids, start : 1 .. MaxStarts, project : Projects]

ASSUME NoneIsNoProcess == None \notin Process

Ops == {"none", "launch", "stop", "restart"}
Phases == {"idle", "list", "spawn", "connect", "save", "close", "exit", "answered"}
Answers == {"none", "connected", "timeout", "refused", "failed", "exited", "interaction"}

IdleCall ==
    [op |-> "none", phase |-> "idle", target |-> None, project |-> None,
     saver |-> None, forced |-> FALSE, blind |-> FALSE, answer |-> "none"]

TypeOK ==
    /\ running \in SUBSET Process
    /\ server \in running \cup {None}
    /\ unsaved \subseteq running /\ closing \subseteq running /\ killed \subseteq running
    /\ observed \in SUBSET Process
    /\ call \in [Calls ->
            [op : Ops, phase : Phases, target : Process \cup {None},
             project : Projects \cup {None}, saver : Process \cup {None},
             forced : BOOLEAN, blind : BOOLEAN, answer : Answers]]
    /\ started \in 0 .. MaxStarts /\ made \in 0 .. MaxCalls
    /\ \A p, q \in running : p.id = q.id => p = q

Init ==
    /\ running = {} /\ server = None /\ unsaved = {} /\ closing = {} /\ killed = {}
    /\ started = 0 /\ observed = {} /\ made = 0
    /\ call = [c \in Calls |-> IdleCall]

------------------------------------------------------------------------------
(* Steps of a call.                                                          *)

world == <<running, server, unsaved, closing, killed, started>>

Answered(c, answer) ==
    call' = [call EXCEPT ![c].phase = "answered", ![c].answer = answer]

Enter(c, phase) == call' = [call EXCEPT ![c].phase = phase]

\* workbench_processes: a list that powershell fails to give, or whose output does
\* not parse, reads as an empty one.
Listings == {running, {}}

\* A step on what a listing showed; blind when it hid what runs.
Reads(c, listing, phase, answer) ==
    call' = [call EXCEPT ![c].phase = phase, ![c].answer = answer,
                         ![c].blind = listing # running]

Begins(c, op, phase, target, project) ==
    /\ call[c].phase = "idle" /\ made < MaxCalls
    /\ made' = made + 1
    /\ call' = [call EXCEPT ![c] = [IdleCall EXCEPT
                    !.op = op, !.phase = phase, !.target = target, !.project = project]]

\* A new process gets a free id and the next start time.
NewProcess(project) ==
    {[id |-> i, start |-> started + 1, project |-> project] :
        i \in {j \in Ids : \A p \in running : p.id # j}}

Launch(c, project) ==
    /\ Begins(c, "launch", "list", None, project)
    /\ UNCHANGED <<world, observed>>

\* Every process found is remembered; the first is reused if its project fits,
\* which its command line must still tell.
List(c) ==
    /\ call[c].phase = "list"
    /\ \E listing \in Listings :
        /\ observed' = observed \cup listing
        /\ \/ listing = {} /\ Reads(c, listing, "spawn", "none")
           \/ listing # {} /\ Answered(c, "refused")
           \/ \E first \in listing :
                /\ first.project = call[c].project
                /\ call' = [call EXCEPT ![c].phase = "connect", ![c].target = first]
    /\ UNCHANGED <<world, made>>

\* The child is remembered only if the process list already shows it.
Spawn(c) ==
    /\ call[c].phase = "spawn" /\ started < MaxStarts
    /\ \E child \in NewProcess(call[c].project) :
        /\ running' = running \cup {child}
        /\ started' = started + 1
        /\ \E found \in {{}, {child}} : observed' = observed \cup found
        /\ call' = [call EXCEPT ![c].phase = "connect", ![c].target = child]
    /\ UNCHANGED <<server, unsaved, closing, killed, made>>

\* Starting the executable fails.
SpawnFails(c) ==
    /\ call[c].phase = "spawn"
    /\ Answered(c, "failed")
    /\ UNCHANGED <<world, observed, made>>

\* wait_for_net_api: any process on the port answers.
Connect(c) ==
    /\ call[c].phase = "connect"
    /\ Answered(c, IF server = None THEN "timeout" ELSE "connected")
    /\ UNCHANGED <<world, observed, made>>

\* The first remembered identity with the id must be listed as it was seen.
Stop(c, id) ==
    LET known == {o \in observed : o.id = id}
    IN  /\ \/ /\ known = {}
              /\ Begins(c, "stop", "answered", None, None)
           \/ \E target \in known, listing \in Listings :
                Begins(c, "stop", IF target \in listing THEN "save" ELSE "answered",
                       target, None)
        /\ UNCHANGED <<world, observed>>

\* Any process that is listed may be restarted, if its project can be resolved.
Restart(c, id) ==
    /\ \E listing \in Listings :
        \/ /\ \A p \in listing : p.id # id
           /\ Begins(c, "restart", "answered", None, None)
        \/ \E target \in listing : \E phase \in {"save", "answered"} :
             /\ target.id = id
             /\ Begins(c, "restart", phase, target, target.project)
    /\ UNCHANGED <<world, observed>>

\* save_before_process_control: the process on the port saves what it has open.
Save(c) ==
    /\ call[c].phase = "save" /\ server # None
    /\ unsaved' = unsaved \ {server}
    /\ call' = [call EXCEPT ![c].phase = "close", ![c].saver = server]
    /\ UNCHANGED <<running, server, closing, killed, started, observed, made>>

\* Mutant: only a save ends the wait.
SaveNeverTimesOut(c) == FALSE

\* Fifteen seconds without an accepted save: go on without one.
SaveTimesOut(c) ==
    /\ call[c].phase = "save"
    /\ Enter(c, "close")
    /\ UNCHANGED <<world, observed, made>>

\* Mutant: the id alone names the process.
FoundById(target) == {p \in running : p.id = target.id}

\* The process the script finds: the id must still carry the start time.
Found(target) == {p \in running : p.id = target.id /\ p.start = target.start}

\* A stop closes the window after a save and kills without one; a restart kills.
\* The script may fail to run, and does nothing to a process it does not find.
Close(c) ==
    LET graceful == call[c].op = "stop" /\ call[c].saver # None
        found    == Found(call[c].target)
    IN  /\ call[c].phase = "close"
        /\ \/ Answered(c, "failed") /\ UNCHANGED <<closing, killed>>
           \/ /\ found # {}
              /\ closing' = IF graceful THEN closing \cup found ELSE closing
              /\ killed' = IF graceful THEN killed ELSE killed \cup found
              /\ call' = [call EXCEPT ![c].phase = "exit", ![c].forced = ~graceful]
        /\ UNCHANGED <<running, server, unsaved, started, observed, made>>

\* A stop waits until the id is not listed, a restart until the exact process is
\* not, which it then launches again.
Gone(c, listing) ==
    IF call[c].op = "stop" THEN \A p \in listing : p.id # call[c].target.id
    ELSE call[c].target \notin listing

Exited(c) ==
    /\ call[c].phase = "exit"
    /\ \E listing \in Listings :
        /\ Gone(c, listing)
        /\ IF call[c].op = "stop" THEN Reads(c, listing, "answered", "exited")
           ELSE Reads(c, listing, "list", "none")
    /\ UNCHANGED <<world, observed, made>>

\* Five seconds are over: a graceful close falls back to force, once, if the script
\* runs and finds the process.
ExitTimesOut(c) ==
    LET found == Found(call[c].target)
    IN  /\ call[c].phase = "exit" /\ ~Gone(c, running)
        /\ \/ call[c].op = "restart" /\ Answered(c, "failed") /\ UNCHANGED killed
           \/ call[c].op = "stop" /\ Answered(c, "interaction") /\ UNCHANGED killed
           \/ /\ call[c].op = "stop" /\ ~call[c].forced /\ found # {}
              /\ killed' = killed \cup found
              /\ call' = [call EXCEPT ![c].forced = TRUE]
        /\ UNCHANGED <<running, server, unsaved, closing, started, observed, made>>

Returns(c) ==
    /\ call[c].phase = "answered"
    /\ call' = [call EXCEPT ![c] = IdleCall]
    /\ UNCHANGED <<world, observed, made>>

Step(c) ==
    \/ List(c) \/ Spawn(c) \/ SpawnFails(c) \/ Connect(c)
    \/ Save(c) \/ SaveTimesOut(c) \/ Close(c) \/ Exited(c) \/ ExitTimesOut(c)

------------------------------------------------------------------------------
(* Workbench and its user.                                                   *)

UserStarts(project) ==
    /\ started < MaxStarts
    /\ \E p \in NewProcess(project) : running' = running \cup {p}
    /\ started' = started + 1
    /\ UNCHANGED <<server, unsaved, closing, killed, observed, call, made>>

Binds(p) ==
    /\ server = None /\ p \notin killed
    /\ server' = p
    /\ UNCHANGED <<running, unsaved, closing, killed, started, observed, call, made>>

Edits(p) ==
    /\ p \notin unsaved \cup killed
    /\ unsaved' = unsaved \cup {p}
    /\ UNCHANGED <<running, server, closing, killed, started, observed, call, made>>

\* Killed, closed by request or by its user.
Ends(p) ==
    /\ p \in killed \/ p \notin unsaved
    /\ running' = running \ {p}
    /\ server' = IF server = p THEN None ELSE server
    /\ unsaved' = unsaved \ {p} /\ closing' = closing \ {p} /\ killed' = killed \ {p}
    /\ UNCHANGED <<started, observed, call, made>>

Environment ==
    \/ \E project \in Projects : UserStarts(project)
    \/ \E p \in running : Binds(p) \/ Edits(p) \/ Ends(p)

Next ==
    \/ \E c \in Calls :
        \/ \E project \in Projects : Launch(c, project)
        \/ \E id \in Ids : Stop(c, id) \/ Restart(c, id)
        \/ Step(c)
        \/ Returns(c)
    \/ Environment

Spec == Init /\ [][Next]_vars

\* Threads run, and the waits of the code have deadlines.  Those for powershell to
\* list or to close processes have none: it is assumed to return.
FairSpec == Spec /\ \A c \in Calls : WF_vars(Step(c))

------------------------------------------------------------------------------
(* Properties.                                                               *)

\* A process is asked to close or killed only for a call that chose exactly it,
\* whatever ids are reused while the call saves; a stop chooses only what the
\* session has seen, and kills it before the window could close only without an
\* acknowledged save.
OnlyTheTargetIsClosed ==
    [][\A p \in (closing' \cup killed') \ (closing \cup killed) :
        \E c \in Calls :
            /\ call[c].phase = "close" /\ call[c].target = p
            /\ call[c].op = "stop" => p \in observed
            /\ p \in killed' => call[c].op = "restart" \/ call[c].saver = None]_vars

\* A stop that answers "exited" and a restart that spawns again do so only when
\* the process they closed is gone, although a stop looks for its id alone - unless
\* the last process list they read had failed: then the process was at least asked
\* to close, and may still run.
ClosedIsGone ==
    \A c \in Calls :
        \/ call[c].answer = "exited"
        \/ call[c].op = "restart" /\ call[c].phase = "spawn"
        => LET target == call[c].target
           IN  target \in running => call[c].blind /\ target \in closing \cup killed

\* Both: what a call ends is exactly the process it chose.
ExactlyTheTargetEnds == OnlyTheTargetIsClosed /\ []ClosedIsGone

\* Every call is answered: its waits end one way or the other.
CallsEnd == \A c \in Calls : call[c].phase # "idle" ~> call[c].phase = "answered"

=============================================================================
