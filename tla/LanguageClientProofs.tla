------------------------ MODULE LanguageClientProofs ------------------------
(***************************************************************************)
(* Proofs about the two coordinators of the extension's activation.        *)
(*                                                                         *)
(* The language client, for any graphs and any number of restarts,         *)
(* refreshes and crashes: its types (ClientTypeCorrect), and that one      *)
(* client is current (OneClientIsCurrent).                                 *)
(*                                                                         *)
(* OneCurrentClient is not inductive.  Inv adds what the generations mean: *)
(* no two starts share one, the client in use has the newest, every start  *)
(* is stale while a client is being stopped, and a start that is not stale *)
(* runs beside no client.  It says who answers for the mode while a restart*)
(* is under way (Superseded), and counts the generations still owed to     *)
(* restarts asked for (Counted), which bounds them.                        *)
(*                                                                         *)
(* The Workbench integration, for any number of changes of the setting and *)
(* of Workbench: its types (IntegrationTypeCorrect), and that a setting    *)
(* the user turned off stays off (TurnedOffStaysOff), from what the        *)
(* coordinator remembers of both across its awaits (IntegrationInv).       *)
(***************************************************************************)
EXTENDS LanguageClient, WorkbenchIntegration, SequenceTheorems, TLAPS

\* The generations a restart under way, and one that waits behind it, still use.
OwedNow == CASE coordinator.step = "waiting" -> 2
             [] coordinator.step = "stopping" -> 1
             [] OTHER -> 0
OwedNext == IF coordinator.pending = None THEN 0 ELSE 2

Counted ==
    /\ generation \in Nat /\ restarts \in Nat
    /\ 1 <= generation /\ generation + OwedNow + OwedNext <= 1 + 2 * restarts
    /\ restarts <= MaxRestarts

\* Starts differ in their generation; while a client is stopped all are
\* stale, and the start of the restart under way is the newest.
Issued ==
    /\ start["initial"].generation = 1 /\ start["initial"].step # "none"
    /\ start["restart"].generation # 1
    /\ start["restart"].generation <= generation
    /\ start["restart"].step # "none" => start["restart"].generation # 0
    /\ coordinator.step = "starting" => start["restart"].generation = generation
    /\ coordinator.step = "stopping" =>
          client = None /\ \A s \in Starters : start[s].generation < generation
    /\ coordinator.step # "stopping" => coordinator.victim = None

\* The client in use was created by the newest start.
Installed(s) == start[s].step \in {"launching", "indexing", "done"}
Owned ==
    client # None =>
        client = generation /\ \E s \in Starters : start[s].generation = client /\ Installed(s)

\* The client in use, and the one being stopped, were created.
Created ==
    /\ client # None => servers[client] # None
    /\ coordinator.victim # None => servers[coordinator.victim] # None

\* A client being started has not started yet, and cannot be stopped.
Launched ==
    \A s \in Starters : start[s].step = "launching" =>
        /\ servers[start[s].generation] # None
        /\ servers[start[s].generation].life = "starting"

\* A restart that has yet to end, or was given up, answers for the mode.
Superseded ==
    \/ coordinator.step = "waiting"
    \/ coordinator.step = "starting" /\ coordinator.pending # None
    \/ coordinator.rejected

ModesKept ==
    /\ \A s \in Starters : start[s].step = "workspace" /\ ~Stale(s) =>
          confirmed = None /\ (start[s].mode = mode \/ Superseded)
    /\ client # None => servers[client].mode = mode \/ Superseded

Control ==
    /\ Counted /\ Issued /\ Owned /\ Created /\ Launched /\ ModesKept
    /\ NoClientIsForgotten /\ ConfirmedByThisClient

Inv == Types /\ Control

-----------------------------------------------------------------------------
LEMMA GenerationInRange ==
    ASSUME Counted
    PROVE  generation \in Generations
BY ClientAssumption DEF Counted, OwedNow, OwedNext, Generations

\* Two starts never have the same generation.
LEMMA StartsDiffer ==
    ASSUME Issued, NEW s \in Starters, NEW q \in Starters,
           start[s].generation = start[q].generation
    PROVE  s = q
BY DEF Issued, Starters

\* NoneIsNothing keeps None apart from the generations.
LEMMA NoneIsNoGeneration == None \notin Generations
BY NoneIsNothing DEF Generations

LEMMA StartTypes ==
    ASSUME Types, NEW s \in Starters
    PROVE  /\ start[s] \in Starts /\ start[s].step \in Steps /\ start[s].mode \in Modes
           /\ start[s].generation \in Generations \cup {0} /\ start[s].progress \in BOOLEAN
BY DEF Types, Starts

LEMMA StartedHasGeneration ==
    ASSUME Types, Issued, NEW s \in Starters, start[s].step # "none"
    PROVE  start[s].generation \in Generations
<1>1. start[s].generation # 0
    BY DEF Issued, Starters
<1> QED
    BY <1>1, StartTypes

\* End changes the step of one start and nothing else of it but its progress.
LEMMA EndSteps ==
    ASSUME Types, NEW s \in Starters, NEW step \in Steps, End(s, step)
    PROVE  /\ start' \in [Starters -> Starts]
           /\ \A q \in Starters :
                /\ start'[q].generation = start[q].generation
                /\ start'[q].mode = start[q].mode
                /\ start'[q].step = IF q = s THEN step ELSE start[q].step
<1> DEFINE p == start[s].progress /\ step \notin {"done", "rejected"}
           new == [start[s] EXCEPT !.step = step, !.progress = p]
<1>1. p \in BOOLEAN /\ start[s] \in Starts
    BY StartTypes
<1>2. start' = [start EXCEPT ![s] = new]
    BY DEF End, Types
<1> HIDE DEF p
<1>3. /\ new \in Starts /\ new.generation = start[s].generation
      /\ new.mode = start[s].mode /\ new.step = step
    BY <1>1 DEF Starts
<1> HIDE DEF new
<1>4. \A q \in Starters : start'[q] = IF q = s THEN new ELSE start[q]
    BY <1>2 DEF Types
<1> QED
    BY <1>2, <1>3, <1>4 DEF Types

-----------------------------------------------------------------------------
\* Servers change as their own life goes on: none appears or disappears, and
\* its mode stays.
SameServers(g) ==
    \/ servers'[g] = servers[g]
    \/ /\ servers[g] # None /\ servers'[g] # None
       /\ servers'[g].life = servers[g].life /\ servers'[g].mode = servers[g].mode

ServersGoOn ==
    /\ servers' \in [Generations -> Servers \cup {None}]
    /\ \A g \in Generations : SameServers(g)

\* While a start looks for the server or the workspace, no client is in use,
\* unless a newer start has begun.
LEMMA NoClientBesideStart ==
    ASSUME Inv, NEW s \in Starters, start[s].step = "workspace" \/ start[s].step = "path",
           ~Stale(s)
    PROVE  client = None
<1> SUFFICES ASSUME client # None PROVE FALSE
    OBVIOUS
<1>1. PICK q \in Starters : start[q].generation = generation /\ Installed(q)
    BY DEF Inv, Control, Owned
<1>2. s = q
    BY <1>1, StartsDiffer DEF Inv, Control, Stale
<1> QED
    BY <1>1, <1>2 DEF Installed

\* What servers, fetches and refreshes do leaves the control alone, if a
\* confirmation is of the client in use.
LEMMA ServersKeepControl ==
    ASSUME Inv, UNCHANGED <<mode, generation, start, coordinator, client, refused, restarts>>,
           ServersGoOn,
           confirmed' = confirmed \/ (client # None /\ confirmed' = client)
    PROVE  Control'
<1>1. Counted' /\ Issued' /\ Owned'
    BY DEF Inv, Control, Counted, Issued, Owned, OwedNow, OwedNext, Installed
<1>2. Launched'
    <2> SUFFICES ASSUME NEW s \in Starters, start[s].step = "launching"
                 PROVE  /\ servers'[start[s].generation] # None
                        /\ servers'[start[s].generation].life = "starting"
        BY DEF Launched
    <2>1. start[s].generation \in Generations
        BY StartedHasGeneration DEF Inv, Control
    <2> QED
        BY <2>1 DEF Inv, Control, Launched, ServersGoOn, SameServers
<1>3. ModesKept'
    <2>1. client # None => servers'[client].mode = servers[client].mode
        BY DEF Inv, Types, ServersGoOn, SameServers
    <2>2. ASSUME NEW s \in Starters, start[s].step = "workspace", ~Stale(s)
          PROVE  client = None
        BY <2>2, NoClientBesideStart
    <2>3. Superseded' <=> Superseded
        BY DEF Superseded
    <2> QED
        BY <2>1, <2>2, <2>3 DEF Inv, Control, ModesKept, Stale
<1>4. NoClientIsForgotten'
    <2> SUFFICES ASSUME NEW g \in Generations, servers'[g] # None,
                        servers'[g].life # "stopped"
                 PROVE  g = client \/ g = coordinator.victim \/ g \in refused
        BY DEF NoClientIsForgotten
    <2>1. SameServers(g)
        BY DEF ServersGoOn
    <2>2. servers[g] # None
        BY <2>1 DEF SameServers
    <2>3. servers[g].life # "stopped"
        BY <2>1 DEF SameServers
    <2> QED
        BY <2>2, <2>3 DEF Inv, Control, NoClientIsForgotten
<1>5. ConfirmedByThisClient'
    BY DEF Inv, Control, ConfirmedByThisClient
<1>6. Created'
    BY DEF Inv, Control, Created, Types, ServersGoOn, SameServers
<1> QED
    BY <1>1, <1>2, <1>3, <1>4, <1>5, <1>6 DEF Control
-----------------------------------------------------------------------------
(* Types of what actions assign.                                           *)

LEMMA FetchOf ==
    ASSUME Types, NEW i \in DOMAIN fetches
    PROVE  fetches[i] \in Fetches /\ fetches[i].client \in Generations
<1>1. fetches[i] \in Fetches
    <2> HIDE DEF Fetches
    <2> QED
        BY DEF Types
<1> QED
    BY <1>1 DEF Fetches

LEMMA StepFetchType ==
    ASSUME Types, NEW i \in DOMAIN fetches, NEW step,
           step \in {"asking", "written", "waiting", "resolved", "ended"}, StepFetch(i, step)
    PROVE  fetches' \in Seq(Fetches)
<1> DEFINE new == [fetches[i] EXCEPT !.step = step]
<1>1. new \in Fetches
    BY FetchOf DEF Fetches
<1>2. fetches' = [fetches EXCEPT ![i] = new]
    BY DEF StepFetch
<1> HIDE DEF new
<1> QED
    BY <1>1, <1>2 DEF Types

LEMMA ReleasedType ==
    ASSUME Types, NEW g
    PROVE  Released(fetches, g) \in Seq(Fetches)
<1>1. ASSUME NEW i \in DOMAIN fetches
      PROVE  Released(fetches, g)[i] \in Fetches
    <2>1. [fetches[i] EXCEPT !.step = "resolved"] \in Fetches
        BY FetchOf DEF Fetches
    <2> QED
        BY <2>1, FetchOf DEF Released
<1>2. DOMAIN fetches = 1..Len(fetches) /\ Len(fetches) \in Nat
    BY DEF Types
<1>3. Released(fetches, g) \in [1..Len(fetches) -> Fetches]
    BY <1>1, <1>2 DEF Released
<1> QED
    BY <1>2, <1>3

\* One server goes on.
LEMMA ServerGoesOn ==
    ASSUME Types, NEW g \in Generations, NEW new \in Servers, servers[g] # None,
           new.life = servers[g].life, new.mode = servers[g].mode,
           servers' = [servers EXCEPT ![g] = new]
    PROVE  ServersGoOn
<1>1. servers' \in [Generations -> Servers \cup {None}]
    BY DEF Types
<1>2. ASSUME NEW h \in Generations PROVE SameServers(h)
    BY <1>2, NoneIsNothing DEF Types, SameServers
<1> QED
    BY <1>1, <1>2 DEF ServersGoOn

LEMMA ServersStay ==
    ASSUME Types, servers' = servers
    PROVE  ServersGoOn
BY DEF Types, ServersGoOn, SameServers

-----------------------------------------------------------------------------
(* Fetches of the graph.                                                   *)

\* What a step of a fetch, a server or a message changes.
Beside == UNCHANGED <<mode, generation, start, coordinator, client, refused, restarts>>
Typed ==
    /\ fetches' \in Seq(Fetches)
    /\ refreshable' \in Generations \cup {None}
    /\ ready' \in {"pending", "yes", "no"}
    /\ inventory' \in Graphs \cup {None}
    /\ confirmed' = confirmed \/ (client # None /\ confirmed' = client)

LEMMA BesideKeepsInv ==
    ASSUME Inv, Beside, ServersGoOn, Typed
    PROVE  Inv'
<1>1. Control'
    BY ServersKeepControl DEF Beside, Typed
<1>2. confirmed' \in Generations \cup {None}
    BY DEF Inv, Types, Typed
<1>3. Types'
    BY <1>2 DEF Inv, Types, Typed, Beside, ServersGoOn
<1> QED
    BY <1>1, <1>3 DEF Inv

LEMMA FetchingKeepsInv ==
    ASSUME Inv, NEW i \in DOMAIN fetches, Fetching(i)
    PROVE  Inv'
<1>1. Types /\ fetches[i].client \in Generations
    BY FetchOf DEF Inv
<1>2. CASE GateOpens(i)
    <2>1. fetches' \in Seq(Fetches)
        BY <1>1, <1>2, StepFetchType DEF GateOpens
    <2> QED
        BY <1>1, <1>2, <2>1, BesideKeepsInv, ServersStay
           DEF GateOpens, Beside, Typed, session, counters, Types
<1>3. CASE GraphArrives(i)
    <2>1. fetches' \in Seq(Fetches)
        BY <1>1, <1>3, StepFetchType DEF GraphArrives
    <2> QED
        BY <1>1, <1>3, <2>1, BesideKeepsInv, ServersStay
           DEF GraphArrives, Beside, Typed, session, counters, Types
<1>4. CASE GraphUnavailable(i)
    <2>1. fetches' \in Seq(Fetches)
        BY <1>1, <1>4, StepFetchType DEF GraphUnavailable
    <2> QED
        BY <1>1, <1>4, <2>1, BesideKeepsInv, ServersStay
           DEF GraphUnavailable, Beside, Typed, session, counters, Types
<1>5. CASE DeliverGraph(i)
    <2> DEFINE g == fetches[i].client
               new == [servers[g] EXCEPT !.loading = TRUE]
    <2>1. fetches' \in Seq(Fetches)
        BY <1>1, <1>5, StepFetchType DEF DeliverGraph
    <2>2. ServersGoOn
        <3>1. CASE servers' = servers
            BY <1>1, <3>1, ServersStay
        <3>2. CASE servers[g] # None /\ servers' = [servers EXCEPT ![g].loading = TRUE]
            <4>1. servers[g] \in Servers
                BY <1>1, <3>2 DEF Types
            <4>2. /\ new \in Servers /\ new.life = servers[g].life
                  /\ new.mode = servers[g].mode
                BY <4>1 DEF Servers
            <4>3. servers' = [servers EXCEPT ![g] = new]
                BY <3>2
            <4> HIDE DEF new
            <4> QED
                BY <1>1, <3>2, <4>2, <4>3, ServerGoesOn
        <3> QED
            BY <1>5, <3>1, <3>2 DEF DeliverGraph
    <2> QED
        BY <1>1, <1>5, <2>1, <2>2, BesideKeepsInv
           DEF DeliverGraph, Beside, Typed, session, counters, Types
<1>6. CASE Confirm(i)
    <2>1. fetches' \in Seq(Fetches)
        BY <1>1, <1>6, StepFetchType DEF Confirm
    <2>2. confirmed' = confirmed \/ (client # None /\ confirmed' = client)
        BY <1>1, <1>6, NoneIsNoGeneration DEF Confirm
    <2> QED
        BY <1>1, <1>6, <2>1, <2>2, BesideKeepsInv, ServersStay
           DEF Confirm, Beside, Typed, session, counters, Types
<1> QED
    BY <1>2, <1>3, <1>4, <1>5, <1>6 DEF Fetching
LEMMA AskingKeepsInv ==
    ASSUME Inv, RefreshGraph \/ \E answer \in {"yes", "no"} : WorkbenchReadySettles(answer)
    PROVE  Inv'
<1>1. Types
    BY DEF Inv
<1>2. CASE RefreshGraph
    <2> DEFINE new == [client |-> refreshable, startup |-> FALSE, step |-> "asking",
                       observed |-> FALSE]
    <2>1. new \in Fetches
        BY <1>1, <1>2 DEF RefreshGraph, Types, Fetches
    <2>2. fetches' = Append(fetches, new)
        BY <1>2 DEF RefreshGraph
    <2> HIDE DEF new
    <2>3. fetches' \in Seq(Fetches)
        <3> HIDE DEF Fetches
        <3> QED
            BY <1>1, <2>1, <2>2 DEF Types
    <2> QED
        BY <1>1, <1>2, <2>3, BesideKeepsInv, ServersStay
           DEF RefreshGraph, Beside, Typed, session, Types
<1>3. CASE \E answer \in {"yes", "no"} : WorkbenchReadySettles(answer)
    BY <1>1, <1>3, BesideKeepsInv, ServersStay
       DEF WorkbenchReadySettles, Beside, Typed, session, counters, Types
<1> QED
    BY <1>2, <1>3

-----------------------------------------------------------------------------
(* The server and its messages.                                            *)

\* Every action of a server assigns some of these fields of its record.
LEMMA ServerWrites ==
    ASSUME Types, NEW g \in Generations, servers[g] # None, NEW warm \in Graphs \cup {None},
           NEW complete \in BOOLEAN, NEW loading \in BOOLEAN, NEW inbox \in Seq(Messages),
           servers' = [servers EXCEPT ![g] =
               [servers[g] EXCEPT !.warm = warm, !.complete = complete,
                                  !.loading = loading, !.inbox = inbox]]
    PROVE  ServersGoOn
<1> DEFINE new == [servers[g] EXCEPT !.warm = warm, !.complete = complete,
                                     !.loading = loading, !.inbox = inbox]
<1>1. servers[g] \in Servers
    BY DEF Types
<1>2. new \in Servers /\ new.life = servers[g].life /\ new.mode = servers[g].mode
    BY <1>1 DEF Servers
<1>3. servers' = [servers EXCEPT ![g] = new]
    OBVIOUS
<1> HIDE DEF new
<1> QED
    BY <1>2, <1>3, ServerGoesOn

LEMMA ServerOf ==
    ASSUME Types, NEW g \in Generations, servers[g] # None
    PROVE  /\ servers[g] \in Servers /\ servers[g].inbox \in Seq(Messages)
           /\ servers[g].warm \in Graphs \cup {None}
           /\ servers[g].complete \in BOOLEAN /\ servers[g].loading \in BOOLEAN
           /\ servers[g].mode \in Modes
<1>1. servers[g] \in Servers
    BY DEF Types
<1> QED
    BY <1>1 DEF Servers

\* One more message, or two.
LEMMA InboxGrows ==
    ASSUME NEW inbox \in Seq(Messages)
    PROVE  /\ Append(inbox, "complete") \in Seq(Messages)
           /\ inbox \o <<"workbench-reconciliation", "complete">> \in Seq(Messages)
<1>1. "complete" \in Messages /\ <<"workbench-reconciliation", "complete">> \in Seq(Messages)
    BY DEF Messages
<1> HIDE DEF Messages
<1> QED
    BY <1>1

LEMMA ServingGoesOn ==
    ASSUME Types, NEW g \in Generations, Serving(g)
    PROVE  ServersGoOn
<1> DEFINE s == servers[g]
<1>1. s # None /\ s.life = "running"
    BY DEF Serving, ServerIndexes, ServerReusesScope, ServerRebuilds, ServerFailsGraph
<1>2. s \in Servers
    BY <1>1, ServerOf
<1>3. inventory \in Graphs \cup {None}
    BY DEF Types
<1>4. CASE ServerIndexes(g)
    <2>1. <<"complete">> \in Seq(Messages)
        BY DEF Messages
    <2>2. servers' = [servers EXCEPT ![g] =
              [s EXCEPT !.warm = s.warm, !.complete = s.complete, !.loading = s.loading,
                        !.inbox = <<"complete">>]]
        BY <1>2, <1>4 DEF ServerIndexes, Servers
    <2> QED
        BY <1>1, <2>1, <2>2, ServerOf, ServerWrites
<1>5. CASE ServerReusesScope(g)
    <2>1. PICK current \in BOOLEAN :
              servers' = [servers EXCEPT
                 ![g].loading = ~current,
                 ![g].warm = IF current THEN @ ELSE None,
                 ![g].inbox = Append(@, "complete")]
        BY <1>5 DEF ServerReusesScope
    <2> DEFINE warm == IF current THEN s.warm ELSE None
               inbox == Append(s.inbox, "complete")
    <2>2. warm \in Graphs \cup {None} /\ inbox \in Seq(Messages)
        BY <1>1, ServerOf, InboxGrows
    <2>3. servers' = [servers EXCEPT ![g] =
              [s EXCEPT !.warm = warm, !.complete = s.complete, !.loading = ~current,
                        !.inbox = inbox]]
        BY <1>2, <2>1 DEF Servers
    <2> HIDE DEF warm, inbox
    <2> QED
        BY <1>1, <2>2, <2>3, ServerOf, ServerWrites
<1>6. CASE ServerRebuilds(g)
    <2> DEFINE inbox == s.inbox \o <<"workbench-reconciliation", "complete">>
    <2>1. inbox \in Seq(Messages)
        BY <1>1, ServerOf, InboxGrows
    <2>2. servers' = [servers EXCEPT ![g] =
              [s EXCEPT !.warm = inventory, !.complete = s.complete, !.loading = FALSE,
                        !.inbox = inbox]]
        BY <1>2, <1>6 DEF ServerRebuilds, Servers
    <2> HIDE DEF inbox
    <2> QED
        BY <1>1, <1>3, <2>1, <2>2, ServerOf, ServerWrites
<1>7. CASE ServerFailsGraph(g)
    <2> DEFINE inbox == Append(s.inbox, "complete")
    <2>1. inbox \in Seq(Messages)
        BY <1>1, ServerOf, InboxGrows
    <2>2. servers' = [servers EXCEPT ![g] =
              [s EXCEPT !.warm = s.warm, !.complete = s.complete, !.loading = FALSE,
                        !.inbox = inbox]]
        BY <1>2, <1>7 DEF ServerFailsGraph, Servers
    <2> HIDE DEF inbox
    <2> QED
        BY <1>1, <2>1, <2>2, ServerOf, ServerWrites
<1> QED
    BY <1>4, <1>5, <1>6, <1>7 DEF Serving

LEMMA ServingKeepsInv ==
    ASSUME Inv, NEW g \in Generations, Serving(g)
    PROVE  Inv'
<1>1. Types /\ ServersGoOn
    BY ServingGoesOn DEF Inv
<1>2. UNCHANGED <<session, graph, refused, counters>>
    BY DEF Serving, ServerIndexes, ServerReusesScope, ServerRebuilds, ServerFailsGraph
<1> QED
    BY <1>1, <1>2, BesideKeepsInv DEF Beside, Typed, Types, session, graph, counters

\* The fetches a notification touches keep their type.
LEMMA ProgressType ==
    ASSUME Types, NEW g \in Generations, ReceiveProgress(g)
    PROVE  fetches' \in Seq(Fetches)
<1>1. /\ DOMAIN fetches = 1..Len(fetches) /\ Len(fetches) \in Nat
      /\ DOMAIN fetches' = DOMAIN fetches
    BY DEF Types, ReceiveProgress
<1>2. ASSUME NEW i \in DOMAIN fetches
      PROVE  fetches'[i] \in Fetches
    <2>1. /\ fetches[i] \in Fetches
          /\ [fetches[i] EXCEPT !.step = "resolved"] \in Fetches
          /\ [fetches[i] EXCEPT !.observed = TRUE] \in Fetches
        BY FetchOf DEF Fetches
    <2>2. \/ fetches'[i] = fetches[i]
          \/ fetches'[i] = [fetches[i] EXCEPT !.step = "resolved"]
          \/ fetches'[i] = [fetches[i] EXCEPT !.observed = TRUE]
        BY DEF ReceiveProgress
    <2> QED
        BY <2>1, <2>2
<1>3. fetches' = [i \in DOMAIN fetches |-> fetches'[i]]
    BY DEF ReceiveProgress
<1>4. fetches' \in [1..Len(fetches) -> Fetches]
    BY <1>1, <1>2, <1>3
<1> QED
    BY <1>1, <1>4

LEMMA MessagesKeepInv ==
    ASSUME Inv, NEW g \in Generations, ReceiveProgress(g) \/ ServerCrashes(g)
    PROVE  Inv'
<1> DEFINE s == servers[g]
<1>1. Types
    BY DEF Inv
<1>2. s # None /\ s \in Servers
    BY <1>1, ServerOf DEF ReceiveProgress, ServerCrashes
<1>3. CASE ReceiveProgress(g)
    <2> DEFINE inbox == Tail(s.inbox)
               complete == s.complete \/ Head(s.inbox) = "complete"
    <2>1. inbox \in Seq(Messages)
        <3>1. s.inbox \in Seq(Messages) /\ s.inbox # <<>>
            BY <1>1, <1>2, <1>3, ServerOf DEF ReceiveProgress
        <3> HIDE DEF Messages
        <3> QED
            BY <3>1
    <2>2. complete \in BOOLEAN
        OBVIOUS
    <2>3. servers' = [servers EXCEPT ![g] =
              [s EXCEPT !.warm = s.warm, !.complete = complete, !.loading = s.loading,
                        !.inbox = inbox]]
        BY <1>2, <1>3 DEF ReceiveProgress, Servers
    <2> HIDE DEF inbox, complete
    <2>4. ServersGoOn
        BY <1>1, <1>2, <2>1, <2>2, <2>3, ServerOf, ServerWrites
    <2> QED
        BY <1>1, <1>3, <2>4, ProgressType, BesideKeepsInv
           DEF ReceiveProgress, Beside, Typed, Types, session, counters
<1>4. CASE ServerCrashes(g)
    <2>1. <<>> \in Seq(Messages)
        OBVIOUS
    <2>2. servers' = [servers EXCEPT ![g] =
              [s EXCEPT !.warm = None, !.complete = TRUE, !.loading = FALSE,
                        !.inbox = <<>>]]
        BY <1>2, <1>4 DEF ServerCrashes, Servers
    <2>3. ServersGoOn
        BY <1>1, <1>2, <2>1, <2>2, ServerWrites
    <2>4. fetches' \in Seq(Fetches)
        BY <1>1, <1>4, ReleasedType DEF ServerCrashes
    <2> QED
        BY <1>1, <1>4, <2>3, <2>4, BesideKeepsInv
           DEF ServerCrashes, Beside, Typed, Types, session
<1> QED
    BY <1>3, <1>4
-----------------------------------------------------------------------------
(* startLanguageClient.                                                    *)

\* A start's own client may start or end; its mode stays.
StartsServers(s) ==
    /\ servers' \in [Generations -> Servers \cup {None}]
    /\ \A g \in Generations :
          \/ SameServers(g)
          \/ /\ g = start[s].generation /\ servers[g] # None
             /\ servers[g].life # "stopped"
             /\ servers'[g] # None /\ servers'[g].mode = servers[g].mode

\* What the end of a start, or its wait for the index, changes of the control.
LEMMA EndKeepsControl ==
    ASSUME Inv, NEW s \in Starters, NEW step \in {"done", "rejected", "indexing"},
           start[s].step # "none", step = "rejected" => ~Installed(s),
           End(s, step), StartsServers(s),
           UNCHANGED <<mode, generation, coordinator, client, confirmed, refused, restarts>>
    PROVE  Control'
<1>1. \A q \in Starters :
          /\ start'[q].generation = start[q].generation
          /\ start'[q].mode = start[q].mode
          /\ start'[q].step = IF q = s THEN step ELSE start[q].step
    BY EndSteps DEF Inv, Steps
<1>2. start[s].generation \in Generations
    BY StartedHasGeneration DEF Inv, Control
<1>3. Counted' /\ Issued'
    BY <1>1 DEF Inv, Control, Counted, Issued, OwedNow, OwedNext, Starters
<1>4. Owned'
    <2> SUFFICES ASSUME client # None
                 PROVE  /\ client = generation
                        /\ \E q \in Starters : start'[q].generation = client /\ Installed(q)'
        BY DEF Owned
    <2>1. PICK q \in Starters : start[q].generation = client /\ Installed(q)
        BY DEF Inv, Control, Owned
    <2>2. Installed(q)'
        BY <1>1, <2>1 DEF Installed
    <2> QED
        BY <1>1, <2>1, <2>2 DEF Inv, Control, Owned
<1>5. Launched'
    <2> SUFFICES ASSUME NEW q \in Starters, start'[q].step = "launching"
                 PROVE  /\ servers'[start'[q].generation] # None
                        /\ servers'[start'[q].generation].life = "starting"
        BY DEF Launched
    <2>1. q # s /\ start[q].step = "launching" /\ start'[q].generation = start[q].generation
        BY <1>1
    <2>2. start[q].generation \in Generations
        BY <2>1, StartedHasGeneration DEF Inv, Control
    <2>3. start[q].generation # start[s].generation
        BY <2>1, StartsDiffer DEF Inv, Control
    <2>4. SameServers(start[q].generation)
        BY <2>2, <2>3 DEF StartsServers
    <2>5. /\ servers[start[q].generation] # None
          /\ servers[start[q].generation].life = "starting"
        BY <2>1 DEF Inv, Control, Launched
    <2> QED
        BY <2>1, <2>4, <2>5 DEF SameServers
<1>6. ModesKept'
    <2>1. client # None => servers'[client].mode = servers[client].mode
        <3> SUFFICES ASSUME client # None
                     PROVE  servers'[client].mode = servers[client].mode
            OBVIOUS
        <3>1. client \in Generations
            BY DEF Inv, Types
        <3> QED
            BY <3>1 DEF StartsServers, SameServers
    <2>2. Superseded' <=> Superseded
        BY DEF Superseded
    <2>3. \A q \in Starters : start'[q].step = "workspace" /\ ~Stale(q)' =>
              start[q].step = "workspace" /\ ~Stale(q)
        BY <1>1 DEF Stale
    <2> QED
        BY <1>1, <2>1, <2>2, <2>3 DEF Inv, Control, ModesKept
<1>7. NoClientIsForgotten'
    <2> SUFFICES ASSUME NEW g \in Generations, servers'[g] # None,
                        servers'[g].life # "stopped"
                 PROVE  g = client \/ g = coordinator.victim \/ g \in refused
        BY DEF NoClientIsForgotten
    <2>1. servers[g] # None /\ servers[g].life # "stopped"
        BY DEF StartsServers, SameServers
    <2> QED
        BY <2>1 DEF Inv, Control, NoClientIsForgotten
<1>8. ConfirmedByThisClient'
    BY DEF Inv, Control, ConfirmedByThisClient
<1>9. Created'
    BY DEF Inv, Control, Created, Types, StartsServers, SameServers
<1> QED
    BY <1>3, <1>4, <1>5, <1>6, <1>7, <1>8, <1>9 DEF Control

LEMMA EndKeepsInv ==
    ASSUME Inv, NEW s \in Starters, NEW step \in {"done", "rejected", "indexing"},
           start[s].step # "none", step = "rejected" => ~Installed(s),
           End(s, step), StartsServers(s),
           UNCHANGED <<mode, generation, coordinator, client, confirmed, refused, restarts,
                       ready, inventory>>,
           fetches' \in Seq(Fetches), refreshable' \in Generations \cup {None}
    PROVE  Inv'
<1>1. Control'
    BY EndKeepsControl
<1>2. start' \in [Starters -> Starts]
    BY EndSteps DEF Inv, Steps
<1>3. Types'
    BY <1>2 DEF Inv, Types, StartsServers
<1> QED
    BY <1>1, <1>3 DEF Inv

LEMMA StartEndsKeepInv ==
    ASSUME Inv, NEW s \in Starters,
           \/ StartRejects(s) \/ ClientStarts(s) \/ ClientStartFails(s) \/ IndexCompletes(s)
    PROVE  Inv'
<1> DEFINE g == start[s].generation
<1>1. Types /\ start[s].step # "none"
    BY DEF Inv, StartRejects, ClientStarts, ClientStartFails, IndexCompletes
<1>2. g \in Generations
    BY <1>1, StartedHasGeneration DEF Inv, Control
<1>3. fetches \in Seq(Fetches) /\ refreshable \in Generations \cup {None}
    BY <1>1 DEF Types
<1>4. servers' = servers => StartsServers(s)
    BY <1>1 DEF Types, StartsServers, SameServers
<1>5. start[s].step = "launching" => servers[g] # None /\ servers[g].life = "starting"
    BY DEF Inv, Control, Launched
<1>6. CASE StartRejects(s)
    <2>1. ~Installed(s)
        BY <1>6 DEF StartRejects, Installed
    <2> QED
        BY <1>1, <1>3, <1>4, <1>6, <2>1, EndKeepsInv DEF StartRejects, graph, counters
<1>7. CASE IndexCompletes(s)
    BY <1>1, <1>3, <1>4, <1>7, EndKeepsInv DEF IndexCompletes, graph, counters
<1>8. CASE ClientStarts(s)
    <2>1. PICK scope \in Graphs \cup {None} :
              servers' = [servers EXCEPT ![g].life = "running", ![g].warm = scope]
        BY <1>8 DEF ClientStarts
    <2> DEFINE new == [servers[g] EXCEPT !.life = "running", !.warm = scope]
    <2>2. servers[g] \in Servers
        BY <1>1, <1>2, <1>5, <1>8, ServerOf DEF ClientStarts
    <2>3. new \in Servers /\ new.mode = servers[g].mode
        BY <2>2 DEF Servers
    <2>4. servers' = [servers EXCEPT ![g] = new]
        BY <2>1, <2>2 DEF Servers
    <2> HIDE DEF new
    <2>5. StartsServers(s)
        <3>1. servers' \in [Generations -> Servers \cup {None}]
            BY <1>1, <2>3, <2>4 DEF Types
        <3>2. ASSUME NEW h \in Generations
              PROVE  SameServers(h) \/ /\ h = g /\ servers[h] # None
                                        /\ servers[h].life # "stopped"
                                        /\ servers'[h] # None
                                        /\ servers'[h].mode = servers[h].mode
            BY NoneIsNothing, <1>1, <1>2, <1>5, <1>8, <2>3, <2>4
               DEF Types, SameServers, ClientStarts
        <3> QED
            BY <3>1, <3>2 DEF StartsServers
    <2>6. refreshable' \in Generations \cup {None}
        BY <1>2, <1>3, <1>8 DEF ClientStarts
    <2>7. PICK step \in {"done", "indexing"} : End(s, step)
        BY <1>8 DEF ClientStarts
    <2> QED
        BY <1>1, <1>3, <1>8, <2>5, <2>6, <2>7, EndKeepsInv DEF ClientStarts, counters
<1>9. CASE ClientStartFails(s)
    <2> DEFINE new == NewServer("stopped", servers[g].mode)
    <2>2. servers[g] \in Servers /\ servers[g].mode \in Modes
        BY <1>1, <1>2, <1>5, <1>9, ServerOf DEF ClientStartFails
    <2>3. new \in Servers /\ new.mode = servers[g].mode
        BY <2>2 DEF NewServer, Servers
    <2>4. servers' = [servers EXCEPT ![g] = new]
        BY <1>9 DEF ClientStartFails
    <2> HIDE DEF new
    <2>5. StartsServers(s)
        <3>1. servers' \in [Generations -> Servers \cup {None}]
            BY <1>1, <2>3, <2>4 DEF Types
        <3>2. ASSUME NEW h \in Generations
              PROVE  SameServers(h) \/ /\ h = g /\ servers[h] # None
                                        /\ servers[h].life # "stopped"
                                        /\ servers'[h] # None
                                        /\ servers'[h].mode = servers[h].mode
            BY NoneIsNothing, <1>1, <1>2, <1>5, <1>9, <2>3, <2>4
               DEF Types, SameServers, ClientStartFails
        <3> QED
            BY <3>1, <3>2 DEF StartsServers
    <2>6. fetches' \in Seq(Fetches)
        BY <1>1, <1>9, ReleasedType DEF ClientStartFails
    <2> QED
        BY <1>1, <1>3, <1>9, <2>5, <2>6, EndKeepsInv DEF ClientStartFails, counters
<1> QED
    BY <1>6, <1>7, <1>8, <1>9
LEMMA PathResolvesKeepsInv ==
    ASSUME Inv, NEW s \in Starters, NEW found \in BOOLEAN, PathResolves(s, found)
    PROVE  Inv'
<1>1. Types /\ start[s].step = "path"
    BY DEF Inv, PathResolves
<1>2. start[s].generation \in Generations
    BY <1>1, StartedHasGeneration DEF Inv, Control
<1>3. CASE ~found \/ Stale(s)
    <2>1. StartsServers(s)
        BY <1>1, <1>3 DEF Types, StartsServers, SameServers, PathResolves
    <2> QED
        BY <1>1, <1>3, <2>1, EndKeepsInv DEF PathResolves, Types, counters
<1>4. CASE found /\ ~Stale(s)
    <2> DEFINE new == [start[s] EXCEPT !.step = "workspace", !.mode = mode]
               fetch == [client |-> start[s].generation, startup |-> TRUE,
                         step |-> "gate", observed |-> FALSE]
    <2>1. start' = [start EXCEPT ![s].step = "workspace", ![s].mode = mode]
        BY <1>4 DEF PathResolves
    <2>2. start[s] \in Starts
        BY <1>1, StartTypes
    <2>3. /\ new \in Starts /\ new.generation = start[s].generation
          /\ new.step = "workspace" /\ new.mode = mode
        BY <1>1, <2>2 DEF Types, Starts, Steps
    <2>4. start' = [start EXCEPT ![s] = new]
        BY <1>1, <2>1, <2>2 DEF Types, Starts
    <2>5. fetch \in Fetches
        BY <1>2 DEF Fetches
    <2> HIDE DEF new, fetch
    <2>6. /\ start' \in [Starters -> Starts]
          /\ \A q \in Starters :
                /\ start'[q].generation = start[q].generation
                /\ IF q = s THEN start'[q].step = "workspace" /\ start'[q].mode = mode
                   ELSE start'[q] = start[q]
        BY <1>1, <2>3, <2>4 DEF Types
    <2>7. fetches' \in Seq(Fetches)
        <3>1. fetches' = Append(fetches, fetch) \/ fetches' = fetches
            BY <1>4 DEF PathResolves, fetch
        <3> HIDE DEF Fetches
        <3> QED
            BY <1>1, <2>5, <3>1 DEF Types
    <2>8. client = None /\ confirmed' = None
        BY <1>1, <1>4, NoClientBesideStart DEF PathResolves
    <2>9. Types'
        BY <1>1, <2>6, <2>7, <2>8 DEF Types, PathResolves
    <2>10. Counted' /\ Issued'
        BY <1>1, <1>4, <2>6, <2>8 DEF PathResolves, Inv, Control, Counted, Issued,
           OwedNow, OwedNext, Starters, counters
    <2>11. Owned' /\ Created'
        BY <2>8 DEF PathResolves, Inv, Control, Created, Owned
    <2>12. Launched'
        BY <2>6 DEF PathResolves, Inv, Control, Launched
    <2>13. ModesKept'
        <3>1. ASSUME NEW q \in Starters, start'[q].step = "workspace", ~Stale(q)'
              PROVE  q = s
            BY <1>4, <2>6, <3>1, StartsDiffer DEF PathResolves, Inv, Control, Stale
        <3> QED
            BY <2>6, <2>8, <3>1 DEF PathResolves, ModesKept
    <2>14. NoClientIsForgotten' /\ ConfirmedByThisClient'
        BY <2>8 DEF PathResolves, Inv, Control, NoClientIsForgotten, ConfirmedByThisClient
    <2> QED
        BY <2>9, <2>10, <2>11, <2>12, <2>13, <2>14 DEF Inv, Control
<1> QED
    BY <1>3, <1>4

LEMMA WorkspaceFoundKeepsInv ==
    ASSUME Inv, NEW s \in Starters, WorkspaceFound(s)
    PROVE  Inv'
<1> DEFINE g == start[s].generation
<1>1. Types /\ start[s].step = "workspace"
    BY DEF Inv, WorkspaceFound
<1>2. g \in Generations
    BY <1>1, StartedHasGeneration DEF Inv, Control
<1>3. CASE Stale(s)
    <2>1. StartsServers(s)
        BY <1>1, <1>3 DEF Types, StartsServers, SameServers, WorkspaceFound
    <2> QED
        BY <1>1, <1>3, <2>1, EndKeepsInv DEF WorkspaceFound, Types, graph, counters
<1>4. CASE ~Stale(s)
    <2> DEFINE new == NewServer("starting", start[s].mode)
    <2>1. client' = g /\ End(s, "launching") /\ servers' = [servers EXCEPT ![g] = new]
        BY <1>4 DEF WorkspaceFound
    <2>2. /\ start' \in [Starters -> Starts]
          /\ \A q \in Starters :
                /\ start'[q].generation = start[q].generation
                /\ start'[q].mode = start[q].mode
                /\ start'[q].step = IF q = s THEN "launching" ELSE start[q].step
        BY <1>1, <2>1, EndSteps DEF Steps
    <2>3. new \in Servers /\ new.life = "starting" /\ new.mode = start[s].mode
        BY <1>1, StartTypes DEF NewServer, Servers
    <2> HIDE DEF new
    <2>4. /\ servers' \in [Generations -> Servers \cup {None}]
          /\ \A h \in Generations : servers'[h] = IF h = g THEN new ELSE servers[h]
        BY <1>1, <2>1, <2>3 DEF Types
    <2>5. servers'[g] # None
        BY <1>2, <2>3, <2>4, NoneIsNothing
    <2>6. /\ UNCHANGED <<mode, generation, coordinator, graph, refused, counters>>
          /\ g = generation
        BY <1>4 DEF WorkspaceFound, Stale
    <2>7. /\ client = None /\ confirmed = None
          /\ start[s].mode = mode \/ Superseded
        BY <1>1, <1>4, NoClientBesideStart DEF Inv, Control, ModesKept
    <2>8. Types'
        BY <1>1, <1>2, <2>1, <2>2, <2>4, <2>6 DEF Types, graph
    <2>9. Counted' /\ Issued'
        BY <1>1, <2>2, <2>6 DEF Inv, Control, Counted, Issued, OwedNow, OwedNext,
           Starters, counters, Stale
    <2>10. Owned'
        BY <2>1, <2>2, <2>6 DEF Owned, Installed
    <2>11. Created'
        <3>1. coordinator.victim # None => coordinator.victim \in Generations
            BY <1>1 DEF Types
        <3> QED
            BY <2>1, <2>4, <2>5, <2>6, <3>1 DEF Inv, Control, Created
    <2>12. Launched'
        <3> SUFFICES ASSUME NEW q \in Starters, start'[q].step = "launching"
                     PROVE  /\ servers'[start'[q].generation] # None
                            /\ servers'[start'[q].generation].life = "starting"
            BY DEF Launched
        <3>1. CASE q = s
            BY <1>2, <2>2, <2>3, <2>4, <2>5, <3>1
        <3>2. CASE q # s
            <4>1. start[q].step = "launching" /\ start'[q].generation = start[q].generation
                BY <2>2, <3>2
            <4>2. start[q].generation \in Generations /\ start[q].generation # g
                BY <3>2, <4>1, StartedHasGeneration, StartsDiffer DEF Inv, Control
            <4> QED
                BY <2>4, <4>1, <4>2 DEF Inv, Control, Launched
        <3> QED
            BY <3>1, <3>2
    <2>13. ModesKept'
        <3>1. ASSUME NEW q \in Starters, start'[q].step = "workspace", ~Stale(q)'
              PROVE  FALSE
            <4>1. q # s /\ start[q].generation = g
                BY <2>2, <2>6, <3>1 DEF Stale
            <4> QED
                BY <4>1, StartsDiffer DEF Inv, Control
        <3>2. servers'[client'].mode = mode \/ Superseded
            BY <1>2, <2>1, <2>3, <2>4, <2>7
        <3> QED
            BY <2>6, <3>1, <3>2 DEF ModesKept, Superseded
    <2>14. NoClientIsForgotten'
        <3> SUFFICES ASSUME NEW h \in Generations, servers'[h] # None,
                            servers'[h].life # "stopped", h # g
                     PROVE  h = coordinator.victim \/ h \in refused
            BY <2>1, <2>6 DEF NoClientIsForgotten
        <3> QED
            BY <2>4, <2>7, NoneIsNoGeneration DEF Inv, Control, NoClientIsForgotten
    <2>15. ConfirmedByThisClient'
        BY <2>6, <2>7 DEF ConfirmedByThisClient, graph
    <2> QED
        BY <2>8, <2>9, <2>10, <2>11, <2>12, <2>13, <2>14, <2>15 DEF Inv, Control
<1> QED
    BY <1>3, <1>4

LEMMA StartingKeepsInv ==
    ASSUME Inv, NEW s \in Starters, Starting(s)
    PROVE  Inv'
BY PathResolvesKeepsInv, WorkspaceFoundKeepsInv, StartEndsKeepInv DEF Starting
-----------------------------------------------------------------------------
(* The restart coordinator.                                                *)

\* What stopping changes of the servers and fetches is only their waiting.
LEMMA StopHeadTypes ==
    ASSUME Types, StopHead
    PROVE  ServersGoOn /\ fetches' \in Seq(Fetches)
<1>1. fetches' \in Seq(Fetches)
    BY ReleasedType DEF StopHead
<1>2. ASSUME NEW g \in Generations
      PROVE  servers'[g] \in Servers \cup {None} /\ SameServers(g)
    <2> DEFINE new == [servers[g] EXCEPT !.complete = TRUE]
    <2>1. CASE servers[g] # None
        <3>1. servers[g] \in Servers
            BY <2>1, ServerOf
        <3>2. /\ new \in Servers /\ new.life = servers[g].life
              /\ new.mode = servers[g].mode
            BY <3>1 DEF Servers
        <3>3. servers'[g] = new \/ servers'[g] = servers[g]
            BY DEF StopHead
        <3> HIDE DEF new
        <3> QED
            BY <2>1, <3>1, <3>2, <3>3, NoneIsNothing DEF SameServers
    <2>2. CASE servers[g] = None
        BY <2>2 DEF StopHead, SameServers
    <2> QED
        BY <2>1, <2>2
<1>3. servers' \in [Generations -> Servers \cup {None}]
    BY <1>2 DEF StopHead
<1> QED
    BY <1>1, <1>2, <1>3 DEF ServersGoOn

Coordinators ==
    [step : {"idle", "waiting", "stopping", "starting"}, victim : Generations \cup {None},
     pending : Operations \cup {None}, rejected : BOOLEAN]

\* The client in use becomes the one to stop, and every start is stale.
LEMMA StopHeadKeepsInv ==
    ASSUME Inv, StopHead, coordinator.step # "stopping", Counted',
           coordinator' \in Coordinators, coordinator'.step = "stopping",
           coordinator'.victim = client, mode' \in Modes,
           UNCHANGED <<start, confirmed, refused, ready, inventory>>
    PROVE  Inv'
<1>1. ServersGoOn /\ fetches' \in Seq(Fetches)
    BY StopHeadTypes DEF Inv
<1>2. generation' = generation + 1 /\ client' = None /\ refreshable' = None
    BY DEF StopHead
<1>3. Types'
    BY <1>1, <1>2 DEF Inv, Types, ServersGoOn, Coordinators
<1>4. generation \in Nat /\ \A s \in Starters : start[s].generation \in Nat
    BY StartTypes DEF Inv, Control, Counted, Generations
<1>5. Issued' /\ \A s \in Starters : start[s].generation < generation'
    BY <1>2, <1>4 DEF Inv, Control, Counted, Issued, Starters
<1>6. Owned' /\ ConfirmedByThisClient'
    BY <1>2 DEF Owned, ConfirmedByThisClient
<1>7. Created'
    BY <1>1, <1>2 DEF Inv, Types, Control, Created, ServersGoOn, SameServers
<1>8. Launched'
    <2> SUFFICES ASSUME NEW s \in Starters, start[s].step = "launching"
                 PROVE  /\ servers'[start[s].generation] # None
                        /\ servers'[start[s].generation].life = "starting"
        BY DEF Launched
    <2>1. start[s].generation \in Generations
        BY StartedHasGeneration DEF Inv, Control
    <2> QED
        BY <1>1, <2>1 DEF Inv, Control, Launched, ServersGoOn, SameServers
<1>9. ModesKept'
    BY <1>2, <1>4, <1>5 DEF ModesKept, Stale
<1>10. NoClientIsForgotten'
    <2> SUFFICES ASSUME NEW g \in Generations, servers'[g] # None,
                        servers'[g].life # "stopped"
                 PROVE  g = client \/ g \in refused
        BY DEF NoClientIsForgotten
    <2>1. SameServers(g)
        BY <1>1 DEF ServersGoOn
    <2>2. servers[g] # None /\ servers[g].life # "stopped"
        BY <2>1 DEF SameServers
    <2> QED
        BY <2>2, NoneIsNoGeneration DEF Inv, Control, Issued, NoClientIsForgotten
<1> QED
    BY <1>3, <1>5, <1>6, <1>7, <1>8, <1>9, <1>10 DEF Inv, Control

\* A step of the coordinator alone.
CoordinatorOnly ==
    UNCHANGED <<start, ready, inventory, confirmed, refused, generation, refreshable,
                client, servers, fetches>>

\* Such a step answers for the mode, or leaves both it and its answer alone.
LEMMA CoordinatorKeepsInv ==
    ASSUME Inv, CoordinatorOnly, Counted', mode' \in Modes, coordinator' \in Coordinators,
           coordinator'.step # "stopping", coordinator'.victim = None,
           coordinator.step # "stopping",
           coordinator'.step = "starting" => coordinator.step = "starting",
           Superseded' \/ (mode' = mode /\ ~Superseded)
    PROVE  Inv'
<1>1. Types'
    BY DEF Inv, Types, CoordinatorOnly, Coordinators
<1>2. Issued' /\ Owned' /\ Created' /\ Launched'
    BY DEF Inv, Control, Issued, Owned, Created, Launched, Installed, CoordinatorOnly
<1>3. ModesKept'
    BY DEF Inv, Control, ModesKept, Stale, CoordinatorOnly
<1>4. NoClientIsForgotten' /\ ConfirmedByThisClient'
    BY DEF Inv, Control, Issued, NoClientIsForgotten, ConfirmedByThisClient, CoordinatorOnly
<1> QED
    BY <1>1, <1>2, <1>3, <1>4 DEF Inv, Control

LEMMA CoordinatorType ==
    ASSUME Types
    PROVE  /\ coordinator \in Coordinators /\ coordinator.pending \in Operations \cup {None}
           /\ coordinator.step \in {"idle", "waiting", "stopping", "starting"}
           /\ client \in Generations \cup {None}
BY DEF Types, Coordinators

\* An operation begins when the coordinator has counted it.
LEMMA BeginKeepsInv ==
    ASSUME Inv, NEW operation \in Operations, Begin(operation),
           coordinator.step \in {"idle", "starting"},
           UNCHANGED <<start, ready, inventory, confirmed, refused>>,
           operation = "wait" => mode' = mode, mode' \in Modes,
           restarts' \in Nat, generation + 2 <= 1 + 2 * restarts', restarts' <= MaxRestarts
    PROVE  Inv'
<1>1. Types /\ Counted
    BY DEF Inv, Control
<1>2. CASE operation = "wait" /\ ~Settled("initial")
    <2>1. coordinator' = Coordinator("waiting", None) /\ CoordinatorOnly
        BY <1>2 DEF Begin, CoordinatorOnly
    <2>2. /\ coordinator' \in Coordinators /\ coordinator'.step = "waiting"
          /\ coordinator'.victim = None /\ coordinator'.pending = None
        BY <2>1 DEF Coordinator, Coordinators
    <2>3. Counted'
        BY <1>1, <2>1, <2>2 DEF Counted, OwedNow, OwedNext, CoordinatorOnly
    <2> QED
        BY <2>1, <2>2, <2>3, CoordinatorKeepsInv DEF Superseded
<1>3. CASE ~(operation = "wait" /\ ~Settled("initial"))
    <2>1. coordinator' = Coordinator("stopping", client) /\ StopHead
        BY <1>3 DEF Begin
    <2>2. /\ coordinator' \in Coordinators /\ coordinator'.step = "stopping"
          /\ coordinator'.victim = client /\ coordinator'.pending = None
        BY <1>1, <2>1, CoordinatorType DEF Coordinator, Coordinators
    <2>3. Counted'
        BY <1>1, <2>1, <2>2 DEF Counted, OwedNow, OwedNext, StopHead
    <2> QED
        BY <2>1, <2>2, <2>3, StopHeadKeepsInv
<1> QED
    BY <1>2, <1>3

\* The operation asked for last waits behind the one under way.
LEMMA RunKeepsInv ==
    ASSUME Inv, NEW operation \in Operations, Run(operation),
           UNCHANGED <<start, ready, inventory, confirmed, refused>>,
           operation = "wait" => mode' = mode, mode' \in Modes,
           restarts < MaxRestarts, restarts' = restarts + 1
    PROVE  Inv'
<1>1. Types /\ Counted /\ MaxRestarts \in Nat
    BY ClientAssumption DEF Inv, Control
<1>2. CASE coordinator.step = "idle"
    <2>1. Begin(operation)
        BY <1>2 DEF Run
    <2>2. restarts' \in Nat /\ generation + 2 <= 1 + 2 * restarts' /\ restarts' <= MaxRestarts
        BY <1>1, <1>2 DEF Counted, OwedNow, OwedNext
    <2> QED
        BY <1>2, <2>1, <2>2, BeginKeepsInv
<1>3. CASE coordinator.step # "idle"
    <2>1. /\ coordinator' = [coordinator EXCEPT !.pending = operation]
          /\ CoordinatorOnly
        BY <1>3 DEF Run, CoordinatorOnly
    <2>2. /\ coordinator' \in Coordinators /\ coordinator'.step = coordinator.step
          /\ coordinator'.victim = coordinator.victim /\ coordinator'.pending = operation
          /\ coordinator'.rejected = coordinator.rejected
        BY <1>1, <2>1, CoordinatorType DEF Coordinators
    <2>3. operation # None
        BY NoneIsNothing
    <2>4. Counted'
        BY <1>1, <2>1, <2>2 DEF Counted, OwedNow, OwedNext, CoordinatorOnly
    <2>5. CASE coordinator.step = "stopping"
        <3>1. Types' /\ Issued' /\ Owned' /\ Created' /\ Launched'
            BY <2>1, <2>2, <2>5 DEF Inv, Types, Control, Issued, Owned, Created, Launched,
               Installed, CoordinatorOnly, Coordinators
        <3>2. ModesKept'
            <4>1. client = None /\ \A s \in Starters : Stale(s)
                BY <2>5, StartTypes DEF Inv, Control, Issued, Counted, Stale, Generations
            <4> QED
                BY <2>1, <4>1 DEF ModesKept, Stale, CoordinatorOnly
        <3>3. NoClientIsForgotten' /\ ConfirmedByThisClient'
            BY <2>1, <2>2 DEF Inv, Control, NoClientIsForgotten, ConfirmedByThisClient,
               CoordinatorOnly
        <3> QED
            BY <2>4, <3>1, <3>2, <3>3 DEF Inv, Control
    <2>6. CASE coordinator.step \in {"waiting", "starting"}
        <3>1. Superseded' /\ coordinator'.victim = None
            BY <2>2, <2>3, <2>6 DEF Superseded, Inv, Control, Issued
        <3> QED
            BY <2>1, <2>2, <2>4, <2>6, <3>1, CoordinatorKeepsInv
    <2> QED
        BY <1>1, <1>3, <2>5, <2>6, CoordinatorType
<1> QED
    BY <1>2, <1>3
LEMMA RejectKeepsInv ==
    ASSUME Inv, Reject, coordinator.step \in {"waiting", "starting"},
           UNCHANGED <<mode, start, ready, inventory, confirmed, refused, restarts>>
    PROVE  Inv'
<1>1. /\ coordinator' \in Coordinators /\ coordinator'.step = "idle"
      /\ coordinator'.victim = None /\ coordinator'.pending = coordinator.pending
      /\ coordinator'.rejected
    BY CoordinatorType DEF Inv, Reject, Coordinators
<1>2. Counted'
    BY <1>1 DEF Reject, Inv, Control, Counted, OwedNow, OwedNext
<1>3. CoordinatorOnly
    BY DEF Reject, CoordinatorOnly
<1> QED
    BY <1>1, <1>2, <1>3, CoordinatorKeepsInv DEF Inv, Types, Superseded

LEMMA InitialStartupKeepsInv ==
    ASSUME Inv, InitialStartupSettles
    PROVE  Inv'
<1>1. /\ coordinator.step = "waiting" /\ Types /\ Counted
      /\ UNCHANGED <<mode, start, ready, inventory, confirmed, refused, restarts>>
    BY DEF InitialStartupSettles, Inv, Control, counters
<1>2. CASE start["initial"].step = "rejected"
    BY <1>1, <1>2, RejectKeepsInv DEF InitialStartupSettles
<1>3. CASE start["initial"].step # "rejected"
    <2>1. /\ StopHead
          /\ coordinator' = [coordinator EXCEPT !.step = "stopping", !.victim = client]
        BY <1>3 DEF InitialStartupSettles
    <2>2. /\ coordinator' \in Coordinators /\ coordinator'.step = "stopping"
          /\ coordinator'.victim = client /\ coordinator'.pending = coordinator.pending
        BY <1>1, <2>1, CoordinatorType DEF Coordinators
    <2>3. Counted'
        BY <1>1, <2>1, <2>2 DEF Counted, OwedNow, OwedNext, StopHead
    <2> QED
        BY <1>1, <2>1, <2>2, <2>3, StopHeadKeepsInv DEF Types
<1> QED
    BY <1>2, <1>3

LEMMA RestartSettlesKeepsInv ==
    ASSUME Inv, RestartSettles
    PROVE  Inv'
<1>1. /\ coordinator.step = "starting" /\ Types /\ Counted /\ mode \in Modes
      /\ coordinator.victim = None
      /\ UNCHANGED <<mode, start, ready, inventory, confirmed, refused, restarts>>
    BY DEF RestartSettles, Inv, Types, Control, Issued, counters
<1>2. CASE start["restart"].step = "rejected"
    BY <1>1, <1>2, RejectKeepsInv DEF RestartSettles
<1>3. CASE start["restart"].step # "rejected" /\ coordinator.pending # None
    <2>1. Begin(coordinator.pending) /\ coordinator.pending \in Operations
        BY <1>1, <1>3, CoordinatorType DEF RestartSettles
    <2>2. /\ restarts' \in Nat /\ generation + 2 <= 1 + 2 * restarts'
          /\ restarts' <= MaxRestarts
        BY <1>1, <1>3 DEF Counted, OwedNow, OwedNext
    <2> QED
        BY <1>1, <2>1, <2>2, BeginKeepsInv
<1>4. CASE start["restart"].step # "rejected" /\ coordinator.pending = None
    <2>1. coordinator' = [coordinator EXCEPT !.step = "idle"] /\ CoordinatorOnly
        BY <1>4 DEF RestartSettles, CoordinatorOnly
    <2>2. /\ coordinator' \in Coordinators /\ coordinator'.step = "idle"
          /\ coordinator'.victim = None /\ coordinator'.pending = None
          /\ coordinator'.rejected = coordinator.rejected
        BY <1>1, <1>4, <2>1, CoordinatorType DEF Coordinators
    <2>3. Counted'
        BY <1>1, <1>4, <2>1, <2>2 DEF Counted, OwedNow, OwedNext, CoordinatorOnly
    <2>4. Superseded' \/ (mode' = mode /\ ~Superseded)
        BY <1>1, <1>4, <2>2 DEF Superseded
    <2> QED
        BY <1>1, <2>1, <2>2, <2>3, <2>4, CoordinatorKeepsInv
<1> QED
    BY <1>2, <1>3, <1>4

\* The client is stopped, or refuses; the start that follows is the newest.
LEMMA StopSettlesKeepsInv ==
    ASSUME Inv, NEW progress \in BOOLEAN, StopSettles(progress)
    PROVE  Inv'
<1> DEFINE g == coordinator.victim
           new == NewServer("stopped", servers[g].mode)
           next == Started(generation + 1, progress)
<1>1. /\ coordinator.step = "stopping" /\ Types /\ Counted /\ Issued
      /\ client = None /\ g \in Generations \cup {None}
      /\ generation' = generation + 1 /\ generation \in Nat /\ 1 <= generation
      /\ start' = [start EXCEPT !["restart"] = next]
      /\ coordinator' = [coordinator EXCEPT !.step = "starting", !.victim = None]
      /\ UNCHANGED <<mode, client, graph, counters>>
    BY CoordinatorType DEF StopSettles, Inv, Types, Control, Counted, Issued, Coordinators
<1>2. /\ coordinator' \in Coordinators /\ coordinator'.step = "starting"
      /\ coordinator'.victim = None /\ coordinator'.pending = coordinator.pending
    BY <1>1, CoordinatorType DEF Coordinators
<1>3. Counted'
    BY <1>1, <1>2 DEF Counted, OwedNow, OwedNext, counters
<1>4. generation' \in Generations
    BY <1>1, <1>3, ClientAssumption DEF Counted, OwedNow, OwedNext, Generations
<1>5. next \in Starts /\ next.generation = generation' /\ next.step = "path"
    BY <1>1, <1>4 DEF Types, Started, Starts, Steps
<1> HIDE DEF next
<1>6. /\ start' \in [Starters -> Starts]
      /\ start'["initial"] = start["initial"] /\ start'["restart"] = next
    BY <1>1, <1>5 DEF Types, Starters
<1>7. g # None => servers[g] \in Servers /\ servers[g] # None
    BY <1>1, ServerOf DEF Inv, Control, Created
<1>8. g # None => new \in Servers /\ new.life = "stopped"
    <2> SUFFICES ASSUME g # None PROVE new \in Servers /\ new.life = "stopped"
        OBVIOUS
    <2>1. servers[g].mode \in Modes
        BY <1>7 DEF Servers
    <2> QED
        BY <2>1 DEF NewServer, Servers
<1>9. \/ /\ g = None \/ servers[g].life = "starting"
         /\ servers' = servers
         /\ g = None => refused' = refused
         /\ g # None => refused' = refused \cup {g}
      \/ /\ g # None /\ servers[g].life # "starting"
         /\ servers' = [servers EXCEPT ![g] = new]
         /\ refused' = refused
    BY DEF StopSettles
<1> HIDE DEF new
<1>10. /\ servers' \in [Generations -> Servers \cup {None}]
       /\ refused' \subseteq Generations
       /\ \A h \in Generations : servers'[h] = servers[h]
             \/ (h = g /\ servers[g].life # "starting" /\ servers'[h].life = "stopped")
    BY <1>1, <1>8, <1>9 DEF Types
<1>11. Types'
    BY <1>1, <1>2, <1>6, <1>10 DEF Types, graph, Coordinators
<1>12. Issued'
    BY <1>1, <1>2, <1>5, <1>6 DEF Issued
<1>13. Owned' /\ Created' /\ ConfirmedByThisClient'
    BY <1>1, <1>2 DEF Owned, Created, ConfirmedByThisClient
<1>14. Launched'
    <2> SUFFICES ASSUME start["initial"].step = "launching"
                 PROVE  /\ servers'[start["initial"].generation] # None
                        /\ servers'[start["initial"].generation].life = "starting"
        BY <1>5, <1>6 DEF Launched, Starters
    <2>1. /\ servers[start["initial"].generation] # None
          /\ servers[start["initial"].generation].life = "starting"
          /\ start["initial"].generation \in Generations
        BY StartedHasGeneration DEF Inv, Control, Launched, Starters
    <2> QED
        BY <1>10, <2>1
<1>15. ModesKept'
    BY <1>1, <1>5, <1>6 DEF ModesKept, Stale, Issued, Starters
<1>16. NoClientIsForgotten'
    <2> SUFFICES ASSUME NEW h \in Generations, servers'[h] # None,
                        servers'[h].life # "stopped"
                 PROVE  h \in refused'
        BY DEF NoClientIsForgotten
    <2>1. servers'[h] = servers[h]
        BY <1>10
    <2>2. h = g \/ h \in refused
        BY <1>1, <2>1, NoneIsNoGeneration DEF Inv, Control, NoClientIsForgotten
    <2>3. h = g /\ servers[g].life # "starting" => servers'[h] = new
        BY <1>1, <1>9, NoneIsNoGeneration DEF Types
    <2> QED
        BY <1>8, <1>9, <2>2, <2>3, NoneIsNoGeneration
<1> QED
    BY <1>3, <1>11, <1>12, <1>13, <1>14, <1>15, <1>16 DEF Inv, Control

-----------------------------------------------------------------------------
(* The whole of the next-state relation.                                   *)

LEMMA StartsInInv == Init => Inv
<1> SUFFICES ASSUME Init PROVE Inv
    OBVIOUS
<1>1. 1 \in Generations
    BY ClientAssumption DEF Generations
<1>2. Types
    BY <1>1 DEF Init, Types, Starts, Steps, Started, Coordinator, Starters
<1>3. Counted
    BY ClientAssumption DEF Init, Counted, OwedNow, OwedNext, Coordinator
<1>4. /\ start["initial"] = Started(1, TRUE)
      /\ start["restart"] = [step |-> "none", generation |-> 0, mode |-> mode,
                             progress |-> FALSE]
    BY DEF Init, Starters
<1>5. /\ start["initial"].step = "path" /\ start["initial"].generation = 1
      /\ start["restart"].step = "none" /\ start["restart"].generation = 0
    BY <1>4 DEF Started
<1>6. Issued
    <2>1. coordinator.step = "idle" /\ coordinator.victim = None /\ generation = 1
        BY DEF Init, Coordinator
    <2> QED
        BY <1>5, <2>1 DEF Issued
<1>7. Launched /\ ModesKept
    BY <1>5 DEF Init, Launched, ModesKept, Starters
<1>8. Owned /\ Created
    BY DEF Init, Owned, Created, Coordinator
<1>9. NoClientIsForgotten /\ ConfirmedByThisClient
    BY DEF Init, NoClientIsForgotten, ConfirmedByThisClient
<1> QED
    BY <1>2, <1>3, <1>6, <1>7, <1>8, <1>9 DEF Inv, Control

LEMMA NextKeepsInv == Inv /\ [Next]_vars => Inv'
<1> SUFFICES ASSUME Inv, [Next]_vars PROVE Inv'
    OBVIOUS
<1>1. CASE \E s \in Starters : Starting(s)
    BY <1>1, StartingKeepsInv
<1>2. CASE Restarting
    BY <1>2, InitialStartupKeepsInv, StopSettlesKeepsInv, RestartSettlesKeepsInv
       DEF Restarting
<1>3. CASE \E m \in Modes : ChangeMode(m)
    <2>1. Run("now") /\ mode' \in Modes /\ restarts < MaxRestarts /\ restarts' = restarts + 1
        BY <1>3 DEF ChangeMode
    <2>2. UNCHANGED <<start, ready, inventory, confirmed, refused>>
        BY <1>3 DEF ChangeMode
    <2> QED
        BY <2>1, <2>2, RunKeepsInv DEF Operations
<1>4. CASE RequestRestart
    BY <1>4, RunKeepsInv DEF RequestRestart, Operations, Inv, Types
<1>5. CASE RefreshGraph \/ \E answer \in {"yes", "no"} : WorkbenchReadySettles(answer)
    BY <1>5, AskingKeepsInv
<1>6. CASE \E i \in DOMAIN fetches : Fetching(i)
    BY <1>6, FetchingKeepsInv
<1>7. CASE \E g \in Generations : Serving(g) \/ ReceiveProgress(g) \/ ServerCrashes(g)
    BY <1>7, ServingKeepsInv, MessagesKeepInv
<1>8. CASE UNCHANGED vars
    <2>1. Beside /\ Typed
        BY <1>8 DEF vars, session, graph, counters, Beside, Typed, Inv, Types
    <2> QED
        BY <1>8, <2>1, ServersStay, BesideKeepsInv DEF vars, Inv
<1> QED
    BY <1>1, <1>2, <1>3, <1>4, <1>5, <1>6, <1>7, <1>8 DEF Next

LEMMA InvHolds == Spec => []Inv
BY StartsInInv, NextKeepsInv, PTL DEF Spec

(***************************************************************************)
(* Every variable of the client's host and of its servers keeps its type;  *)
(* the start generations stay within two for each restart asked for,       *)
(* however the operations of restartCoordinator.ts are coalesced.          *)
(***************************************************************************)
THEOREM ClientTypeCorrect == Spec => []TypeOK
<1>1. Inv => TypeOK
    BY GenerationInRange DEF Inv, Control, TypeOK
<1> QED
    BY <1>1, InvHolds, PTL

(***************************************************************************)
(* When no start and no restart is under way, the client in use has the    *)
(* mode of the setting unless a rejected restart left it; no client is     *)
(* forgotten; and no confirmation of another client is kept, for any       *)
(* number of overlapping restarts (languageClient.ts, startLanguageClient  *)
(* and restartLanguageClient, with restartCoordinator.ts).                 *)
(***************************************************************************)
THEOREM OneClientIsCurrent == Spec => []OneCurrentClient
<1>1. Inv => SettledClientIsCurrent
    BY DEF Inv, Control, ModesKept, Superseded, SettledClientIsCurrent, Quiet
<1>2. Inv => OneCurrentClient
    BY <1>1 DEF Inv, Control, OneCurrentClient
<1> QED
    BY <1>2, InvHolds, PTL

-----------------------------------------------------------------------------
(* The Workbench integration.                                              *)

\* What bootstrapStartup knows of the approval is still true while it asks,
\* installs or writes the setting: nothing else stores one.
ApprovalIsKnown ==
    startup.step \in {"confirm", "disable", "install", "enable"} => startup.approved = approved

\* The coordinator remembers a setting that was turned off, unless the user has
\* approved the integration before.
OffIsRemembered ==
    setting = "off" /\ ~notified /\ listening /\ ~approved => disableRequested

IntegrationInv == IntegrationTypeOK /\ ApprovalIsKnown /\ OffIsRemembered

\* The setting is turned on by the user alone, once it is known to be off.
KeptOff ==
    setting = "off" /\ ~notified /\ listening /\ setting' = "on" => settings' # settings

LEMMA ResolvedIsPromise ==
    \A promise \in Promises, answer \in {"yes", "no"} : Resolved(promise, answer) \in Promises
BY DEF Resolved, Promises

LEMMA ConfigurationChangedHolds ==
    ASSUME IntegrationInv, ConfigurationChanged, listening' = TRUE, notified' = FALSE
    PROVE  IntegrationInv'
<1>1. /\ IntegrationTypeOK
      /\ UNCHANGED <<setting, approved, promptWhenDisabled, startupResult, requiresRestart,
                     bootstrapFinished, profileWasMissing, retry, external, settings>>
  BY DEF IntegrationInv, ConfigurationChanged
<1>2. enabled' \in BOOLEAN /\ disableRequested' \in BOOLEAN /\ startAgain' \in BOOLEAN
  BY <1>1 DEF ConfigurationChanged, IntegrationTypeOK, Start
<1>3. connected' \in BOOLEAN /\ disconnected' \in BOOLEAN
  BY <1>1 DEF ConfigurationChanged, IntegrationTypeOK, Disconnect
<1>4. /\ bridgeReady' \in Promises /\ consent' \in Promises
      /\ startup' \in Startups
      /\ startup' = startup \/ startup'.step = "status"
  BY <1>1, ResolvedIsPromise
     DEF ConfigurationChanged, IntegrationTypeOK, Start, promises, Startups, StartupSteps, Idle
<1>5. IntegrationTypeOK'
  BY <1>1, <1>2, <1>3, <1>4 DEF IntegrationTypeOK, external
<1>6. ApprovalIsKnown'
  BY <1>1, <1>4 DEF IntegrationInv, ApprovalIsKnown
<1>7. ASSUME setting = "off", ~approved PROVE disableRequested'
  <2>1. ~enabled'
    BY <1>7 DEF ConfigurationChanged
  <2>2. disableRequested' = (disableRequested \/ (setting = "off" /\ ~approved))
    BY <2>1 DEF ConfigurationChanged
  <2> QED
    BY <1>7, <2>2
<1>8. OffIsRemembered'
  BY <1>1, <1>7 DEF OffIsRemembered
<1> QED
  BY <1>5, <1>6, <1>8 DEF IntegrationInv

LEMMA StartsAgainHolds ==
    ASSUME IntegrationInv, StartsAgain
    PROVE  IntegrationInv' /\ KeptOff
<1>1. /\ IntegrationTypeOK /\ startAgain' = FALSE /\ UNCHANGED enabled
      /\ UNCHANGED <<setting, approved, promptWhenDisabled, startupResult, disableRequested,
                     listening, notified, connected, restart, bootstrapFinished,
                     profileWasMissing, retry, external, settings>>
  BY DEF IntegrationInv, StartsAgain
<1>2. /\ bridgeReady' \in Promises /\ consent' \in Promises
      /\ startup' \in Startups
      /\ startup' = startup \/ startup'.step = "status"
  BY <1>1, ResolvedIsPromise
     DEF StartsAgain, IntegrationTypeOK, Start, promises, Startups, StartupSteps, Idle
<1>3. startAgain' \in BOOLEAN
  BY <1>1
<1>4. IntegrationTypeOK'
  BY <1>1, <1>2, <1>3 DEF IntegrationTypeOK, restart, external
<1>5. ApprovalIsKnown'
  BY <1>1, <1>2 DEF IntegrationInv, ApprovalIsKnown
<1>6. OffIsRemembered' /\ KeptOff
  BY <1>1 DEF IntegrationInv, OffIsRemembered, KeptOff
<1> QED
  BY <1>4, <1>5, <1>6 DEF IntegrationInv

\* The end of a startup, and what it concludes with.
LEMMA EndStartupHolds ==
    ASSUME NEW result \in {"yes", "no"}, EndStartup(result)
    PROVE  startup' \in Startups /\ startup'.step = "ended" /\ startupResult' \in {"yes", "no"}
BY DEF EndStartup, Idle, Startups, StartupSteps

LEMMA ConcludeHolds ==
    ASSUME IntegrationTypeOK, NEW s \in Startups, Conclude(s), enabled' \in BOOLEAN
    PROVE  /\ startup' \in Startups /\ startup'.step \in {"ended", "process"}
           /\ startupResult' \in {"none", "yes", "no"}
           /\ bridgeReady' \in Promises
           /\ requiresRestart' \in BOOLEAN /\ disconnected' \in BOOLEAN
           /\ bootstrapFinished' \in BOOLEAN /\ profileWasMissing' \in BOOLEAN
           /\ connected' \in BOOLEAN
<1>1. /\ bootstrapFinished' = TRUE /\ profileWasMissing' = ~s.profile /\ UNCHANGED connected
  BY DEF Conclude
<1>2. CASE s.changed /\ ~enabled'
  <2>1. EndStartup("no") /\ UNCHANGED <<bridgeReady, restart>>
    BY <1>2 DEF Conclude
  <2> QED
    BY <1>1, <2>1, EndStartupHolds DEF IntegrationTypeOK, restart
<1>3. CASE s.changed /\ enabled'
  <2>1. /\ startup' = [s EXCEPT !.step = "process"]
        /\ requiresRestart' = TRUE /\ disconnected' = FALSE
        /\ UNCHANGED <<bridgeReady, startupResult>>
    BY <1>3 DEF Conclude
  <2>2. startup' \in Startups /\ startup'.step = "process"
    BY <2>1 DEF Startups, StartupSteps
  <2> QED
    BY <1>1, <2>1, <2>2 DEF IntegrationTypeOK
<1>4. CASE ~s.changed
  <2>1. /\ EndStartup("yes") /\ UNCHANGED restart
        /\ bridgeReady' = Resolved(bridgeReady, "yes") \/ bridgeReady' = bridgeReady
    BY <1>4 DEF Conclude, FinishIfReady, Startups
  <2>2. bridgeReady' \in Promises
    BY <2>1, ResolvedIsPromise DEF IntegrationTypeOK
  <2> QED
    BY <1>1, <2>1, <2>2, EndStartupHolds DEF IntegrationTypeOK, restart
<1>5. s.changed \in BOOLEAN
  BY DEF Startups
<1> QED
  BY <1>2, <1>3, <1>4, <1>5

LEMMA GiveUpHolds ==
    ASSUME IntegrationTypeOK, GiveUp
    PROVE  /\ startup' \in Startups /\ startup'.step = "ended"
           /\ startupResult' \in {"yes", "no"} /\ bridgeReady' \in Promises
           /\ bootstrapFinished' = TRUE
           /\ UNCHANGED <<requiresRestart, disconnected, profileWasMissing, connected>>
BY EndStartupHolds, ResolvedIsPromise DEF GiveUp, IntegrationTypeOK, restart

LEMMA StatusAnswersHolds ==
    ASSUME IntegrationInv, NEW ok \in BOOLEAN, NEW complete \in BOOLEAN,
           StatusAnswers(ok, complete)
    PROVE  IntegrationInv' /\ KeptOff
<1> DEFINE s == [startup EXCEPT !.approved = approved, !.running = ok /\ workbench,
                                !.profile = profile]
<1>1. /\ IntegrationTypeOK /\ UNCHANGED enabled
      /\ UNCHANGED <<setting, approved, promptWhenDisabled, consent, startAgain,
                     disableRequested, listening, notified, retry, external, settings>>
  BY DEF IntegrationInv, StatusAnswers
<1>2. s \in Startups /\ s.approved = approved
  BY <1>1 DEF IntegrationTypeOK, Startups
<1>3. ASSUME NEW step \in {"confirm", "install"}, startup' = [s EXCEPT !.step = step],
             UNCHANGED <<bridgeReady, startupResult, restart, bootstrapFinished,
                         profileWasMissing, connected>>
      PROVE  IntegrationInv'
  <2>1. startup' \in Startups /\ startup'.approved = approved
    BY <1>2, <1>3 DEF Startups, StartupSteps
  <2> QED
    BY <1>1, <1>3, <2>1 DEF IntegrationInv, IntegrationTypeOK, ApprovalIsKnown, OffIsRemembered,
       restart, external
<1>4. ASSUME EndStartup("no"),
             UNCHANGED <<bridgeReady, restart, bootstrapFinished, profileWasMissing, connected>>
      PROVE  IntegrationInv'
  <2>1. startup' \in Startups /\ startup'.step = "ended" /\ startupResult' \in {"yes", "no"}
    BY <1>4, EndStartupHolds
  <2> QED
    BY <1>1, <1>4, <2>1 DEF IntegrationInv, IntegrationTypeOK, ApprovalIsKnown, OffIsRemembered,
       restart, external
<1>5. ASSUME Conclude(s) PROVE IntegrationInv'
  <2> HIDE DEF s
  <2>1. /\ startup' \in Startups /\ startup'.step \in {"ended", "process"}
        /\ startupResult' \in {"none", "yes", "no"}
        /\ bridgeReady' \in Promises
        /\ requiresRestart' \in BOOLEAN /\ disconnected' \in BOOLEAN
        /\ bootstrapFinished' \in BOOLEAN /\ profileWasMissing' \in BOOLEAN
        /\ connected' \in BOOLEAN
    BY <1>1, <1>2, <1>5, ConcludeHolds DEF IntegrationTypeOK
  <2> QED
    BY <1>1, <2>1 DEF IntegrationInv, IntegrationTypeOK, ApprovalIsKnown, OffIsRemembered, external
<1>6. approved \in BOOLEAN /\ enabled \in BOOLEAN
  BY <1>1 DEF IntegrationTypeOK
<1>7. IntegrationInv'
  <2>1. CASE ~approved
    BY <1>3, <2>1 DEF StatusAnswers
  <2>2. CASE approved /\ ~complete
    BY <1>3, <2>2 DEF StatusAnswers
  <2>3. CASE approved /\ complete /\ ~enabled
    BY <1>4, <2>3 DEF StatusAnswers
  <2>4. CASE approved /\ complete /\ enabled
    BY <1>5, <2>4 DEF StatusAnswers
  <2> QED
    BY <2>1, <2>2, <2>3, <2>4
<1> QED
  BY <1>1, <1>7 DEF KeptOff

LEMMA UserAnswersHolds ==
    ASSUME IntegrationInv, NEW yes \in BOOLEAN, UserAnswers(yes)
    PROVE  IntegrationInv' /\ KeptOff
<1>1. /\ IntegrationTypeOK /\ startup.step = "confirm"
      /\ startup' = [startup EXCEPT !.step = IF yes THEN "install" ELSE "disable"]
      /\ consent' = IF yes THEN Resolved(consent, "yes") ELSE consent
      /\ setting' = IF yes THEN setting ELSE "off"
      /\ notified' = (notified \/ ~yes)
      /\ UNCHANGED <<approved, enabled, promptWhenDisabled, bridgeReady, startupResult, startAgain,
                     disableRequested, listening, connected, restart, bootstrapFinished,
                     profileWasMissing, retry, external, settings>>
  BY DEF IntegrationInv, UserAnswers
<1>2. startup' \in Startups /\ startup'.approved = startup.approved
  BY <1>1 DEF IntegrationTypeOK, Startups, StartupSteps
<1>3. consent' \in Promises
  BY <1>1, ResolvedIsPromise DEF IntegrationTypeOK
<1> QED
  BY <1>1, <1>2, <1>3 DEF IntegrationInv, IntegrationTypeOK, ApprovalIsKnown, OffIsRemembered,
     KeptOff, restart, external

\* A startup that is declined, fails or throws.
LEMMA GivingUpHolds ==
    ASSUME IntegrationInv, GiveUp, consent' \in Promises,
           UNCHANGED <<setting, approved, enabled, promptWhenDisabled, startAgain,
                       disableRequested, listening, notified, retry, external, settings>>
    PROVE  IntegrationInv' /\ KeptOff
<1>1. /\ startup' \in Startups /\ startup'.step = "ended"
      /\ startupResult' \in {"yes", "no"} /\ bridgeReady' \in Promises
      /\ bootstrapFinished' = TRUE
      /\ UNCHANGED <<requiresRestart, disconnected, profileWasMissing, connected>>
  BY GiveUpHolds DEF IntegrationInv
<1> QED
  BY <1>1 DEF IntegrationInv, IntegrationTypeOK, ApprovalIsKnown, OffIsRemembered, KeptOff, external

LEMMA InstallSettlesHolds ==
    ASSUME IntegrationInv, NEW ok \in BOOLEAN, NEW changed \in BOOLEAN,
           InstallSettles(ok, changed)
    PROVE  IntegrationInv' /\ KeptOff
<1> DEFINE s == [startup EXCEPT !.changed = changed, !.profile = profile]
<1>1. /\ IntegrationTypeOK /\ UNCHANGED enabled /\ startup.step = "install"
      /\ UNCHANGED <<approved, promptWhenDisabled, consent, startAgain, disableRequested,
                     listening, retry, external, settings>>
  BY DEF IntegrationInv, InstallSettles
<1>2. s \in Startups /\ s.approved = approved /\ startup.approved = approved
  BY <1>1 DEF IntegrationInv, IntegrationTypeOK, ApprovalIsKnown, Startups
<1>3. approved \in BOOLEAN /\ enabled \in BOOLEAN /\ disableRequested \in BOOLEAN
  BY <1>1 DEF IntegrationTypeOK
<1>4. CASE approved /\ ~enabled
  <2>1. /\ EndStartup("no")
        /\ UNCHANGED <<bridgeReady, restart, bootstrapFinished, profileWasMissing, connected,
                       setting, notified>>
    BY <1>2, <1>4 DEF InstallSettles
  <2>2. startup' \in Startups /\ startup'.step = "ended" /\ startupResult' \in {"yes", "no"}
    BY <2>1, EndStartupHolds
  <2> QED
    BY <1>1, <2>1, <2>2 DEF IntegrationInv, IntegrationTypeOK, ApprovalIsKnown, OffIsRemembered,
       KeptOff, restart, external
<1>5. CASE ~(approved /\ ~enabled) /\ (~ok \/ (~approved /\ disableRequested))
  <2>1. GiveUp /\ UNCHANGED <<setting, notified>>
    BY <1>2, <1>5 DEF InstallSettles
  <2>2. consent' \in Promises
    BY <1>1 DEF IntegrationTypeOK
  <2> QED
    BY <1>1, <2>1, <2>2, GivingUpHolds
<1>6. CASE ok /\ ~approved /\ ~disableRequested
  <2>1. /\ startup' = [s EXCEPT !.step = "enable"]
        /\ setting' = "on" /\ notified' = (notified \/ setting # "on")
        /\ UNCHANGED <<bridgeReady, startupResult, restart, bootstrapFinished,
                       profileWasMissing, connected>>
    BY <1>2, <1>6 DEF InstallSettles
  <2>2. startup' \in Startups /\ startup'.approved = approved
    BY <1>2, <2>1 DEF Startups, StartupSteps
  <2>3. IntegrationInv'
    BY <1>1, <2>1, <2>2 DEF IntegrationInv, IntegrationTypeOK, ApprovalIsKnown, OffIsRemembered,
       restart, external
  <2>4. KeptOff
    BY <1>6 DEF IntegrationInv, OffIsRemembered, KeptOff
  <2> QED
    BY <2>3, <2>4
<1>7. CASE ok /\ approved /\ enabled
  <2>1. Conclude(s) /\ UNCHANGED <<setting, notified>>
    BY <1>2, <1>7 DEF InstallSettles
  <2> HIDE DEF s
  <2>2. /\ startup' \in Startups /\ startup'.step \in {"ended", "process"}
        /\ startupResult' \in {"none", "yes", "no"}
        /\ bridgeReady' \in Promises
        /\ requiresRestart' \in BOOLEAN /\ disconnected' \in BOOLEAN
        /\ bootstrapFinished' \in BOOLEAN /\ profileWasMissing' \in BOOLEAN
        /\ connected' \in BOOLEAN
    BY <1>1, <1>2, <1>3, <2>1, ConcludeHolds
  <2> QED
    BY <1>1, <2>1, <2>2 DEF IntegrationInv, IntegrationTypeOK, ApprovalIsKnown, OffIsRemembered,
       KeptOff, external
<1> QED
  BY <1>3, <1>4, <1>5, <1>6, <1>7

LEMMA EnableSettlesHolds ==
    ASSUME IntegrationInv, EnableSettles
    PROVE  IntegrationInv' /\ KeptOff
<1>1. /\ IntegrationTypeOK /\ enabled' = TRUE /\ approved' = TRUE /\ Conclude(startup)
      /\ UNCHANGED <<setting, promptWhenDisabled, consent, startAgain, disableRequested,
                     listening, notified, retry, external, settings>>
  BY DEF IntegrationInv, EnableSettles
<1>2. /\ startup' \in Startups /\ startup'.step \in {"ended", "process"}
      /\ startupResult' \in {"none", "yes", "no"}
      /\ bridgeReady' \in Promises
      /\ requiresRestart' \in BOOLEAN /\ disconnected' \in BOOLEAN
      /\ bootstrapFinished' \in BOOLEAN /\ profileWasMissing' \in BOOLEAN
      /\ connected' \in BOOLEAN
  <2>1. startup \in Startups /\ enabled' \in BOOLEAN
    BY <1>1 DEF IntegrationTypeOK
  <2> QED
    BY <1>1, <2>1, ConcludeHolds
<1> QED
  BY <1>1, <1>2 DEF IntegrationInv, IntegrationTypeOK, ApprovalIsKnown, OffIsRemembered, KeptOff,
     external

LEMMA StartupProcessAnswersHolds ==
    ASSUME IntegrationInv, NEW ok \in BOOLEAN, StartupProcessAnswers(ok)
    PROVE  IntegrationInv' /\ KeptOff
<1>1. /\ IntegrationTypeOK /\ ProcessAnswered(ok) /\ EndStartup("yes")
      /\ UNCHANGED <<setting, approved, enabled, promptWhenDisabled, consent, startAgain,
                     disableRequested, listening, notified, connected, disconnected,
                     bootstrapFinished, profileWasMissing, retry, external, settings>>
  BY DEF IntegrationInv, StartupProcessAnswers
<1>2. startup' \in Startups /\ startup'.step = "ended" /\ startupResult' \in {"yes", "no"}
  BY <1>1, EndStartupHolds
<1>3. requiresRestart' \in BOOLEAN /\ bridgeReady' \in Promises
  BY <1>1, ResolvedIsPromise DEF ProcessAnswered, IntegrationTypeOK
<1> QED
  BY <1>1, <1>2, <1>3 DEF IntegrationInv, IntegrationTypeOK, ApprovalIsKnown, OffIsRemembered,
     KeptOff, external

\* Connections and retries touch neither the setting nor the startup.
LEMMA ConnectionHolds ==
    ASSUME IntegrationInv,
           UNCHANGED <<setting, approved, enabled, promptWhenDisabled, consent, startup,
                       startupResult, startAgain, disableRequested, listening, notified,
                       external, settings>>,
           bridgeReady' = bridgeReady
              \/ \E answer \in {"yes", "no"} : bridgeReady' = Resolved(bridgeReady, answer),
           retry' \in {"none", "install", "process"}, connected' \in BOOLEAN,
           requiresRestart' \in BOOLEAN, disconnected' \in BOOLEAN,
           bootstrapFinished' \in BOOLEAN, profileWasMissing' \in BOOLEAN
    PROVE  IntegrationInv' /\ KeptOff
<1>1. bridgeReady' \in Promises
  BY ResolvedIsPromise DEF IntegrationInv, IntegrationTypeOK
<1> QED
  BY <1>1 DEF IntegrationInv, IntegrationTypeOK, ApprovalIsKnown, OffIsRemembered, KeptOff, external

LEMMA WorkbenchConnectsHolds ==
    ASSUME IntegrationInv, WorkbenchConnects
    PROVE  IntegrationInv' /\ KeptOff
<1>1. retry' \in {"none", "install", "process"}
  BY DEF WorkbenchConnects, IntegrationInv, IntegrationTypeOK
<1>2. bridgeReady' = bridgeReady
         \/ \E answer \in {"yes", "no"} : bridgeReady' = Resolved(bridgeReady, answer)
  BY DEF WorkbenchConnects, FinishIfReady
<1>3. /\ connected' \in BOOLEAN /\ requiresRestart' \in BOOLEAN /\ disconnected' \in BOOLEAN
      /\ bootstrapFinished' \in BOOLEAN /\ profileWasMissing' \in BOOLEAN
  BY DEF WorkbenchConnects, IntegrationInv, IntegrationTypeOK, restart
<1> QED
  BY <1>1, <1>2, <1>3, ConnectionHolds DEF WorkbenchConnects

LEMMA WorkbenchDisconnectsHolds ==
    ASSUME IntegrationInv, WorkbenchDisconnects
    PROVE  IntegrationInv' /\ KeptOff
<1>1. /\ connected' \in BOOLEAN /\ requiresRestart' \in BOOLEAN /\ disconnected' \in BOOLEAN
      /\ bootstrapFinished' \in BOOLEAN /\ profileWasMissing' \in BOOLEAN
      /\ retry' \in {"none", "install", "process"} /\ bridgeReady' = bridgeReady
  BY DEF WorkbenchDisconnects, Disconnect, IntegrationInv, IntegrationTypeOK, promises
<1> QED
  BY <1>1, ConnectionHolds DEF WorkbenchDisconnects, promises

LEMMA RetrySettlesHolds ==
    ASSUME IntegrationInv, NEW ok \in BOOLEAN, NEW changed \in BOOLEAN, RetrySettles(ok, changed)
    PROVE  IntegrationInv' /\ KeptOff
<1>1. /\ connected' \in BOOLEAN /\ requiresRestart' \in BOOLEAN /\ disconnected' \in BOOLEAN
      /\ bootstrapFinished' \in BOOLEAN /\ profileWasMissing' \in BOOLEAN
      /\ retry' \in {"none", "install", "process"}
  BY DEF RetrySettles, IntegrationInv, IntegrationTypeOK, restart
<1>2. bridgeReady' = bridgeReady
         \/ \E answer \in {"yes", "no"} : bridgeReady' = Resolved(bridgeReady, answer)
  BY DEF RetrySettles, FinishIfReady
<1> QED
  BY <1>1, <1>2, ConnectionHolds DEF RetrySettles

LEMMA RetryProcessAnswersHolds ==
    ASSUME IntegrationInv, NEW ok \in BOOLEAN, RetryProcessAnswers(ok)
    PROVE  IntegrationInv' /\ KeptOff
<1>1. /\ connected' \in BOOLEAN /\ requiresRestart' \in BOOLEAN /\ disconnected' \in BOOLEAN
      /\ bootstrapFinished' \in BOOLEAN /\ profileWasMissing' \in BOOLEAN
      /\ retry' \in {"none", "install", "process"}
  BY DEF RetryProcessAnswers, IntegrationInv, IntegrationTypeOK
<1>2. bridgeReady' = bridgeReady
         \/ \E answer \in {"yes", "no"} : bridgeReady' = Resolved(bridgeReady, answer)
  BY DEF RetryProcessAnswers, FinishIfReady
<1> QED
  BY <1>1, <1>2, ConnectionHolds DEF RetryProcessAnswers

LEMMA UserHolds ==
    ASSUME IntegrationInv, User
    PROVE  IntegrationInv' /\ KeptOff
<1>1. CASE ToggleWorkbench
  <2>1. outages' \in 0 .. MaxWorkbench
    BY <1>1, SettingsAreBounded DEF ToggleWorkbench, IntegrationInv, IntegrationTypeOK
  <2> QED
    BY <1>1, <2>1 DEF ToggleWorkbench, IntegrationInv, IntegrationTypeOK, ApprovalIsKnown,
       OffIsRemembered, KeptOff, restart, promises
<1>2. ASSUME NEW value \in {"on", "off"}, ChangeSetting(value)
      PROVE  IntegrationInv' /\ KeptOff
  <2>1. settings' \in 0 .. MaxSettings /\ settings' # settings
    BY <1>2, SettingsAreBounded DEF ChangeSetting, IntegrationInv, IntegrationTypeOK
  <2> QED
    BY <1>2, <2>1 DEF ChangeSetting, IntegrationInv, IntegrationTypeOK, ApprovalIsKnown,
       OffIsRemembered, KeptOff, restart, promises, external
<1> QED
  BY <1>1, <1>2 DEF User

LEMMA IntegrationStarts == IntegrationInit => IntegrationInv
<1> SUFFICES ASSUME IntegrationInit PROVE IntegrationInv
  OBVIOUS
<1>1. startup \in Startups /\ startup.step \in {"none", "status"}
  BY DEF IntegrationInit, Idle, Startups, StartupSteps
<1>2. bridgeReady \in Promises /\ consent \in Promises
  BY DEF IntegrationInit, Promises
<1>3. enabled \in BOOLEAN /\ promptWhenDisabled \in BOOLEAN
  BY DEF IntegrationInit
<1>4. settings \in 0 .. MaxSettings /\ outages \in 0 .. MaxWorkbench
  BY SettingsAreBounded DEF IntegrationInit
<1>5. IntegrationTypeOK
  BY <1>1, <1>2, <1>3, <1>4 DEF IntegrationInit, IntegrationTypeOK
<1>6. ApprovalIsKnown
  BY <1>1 DEF ApprovalIsKnown
<1>7. OffIsRemembered
  BY DEF IntegrationInit, OffIsRemembered
<1> QED
  BY <1>5, <1>6, <1>7 DEF IntegrationInv

LEMMA IntegrationGoesOn ==
    IntegrationInv /\ [IntegrationNext]_integrationVars =>
        IntegrationInv' /\ (KeptOff \/ UNCHANGED integrationVars)
<1> SUFFICES ASSUME IntegrationInv, [IntegrationNext]_integrationVars
             PROVE  IntegrationInv' /\ (KeptOff \/ UNCHANGED integrationVars)
  OBVIOUS
<1>1. CASE UNCHANGED integrationVars
  BY <1>1 DEF integrationVars, promises, restart, external, IntegrationInv, IntegrationTypeOK,
     ApprovalIsKnown, OffIsRemembered
<1>2. CASE Events
  <2>1. CASE CompilerStarts
    BY <2>1, ConfigurationChangedHolds DEF CompilerStarts, ConfigurationChanged, KeptOff
  <2>2. CASE ConfigurationEvent
    <3>1. listening' = TRUE /\ notified' = FALSE
      BY <2>2 DEF ConfigurationEvent, IntegrationInv, IntegrationTypeOK
    <3> QED
      BY <2>2, <3>1, ConfigurationChangedHolds DEF ConfigurationEvent, ConfigurationChanged, KeptOff
  <2> QED
    BY <1>2, <2>1, <2>2, StartsAgainHolds DEF Events
<1>3. CASE DeclineSettles \/ StartupThrows
  <2>1. consent' \in Promises
    BY <1>3, ResolvedIsPromise DEF DeclineSettles, StartupThrows, IntegrationInv, IntegrationTypeOK
  <2> QED
    BY <1>3, <2>1, GivingUpHolds DEF DeclineSettles, StartupThrows
<1>4. CASE Bootstrap /\ ~DeclineSettles /\ ~StartupThrows
  BY <1>4, StatusAnswersHolds, UserAnswersHolds, InstallSettlesHolds, EnableSettlesHolds,
     StartupProcessAnswersHolds DEF Bootstrap
<1>5. CASE Retrying
  BY <1>5, RetrySettlesHolds, RetryProcessAnswersHolds DEF Retrying
<1> QED
  BY <1>1, <1>2, <1>3, <1>4, <1>5, UserHolds, WorkbenchConnectsHolds, WorkbenchDisconnectsHolds
     DEF IntegrationNext, Bootstrap

(***************************************************************************)
(* The types of the coordinator, of its promises and of its environment.   *)
(***************************************************************************)
THEOREM IntegrationTypeCorrect == IntegrationSpec => []IntegrationTypeOK
<1>1. IntegrationInv => IntegrationTypeOK
  BY DEF IntegrationInv
<1>2. IntegrationInv /\ [IntegrationNext]_integrationVars => IntegrationInv'
  BY IntegrationGoesOn
<1> QED
  BY <1>1, <1>2, IntegrationStarts, PTL DEF IntegrationSpec

(***************************************************************************)
(* However often the user changes the setting and whatever is installed,   *)
(* declined or rejected meanwhile: the coordinator (bootstrapStartup) does *)
(* not turn on a setting it knows the user has turned off.                 *)
(***************************************************************************)
THEOREM TurnedOffStaysOff == IntegrationSpec => DisabledStaysOff
<1>1. IntegrationInv /\ [IntegrationNext]_integrationVars => IntegrationInv'
  BY IntegrationGoesOn
<1>2. IntegrationInv /\ [IntegrationNext]_integrationVars =>
         [setting = "off" /\ ~notified /\ listening /\ setting' = "on"
             => settings' # settings]_integrationVars
  BY IntegrationGoesOn DEF KeptOff
<1> QED
  BY <1>1, <1>2, IntegrationStarts, PTL DEF IntegrationSpec, DisabledStaysOff
=============================================================================
