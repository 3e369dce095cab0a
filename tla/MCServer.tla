------------------------------ MODULE MCServer ------------------------------
(***************************************************************************)
(* Seven parts of the server that share no state, one per behaviour: the   *)
(* event channel, the parser, the add-on caches (of one add-on and two     *)
(* processes, or of two add-ons and one process), the symbol index, the    *)
(* control of Workbench processes, the bridge package and the editing      *)
(* tools.  The parts at rest stay in their initial states, and each        *)
(* property is about the part that moves.                                  *)
(***************************************************************************)
EXTENDS EventChannel, AddonCache, WorkbenchControl, WorkbenchEdits, WorkbenchBridge

CONSTANTS a2, p1, p2

VARIABLES
    part,
    layers, sources, tokens, parsed, before

Sample == INSTANCE SymbolFiles

Index == INSTANCE SymbolIndex WITH
    Contributions <- Sample!Files, MaxFiles <- 3, MaxLayers <- 3, MaxGroup <- 2

Texts == INSTANCE SourceTexts

\* A limit of seven nested calls instead of 128.
Syntax == INSTANCE Parser WITH
    Sources <- Texts!Sources, WellFormed <- Texts!WellFormed, Broken <- Texts!Broken,
    Limit <- 7

\* The second version of the bridge drops a file.
Packages == <<{"state", "search"}, {"search"}>>

indexVars == <<layers, sources>>
syntaxVars == <<tokens, parsed, before>>

ServerInit ==
    /\ part \in {"channel", "syntax", "shared", "several", "index", "control", "bridge", "edits"}
    /\ ChannelInit /\ CacheInit /\ Index!Init /\ Init
    \* The processes are interchangeable.
    /\ BridgeInit /\ release[p1] <= release[p2]
    /\ part # "bridge" =>
          /\ bridge = NoPackage /\ legacy = NoPackage
          /\ release[p1] = 1 /\ release[p2] = 1
    /\ EditsInit
    /\ part # "edits" => target = "entity"
    /\ IF part = "syntax" THEN Syntax!Init
       ELSE tokens = <<"eof">> /\ parsed = Syntax!Fresh /\ before = <<>>

\* The caches of one add-on, shared by both processes and edited.
Shared ==
    /\ CacheNext
    /\ loads' <= 2 /\ source'[a2] = source[a2]
    /\ \A p \in Processes : a2 \notin process'[p].graph

\* The caches of several add-ons, used by one process and not edited.
Several ==
    /\ CacheNext
    /\ edits' = edits
    /\ \A p \in Processes \ {p1} : process'[p] = process[p]

ServerNext ==
    /\ UNCHANGED part
    /\ \/ part = "channel" /\ ChannelNext
          /\ UNCHANGED <<syntaxVars, cacheVars, indexVars, bridgeVars, editVars, vars>>
       \/ part = "syntax" /\ Syntax!Next
          /\ UNCHANGED <<channelVars, cacheVars, indexVars, bridgeVars, editVars, vars>>
       \/ part = "shared" /\ Shared
          /\ UNCHANGED <<channelVars, syntaxVars, indexVars, bridgeVars, editVars, vars>>
       \/ part = "several" /\ Several
          /\ UNCHANGED <<channelVars, syntaxVars, indexVars, bridgeVars, editVars, vars>>
       \/ part = "index" /\ Index!Next
          /\ UNCHANGED <<channelVars, syntaxVars, cacheVars, bridgeVars, editVars, vars>>
       \/ part = "control" /\ Next
          /\ UNCHANGED <<channelVars, syntaxVars, cacheVars, indexVars, bridgeVars, editVars>>
       \/ part = "bridge" /\ BridgeNext
          /\ UNCHANGED <<channelVars, syntaxVars, cacheVars, indexVars, editVars, vars>>
       \/ part = "edits" /\ EditsNext
          /\ UNCHANGED <<channelVars, syntaxVars, cacheVars, indexVars, bridgeVars, vars>>

\* The fairness of EventChannel and WorkbenchControl, where they move.
ServerFairness ==
    /\ WF_channelVars(part = "channel" /\ LoopStep)
    /\ WF_channelVars(part = "channel" /\ ReaderSends)
    /\ WF_channelVars(part = "channel" /\ BackgroundSends)
    /\ \A c \in Calls : WF_vars(part = "control" /\ Step(c))

ServerSpec ==
    /\ ServerInit
    /\ [][ServerNext]_<<part, channelVars, syntaxVars, cacheVars, indexVars, bridgeVars,
                        editVars, vars>>
    /\ ServerFairness

-----------------------------------------------------------------------------
(* The other properties are those of the parts' modules, which explain     *)
(* them.                                                                   *)

\* The type of every variable of the part that moves.
PartsTypeOK ==
    CASE part = "channel" -> ChannelTypeOK
      [] part \in {"shared", "several"} -> CacheTypeOK
      [] part = "index" -> Index!TypeOK
      [] part = "control" -> TypeOK
      [] part = "syntax" -> Syntax!TypeOK
      [] part = "bridge" -> BridgeTypeOK
      [] part = "edits" -> EditsTypeOK

\* The tree of a text keeps every token and recognises what is well formed,
\* after errors as well and however the text is laid out.
SourceIsKept == part = "syntax" => Syntax!SourceIsKept

\* Layered, cached or built at once, an index answers the same; and completion
\* loses nothing and puts a class's own members first.
IndexAnswers == part = "index" => Index!LayersAgree /\ Index!MembersAreOffered

\* Whatever the server is asked for comes to an end: the loop handles every
\* message (or ends, or has wedged itself), and every call for a process is
\* answered.
RequestsEnd == MessagesAreHandled /\ CallsEnd
=============================================================================
