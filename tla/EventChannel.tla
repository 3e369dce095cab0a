---------------------------- MODULE EventChannel ----------------------------
(***************************************************************************)
(* The one bounded channel in front of the language server's main loop:    *)
(* run_stdio and handle_message (lsp/mod.rs), run_message_channels         *)
(* (lsp/incoming_scheduler.rs) and ServerEventSender (lsp/runtime_         *)
(* scheduler.rs).  The reader of stdin and the background threads block    *)
(* when it is full; the main loop is its only consumer, collapses runs of  *)
(* didChange of one document, and, when Workbench's graph arrives, is a    *)
(* producer too.  A text is the number of the message that carried it.     *)
(* After EOF or an unreadable message the reader ends.                     *)
(***************************************************************************)
EXTENDS Naturals, Sequences

CONSTANTS
    Uris, Nothing,
    Capacity,           \* INCOMING_EVENT_QUEUE_CAPACITY
    MaxSent,            \* bound on the messages of the client
    Background          \* events startup's thread sends

ASSUME ChannelIsBounded == Capacity \in Nat \ {0} /\ MaxSent \in Nat /\ Background \in Nat

VARIABLES
    client,             \* the client's documents: version (0: closed) and text
    sent,               \* messages of the client so far
    reader,             \* [holds, ended]: the message the reader is sending
    channel,
    threads,            \* background events waiting for room in the channel
    deferred,           \* deferred_events of the main loop
    loop,               \* [phase, selected, count]
    documents,          \* the server's documents: version and text
    answer,             \* the last request: the text it was about, the text it saw
    initialized, held,  \* client_initialized, pending_external_index_progress
    shutdown            \* shutdown_requested

session == <<initialized, held, shutdown>>
channelVars == <<client, sent, reader, channel, threads, deferred, loop, documents, answer,
                 initialized, held, shutdown>>

Documents == [version : Nat, text : Nat]
Events == [kind : {"open", "change", "close", "request", "initialized", "graph", "shutdown",
                   "exit", "closed", "bad", "progress"},
           uri : Uris \union {Nothing}, version : Nat, text : Nat]

ASSUME NothingIsNoEvent == Nothing \notin Events

Closed == [version |-> 0, text |-> 0]
Waiting == [phase |-> "waiting", selected |-> Nothing, count |-> 0]
Stopped == [Waiting EXCEPT !.phase = "stopped"]
Message(kind, uri, version, text) ==
    [kind |-> kind, uri |-> uri, version |-> version, text |-> text]
Signal(kind) == Message(kind, Nothing, 0, 0)

HasRoom == Len(channel) < Capacity
SendEvent(event) == HasRoom /\ channel' = Append(channel, event)

----------------------------------------------------------------------------
(* The client and the reader thread.                                       *)

\* The messages a client may write next; it opens a document before using it.
DocumentMessages(uri) ==
    LET document == client[uri] IN
    IF document = Closed
    THEN {Message("open", uri, 1, sent + 1)}
    ELSE {Message("change", uri, document.version + 1, sent + 1),
          Message("close", uri, 0, 0),
          Message("request", uri, document.version, document.text)}
Signals == {Signal(kind) : kind \in {"initialized", "graph", "shutdown", "exit"}}

ClientMessages == (UNION {DocumentMessages(uri) : uri \in Uris}) \union Signals

ReaderReads ==
    /\ reader = [holds |-> Nothing, ended |-> FALSE]
    /\ sent < MaxSent
    /\ \E message \in ClientMessages :
          /\ reader' = [reader EXCEPT !.holds = message]
          /\ client' = IF message.kind \in {"open", "change", "close"}
                       THEN [client EXCEPT ![message.uri] =
                               [version |-> message.version, text |-> message.text]]
                       ELSE client
    /\ sent' = sent + 1
    /\ UNCHANGED <<channel, threads, deferred, loop, documents, answer, session>>

ReaderEnds ==
    /\ reader = [holds |-> Nothing, ended |-> FALSE]
    /\ \E last \in {Signal("closed"), Signal("bad")} :
          reader' = [holds |-> last, ended |-> TRUE]
    /\ UNCHANGED <<client, sent, channel, threads, deferred, loop, documents, answer, session>>

\* A send fails once the receiver is gone; the reader then ends.
ReaderSends ==
    /\ reader.holds # Nothing
    /\ IF loop.phase = "stopped"
       THEN reader' = [holds |-> Nothing, ended |-> TRUE] /\ UNCHANGED channel
       ELSE reader' = [reader EXCEPT !.holds = Nothing] /\ SendEvent(reader.holds)
    /\ UNCHANGED <<client, sent, threads, deferred, loop, documents, answer, session>>

BackgroundSends ==
    /\ threads > 0
    /\ IF loop.phase = "stopped" THEN UNCHANGED channel ELSE SendEvent(Signal("progress"))
    /\ threads' = threads - 1
    /\ UNCHANGED <<client, sent, reader, deferred, loop, documents, answer, session>>

----------------------------------------------------------------------------
(* The main loop.                                                          *)

Coalescible(event) == event.kind = "change"

\* change_document drops a change that is not newer or not of an open document.
Changed(current, message) ==
    IF current = Closed \/ message.version <= current.version THEN current
    ELSE [version |-> message.version, text |-> message.text]

Writes(event) ==
    \/ event.kind = "request"
    \/ event.kind = "progress" /\ initialized
    \/ event.kind = "initialized" /\ held

\* The documents once the loop has handled an event.
Updated(texts, event) ==
    CASE event.kind = "change" -> [texts EXCEPT ![event.uri] = Changed(@, event)]
      [] event.kind \in {"open", "close"} ->
           [texts EXCEPT ![event.uri] = [version |-> event.version, text |-> event.text]]
      [] OTHER -> texts

ApplyEvent(event) ==
    /\ documents' = Updated(documents, event)
    /\ answer' = IF event.kind = "request" /\ ~shutdown
                 THEN [asked |-> event.text, seen |-> documents[event.uri].text]
                 ELSE answer
    /\ initialized' = (initialized \/ (event.kind = "initialized" /\ ~shutdown))
    /\ held' = (~initialized' /\ (held \/ event.kind = "progress"))
    /\ shutdown' = (shutdown \/ event.kind = "shutdown")

\* What ends the loop: EOF, an unreadable message, exit (before a shutdown it
\* is an error), or an answer that cannot be written.
EndsLoop(event) == event.kind \in {"closed", "bad", "exit"}

HandleEvent(event) ==
    /\ ApplyEvent(event)
    /\ \/ loop' = IF EndsLoop(event) THEN Stopped
                  ELSE IF event.kind = "graph"
                       THEN [Waiting EXCEPT !.phase = "delivering"]
                       ELSE Waiting
       \/ Writes(event) /\ reader.ended /\ loop' = Stopped

Take(event) ==
    IF Coalescible(event)
    THEN /\ loop' = [phase |-> "collecting", selected |-> event, count |-> 1]
         /\ UNCHANGED <<documents, answer, session>>
    ELSE HandleEvent(event)

\* Mutant: the event set aside waits until the channel is empty.
ReceiveChannelFirst ==
    /\ loop.phase = "waiting"
    /\ IF channel # << >>
       THEN Take(Head(channel)) /\ channel' = Tail(channel) /\ UNCHANGED deferred
       ELSE /\ deferred # << >>
            /\ Take(Head(deferred)) /\ deferred' = Tail(deferred) /\ UNCHANGED channel
    /\ UNCHANGED <<client, sent, reader, threads>>

Receive ==
    /\ loop.phase = "waiting"
    /\ IF deferred # << >>
       THEN Take(Head(deferred)) /\ deferred' = Tail(deferred) /\ UNCHANGED channel
       ELSE /\ channel # << >>
            /\ Take(Head(channel)) /\ channel' = Tail(channel) /\ UNCHANGED deferred
    /\ UNCHANGED <<client, sent, reader, threads>>

Collectable(event) == Coalescible(event) /\ event.uri = loop.selected.uri

Newer(selected, event) == IF event.version > selected.version THEN event ELSE selected

Collect ==
    /\ loop.phase = "collecting"
    /\ loop.count < Capacity
    /\ channel # << >> /\ Collectable(Head(channel))
    /\ loop' = [loop EXCEPT !.selected = Newer(@, Head(channel)), !.count = @ + 1]
    /\ channel' = Tail(channel)
    /\ UNCHANGED <<client, sent, reader, threads, deferred, documents, answer, session>>

\* The first event that does not belong to the run waits until the run is handled.
PutAside == channel' = Tail(channel) /\ deferred' = Append(deferred, Head(channel))

\* Mutant: a run is handled only when another event ends it.
CollectEndsAtNextEvent ==
    /\ loop.phase = "collecting"
    /\ channel # << >> /\ ~Collectable(Head(channel))
    /\ PutAside
    /\ HandleEvent(loop.selected)
    /\ UNCHANGED <<client, sent, reader, threads>>

CollectEnds ==
    /\ loop.phase = "collecting"
    /\ \/ (loop.count = Capacity \/ channel = << >>) /\ UNCHANGED <<channel, deferred>>
       \/ /\ loop.count < Capacity /\ channel # << >>
          /\ ~Collectable(Head(channel))
          /\ PutAside
    /\ HandleEvent(loop.selected)
    /\ UNCHANGED <<client, sent, reader, threads>>

\* load_workbench_graph announces itself before it starts its thread.
LoadWorkbenchGraph ==
    /\ loop.phase = "delivering"
    /\ SendEvent(Signal("progress"))
    /\ loop' = Waiting
    /\ threads' = threads + 1
    /\ UNCHANGED <<client, sent, reader, deferred, documents, answer, session>>

----------------------------------------------------------------------------
ChannelInit ==
    /\ client = [uri \in Uris |-> Closed]
    /\ sent = 0
    /\ reader = [holds |-> Nothing, ended |-> FALSE]
    /\ channel = << >>
    /\ threads = Background
    /\ deferred = << >>
    /\ loop = Waiting
    /\ documents = [uri \in Uris |-> Closed]
    /\ answer = [asked |-> 0, seen |-> 0]
    /\ initialized = FALSE /\ held = FALSE /\ shutdown = FALSE

LoopStep == Receive \/ Collect \/ CollectEnds \/ LoadWorkbenchGraph

ChannelNext == ReaderReads \/ ReaderEnds \/ ReaderSends \/ BackgroundSends \/ LoopStep

ChannelSpec == ChannelInit /\ [][ChannelNext]_channelVars

\* Threads run; the client owes nothing.
ChannelFairness ==
    /\ WF_channelVars(LoopStep)
    /\ WF_channelVars(ReaderSends)
    /\ WF_channelVars(BackgroundSends)

FairChannelSpec == ChannelSpec /\ ChannelFairness

----------------------------------------------------------------------------
ChannelTypeOK ==
    /\ {client, documents} \subseteq [Uris -> Documents]
    /\ reader \in [holds : Events \union {Nothing}, ended : BOOLEAN]
    /\ channel \in Seq(Events) /\ Len(channel) <= Capacity
    /\ deferred \in Seq(Events) /\ Len(deferred) <= 1
    /\ loop \in [phase : {"waiting", "collecting", "delivering", "stopped"},
                 selected : Events \union {Nothing}, count : 0 .. Capacity]
    /\ threads \in Nat /\ sent \in 0 .. MaxSent
    /\ {initialized, held, shutdown} \subseteq BOOLEAN

(***************************************************************************)
(* Whatever was collapsed and set aside, a request is answered from the    *)
(* text its client had when it sent it: neither an older one nor one that  *)
(* was sent after the request.                                             *)
(***************************************************************************)
RequestsSeeTheirText == answer.asked = answer.seen

(***************************************************************************)
(* Collapsing loses no edit: with nothing on its way, the server's         *)
(* documents are the client's.                                             *)
(***************************************************************************)
Drained == reader.holds = Nothing /\ channel = << >> /\ deferred = << >> /\ loop.phase = "waiting"
NoEditIsLost == Drained => documents = client

(***************************************************************************)
(* Both: what clients send is applied in their order, each edit in its     *)
(* place, though run_message_channels collapses runs of didChange and      *)
(* handles the event that ends a run after it.                             *)
(***************************************************************************)
EditsKeepTheirPlace == RequestsSeeTheirText /\ NoEditIsLost

(***************************************************************************)
(* The loop is the channel's only consumer: a graph that arrives while the *)
(* channel is full blocks it for good.  Nothing else does: otherwise every *)
(* message is handled, or the server ends.                                 *)
(***************************************************************************)
Wedged == loop.phase = "delivering" /\ ~HasRoom
MessagesAreHandled == []<>(Drained \/ loop.phase = "stopped" \/ Wedged)
=============================================================================
