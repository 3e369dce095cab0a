---------------------------- MODULE ServerProofs ----------------------------
(***************************************************************************)
(* Proofs about parts of the server that share no state: the event channel *)
(* (for any documents, capacity, messages and background events), the      *)
(* add-on caches (for any add-ons, processes, contents and bounds), the    *)
(* control of Workbench processes (for any number of processes, ids,       *)
(* projects and concurrent calls), the editing tools (for any calls,       *)
(* classes, values and bounds) and the bridge package (for any script      *)
(* files, versions, processes and bounds).                                 *)
(*                                                                         *)
(* The channel.  Takes says what an event does to a server's documents and *)
(* what its sender knew of them, Through what a sequence of events does.   *)
(* The invariant (Flows) is that what is on its way leads from the         *)
(* server's documents to the client's: first the edit the loop collects,   *)
(* then the event it has set aside, the channel, and the message the       *)
(* reader holds. Every step takes an event from the front, appends one at  *)
(* the back or, in Collect, replaces two changes by the newer              *)
(* (TakesNewer).                                                           *)
(*                                                                         *)
(* The caches.  CacheHolds says of each variable, apart from the others,   *)
(* what keeps contents and revisions together: an index of a packed add-on *)
(* in a directory (DirectoryFits) or in a task that has read its digests   *)
(* (TaskFits), and a locator's stamp.  CacheMends adds what an undisturbed *)
(* load may rely on: only one process is busy (OnlyOneIsBusy), and a       *)
(* directory is as far as the task that writes it, file by file (Mended).  *)
(*                                                                         *)
(* Control.  That a start time names one process is the heart of the       *)
(* argument: among everything a call can hold (what runs, what was         *)
(* observed, what calls chose) two identities with one start time are the  *)
(* same, and none is later than the clock (StartsIdentify).  So what Close *)
(* finds by id and start time is the chosen process or nothing, and a      *)
(* process that is gone never comes back.  CallShape says what the phase   *)
(* of a call knows of its arguments, TargetKnown what it knows of the      *)
(* process it chose: that it was asked to close (Going) and, from a list   *)
(* that did not fail, that it is gone.                                     *)
(*                                                                         *)
(* Editing.  A confirmation or a descriptor passes from its table to the   *)
(* one call that takes it and from there to the one edit that call carries *)
(* out.  Entries says where one that is handed out comes from, Fits what a *)
(* call holds at each of its steps, and Traced what an edit leaves behind. *)
(* Points says what a previewed removal may still rely on: the component   *)
(* it showed is where it was unless something has been removed since.      *)
(*                                                                         *)
(* The bridge.  A call that nobody disturbs is alone (SoleInstaller), and  *)
(* Keeps says what it has done to the package at each of its steps.  Calls *)
(* of one version disturb each other but write the same: once one of them  *)
(* writes or has ended, every file of the version is as it should be or    *)
(* still to be written by somebody (AllCovered), and the manifest too;     *)
(* those that migrate share the flat package, where a file is gone only    *)
(* if one of them has moved it (Migrating).                                *)
(***************************************************************************)
EXTENDS EventChannel, AddonCache, WorkbenchControl, WorkbenchEdits, WorkbenchBridge,
        SequenceTheorems, FiniteSetTheorems, TLAPS

(***************************************************************************)
(* The channel.                                                            *)
(***************************************************************************)
Texts == [Uris -> Documents]

\* The event e takes the documents a to b, and whoever had a may send it.
Takes(a, e, b) ==
    /\ a \in Texts /\ e \in Events /\ b = Updated(a, e)
    /\ e.kind \in {"open", "change", "close", "request"} => e.uri \in Uris
    /\ e.kind = "change" => a[e.uri] # Closed /\ e.version > a[e.uri].version
    /\ e.kind = "request" => e.text = a[e.uri].text

\* So do the events of q, one after the other.
Through(q, a, b) ==
    \E h \in [0 .. Len(q) -> Texts] :
        /\ h[0] = a /\ h[Len(q)] = b
        /\ \A i \in 1 .. Len(q) : Takes(h[i - 1], q[i], h[i])

\* What is on its way leads from the server's documents to the client's.
Flows ==
    \E a, b, c \in Texts :
        /\ IF loop.phase = "collecting" THEN Takes(documents, loop.selected, a)
           ELSE a = documents
        /\ Through(deferred, a, b)
        /\ Through(channel, b, c)
        /\ IF reader.holds = Nothing THEN client = c ELSE Takes(c, reader.holds, client)

Collecting ==
    loop.phase = "collecting" =>
        /\ deferred = << >>
        /\ loop.selected \in Events /\ loop.selected.kind = "change"

InOrder ==
    /\ Collecting
    /\ loop.phase # "stopped" => Flows
    /\ RequestsSeeTheirText

----------------------------------------------------------------------------
(* Events and sequences of them.                                           *)

LEMMA ClosedDocument == Closed \in Documents
BY DEF Closed, Documents

LEMMA ChangedDocument ==
  ASSUME NEW a \in Documents, NEW e \in Events
  PROVE  Changed(a, e) \in Documents
BY DEF Changed, Documents, Events

LEMMA TakesTexts ==
  ASSUME NEW a, NEW e, NEW b, Takes(a, e, b)
  PROVE  b \in Texts
<1>1. CASE e.kind = "change"
  <2>1. b = [a EXCEPT ![e.uri] = Changed(a[e.uri], e)] /\ e.uri \in Uris
    BY <1>1 DEF Takes, Updated
  <2>2. a[e.uri] \in Documents
    BY <2>1 DEF Takes, Texts
  <2> QED
    BY <2>1, <2>2, ChangedDocument DEF Takes, Texts
<1>2. CASE e.kind \in {"open", "close"}
  <2>1. b = [a EXCEPT ![e.uri] = [version |-> e.version, text |-> e.text]]
    BY <1>2 DEF Takes, Updated
  <2>2. [version |-> e.version, text |-> e.text] \in Documents
    BY DEF Takes, Events, Documents
  <2> QED
    BY <2>1, <2>2 DEF Takes, Texts
<1>3. CASE e.kind \notin {"change", "open", "close"}
  BY <1>3 DEF Takes, Updated
<1> QED
  BY <1>1, <1>2, <1>3

LEMMA SignalTakes ==
  ASSUME NEW a \in Texts,
         NEW kind \in {"initialized", "graph", "shutdown", "exit", "closed", "bad", "progress"}
  PROVE  Signal(kind) \in Events /\ Takes(a, Signal(kind), a)
<1>1. Signal(kind) \in Events /\ Signal(kind).kind = kind
  BY DEF Signal, Message, Events
<1> QED
  BY <1>1 DEF Takes, Updated

LEMMA ThroughEmpty ==
  ASSUME NEW a \in Texts
  PROVE  Through(<< >>, a, a)
<1> DEFINE h == [i \in 0 .. 0 |-> a]
<1>1. h \in [0 .. Len(<< >>) -> Texts] /\ h[0] = a
  OBVIOUS
<1>2. \A i \in 1 .. Len(<< >>) : FALSE
  OBVIOUS
<1> QED
  BY <1>1, <1>2, Len(<< >>) = 0 DEF Through

LEMMA ThroughNothing ==
  ASSUME NEW a, NEW b, Through(<< >>, a, b)
  PROVE  a = b
BY Len(<< >>) = 0 DEF Through

LEMMA ThroughTexts ==
  ASSUME NEW q \in Seq(Events), NEW a, NEW b, Through(q, a, b)
  PROVE  a \in Texts /\ b \in Texts
<1>1. PICK h \in [0 .. Len(q) -> Texts] : h[0] = a /\ h[Len(q)] = b
  BY DEF Through
<1>2. Len(q) \in Nat
  OBVIOUS
<1> QED
  BY <1>1, <1>2

\* A sender appends an event that the documents so far allow.
LEMMA ThroughAppend ==
  ASSUME NEW q \in Seq(Events), NEW a, NEW b, NEW c, NEW e, Through(q, a, b), Takes(b, e, c)
  PROVE  Through(Append(q, e), a, c)
<1>1. PICK h \in [0 .. Len(q) -> Texts] :
        /\ h[0] = a /\ h[Len(q)] = b
        /\ \A i \in 1 .. Len(q) : Takes(h[i - 1], q[i], h[i])
  BY DEF Through
<1> DEFINE n == Len(q)
           p == Append(q, e)
           g == [i \in 0 .. n + 1 |-> IF i = n + 1 THEN c ELSE h[i]]
<1>2. n \in Nat /\ e \in Events /\ c \in Texts
  BY TakesTexts DEF Takes
<1>3. Len(p) = n + 1 /\ p[n + 1] = e /\ \A i \in 1 .. n : p[i] = q[i]
  BY <1>2
<1> HIDE DEF n, p
<1>4. g \in [0 .. n + 1 -> Texts] /\ g[n + 1] = c /\ \A i \in 0 .. n : g[i] = h[i]
  BY <1>1, <1>2 DEF n
<1> HIDE DEF g
<1>5. ASSUME NEW i \in 1 .. n + 1
      PROVE  Takes(g[i - 1], p[i], g[i])
  <2>1. CASE i = n + 1
    <3>1. g[i - 1] = h[n] /\ g[i] = c /\ p[i] = e
      BY <1>2, <1>3, <1>4, <2>1
    <3> QED
      BY <1>1, <3>1 DEF n
  <2>2. CASE i # n + 1
    <3>1. i \in 1 .. n /\ i - 1 \in 0 .. n /\ i \in 0 .. n
      BY <1>2, <2>2
    <3>2. g[i - 1] = h[i - 1] /\ g[i] = h[i] /\ p[i] = q[i]
      BY <1>3, <1>4, <3>1
    <3> QED
      BY <1>1, <3>1, <3>2 DEF n
  <2> QED
    BY <2>1, <2>2
<1>6. g[0] = a
  BY <1>1, <1>2, <1>4
<1> QED
  BY <1>3, <1>4, <1>5, <1>6 DEF Through, p

\* The loop takes the first event.
LEMMA ThroughHead ==
  ASSUME NEW q \in Seq(Events), q # << >>, NEW a, NEW b, Through(q, a, b)
  PROVE  \E c \in Texts : Takes(a, Head(q), c) /\ Through(Tail(q), c, b)
<1>1. PICK h \in [0 .. Len(q) -> Texts] :
        /\ h[0] = a /\ h[Len(q)] = b
        /\ \A i \in 1 .. Len(q) : Takes(h[i - 1], q[i], h[i])
  BY DEF Through
<1> DEFINE n == Len(q)
           p == Tail(q)
           g == [i \in 0 .. n - 1 |-> h[i + 1]]
<1>2. n \in Nat /\ n > 0 /\ Head(q) = q[1]
  BY EmptySeq, LenProperties
<1>3. Len(p) = n - 1 /\ \A i \in 1 .. n - 1 : p[i] = q[i + 1]
  BY <1>2
<1> HIDE DEF n, p
<1>4. /\ g \in [0 .. n - 1 -> Texts] /\ g[0] = h[1] /\ g[n - 1] = b
      /\ \A i \in 0 .. n - 1 : g[i] = h[i + 1]
  <2>1. \A i \in 0 .. n - 1 : i + 1 \in 0 .. n
    BY <1>2
  <2>2. 0 \in 0 .. n - 1 /\ n - 1 \in 0 .. n - 1 /\ 0 + 1 = 1 /\ (n - 1) + 1 = n
    BY <1>2
  <2> QED
    BY <1>1, <2>1, <2>2 DEF n
<1> HIDE DEF g
<1>5. ASSUME NEW i \in 1 .. n - 1
      PROVE  Takes(g[i - 1], p[i], g[i])
  <2>1. i - 1 \in 0 .. n - 1 /\ i \in 0 .. n - 1 /\ i + 1 \in 1 .. n /\ (i + 1) - 1 = i
    BY <1>2
  <2>2. g[i - 1] = h[i] /\ g[i] = h[i + 1] /\ p[i] = q[i + 1]
    BY <1>2, <1>3, <1>4, <2>1
  <2> QED
    BY <1>1, <2>1, <2>2 DEF n
<1>6. Through(p, h[1], b)
  BY <1>3, <1>4, <1>5 DEF Through
<1>7. 1 \in 1 .. n /\ 1 \in 0 .. n /\ 1 - 1 = 0
  BY <1>2
<1>8. Takes(a, Head(q), h[1]) /\ h[1] \in Texts
  BY <1>1, <1>2, <1>7 DEF n
<1> QED
  BY <1>6, <1>8 DEF p

\* Of two changes of one document in a row, the newer does for both.
LEMMA TakesNewer ==
  ASSUME NEW a, NEW e, NEW b, NEW f, NEW c, Takes(a, e, b), Takes(b, f, c),
         e.kind = "change", f.kind = "change", f.uri = e.uri
  PROVE  Newer(e, f) = f /\ Takes(a, f, c)
<1> DEFINE u == e.uri
           d == [version |-> e.version, text |-> e.text]
           x == [version |-> f.version, text |-> f.text]
<1>1. /\ a \in Texts /\ e \in Events /\ f \in Events /\ u \in Uris
      /\ a[u] # Closed /\ e.version > a[u].version
  BY DEF Takes
<1>2. a[u] \in Documents /\ e.version \in Nat /\ f.version \in Nat /\ a[u].version \in Nat
  BY <1>1 DEF Texts, Documents, Events
<1>3. Changed(a[u], e) = d
  BY <1>1, <1>2 DEF Changed
<1>4. b = [a EXCEPT ![u] = d]
  BY <1>3 DEF Takes, Updated
<1>5. b[u] = d
  BY <1>1, <1>4 DEF Texts
<1>6. f.version > e.version
  BY <1>5 DEF Takes
<1>7. f.version > a[u].version
  BY <1>1, <1>2, <1>6
<1>8. d # Closed
  BY <1>1, <1>2 DEF Closed
<1>9. Changed(d, f) = x /\ Changed(a[u], f) = x
  BY <1>1, <1>2, <1>6, <1>7, <1>8 DEF Changed
<1>10. c = [b EXCEPT ![u] = Changed(b[u], f)]
  BY DEF Takes, Updated
<1>11. c = [a EXCEPT ![u] = x]
  BY <1>4, <1>5, <1>9, <1>10
<1>12. c = Updated(a, f)
  BY <1>9, <1>11 DEF Updated
<1> QED
  BY <1>1, <1>2, <1>6, <1>7, <1>12 DEF Takes, Newer

----------------------------------------------------------------------------
(* The parts of the loop.                                                   *)

Loops == [phase : {"waiting", "collecting", "delivering", "stopped"},
          selected : Events \union {Nothing}, count : 0 .. Capacity]

\* What the loop has in hand leads from its documents to a.
InHand(a) ==
    IF loop.phase = "collecting" THEN Takes(documents, loop.selected, a) ELSE a = documents
Sending(c) == IF reader.holds = Nothing THEN client = c ELSE Takes(c, reader.holds, client)

LEMMA FlowsParts ==
  Flows <=> \E a, b, c \in Texts :
              InHand(a) /\ Through(deferred, a, b) /\ Through(channel, b, c) /\ Sending(c)
BY DEF Flows, InHand, Sending

\* What a step of the loop with an event in hand makes of it.
Leaves(a) ==
    /\ loop' \in Loops /\ documents' \in Texts /\ {initialized, held, shutdown}' \subseteq BOOLEAN
    /\ InHand(a)' /\ RequestsSeeTheirText'
    /\ loop'.phase = "collecting" =>
          loop'.selected \in Events /\ loop'.selected.kind = "change"

LEMMA RestingLoops ==
  /\ Waiting \in Loops /\ Waiting.phase = "waiting"
  /\ Stopped \in Loops /\ Stopped.phase = "stopped"
  /\ [Waiting EXCEPT !.phase = "delivering"] \in Loops
  /\ [Waiting EXCEPT !.phase = "delivering"].phase = "delivering"
BY ChannelIsBounded DEF Waiting, Stopped, Loops

LEMMA HandleLoops ==
  ASSUME ChannelTypeOK, RequestsSeeTheirText, NEW e, NEW a, Takes(documents, e, a),
         HandleEvent(e)
  PROVE  Leaves(a) /\ loop'.phase # "collecting"
<1>1. documents' = a /\ a \in Texts
  BY TakesTexts DEF HandleEvent, ApplyEvent, Takes
<1>2. loop' \in Loops /\ loop'.phase # "collecting"
  BY RestingLoops DEF HandleEvent
<1>3. {initialized, held, shutdown}' \subseteq BOOLEAN
  BY DEF HandleEvent, ApplyEvent, ChannelTypeOK
<1>4. RequestsSeeTheirText'
  <2>1. CASE e.kind = "request" /\ ~shutdown
    <3>1. answer' = [asked |-> e.text, seen |-> documents[e.uri].text]
      BY <2>1 DEF HandleEvent, ApplyEvent
    <3> QED
      BY <2>1, <3>1 DEF Takes, RequestsSeeTheirText
  <2>2. CASE ~(e.kind = "request" /\ ~shutdown)
    BY <2>2 DEF HandleEvent, ApplyEvent, RequestsSeeTheirText
  <2> QED
    BY <2>1, <2>2
<1> QED
  BY <1>1, <1>2, <1>3, <1>4 DEF Leaves, InHand

LEMMA TakeLoops ==
  ASSUME ChannelTypeOK, RequestsSeeTheirText, NEW e, NEW a, Takes(documents, e, a), Take(e)
  PROVE  Leaves(a)
<1>1. CASE Coalescible(e)
  <2>1. /\ loop' = [phase |-> "collecting", selected |-> e, count |-> 1]
        /\ UNCHANGED <<documents, answer, session>>
    BY <1>1 DEF Take
  <2>2. e \in Events /\ 1 \in 0 .. Capacity /\ e.kind = "change"
    BY <1>1, ChannelIsBounded DEF Takes, Coalescible
  <2>3. loop' \in Loops
    BY <2>1, <2>2 DEF Loops
  <2> QED
    BY <2>1, <2>2, <2>3
    DEF Leaves, InHand, RequestsSeeTheirText, ChannelTypeOK, Texts, session
<1>2. CASE ~ Coalescible(e)
  BY <1>2, HandleLoops DEF Take
<1> QED
  BY <1>1, <1>2

\* The parts of the invariant that say what leads where.
Leads(a, b, c) ==
    InHand(a) /\ Through(deferred, a, b) /\ Through(channel, b, c) /\ Sending(c)

ChannelInv == ChannelTypeOK /\ InOrder

LEMMA Leading ==
  ASSUME ChannelInv, loop.phase # "stopped"
  PROVE  \E a, b, c \in Texts : Leads(a, b, c)
BY FlowsParts DEF ChannelInv, InOrder, Leads

LEMMA Typed ==
  ChannelTypeOK <=>
    /\ client \in Texts /\ documents \in Texts
    /\ reader \in [holds : Events \union {Nothing}, ended : BOOLEAN]
    /\ channel \in Seq(Events) /\ Len(channel) <= Capacity
    /\ deferred \in Seq(Events) /\ Len(deferred) <= 1
    /\ loop \in Loops
    /\ threads \in Nat /\ sent \in 0 .. MaxSent
    /\ {initialized, held, shutdown} \subseteq BOOLEAN
BY DEF ChannelTypeOK, Texts, Loops

LEMMA FirstEvent ==
  ASSUME NEW q \in Seq(Events), q # << >>
  PROVE  Head(q) \in Events /\ Tail(q) \in Seq(Events) /\ Len(Tail(q)) = Len(q) - 1
BY HeadTailProperties

----------------------------------------------------------------------------
(* The actions.                                                             *)

LEMMA ChannelStarts ==
  ASSUME ChannelInit
  PROVE  ChannelInv
<1>1. client \in Texts /\ documents \in Texts /\ documents = client
  BY ClosedDocument DEF ChannelInit, Texts
<1>2. loop \in Loops /\ loop.phase = "waiting"
  BY RestingLoops DEF ChannelInit
<1>3. << >> \in Seq(Events) /\ Len(<< >>) = 0
  OBVIOUS
<1>4. ChannelTypeOK
  <2>1. reader \in [holds : Events \union {Nothing}, ended : BOOLEAN]
    BY DEF ChannelInit
  <2>2. threads \in Nat /\ sent \in 0 .. MaxSent
    BY ChannelIsBounded DEF ChannelInit
  <2>3. /\ channel \in Seq(Events) /\ Len(channel) <= Capacity
        /\ deferred \in Seq(Events) /\ Len(deferred) <= 1
    BY <1>3, ChannelIsBounded DEF ChannelInit
  <2>4. {initialized, held, shutdown} \subseteq BOOLEAN
    BY DEF ChannelInit
  <2> QED
    BY <1>1, <1>2, <2>1, <2>2, <2>3, <2>4, Typed
<1>5. Leads(documents, documents, documents)
  BY <1>1, <1>2, ThroughEmpty DEF ChannelInit, Leads, InHand, Sending
<1> QED
  BY <1>1, <1>2, <1>4, <1>5, FlowsParts
  DEF ChannelInv, InOrder, Collecting, Leads, RequestsSeeTheirText, ChannelInit

\* A message that the client may write is one its documents allow.
LEMMA ClientsKnow ==
  ASSUME ChannelTypeOK, NEW m \in ClientMessages
  PROVE  Takes(client, m,
               IF m.kind \in {"open", "change", "close"}
               THEN [client EXCEPT ![m.uri] = [version |-> m.version, text |-> m.text]]
               ELSE client)
<1>1. client \in Texts /\ sent \in Nat
  BY Typed
<1> DEFINE after == IF m.kind \in {"open", "change", "close"}
                    THEN [client EXCEPT ![m.uri] = [version |-> m.version, text |-> m.text]]
                    ELSE client
<1>2. ASSUME m \in Signals
      PROVE  Takes(client, m, after)
  <2>1. PICK kind \in {"initialized", "graph", "shutdown", "exit"} : m = Signal(kind)
    BY <1>2 DEF Signals
  <2>2. m.kind = kind
    BY <2>1 DEF Signal, Message
  <2> QED
    BY <1>1, <2>1, <2>2, SignalTakes
<1>3. ASSUME NEW u \in Uris, m \in DocumentMessages(u)
      PROVE  Takes(client, m, after)
  <2>1. client[u] \in Documents
    BY <1>1, <1>3 DEF Texts
  <2>2. client[u].version \in Nat /\ client[u].text \in Nat /\ sent + 1 \in Nat
    BY <1>1, <2>1 DEF Documents
  <2>3. CASE m = Message("open", u, 1, sent + 1)
    <3>1. m.kind = "open" /\ m.uri = u /\ m \in Events
      BY <1>3, <2>2, <2>3 DEF Message, Events
    <3>2. Updated(client, m) = [client EXCEPT ![m.uri] = [version |-> m.version, text |-> m.text]]
      BY <3>1 DEF Updated
    <3> QED
      BY <1>1, <1>3, <3>1, <3>2 DEF Takes
  <2>4. CASE client[u] # Closed /\ m = Message("change", u, client[u].version + 1, sent + 1)
    <3>1. m \in Events /\ m.kind = "change" /\ m.uri = u /\ m.version = client[u].version + 1
      BY <1>3, <2>2, <2>4 DEF Message, Events
    <3>2. Changed(client[u], m) = [version |-> m.version, text |-> m.text]
      BY <2>2, <2>4, <3>1 DEF Changed
    <3>3. Updated(client, m) = [client EXCEPT ![m.uri] = [version |-> m.version, text |-> m.text]]
      BY <3>1, <3>2 DEF Updated
    <3>4. client[m.uri] # Closed /\ m.version > client[m.uri].version
      BY <2>2, <2>4, <3>1
    <3> QED
      BY <1>1, <1>3, <3>1, <3>3, <3>4 DEF Takes
  <2>5. CASE m = Message("close", u, 0, 0)
    <3>1. m.kind = "close" /\ m.uri = u /\ m \in Events
      BY <1>3, <2>5 DEF Message, Events
    <3>2. Updated(client, m) = [client EXCEPT ![m.uri] = [version |-> m.version, text |-> m.text]]
      BY <3>1 DEF Updated
    <3> QED
      BY <1>1, <1>3, <3>1, <3>2 DEF Takes
  <2>6. CASE m = Message("request", u, client[u].version, client[u].text)
    BY <1>1, <1>3, <2>2, <2>6 DEF Message, Takes, Updated, Events
  <2> QED
    BY <1>3, <2>3, <2>4, <2>5, <2>6 DEF DocumentMessages
<1> HIDE DEF after
<1>4. Takes(client, m, after)
  <2>1. m \in Signals \/ m \in UNION {DocumentMessages(u) : u \in Uris}
    BY DEF ClientMessages
  <2>2. CASE m \in UNION {DocumentMessages(u) : u \in Uris}
    <3>1. PICK u \in Uris : m \in DocumentMessages(u)
      BY <2>2
    <3> QED
      BY <1>3, <3>1
  <2> QED
    BY <1>2, <2>1, <2>2
<1> QED
  BY <1>4 DEF after

LEMMA ReaderReadsKeeps ==
  ASSUME ChannelInv, ReaderReads
  PROVE  ChannelInv'
<1>1. PICK m \in ClientMessages :
         /\ reader' = [reader EXCEPT !.holds = m]
         /\ client' = IF m.kind \in {"open", "change", "close"}
                      THEN [client EXCEPT ![m.uri] = [version |-> m.version, text |-> m.text]]
                      ELSE client
  BY DEF ReaderReads
<1>2. /\ reader = [holds |-> Nothing, ended |-> FALSE] /\ sent' = sent + 1 /\ sent < MaxSent
      /\ UNCHANGED <<channel, threads, deferred, loop, documents, answer, session>>
  BY DEF ReaderReads
<1>3. ChannelTypeOK
  BY DEF ChannelInv
<1>4. Takes(client, m, client')
  BY <1>1, <1>3, ClientsKnow
<1>5. m \in Events /\ client' \in Texts
  BY <1>4, TakesTexts DEF Takes
<1>6. reader'.holds = m /\ m # Nothing
  BY <1>1, <1>2, <1>5, NothingIsNoEvent
<1>7. ChannelTypeOK'
  <2>1. reader' \in [holds : Events \union {Nothing}, ended : BOOLEAN]
    BY <1>1, <1>2, <1>5
  <2>2. sent' \in 0 .. MaxSent
    BY <1>2, <1>3, ChannelIsBounded DEF ChannelTypeOK
  <2> QED
    BY <1>2, <1>3, <1>5, <2>1, <2>2 DEF ChannelTypeOK, Texts, session
<1>8. ASSUME loop'.phase # "stopped" PROVE Flows'
  <2>1. PICK a, b, c \in Texts : Leads(a, b, c)
    BY <1>2, <1>8, Leading
  <2>2. c = client
    BY <1>2, <2>1 DEF Leads, Sending
  <2>3. Leads(a, b, c)'
    BY <1>2, <1>4, <1>6, <2>1, <2>2 DEF Leads, Sending, InHand
  <2> QED
    BY <2>3 DEF Flows, Leads, InHand, Sending
<1> QED
  BY <1>2, <1>7, <1>8 DEF ChannelInv, InOrder, Collecting, RequestsSeeTheirText

\* What a step of the loop is left to show: what it leaves and who else may act.
LEMMA LoopKeeps ==
  ASSUME ChannelInv, NEW a, NEW b, NEW c, Leaves(a), UNCHANGED <<client, sent, reader>>,
         Through(deferred', a, b), Through(channel', b, c), Sending(c),
         a \in Texts, b \in Texts, c \in Texts,
         channel' \in Seq(Events), Len(channel') <= Capacity,
         deferred' \in Seq(Events), Len(deferred') <= 1, threads' \in Nat,
         loop'.phase = "collecting" => deferred' = << >>
  PROVE  ChannelInv'
<1>1. ChannelTypeOK
  BY DEF ChannelInv
<1>2. ChannelTypeOK'
  BY <1>1 DEF ChannelTypeOK, Leaves, Loops, Texts
<1>3. Leads(a, b, c)'
  BY DEF Leads, Leaves, Sending
<1>4. Flows'
  BY <1>3 DEF Flows, Leads, InHand, Sending
<1> QED
  BY <1>2, <1>4 DEF ChannelInv, InOrder, Collecting, Leaves

LEMMA ReaderEndsKeeps ==
  ASSUME ChannelInv, ReaderEnds
  PROVE  ChannelInv'
<1>1. PICK last \in {Signal("closed"), Signal("bad")} :
         reader' = [holds |-> last, ended |-> TRUE]
  BY DEF ReaderEnds
<1>2. /\ reader = [holds |-> Nothing, ended |-> FALSE]
      /\ UNCHANGED <<client, sent, channel, threads, deferred, loop, documents, answer, session>>
  BY DEF ReaderEnds
<1>3. ChannelTypeOK
  BY DEF ChannelInv
<1>4. last \in Events /\ Takes(client, last, client)
  BY <1>3, SignalTakes, Typed
<1>5. reader'.holds = last /\ last # Nothing
  BY <1>1, <1>4, NothingIsNoEvent
<1>6. ChannelTypeOK'
  BY <1>1, <1>2, <1>3, <1>4 DEF ChannelTypeOK, session
<1>7. ASSUME loop'.phase # "stopped" PROVE Flows'
  <2>1. PICK a, b, c \in Texts : Leads(a, b, c)
    BY <1>2, <1>7, Leading
  <2>2. c = client
    BY <1>2, <2>1 DEF Leads, Sending
  <2>3. Leads(a, b, c)'
    BY <1>2, <1>4, <1>5, <2>1, <2>2 DEF Leads, Sending, InHand
  <2> QED
    BY <2>3 DEF Flows, Leads, InHand, Sending
<1> QED
  BY <1>2, <1>6, <1>7 DEF ChannelInv, InOrder, Collecting, RequestsSeeTheirText

LEMMA ReaderSendsKeeps ==
  ASSUME ChannelInv, ReaderSends
  PROVE  ChannelInv'
<1> DEFINE e == reader.holds
<1>1. e # Nothing /\ UNCHANGED <<client, sent, threads, deferred, loop, documents, answer, session>>
  BY DEF ReaderSends
<1>2. ChannelTypeOK /\ e \in Events
  BY <1>1 DEF ChannelInv, ChannelTypeOK
<1>3. CASE loop.phase = "stopped"
  <2>1. reader' = [holds |-> Nothing, ended |-> TRUE] /\ channel' = channel
    BY <1>3 DEF ReaderSends
  <2>2. ChannelTypeOK'
    BY <1>1, <1>2, <2>1 DEF ChannelTypeOK, session
  <2> QED
    BY <1>1, <1>3, <2>2 DEF ChannelInv, InOrder, Collecting, RequestsSeeTheirText
<1>4. CASE loop.phase # "stopped"
  <2>1. reader' = [reader EXCEPT !.holds = Nothing] /\ HasRoom /\ channel' = Append(channel, e)
    BY <1>4 DEF ReaderSends, SendEvent
  <2>2. reader' \in [holds : Events \union {Nothing}, ended : BOOLEAN] /\ reader'.holds = Nothing
    BY <1>2, <2>1 DEF ChannelTypeOK
  <2>3. channel' \in Seq(Events) /\ Len(channel') <= Capacity
    BY <1>2, <2>1, ChannelIsBounded DEF HasRoom, ChannelTypeOK
  <2>4. ChannelTypeOK'
    BY <1>1, <1>2, <2>2, <2>3 DEF ChannelTypeOK, session
  <2>5. PICK a, b, c \in Texts : Leads(a, b, c)
    BY <1>4, Leading
  <2>6. Takes(c, e, client)
    BY <1>1, <2>5 DEF Leads, Sending
  <2>7. Through(channel', b, client) /\ client \in Texts
    BY <1>2, <2>1, <2>5, <2>6, ThroughAppend, TakesTexts DEF Leads, ChannelTypeOK
  <2>8. Leads(a, b, client)'
    BY <1>1, <2>2, <2>5, <2>7 DEF Leads, Sending, InHand
  <2>9. Flows'
    BY <1>1, <2>7, <2>8 DEF Flows, Leads, InHand, Sending
  <2> QED
    BY <1>1, <2>4, <2>9 DEF ChannelInv, InOrder, Collecting, RequestsSeeTheirText
<1> QED
  BY <1>3, <1>4

\* An event of the server's own threads changes no document.
LEMMA ProgressSent ==
  ASSUME ChannelTypeOK, SendEvent(Signal("progress")), NEW b, NEW c, Through(channel, b, c)
  PROVE  channel' \in Seq(Events) /\ Len(channel') <= Capacity /\ Through(channel', b, c)
<1>1. c \in Texts /\ channel \in Seq(Events)
  BY ThroughTexts DEF ChannelTypeOK
<1>2. Signal("progress") \in Events /\ Takes(c, Signal("progress"), c)
  BY <1>1, SignalTakes
<1>3. channel' = Append(channel, Signal("progress")) /\ Len(channel) < Capacity
  BY DEF SendEvent, HasRoom
<1> QED
  BY <1>1, <1>2, <1>3, ThroughAppend, ChannelIsBounded

LEMMA BackgroundSendsKeeps ==
  ASSUME ChannelInv, BackgroundSends
  PROVE  ChannelInv'
<1>1. threads > 0 /\ threads' = threads - 1
  BY DEF BackgroundSends
<1>2. UNCHANGED <<client, sent, reader, deferred, loop, documents, answer, session>>
  BY DEF BackgroundSends
<1>3. ChannelTypeOK /\ threads' \in Nat
  BY <1>1 DEF ChannelInv, ChannelTypeOK
<1>4. CASE loop.phase = "stopped"
  <2>1. channel' = channel
    BY <1>4 DEF BackgroundSends
  <2>2. ChannelTypeOK'
    BY <1>2, <1>3, <2>1 DEF ChannelTypeOK, session
  <2> QED
    BY <1>2, <1>4, <2>2 DEF ChannelInv, InOrder, Collecting, RequestsSeeTheirText
<1>5. CASE loop.phase # "stopped"
  <2>1. SendEvent(Signal("progress"))
    BY <1>5 DEF BackgroundSends
  <2>2. PICK a, b, c \in Texts : Leads(a, b, c)
    BY <1>5, Leading
  <2>3. channel' \in Seq(Events) /\ Len(channel') <= Capacity /\ Through(channel', b, c)
    BY <1>3, <2>1, <2>2, ProgressSent DEF Leads
  <2>4. ChannelTypeOK'
    BY <1>2, <1>3, <2>3 DEF ChannelTypeOK, session
  <2>5. Leads(a, b, c)'
    BY <1>2, <2>2, <2>3 DEF Leads, Sending, InHand
  <2>6. Flows'
    BY <2>5 DEF Flows, Leads, InHand, Sending
  <2> QED
    BY <1>2, <2>4, <2>6 DEF ChannelInv, InOrder, Collecting, RequestsSeeTheirText
<1> QED
  BY <1>4, <1>5

LEMMA ReceiveKeeps ==
  ASSUME ChannelInv, Receive
  PROVE  ChannelInv'
<1>1. ChannelTypeOK /\ RequestsSeeTheirText
  BY DEF ChannelInv, InOrder
<1>2. loop.phase = "waiting" /\ UNCHANGED <<client, sent, reader, threads>>
  BY DEF Receive
<1>3. PICK a, b, c \in Texts : Leads(a, b, c)
  BY <1>2, Leading
<1>4. a = documents /\ Through(deferred, a, b) /\ Through(channel, b, c) /\ Sending(c)
  BY <1>2, <1>3 DEF Leads, InHand
<1>5. channel \in Seq(Events) /\ deferred \in Seq(Events) /\ Len(deferred) <= 1
  BY <1>1 DEF ChannelTypeOK
<1>6. CASE deferred # << >>
  <2> DEFINE e == Head(deferred)
  <2>1. Take(e) /\ deferred' = Tail(deferred) /\ channel' = channel
    BY <1>6 DEF Receive
  <2>2. PICK d \in Texts : Takes(a, e, d) /\ Through(deferred', d, b)
    BY <1>4, <1>5, <1>6, <2>1, ThroughHead
  <2>3. deferred' \in Seq(Events) /\ Len(deferred') <= 0
    BY <1>5, <1>6, <2>1, FirstEvent
  <2>4. deferred' = << >>
    BY <2>3, EmptySeq, LenProperties
  <2>5. Leaves(d)
    BY <1>1, <1>4, <2>1, <2>2, TakeLoops
  <2> QED
    BY <1>1, <1>2, <1>4, <2>1, <2>2, <2>3, <2>4, <2>5, LoopKeeps DEF ChannelTypeOK
<1>7. CASE deferred = << >>
  <2> DEFINE e == Head(channel)
  <2>1. channel # << >> /\ Take(e) /\ channel' = Tail(channel) /\ deferred' = deferred
    BY <1>7 DEF Receive
  <2>2. a = b
    BY <1>4, <1>7, ThroughNothing
  <2>3. PICK d \in Texts : Takes(a, e, d) /\ Through(channel', d, c)
    BY <1>4, <1>5, <2>1, <2>2, ThroughHead
  <2>4. channel' \in Seq(Events) /\ Len(channel') <= Capacity
    BY <1>1, <1>5, <2>1, FirstEvent, ChannelIsBounded, LenProperties DEF ChannelTypeOK
  <2>5. Leaves(d)
    BY <1>1, <1>4, <2>1, <2>3, TakeLoops
  <2>6. Through(deferred', d, d)
    BY <1>7, <2>1, ThroughEmpty
  <2> QED
    BY <1>1, <1>2, <1>4, <1>5, <1>7, <2>1, <2>3, <2>4, <2>5, <2>6, LoopKeeps DEF ChannelTypeOK
<1> QED
  BY <1>6, <1>7

LEMMA CollectKeeps ==
  ASSUME ChannelInv, Collect
  PROVE  ChannelInv'
<1>1. ChannelTypeOK /\ RequestsSeeTheirText /\ Collecting
  BY DEF ChannelInv, InOrder
<1> DEFINE e == loop.selected
           f == Head(channel)
<1>2. /\ loop.phase = "collecting" /\ loop.count < Capacity /\ channel # << >>
      /\ f.kind = "change" /\ f.uri = e.uri
      /\ loop' = [loop EXCEPT !.selected = Newer(e, f), !.count = @ + 1]
      /\ channel' = Tail(channel)
      /\ UNCHANGED <<client, sent, reader, threads, deferred, documents, answer, session>>
  BY DEF Collect, Collectable, Coalescible
<1>3. e.kind = "change" /\ deferred = << >>
  BY <1>1, <1>2 DEF Collecting
<1>4. PICK a, b, c \in Texts : Leads(a, b, c)
  BY <1>2, Leading
<1>5. Takes(documents, e, a) /\ a = b /\ Through(channel, b, c) /\ Sending(c)
  BY <1>2, <1>3, <1>4, ThroughNothing DEF Leads, InHand
<1>6. channel \in Seq(Events)
  BY <1>1 DEF ChannelTypeOK
<1>7. PICK d \in Texts : Takes(a, f, d) /\ Through(channel', d, c)
  BY <1>2, <1>5, <1>6, ThroughHead
<1>8. Newer(e, f) = f /\ Takes(documents, f, d)
  BY <1>2, <1>3, <1>5, <1>7, TakesNewer
<1>9. loop \in Loops /\ f \in Events
  BY <1>1, <1>7, Typed DEF Takes
<1>10. loop' \in Loops /\ loop'.phase = "collecting" /\ loop'.selected = f
  <2>1. loop.count + 1 \in 0 .. Capacity
    BY <1>2, <1>9, ChannelIsBounded DEF Loops
  <2>2. loop' = [phase |-> loop.phase, selected |-> f, count |-> loop.count + 1]
    BY <1>2, <1>8, <1>9 DEF Loops
  <2>3. loop.phase = "collecting"
    BY <1>2
  <2> QED
    BY <1>9, <2>1, <2>2, <2>3 DEF Loops
<1>11. Leaves(d)
  BY <1>1, <1>2, <1>8, <1>9, <1>10
  DEF Leaves, InHand, ChannelTypeOK, Texts, RequestsSeeTheirText, session
<1>12. channel' \in Seq(Events) /\ Len(channel') <= Capacity
  BY <1>1, <1>2, <1>6, FirstEvent, ChannelIsBounded, LenProperties DEF ChannelTypeOK
<1>13. Through(deferred', d, d)
  BY <1>2, <1>3, ThroughEmpty
<1> QED
  BY <1>1, <1>2, <1>3, <1>5, <1>7, <1>11, <1>12, <1>13, LoopKeeps DEF ChannelTypeOK

LEMMA CollectEndsKeeps ==
  ASSUME ChannelInv, CollectEnds
  PROVE  ChannelInv'
<1>1. ChannelTypeOK /\ RequestsSeeTheirText /\ Collecting
  BY DEF ChannelInv, InOrder
<1>2. /\ loop.phase = "collecting" /\ HandleEvent(loop.selected)
      /\ UNCHANGED <<client, sent, reader, threads>>
  BY DEF CollectEnds
<1>3. deferred = << >>
  BY <1>1, <1>2 DEF Collecting
<1>4. PICK a, b, c \in Texts : Leads(a, b, c)
  BY <1>2, Leading
<1>5. Takes(documents, loop.selected, a) /\ a = b /\ Through(channel, b, c) /\ Sending(c)
  BY <1>2, <1>3, <1>4, ThroughNothing DEF Leads, InHand
<1>6. channel \in Seq(Events) /\ Len(channel) <= Capacity /\ threads \in Nat
  BY <1>1 DEF ChannelTypeOK
<1>7. Leaves(a) /\ loop'.phase # "collecting"
  BY <1>1, <1>2, <1>5, HandleLoops
<1>8. CASE UNCHANGED <<channel, deferred>>
  <2>1. Through(deferred', a, b)
    BY <1>3, <1>5, <1>8, ThroughEmpty
  <2>2. deferred' \in Seq(Events) /\ Len(deferred') <= 1
    BY <1>1, <1>8 DEF ChannelTypeOK
  <2> QED
    BY <1>2, <1>5, <1>6, <1>7, <1>8, <2>1, <2>2, LoopKeeps
<1>9. CASE channel # << >> /\ PutAside
  <2> DEFINE e == Head(channel)
  <2>1. channel' = Tail(channel) /\ deferred' = Append(<< >>, e)
    BY <1>3, <1>9 DEF PutAside
  <2>2. PICK d \in Texts : Takes(b, e, d) /\ Through(channel', d, c)
    BY <1>5, <1>6, <1>9, <2>1, ThroughHead
  <2>3. e \in Events /\ << >> \in Seq(Events) /\ Len(<< >>) = 0
    BY <2>2 DEF Takes
  <2>4. Through(deferred', a, d)
    BY <1>5, <2>1, <2>2, <2>3, ThroughEmpty, ThroughAppend
  <2>5. deferred' \in Seq(Events) /\ Len(deferred') <= 1
    BY <2>1, <2>3
  <2>6. channel' \in Seq(Events) /\ Len(channel') <= Capacity
    BY <1>6, <1>9, <2>1, FirstEvent, ChannelIsBounded, LenProperties
  <2> QED
    BY <1>2, <1>5, <1>6, <1>7, <2>2, <2>4, <2>5, <2>6, LoopKeeps
<1> QED
  BY <1>8, <1>9 DEF CollectEnds

LEMMA LoadWorkbenchGraphKeeps ==
  ASSUME ChannelInv, LoadWorkbenchGraph
  PROVE  ChannelInv'
<1>1. ChannelTypeOK /\ RequestsSeeTheirText
  BY DEF ChannelInv, InOrder
<1>2. /\ loop.phase = "delivering" /\ SendEvent(Signal("progress"))
      /\ loop' = Waiting /\ threads' = threads + 1
      /\ UNCHANGED <<client, sent, reader, deferred, documents, answer, session>>
  BY DEF LoadWorkbenchGraph
<1>3. PICK a, b, c \in Texts : Leads(a, b, c)
  BY <1>2, Leading
<1>4. a = documents /\ Through(deferred, a, b) /\ Through(channel, b, c) /\ Sending(c)
  BY <1>2, <1>3 DEF Leads, InHand
<1>5. channel' \in Seq(Events) /\ Len(channel') <= Capacity /\ Through(channel', b, c)
  BY <1>1, <1>2, <1>4, ProgressSent
<1>6. Leaves(a)
  BY <1>1, <1>2, <1>4, RestingLoops
  DEF Leaves, InHand, ChannelTypeOK, Texts, RequestsSeeTheirText, session
<1>7. loop'.phase # "collecting" /\ threads' \in Nat
  BY <1>1, <1>2, RestingLoops DEF ChannelTypeOK
<1> QED
  BY <1>1, <1>2, <1>4, <1>5, <1>6, <1>7, LoopKeeps DEF ChannelTypeOK

LEMMA ChannelSteps ==
  ASSUME ChannelInv, [ChannelNext]_channelVars
  PROVE  ChannelInv'
<1>1. CASE UNCHANGED channelVars
  BY <1>1 DEF channelVars, ChannelInv, ChannelTypeOK, InOrder, Collecting, Flows,
              RequestsSeeTheirText
<1> QED
  BY <1>1, ReaderReadsKeeps, ReaderEndsKeeps, ReaderSendsKeeps, BackgroundSendsKeeps,
     ReceiveKeeps, CollectKeeps, CollectEndsKeeps, LoadWorkbenchGraphKeeps
  DEF ChannelNext, LoopStep

LEMMA ChannelAlways == ChannelSpec => []ChannelInv
<1> QED
  BY ChannelStarts, ChannelSteps, PTL DEF ChannelSpec

(***************************************************************************)
(* The channel keeps its types, and neither it nor the event set aside     *)
(* holds more than it may, whatever its capacity and however many threads  *)
(* send into it.                                                           *)
(***************************************************************************)
THEOREM ChannelTypeCorrect == ChannelSpec => []ChannelTypeOK
<1>1. ChannelInv => ChannelTypeOK
  BY DEF ChannelInv
<1> QED
  BY <1>1, ChannelAlways, PTL

(***************************************************************************)
(* However edits are collapsed and events set aside, and whatever other    *)
(* threads send in between, a request is answered from the text its client *)
(* had when it was sent, and with nothing on its way the documents are the *)
(* client's.                                                               *)
(***************************************************************************)
THEOREM EditsStayInPlace == ChannelSpec => []EditsKeepTheirPlace
<1>1. ASSUME ChannelInv, Drained
      PROVE  documents = client
  <2>1. loop.phase = "waiting" /\ reader.holds = Nothing /\ channel = << >> /\ deferred = << >>
    BY <1>1 DEF Drained
  <2>2. PICK a, b, c \in Texts : Leads(a, b, c)
    BY <1>1, <2>1, Leading
  <2>3. a = documents /\ c = client
    BY <2>1, <2>2 DEF Leads, InHand, Sending
  <2> QED
    BY <2>1, <2>2, <2>3, ThroughNothing DEF Leads
<1>2. ChannelInv => EditsKeepTheirPlace
  BY <1>1 DEF EditsKeepTheirPlace, NoEditIsLost, ChannelInv, InOrder
<1> QED
  BY <1>2, ChannelAlways, PTL

(***************************************************************************)
(* The add-on caches.                                                      *)
(***************************************************************************)
Made == {"built", "symbols", "manifest", "ready"}
Inspected == Made \union {"inspected", "reuse", "rebuild"}

\* What a task knows once it has inspected and once it has made or read an index.
TaskFits(a, task) ==
    /\ task.step \in Inspected => task.revision \in Contents
    /\ task.step \in Made => task.content \in Contents
    /\ a \in Packed /\ task.step \in Made => task.content = task.revision

DirectoryFits(a, directory) ==
    a \in Packed /\ directory.symbols # Missing
        => directory.symbols.content = directory.symbols.revision

\* The steps that a load of each mode takes.
LoadFits(load) ==
    /\ load.mode = "none" => load.step = "idle"
    /\ load.mode \in {"graph", "dependency"} =>
            load.step \in {"remove", "inspect", "build", "scan", "catalogue", "done"}
    /\ load.mode = "cached" => load.step \in {"remove", "read", "done"}
    /\ load.mode = "all" => load.step \in {"select", "scan", "catalogue", "read", "done"}

StoreHolds == store \in [Addons -> Directories] /\ \A a \in Addons : DirectoryFits(a, store[a])
WorkHolds ==
    /\ work \in [Processes -> [Addons -> WorkOnAddons]]
    /\ \A p \in Processes, a \in Addons : TaskFits(a, work[p][a])
LoadsHold == process \in [Processes -> Loads] /\ \A p \in Processes : LoadFits(process[p])
KnownHolds ==
    /\ known \in [Processes -> [Addons -> [Contents -> Locators \union {Missing}]]]
    /\ \A p \in Processes, a \in Addons, c \in Contents :
          known[p][a][c] # Missing => known[p][a][c].stamp = c
ServedHolds == served \in [asked : Revisions, text : Revisions] /\ served.asked = served.text
RestHolds ==
    /\ source \in [Addons -> Contents]
    /\ catalogue \in (SUBSET CatalogueEntries) \union {Missing}
    /\ roots \in [Processes -> [Addons -> SUBSET Contents]]
    /\ alone \in [Processes -> BOOLEAN]
    /\ loads \in 0..MaxLoads /\ edits \in 0..MaxEdits /\ faults \in 0..MaxFaults

CacheHolds == StoreHolds /\ WorkHolds /\ LoadsHold /\ KnownHolds /\ ServedHolds /\ RestHolds

\* What an undisturbed load may rely on of a directory, at each step of its task.
Mended(directory, task) ==
    /\ task.step = "reuse" =>
            /\ directory.symbols # Missing
            /\ IF directory.header # Missing
               THEN directory.header = task.revision /\ directory.manifest = directory.header
               ELSE directory.manifest = task.revision
    /\ task.step \in {"symbols", "manifest", "ready"} =>
            directory.symbols # Missing /\ directory.symbols.revision = task.revision
    /\ task.step \in {"manifest", "ready"} => directory.manifest = task.revision
    /\ task.step = "ready" => directory.header \in {Missing, task.revision}

Repairing(p) ==
    /\ alone[p] /\ process[p].mode \in {"graph", "dependency"}
    /\ process[p].step \in {"build", "scan", "catalogue", "done"}

OnlyOneIsBusy == \A p, q \in Processes : alone[p] /\ Busy(p) /\ Busy(q) => p = q
Repairs ==
    \A p \in Processes : Repairing(p) =>
        \A a \in process[p].graph :
            /\ Mended(store[a], work[p][a])
            /\ process[p].step # "build" => work[p][a].step = "ready"

CacheMends == CacheHolds /\ OnlyOneIsBusy /\ Repairs

----------------------------------------------------------------------------
\* Writing one task, one directory, one load or one locator.

LEMMA WorkHoldsAfter ==
    ASSUME WorkHolds, NEW p \in Processes, NEW a \in Addons, NEW task \in WorkOnAddons,
           work' = [work EXCEPT ![p][a] = task], TaskFits(a, task)
    PROVE  WorkHolds'
<1>1. work' \in [Processes -> [Addons -> WorkOnAddons]]
  BY DEF WorkHolds
<1>2. ASSUME NEW q \in Processes, NEW b \in Addons
      PROVE  TaskFits(b, work'[q][b])
  <2>1. work'[q][b] = IF q = p /\ b = a THEN task ELSE work[q][b]
    BY DEF WorkHolds
  <2>2. TaskFits(b, work[q][b])
    BY DEF WorkHolds
  <2> QED
    BY <2>1, <2>2
<1> QED
  BY <1>1, <1>2 DEF WorkHolds

LEMMA StoreHoldsAfter ==
    ASSUME StoreHolds, NEW a \in Addons, NEW directory \in Directories,
           store' = [store EXCEPT ![a] = directory], DirectoryFits(a, directory)
    PROVE  StoreHolds'
<1>1. store' \in [Addons -> Directories]
  BY DEF StoreHolds
<1>2. \A b \in Addons : store'[b] = IF b = a THEN directory ELSE store[b]
  BY DEF StoreHolds
<1> QED
  BY <1>1, <1>2 DEF StoreHolds

LEMMA LoadsHoldAfter ==
    ASSUME LoadsHold, NEW p \in Processes, NEW load \in Loads,
           process' = [process EXCEPT ![p] = load], LoadFits(load)
    PROVE  LoadsHold'
<1>1. process' \in [Processes -> Loads]
  BY DEF LoadsHold
<1>2. \A q \in Processes : process'[q] = IF q = p THEN load ELSE process[q]
  BY DEF LoadsHold
<1> QED
  BY <1>1, <1>2 DEF LoadsHold

LEMMA KnownHoldsAfter ==
    ASSUME KnownHolds, NEW p \in Processes, NEW a \in Addons, NEW c \in Contents,
           NEW locator \in Locators, locator.stamp = c,
           known' = [known EXCEPT ![p][a][c] = locator]
    PROVE  KnownHolds'
<1>1. known' \in [Processes -> [Addons -> [Contents -> Locators \union {Missing}]]]
  BY DEF KnownHolds
<1>2. ASSUME NEW q \in Processes, NEW b \in Addons, NEW d \in Contents
      PROVE  known'[q][b][d] = IF q = p /\ b = a /\ d = c THEN locator ELSE known[q][b][d]
  BY DEF KnownHolds
<1>3. ASSUME NEW q \in Processes, NEW b \in Addons, NEW d \in Contents,
             known'[q][b][d] # Missing
      PROVE  known'[q][b][d].stamp = d
  BY <1>2, <1>3 DEF KnownHolds
<1> QED
  BY <1>1, <1>3 DEF KnownHolds

LEMMA RegisterHolds ==
    ASSUME KnownHolds, NEW p \in Processes, NEW a \in Addons, NEW revision \in Contents,
           Register(p, a, revision)
    PROVE  KnownHolds'
<1> DEFINE locator == [stamp |-> revision, payload |-> revision]
<1>1. locator \in Locators /\ locator.stamp = revision
  BY DEF Locators
<1>2. known' = [known EXCEPT ![p][a][revision] = locator]
  BY DEF Register
<1> QED
  BY <1>1, <1>2, KnownHoldsAfter

\* One more step of a task, with the same revision and content.
LEMMA TaskHolds ==
    ASSUME WorkHolds, NEW p \in Processes, NEW a \in Addons,
           NEW step \in {"inspected", "reuse", "rebuild", "symbols", "manifest", "ready", "failed"},
           Task(p, a, step),
           \/ step = "failed"
           \/ step \in {"reuse", "rebuild"} /\ work[p][a].step \in Inspected
           \/ step \in Made /\ work[p][a].step \in Made
    PROVE  WorkHolds'
<1> DEFINE task == [work[p][a] EXCEPT !.step = step]
<1>1. work[p][a] \in WorkOnAddons /\ TaskFits(a, work[p][a])
  BY DEF WorkHolds
<1>2. task \in WorkOnAddons
  BY <1>1 DEF WorkOnAddons
<1>3. task.step = step /\ task.revision = work[p][a].revision
      /\ task.content = work[p][a].content
  BY <1>1 DEF WorkOnAddons
<1>4. TaskFits(a, task)
  BY <1>1, <1>3 DEF TaskFits, Inspected, Made
<1>5. work' = [work EXCEPT ![p][a] = task]
  BY DEF Task
<1> QED
  BY <1>2, <1>4, <1>5, WorkHoldsAfter

LEMMA NoLoadHolds == NoLoad \in Loads /\ LoadFits(NoLoad)
BY DEF NoLoad, Loads, LoadFits

LEMMA EmptyHolds == \A a \in Addons : Empty \in Directories /\ DirectoryFits(a, Empty)
BY DEF Empty, Directories, DirectoryFits, Revisions

LEMMA UnstartedHolds ==
    \A a \in Addons : Unstarted \in WorkOnAddons /\ TaskFits(a, Unstarted)
BY DEF Unstarted, WorkOnAddons, TaskFits, Inspected, Made, Revisions

----------------------------------------------------------------------------
\* The steps of a load.

LEMMA StartLoadHolds ==
    ASSUME CacheHolds, NEW p \in Processes, StartLoad(p)
    PROVE  CacheHolds'
<1> USE DEF CacheHolds
<1>1. PICK mode \in {"graph", "dependency", "cached", "all"}, graph \in SUBSET Addons,
           workspace \in SUBSET Addons :
              workspace \subseteq graph /\ BeginLoad(p, mode, graph, workspace)
  BY DEF StartLoad
<1> DEFINE removes == CASE mode \in {"graph", "cached"} -> Addons \ (graph \ workspace)
                        [] mode = "dependency" -> workspace
                        [] OTHER -> {}
           load == [NoLoad EXCEPT !.mode = mode,
                                  !.step = IF mode = "all" THEN "select" ELSE "remove",
                                  !.graph = graph \ workspace,
                                  !.removes = {a \in removes : store[a] # Empty}]
<1>2. process' = [process EXCEPT ![p] = load]
  BY <1>1 DEF BeginLoad
<1>3. removes \subseteq Addons
  OBVIOUS
<1>4. {a \in removes : store[a] # Empty} \subseteq Addons
  BY <1>3
<1> HIDE DEF removes
<1>5. load \in Loads /\ LoadFits(load)
  BY <1>4 DEF NoLoad, Loads, LoadFits
<1>6. LoadsHold'
  BY <1>2, <1>5, LoadsHoldAfter
<1>7. WorkHolds'
  <2>1. work' = [work EXCEPT ![p] = NoWork]
    BY <1>1 DEF BeginLoad
  <2>2. work' \in [Processes -> [Addons -> WorkOnAddons]]
    BY <2>1, UnstartedHolds DEF WorkHolds, NoWork
  <2>3. ASSUME NEW q \in Processes, NEW a \in Addons
        PROVE  TaskFits(a, work'[q][a])
    <3>1. work'[q][a] = IF q = p THEN Unstarted ELSE work[q][a]
      BY <2>1 DEF WorkHolds, NoWork
    <3> QED
      BY <3>1, UnstartedHolds DEF WorkHolds
  <2> QED
    BY <2>2, <2>3 DEF WorkHolds
<1>8. RestHolds'
  <2>1. alone' \in [Processes -> BOOLEAN]
    BY <1>1 DEF BeginLoad, RestHolds
  <2>2. loads' \in 0..MaxLoads
    BY CacheBoundsAreNaturals DEF StartLoad, RestHolds
  <2> QED
    BY <2>1, <2>2 DEF StartLoad, RestHolds, memory
<1>9. StoreHolds' /\ KnownHolds' /\ ServedHolds'
  BY DEF StartLoad, memory, StoreHolds, KnownHolds, ServedHolds
<1> QED
  BY <1>6, <1>7, <1>8, <1>9

LEMMA RemoveDirectoryHolds ==
    ASSUME CacheHolds, NEW p \in Processes, RemoveDirectory(p)
    PROVE  CacheHolds'
<1> USE DEF CacheHolds
<1>1. PICK a \in process[p].removes :
         /\ store' = [store EXCEPT ![a] = Empty]
         /\ process' = [process EXCEPT ![p].removes = @ \ {a}]
  BY DEF RemoveDirectory
<1>2. process[p] \in Loads /\ LoadFits(process[p])
  BY DEF LoadsHold
<1>3. a \in Addons
  BY <1>2 DEF Loads
<1>4. StoreHolds'
  BY <1>1, <1>3, EmptyHolds, StoreHoldsAfter
<1> DEFINE load == [process[p] EXCEPT !.removes = @ \ {a}]
<1>5. load \in Loads /\ LoadFits(load)
  BY <1>2 DEF Loads, LoadFits
<1>6. process' = [process EXCEPT ![p] = load]
  BY <1>1
<1>7. LoadsHold'
  BY <1>5, <1>6, LoadsHoldAfter
<1>8. WorkHolds' /\ KnownHolds' /\ ServedHolds' /\ RestHolds'
  BY DEF RemoveDirectory, memory, bounds, WorkHolds, KnownHolds, ServedHolds, RestHolds
<1> QED
  BY <1>4, <1>7, <1>8

LEMMA RemovalEndsHolds ==
    ASSUME CacheHolds, NEW p \in Processes, RemovalEnds(p)
    PROVE  CacheHolds'
<1> USE DEF CacheHolds
<1>1. process[p] \in Loads /\ LoadFits(process[p]) /\ process[p].step = "remove"
  BY DEF LoadsHold, RemovalEnds
<1> DEFINE load == [process[p] EXCEPT !.step =
                      IF process[p].mode = "cached" THEN "read" ELSE "inspect"]
           queue == [a \in Addons |-> IF a \in process[p].graph
                                      THEN [Unstarted EXCEPT !.step = "queued"] ELSE Unstarted]
<1>2. load \in Loads /\ LoadFits(load)
  BY <1>1 DEF Loads, LoadFits
<1>3. process' = [process EXCEPT ![p] = load]
  BY DEF RemovalEnds
<1>4. LoadsHold'
  BY <1>2, <1>3, LoadsHoldAfter
<1>5. work' = [work EXCEPT ![p] = queue]
  BY DEF RemovalEnds
<1>6. ASSUME NEW a \in Addons
      PROVE  queue[a] \in WorkOnAddons /\ TaskFits(a, queue[a])
  BY DEF Unstarted, WorkOnAddons, TaskFits, Inspected, Made, Revisions
<1>7. WorkHolds'
  <2>1. work' \in [Processes -> [Addons -> WorkOnAddons]]
    BY <1>5, <1>6 DEF WorkHolds
  <2>2. ASSUME NEW q \in Processes, NEW a \in Addons
        PROVE  TaskFits(a, work'[q][a])
    <3>1. work'[q][a] = IF q = p THEN queue[a] ELSE work[q][a]
      BY <1>5 DEF WorkHolds
    <3> QED
      BY <3>1, <1>6 DEF WorkHolds
  <2> QED
    BY <2>1, <2>2 DEF WorkHolds
<1>8. StoreHolds' /\ KnownHolds' /\ ServedHolds' /\ RestHolds'
  BY DEF RemovalEnds, memory, bounds, StoreHolds, KnownHolds, ServedHolds, RestHolds
<1> QED
  BY <1>4, <1>7, <1>8

LEMMA InspectionEndsHolds ==
    ASSUME CacheHolds, NEW p \in Processes, InspectionEnds(p)
    PROVE  CacheHolds'
<1> USE DEF CacheHolds
<1>1. process[p] \in Loads /\ LoadFits(process[p])
  BY DEF LoadsHold
<1> DEFINE load == IF "failed" \in Tasks(p) THEN NoLoad ELSE [process[p] EXCEPT !.step = "build"]
<1>2. load \in Loads /\ LoadFits(load)
  BY <1>1, NoLoadHolds DEF Loads, LoadFits, InspectionEnds
<1>3. process' = [process EXCEPT ![p] = load]
  BY DEF InspectionEnds
<1>4. LoadsHold'
  BY <1>2, <1>3, LoadsHoldAfter
<1>5. StoreHolds' /\ WorkHolds' /\ KnownHolds' /\ ServedHolds' /\ RestHolds'
  BY DEF InspectionEnds, memory, bounds, StoreHolds, WorkHolds, KnownHolds, ServedHolds, RestHolds
<1> QED
  BY <1>4, <1>5

LEMMA BuildEndsHolds ==
    ASSUME CacheHolds, NEW p \in Processes, BuildEnds(p)
    PROVE  CacheHolds'
<1> USE DEF CacheHolds
<1>1. process[p] \in Loads /\ LoadFits(process[p])
  BY DEF LoadsHold
<1> DEFINE load == IF "failed" \in Tasks(p) THEN NoLoad ELSE [process[p] EXCEPT !.step = "scan"]
<1>2. load \in Loads /\ LoadFits(load)
  BY <1>1, NoLoadHolds DEF Loads, LoadFits, BuildEnds
<1>3. process' = [process EXCEPT ![p] = load]
  BY DEF BuildEnds
<1>4. LoadsHold'
  BY <1>2, <1>3, LoadsHoldAfter
<1>5. StoreHolds' /\ WorkHolds' /\ KnownHolds' /\ ServedHolds' /\ RestHolds'
  BY DEF BuildEnds, memory, bounds, StoreHolds, WorkHolds, KnownHolds, ServedHolds, RestHolds
<1> QED
  BY <1>4, <1>5

LEMMA ScanHolds ==
    ASSUME CacheHolds, NEW p \in Processes, Scan(p)
    PROVE  CacheHolds'
<1> USE DEF CacheHolds
<1>1. process[p] \in Loads /\ LoadFits(process[p])
  BY DEF LoadsHold
<1> DEFINE load == [process[p] EXCEPT !.step = "catalogue", !.found = Described]
<1>2. load \in Loads /\ LoadFits(load)
  <2>1. Described \in SUBSET CatalogueEntries
    BY DEF Described, Metadata, CatalogueEntries, StoreHolds, Directories, Revisions
  <2> QED
    BY <1>1, <2>1 DEF Loads, LoadFits, Scan
<1>3. process' = [process EXCEPT ![p] = load]
  BY DEF Scan
<1>4. LoadsHold'
  BY <1>2, <1>3, LoadsHoldAfter
<1>5. StoreHolds' /\ WorkHolds' /\ KnownHolds' /\ ServedHolds' /\ RestHolds'
  BY DEF Scan, memory, bounds, StoreHolds, WorkHolds, KnownHolds, ServedHolds, RestHolds
<1> QED
  BY <1>4, <1>5

LEMMA WriteCatalogueHolds ==
    ASSUME CacheHolds, NEW p \in Processes, WriteCatalogue(p)
    PROVE  CacheHolds'
<1> USE DEF CacheHolds
<1>1. process[p] \in Loads /\ LoadFits(process[p]) /\ process[p].step = "catalogue"
  BY DEF LoadsHold, WriteCatalogue
<1> DEFINE load == [process[p] EXCEPT !.step = AfterCatalogue(p),
                                      !.graph = IF process[p].mode = "all"
                                                THEN AddonsOf(process[p].found) ELSE @]
<1>2. load \in Loads /\ LoadFits(load)
  <2>1. AddonsOf(process[p].found) \in SUBSET Addons
    BY <1>1 DEF AddonsOf, Loads, CatalogueEntries
  <2> QED
    BY <1>1, <2>1 DEF Loads, LoadFits, AfterCatalogue
<1>3. process' = [process EXCEPT ![p] = load]
  BY DEF WriteCatalogue
<1>4. LoadsHold'
  BY <1>2, <1>3, LoadsHoldAfter
<1>5. RestHolds'
  BY <1>1 DEF WriteCatalogue, RestHolds, Loads, memory, bounds
<1>6. StoreHolds' /\ WorkHolds' /\ KnownHolds' /\ ServedHolds'
  BY DEF WriteCatalogue, memory, StoreHolds, WorkHolds, KnownHolds, ServedHolds
<1> QED
  BY <1>4, <1>5, <1>6

LEMMA SelectHolds ==
    ASSUME CacheHolds, NEW p \in Processes, Select(p)
    PROVE  CacheHolds'
<1> USE DEF CacheHolds
<1>1. process[p] \in Loads /\ LoadFits(process[p]) /\ process[p].step = "select"
  BY DEF LoadsHold, Select
<1> DEFINE load == IF Trusted THEN [process[p] EXCEPT !.step = "read", !.found = catalogue,
                                                      !.graph = AddonsOf(catalogue)]
                   ELSE [process[p] EXCEPT !.step = "scan"]
<1>2. Trusted => catalogue \in SUBSET CatalogueEntries /\ AddonsOf(catalogue) \in SUBSET Addons
  BY DEF Trusted, RestHolds, AddonsOf, CatalogueEntries
<1>3. load \in Loads /\ LoadFits(load)
  BY <1>1, <1>2 DEF Loads, LoadFits
<1>4. process' = [process EXCEPT ![p] = load]
  BY DEF Select
<1>5. LoadsHold'
  BY <1>3, <1>4, LoadsHoldAfter
<1>6. StoreHolds' /\ WorkHolds' /\ KnownHolds' /\ ServedHolds' /\ RestHolds'
  BY DEF Select, memory, bounds, StoreHolds, WorkHolds, KnownHolds, ServedHolds, RestHolds
<1> QED
  BY <1>5, <1>6

LEMMA ReadEndsHolds ==
    ASSUME CacheHolds, NEW p \in Processes, ReadEnds(p)
    PROVE  CacheHolds'
<1> USE DEF CacheHolds
<1>1. process[p] \in Loads /\ LoadFits(process[p])
  BY DEF LoadsHold
<1> DEFINE load == [process[p] EXCEPT !.step = "done"]
<1>2. load \in Loads /\ LoadFits(load)
  BY <1>1, NoLoadHolds DEF Loads, LoadFits, ReadEnds
<1>3. process' = [process EXCEPT ![p] = load]
  BY DEF ReadEnds
<1>4. LoadsHold'
  BY <1>2, <1>3, LoadsHoldAfter
<1>5. StoreHolds' /\ WorkHolds' /\ KnownHolds' /\ ServedHolds' /\ RestHolds'
  BY DEF ReadEnds, memory, bounds, StoreHolds, WorkHolds, KnownHolds, ServedHolds, RestHolds
<1> QED
  BY <1>4, <1>5

LEMMA FinishHolds ==
    ASSUME CacheHolds, NEW p \in Processes, Finish(p)
    PROVE  CacheHolds'
<1> USE DEF CacheHolds
<1>1. process[p] \in Loads /\ LoadFits(process[p])
  BY DEF LoadsHold
<1> DEFINE load == NoLoad
<1>2. load \in Loads /\ LoadFits(load)
  BY <1>1, NoLoadHolds DEF Loads, LoadFits, Finish
<1>3. process' = [process EXCEPT ![p] = load]
  BY DEF Finish
<1>4. LoadsHold'
  BY <1>2, <1>3, LoadsHoldAfter
<1>5. StoreHolds' /\ WorkHolds' /\ KnownHolds' /\ ServedHolds' /\ RestHolds'
  BY DEF Finish, memory, bounds, StoreHolds, WorkHolds, KnownHolds, ServedHolds, RestHolds
<1> QED
  BY <1>4, <1>5

LEMMA CancelHolds ==
    ASSUME CacheHolds, NEW p \in Processes, Cancel(p)
    PROVE  CacheHolds'
<1> USE DEF CacheHolds
<1>1. process[p] \in Loads /\ LoadFits(process[p])
  BY DEF LoadsHold
<1> DEFINE load == [process[p] EXCEPT !.cancelled = TRUE]
<1>2. load \in Loads /\ LoadFits(load)
  BY <1>1 DEF Loads, LoadFits
<1>3. process' = [process EXCEPT ![p] = load]
  BY DEF Cancel
<1>4. LoadsHold'
  BY <1>2, <1>3, LoadsHoldAfter
<1>5. RestHolds'
  BY CacheBoundsAreNaturals DEF Cancel, RestHolds, memory
<1>6. StoreHolds' /\ WorkHolds' /\ KnownHolds' /\ ServedHolds'
  BY DEF Cancel, memory, StoreHolds, WorkHolds, KnownHolds, ServedHolds
<1> QED
  BY <1>4, <1>5, <1>6

LEMMA RemovedIsADirectory ==
    ASSUME NEW a \in Addons, NEW directory \in Directories, DirectoryFits(a, directory),
           NEW files \in SUBSET {"symbols", "manifest", "header"}
    PROVE  Removed(directory, files) \in Directories /\ DirectoryFits(a, Removed(directory, files))
<1>1. DOMAIN directory = {"symbols", "manifest", "header"}
  BY DEF Directories
<1>2. \A file \in {"symbols", "manifest", "header"} :
         Removed(directory, files)[file] \in {Missing, directory[file]}
  BY <1>1 DEF Removed
<1>3. Removed(directory, files) =
         [symbols |-> Removed(directory, files).symbols,
          manifest |-> Removed(directory, files).manifest,
          header |-> Removed(directory, files).header]
  BY <1>1 DEF Removed
<1> QED
  BY <1>2, <1>3 DEF Directories, Revisions, DirectoryFits

LEMMA CrashHolds ==
    ASSUME CacheHolds, NEW p \in Processes, Crash(p)
    PROVE  CacheHolds'
<1> USE DEF CacheHolds
<1>1. LoadsHold'
  BY NoLoadHolds, LoadsHoldAfter DEF Crash, Forget
<1>2. WorkHolds'
  <2>1. work' = [work EXCEPT ![p] = NoWork]
    BY DEF Crash, Forget
  <2>2. work' \in [Processes -> [Addons -> WorkOnAddons]]
    BY <2>1, UnstartedHolds DEF WorkHolds, NoWork
  <2>3. ASSUME NEW q \in Processes, NEW a \in Addons
        PROVE  TaskFits(a, work'[q][a])
    <3>1. work'[q][a] = IF q = p THEN Unstarted ELSE work[q][a]
      BY <2>1 DEF WorkHolds, NoWork
    <3> QED
      BY <3>1, UnstartedHolds DEF WorkHolds
  <2> QED
    BY <2>2, <2>3 DEF WorkHolds
<1>3. KnownHolds'
  <2>1. known' = [known EXCEPT ![p] = [a \in Addons |-> [c \in Contents |-> Missing]]]
    BY DEF Crash, Forget
  <2>2. known' \in [Processes -> [Addons -> [Contents -> Locators \union {Missing}]]]
    BY <2>1 DEF KnownHolds
  <2>3. ASSUME NEW q \in Processes, NEW a \in Addons, NEW c \in Contents
        PROVE  known'[q][a][c] = IF q = p THEN Missing ELSE known[q][a][c]
    BY <2>1 DEF KnownHolds
  <2> QED
    BY <2>2, <2>3 DEF KnownHolds
<1>4. StoreHolds'
  <2>1. CASE UNCHANGED store
    BY <2>1 DEF StoreHolds
  <2>2. CASE \E a \in process[p].removes, files \in SUBSET {"symbols", "manifest", "header"} :
                store' = [store EXCEPT ![a] = Removed(@, files)]
    <3>1. PICK a \in process[p].removes, files \in SUBSET {"symbols", "manifest", "header"} :
             store' = [store EXCEPT ![a] = Removed(store[a], files)]
      BY <2>2
    <3>2. a \in Addons
      BY DEF LoadsHold, Loads
    <3>3. store[a] \in Directories /\ DirectoryFits(a, store[a])
      BY <3>2 DEF StoreHolds
    <3> QED
      BY <3>1, <3>2, <3>3, RemovedIsADirectory, StoreHoldsAfter
  <2> QED
    BY <2>1, <2>2 DEF Crash
<1>5. RestHolds'
  <2>1. roots' \in [Processes -> [Addons -> SUBSET Contents]]
    BY DEF Crash, Forget, RestHolds
  <2> QED
    BY <2>1, CacheBoundsAreNaturals DEF Crash, RestHolds
<1>6. ServedHolds'
  BY DEF Crash, ServedHolds
<1> QED
  BY <1>1, <1>2, <1>3, <1>4, <1>5, <1>6

----------------------------------------------------------------------------
\* The steps of a task.

LEMMA InspectAddonHolds ==
    ASSUME CacheHolds, NEW p \in Processes, NEW a \in Addons, InspectAddon(p, a)
    PROVE  CacheHolds'
<1> USE DEF CacheHolds
<1>1. CASE process[p].cancelled
  <2>1. Task(p, a, "failed")
    BY <1>1 DEF InspectAddon
  <2>2. WorkHolds'
    BY <2>1, TaskHolds
  <2> QED
    BY <2>2 DEF InspectAddon, memory, bounds, StoreHolds, LoadsHold, KnownHolds, ServedHolds,
                RestHolds
<1>2. CASE ~process[p].cancelled
  <2> DEFINE task == [step |-> "inspected", revision |-> source[a], content |-> Missing]
  <2>1. work' = [work EXCEPT ![p][a] = task]
    BY <1>2 DEF InspectAddon
  <2>2. source[a] \in Contents
    BY DEF RestHolds
  <2>3. task \in WorkOnAddons /\ TaskFits(a, task)
    BY <2>2 DEF WorkOnAddons, TaskFits, Inspected, Made, Revisions
  <2>4. WorkHolds'
    BY <2>1, <2>3, WorkHoldsAfter
  <2> QED
    BY <2>4 DEF InspectAddon, memory, bounds, StoreHolds, LoadsHold, KnownHolds, ServedHolds,
                RestHolds
<1> QED
  BY <1>1, <1>2

LEMMA CheckHolds ==
    ASSUME CacheHolds, NEW p \in Processes, NEW a \in Addons, Check(p, a)
    PROVE  CacheHolds'
<1> USE DEF CacheHolds
<1>1. work[p][a].step \in Inspected
  BY DEF Check, InTask, Inspected
<1>2. \E step \in {"failed", "reuse", "rebuild"} : Task(p, a, step)
  BY DEF Check
<1>3. WorkHolds'
  BY <1>1, <1>2, TaskHolds
<1> QED
  BY <1>3 DEF Check, memory, bounds, StoreHolds, LoadsHold, KnownHolds, ServedHolds, RestHolds

LEMMA LoadHolds ==
    ASSUME CacheHolds, NEW p \in Processes, NEW a \in Addons, Load(p, a)
    PROVE  CacheHolds'
<1> USE DEF CacheHolds
<1>1. work[p][a].step \in Inspected
  BY DEF Load, InTask, Inspected
<1>2. work[p][a] \in WorkOnAddons /\ work[p][a].revision \in Contents
  BY <1>1 DEF WorkHolds, TaskFits
<1>3. StoreHolds' /\ LoadsHold' /\ ServedHolds' /\ RestHolds'
  BY DEF Load, bounds, StoreHolds, LoadsHold, ServedHolds, RestHolds
<1>4. CASE Validates(a, work[p][a].revision)
  <2> DEFINE task == [work[p][a] EXCEPT !.step = "ready", !.content = store[a].symbols.content]
  <2>1. work' = [work EXCEPT ![p][a] = task]
    BY <1>4 DEF Load, WorkHolds
  <2>2. store[a].symbols \in Indexes /\ store[a].symbols.revision = work[p][a].revision
        /\ DirectoryFits(a, store[a]) /\ store[a].symbols # Missing
    BY <1>4 DEF StoreHolds, Directories, Validates
  <2>3. task \in WorkOnAddons /\ task.revision = work[p][a].revision
        /\ task.content = store[a].symbols.content
    BY <1>2, <2>2 DEF WorkOnAddons, Revisions, Indexes
  <2>4. TaskFits(a, task)
    BY <1>2, <2>2, <2>3 DEF TaskFits, DirectoryFits, Indexes
  <2>5. WorkHolds'
    BY <2>1, <2>3, <2>4, WorkHoldsAfter
  <2>6. KnownHolds'
    BY <1>2, <1>4, RegisterHolds DEF Load
  <2> QED
    BY <1>3, <2>5, <2>6
<1>5. CASE ~Validates(a, work[p][a].revision)
  <2>1. Task(p, a, "rebuild") /\ UNCHANGED known
    BY <1>5 DEF Load
  <2>2. WorkHolds'
    BY <1>1, <2>1, TaskHolds
  <2> QED
    BY <1>3, <2>1, <2>2 DEF KnownHolds
<1> QED
  BY <1>4, <1>5

LEMMA BuildHolds ==
    ASSUME CacheHolds, NEW p \in Processes, NEW a \in Addons, Build(p, a)
    PROVE  CacheHolds'
<1> USE DEF CacheHolds
<1>1. work[p][a] \in WorkOnAddons /\ work[p][a].revision \in Contents
  BY DEF Build, InTask, WorkHolds, TaskFits, Inspected
<1>2. WorkHolds'
  <2>1. CASE process[p].cancelled \/ ~Readable(p, a)
    BY <2>1, TaskHolds DEF Build
  <2>2. CASE ~(process[p].cancelled \/ ~Readable(p, a))
    <3> DEFINE task == [work[p][a] EXCEPT !.step = "built", !.content = source[a]]
    <3>1. work' = [work EXCEPT ![p][a] = task]
      BY <2>2 DEF Build, WorkHolds
    <3>2. source[a] \in Contents
      BY DEF RestHolds
    <3>3. a \in Packed => source[a] = work[p][a].revision
      BY <2>2 DEF Readable
    <3>4. task \in WorkOnAddons /\ task.revision = work[p][a].revision /\ task.content = source[a]
      BY <1>1, <3>2 DEF WorkOnAddons, Revisions
    <3>5. TaskFits(a, task)
      BY <1>1, <3>2, <3>3, <3>4 DEF TaskFits
    <3> QED
      BY <3>1, <3>4, <3>5, WorkHoldsAfter
  <2> QED
    BY <2>1, <2>2
<1> QED
  BY <1>2 DEF Build, memory, bounds, StoreHolds, LoadsHold, KnownHolds, ServedHolds, RestHolds

LEMMA WriteSymbolsHolds ==
    ASSUME CacheHolds, NEW p \in Processes, NEW a \in Addons, WriteSymbols(p, a)
    PROVE  CacheHolds'
<1> USE DEF CacheHolds
<1>1. work[p][a].step \in Made /\ TaskFits(a, work[p][a])
  BY DEF WriteSymbols, InTask, Made, WorkHolds
<1>2. WorkHolds'
  BY <1>1, TaskHolds DEF WriteSymbols, Made
<1> DEFINE index == [revision |-> work[p][a].revision, content |-> work[p][a].content]
           directory == [store[a] EXCEPT !.symbols = index]
<1>3. index \in Indexes
  BY <1>1 DEF TaskFits, Inspected, Indexes
<1>4. directory \in Directories /\ DirectoryFits(a, directory)
  <2>1. store[a] \in Directories
    BY DEF StoreHolds
  <2>2. directory \in Directories /\ directory.symbols = index
    BY <1>3, <2>1 DEF Directories
  <2> QED
    BY <1>1, <2>2 DEF DirectoryFits, TaskFits
<1>5. store' = [store EXCEPT ![a] = directory]
  BY DEF WriteSymbols
<1>6. StoreHolds'
  BY <1>4, <1>5, StoreHoldsAfter
<1> QED
  BY <1>2, <1>6 DEF WriteSymbols, memory, bounds, LoadsHold, KnownHolds, ServedHolds, RestHolds

LEMMA MetadataHolds ==
    ASSUME StoreHolds, NEW a \in Addons, NEW revision \in Contents,
           \/ store' = [store EXCEPT ![a].manifest = revision]
           \/ store' = [store EXCEPT ![a].header = revision]
    PROVE  StoreHolds'
<1>1. store[a] \in Directories /\ DirectoryFits(a, store[a])
  BY DEF StoreHolds
<1>2. PICK directory \in {[store[a] EXCEPT !.manifest = revision],
                          [store[a] EXCEPT !.header = revision]} :
         store' = [store EXCEPT ![a] = directory]
  OBVIOUS
<1>3. directory \in Directories /\ directory.symbols = store[a].symbols
  BY <1>1, <1>2 DEF Directories, Revisions
<1>4. DirectoryFits(a, directory)
  BY <1>1, <1>3 DEF DirectoryFits
<1> QED
  BY <1>2, <1>3, <1>4, StoreHoldsAfter

LEMMA WriteManifestHolds ==
    ASSUME CacheHolds, NEW p \in Processes, NEW a \in Addons, WriteManifest(p, a)
    PROVE  CacheHolds'
<1> USE DEF CacheHolds
<1>1. work[p][a].step \in Made /\ work[p][a].revision \in Contents
  BY DEF WriteManifest, InTask, Made, Inspected, WorkHolds, TaskFits
<1>2. WorkHolds'
  BY <1>1, TaskHolds DEF WriteManifest, Fail, Made
<1>3. StoreHolds'
  <2>1. CASE process[p].cancelled
    BY <2>1 DEF WriteManifest, Fail, StoreHolds
  <2>2. CASE ~process[p].cancelled
    BY <1>1, <2>2, MetadataHolds DEF WriteManifest
  <2> QED
    BY <2>1, <2>2
<1>4. UNCHANGED memory
  BY DEF WriteManifest, Fail
<1> QED
  BY <1>2, <1>3, <1>4 DEF WriteManifest, memory, bounds, LoadsHold, KnownHolds, ServedHolds,
                          RestHolds

LEMMA WriteHeaderHolds ==
    ASSUME CacheHolds, NEW p \in Processes, NEW a \in Addons, WriteHeader(p, a)
    PROVE  CacheHolds'
<1> USE DEF CacheHolds
<1>1. work[p][a].step \in Made /\ work[p][a].revision \in Contents
  BY DEF WriteHeader, InTask, Made, Inspected, WorkHolds, TaskFits
<1>2. WorkHolds'
  BY <1>1, TaskHolds DEF WriteHeader, Made
<1>3. StoreHolds'
  BY <1>1, MetadataHolds DEF WriteHeader
<1>4. KnownHolds'
  BY <1>1, RegisterHolds DEF WriteHeader
<1> QED
  BY <1>2, <1>3, <1>4 DEF WriteHeader, bounds, LoadsHold, ServedHolds, RestHolds

LEMMA WriteFailsHolds ==
    ASSUME CacheHolds, NEW p \in Processes, NEW a \in Addons, WriteFails(p, a)
    PROVE  CacheHolds'
<1> USE DEF CacheHolds
<1>1. WorkHolds'
  BY TaskHolds DEF WriteFails, Fail
<1>2. RestHolds'
  BY CacheBoundsAreNaturals DEF WriteFails, Fail, memory, RestHolds
<1> QED
  BY <1>1, <1>2 DEF WriteFails, Fail, memory, StoreHolds, LoadsHold, KnownHolds, ServedHolds

LEMMA ReadCachedHolds ==
    ASSUME CacheHolds, NEW p \in Processes, NEW a \in Addons, ReadCached(p, a)
    PROVE  CacheHolds'
<1> USE DEF CacheHolds
<1>1. StoreHolds' /\ LoadsHold' /\ KnownHolds' /\ ServedHolds'
  BY DEF ReadCached, StoreHolds, LoadsHold, KnownHolds, ServedHolds
<1>2. CASE process[p].cancelled \/ store[a].symbols = Missing
  <2>1. Task(p, a, "failed") /\ UNCHANGED roots
    BY <1>2 DEF ReadCached
  <2>2. WorkHolds'
    BY <2>1, TaskHolds
  <2> QED
    BY <1>1, <2>1, <2>2 DEF ReadCached, bounds, RestHolds
<1>3. CASE ~(process[p].cancelled \/ store[a].symbols = Missing)
  <2> DEFINE task == [step |-> "ready", revision |-> store[a].symbols.revision,
                      content |-> store[a].symbols.content]
  <2>1. work' = [work EXCEPT ![p][a] = task]
        /\ roots' = [roots EXCEPT ![p][a] = @ \union RootRevisions(p, a)]
    BY <1>3 DEF ReadCached
  <2>2. store[a].symbols \in Indexes /\ DirectoryFits(a, store[a]) /\ store[a].symbols # Missing
    BY <1>3 DEF StoreHolds, Directories
  <2>3. task \in WorkOnAddons /\ TaskFits(a, task)
    BY <2>2 DEF WorkOnAddons, Revisions, Indexes, TaskFits, DirectoryFits
  <2>4. WorkHolds'
    BY <2>1, <2>3, WorkHoldsAfter
  <2>5. roots' \in [Processes -> [Addons -> SUBSET Contents]]
    <3>1. process[p].found \in SUBSET CatalogueEntries
      BY DEF LoadsHold, Loads
    <3>2. RootRevisions(p, a) \in SUBSET Contents
      BY <2>2, <3>1 DEF RootRevisions, CatalogueEntries, Indexes
    <3> QED
      BY <2>1, <3>2 DEF RestHolds
  <2> QED
    BY <1>1, <2>4, <2>5 DEF ReadCached, bounds, RestHolds
<1> QED
  BY <1>2, <1>3

LEMMA ReadVirtualHolds ==
    ASSUME CacheHolds, NEW p \in Processes, NEW a \in Addons, NEW revision \in Contents,
           ReadVirtual(p, a, revision)
    PROVE  CacheHolds'
<1> USE DEF CacheHolds
<1> DEFINE locator == Locator(p, a, revision)
<1>1. locator \in Locators /\ locator.stamp = revision
  <2>1. CASE known[p][a][revision] # Missing
    BY <2>1 DEF KnownHolds, Locator
  <2>2. CASE known[p][a][revision] = Missing
    <3>1. store[a].symbols # Missing
          /\ locator = [stamp |-> revision, payload |-> store[a].symbols.revision]
      BY <2>2 DEF ReadVirtual, Locator
    <3>2. store[a].symbols.revision \in Contents
      BY <3>1 DEF StoreHolds, Directories, Indexes
    <3> QED
      BY <3>1, <3>2 DEF Locators
  <2> QED
    BY <2>1, <2>2
<1>2. known' = [known EXCEPT ![p][a][revision] = locator]
  BY DEF ReadVirtual
<1> HIDE DEF locator
<1>3. KnownHolds'
  BY <1>1, <1>2, KnownHoldsAfter
<1>4. served' = served \/ served' = [asked |-> revision, text |-> revision]
  BY <1>1 DEF ReadVirtual, locator
<1>5. ServedHolds'
  BY <1>4 DEF ServedHolds, Revisions
<1>6. StoreHolds' /\ WorkHolds' /\ LoadsHold' /\ RestHolds'
  BY DEF ReadVirtual, bounds, StoreHolds, WorkHolds, LoadsHold, RestHolds
<1> QED
  BY <1>3, <1>5, <1>6

LEMMA EditSourceHolds ==
    ASSUME CacheHolds, NEW a \in Addons, EditSource(a)
    PROVE  CacheHolds'
<1>1. RestHolds'
  BY CacheBoundsAreNaturals DEF CacheHolds, EditSource, memory, RestHolds
<1> QED
  BY <1>1 DEF CacheHolds, EditSource, memory, StoreHolds, WorkHolds, LoadsHold, KnownHolds,
              ServedHolds

----------------------------------------------------------------------------
LEMMA CacheHoldsInit == CacheInit => CacheHolds
<1> SUFFICES ASSUME CacheInit PROVE CacheHolds
  OBVIOUS
<1>1. StoreHolds
  BY EmptyHolds DEF CacheInit, StoreHolds
<1>2. WorkHolds
  BY UnstartedHolds DEF CacheInit, WorkHolds, NoWork
<1>3. LoadsHold
  BY NoLoadHolds DEF CacheInit, LoadsHold
<1>4. KnownHolds
  BY DEF CacheInit, KnownHolds
<1>5. ServedHolds
  BY DEF CacheInit, ServedHolds, Revisions
<1>6. RestHolds
  <2>1. (CHOOSE content \in Contents : TRUE) \in Contents
    BY PacksAreAddons
  <2> QED
    BY <2>1, CacheBoundsAreNaturals DEF CacheInit, RestHolds
<1> QED
  BY <1>1, <1>2, <1>3, <1>4, <1>5, <1>6 DEF CacheHolds

LEMMA CacheHoldsNext == CacheHolds /\ [CacheNext]_cacheVars => CacheHolds'
<1> SUFFICES ASSUME CacheHolds, [CacheNext]_cacheVars PROVE CacheHolds'
  OBVIOUS
<1>1. ASSUME NEW p \in Processes, StartLoad(p) \/ LoadStep(p) \/ Crash(p) \/ Cancel(p)
      PROVE  CacheHolds'
  BY <1>1, StartLoadHolds, RemoveDirectoryHolds, RemovalEndsHolds, InspectionEndsHolds,
     BuildEndsHolds, ScanHolds, WriteCatalogueHolds, SelectHolds, ReadEndsHolds, FinishHolds,
     CrashHolds, CancelHolds DEF LoadStep
<1>2. ASSUME NEW p \in Processes, NEW a \in Addons, TaskStep(p, a) \/ WriteFails(p, a)
      PROVE  CacheHolds'
  BY <1>2, InspectAddonHolds, CheckHolds, LoadHolds, BuildHolds, WriteSymbolsHolds,
     WriteManifestHolds, WriteHeaderHolds, ReadCachedHolds, WriteFailsHolds DEF TaskStep
<1>3. CASE UNCHANGED cacheVars
  BY <1>3 DEF cacheVars, CacheHolds, StoreHolds, WorkHolds, LoadsHold, KnownHolds,
              ServedHolds, RestHolds
<1> QED
  BY <1>1, <1>2, <1>3, ReadVirtualHolds, EditSourceHolds DEF CacheNext

LEMMA CacheAlwaysHolds == CacheSpec => []CacheHolds
BY CacheHoldsInit, CacheHoldsNext, PTL DEF CacheSpec

(***************************************************************************)
(* The types of the store, of every process's load and tasks, and of what  *)
(* processes remember: no step reads a revision it has not got.            *)
(***************************************************************************)
THEOREM CacheTypeCorrect == CacheSpec => []CacheTypeOK
<1>1. CacheHolds => CacheTypeOK
  BY DEF CacheHolds, CacheTypeOK, StoreHolds, WorkHolds, LoadsHold, KnownHolds, ServedHolds,
         RestHolds
<1> QED
  BY <1>1, CacheAlwaysHolds, PTL

(***************************************************************************)
(* Rival writers, half-written directories, cancelled and failed loads and *)
(* packs that change at any moment: the index an authoritative load hands  *)
(* on for a packed add-on is made from the scripts of the revision it      *)
(* inspected, and a virtual document shows the text of the revision asked  *)
(* for.                                                                    *)
(***************************************************************************)
THEOREM RevisionsStayTrue == CacheSpec => []RevisionsAreTrue
<1>1. CacheHolds => LoadedIsInspected
  BY PacksAreAddons DEF CacheHolds, WorkHolds, TaskFits, Made, LoadedIsInspected
<1>2. CacheHolds => ReadsAreOfTheirRevision
  BY DEF CacheHolds, ServedHolds, ReadsAreOfTheirRevision
<1> QED
  BY <1>1, <1>2, CacheAlwaysHolds, PTL DEF RevisionsAreTrue

----------------------------------------------------------------------------
(* Repairs.  A busy process takes a step of its own load; if another is    *)
(* alone with its load, that other is not busy.                            *)

Advances(p) ==
    /\ Busy(p) /\ UNCHANGED alone
    /\ \A q \in Others(p) : process'[q] = process[q] /\ work'[q] = work[q]

LEMMA AdvancesAlone ==
    ASSUME CacheMends, NEW p \in Processes, Advances(p),
           Repairing(p)' => \A a \in process'[p].graph :
               /\ Mended(store'[a], work'[p][a])
               /\ process'[p].step # "build" => work'[p][a].step = "ready"
    PROVE  OnlyOneIsBusy' /\ Repairs'
<1>1. ASSUME NEW q \in Processes
      PROVE  Busy(q)' => Busy(q)
  BY DEF Advances, Others, Busy
<1>2. OnlyOneIsBusy'
  <2> SUFFICES ASSUME NEW q \in Processes, NEW r \in Processes,
                      alone'[q], Busy(q)', Busy(r)'
               PROVE  q = r
    BY DEF OnlyOneIsBusy
  <2> QED
    BY <1>1 DEF CacheMends, OnlyOneIsBusy, Advances
<1>3. Repairs'
  <2> SUFFICES ASSUME NEW q \in Processes, Repairing(q)'
               PROVE  \A a \in process'[q].graph :
                         /\ Mended(store'[a], work'[q][a])
                         /\ process'[q].step # "build" => work'[q][a].step = "ready"
    BY DEF Repairs
  <2>1. Busy(q)' /\ alone[q]
    BY DEF Repairing, Busy, Advances
  <2>2. q = p
    BY <1>1, <2>1 DEF CacheMends, OnlyOneIsBusy, Advances
  <2> QED
    BY <2>2
<1> QED
  BY <1>2, <1>3

LEMMA LoadAdvances ==
    ASSUME CacheHolds, NEW p \in Processes, LoadStep(p) \/ Crash(p) \/ Cancel(p)
    PROVE  Advances(p)
<1> USE DEF Advances, Busy, Others, CacheHolds, LoadsHold, WorkHolds
<1>1. CASE RemoveDirectory(p)
  BY <1>1 DEF RemoveDirectory
<1>2. CASE RemovalEnds(p)
  BY <1>2 DEF RemovalEnds
<1>3. CASE InspectionEnds(p)
  BY <1>3 DEF InspectionEnds
<1>4. CASE BuildEnds(p)
  BY <1>4 DEF BuildEnds
<1>5. CASE Scan(p)
  BY <1>5 DEF Scan
<1>6. CASE WriteCatalogue(p)
  BY <1>6 DEF WriteCatalogue
<1>7. CASE Select(p)
  BY <1>7 DEF Select
<1>8. CASE ReadEnds(p) \/ Finish(p)
  BY <1>8 DEF ReadEnds, Finish
<1>9. CASE Crash(p)
  BY <1>9 DEF Crash, Forget
<1>10. CASE Cancel(p)
  BY <1>10 DEF Cancel
<1> QED
  BY <1>1, <1>2, <1>3, <1>4, <1>5, <1>6, <1>7, <1>8, <1>9, <1>10 DEF LoadStep

\* What a step does to the load of its process.
LEMMA LoadBecomes ==
    ASSUME CacheHolds, NEW p \in Processes, NEW load, process' = [process EXCEPT ![p] = load]
    PROVE  process'[p] = load /\ process[p] \in Loads /\ LoadFits(process[p])
BY DEF CacheHolds, LoadsHold

\* The steps after which a load does not repair, or no longer.
LEMMA OtherLoadsMend ==
    ASSUME CacheMends, NEW p \in Processes,
           \/ RemoveDirectory(p) \/ RemovalEnds(p) \/ Select(p) \/ ReadEnds(p) \/ Finish(p)
           \/ Crash(p)
    PROVE  OnlyOneIsBusy' /\ Repairs'
<1>1. CacheHolds /\ Advances(p)
  BY LoadAdvances DEF CacheMends, LoadStep
<1>2. ~Repairing(p)'
  <2>1. CASE RemoveDirectory(p)
    <3>1. PICK a \in process[p].removes :
             process' = [process EXCEPT ![p] = [process[p] EXCEPT !.removes = @ \ {a}]]
      BY <2>1 DEF RemoveDirectory
    <3>2. process'[p].step = "remove"
      BY <1>1, <2>1, <3>1, LoadBecomes DEF Loads, RemoveDirectory
    <3> QED
      BY <3>2 DEF Repairing
  <2>2. CASE RemovalEnds(p)
    <3> DEFINE load == [process[p] EXCEPT !.step =
                          IF process[p].mode = "cached" THEN "read" ELSE "inspect"]
    <3>1. process' = [process EXCEPT ![p] = load]
      BY <2>2 DEF RemovalEnds
    <3>2. process'[p] = load /\ process[p] \in Loads
      BY <1>1, <3>1, LoadBecomes
    <3>3. process'[p].step \in {"read", "inspect"}
      BY <3>2 DEF Loads
    <3> QED
      BY <3>3 DEF Repairing
  <2>3. CASE Select(p)
    <3>1. process[p].mode \notin {"graph", "dependency"}
      BY <1>1, <2>3 DEF CacheHolds, LoadsHold, LoadFits, Select
    <3>2. process'[p].mode = process[p].mode
      BY <1>1, <2>3, LoadBecomes DEF Loads, Select
    <3> QED
      BY <3>1, <3>2 DEF Repairing
  <2>4. CASE ReadEnds(p)
    <3>1. process[p].mode \notin {"graph", "dependency"}
      BY <1>1, <2>4 DEF CacheHolds, LoadsHold, LoadFits, ReadEnds
    <3>2. process'[p].mode = process[p].mode
      BY <1>1, <2>4, LoadBecomes DEF Loads, ReadEnds
    <3> QED
      BY <3>1, <3>2 DEF Repairing
  <2>5. CASE Finish(p) \/ Crash(p)
    <3>1. process'[p] = NoLoad
      BY <1>1, <2>5, LoadBecomes DEF Finish, Crash, Forget
    <3> QED
      BY <3>1 DEF NoLoad, Repairing
  <2> QED
    BY <2>1, <2>2, <2>3, <2>4, <2>5
<1> QED
  BY <1>1, <1>2, AdvancesAlone

\* The steps of an authoritative load from one of its phases to the next.
LEMMA PhasesMend ==
    ASSUME CacheMends, NEW p \in Processes,
           InspectionEnds(p) \/ BuildEnds(p) \/ Scan(p) \/ WriteCatalogue(p) \/ Cancel(p)
    PROVE  OnlyOneIsBusy' /\ Repairs'
<1>1. CacheHolds /\ Advances(p)
  BY LoadAdvances DEF CacheMends, LoadStep
<1>2. UNCHANGED <<store, work, alone>>
  BY DEF InspectionEnds, BuildEnds, Scan, WriteCatalogue, Cancel
<1> SUFFICES ASSUME Repairing(p)', NEW a \in process'[p].graph
             PROVE  /\ Mended(store[a], work[p][a])
                    /\ process'[p].step # "build" => work[p][a].step = "ready"
  BY <1>1, <1>2, AdvancesAlone
<1>3. CASE InspectionEnds(p)
  <2>1. process'[p] = [process[p] EXCEPT !.step = "build"] /\ "failed" \notin Tasks(p)
    BY <1>1, <1>3, LoadBecomes DEF InspectionEnds, Repairing, NoLoad
  <2>2. process'[p].step = "build" /\ a \in process[p].graph
    BY <1>1, <2>1 DEF CacheHolds, LoadsHold, Loads
  <2>3. work[p][a].step \in Tasks(p)
    BY <2>2 DEF Tasks
  <2>4. work[p][a].step = "inspected"
    BY <1>3, <2>1, <2>3 DEF InspectionEnds
  <2> QED
    BY <2>2, <2>4 DEF Mended
<1>4. CASE BuildEnds(p)
  <2> DEFINE load == IF "failed" \in Tasks(p) THEN NoLoad ELSE [process[p] EXCEPT !.step = "scan"]
  <2>1. process' = [process EXCEPT ![p] = load]
    BY <1>4 DEF BuildEnds
  <2>2. process'[p] = load /\ process[p] \in Loads
    BY <1>1, <2>1, LoadBecomes
  <2>3. "failed" \notin Tasks(p)
    BY <2>2 DEF Repairing, NoLoad
  <2>4. process'[p].mode = process[p].mode /\ a \in process[p].graph
    BY <2>2, <2>3 DEF Loads
  <2>5. Repairing(p)
    BY <1>2, <1>4, <2>4 DEF Repairing, BuildEnds
  <2>6. work[p][a].step \in Tasks(p)
    BY <2>4 DEF Tasks
  <2>7. work[p][a].step = "ready"
    BY <1>4, <2>3, <2>6 DEF BuildEnds
  <2> QED
    BY <2>4, <2>5, <2>7 DEF CacheMends, Repairs
<1>5. CASE Scan(p)
  <2> DEFINE load == [process[p] EXCEPT !.step = "catalogue", !.found = Described]
  <2>0. process' = [process EXCEPT ![p] = load]
    BY <1>5 DEF Scan
  <2>1. process'[p].mode = process[p].mode /\ a \in process[p].graph
    BY <1>1, <2>0, LoadBecomes DEF Loads
  <2>2. Repairing(p) /\ process[p].step # "build"
    BY <1>2, <1>5, <2>1 DEF Repairing, Scan
  <2> QED
    BY <2>1, <2>2 DEF CacheMends, Repairs
<1>6. CASE WriteCatalogue(p)
  <2>1. process'[p].mode = process[p].mode
        /\ process'[p].graph = IF process[p].mode = "all"
                               THEN AddonsOf(process[p].found) ELSE process[p].graph
    <3> DEFINE load == [process[p] EXCEPT !.step = AfterCatalogue(p),
                                          !.graph = IF process[p].mode = "all"
                                                    THEN AddonsOf(process[p].found) ELSE @]
    <3>1. process' = [process EXCEPT ![p] = load]
      BY <1>6 DEF WriteCatalogue
    <3>2. process'[p] = load /\ process[p] \in Loads
      BY <1>1, <3>1, LoadBecomes
    <3> QED
      BY <3>2 DEF Loads
  <2>2. process[p].mode # "all" /\ a \in process[p].graph
    BY <2>1 DEF Repairing
  <2>3. Repairing(p) /\ process[p].step # "build"
    BY <1>2, <1>6, <2>1 DEF Repairing, WriteCatalogue
  <2> QED
    BY <2>2, <2>3 DEF CacheMends, Repairs
<1>7. CASE Cancel(p)
  <2>1. process'[p].mode = process[p].mode /\ process'[p].step = process[p].step
        /\ a \in process[p].graph
    BY <1>1, <1>7, LoadBecomes DEF Cancel, Loads
  <2>2. Repairing(p)
    BY <1>2, <2>1 DEF Repairing
  <2> QED
    BY <2>1, <2>2 DEF CacheMends, Repairs
<1> QED
  BY <1>3, <1>4, <1>5, <1>6, <1>7

\* A step of one task of a load that builds; the other tasks do not notice.
LEMMA TaskMends ==
    ASSUME CacheMends, NEW p \in Processes, NEW a \in Addons,
           process[p].step = "build", UNCHANGED <<process, alone>>,
           NEW directory, NEW task,
           store' = store \/ store' = [store EXCEPT ![a] = directory],
           work' = [work EXCEPT ![p][a] = task],
           Mended(store[a], work[p][a]) => Mended(store'[a], task)
    PROVE  OnlyOneIsBusy' /\ Repairs'
<1> USE DEF CacheMends, CacheHolds
<1>1. Advances(p)
  BY DEF Advances, Busy, Others, WorkHolds
<1> SUFFICES ASSUME Repairing(p)', NEW b \in process'[p].graph
             PROVE  Mended(store'[b], work'[p][b])
  BY <1>1, AdvancesAlone
<1>2. b \in process[p].graph /\ b \in Addons
  BY DEF LoadsHold, Loads
<1>3. Mended(store[b], work[p][b])
  BY <1>2 DEF Repairing, Repairs
<1>4. work'[p][b] = IF b = a THEN task ELSE work[p][b]
  BY <1>2 DEF WorkHolds
<1>5. b # a => store'[b] = store[b]
  BY <1>2 DEF StoreHolds
<1> QED
  BY <1>3, <1>4, <1>5

LEMMA WorksOn ==
    ASSUME CacheHolds, NEW p \in Processes, NEW a \in Addons
    PROVE  work[p][a] \in WorkOnAddons /\ store[a] \in Directories
BY DEF CacheHolds, StoreHolds, WorkHolds

\* The steps of a task that leave its directory alone.
LEMMA QuietTasksMend ==
    ASSUME CacheMends, NEW p \in Processes, NEW a \in Addons,
           Check(p, a) \/ Load(p, a) \/ Build(p, a) \/ WriteFails(p, a)
    PROVE  OnlyOneIsBusy' /\ Repairs'
<1>1. CacheHolds /\ work[p][a] \in WorkOnAddons
  BY WorksOn DEF CacheMends
<1>2. process[p].step = "build" /\ UNCHANGED <<process, alone, store>>
  BY DEF Check, Load, Build, WriteFails, Fail, InTask
<1> DEFINE At(step) == [work[p][a] EXCEPT !.step = step]
<1>3. ASSUME NEW step \in {"failed", "rebuild"}, Task(p, a, step)
      PROVE  OnlyOneIsBusy' /\ Repairs'
  <2>1. At(step).step = step
    BY <1>1 DEF WorkOnAddons
  <2>2. Mended(store[a], At(step))
    BY <2>1 DEF Mended
  <2>3. work' = [work EXCEPT ![p][a] = At(step)]
    BY <1>3 DEF Task
  <2> QED
    BY <1>2, <2>2, <2>3, TaskMends
<1>4. CASE Check(p, a)
  <2>1. CASE Task(p, a, "failed") \/ Task(p, a, "rebuild")
    BY <1>3, <2>1
  <2>2. CASE Task(p, a, "reuse") /\ ManifestMatches(a, work[p][a].revision)
    <3>1. At("reuse").step = "reuse" /\ At("reuse").revision = work[p][a].revision
      BY <1>1 DEF WorkOnAddons
    <3>2. Mended(store[a], At("reuse"))
      BY <2>2, <3>1 DEF Mended, ManifestMatches
    <3>3. work' = [work EXCEPT ![p][a] = At("reuse")]
      BY <2>2 DEF Task
    <3> QED
      BY <1>2, <3>2, <3>3, TaskMends
  <2> QED
    BY <1>4, <2>1, <2>2 DEF Check
<1>5. CASE Load(p, a)
  <2>1. CASE ~Validates(a, work[p][a].revision)
    BY <1>3, <1>5, <2>1 DEF Load
  <2>2. CASE Validates(a, work[p][a].revision)
    <3> DEFINE task == [work[p][a] EXCEPT !.step = "ready", !.content = store[a].symbols.content]
    <3>1. task.step = "ready" /\ task.revision = work[p][a].revision
      BY <1>1 DEF WorkOnAddons
    <3>2. work[p][a].step = "reuse"
      BY <1>5 DEF Load, InTask
    <3>3. Mended(store[a], work[p][a]) => Mended(store[a], task)
      BY <2>2, <3>1, <3>2 DEF Mended, Validates
    <3>4. work' = [work EXCEPT ![p][a] = task]
      BY <1>1, <1>5, <2>2 DEF Load, CacheHolds, WorkHolds
    <3> QED
      BY <1>2, <3>3, <3>4, TaskMends
  <2> QED
    BY <2>1, <2>2
<1>6. CASE Build(p, a)
  <2>1. CASE process[p].cancelled \/ ~Readable(p, a)
    BY <1>3, <1>6, <2>1 DEF Build
  <2>2. CASE ~(process[p].cancelled \/ ~Readable(p, a))
    <3> DEFINE task == [work[p][a] EXCEPT !.step = "built", !.content = source[a]]
    <3>1. task.step = "built"
      BY <1>1 DEF WorkOnAddons
    <3>2. Mended(store[a], task)
      BY <3>1 DEF Mended
    <3>3. work' = [work EXCEPT ![p][a] = task]
      BY <1>1, <1>6, <2>2 DEF Build, CacheHolds, WorkHolds
    <3> QED
      BY <1>2, <3>2, <3>3, TaskMends
  <2> QED
    BY <2>1, <2>2
<1>7. CASE WriteFails(p, a)
  BY <1>3, <1>7 DEF WriteFails, Fail
<1> QED
  BY <1>4, <1>5, <1>6, <1>7

\* The three files, in the order in which they are written.
LEMMA WritesMend ==
    ASSUME CacheMends, NEW p \in Processes, NEW a \in Addons,
           WriteSymbols(p, a) \/ WriteManifest(p, a) \/ WriteHeader(p, a)
    PROVE  OnlyOneIsBusy' /\ Repairs'
<1>1. CacheHolds /\ work[p][a] \in WorkOnAddons /\ store[a] \in Directories
  BY WorksOn DEF CacheMends
<1>2. process[p].step = "build" /\ UNCHANGED <<process, alone>>
  BY DEF WriteSymbols, WriteManifest, WriteHeader, Fail, InTask
<1> DEFINE At(step) == [work[p][a] EXCEPT !.step = step]
<1>3. ASSUME NEW step \in {"symbols", "manifest", "ready", "failed"}
      PROVE  At(step).step = step /\ At(step).revision = work[p][a].revision
  BY <1>1 DEF WorkOnAddons
<1>4. CASE WriteSymbols(p, a)
  <2> DEFINE index == [revision |-> work[p][a].revision, content |-> work[p][a].content]
             directory == [store[a] EXCEPT !.symbols = index]
  <2>1. work' = [work EXCEPT ![p][a] = At("symbols")]
        /\ store' = [store EXCEPT ![a] = directory]
    BY <1>4 DEF WriteSymbols, Task
  <2>2. work[p][a].revision \in Contents
    BY <1>1, <1>4 DEF WriteSymbols, InTask, CacheHolds, WorkHolds, TaskFits, Inspected, Made
  <2>3. index \in Indexes
    BY <1>1, <1>4, <2>2 DEF WriteSymbols, InTask, CacheHolds, WorkHolds, TaskFits, Made, Indexes
  <2>4. directory.symbols = index /\ index # Missing
    BY <1>1, <2>3, MissingIsNothing DEF Directories
  <2>5. Mended(directory, At("symbols"))
    BY <1>3, <2>4 DEF Mended
  <2>6. store'[a] = directory
    BY <1>1, <2>1 DEF CacheHolds, StoreHolds
  <2> QED
    BY <1>2, <2>1, <2>5, <2>6, TaskMends
<1>5. CASE WriteManifest(p, a) /\ process[p].cancelled
  <2>1. work' = [work EXCEPT ![p][a] = At("failed")] /\ store' = store
    BY <1>5 DEF WriteManifest, Fail, Task
  <2>2. Mended(store[a], At("failed"))
    BY <1>3 DEF Mended
  <2> QED
    BY <1>2, <2>1, <2>2, TaskMends
<1>6. CASE WriteManifest(p, a) /\ ~process[p].cancelled
  <2> DEFINE directory == [store[a] EXCEPT !.manifest = work[p][a].revision]
  <2>1. work' = [work EXCEPT ![p][a] = At("manifest")]
        /\ store' = [store EXCEPT ![a] = directory] /\ work[p][a].step = "symbols"
    BY <1>6 DEF WriteManifest, Task, InTask
  <2>2. directory.symbols = store[a].symbols /\ directory.manifest = work[p][a].revision
    BY <1>1 DEF Directories
  <2>3. Mended(store[a], work[p][a]) => Mended(directory, At("manifest"))
    BY <1>3, <2>1, <2>2 DEF Mended
  <2>4. store'[a] = directory
    BY <1>1, <2>1 DEF CacheHolds, StoreHolds
  <2> QED
    BY <1>2, <2>1, <2>3, <2>4, TaskMends
<1>7. CASE WriteHeader(p, a)
  <2> DEFINE directory == [store[a] EXCEPT !.header = work[p][a].revision]
  <2>1. work' = [work EXCEPT ![p][a] = At("ready")]
        /\ store' = [store EXCEPT ![a] = directory] /\ work[p][a].step = "manifest"
    BY <1>7 DEF WriteHeader, Task, InTask
  <2>2. /\ directory.symbols = store[a].symbols
        /\ directory.manifest = store[a].manifest
        /\ directory.header = work[p][a].revision
    BY <1>1 DEF Directories
  <2>3. Mended(store[a], work[p][a]) => Mended(directory, At("ready"))
    BY <1>3, <2>1, <2>2 DEF Mended
  <2>4. store'[a] = directory
    BY <1>1, <2>1 DEF CacheHolds, StoreHolds
  <2> QED
    BY <1>2, <2>1, <2>3, <2>4, TaskMends
<1> QED
  BY <1>4, <1>5, <1>6, <1>7

\* The tasks of loads that inspect, or only read.
LEMMA OtherTasksMend ==
    ASSUME CacheMends, NEW p \in Processes, NEW a \in Addons,
           InspectAddon(p, a) \/ ReadCached(p, a)
    PROVE  OnlyOneIsBusy' /\ Repairs'
<1>1. process[p].step \in {"inspect", "read"} /\ UNCHANGED <<process, alone>>
  BY DEF InspectAddon, ReadCached, InTask
<1>2. Advances(p)
  BY <1>1 DEF Advances, Busy, Others, InspectAddon, ReadCached, Task, CacheMends, CacheHolds,
              WorkHolds
<1>3. ~Repairing(p)'
  BY <1>1 DEF Repairing
<1> QED
  BY <1>2, <1>3, AdvancesAlone

LEMMA StartLoadMends ==
    ASSUME CacheMends, NEW p \in Processes, StartLoad(p)
    PROVE  OnlyOneIsBusy' /\ Repairs'
<1>1. PICK mode \in {"graph", "dependency", "cached", "all"}, graph \in SUBSET Addons,
           workspace \in SUBSET Addons :
              workspace \subseteq graph /\ BeginLoad(p, mode, graph, workspace)
  BY DEF StartLoad
<1>2. /\ alone' = [q \in Processes |-> IF q = p THEN \A o \in Others(p) : ~Busy(o)
                                                ELSE alone[q] /\ ~Busy(q)]
      /\ \A q \in Others(p) : process'[q] = process[q]
  BY <1>1 DEF BeginLoad, Others, CacheMends, CacheHolds, LoadsHold
<1>3. process'[p].step \in {"select", "remove"}
  BY <1>1, NoLoadHolds DEF BeginLoad, NoLoad, CacheMends, CacheHolds, LoadsHold, Loads
<1>4. ASSUME NEW q \in Processes, NEW r \in Processes, alone'[q], Busy(q)', Busy(r)'
      PROVE  q = r
  BY <1>2, <1>4 DEF Busy, Others
<1>5. ASSUME NEW q \in Processes
      PROVE  ~Repairing(q)'
  <2>1. CASE q = p
    BY <1>3, <2>1 DEF Repairing
  <2>2. CASE q # p
    BY <1>2, <2>2 DEF Repairing, Busy, Others
  <2> QED
    BY <2>1, <2>2
<1> QED
  BY <1>4, <1>5 DEF OnlyOneIsBusy, Repairs

LEMMA RestMends ==
    ASSUME CacheMends, UNCHANGED <<store, process, work, alone>>
    PROVE  OnlyOneIsBusy' /\ Repairs'
BY DEF CacheMends, OnlyOneIsBusy, Repairs, Repairing, Busy

LEMMA CacheMendsNext == CacheMends /\ [CacheNext]_cacheVars => CacheMends'
<1> SUFFICES ASSUME CacheMends, [CacheNext]_cacheVars PROVE OnlyOneIsBusy' /\ Repairs'
  BY CacheHoldsNext DEF CacheMends
<1>1. ASSUME NEW p \in Processes, StartLoad(p) \/ LoadStep(p) \/ Crash(p) \/ Cancel(p)
      PROVE  OnlyOneIsBusy' /\ Repairs'
  BY <1>1, StartLoadMends, OtherLoadsMend, PhasesMend DEF LoadStep
<1>2. ASSUME NEW p \in Processes, NEW a \in Addons, TaskStep(p, a) \/ WriteFails(p, a)
      PROVE  OnlyOneIsBusy' /\ Repairs'
  BY <1>2, OtherTasksMend, QuietTasksMend, WritesMend DEF TaskStep
<1>3. ASSUME NEW p \in Processes, NEW a \in Addons, NEW revision \in Contents,
             ReadVirtual(p, a, revision)
      PROVE  OnlyOneIsBusy' /\ Repairs'
  BY <1>3, RestMends DEF ReadVirtual
<1>4. ASSUME NEW a \in Addons, EditSource(a)
      PROVE  OnlyOneIsBusy' /\ Repairs'
  BY <1>4, RestMends DEF EditSource
<1>5. CASE UNCHANGED cacheVars
  BY <1>5, RestMends DEF cacheVars
<1> QED
  BY <1>1, <1>2, <1>3, <1>4, <1>5 DEF CacheNext

(***************************************************************************)
(* An authoritative load that nobody disturbs leaves every add-on's        *)
(* directory with an index and metadata of the one revision it loaded,     *)
(* whatever earlier processes left there.                                  *)
(***************************************************************************)
THEOREM DirectoriesStayRepaired == CacheSpec => []DirectoriesAreRepaired
<1>1. CacheInit => CacheMends
  <2> SUFFICES ASSUME CacheInit PROVE OnlyOneIsBusy /\ Repairs
    BY CacheHoldsInit DEF CacheMends
  <2> QED
    BY DEF CacheInit, OnlyOneIsBusy, Repairs, Repairing
<1>2. CacheMends => DirectoriesAreRepaired
  BY DEF CacheMends, Repairs, Repairing, Mended, DirectoriesAreRepaired
<1> QED
  BY <1>1, <1>2, CacheMendsNext, PTL DEF CacheSpec

(***************************************************************************)
(* The control of processes.                                               *)
(***************************************************************************)
CallRecords ==
    [op : Ops, phase : Phases, target : Process \cup {None},
     project : Projects \cup {None}, saver : Process \cup {None},
     forced : BOOLEAN, blind : BOOLEAN, answer : Answers]

CallShape(c) ==
    /\ call[c].phase \in {"list", "spawn"} => call[c].project \in Projects
    /\ call[c].phase \in {"save", "close", "exit"} =>
            /\ call[c].target \in Process
            /\ \/ call[c].op = "stop" /\ call[c].target \in observed
               \/ call[c].op = "restart" /\ call[c].project \in Projects

Shapes == TypeOK /\ \A c \in Calls : CallShape(c)

Chosen == {call[c].target : c \in Calls} \cap Process
Seen == running \cup observed \cup Chosen

StartsIdentify ==
    /\ \A p \in Seen : p.start <= started
    /\ \A p, q \in Seen : p.start = q.start => p = q

(* A call that has closed its target knows that it was asked to close, and  *)
(* from a listing that did not fail that it is gone.                        *)
Going(c) == call[c].target \in closing \cup killed \/ call[c].target \notin running

TargetKnown(c) ==
    /\ call[c].phase = "exit" => Going(c)
    /\ call[c].phase = "exit" /\ ~call[c].forced =>
            call[c].target \in closing \/ call[c].target \notin running
    /\ call[c].answer = "exited" =>
            /\ call[c].phase = "answered" /\ Going(c)
            /\ call[c].blind \/ call[c].target \notin running
    /\ call[c].op = "restart" /\ call[c].phase \in {"list", "spawn"} => Going(c)
    /\ call[c].op = "restart" /\ call[c].phase = "spawn" =>
            call[c].blind \/ call[c].target \notin running

ControlInv == Shapes /\ StartsIdentify /\ \A c \in Calls : TargetKnown(c)

(* A step of one call leaves the others as they are. *)
OnlyCall(c) ==
    /\ call' \in [Calls -> CallRecords]
    /\ \A d \in Calls : d # c => call'[d] = call[d]

-----------------------------------------------------------------------------
(* What the parts of an action do to the call it is a step of.              *)

LEMMA OneCall ==
  ASSUME TypeOK, NEW c \in Calls, NEW r \in CallRecords, call' = [call EXCEPT ![c] = r]
  PROVE  OnlyCall(c) /\ call'[c] = r
BY DEF TypeOK, OnlyCall, CallRecords

LEMMA CallRecord ==
  ASSUME TypeOK, NEW c \in Calls
  PROVE  call[c] \in CallRecords
BY DEF TypeOK, CallRecords

LEMMA AnsweredStep ==
  ASSUME TypeOK, NEW c \in Calls, NEW reply \in Answers, Answered(c, reply)
  PROVE  /\ OnlyCall(c) /\ call'[c].phase = "answered" /\ call'[c].answer = reply
         /\ call'[c].op = call[c].op /\ call'[c].target = call[c].target
<1> DEFINE r == [call[c] EXCEPT !.phase = "answered", !.answer = reply]
<1>1. /\ r \in CallRecords /\ r.phase = "answered" /\ r.answer = reply
      /\ r.op = call[c].op /\ r.target = call[c].target
  BY CallRecord DEF CallRecords, Phases
<1>2. call' = [call EXCEPT ![c] = r]
  BY Zenon DEF Answered
<1> HIDE DEF r
<1> QED
  BY <1>1, <1>2, OneCall

LEMMA EnterStep ==
  ASSUME TypeOK, NEW c \in Calls, NEW phase \in Phases, Enter(c, phase)
  PROVE  /\ OnlyCall(c) /\ call'[c].phase = phase /\ call'[c].answer = call[c].answer
         /\ call'[c].op = call[c].op /\ call'[c].target = call[c].target
         /\ call'[c].project = call[c].project
<1> DEFINE r == [call[c] EXCEPT !.phase = phase]
<1>1. /\ r \in CallRecords /\ r.phase = phase /\ r.answer = call[c].answer
      /\ r.op = call[c].op /\ r.target = call[c].target /\ r.project = call[c].project
  BY CallRecord DEF CallRecords
<1>2. call' = [call EXCEPT ![c] = r]
  BY DEF Enter
<1> HIDE DEF r
<1> QED
  BY <1>1, <1>2, OneCall

LEMMA ReadsStep ==
  ASSUME TypeOK, NEW c \in Calls, NEW listing, NEW phase \in Phases, NEW reply \in Answers,
         Reads(c, listing, phase, reply)
  PROVE  /\ OnlyCall(c) /\ call'[c].phase = phase /\ call'[c].answer = reply
         /\ call'[c].blind = (listing # running)
         /\ call'[c].op = call[c].op /\ call'[c].target = call[c].target
         /\ call'[c].project = call[c].project
<1> DEFINE blind == listing # running
           r == [call[c] EXCEPT !.phase = phase, !.answer = reply, !.blind = blind]
<1>0. blind \in BOOLEAN
  OBVIOUS
<1> HIDE DEF blind
<1>1. /\ r \in CallRecords /\ r.phase = phase /\ r.answer = reply /\ r.blind = blind
      /\ r.op = call[c].op /\ r.target = call[c].target /\ r.project = call[c].project
  BY <1>0, CallRecord DEF CallRecords
<1>2. call' = [call EXCEPT ![c] = r]
  BY Zenon DEF Reads, blind
<1> HIDE DEF r
<1>3. OnlyCall(c) /\ call'[c] = r
  BY <1>1, <1>2, OneCall
<1> QED
  BY <1>1, <1>3 DEF blind

LEMMA TargetStep ==
  ASSUME TypeOK, NEW c \in Calls, NEW chosen \in Process,
         call' = [call EXCEPT ![c].phase = "connect", ![c].target = chosen]
  PROVE  /\ OnlyCall(c) /\ call'[c].phase = "connect" /\ call'[c].target = chosen
         /\ call'[c].op = call[c].op /\ call'[c].answer = call[c].answer
<1> DEFINE r == [call[c] EXCEPT !.phase = "connect", !.target = chosen]
<1>1. /\ r \in CallRecords /\ r.phase = "connect" /\ r.target = chosen
      /\ r.op = call[c].op /\ r.answer = call[c].answer
  BY CallRecord DEF CallRecords, Phases
<1>2. call' = [call EXCEPT ![c] = r]
  OBVIOUS
<1> HIDE DEF r
<1> QED
  BY <1>1, <1>2, OneCall

LEMMA SaveStep ==
  ASSUME TypeOK, NEW c \in Calls, Save(c)
  PROVE  /\ OnlyCall(c) /\ call'[c].phase = "close" /\ call'[c].answer = call[c].answer
         /\ call'[c].op = call[c].op /\ call'[c].target = call[c].target
         /\ call'[c].project = call[c].project
<1> DEFINE r == [call[c] EXCEPT !.phase = "close", !.saver = server]
<1>1. server \in Process
  BY DEF Save, TypeOK
<1>2. /\ r \in CallRecords /\ r.phase = "close" /\ r.answer = call[c].answer
      /\ r.op = call[c].op /\ r.target = call[c].target /\ r.project = call[c].project
  BY <1>1, CallRecord DEF CallRecords, Phases
<1>3. call' = [call EXCEPT ![c] = r]
  BY Zenon DEF Save
<1> HIDE DEF r
<1> QED
  BY <1>2, <1>3, OneCall

Graceful(c) == call[c].op = "stop" /\ call[c].saver # None

(* The script closes what it finds. *)
Closes(c) ==
    /\ Found(call[c].target) # {}
    /\ closing' = IF Graceful(c) THEN closing \cup Found(call[c].target) ELSE closing
    /\ killed' = IF Graceful(c) THEN killed ELSE killed \cup Found(call[c].target)
    /\ call' = [call EXCEPT ![c].phase = "exit", ![c].forced = ~Graceful(c)]

LEMMA CloseCases ==
  ASSUME NEW c \in Calls, Close(c)
  PROVE  (Answered(c, "failed") /\ UNCHANGED <<closing, killed>>) \/ Closes(c)
BY Zenon DEF Close, Closes, Graceful

LEMMA CloseStep ==
  ASSUME TypeOK, NEW c \in Calls, Closes(c)
  PROVE  /\ OnlyCall(c) /\ call'[c].phase = "exit" /\ call'[c].answer = call[c].answer
         /\ call'[c].op = call[c].op /\ call'[c].target = call[c].target
         /\ call'[c].project = call[c].project /\ call'[c].forced = ~Graceful(c)
<1> DEFINE forced == ~Graceful(c)
           r == [call[c] EXCEPT !.phase = "exit", !.forced = forced]
<1>1. /\ r \in CallRecords /\ r.phase = "exit" /\ r.answer = call[c].answer
      /\ r.op = call[c].op /\ r.target = call[c].target /\ r.project = call[c].project
      /\ r.forced = forced
  BY CallRecord DEF CallRecords, Phases
<1>2. call' = [call EXCEPT ![c] = r]
  BY Zenon DEF Closes
<1> HIDE DEF r
<1> QED
  BY <1>1, <1>2, OneCall

(* The fallback kills what it finds. *)
Forces(c) ==
    /\ call[c].op = "stop" /\ ~call[c].forced /\ Found(call[c].target) # {}
    /\ killed' = killed \cup Found(call[c].target)
    /\ call' = [call EXCEPT ![c].forced = TRUE]

LEMMA TimeOutCases ==
  ASSUME NEW c \in Calls, ExitTimesOut(c)
  PROVE  \/ (Answered(c, "failed") \/ Answered(c, "interaction")) /\ UNCHANGED killed
         \/ Forces(c)
BY Zenon DEF ExitTimesOut, Forces

LEMMA ForceStep ==
  ASSUME TypeOK, NEW c \in Calls, call' = [call EXCEPT ![c].forced = TRUE]
  PROVE  /\ OnlyCall(c) /\ call'[c].phase = call[c].phase /\ call'[c].forced
         /\ call'[c].answer = call[c].answer /\ call'[c].op = call[c].op
         /\ call'[c].target = call[c].target /\ call'[c].project = call[c].project
<1> DEFINE r == [call[c] EXCEPT !.forced = TRUE]
<1>1. /\ r \in CallRecords /\ r.phase = call[c].phase /\ r.forced
      /\ r.answer = call[c].answer /\ r.op = call[c].op
      /\ r.target = call[c].target /\ r.project = call[c].project
  BY CallRecord DEF CallRecords
<1>2. call' = [call EXCEPT ![c] = r]
  OBVIOUS
<1> HIDE DEF r
<1> QED
  BY <1>1, <1>2, OneCall

LEMMA ReturnsStep ==
  ASSUME TypeOK, NEW c \in Calls, Returns(c)
  PROVE  /\ OnlyCall(c) /\ call'[c].phase = "idle" /\ call'[c].target = None
         /\ call'[c].answer = "none"
<1>1. /\ IdleCall \in CallRecords /\ IdleCall.phase = "idle" /\ IdleCall.target = None
      /\ IdleCall.answer = "none"
  BY DEF IdleCall, CallRecords, Ops, Phases, Answers
<1> QED
  BY <1>1, OneCall DEF Returns

LEMMA BeginsStep ==
  ASSUME TypeOK, NEW c \in Calls, NEW op \in Ops, NEW phase \in Phases,
         NEW chosen \in Process \cup {None}, NEW project \in Projects \cup {None},
         Begins(c, op, phase, chosen, project)
  PROVE  /\ OnlyCall(c) /\ made' \in 0 .. MaxCalls
         /\ call'[c].op = op /\ call'[c].phase = phase /\ call'[c].target = chosen
         /\ call'[c].project = project /\ call'[c].answer = "none"
<1> DEFINE r == [IdleCall EXCEPT !.op = op, !.phase = phase, !.target = chosen,
                                 !.project = project]
<1>1. /\ r \in CallRecords
      /\ r.op = op /\ r.phase = phase /\ r.target = chosen
      /\ r.project = project /\ r.answer = "none"
  BY DEF CallRecords, IdleCall, Answers
<1>2. call' = [call EXCEPT ![c] = r]
  BY DEF Begins
<1>3. made' \in 0 .. MaxCalls
  BY StartsAreCounted DEF TypeOK, Begins
<1> HIDE DEF r
<1>4. OnlyCall(c) /\ call'[c] = r
  BY <1>1, <1>2, OneCall
<1> QED
  BY <1>1, <1>3, <1>4

-----------------------------------------------------------------------------
(* Types, and what a phase knows of its arguments.                          *)

WorldOK ==
    /\ running \in SUBSET Process
    /\ server \in running \cup {None}
    /\ unsaved \subseteq running /\ closing \subseteq running /\ killed \subseteq running
    /\ started \in 0 .. MaxStarts
    /\ \A p, q \in running : p.id = q.id => p = q

LEMMA NewProcessType ==
  ASSUME TypeOK, started < MaxStarts, NEW project \in Projects,
         NEW p \in NewProcess(project)
  PROVE  /\ p \in Process /\ p.start = started + 1
         /\ \A q \in running : q.id # p.id
BY StartsAreCounted DEF TypeOK, NewProcess, Process

(* A process that starts keeps the world well typed. *)
LEMMA StartsWorldOK ==
  ASSUME TypeOK, started < MaxStarts, NEW project \in Projects,
         NEW p \in NewProcess(project), running' = running \cup {p},
         started' = started + 1, UNCHANGED <<server, unsaved, closing, killed>>
  PROVE  WorldOK'
BY NewProcessType, StartsAreCounted DEF TypeOK, WorldOK

LEMMA StillWorldOK ==
  ASSUME TypeOK, UNCHANGED world
  PROVE  WorldOK'
BY DEF TypeOK, WorldOK, world

LEMMA CallKeepsShapes ==
  ASSUME Shapes, NEW c \in Calls, WorldOK', OnlyCall(c), observed \subseteq observed',
         observed' \in SUBSET Process, made' \in 0 .. MaxCalls, CallShape(c)'
  PROVE  Shapes'
<1>1. TypeOK'
  BY DEF TypeOK, WorldOK, OnlyCall, CallRecords
<1>2. \A d \in Calls : CallShape(d)'
  BY DEF Shapes, OnlyCall, CallShape
<1> QED
  BY <1>1, <1>2 DEF Shapes

LEMMA WorldKeepsShapes ==
  ASSUME Shapes, WorldOK', UNCHANGED <<observed, call, made>>
  PROVE  Shapes'
BY DEF Shapes, TypeOK, WorldOK, CallShape

LEMMA ShapesInit == Init => Shapes
BY StartsAreCounted
   DEF Init, Shapes, TypeOK, CallShape, IdleCall, Ops, Phases, Answers

LEMMA ShapesStep == Shapes /\ [Next]_vars => Shapes'
<1> SUFFICES ASSUME Shapes, [Next]_vars PROVE Shapes'
  OBVIOUS
<1>0. TypeOK /\ observed \in SUBSET Process /\ made \in 0 .. MaxCalls
  BY DEF Shapes, TypeOK
<1> USE DEF world
<1>1. ASSUME NEW c \in Calls, NEW project \in Projects, Launch(c, project)
      PROVE  Shapes'
  <2>1. OnlyCall(c) /\ made' \in 0 .. MaxCalls /\ call'[c].phase = "list"
        /\ call'[c].project = project
    BY <1>0, <1>1, BeginsStep DEF Launch, Ops, Phases
  <2>2. CallShape(c)'
    BY <2>1 DEF CallShape
  <2> QED
    BY <1>0, <1>1, <2>1, <2>2, StillWorldOK, CallKeepsShapes DEF Launch
<1>2. ASSUME NEW c \in Calls, List(c)
      PROVE  Shapes'
  <2>1. PICK listing \in Listings :
          /\ observed' = observed \cup listing
          /\ \/ listing = {} /\ Reads(c, listing, "spawn", "none")
             \/ listing # {} /\ Answered(c, "refused")
             \/ \E first \in listing :
                  /\ first.project = call[c].project
                  /\ call' = [call EXCEPT ![c].phase = "connect", ![c].target = first]
    BY <1>2 DEF List
  <2>2. listing \subseteq running /\ listing \subseteq Process
    BY <1>0 DEF Listings, TypeOK
  <2>3. OnlyCall(c) /\ CallShape(c)'
    <3>1. CASE Reads(c, listing, "spawn", "none")
      <4>1. /\ OnlyCall(c) /\ call'[c].phase = "spawn"
            /\ call'[c].project = call[c].project
        BY <1>0, <3>1, ReadsStep DEF Phases, Answers
      <4> QED
        BY <1>2, <4>1 DEF Shapes, CallShape, List
    <3>2. CASE Answered(c, "refused")
      BY <1>0, <3>2, AnsweredStep DEF CallShape, Answers
    <3>3. ASSUME NEW first \in listing,
                 call' = [call EXCEPT ![c].phase = "connect", ![c].target = first]
          PROVE  OnlyCall(c) /\ CallShape(c)'
      BY <1>0, <2>2, <3>3, TargetStep DEF CallShape
    <3> QED
      BY <2>1, <3>1, <3>2, <3>3
  <2>4. observed \subseteq observed' /\ observed' \in SUBSET Process
    BY <1>0, <2>1, <2>2
  <2> QED
    BY <1>0, <1>2, <2>3, <2>4, StillWorldOK, CallKeepsShapes DEF List
<1>3. ASSUME NEW c \in Calls, Spawn(c)
      PROVE  Shapes'
  <2>1. call[c].project \in Projects /\ started < MaxStarts
    BY <1>3 DEF Shapes, CallShape, Spawn
  <2>2. PICK child \in NewProcess(call[c].project) :
          /\ running' = running \cup {child}
          /\ started' = started + 1
          /\ \E found \in {{}, {child}} : observed' = observed \cup found
          /\ call' = [call EXCEPT ![c].phase = "connect", ![c].target = child]
    BY <1>3 DEF Spawn
  <2>3. child \in Process
    BY <1>0, <2>1, NewProcessType
  <2>4. OnlyCall(c) /\ call'[c].phase = "connect"
    BY <1>0, <2>2, <2>3, TargetStep
  <2>5. CallShape(c)'
    BY <2>4 DEF CallShape
  <2>6. WorldOK'
    BY <1>0, <1>3, <2>1, <2>2, StartsWorldOK DEF Spawn
  <2>7. observed \subseteq observed' /\ observed' \in SUBSET Process
    BY <1>0, <2>2, <2>3
  <2> QED
    BY <1>0, <1>3, <2>4, <2>5, <2>6, <2>7, CallKeepsShapes DEF Spawn
<1>4. ASSUME NEW c \in Calls, NEW reply \in Answers, Answered(c, reply), WorldOK',
             UNCHANGED <<observed, made>>
      PROVE  Shapes'
  <2>1. OnlyCall(c) /\ call'[c].phase = "answered"
    BY <1>0, <1>4, AnsweredStep
  <2>2. CallShape(c)'
    BY <2>1 DEF CallShape
  <2> QED
    BY <1>0, <1>4, <2>1, <2>2, CallKeepsShapes
<1>5. ASSUME NEW c \in Calls, SpawnFails(c) \/ Connect(c)
      PROVE  Shapes'
  BY <1>0, <1>4, <1>5, StillWorldOK DEF SpawnFails, Connect, Answers
<1>6. ASSUME NEW c \in Calls, NEW id \in Ids, Stop(c, id)
      PROVE  Shapes'
  <2>1. OnlyCall(c) /\ made' \in 0 .. MaxCalls /\ CallShape(c)'
    <3>1. CASE Begins(c, "stop", "answered", None, None)
      BY <1>0, <3>1, BeginsStep DEF Ops, Phases, CallShape
    <3>2. ASSUME NEW chosen \in observed, NEW phase \in {"save", "answered"},
                 Begins(c, "stop", phase, chosen, None)
          PROVE  OnlyCall(c) /\ made' \in 0 .. MaxCalls /\ CallShape(c)'
      <4>1. /\ OnlyCall(c) /\ made' \in 0 .. MaxCalls /\ call'[c].op = "stop"
            /\ call'[c].phase = phase /\ call'[c].target = chosen
        BY <1>0, <3>2, BeginsStep DEF Ops, Phases
      <4> QED
        BY <1>0, <1>6, <4>1 DEF CallShape, Stop
    <3> QED
      BY <1>6, <3>1, <3>2 DEF Stop
  <2> QED
    BY <1>0, <1>6, <2>1, StillWorldOK, CallKeepsShapes DEF Stop
<1>7. ASSUME NEW c \in Calls, NEW id \in Ids, Restart(c, id)
      PROVE  Shapes'
  <2>1. OnlyCall(c) /\ made' \in 0 .. MaxCalls /\ CallShape(c)'
    <3>1. CASE Begins(c, "restart", "answered", None, None)
      BY <1>0, <3>1, BeginsStep DEF Ops, Phases, CallShape
    <3>2. ASSUME NEW chosen \in running, NEW phase \in {"save", "answered"},
                 Begins(c, "restart", phase, chosen, chosen.project)
          PROVE  OnlyCall(c) /\ made' \in 0 .. MaxCalls /\ CallShape(c)'
      <4>1. chosen \in Process /\ chosen.project \in Projects
        BY <1>0 DEF TypeOK, Process
      <4>2. /\ OnlyCall(c) /\ made' \in 0 .. MaxCalls /\ call'[c].op = "restart"
            /\ call'[c].phase = phase /\ call'[c].target = chosen
            /\ call'[c].project = chosen.project
        BY <1>0, <3>2, <4>1, BeginsStep DEF Ops, Phases
      <4> QED
        BY <4>1, <4>2 DEF CallShape
    <3> QED
      BY <1>7, <3>1, <3>2 DEF Restart, Listings
  <2> QED
    BY <1>0, <1>7, <2>1, StillWorldOK, CallKeepsShapes DEF Restart
<1>8. ASSUME NEW c \in Calls, Save(c)
      PROVE  Shapes'
  <2>0. call[c].phase = "save" /\ observed' = observed /\ CallShape(c)
    BY <1>8 DEF Save, Shapes
  <2>1. OnlyCall(c) /\ CallShape(c)'
    BY <1>0, <1>8, <2>0, SaveStep DEF CallShape
  <2>2. WorldOK'
    BY <1>0, <1>8 DEF Save, TypeOK, WorldOK
  <2> QED
    BY <1>0, <1>8, <2>1, <2>2, CallKeepsShapes DEF Save
<1>9. ASSUME NEW c \in Calls, SaveTimesOut(c)
      PROVE  Shapes'
  <2>1. OnlyCall(c) /\ CallShape(c)'
    BY <1>0, <1>9, EnterStep DEF SaveTimesOut, Phases, Shapes, CallShape
  <2> QED
    BY <1>0, <1>9, <2>1, StillWorldOK, CallKeepsShapes DEF SaveTimesOut
<1>10. ASSUME NEW c \in Calls, Close(c)
       PROVE  Shapes'
  <2>1. CASE Answered(c, "failed") /\ UNCHANGED <<closing, killed>>
    BY <1>0, <1>4, <1>10, <2>1, StillWorldOK DEF Close, Answers
  <2>2. CASE Closes(c)
    <3>1. OnlyCall(c) /\ CallShape(c)'
      BY <1>0, <1>10, <2>2, CloseStep DEF Shapes, CallShape, Close
    <3>2. WorldOK'
      BY <1>0, <1>10, <2>2 DEF Close, Closes, Found, TypeOK, WorldOK
    <3> QED
      BY <1>0, <1>10, <3>1, <3>2, CallKeepsShapes DEF Close
  <2> QED
    BY <1>10, <2>1, <2>2, CloseCases
<1>11. ASSUME NEW c \in Calls, Exited(c)
       PROVE  Shapes'
  <2>1. PICK listing \in Listings :
          \/ Reads(c, listing, "answered", "exited")
          \/ Reads(c, listing, "list", "none") /\ call[c].op # "stop"
    BY <1>11 DEF Exited
  <2>2. OnlyCall(c) /\ CallShape(c)'
    <3>1. CASE Reads(c, listing, "answered", "exited")
      BY <1>0, <3>1, ReadsStep DEF CallShape, Phases, Answers
    <3>2. CASE Reads(c, listing, "list", "none") /\ call[c].op # "stop"
      <4>1. /\ OnlyCall(c) /\ call'[c].phase = "list"
            /\ call'[c].project = call[c].project
        BY <1>0, <3>2, ReadsStep DEF Phases, Answers
      <4> QED
        BY <1>11, <3>2, <4>1 DEF Shapes, CallShape, Exited
    <3> QED
      BY <2>1, <3>1, <3>2
  <2> QED
    BY <1>0, <1>11, <2>2, StillWorldOK, CallKeepsShapes DEF Exited
<1>12. ASSUME NEW c \in Calls, ExitTimesOut(c)
       PROVE  Shapes'
  <2>1. CASE (Answered(c, "failed") \/ Answered(c, "interaction")) /\ UNCHANGED killed
    BY <1>0, <1>4, <1>12, <2>1, StillWorldOK DEF ExitTimesOut, Answers
  <2>2. CASE Forces(c)
    <3>1. call[c].phase = "exit" /\ observed' = observed /\ CallShape(c)
      BY <1>12 DEF ExitTimesOut, Shapes
    <3>2. OnlyCall(c) /\ CallShape(c)'
      <4>1. /\ OnlyCall(c) /\ call'[c].phase = call[c].phase
            /\ call'[c].op = call[c].op /\ call'[c].target = call[c].target
            /\ call'[c].project = call[c].project
        BY <1>0, <2>2, ForceStep, Zenon DEF Forces
      <4> QED
        BY <3>1, <4>1 DEF CallShape
    <3>3. WorldOK'
      BY <1>0, <1>12, <2>2 DEF ExitTimesOut, Forces, Found, TypeOK, WorldOK
    <3> QED
      BY <1>0, <1>12, <3>2, <3>3, CallKeepsShapes DEF ExitTimesOut
  <2> QED
    BY <1>12, <2>1, <2>2, TimeOutCases
<1>13. ASSUME NEW c \in Calls, Returns(c)
       PROVE  Shapes'
  <2>1. OnlyCall(c) /\ CallShape(c)'
    BY <1>0, <1>13, ReturnsStep DEF CallShape
  <2> QED
    BY <1>0, <1>13, <2>1, StillWorldOK, CallKeepsShapes DEF Returns
<1>14. ASSUME NEW project \in Projects, UserStarts(project)
       PROVE  Shapes'
  <2>1. WorldOK'
    BY <1>0, <1>14, StartsWorldOK DEF UserStarts
  <2> QED
    BY <1>14, <2>1, WorldKeepsShapes DEF UserStarts
<1>15. ASSUME NEW p \in running, Binds(p) \/ Edits(p) \/ Ends(p)
       PROVE  Shapes'
  <2>1. WorldOK'
    BY <1>0, <1>15 DEF Binds, Edits, Ends, TypeOK, WorldOK
  <2> QED
    BY <1>15, <2>1, WorldKeepsShapes DEF Binds, Edits, Ends
<1>16. CASE UNCHANGED vars
  BY <1>0, <1>16, StillWorldOK, WorldKeepsShapes DEF vars
<1> QED
  BY <1>1, <1>2, <1>3, <1>5, <1>6, <1>7, <1>8, <1>9, <1>10, <1>11, <1>12, <1>13,
     <1>14, <1>15, <1>16 DEF Next, Step, Environment

-----------------------------------------------------------------------------
(* Start times identify processes.                                          *)

LEMMA SeenAreProcesses ==
  ASSUME TypeOK
  PROVE  Seen \subseteq Process /\ started \in Nat /\ \A p \in Process : p.start \in Nat
BY StartsAreCounted DEF Seen, Chosen, TypeOK, Process

(* A new process is later than everything seen. *)
LEMMA NewIsUnseen ==
  ASSUME TypeOK, StartsIdentify, NEW p \in Process, p.start = started + 1
  PROVE  p \notin Seen
BY SeenAreProcesses DEF StartsIdentify

LEMMA NothingNewSeen ==
  ASSUME StartsIdentify, Seen' \subseteq Seen, started' = started
  PROVE  StartsIdentify'
BY DEF StartsIdentify

LEMMA OneNewSeen ==
  ASSUME TypeOK, StartsIdentify, NEW p \in Process, p.start = started + 1,
         started' = started + 1, Seen' \subseteq Seen \cup {p}
  PROVE  StartsIdentify'
<1>1. \A q \in Seen : q.start \in Nat /\ q.start <= started /\ started \in Nat
  BY SeenAreProcesses DEF StartsIdentify
<1>2. \A q \in Seen' : q.start <= started'
  BY <1>1
<1>3. ASSUME NEW q \in Seen', NEW r \in Seen', q.start = r.start
      PROVE  q = r
  <2>1. q \in Seen /\ r \in Seen => q = r
    BY <1>3 DEF StartsIdentify
  <2>2. (q \in Seen <=> r \in Seen) \/ q = r
    BY <1>1, <1>3
  <2> QED
    BY <2>1, <2>2
<1> QED
  BY <1>2, <1>3 DEF StartsIdentify

(* A step of one call adds what runs, what is observed and its new target. *)
LEMMA CallSees ==
  ASSUME NEW c \in Calls, OnlyCall(c), NEW S, Seen \subseteq S,
         running' \subseteq S, observed' \subseteq S, call'[c].target \in S \cup {None}
  PROVE  Seen' \subseteq S
<1>1. Chosen' \subseteq S
  BY NoneIsNoProcess DEF OnlyCall, Chosen, Seen
<1> QED
  BY <1>1 DEF Seen

LEMMA OldTargetSeen ==
  ASSUME TypeOK, NEW c \in Calls
  PROVE  call[c].target \in Seen \cup {None}
BY CallRecord DEF CallRecords, Seen, Chosen

LEMMA StartsStep == Shapes /\ StartsIdentify /\ [Next]_vars => StartsIdentify'
<1> SUFFICES ASSUME Shapes, StartsIdentify, [Next]_vars PROVE StartsIdentify'
  OBVIOUS
<1>0. TypeOK /\ running \subseteq Seen /\ observed \subseteq Seen
  BY DEF Shapes, Seen
<1> USE DEF world
(* Most steps of a call choose nothing new. *)
<1>1. ASSUME NEW c \in Calls, OnlyCall(c), call'[c].target \in Seen \cup {None},
             running' \subseteq running, observed' \subseteq Seen, started' = started
      PROVE  StartsIdentify'
  BY <1>0, <1>1, CallSees, NothingNewSeen
<1>2. ASSUME NEW c \in Calls, NEW reply \in Answers, Answered(c, reply),
             UNCHANGED <<running, started>>, observed' \subseteq Seen
      PROVE  StartsIdentify'
  <2>1. OnlyCall(c) /\ call'[c].target \in Seen \cup {None}
    BY <1>0, <1>2, AnsweredStep, OldTargetSeen
  <2> QED
    BY <1>1, <1>2, <2>1
<1>3. ASSUME NEW c \in Calls, NEW phase \in Phases, Enter(c, phase),
             UNCHANGED <<running, started>>, observed' \subseteq Seen
      PROVE  StartsIdentify'
  <2>1. OnlyCall(c) /\ call'[c].target \in Seen \cup {None}
    BY <1>0, <1>3, EnterStep, OldTargetSeen
  <2> QED
    BY <1>1, <1>3, <2>1
<1>4. ASSUME NEW c \in Calls, NEW project \in Projects, Launch(c, project)
      PROVE  StartsIdentify'
  <2>1. OnlyCall(c) /\ call'[c].target = None
    BY <1>0, <1>4, BeginsStep DEF Launch, Ops, Phases
  <2> QED
    BY <1>0, <1>1, <1>4, <2>1 DEF Launch
<1>5. ASSUME NEW c \in Calls, List(c)
      PROVE  StartsIdentify'
  <2>1. PICK listing \in Listings :
          /\ observed' = observed \cup listing
          /\ \/ Reads(c, listing, "spawn", "none")
             \/ Answered(c, "refused")
             \/ \E first \in listing :
                  call' = [call EXCEPT ![c].phase = "connect", ![c].target = first]
    BY <1>5 DEF List
  <2>2. listing \subseteq Seen /\ listing \subseteq Process
    BY <1>0 DEF Listings, TypeOK
  <2>3. observed' \subseteq Seen /\ UNCHANGED <<running, started>>
    BY <1>0, <1>5, <2>1, <2>2 DEF List
  <2>4. CASE Reads(c, listing, "spawn", "none")
    <3>1. OnlyCall(c) /\ call'[c].target \in Seen \cup {None}
      BY <1>0, <2>4, ReadsStep, OldTargetSeen DEF Phases, Answers
    <3> QED
      BY <1>1, <2>3, <3>1
  <2>5. CASE Answered(c, "refused")
    BY <1>2, <2>3, <2>5 DEF Answers
  <2>6. ASSUME NEW first \in listing,
               call' = [call EXCEPT ![c].phase = "connect", ![c].target = first]
        PROVE  StartsIdentify'
    BY <1>0, <1>1, <2>2, <2>3, <2>6, TargetStep
  <2> QED
    BY <2>1, <2>4, <2>5, <2>6
<1>6. ASSUME NEW c \in Calls, Spawn(c)
      PROVE  StartsIdentify'
  <2>1. call[c].project \in Projects /\ started < MaxStarts
    BY <1>6 DEF Shapes, CallShape, Spawn
  <2>2. PICK child \in NewProcess(call[c].project) :
          /\ running' = running \cup {child}
          /\ started' = started + 1
          /\ \E found \in {{}, {child}} : observed' = observed \cup found
          /\ call' = [call EXCEPT ![c].phase = "connect", ![c].target = child]
    BY <1>6 DEF Spawn
  <2>3. child \in Process /\ child.start = started + 1
    BY <1>0, <2>1, NewProcessType
  <2>4. OnlyCall(c) /\ call'[c].target = child
    BY <1>0, <2>2, <2>3, TargetStep
  <2>5. Seen' \subseteq Seen \cup {child}
    <3> DEFINE S == Seen \cup {child}
    <3>1. running' \subseteq S /\ observed' \subseteq S
      BY <1>0, <2>2
    <3>2. Seen \subseteq S /\ call'[c].target \in S \cup {None}
      BY <2>4
    <3> HIDE DEF S
    <3>3. Seen' \subseteq S
      BY <2>4, <3>1, <3>2, CallSees
    <3> QED
      BY <3>3 DEF S
  <2> QED
    BY <1>0, <2>2, <2>3, <2>5, OneNewSeen
<1>7. ASSUME NEW c \in Calls, SpawnFails(c) \/ Connect(c)
      PROVE  StartsIdentify'
  BY <1>0, <1>2, <1>7 DEF SpawnFails, Connect, Answers
<1>8. ASSUME NEW c \in Calls, NEW id \in Ids, Stop(c, id) \/ Restart(c, id)
      PROVE  StartsIdentify'
  <2>1. UNCHANGED <<world, observed>>
    BY <1>8 DEF Stop, Restart
  <2>2. ASSUME NEW op \in {"stop", "restart"}, Begins(c, op, "answered", None, None)
        PROVE  StartsIdentify'
    <3>1. OnlyCall(c) /\ call'[c].target = None
      BY <1>0, <2>2, BeginsStep DEF Ops, Phases
    <3> QED
      BY <1>0, <1>1, <2>1, <3>1
  <2>3. ASSUME NEW chosen \in Seen, NEW phase \in {"save", "answered"},
               NEW op \in {"stop", "restart"}, NEW project \in Projects \cup {None},
               Begins(c, op, phase, chosen, project)
        PROVE  StartsIdentify'
    <3>1. chosen \in Process
      BY <1>0, SeenAreProcesses
    <3>2. OnlyCall(c) /\ call'[c].target = chosen
      BY <1>0, <2>3, <3>1, BeginsStep DEF Ops, Phases
    <3> QED
      BY <1>0, <1>1, <2>1, <3>2
  <2>4. CASE Stop(c, id)
    BY <1>0, <2>2, <2>3, <2>4 DEF Stop
  <2>5. CASE Restart(c, id)
    <3>1. \A p \in running : p.project \in Projects
      BY <1>0 DEF TypeOK, Process
    <3> QED
      BY <1>0, <2>2, <2>3, <2>5, <3>1 DEF Restart, Listings
  <2> QED
    BY <1>8, <2>4, <2>5
<1>9. ASSUME NEW c \in Calls, Save(c)
      PROVE  StartsIdentify'
  <2>1. OnlyCall(c) /\ call'[c].target \in Seen \cup {None}
    BY <1>0, <1>9, SaveStep, OldTargetSeen
  <2> QED
    BY <1>0, <1>1, <1>9, <2>1 DEF Save
<1>10. ASSUME NEW c \in Calls, SaveTimesOut(c)
       PROVE  StartsIdentify'
  BY <1>0, <1>3, <1>10 DEF SaveTimesOut, Phases
<1>11. ASSUME NEW c \in Calls, Close(c)
       PROVE  StartsIdentify'
  <2>1. CASE Answered(c, "failed")
    BY <1>0, <1>2, <1>11, <2>1 DEF Close, Answers
  <2>2. CASE Closes(c)
    <3>1. OnlyCall(c) /\ call'[c].target \in Seen \cup {None}
      BY <1>0, <2>2, CloseStep, OldTargetSeen
    <3> QED
      BY <1>0, <1>1, <1>11, <3>1 DEF Close
  <2> QED
    BY <1>11, <2>1, <2>2, CloseCases
<1>12. ASSUME NEW c \in Calls, Exited(c)
       PROVE  StartsIdentify'
  <2>1. PICK listing \in Listings :
          \/ Reads(c, listing, "answered", "exited")
          \/ Reads(c, listing, "list", "none")
    BY <1>12 DEF Exited
  <2>2. OnlyCall(c) /\ call'[c].target \in Seen \cup {None}
    BY <1>0, <2>1, ReadsStep, OldTargetSeen DEF Phases, Answers
  <2> QED
    BY <1>0, <1>1, <1>12, <2>2 DEF Exited
<1>13. ASSUME NEW c \in Calls, ExitTimesOut(c)
       PROVE  StartsIdentify'
  <2>1. UNCHANGED <<running, started, observed>>
    BY <1>13 DEF ExitTimesOut
  <2>2. CASE \/ Answered(c, "failed")
             \/ Answered(c, "interaction")
    BY <1>0, <1>2, <2>1, <2>2 DEF Answers
  <2>3. CASE Forces(c)
    <3>1. OnlyCall(c) /\ call'[c].target \in Seen \cup {None}
      BY <1>0, <2>3, ForceStep, OldTargetSeen DEF Forces
    <3> QED
      BY <1>0, <1>1, <2>1, <3>1
  <2> QED
    BY <1>13, <2>2, <2>3, TimeOutCases
<1>14. ASSUME NEW c \in Calls, Returns(c)
       PROVE  StartsIdentify'
  BY <1>0, <1>1, <1>14, ReturnsStep DEF Returns
<1>15. ASSUME NEW project \in Projects, UserStarts(project)
       PROVE  StartsIdentify'
  <2>1. PICK p \in NewProcess(project) : running' = running \cup {p}
    BY <1>15 DEF UserStarts
  <2>2. p \in Process /\ p.start = started + 1
    BY <1>0, <1>15, <2>1, NewProcessType DEF UserStarts
  <2>3. Seen' \subseteq Seen \cup {p}
    BY <1>15, <2>1 DEF UserStarts, Seen, Chosen
  <2> QED
    BY <1>0, <1>15, <2>2, <2>3, OneNewSeen DEF UserStarts
<1>16. ASSUME NEW p \in running, Binds(p) \/ Edits(p) \/ Ends(p)
       PROVE  StartsIdentify'
  <2>1. Seen' \subseteq Seen /\ started' = started
    BY <1>16 DEF Binds, Edits, Ends, Seen, Chosen
  <2> QED
    BY <2>1, NothingNewSeen
<1>17. CASE UNCHANGED vars
  <2>1. Seen' \subseteq Seen /\ started' = started
    BY <1>17 DEF vars, Seen, Chosen
  <2> QED
    BY <2>1, NothingNewSeen
<1> QED
  BY <1>4, <1>5, <1>6, <1>7, <1>8, <1>9, <1>10, <1>11, <1>12, <1>13, <1>14,
     <1>15, <1>16, <1>17 DEF Next, Step, Environment

-----------------------------------------------------------------------------
(* What a call knows of its target.                                         *)

(* Id and start time find the target or nothing. *)
LEMMA FoundIsTarget ==
  ASSUME TypeOK, StartsIdentify, NEW c \in Calls, call[c].target \in Process,
         NEW p \in Found(call[c].target)
  PROVE  p = call[c].target /\ p \in running
<1>1. p \in running /\ p.start = call[c].target.start
  BY DEF Found
<1>2. p \in Seen /\ call[c].target \in Seen
  BY <1>1 DEF Seen, Chosen
<1> QED
  BY <1>1, <1>2 DEF StartsIdentify

(* No process that starts is one that a call chose before. *)
LEMMA NewIsNoTarget ==
  ASSUME TypeOK, StartsIdentify, NEW c \in Calls, NEW p \in Process,
         p.start = started + 1
  PROVE  p # call[c].target
BY NewIsUnseen DEF Seen, Chosen

(* A call that takes no step keeps what it knows, whatever starts or ends. *)
LEMMA IdleKnows ==
  ASSUME NEW c \in Calls, TargetKnown(c), call'[c] = call[c],
         call[c].target \notin running => call[c].target \notin running',
         call[c].target \in closing => call[c].target \in closing'
                                      \/ call[c].target \notin running',
         call[c].target \in killed => call[c].target \in killed'
                                     \/ call[c].target \notin running'
  PROVE  TargetKnown(c)'
BY DEF TargetKnown, Going

LEMMA CallKeepsKnown ==
  ASSUME \A d \in Calls : TargetKnown(d), NEW c \in Calls, OnlyCall(c),
         running' = running, closing \subseteq closing', killed \subseteq killed',
         TargetKnown(c)'
  PROVE  \A d \in Calls : TargetKnown(d)'
BY IdleKnows DEF OnlyCall

LEMMA KnownStep == ControlInv /\ [Next]_vars => \A c \in Calls : TargetKnown(c)'
<1> DEFINE Known == \A d \in Calls : TargetKnown(d)
<1> SUFFICES ASSUME ControlInv, [Next]_vars PROVE Known'
  OBVIOUS
<1>0. /\ TypeOK /\ StartsIdentify /\ Known
      /\ \A c \in Calls : CallShape(c) /\ TargetKnown(c)
  BY DEF ControlInv, Shapes
<1> HIDE DEF Known
<1> USE DEF world
<1>1. ASSUME NEW c \in Calls, OnlyCall(c), running' = running,
             closing \subseteq closing', killed \subseteq killed', TargetKnown(c)'
      PROVE  Known'
  BY <1>0, <1>1, CallKeepsKnown DEF Known
<1>2. ASSUME NEW c \in Calls, NEW reply \in Answers \ {"exited"}, Answered(c, reply),
             UNCHANGED running, closing \subseteq closing', killed \subseteq killed'
      PROVE  Known'
  <2>1. OnlyCall(c) /\ call'[c].phase = "answered" /\ call'[c].answer # "exited"
    BY <1>0, <1>2, AnsweredStep
  <2>2. TargetKnown(c)'
    BY <2>1 DEF TargetKnown
  <2> QED
    BY <1>1, <1>2, <2>1, <2>2
<1>3. ASSUME NEW c \in Calls, NEW op \in Ops, NEW phase \in Phases \ {"exit", "spawn"},
             NEW chosen \in Process \cup {None}, NEW project \in Projects \cup {None},
             Begins(c, op, phase, chosen, project), UNCHANGED <<running, closing, killed>>,
             op = "launch" \/ phase # "list"
      PROVE  Known'
  <2>1. /\ OnlyCall(c) /\ call'[c].phase = phase /\ call'[c].answer = "none"
        /\ call'[c].op = op
    BY <1>0, <1>3, BeginsStep
  <2>2. TargetKnown(c)'
    BY <1>3, <2>1 DEF TargetKnown
  <2> QED
    BY <1>1, <1>3, <2>1, <2>2
<1>4. ASSUME NEW c \in Calls, NEW project \in Projects, Launch(c, project)
      PROVE  Known'
  BY <1>3, <1>4 DEF Launch, Ops, Phases
<1>5. ASSUME NEW c \in Calls, List(c)
      PROVE  Known'
  <2>1. PICK listing \in Listings :
          \/ listing = {} /\ Reads(c, listing, "spawn", "none")
          \/ Answered(c, "refused")
          \/ \E first \in listing :
               call' = [call EXCEPT ![c].phase = "connect", ![c].target = first]
    BY <1>5 DEF List
  <2>2. /\ UNCHANGED <<running, closing, killed>>
        /\ call[c].phase = "list" /\ call[c].answer # "exited"
    BY <1>0, <1>5 DEF List, TargetKnown
  <2>3. CASE listing = {} /\ Reads(c, listing, "spawn", "none")
    <3>1. /\ OnlyCall(c) /\ call'[c].phase = "spawn" /\ call'[c].answer = "none"
          /\ call'[c].blind = (running # {})
          /\ call'[c].op = call[c].op /\ call'[c].target = call[c].target
      BY <1>0, <2>3, ReadsStep DEF Phases, Answers
    <3>2. TargetKnown(c)'
      BY <1>0, <2>2, <3>1 DEF TargetKnown, Going
    <3> QED
      BY <1>1, <2>2, <3>1, <3>2
  <2>4. CASE Answered(c, "refused")
    BY <1>2, <2>2, <2>4 DEF Answers
  <2>5. ASSUME NEW first \in listing,
               call' = [call EXCEPT ![c].phase = "connect", ![c].target = first]
        PROVE  Known'
    <3>1. first \in Process
      BY <1>0 DEF TypeOK, Listings
    <3>2. /\ OnlyCall(c) /\ call'[c].phase = "connect"
          /\ call'[c].answer = call[c].answer
      BY <1>0, <2>5, <3>1, TargetStep
    <3>3. TargetKnown(c)'
      BY <2>2, <3>2 DEF TargetKnown
    <3> QED
      BY <1>1, <2>2, <3>2, <3>3
  <2> QED
    BY <2>1, <2>3, <2>4, <2>5
<1>6. ASSUME NEW c \in Calls, Spawn(c)
      PROVE  Known'
  <2>1. call[c].project \in Projects /\ started < MaxStarts /\ call[c].answer # "exited"
    BY <1>0, <1>6 DEF CallShape, TargetKnown, Spawn
  <2>2. PICK child \in NewProcess(call[c].project) :
          /\ running' = running \cup {child}
          /\ call' = [call EXCEPT ![c].phase = "connect", ![c].target = child]
    BY <1>6 DEF Spawn
  <2>3. child \in Process /\ child.start = started + 1
    BY <1>0, <2>1, NewProcessType
  <2>4. /\ OnlyCall(c) /\ call'[c].phase = "connect"
        /\ call'[c].answer = call[c].answer
    BY <1>0, <2>2, <2>3, TargetStep
  <2>5. TargetKnown(c)'
    BY <2>1, <2>4 DEF TargetKnown
  <2>6. ASSUME NEW d \in Calls, d # c
        PROVE  TargetKnown(d)'
    <3>1. call'[d] = call[d]
      BY <2>4, <2>6 DEF OnlyCall
    <3>2. call[d].target \notin running => call[d].target \notin running'
      BY <1>0, <2>2, <2>3, NewIsNoTarget
    <3>3. UNCHANGED <<closing, killed>>
      BY <1>6 DEF Spawn
    <3> QED
      BY <1>0, <3>1, <3>2, <3>3, IdleKnows
  <2> QED
    BY <2>5, <2>6 DEF Known
<1>7. ASSUME NEW c \in Calls, SpawnFails(c) \/ Connect(c)
      PROVE  Known'
  BY <1>2, <1>7 DEF SpawnFails, Connect, Answers
<1>8. ASSUME NEW c \in Calls, NEW id \in Ids, Stop(c, id)
      PROVE  Known'
  <2>1. observed \subseteq Process
    BY <1>0 DEF TypeOK
  <2> QED
    BY <1>3, <1>8, <2>1 DEF Stop, Ops, Phases
<1>9. ASSUME NEW c \in Calls, NEW id \in Ids, Restart(c, id)
      PROVE  Known'
  <2>1. \A p \in running : p \in Process /\ p.project \in Projects
    BY <1>0 DEF TypeOK, Process
  <2> QED
    BY <1>3, <1>9, <2>1 DEF Restart, Listings, Ops, Phases
<1>10. ASSUME NEW c \in Calls, Save(c) \/ SaveTimesOut(c)
       PROVE  Known'
  <2>1. call[c].phase = "save" /\ UNCHANGED <<running, closing, killed>>
    BY <1>10 DEF Save, SaveTimesOut
  <2>2. /\ OnlyCall(c) /\ call'[c].phase = "close"
        /\ call'[c].answer = call[c].answer
    BY <1>0, <1>10, SaveStep, EnterStep DEF SaveTimesOut, Phases
  <2>3. TargetKnown(c)'
    BY <1>0, <2>1, <2>2 DEF TargetKnown
  <2> QED
    BY <1>1, <2>1, <2>2, <2>3
<1>11. ASSUME NEW c \in Calls, Close(c)
       PROVE  Known'
  <2>1. call[c].phase = "close" /\ UNCHANGED running
    BY <1>11 DEF Close
  <2>2. CASE Answered(c, "failed") /\ UNCHANGED <<closing, killed>>
    BY <1>2, <2>1, <2>2 DEF Answers
  <2>3. CASE Closes(c)
    <3>1. /\ OnlyCall(c) /\ call'[c].phase = "exit" /\ call'[c].answer = call[c].answer
          /\ call'[c].target = call[c].target /\ call'[c].forced = ~Graceful(c)
      BY <1>0, <2>3, CloseStep
    <3>2. /\ closing' = IF Graceful(c) THEN closing \cup Found(call[c].target) ELSE closing
          /\ killed' = IF Graceful(c) THEN killed ELSE killed \cup Found(call[c].target)
      BY <2>3 DEF Closes
    <3>3. call[c].target \in Found(call[c].target)
      BY <1>0, <2>1, <2>3, FoundIsTarget DEF CallShape, Closes
    <3>4. TargetKnown(c)'
      BY <1>0, <2>1, <3>1, <3>2, <3>3 DEF TargetKnown, Going
    <3> QED
      BY <1>1, <2>1, <3>1, <3>2, <3>4
  <2> QED
    BY <1>11, <2>2, <2>3, CloseCases
<1>12. ASSUME NEW c \in Calls, Exited(c)
       PROVE  Known'
  <2>1. /\ call[c].phase = "exit" /\ UNCHANGED <<running, closing, killed>>
        /\ Going(c)
    BY <1>0, <1>12 DEF Exited, TargetKnown
  <2>2. PICK listing \in Listings :
          /\ Gone(c, listing)
          /\ \/ call[c].op = "stop" /\ Reads(c, listing, "answered", "exited")
             \/ Reads(c, listing, "list", "none")
    BY <1>12 DEF Exited
  <2>3. CASE call[c].op = "stop" /\ Reads(c, listing, "answered", "exited")
    <3>1. listing = running => call[c].target \notin running
      BY <2>2, <2>3 DEF Gone
    <3>2. /\ OnlyCall(c) /\ call'[c].phase = "answered" /\ call'[c].answer = "exited"
          /\ call'[c].blind = (listing # running)
          /\ call'[c].op = call[c].op /\ call'[c].target = call[c].target
      BY <1>0, <2>3, ReadsStep DEF Phases, Answers
    <3>3. TargetKnown(c)'
      BY <2>1, <3>1, <3>2 DEF TargetKnown, Going
    <3> QED
      BY <1>1, <2>1, <3>2, <3>3
  <2>4. CASE Reads(c, listing, "list", "none")
    <3>1. /\ OnlyCall(c) /\ call'[c].phase = "list" /\ call'[c].answer = "none"
          /\ call'[c].target = call[c].target
      BY <1>0, <2>4, ReadsStep DEF Phases, Answers
    <3>2. TargetKnown(c)'
      BY <2>1, <3>1 DEF TargetKnown, Going
    <3> QED
      BY <1>1, <2>1, <3>1, <3>2
  <2> QED
    BY <2>2, <2>3, <2>4
<1>13. ASSUME NEW c \in Calls, ExitTimesOut(c)
       PROVE  Known'
  <2>1. call[c].phase = "exit" /\ UNCHANGED <<running, closing>>
    BY <1>13 DEF ExitTimesOut
  <2>2. CASE (Answered(c, "failed") \/ Answered(c, "interaction")) /\ UNCHANGED killed
    BY <1>2, <2>1, <2>2 DEF Answers
  <2>3. CASE Forces(c)
    <3>1. /\ OnlyCall(c) /\ call'[c].phase = call[c].phase /\ call'[c].forced
          /\ call'[c].answer = call[c].answer /\ call'[c].target = call[c].target
      BY <1>0, <2>3, ForceStep, Zenon DEF Forces
    <3>2. killed \subseteq killed'
      BY <2>3 DEF Forces
    <3>3. TargetKnown(c)'
      BY <1>0, <2>1, <3>1, <3>2 DEF TargetKnown, Going
    <3> QED
      BY <1>1, <2>1, <3>1, <3>2, <3>3
  <2> QED
    BY <1>13, <2>2, <2>3, TimeOutCases
<1>14. ASSUME NEW c \in Calls, Returns(c)
       PROVE  Known'
  <2>1. OnlyCall(c) /\ call'[c].phase = "idle" /\ call'[c].answer = "none"
    BY <1>0, <1>14, ReturnsStep
  <2>2. TargetKnown(c)'
    BY <2>1 DEF TargetKnown
  <2> QED
    BY <1>1, <1>14, <2>1, <2>2 DEF Returns
<1>15. ASSUME NEW project \in Projects, UserStarts(project)
       PROVE  Known'
  <2>1. PICK p \in NewProcess(project) : running' = running \cup {p}
    BY <1>15 DEF UserStarts
  <2>2. p \in Process /\ p.start = started + 1
    BY <1>0, <1>15, <2>1, NewProcessType DEF UserStarts
  <2>3. ASSUME NEW d \in Calls
        PROVE  TargetKnown(d)'
    <3>1. call[d].target \notin running => call[d].target \notin running'
      BY <1>0, <2>1, <2>2, NewIsNoTarget
    <3> QED
      BY <1>0, <1>15, <3>1, IdleKnows DEF UserStarts
  <2> QED
    BY <2>3 DEF Known
<1>16. ASSUME NEW p \in running, Binds(p) \/ Edits(p) \/ Ends(p)
       PROVE  Known'
  <2>1. call' = call /\ running' \subseteq running
        /\ closing \subseteq closing' \cup (running \ running')
        /\ killed \subseteq killed' \cup (running \ running')
    BY <1>16 DEF Binds, Edits, Ends
  <2>2. closing \subseteq running /\ killed \subseteq running /\ running' \subseteq running
    BY <1>0, <2>1 DEF TypeOK
  <2> QED
    BY <1>0, <2>1, <2>2, IdleKnows DEF Known
<1>17. CASE UNCHANGED vars
  BY <1>0, <1>17, IdleKnows DEF vars, Known
<1> QED
  BY <1>4, <1>5, <1>6, <1>7, <1>8, <1>9, <1>10, <1>11, <1>12, <1>13, <1>14,
     <1>15, <1>16, <1>17 DEF Next, Step, Environment

LEMMA Inductive ==
  /\ Init => ControlInv
  /\ ControlInv /\ [Next]_vars => ControlInv'
<1>1. Init => StartsIdentify /\ \A c \in Calls : TargetKnown(c)
  <2> SUFFICES ASSUME Init PROVE StartsIdentify /\ \A c \in Calls : TargetKnown(c)
    OBVIOUS
  <2>1. \A c \in Calls : /\ call[c].target = None /\ call[c].phase = "idle"
                         /\ call[c].answer = "none"
    BY DEF Init, IdleCall
  <2>2. Seen = {}
    BY <2>1, NoneIsNoProcess DEF Init, Seen, Chosen
  <2> QED
    BY <2>1, <2>2 DEF StartsIdentify, TargetKnown
<1> QED
  BY <1>1, ShapesInit, ShapesStep, StartsStep, KnownStep DEF ControlInv

-----------------------------------------------------------------------------
(* Process control keeps its types: what is closing, killed or unsaved     *)
(* runs, and no two running processes share an id.                         *)
THEOREM ControlTypeCorrect == Spec => []TypeOK
<1>1. ControlInv => TypeOK
  BY DEF ControlInv, Shapes
<1> QED
  BY <1>1, Inductive, PTL DEF Spec

(* A stop that reports an exit and a restart that launches again do so     *)
(* only when the process they closed is gone; or, where the process list   *)
(* they read had failed, when it was at least asked to close.              *)
THEOREM ReportedExitsAreReal == Spec => []ClosedIsGone
<1>1. ControlInv => ClosedIsGone
  BY DEF ControlInv, TargetKnown, Going, ClosedIsGone
<1> QED
  BY <1>1, Inductive, PTL DEF Spec

LEMMA StepEndsTarget ==
  ASSUME ControlInv, [Next]_vars, NEW p \in (closing' \cup killed') \ (closing \cup killed)
  PROVE  \E c \in Calls :
            /\ call[c].phase = "close" /\ call[c].target = p
            /\ call[c].op = "stop" => p \in observed
            /\ p \in killed' => call[c].op = "restart" \/ call[c].saver = None
<1>0. /\ TypeOK /\ StartsIdentify
      /\ \A c \in Calls : CallShape(c) /\ TargetKnown(c)
  BY DEF ControlInv, Shapes
<1>1. ASSUME NEW c \in Calls, Close(c)
      PROVE  /\ call[c].phase = "close" /\ call[c].target = p
             /\ call[c].op = "stop" => p \in observed
             /\ p \in killed' => call[c].op = "restart" \/ call[c].saver = None
  <2>1. /\ call[c].phase = "close" /\ call[c].target \in Process
        /\ \/ call[c].op = "stop" /\ call[c].target \in observed
           \/ call[c].op = "restart"
    BY <1>0, <1>1 DEF Close, CallShape
  <2>2. p \in Found(call[c].target) /\ (p \in killed' => ~Graceful(c))
    BY <1>1, CloseCases DEF Closes
  <2>3. p = call[c].target
    BY <1>0, <2>1, <2>2, FoundIsTarget
  <2> QED
    BY <2>1, <2>2, <2>3 DEF Graceful
<1>2. ASSUME NEW c \in Calls, ExitTimesOut(c)
      PROVE  FALSE
  <2>1. /\ call[c].phase = "exit" /\ call[c].target \in Process /\ ~call[c].forced
        /\ p \in Found(call[c].target)
    BY <1>0, <1>2, TimeOutCases DEF ExitTimesOut, Forces, CallShape
  <2>2. p = call[c].target /\ p \in running
    BY <1>0, <2>1, FoundIsTarget
  <2>3. p \in closing
    BY <1>0, <2>1, <2>2 DEF TargetKnown
  <2> QED
    BY <2>3
<1>3. CASE \E c \in Calls : Close(c) \/ ExitTimesOut(c)
  BY <1>1, <1>2, <1>3
<1>4. CASE closing' \subseteq closing /\ killed' \subseteq killed
  BY <1>4
<1>5. ASSUME NEW c \in Calls, ~(Close(c) \/ ExitTimesOut(c)),
             \/ \E project \in Projects : Launch(c, project)
             \/ \E id \in Ids : Stop(c, id) \/ Restart(c, id)
             \/ Step(c)
             \/ Returns(c)
      PROVE  UNCHANGED <<closing, killed>>
  BY <1>5 DEF Launch, Stop, Restart, Step, List, Spawn, SpawnFails, Connect, Save,
     SaveTimesOut, Exited, Returns, world
<1>6. ASSUME Environment \/ UNCHANGED vars
      PROVE  closing' \subseteq closing /\ killed' \subseteq killed
  BY <1>6 DEF Environment, UserStarts, Binds, Edits, Ends, vars
<1> QED
  BY <1>3, <1>4, <1>5, <1>6 DEF Next

(* Exactly the process that a call chose is closed or killed, and it is    *)
(* gone before the call says so unless the process list it read had        *)
(* failed, for any reuse of ids, any number of calls at once and any       *)
(* behaviour of Workbench and its user.                                    *)
THEOREM ExactlyTheTarget == Spec => ExactlyTheTargetEnds
<1>1. ControlInv /\ [Next]_vars =>
        [\A p \in (closing' \cup killed') \ (closing \cup killed) :
          \E c \in Calls :
            /\ call[c].phase = "close" /\ call[c].target = p
            /\ call[c].op = "stop" => p \in observed
            /\ p \in killed' => call[c].op = "restart" \/ call[c].saver = None]_vars
  BY StepEndsTarget
<1>2. Spec => OnlyTheTargetIsClosed
  BY <1>1, Inductive, PTL DEF Spec, OnlyTheTargetIsClosed
<1> QED
  BY <1>2, ReportedExitsAreReal DEF ExactlyTheTargetEnds

(***************************************************************************)
(* The editing tools.                                                      *)
(***************************************************************************)
\* Numbers are handed out in order, each of them once.
Numbered(S) ==
    /\ IsFiniteSet(S)
    /\ \A x \in S : x.number \in 1 .. Cardinality(S)
    /\ \A x, y \in S : x.number = y.number => x = y

Entries ==
    /\ Numbered(given.descriptors) /\ Numbered(given.confirmations)
    /\ descriptors \subseteq given.descriptors
    /\ \A g \in confirmations :
          \E h \in given.confirmations : h.number = g.number /\ h.bound = g.bound
    /\ given = [descriptors |-> given.descriptors, confirmations |-> given.confirmations]

ComponentStates == [identity : Nat, class : Classes, value : Values \union {Default}]
Counts == [identities : Nat, events : Nat, removals : Nat]

Listed ==
    /\ components # Absent => components \in Seq(ComponentStates)
    /\ counts \in Counts

----------------------------------------------------------------------------
(* A call, and what it holds.                                              *)

Shape(x) ==
    x = [step |-> x.step, request |-> x.request, token |-> x.token,
         observed |-> x.observed, answer |-> x.answer, heard |-> x.heard]

\* What Begin sends, and which steps a request goes through.
Asks(x) ==
    /\ x.request.descriptor # Absent => x.request.op \in {"set", "write"}
    /\ x.request.op = "add" => x.request.id[2] \in Classes
    /\ x.request.op \in {"set", "write"} => x.request.value \in Values
    /\ x.token # Absent => Confirmed(x.request.op)
    /\ x.step \in {"confirm", "take"} => x.request.op = "write"

\* The call has taken a confirmation, or a descriptor that it will use.
Spent(x) == x.token # Absent /\ x.step \in {"take", "sent"}
Used(x) ==
    /\ x.step = "sent" /\ x.request.descriptor # Absent
    /\ x.token # Absent \/ ~Confirmed(x.request.op)

\* It was given for this request; no table, edit or other call has it.
Spends(c, x, C) ==
    Spent(x) =>
        /\ \E g \in given.confirmations : g.number = x.token /\ g.bound = x.request
        /\ \A g \in C : g.number # x.token
        /\ \A edit \in performed : edit.token # x.token
        /\ \A d \in Callers \ {c} : Spent(editing[d]) => editing[d].token # x.token
Uses(c, x, D) ==
    Used(x) =>
        /\ \A d \in D : d.number # x.request.descriptor
        /\ \A edit \in performed : edit.request.descriptor # x.request.descriptor
        /\ \A d \in Callers \ {c} :
              Used(editing[d]) => editing[d].request.descriptor # x.request.descriptor

\* A request that is sent expects the value that its descriptor was issued for.
Describes(d, request, value) ==
    d.number = request.descriptor /\ d.id = request.id /\ d.observed = value
Aims(x) ==
    x.step = "sent" /\ x.request.op \in {"set", "write"} =>
        \E d \in given.descriptors : Describes(d, x.request, x.observed)

\* Unless one was removed since, the component is still where it was shown.
Points(id, identity, removals) ==
    /\ removals \in Nat /\ removals <= counts.removals
    /\ removals = counts.removals /\ components # Absent =>
          id[1] \in DOMAIN components /\ components[id[1]].identity = identity
Previews(x) ==
    /\ x.step = "answered" /\ x.request.op = "remove"
    /\ x.answer # Absent /\ x.answer.status = "confirmation-required"
Shows(x) == Previews(x) => Points(x.request.id, x.answer.identity, x.answer.removals)

Fits(c, x, C, D) ==
    /\ Shape(x) /\ Asks(x)
    /\ Spends(c, x, C) /\ Uses(c, x, D) /\ Aims(x) /\ Shows(x)

Calling ==
    /\ editing = [c \in Callers |-> editing[c]]
    /\ \A c \in Callers : Fits(c, editing[c], confirmations, descriptors)

----------------------------------------------------------------------------
(* What is left of an edit.                                                *)

Traced(edit) ==
    /\ edit.token # Absent =>
          /\ Confirmed(edit.request.op)
          /\ \A g \in confirmations : g.number # edit.token
    /\ edit.request.descriptor # Absent =>
          \A d \in descriptors : d.number # edit.request.descriptor

Pointed ==
    \A g \in given.confirmations :
        g.bound.op = "remove" => Points(g.bound.id, g.shown, g.removals)

Inv ==
    /\ Entries /\ Listed /\ Calling /\ Pointed
    /\ \A edit \in performed : Traced(edit)
    /\ EditsAreGranted /\ ExactComponentIsRemoved

----------------------------------------------------------------------------
(* A step of one call that edits nothing and hands nothing out.            *)

LEMMA OtherCalls ==
  ASSUME Calling, NEW c \in Callers, NEW x, editing' = [editing EXCEPT ![c] = x]
  PROVE  /\ editing' = [d \in Callers |-> editing'[d]]
         /\ \A d \in Callers : editing'[d] = IF d = c THEN x ELSE editing[d]
BY DEF Calling

Remains ==
    /\ UNCHANGED <<target, components, given, performed>>
    /\ counts' \in Counts /\ counts'.removals = counts.removals

LEMMA MoveFits ==
  ASSUME Inv, NEW c \in Callers, NEW x, editing' = [editing EXCEPT ![c] = x],
         confirmations' \subseteq confirmations, descriptors' \subseteq descriptors,
         Fits(c, x, confirmations', descriptors'), Remains
  PROVE  Calling'
<1>1. /\ editing' = [d \in Callers |-> editing'[d]]
      /\ \A d \in Callers : editing'[d] = IF d = c THEN x ELSE editing[d]
  BY OtherCalls DEF Inv
<1>2. ASSUME NEW d \in Callers
      PROVE  Fits(d, editing[d], confirmations, descriptors)'
  <2>1. (Shape(editing[d]) /\ Asks(editing[d]))'
    BY <1>1 DEF Remains, Inv, Calling, Fits, Asks, Shape, Confirmed
  <2>2. Spends(d, editing[d], confirmations)'
    <3>1. CASE d = c
      BY <1>1, <3>1 DEF Remains, Fits, Spends
    <3>2. CASE d # c
      <4>1. /\ editing'[d] = editing[d] /\ editing'[c] = x
            /\ Spends(d, editing[d], confirmations)
            /\ Spends(c, x, confirmations')
        BY <1>1, <3>2 DEF Inv, Calling, Fits
      <4>2. \A e \in Callers \ {d} :
               Spent(editing[d]) /\ Spent(editing'[e]) => editing'[e].token # editing[d].token
        BY <1>1, <3>2, <4>1 DEF Spends
      <4> QED
        BY <4>1, <4>2 DEF Remains, Spends, Spent
    <3> QED
      BY <3>1, <3>2
  <2>3. Uses(d, editing[d], descriptors)'
    <3>1. CASE d = c
      BY <1>1, <3>1 DEF Remains, Fits, Uses, Used, Confirmed
    <3>2. CASE d # c
      <4>1. /\ editing'[d] = editing[d] /\ editing'[c] = x
            /\ Uses(d, editing[d], descriptors)
            /\ Uses(c, x, descriptors')
        BY <1>1, <3>2 DEF Inv, Calling, Fits
      <4>2. \A e \in Callers \ {d} :
               Used(editing[d]) /\ Used(editing'[e]) =>
                  editing'[e].request.descriptor # editing[d].request.descriptor
        BY <1>1, <3>2, <4>1 DEF Uses
      <4> QED
        BY <4>1, <4>2 DEF Remains, Uses, Used, Confirmed
    <3> QED
      BY <3>1, <3>2
  <2>4. (Aims(editing[d]) /\ Shows(editing[d]))'
    BY <1>1 DEF Remains, Inv, Calling, Fits, Aims, Shows, Points, Previews
  <2> QED
    BY <2>1, <2>2, <2>3, <2>4 DEF Fits
<1> QED
  BY <1>1, <1>2 DEF Calling

LEMMA MoveKeeps ==
  ASSUME Inv, NEW c \in Callers, NEW x, editing' = [editing EXCEPT ![c] = x],
         confirmations' \subseteq confirmations, descriptors' \subseteq descriptors,
         Fits(c, x, confirmations', descriptors'), Remains
  PROVE  Inv'
<1>1. Calling'
  BY MoveFits
<1>2. Entries' /\ Listed'
  BY DEF Inv, Remains, Entries, Listed
<1>3. Pointed'
  BY DEF Inv, Remains, Pointed, Points
<1>4. \A edit \in performed' : Traced(edit)'
  BY DEF Inv, Remains, Traced, Confirmed
<1>5. EditsAreGranted' /\ ExactComponentIsRemoved'
  BY DEF Inv, Remains, EditsAreGranted, ExactComponentIsRemoved, Confirmed
<1> QED
  BY <1>1, <1>2, <1>3, <1>4, <1>5 DEF Inv

----------------------------------------------------------------------------
(* The tools and the answers that only move a call.                        *)

LEMMA CallFits ==
  ASSUME Inv, NEW c \in Callers
  PROVE  /\ Fits(c, editing[c], confirmations, descriptors)
         /\ Shape(editing[c]) /\ Asks(editing[c])
BY DEF Inv, Calling, Fits

LEMMA IdleFits ==
  ASSUME NEW c, NEW C, NEW D
  PROVE  Fits(c, Idle, C, D)
<1>1. Shape(Idle) /\ Asks(Idle)
  BY DEF Shape, Asks, Idle, Request, Whole
<1>2. ~Spent(Idle) /\ ~Used(Idle) /\ ~Previews(Idle)
  BY DEF Idle, Request, Spent, Used, Previews
<1>3. Aims(Idle)
  BY DEF Idle, Aims
<1> QED
  BY <1>1, <1>2, <1>3 DEF Fits, Spends, Uses, Shows

LEMMA Stays ==
  ASSUME Inv, UNCHANGED <<target, components, given, performed, counts>>
  PROVE  Remains
BY DEF Inv, Listed, Remains

LEMMA EndKeeps ==
  ASSUME Inv, NEW c \in Callers, End(c), Remains,
         confirmations' \subseteq confirmations, descriptors' \subseteq descriptors
  PROVE  Inv'
<1>1. Fits(c, Idle, confirmations', descriptors')
  BY IdleFits
<1>2. editing' = [editing EXCEPT ![c] = Idle]
  BY DEF End
<1> HIDE DEF Idle
<1> QED
  BY <1>1, <1>2, MoveKeeps

\* An update of some fields of a call, as an update of the call.
Put(x, step, recorded, reply, heard) ==
    [step |-> step, request |-> x.request, token |-> x.token,
     observed |-> recorded, answer |-> reply, heard |-> heard]

LEMMA PutParts ==
  ASSUME NEW x, NEW step, NEW recorded, NEW reply, NEW heard
  PROVE  LET y == Put(x, step, recorded, reply, heard) IN
         /\ Shape(y) /\ y.step = step /\ y.observed = recorded /\ y.answer = reply
         /\ y.heard = heard /\ y.request = x.request /\ y.token = x.token
BY DEF Put, Shape

LEMMA PutStep ==
  ASSUME NEW x, Shape(x), NEW step
  PROVE  [x EXCEPT !.step = step] = Put(x, step, x.observed, x.answer, x.heard)
<1> DEFINE p == x.step
           q == x.request
           r == x.token
           o == x.observed
           w == x.answer
           h == x.heard
<1>1. x = [step |-> p, request |-> q, token |-> r, observed |-> o,
           answer |-> w, heard |-> h]
  BY DEF Shape
<1> HIDE DEF p, q, r, o, w, h
<1> QED
  BY <1>1 DEF Put, p, q, r, o, w, h

LEMMA PutHeard ==
  ASSUME NEW x, Shape(x), NEW heard
  PROVE  [x EXCEPT !.heard = heard] = Put(x, x.step, x.observed, x.answer, heard)
<1> DEFINE p == x.step
           q == x.request
           r == x.token
           o == x.observed
           w == x.answer
           h == x.heard
<1>1. x = [step |-> p, request |-> q, token |-> r, observed |-> o,
           answer |-> w, heard |-> h]
  BY DEF Shape
<1> HIDE DEF p, q, r, o, w, h
<1>2. [x EXCEPT !.heard = heard] =
        [step |-> p, request |-> q, token |-> r, observed |-> o,
         answer |-> w, heard |-> heard]
  BY <1>1
<1> QED
  BY <1>2 DEF Put, p, q, r, o, w, h

LEMMA PutObserved ==
  ASSUME NEW x, Shape(x), NEW step, NEW recorded
  PROVE  /\ [x EXCEPT !.step = step, !.observed = recorded] =
               Put(x, step, recorded, x.answer, x.heard)
         /\ [x EXCEPT !.observed = recorded, !.step = step] =
               Put(x, step, recorded, x.answer, x.heard)
<1> DEFINE p == x.step
           q == x.request
           r == x.token
           o == x.observed
           w == x.answer
           h == x.heard
<1>1. x = [step |-> p, request |-> q, token |-> r, observed |-> o,
           answer |-> w, heard |-> h]
  BY DEF Shape
<1> HIDE DEF p, q, r, o, w, h
<1> DEFINE y == [x EXCEPT !.step = step]
<1>2. y = [step |-> step, request |-> q, token |-> r, observed |-> o,
           answer |-> w, heard |-> h]
  BY <1>1
<1>3. /\ [x EXCEPT !.step = step, !.observed = recorded] = [y EXCEPT !.observed = recorded]
      /\ [x EXCEPT !.observed = recorded, !.step = step] = [y EXCEPT !.observed = recorded]
  BY <1>1
<1> HIDE DEF y
<1>4. [y EXCEPT !.observed = recorded] =
        [step |-> step, request |-> q, token |-> r, observed |-> recorded,
         answer |-> w, heard |-> h]
  BY <1>2
<1> QED
  BY <1>3, <1>4 DEF Put, p, q, r, o, w, h

LEMMA PutAnswer ==
  ASSUME NEW x, Shape(x), NEW step, NEW reply
  PROVE  [x EXCEPT !.step = step, !.answer = reply] =
           Put(x, step, x.observed, reply, x.heard)
<1> DEFINE p == x.step
           q == x.request
           r == x.token
           o == x.observed
           w == x.answer
           h == x.heard
<1>1. x = [step |-> p, request |-> q, token |-> r, observed |-> o,
           answer |-> w, heard |-> h]
  BY DEF Shape
<1> HIDE DEF p, q, r, o, w, h
<1> DEFINE y == [x EXCEPT !.step = step]
<1>2. y = [step |-> step, request |-> q, token |-> r, observed |-> o,
           answer |-> w, heard |-> h]
  BY <1>1
<1>3. [x EXCEPT !.step = step, !.answer = reply] = [y EXCEPT !.answer = reply]
  BY <1>1
<1> HIDE DEF y
<1>4. [y EXCEPT !.answer = reply] =
        [step |-> step, request |-> q, token |-> r, observed |-> o,
         answer |-> reply, heard |-> h]
  BY <1>2
<1> QED
  BY <1>3, <1>4 DEF Put, p, q, r, o, w, h

LEMMA CallStep ==
  ASSUME Inv, NEW c \in Callers, NEW step
  PROVE  [editing EXCEPT ![c].step = step] =
            [editing EXCEPT ![c] =
                    Put(editing[c], step, editing[c].observed, editing[c].answer, editing[c].heard)]
<1> DEFINE x == editing[c]
<1>1. editing = [d \in Callers |-> editing[d]] /\ Shape(x)
  BY CallFits DEF Inv, Calling
<1>2. [editing EXCEPT ![c].step = step] =
         [editing EXCEPT ![c] = [x EXCEPT !.step = step]]
  BY <1>1
<1>3. [x EXCEPT !.step = step] =
         Put(x, step, x.observed, x.answer, x.heard)
  BY <1>1, PutStep
<1> QED
  BY <1>2, <1>3

LEMMA CallHeard ==
  ASSUME Inv, NEW c \in Callers, NEW heard
  PROVE  [editing EXCEPT ![c].heard = heard] =
            [editing EXCEPT ![c] =
                    Put(editing[c], editing[c].step, editing[c].observed, editing[c].answer, heard)]
<1> DEFINE x == editing[c]
<1>1. editing = [d \in Callers |-> editing[d]] /\ Shape(x)
  BY CallFits DEF Inv, Calling
<1>2. [editing EXCEPT ![c].heard = heard] =
         [editing EXCEPT ![c] = [x EXCEPT !.heard = heard]]
  BY <1>1
<1>3. [x EXCEPT !.heard = heard] =
         Put(x, x.step, x.observed, x.answer, heard)
  BY <1>1, PutHeard
<1> QED
  BY <1>2, <1>3

LEMMA CallPeeks ==
  ASSUME Inv, NEW c \in Callers, NEW step, NEW recorded
  PROVE  [editing EXCEPT ![c].observed = recorded, ![c].step = step] =
            [editing EXCEPT ![c] =
                    Put(editing[c], step, recorded, editing[c].answer, editing[c].heard)]
<1> DEFINE x == editing[c]
<1>1. editing = [d \in Callers |-> editing[d]] /\ Shape(x)
  BY CallFits DEF Inv, Calling
<1>2. [editing EXCEPT ![c].observed = recorded, ![c].step = step] =
         [editing EXCEPT ![c] = [x EXCEPT !.observed = recorded, !.step = step]]
  BY <1>1
<1>3. [x EXCEPT !.observed = recorded, !.step = step] =
         Put(x, step, recorded, x.answer, x.heard)
  BY <1>1, PutObserved
<1> QED
  BY <1>2, <1>3

LEMMA CallTakes ==
  ASSUME Inv, NEW c \in Callers, NEW step, NEW recorded
  PROVE  [editing EXCEPT ![c].step = step, ![c].observed = recorded] =
            [editing EXCEPT ![c] =
                    Put(editing[c], step, recorded, editing[c].answer, editing[c].heard)]
<1> DEFINE x == editing[c]
<1>1. editing = [d \in Callers |-> editing[d]] /\ Shape(x)
  BY CallFits DEF Inv, Calling
<1>2. [editing EXCEPT ![c].step = step, ![c].observed = recorded] =
         [editing EXCEPT ![c] = [x EXCEPT !.step = step, !.observed = recorded]]
  BY <1>1
<1>3. [x EXCEPT !.step = step, !.observed = recorded] =
         Put(x, step, recorded, x.answer, x.heard)
  BY <1>1, PutObserved
<1> QED
  BY <1>2, <1>3

LEMMA CallAnswers ==
  ASSUME Inv, NEW c \in Callers, NEW step, NEW reply
  PROVE  [editing EXCEPT ![c].step = step, ![c].answer = reply] =
            [editing EXCEPT ![c] =
                    Put(editing[c], step, editing[c].observed, reply, editing[c].heard)]
<1> DEFINE x == editing[c]
<1>1. editing = [d \in Callers |-> editing[d]] /\ Shape(x)
  BY CallFits DEF Inv, Calling
<1>2. [editing EXCEPT ![c].step = step, ![c].answer = reply] =
         [editing EXCEPT ![c] = [x EXCEPT !.step = step, !.answer = reply]]
  BY <1>1
<1>3. [x EXCEPT !.step = step, !.answer = reply] =
         Put(x, step, x.observed, reply, x.heard)
  BY <1>1, PutAnswer
<1> QED
  BY <1>2, <1>3

LEMMA RequestsAsk ==
  ASSUME NEW request \in Requests
  PROVE  /\ request.descriptor # Absent => request.op \in {"set", "write"}
         /\ request.op = "add" => request.id[2] \in Classes
         /\ request.op \in {"set", "write"} => request.value \in Values
<1> DEFINE ids == IF given.descriptors = {} THEN {} ELSE ComponentIds
           numbers == {d.number : d \in given.descriptors}
           set == IF target = "entity" THEN "set" ELSE "write"
<1>1. \/ \E id \in ComponentIds : request = Request("inspect", id, Absent, Absent)
      \/ \E id \in ComponentIds : request = Request("remove", id, Absent, Absent)
      \/ \E class \in Classes : request = Request("add", <<0, class>>, Absent, Absent)
      \/ \E id \in ids, d \in numbers, value \in Values : request = Request(set, id, d, value)
      \/ request = Request("delete", Whole, Absent, Absent)
  BY DEF Requests
<1>2. set \in {"set", "write"}
  OBVIOUS
<1> HIDE DEF ids, numbers, set
<1> QED
  BY <1>1, <1>2 DEF Request

LEMMA BeginKeeps ==
  ASSUME Inv, NEW c \in Callers, Begin(c)
  PROVE  Inv'
<1>1. PICK request \in Requests,
           token \in {Absent} \union {g.number : g \in given.confirmations} :
         /\ token # Absent => Confirmed(request.op)
         /\ editing' = [editing EXCEPT ![c] =
               [Idle EXCEPT !.step = "begun", !.request = request, !.token = token]]
  BY DEF Begin
<1> DEFINE x == [Idle EXCEPT !.step = "begun", !.request = request, !.token = token]
<1>2. /\ Shape(x) /\ x.step = "begun" /\ x.request = request /\ x.token = token
  <2> DEFINE none == Request("none", Whole, Absent, Absent)
             on == TRUE
             i == [step |-> "idle", request |-> none, token |-> Absent, observed |-> Absent,
                   answer |-> Absent, heard |-> on]
             y == [i EXCEPT !.step = "begun"]
             z == [y EXCEPT !.request = request]
  <2>0. Idle = i
    BY DEF Idle
  <2> HIDE DEF none, on
  <2>1. y = [step |-> "begun", request |-> none, token |-> Absent, observed |-> Absent,
             answer |-> Absent, heard |-> on]
    OBVIOUS
  <2>2. x = [z EXCEPT !.token = token]
    BY <2>0
  <2> HIDE DEF y
  <2>3. z = [step |-> "begun", request |-> request, token |-> Absent, observed |-> Absent,
             answer |-> Absent, heard |-> on]
    BY <2>1
  <2> HIDE DEF z, x
  <2>4. x = [step |-> "begun", request |-> request, token |-> token, observed |-> Absent,
             answer |-> Absent, heard |-> on]
    BY <2>2, <2>3
  <2> QED
    BY <2>4 DEF Shape
<1> HIDE DEF x
<1>3. Asks(x)
  BY <1>1, <1>2, RequestsAsk DEF Asks
<1>4. Fits(c, x, confirmations', descriptors')
  BY <1>2, <1>3 DEF Fits, Spends, Spent, Uses, Used, Aims, Shows, Previews
<1>5. editing' = [editing EXCEPT ![c] = x]
  BY <1>1 DEF x
<1>6. Remains /\ UNCHANGED <<confirmations, descriptors>>
  <2>1. counts \in Counts /\ counts' = [counts EXCEPT !.events = @ + 1]
    BY DEF Begin, Inv, Listed
  <2>2. counts' \in Counts /\ counts'.removals = counts.removals
    BY <2>1 DEF Counts
  <2> QED
    BY <2>2 DEF Begin, Remains
<1> QED
  BY <1>4, <1>5, <1>6, MoveKeeps

LEMMA PeekKeeps ==
  ASSUME Inv, NEW c \in Callers, Peek(c)
  PROVE  Inv'
<1>1. Remains /\ UNCHANGED <<confirmations, descriptors>>
  BY Stays DEF Peek
<1>2. CASE End(c)
  BY <1>1, <1>2, EndKeeps
<1>3. ASSUME NEW d \in DescriptorsOf(editing[c].request),
             editing' = [editing EXCEPT ![c].observed = d.observed,
                        ![c].step = IF editing[c].token = Absent THEN "sent" ELSE "confirm"]
      PROVE  Inv'
  <2> DEFINE step == IF editing[c].token = Absent THEN "sent" ELSE "confirm"
             x == Put(editing[c], step, d.observed, editing[c].answer, editing[c].heard)
  <2>1. editing' = [editing EXCEPT ![c] = x]
    <3> HIDE DEF step
    <3>1. [editing EXCEPT ![c].observed = d.observed, ![c].step = step] = [editing EXCEPT ![c] = x]
      BY CallPeeks
    <3> QED
      BY <1>3, <3>1 DEF step
  <2>2. /\ Shape(x) /\ x.step = step /\ x.observed = d.observed
        /\ x.request = editing[c].request /\ x.token = editing[c].token
    BY PutParts
  <2> HIDE DEF x
  <2>3. editing[c].request.op = "write" /\ Asks(editing[c]) /\ Confirmed("write")
    BY CallFits DEF Peek, Confirmed
  <2>4. Asks(x) /\ ~Spent(x) /\ ~Used(x) /\ ~Previews(x)
    BY <2>2, <2>3 DEF Asks, Spent, Used, Previews
  <2>5. d \in given.descriptors /\ Describes(d, x.request, x.observed)
    BY <2>2 DEF DescriptorsOf, Describes, Inv, Entries
  <2>6. Fits(c, x, confirmations', descriptors')
    BY <2>2, <2>4, <2>5 DEF Fits, Spends, Uses, Aims, Shows
  <2> QED
    BY <1>1, <2>1, <2>6, MoveKeeps
<1> QED
  BY <1>2, <1>3 DEF Peek

LEMMA SendKeeps ==
  ASSUME Inv, NEW c \in Callers, Send(c)
  PROVE  Inv'
<1> DEFINE x == Put(editing[c], "sent", editing[c].observed, editing[c].answer, editing[c].heard)
<1>1. Remains /\ UNCHANGED <<confirmations, descriptors>>
  BY Stays DEF Send
<1>2. editing' = [editing EXCEPT ![c] = x]
  BY CallStep DEF Send, Become
<1>3. Shape(x) /\ x.step = "sent" /\ x.request = editing[c].request /\ x.token = editing[c].token
  BY PutParts
<1> HIDE DEF x
<1>4. /\ editing[c].request.op \in {"inspect", "add", "remove", "delete"}
      /\ editing[c].token = Absent /\ Asks(editing[c])
  BY CallFits DEF Send
<1>5. Asks(x) /\ ~Spent(x) /\ ~Used(x) /\ ~Previews(x)
  BY <1>3, <1>4 DEF Asks, Spent, Used, Previews
<1>6. Fits(c, x, confirmations', descriptors')
  BY <1>3, <1>4, <1>5 DEF Fits, Spends, Uses, Aims, Shows
<1> QED
  BY <1>1, <1>2, <1>6, MoveKeeps

LEMMA TimeOutKeeps ==
  ASSUME Inv, NEW c \in Callers, TimeOut(c)
  PROVE  Inv'
<1> DEFINE still == FALSE
           x == Put(editing[c], editing[c].step, editing[c].observed, editing[c].answer, still)
<1>1. Remains /\ UNCHANGED <<confirmations, descriptors>>
  BY Stays DEF TimeOut
<1>2. editing' = [editing EXCEPT ![c] = x]
  <2>1. editing' = [editing EXCEPT ![c].heard = still]
    BY DEF TimeOut
  <2> HIDE DEF still
  <2> QED
    BY <2>1, CallHeard
<1> HIDE DEF still
<1>3. /\ Shape(x) /\ x.step = editing[c].step /\ x.observed = editing[c].observed
      /\ x.request = editing[c].request /\ x.token = editing[c].token
      /\ x.answer = editing[c].answer
  BY PutParts
<1> HIDE DEF x
<1>4. Fits(c, editing[c], confirmations', descriptors')
  BY <1>1, CallFits
<1>5. Fits(c, x, confirmations', descriptors')
  BY <1>3, <1>4 DEF Fits, Asks, Spends, Spent, Uses, Used, Aims, Shows, Previews
<1> QED
  BY <1>1, <1>2, <1>5, MoveKeeps

LEMMA TakeConfirmationKeeps ==
  ASSUME Inv, NEW c \in Callers, TakeConfirmation(c)
  PROVE  Inv'
<1> DEFINE write == editing[c].request.op = "write"
           step == IF write THEN "take" ELSE "sent"
           x == Put(editing[c], step, editing[c].observed, editing[c].answer, editing[c].heard)
<1>1. /\ Remains /\ descriptors' = descriptors
      /\ confirmations' = {g \in confirmations : g.number # editing[c].token}
      /\ confirmations' \subseteq confirmations
  BY Stays DEF TakeConfirmation
<1>2. CASE End(c)
  BY <1>1, <1>2, EndKeeps
<1>3. ASSUME NEW g \in confirmations, g.number = editing[c].token, g.bound = editing[c].request,
             Become(c, step)
      PROVE  Inv'
  <2> HIDE DEF step
  <2>1. editing' = [editing EXCEPT ![c] = x]
    BY <1>3, CallStep DEF Become
  <2>2. /\ Shape(x) /\ x.step = step /\ x.observed = editing[c].observed
        /\ x.request = editing[c].request /\ x.token = editing[c].token
    BY PutParts
  <2> HIDE DEF x
  <2>3. /\ Asks(editing[c]) /\ editing[c].token # Absent /\ Confirmed(editing[c].request.op)
        /\ step = "take" => editing[c].request.op = "write"
        /\ step \in {"take", "sent"}
        /\ step = "sent" => editing[c].request.op # "write"
    BY CallFits DEF TakeConfirmation, Asks, step
  <2>4. Asks(x) /\ ~Used(x) /\ ~Previews(x) /\ Aims(x)
    BY <2>2, <2>3 DEF Asks, Used, Previews, Aims, Confirmed
  <2>5. Spends(c, x, confirmations')
    <3>1. \E h \in given.confirmations : h.number = x.token /\ h.bound = x.request
      BY <1>3, <2>2 DEF Inv, Entries
    <3>2. \A h \in confirmations' : h.number # x.token
      BY <1>1, <2>2
    <3>3. \A edit \in performed : edit.token # x.token
      BY <1>3, <2>2, <2>3 DEF Inv, Traced
    <3>4. \A d \in Callers \ {c} : Spent(editing[d]) => editing[d].token # x.token
      BY <1>3, <2>2, CallFits DEF Fits, Spends
    <3> QED
      BY <3>1, <3>2, <3>3, <3>4 DEF Spends
  <2>6. Fits(c, x, confirmations', descriptors')
    BY <2>2, <2>4, <2>5 DEF Fits, Uses, Shows
  <2> QED
    BY <1>1, <2>1, <2>6, MoveKeeps
<1> QED
  BY <1>2, <1>3 DEF TakeConfirmation

LEMMA TakeDescriptorKeeps ==
  ASSUME Inv, NEW c \in Callers, TakeDescriptor(c)
  PROVE  Inv'
<1>1. /\ Remains /\ confirmations' = confirmations
      /\ descriptors' = {d \in descriptors : d.number # editing[c].request.descriptor}
      /\ descriptors' \subseteq descriptors
  BY Stays DEF TakeDescriptor
<1>2. CASE End(c)
  BY <1>1, <1>2, EndKeeps
<1>3. ASSUME NEW d \in DescriptorsOf(editing[c].request),
             editing' = [editing EXCEPT ![c].step = "sent", ![c].observed = d.observed]
      PROVE  Inv'
  <2> DEFINE x == Put(editing[c], "sent", d.observed, editing[c].answer, editing[c].heard)
  <2>1. editing' = [editing EXCEPT ![c] = x]
    BY <1>3, CallTakes
  <2>2. /\ Shape(x) /\ x.step = "sent" /\ x.observed = d.observed
        /\ x.request = editing[c].request /\ x.token = editing[c].token
    BY PutParts
  <2> HIDE DEF x
  <2>3. /\ Asks(editing[c]) /\ editing[c].request.op \in {"set", "write"}
        /\ editing[c].step = IF editing[c].request.op = "set" THEN "begun" ELSE "take"
    BY CallFits DEF TakeDescriptor
  <2>4. /\ d \in descriptors /\ d.number = x.request.descriptor /\ d.id = x.request.id
    BY <2>2 DEF DescriptorsOf
  <2>5. Asks(x) /\ ~Previews(x)
    BY <2>2, <2>3 DEF Asks, Previews
  <2>6. Aims(x)
    BY <2>2, <2>4 DEF Aims, Describes, Inv, Entries
  <2>7. Spends(c, x, confirmations')
    <3>1. ASSUME Spent(x) PROVE Spent(editing[c])
      BY <2>2, <2>3, <3>1 DEF Spent, Asks, Confirmed
    <3>2. Spends(c, editing[c], confirmations)
      BY CallFits DEF Fits
    <3> QED
      BY <1>1, <2>2, <3>1, <3>2 DEF Spends
  <2>8. Uses(c, x, descriptors')
    <3> SUFFICES ASSUME Used(x) PROVE Uses(c, x, descriptors')
      BY DEF Uses
    <3>1. \A e \in descriptors' : e.number # x.request.descriptor
      BY <1>1, <2>2
    <3>2. \A edit \in performed : edit.request.descriptor # x.request.descriptor
      BY <2>4 DEF Inv, Traced, Used
    <3>3. \A e \in Callers \ {c} :
             Used(editing[e]) => editing[e].request.descriptor # x.request.descriptor
      BY <2>4, CallFits DEF Fits, Uses
    <3> QED
      BY <3>1, <3>2, <3>3 DEF Uses
  <2>9. Fits(c, x, confirmations', descriptors')
    BY <2>2, <2>5, <2>6, <2>7, <2>8 DEF Fits, Shows
  <2> QED
    BY <1>1, <2>1, <2>9, MoveKeeps
<1> QED
  BY <1>2, <1>3 DEF TakeDescriptor

\* An answer that reports no edit.
LEMMA RepliesKeeps ==
  ASSUME Inv, NEW c \in Callers, NEW reply, Replies(c, reply), Remains,
         confirmations' = confirmations, descriptors' = descriptors,
         editing[c].request.op = "remove" /\ reply # Absent
            /\ reply.status = "confirmation-required" =>
               Points(editing[c].request.id, reply.identity, reply.removals)
  PROVE  Inv'
<1> DEFINE x == Put(editing[c], "answered", editing[c].observed, reply, editing[c].heard)
<1>1. editing' = [editing EXCEPT ![c] = x]
  BY CallAnswers DEF Replies
<1>2. /\ Shape(x) /\ x.step = "answered" /\ x.answer = reply
      /\ x.request = editing[c].request /\ x.token = editing[c].token
  BY PutParts
<1> HIDE DEF x
<1>3. Asks(x)
  BY <1>2, CallFits DEF Asks
<1>4. Shows(x)
  BY <1>2 DEF Shows, Previews
<1>5. Fits(c, x, confirmations', descriptors')
  BY <1>2, <1>3, <1>4 DEF Fits, Spends, Spent, Uses, Used, Aims
<1> QED
  BY <1>1, <1>5, MoveKeeps

LEMMA PreviewKeeps ==
  ASSUME Inv, NEW c \in Callers, NEW identity, Preview(c, identity),
         UNCHANGED <<target, descriptors, confirmations, given>>,
         editing[c].request.op = "remove" =>
           Points(editing[c].request.id, identity, counts.removals)
  PROVE  Inv'
<1> DEFINE reply == [status |-> "confirmation-required", identity |-> identity,
                      value |-> Absent, removals |-> counts.removals]
<1>1. Replies(c, reply)
  BY DEF Preview
<1>2. Remains
  BY Stays DEF Preview
<1>3. reply.identity = identity /\ reply.removals = counts.removals
  OBVIOUS
<1> HIDE DEF reply
<1> QED
  BY <1>1, <1>2, <1>3, RepliesKeeps

LEMMA FoundPoints ==
  ASSUME Inv, NEW c \in Callers, NEW i \in Located(editing[c].request.id)
  PROVE  /\ i = editing[c].request.id[1] /\ i \in DOMAIN components
         /\ Points(editing[c].request.id, components[i].identity, counts.removals)
<1>1. i = editing[c].request.id[1] /\ i \in DOMAIN components
  BY DEF Located
<1>2. counts.removals \in Nat
  BY DEF Inv, Listed, Counts
<1> QED
  BY <1>1, <1>2 DEF Points

LEMMA QuietHandleKeeps ==
  ASSUME Inv, NEW c \in Callers,
         UNCHANGED <<target, descriptors, confirmations, given>>,
         \/ Reject(c) \/ PreviewWhole(c)
         \/ \E i \in Located(editing[c].request.id) : Inspect(c, i) \/ PreviewComponent(c, i)
  PROVE  Inv'
<1>1. CASE Reject(c)
  <2>1. Replies(c, Absent) /\ Remains
    BY <1>1, Stays DEF Reject
  <2> QED
    BY <2>1, RepliesKeeps
<1>2. CASE PreviewWhole(c)
  BY <1>2, PreviewKeeps DEF PreviewWhole
<1>3. ASSUME NEW i \in Located(editing[c].request.id), Inspect(c, i) PROVE Inv'
  <2> DEFINE reply == [status |-> "available", identity |-> components[i].identity,
                        value |-> components[i].value]
  <2>1. Replies(c, reply) /\ Remains /\ editing[c].request.op = "inspect"
    BY <1>3, Stays DEF Inspect
  <2> HIDE DEF reply
  <2> QED
    BY <2>1, RepliesKeeps
<1>4. ASSUME NEW i \in Located(editing[c].request.id), PreviewComponent(c, i) PROVE Inv'
  BY <1>4, FoundPoints, PreviewKeeps DEF PreviewComponent
<1> QED
  BY <1>1, <1>2, <1>3, <1>4

----------------------------------------------------------------------------
(* Edits.                                                                  *)

\* Components stay where they are, or one was removed, or they are all gone.
Settled ==
    /\ counts'.removals \in Nat /\ counts'.removals >= counts.removals
    /\ counts'.removals = counts.removals /\ components' # Absent =>
          /\ components # Absent
          /\ \A i \in DOMAIN components :
                i \in DOMAIN components' /\ components'[i].identity = components[i].identity

LEMMA PointsStay ==
  ASSUME Inv, Settled, NEW id, NEW identity, NEW removals,
         Points(id, identity, removals)
  PROVE  Points(id, identity, removals)'
BY DEF Settled, Points, Inv, Listed, Counts

LEMMA PointedStays ==
  ASSUME Inv, Settled, UNCHANGED given
  PROVE  Pointed'
<1> SUFFICES ASSUME NEW g \in given.confirmations, g.bound.op = "remove"
             PROVE  Points(g.bound.id, g.shown, g.removals)'
  BY DEF Pointed
<1>1. Points(g.bound.id, g.shown, g.removals)
  BY DEF Inv, Pointed
<1> QED
  BY <1>1, PointsStay

LEMMA ShowsStay ==
  ASSUME Inv, Settled, NEW d \in Callers, editing'[d] = editing[d]
  PROVE  Shows(editing[d])'
<1>1. PICK x : x = editing[d]
  OBVIOUS
<1>2. Shows(x)
  BY <1>1, CallFits DEF Fits
<1>3. Previews(x) =>
         Points(x.request.id, x.answer.identity, x.answer.removals)'
  BY <1>2, PointsStay DEF Shows
<1>4. editing'[d] = x
  BY <1>1
<1> QED
  BY <1>3, <1>4 DEF Shows, Previews, Points

Edit(c, identity, replaced) ==
    [number |-> Cardinality(performed) + 1, request |-> editing[c].request,
     token |-> editing[c].token, identity |-> identity, replaced |-> replaced,
     removals |-> counts.removals]

\* What each kind of edit has to show.
Justified(c, identity, replaced) ==
    /\ editing[c].step = "sent" /\ Confirms(c)
    /\ editing[c].request.descriptor # Absent =>
          \E d \in given.descriptors : Describes(d, editing[c].request, replaced)
    /\ \A g \in given.confirmations :
          /\ g.number = editing[c].token /\ editing[c].request.op = "remove"
          /\ counts.removals = g.removals
          => identity = g.shown

LEMMA JustifiedTokens ==
  ASSUME Inv, NEW c \in Callers, NEW identity, NEW replaced, Justified(c, identity, replaced)
  PROVE  /\ editing[c].token # Absent =>
              /\ Spent(editing[c]) /\ Confirmed(editing[c].request.op)
              /\ \E g \in given.confirmations :
                    g.number = editing[c].token /\ g.bound = editing[c].request
              /\ \A g \in confirmations : g.number # editing[c].token
              /\ \A edit \in performed : edit.token # editing[c].token
              /\ \A d \in Callers \ {c} : Spent(editing[d]) => editing[d].token # editing[c].token
         /\ editing[c].request.descriptor # Absent =>
              /\ Used(editing[c])
              /\ \A d \in descriptors : d.number # editing[c].request.descriptor
              /\ \A edit \in performed :
                    edit.request.descriptor # editing[c].request.descriptor
              /\ \A d \in Callers \ {c} :
                    Used(editing[d]) =>
                       editing[d].request.descriptor # editing[c].request.descriptor
         /\ Confirmed(editing[c].request.op) => editing[c].token # Absent
<1>1. Spends(c, editing[c], confirmations) /\ Uses(c, editing[c], descriptors) /\ Asks(editing[c])
  BY CallFits DEF Fits
<1>2. editing[c].token # Absent => Spent(editing[c]) /\ Confirmed(editing[c].request.op)
  BY <1>1 DEF Justified, Spent, Asks
<1>3. editing[c].request.descriptor # Absent => Used(editing[c])
  BY DEF Justified, Used, Confirms
<1>4. Confirmed(editing[c].request.op) => editing[c].token # Absent
  BY DEF Justified, Confirms
<1>5. Spent(editing[c]) =>
         /\ \E g \in given.confirmations :
               g.number = editing[c].token /\ g.bound = editing[c].request
         /\ \A g \in confirmations : g.number # editing[c].token
         /\ \A edit \in performed : edit.token # editing[c].token
         /\ \A d \in Callers \ {c} : Spent(editing[d]) => editing[d].token # editing[c].token
  BY <1>1 DEF Spends
<1>6. Used(editing[c]) =>
         /\ \A d \in descriptors : d.number # editing[c].request.descriptor
         /\ \A edit \in performed :
               edit.request.descriptor # editing[c].request.descriptor
         /\ \A d \in Callers \ {c} :
               Used(editing[d]) => editing[d].request.descriptor # editing[c].request.descriptor
  BY <1>1 DEF Uses
<1> QED
  BY <1>2, <1>3, <1>4, <1>5, <1>6

LEMMA EditAuthorised ==
  ASSUME Inv, NEW c \in Callers, NEW identity, NEW replaced,
         Justified(c, identity, replaced),
         performed' = performed \union {Edit(c, identity, replaced)},
         UNCHANGED <<target, descriptors, confirmations, given>>
  PROVE  /\ EditsAreGranted' /\ ExactComponentIsRemoved'
         /\ \A edit \in performed' : Traced(edit)'
<1> DEFINE e == Edit(c, identity, replaced)
           token == editing[c].token
           request == editing[c].request
<1>1. /\ e.request = request /\ e.token = token /\ e.identity = identity
      /\ e.replaced = replaced /\ e.removals = counts.removals
  BY DEF Edit
<1> HIDE DEF e
<1>2. performed' = performed \union {e}
  BY DEF e
<1>3. /\ token # Absent =>
           /\ Confirmed(request.op)
           /\ \E g \in given.confirmations : g.number = token /\ g.bound = request
           /\ \A g \in confirmations : g.number # token
           /\ \A edit \in performed : edit.token # token
      /\ request.descriptor # Absent =>
           /\ \A d \in descriptors : d.number # request.descriptor
           /\ \A edit \in performed : edit.request.descriptor # request.descriptor
      /\ Confirmed(request.op) => token # Absent
  BY JustifiedTokens
<1>4. /\ request.descriptor # Absent =>
           \E d \in given.descriptors : Describes(d, request, replaced)
      /\ \A g \in given.confirmations :
           g.number = token /\ request.op = "remove" /\ counts.removals = g.removals
           => identity = g.shown
  BY DEF Justified
<1> HIDE DEF token, request
<1>5. \A edit \in performed' : Traced(edit)'
  BY <1>1, <1>2, <1>3 DEF Inv, Traced, Confirmed
<1>6. ExactComponentIsRemoved'
  <2> SUFFICES ASSUME NEW edit \in performed', NEW g \in given.confirmations,
                      edit.token = g.number, edit.request.op = "remove",
                      edit.removals = g.removals
               PROVE  edit.identity = g.shown
    BY DEF ExactComponentIsRemoved
  <2>1. CASE edit \in performed
    BY <2>1 DEF Inv, ExactComponentIsRemoved
  <2>2. CASE edit = e
    BY <1>1, <1>4, <2>2
  <2> QED
    BY <1>2, <2>1, <2>2
<1>7. \A edit \in performed' : Confirmed(edit.request.op) =>
         \E g \in given.confirmations : g.number = edit.token /\ g.bound = edit.request
  BY <1>1, <1>2, <1>3 DEF Inv, EditsAreGranted
<1>8. \A edit \in performed' : edit.request.descriptor # Absent =>
         \E d \in given.descriptors :
            /\ d.number = edit.request.descriptor /\ d.id = edit.request.id
            /\ d.observed = edit.replaced
  BY <1>1, <1>2, <1>4 DEF Inv, EditsAreGranted, Describes
<1>9. \A edit, other \in performed' :
         \/ edit = other
         \/ /\ edit.token # Absent => edit.token # other.token
            /\ edit.request.descriptor # Absent =>
                  edit.request.descriptor # other.request.descriptor
  <2>1. \A edit, other \in performed :
           \/ edit = other
           \/ /\ edit.token # Absent => edit.token # other.token
              /\ edit.request.descriptor # Absent =>
                    edit.request.descriptor # other.request.descriptor
    BY DEF Inv, EditsAreGranted
  <2>2. \A other \in performed :
           /\ e.token # Absent => e.token # other.token
           /\ e.request.descriptor # Absent =>
                 e.request.descriptor # other.request.descriptor
           /\ other.token # Absent => other.token # e.token
           /\ other.request.descriptor # Absent =>
                 other.request.descriptor # e.request.descriptor
    BY <1>1, <1>3
  <2> QED
    BY <1>2, <2>1, <2>2
<1>10. EditsAreGranted'
  BY <1>7, <1>8, <1>9 DEF EditsAreGranted, Confirmed
<1> QED
  BY <1>5, <1>6, <1>10

LEMMA EditFits ==
  ASSUME Inv, Settled, NEW c \in Callers, NEW identity, NEW replaced,
         Justified(c, identity, replaced), Performs(c, identity, replaced),
         UNCHANGED <<target, descriptors, confirmations, given>>
  PROVE  Calling'
<1>1. PICK reply :
         /\ Replies(c, reply)
         /\ reply # Absent => reply.status = "done"
  <2> DEFINE done == [status |-> "done", identity |-> identity,
                      value |-> editing[c].request.value]
  <2>1. done.status = "done"
    OBVIOUS
  <2> HIDE DEF done
  <2>2. Replies(c, done) \/ Replies(c, Absent)
    BY DEF Performs, done
  <2> QED
    BY <2>1, <2>2
<1> DEFINE x == Put(editing[c], "answered", editing[c].observed, reply, editing[c].heard)
<1>2. editing' = [editing EXCEPT ![c] = x]
  BY <1>1, CallAnswers DEF Replies
<1>3. /\ Shape(x) /\ x.step = "answered" /\ x.answer = reply
      /\ x.request = editing[c].request /\ x.token = editing[c].token
  BY PutParts
<1> HIDE DEF x
<1>4. /\ editing' = [d \in Callers |-> editing'[d]]
      /\ \A d \in Callers : editing'[d] = IF d = c THEN x ELSE editing[d]
  BY <1>2, OtherCalls DEF Inv
<1>5. performed' = performed \union {Edit(c, identity, replaced)}
  BY DEF Performs, Edit
<1>6. /\ Edit(c, identity, replaced).token = editing[c].token
      /\ Edit(c, identity, replaced).request = editing[c].request
  BY DEF Edit
<1>7. /\ editing[c].token # Absent =>
           \A d \in Callers \ {c} : Spent(editing[d]) => editing[d].token # editing[c].token
      /\ editing[c].request.descriptor # Absent =>
           \A d \in Callers \ {c} :
             Used(editing[d]) => editing[d].request.descriptor # editing[c].request.descriptor
  BY JustifiedTokens
<1>8. ~Spent(x) /\ ~Used(x) /\ ~Previews(x) /\ x.step # "sent" /\ Asks(x)
  BY <1>1, <1>3, CallFits DEF Spent, Used, Previews, Asks
<1>9. Fits(c, editing[c], confirmations, descriptors)'
  BY <1>3, <1>4, <1>8
     DEF Fits, Shape, Asks, Spends, Uses, Aims, Shows, Spent, Used, Previews, Confirmed
<1>10. ASSUME NEW d \in Callers, d # c
       PROVE  Fits(d, editing[d], confirmations, descriptors)'
  <2>1. editing'[d] = editing[d] /\ Fits(d, editing[d], confirmations, descriptors)
    BY <1>4, <1>10, CallFits
  <2>2. (Shape(editing[d]) /\ Asks(editing[d]) /\ Aims(editing[d]))'
    BY <2>1 DEF Fits, Shape, Asks, Aims, Confirmed
  <2>3. Shows(editing[d])'
    BY <2>1, ShowsStay
  <2>4. Spends(d, editing[d], confirmations)'
    <3>1. \A edit \in performed' : Spent(editing[d]) => edit.token # editing[d].token
      BY <1>5, <1>6, <1>7, <1>10, <2>1 DEF Fits, Spends, Spent
    <3>2. \A e \in Callers \ {d} :
             Spent(editing[d]) /\ Spent(editing'[e]) => editing'[e].token # editing[d].token
      BY <1>4, <1>8, <2>1 DEF Fits, Spends
    <3> QED
      BY <2>1, <3>1, <3>2 DEF Fits, Spends, Spent
  <2>5. Uses(d, editing[d], descriptors)'
    <3>1. \A edit \in performed' :
             Used(editing[d]) => edit.request.descriptor # editing[d].request.descriptor
      BY <1>5, <1>6, <1>7, <1>10, <2>1 DEF Fits, Uses, Used
    <3>2. \A e \in Callers \ {d} :
             Used(editing[d]) /\ Used(editing'[e]) =>
                editing'[e].request.descriptor # editing[d].request.descriptor
      BY <1>4, <1>8, <2>1 DEF Fits, Uses
    <3> QED
      BY <2>1, <3>1, <3>2 DEF Fits, Uses, Used, Confirmed
  <2> QED
    BY <2>2, <2>3, <2>4, <2>5 DEF Fits
<1> QED
  BY <1>4, <1>9, <1>10 DEF Calling

LEMMA EditKeeps ==
  ASSUME Inv, Settled, Listed', NEW c \in Callers, NEW identity, NEW replaced,
         Justified(c, identity, replaced), Performs(c, identity, replaced),
         UNCHANGED <<target, descriptors, confirmations, given>>
  PROVE  Inv'
<1>1. performed' = performed \union {Edit(c, identity, replaced)}
  BY DEF Performs, Edit
<1>2. /\ EditsAreGranted' /\ ExactComponentIsRemoved'
      /\ \A edit \in performed' : Traced(edit)'
  BY <1>1, EditAuthorised
<1>3. Calling'
  BY EditFits
<1>4. Pointed'
  BY PointedStays
<1>5. Entries'
  BY DEF Inv, Entries
<1> QED
  BY <1>2, <1>3, <1>4, <1>5 DEF Inv

LEMMA DescriptorNone ==
  ASSUME Inv, NEW c \in Callers, editing[c].request.op \notin {"set", "write"}
  PROVE  editing[c].request.descriptor = Absent
BY CallFits DEF Asks

LEMMA AddKeeps ==
  ASSUME Inv, NEW c \in Callers, editing[c].step = "sent", components # Absent, AddComponent(c),
         UNCHANGED <<target, descriptors, confirmations, given>>
  PROVE  Inv'
<1> DEFINE new == Component(editing[c].request.id[2])
<1>1. /\ components \in Seq(ComponentStates) /\ counts \in Counts
      /\ components' = Append(components, new)
      /\ counts' = [counts EXCEPT !.identities = @ + 1]
      /\ editing[c].request.op = "add" /\ Confirms(c)
      /\ Performs(c, counts.identities + 1, Absent)
  BY DEF AddComponent, Inv, Listed
<1>2. new \in ComponentStates
  BY <1>1, CallFits DEF Asks, Component, ComponentStates, Counts
<1>3. counts' \in Counts /\ counts'.removals = counts.removals /\ counts.removals \in Nat
  BY <1>1 DEF Counts
<1> HIDE DEF new
<1>4. /\ components' \in Seq(ComponentStates)
      /\ \A i \in DOMAIN components :
            i \in DOMAIN components' /\ components'[i] = components[i]
  BY <1>1, <1>2, AppendProperties
<1>5. Settled /\ Listed'
  BY <1>3, <1>4 DEF Settled, Listed
<1>6. Justified(c, counts.identities + 1, Absent)
  BY <1>1, DescriptorNone DEF Justified
<1> QED
  BY <1>1, <1>5, <1>6, EditKeeps

LEMMA DeleteKeeps ==
  ASSUME Inv, NEW c \in Callers, editing[c].step = "sent", components # Absent, DeleteEntity(c),
         UNCHANGED <<target, descriptors, confirmations, given>>
  PROVE  Inv'
<1>1. /\ components' = Absent /\ counts' = counts /\ counts \in Counts
      /\ editing[c].request.op = "delete" /\ Confirms(c) /\ Performs(c, Absent, Absent)
  BY DEF DeleteEntity, Inv, Listed
<1>2. Settled /\ Listed'
  BY <1>1 DEF Settled, Listed, Counts
<1>3. Justified(c, Absent, Absent)
  BY <1>1, DescriptorNone DEF Justified
<1> QED
  BY <1>1, <1>2, <1>3, EditKeeps

LEMMA SetKeeps ==
  ASSUME Inv, NEW c \in Callers, NEW i \in Located(editing[c].request.id), editing[c].step = "sent",
         components # Absent, SetProperty(c, i),
         UNCHANGED <<target, descriptors, confirmations, given>>
  PROVE  Inv'
<1> DEFINE value == editing[c].request.value
<1>1. /\ components \in Seq(ComponentStates) /\ counts' = counts /\ counts \in Counts
      /\ components' = [components EXCEPT ![i].value = value]
      /\ editing[c].request.op \in {"set", "write"} /\ Confirms(c)
      /\ components[i].value = editing[c].observed
      /\ Performs(c, components[i].identity, components[i].value)
      /\ i \in DOMAIN components
  BY DEF SetProperty, Inv, Listed, Expected, Located
<1>2. value \in Values \union {Default}
  BY <1>1, CallFits DEF Asks
<1> HIDE DEF value
<1>3. /\ components' \in Seq(ComponentStates)
      /\ DOMAIN components' = DOMAIN components
      /\ \A j \in DOMAIN components : components'[j].identity = components[j].identity
  <2> DEFINE new == [components[i] EXCEPT !.value = value]
  <2>1. new \in ComponentStates /\ new.identity = components[i].identity
    <3>1. components[i] \in ComponentStates
      BY <1>1, ElementOfSeq
    <3>2. \A r \in ComponentStates :
             LET n == [r EXCEPT !.value = value]
             IN  n \in ComponentStates /\ n.identity = r.identity
      BY <1>2 DEF ComponentStates
    <3> QED
      BY <3>1, <3>2
  <2>2. components' = [components EXCEPT ![i] = new]
    BY <1>1
  <2> HIDE DEF new
  <2> QED
    BY <1>1, <2>1, <2>2
<1>4. Settled /\ Listed'
  BY <1>1, <1>3 DEF Settled, Listed, Counts
<1>5. Justified(c, components[i].identity, components[i].value)
  <2>1. \E d \in given.descriptors : Describes(d, editing[c].request, components[i].value)
    BY <1>1, CallFits DEF Fits, Aims
  <2> QED
    BY <1>1, <2>1 DEF Justified
<1> QED
  BY <1>1, <1>4, <1>5, EditKeeps

LEMMA RemoveAtType ==
  ASSUME NEW S, NEW seq \in Seq(S), NEW i \in 1 .. Len(seq)
  PROVE  RemoveAt(seq, i) \in Seq(S)
<1>1. Len(seq) \in Nat
  BY LenProperties
<1>2. SubSeq(seq, 1, i - 1) \in Seq(S)
  BY <1>1, SubSeqProperties
<1>3. SubSeq(seq, i + 1, Len(seq)) \in Seq(S)
  BY <1>1, SubSeqProperties
<1> QED
  BY <1>2, <1>3, ConcatProperties DEF RemoveAt

LEMMA RemovalSettles ==
  ASSUME Inv, components # Absent, NEW i \in DOMAIN components,
         components' = RemoveAt(components, i),
         counts' \in Counts, counts'.removals = counts.removals + 1
  PROVE  Settled /\ Listed'
<1>1. components \in Seq(ComponentStates) /\ i \in 1 .. Len(components)
  BY DEF Inv, Listed
<1>2. components' \in Seq(ComponentStates)
  BY <1>1, RemoveAtType
<1>3. counts.removals \in Nat /\ counts'.removals \in Nat
  BY DEF Inv, Listed, Counts
<1> QED
  BY <1>2, <1>3 DEF Settled, Listed

LEMMA RemoveKeeps ==
  ASSUME Inv, NEW c \in Callers, NEW i \in Located(editing[c].request.id), editing[c].step = "sent",
         components # Absent, RemoveComponent(c, i),
         UNCHANGED <<target, descriptors, confirmations, given>>
  PROVE  Inv'
<1>1. /\ editing[c].request.op = "remove" /\ Confirms(c)
      /\ components' = RemoveAt(components, i)
      /\ counts' = [counts EXCEPT !.removals = @ + 1]
      /\ Performs(c, components[i].identity, Absent)
      /\ i = editing[c].request.id[1] /\ i \in DOMAIN components
  BY FoundPoints DEF RemoveComponent
<1>2. counts' \in Counts /\ counts'.removals = counts.removals + 1
  BY <1>1 DEF Inv, Listed, Counts
<1>3. Settled /\ Listed'
  BY <1>1, <1>2, RemovalSettles
<1>4. Justified(c, components[i].identity, Absent)
  <2>1. ASSUME NEW g \in given.confirmations, g.number = editing[c].token,
               counts.removals = g.removals
        PROVE  components[i].identity = g.shown
    <3>1. Confirmed("remove")
      BY DEF Confirmed
    <3>2. PICK h \in given.confirmations :
             h.number = editing[c].token /\ h.bound = editing[c].request
      BY <1>1, <3>1, CallFits DEF Fits, Spends, Spent, Confirms
    <3>3. g = h
      BY <2>1, <3>2 DEF Inv, Entries, Numbered
    <3>4. Points(g.bound.id, g.shown, g.removals)
      BY <1>1, <3>2, <3>3 DEF Inv, Pointed
    <3> QED
      BY <1>1, <2>1, <3>2, <3>3, <3>4 DEF Points
  <2>2. editing[c].request.descriptor = Absent
    BY <1>1, DescriptorNone
  <2> QED
    BY <1>1, <2>1, <2>2 DEF Justified
<1> QED
  BY <1>1, <1>3, <1>4, EditKeeps

LEMMA HandleKeeps ==
  ASSUME Inv, NEW c \in Callers, Handle(c)
  PROVE  Inv'
<1>1. editing[c].step = "sent" /\ UNCHANGED <<target, descriptors, confirmations, given>>
  BY DEF Handle
<1>2. CASE Reject(c)
  BY <1>1, <1>2, QuietHandleKeeps
<1>3. CASE components # Absent /\ PreviewWhole(c)
  BY <1>1, <1>3, QuietHandleKeeps
<1>4. CASE components # Absent /\ AddComponent(c)
  BY <1>1, <1>4, AddKeeps
<1>5. CASE components # Absent /\ DeleteEntity(c)
  BY <1>1, <1>5, DeleteKeeps
<1>6. ASSUME components # Absent, NEW i \in Located(editing[c].request.id),
             Inspect(c, i) \/ PreviewComponent(c, i)
      PROVE  Inv'
  BY <1>1, <1>6, QuietHandleKeeps
<1>7. ASSUME components # Absent, NEW i \in Located(editing[c].request.id), RemoveComponent(c, i)
      PROVE  Inv'
  BY <1>1, <1>7, RemoveKeeps
<1>8. ASSUME components # Absent, NEW i \in Located(editing[c].request.id), SetProperty(c, i)
      PROVE  Inv'
  BY <1>1, <1>8, SetKeeps
<1> QED
  BY <1>2, <1>3, <1>4, <1>5, <1>6, <1>7, <1>8 DEF Handle

LEMMA ChangeKeeps ==
  ASSUME Inv, Change
  PROVE  Inv'
<1>1. /\ UNCHANGED <<target, descriptors, confirmations, editing, given, performed>>
      /\ components \in Seq(ComponentStates) /\ components # Absent /\ counts \in Counts
  BY DEF Change, Inv, Listed
<1>2. Settled /\ Listed'
  <2>1. ASSUME NEW i \in DOMAIN components, NEW value \in Values,
               components' = [components EXCEPT ![i].value = value],
               counts' = [counts EXCEPT !.events = @ + 1]
        PROVE  Settled /\ Listed'
    <3>1. \A r \in ComponentStates :
             LET n == [r EXCEPT !.value = value]
             IN  n \in ComponentStates /\ n.identity = r.identity
      BY DEF ComponentStates
    <3>2. components[i] \in ComponentStates
      BY <1>1, ElementOfSeq
    <3> DEFINE new == [components[i] EXCEPT !.value = value]
    <3>3. new \in ComponentStates /\ new.identity = components[i].identity
      BY <3>1, <3>2
    <3>4. components' = [components EXCEPT ![i] = new]
      BY <1>1, <2>1
    <3> HIDE DEF new
    <3>5. /\ components' \in Seq(ComponentStates)
          /\ DOMAIN components' = DOMAIN components
          /\ \A j \in DOMAIN components : components'[j].identity = components[j].identity
      BY <1>1, <3>3, <3>4
    <3>6. counts' \in Counts /\ counts'.removals = counts.removals /\ counts.removals \in Nat
      BY <1>1, <2>1 DEF Counts
    <3> QED
      BY <1>1, <3>5, <3>6 DEF Settled, Listed
  <2>2. ASSUME NEW i \in DOMAIN components, components' = RemoveAt(components, i),
               counts' = [counts EXCEPT !.events = @ + 1, !.removals = @ + 1]
        PROVE  Settled /\ Listed'
    <3> DEFINE some == [counts EXCEPT !.events = @ + 1]
    <3>1. some \in Counts /\ some.removals = counts.removals
      BY <1>1 DEF Counts
    <3>2. counts' = [some EXCEPT !.removals = @ + 1]
      BY <1>1, <2>2 DEF Counts
    <3> HIDE DEF some
    <3>3. counts' \in Counts /\ counts'.removals = some.removals + 1
      BY <3>1, <3>2 DEF Counts
    <3>4. counts' \in Counts /\ counts'.removals = counts.removals + 1
      BY <3>1, <3>3
    <3> QED
      BY <1>1, <2>2, <3>4, RemovalSettles
  <2> QED
    BY <2>1, <2>2 DEF Change
<1>3. Pointed'
  BY <1>1, <1>2, PointedStays
<1>4. Calling'
  <2> SUFFICES ASSUME NEW c \in Callers
               PROVE  Fits(c, editing[c], confirmations, descriptors)'
    BY <1>1 DEF Inv, Calling
  <2>1. Fits(c, editing[c], confirmations, descriptors)
    BY CallFits
  <2>2. Shows(editing[c])'
    BY <1>1, <1>2, ShowsStay
  <2> QED
    BY <1>1, <2>1, <2>2
       DEF Fits, Shape, Asks, Spends, Spent, Uses, Used, Aims, Confirmed
<1>5. \A edit \in performed' : Traced(edit)'
  BY <1>1 DEF Inv, Traced, Confirmed
<1>6. Entries' /\ EditsAreGranted' /\ ExactComponentIsRemoved'
  BY <1>1 DEF Inv, Entries, EditsAreGranted, ExactComponentIsRemoved, Confirmed
<1> QED
  BY <1>2, <1>3, <1>4, <1>5, <1>6 DEF Inv

----------------------------------------------------------------------------
(* Answers: what they hand out has a number of its own.                    *)

LEMMA AddNumbered ==
  ASSUME NEW S, Numbered(S), NEW x, x.number = Cardinality(S) + 1
  PROVE  /\ Numbered(S \union {x})
         /\ \A y \in S : y.number # x.number
<1>1. IsFiniteSet(S) /\ Cardinality(S) \in Nat
  BY FS_CardinalityType DEF Numbered
<1>2. \A y \in S : y.number \in 1 .. Cardinality(S)
  BY DEF Numbered
<1>3. \A y \in S : y.number # x.number
  BY <1>1, <1>2
<1>4. x \notin S
  BY <1>3
<1>5. /\ IsFiniteSet(S \union {x})
      /\ Cardinality(S \union {x}) = Cardinality(S) + 1
  BY <1>1, <1>4, FS_AddElement
<1>6. \A y \in S \union {x} : y.number \in 1 .. (Cardinality(S) + 1)
  BY <1>1, <1>2
<1>7. \A y, z \in S \union {x} : y.number = z.number => y = z
  BY <1>3 DEF Numbered
<1> QED
  BY <1>3, <1>5, <1>6, <1>7 DEF Numbered

LEMMA IssueCalling ==
  ASSUME Inv, NEW c \in Callers, End(c),
         UNCHANGED <<target, components, performed, counts>>,
         given.descriptors \subseteq given'.descriptors,
         given.confirmations \subseteq given'.confirmations,
         \A g \in confirmations' : g \in confirmations \/
            \A d \in Callers : Spent(editing[d]) => g.number # editing[d].token,
         \A e \in descriptors' : e \in descriptors \/
            \A d \in Callers : Used(editing[d]) => e.number # editing[d].request.descriptor
  PROVE  Calling'
<1>1. /\ editing' = [d \in Callers |-> editing'[d]]
      /\ \A d \in Callers : editing'[d] = IF d = c THEN Idle ELSE editing[d]
  <2>1. editing' = [editing EXCEPT ![c] = Idle]
    BY DEF End
  <2> HIDE DEF Idle
  <2> QED
    BY <2>1, OtherCalls DEF Inv
<1>2. /\ Shape(Idle) /\ Idle.step = "idle" /\ Idle.token = Absent
      /\ Idle.request.op = "none" /\ Idle.request.descriptor = Absent
  BY DEF Shape, Idle, Request
<1> HIDE DEF Idle
<1>3. ASSUME NEW d \in Callers
      PROVE  Fits(d, editing[d], confirmations, descriptors)'
  <2>1. CASE d = c
    <3>1. editing'[d] = Idle
      BY <1>1, <2>1
    <3>2. (Shape(editing[d]) /\ Asks(editing[d]) /\ ~Spent(editing[d]) /\ ~Used(editing[d]))'
      BY <1>2, <3>1 DEF Shape, Asks, Spent, Used
    <3>3. (Aims(editing[d]) /\ Shows(editing[d]))'
      BY <1>2, <3>1 DEF Aims, Shows, Previews
    <3> QED
      BY <3>2, <3>3 DEF Fits, Spends, Uses
  <2>2. CASE d # c
    <3>1. editing'[d] = editing[d] /\ Fits(d, editing[d], confirmations, descriptors)
      BY <1>1, <2>2, CallFits
    <3>2. \A e \in Callers \ {d} : editing'[e] = editing[e] \/ editing'[e] = Idle
      BY <1>1
    <3>3. ~Spent(Idle) /\ ~Used(Idle)
      BY <1>2 DEF Spent, Used
    <3>4. (Shape(editing[d]) /\ Asks(editing[d]))'
      BY <3>1 DEF Fits, Shape, Asks, Confirmed
    <3>5. Spends(d, editing[d], confirmations)'
      <4> SUFFICES ASSUME Spent(editing[d])
                   PROVE  Spends(d, editing[d], confirmations)'
        BY <3>1 DEF Spends, Spent
      <4>1. Spends(d, editing[d], confirmations)
        BY <3>1 DEF Fits
      <4>2. \A g \in confirmations' : g.number # editing[d].token
        BY <4>1 DEF Spends
      <4>3. \A e \in Callers \ {d} : Spent(editing'[e]) => editing'[e].token # editing[d].token
        BY <3>2, <3>3, <4>1 DEF Spends
      <4>4. \E g \in given'.confirmations :
               g.number = editing[d].token /\ g.bound = editing[d].request
        BY <4>1 DEF Spends
      <4>5. \A edit \in performed' : edit.token # editing[d].token
        BY <4>1 DEF Spends
      <4> QED
        BY <3>1, <4>2, <4>3, <4>4, <4>5 DEF Spends, Spent
    <3>6. Uses(d, editing[d], descriptors)'
      <4> SUFFICES ASSUME Used(editing[d])
                   PROVE  Uses(d, editing[d], descriptors)'
        BY <3>1 DEF Uses, Used, Confirmed
      <4>1. Uses(d, editing[d], descriptors)
        BY <3>1 DEF Fits
      <4>2. \A e \in descriptors' : e.number # editing[d].request.descriptor
        BY <4>1 DEF Uses
      <4>3. \A e \in Callers \ {d} :
               Used(editing'[e]) => editing'[e].request.descriptor # editing[d].request.descriptor
        BY <3>2, <3>3, <4>1 DEF Uses
      <4>4. \A edit \in performed' : edit.request.descriptor # editing[d].request.descriptor
        BY <4>1 DEF Uses
      <4>5. \A e \in Callers \ {d} : Used(editing[e])' = Used(editing'[e])
        BY DEF Used, Confirmed
      <4> QED
        BY <3>1, <4>2, <4>3, <4>4, <4>5 DEF Uses
    <3>7. (Aims(editing[d]) /\ Shows(editing[d]))'
      BY <3>1 DEF Fits, Aims, Shows, Points, Previews, Describes
    <3> QED
      BY <3>4, <3>5, <3>6, <3>7 DEF Fits
  <2> QED
    BY <2>1, <2>2
<1> QED
  BY <1>1, <1>3 DEF Calling

LEMMA IssueDescriptorKeeps ==
  ASSUME Inv, NEW c \in Callers, IssueDescriptor(c), End(c),
         UNCHANGED <<target, components, performed, counts>>
  PROVE  Inv'
<1> DEFINE new == [number |-> Cardinality(given.descriptors) + 1,
                   id |-> editing[c].request.id, observed |-> editing[c].answer.value]
<1>1. new.number = Cardinality(given.descriptors) + 1
  OBVIOUS
<1>2. /\ descriptors' = descriptors \union {new} /\ confirmations' = confirmations
      /\ given' = [given EXCEPT !.descriptors = @ \union {new}]
  BY DEF IssueDescriptor
<1> HIDE DEF new
<1>3. given = [descriptors |-> given.descriptors, confirmations |-> given.confirmations]
  BY DEF Inv, Entries
<1>4. /\ given' = [descriptors |-> given'.descriptors, confirmations |-> given'.confirmations]
      /\ given'.descriptors = given.descriptors \union {new}
      /\ given'.confirmations = given.confirmations
  BY <1>2, <1>3
<1>5. /\ Numbered(given'.descriptors)
      /\ \A d \in given.descriptors : d.number # new.number
  BY <1>1, <1>4, AddNumbered DEF Inv, Entries
<1>6. Entries'
  BY <1>2, <1>4, <1>5 DEF Inv, Entries
<1>7. Calling'
  <2>1. ASSUME NEW d \in Callers, Used(editing[d])
        PROVE  new.number # editing[d].request.descriptor
    <3>1. editing[d].step = "sent" /\ editing[d].request.op \in {"set", "write"}
      BY <2>1, CallFits DEF Used, Asks
    <3>2. Aims(editing[d])
      BY CallFits DEF Fits
    <3> QED
      BY <1>5, <3>1, <3>2 DEF Aims, Describes
  <2> QED
    BY <1>2, <1>4, <2>1, IssueCalling
<1>8. \A edit \in performed' : Traced(edit)'
  <2>1. \A edit \in performed :
           edit.request.descriptor # Absent => edit.request.descriptor # new.number
    BY <1>5 DEF Inv, EditsAreGranted
  <2> QED
    BY <1>2, <2>1 DEF Inv, Traced, Confirmed
<1>9. EditsAreGranted'
  BY <1>4 DEF Inv, EditsAreGranted, Confirmed
<1>10. Listed' /\ Pointed' /\ ExactComponentIsRemoved'
  BY <1>4 DEF Inv, Listed, Pointed, Points, ExactComponentIsRemoved
<1> QED
  BY <1>6, <1>7, <1>8, <1>9, <1>10 DEF Inv

LEMMA IssueConfirmationKeeps ==
  ASSUME Inv, NEW c \in Callers, IssueConfirmation(c), End(c),
         editing[c].step = "answered", editing[c].answer # Absent,
         editing[c].answer.status = "confirmation-required",
         UNCHANGED <<target, components, performed, counts>>
  PROVE  Inv'
<1> DEFINE number == Cardinality(given.confirmations) + 1
           live == [number |-> number, bound |-> editing[c].request]
           new == [number |-> number, bound |-> editing[c].request,
                   shown |-> editing[c].answer.identity, removals |-> editing[c].answer.removals]
<1>1. /\ new.number = Cardinality(given.confirmations) + 1
      /\ new.bound = editing[c].request /\ new.shown = editing[c].answer.identity
      /\ new.removals = editing[c].answer.removals
      /\ live.number = new.number /\ live.bound = new.bound
  OBVIOUS
<1>2. /\ confirmations' = confirmations \union {live} /\ descriptors' = descriptors
      /\ given' = [given EXCEPT !.confirmations = @ \union {new}]
  BY DEF IssueConfirmation
<1> HIDE DEF number, live, new
<1>3. given = [descriptors |-> given.descriptors, confirmations |-> given.confirmations]
  BY DEF Inv, Entries
<1>4. /\ given' = [descriptors |-> given'.descriptors, confirmations |-> given'.confirmations]
      /\ given'.confirmations = given.confirmations \union {new}
      /\ given'.descriptors = given.descriptors
  BY <1>2, <1>3
<1>5. /\ Numbered(given'.confirmations)
      /\ \A g \in given.confirmations : g.number # new.number
  BY <1>1, <1>4, AddNumbered DEF Inv, Entries
<1>6. Entries'
  <2>1. \A g \in confirmations' :
           \E h \in given'.confirmations : h.number = g.number /\ h.bound = g.bound
    BY <1>1, <1>2, <1>4 DEF Inv, Entries
  <2> QED
    BY <1>2, <1>4, <1>5, <2>1 DEF Inv, Entries
<1>7. Calling'
  <2>1. ASSUME NEW d \in Callers, Spent(editing[d])
        PROVE  live.number # editing[d].token
    <3>1. Spends(d, editing[d], confirmations)
      BY CallFits DEF Fits
    <3> QED
      BY <1>1, <1>5, <2>1, <3>1 DEF Spends
  <2> QED
    BY <1>2, <1>4, <2>1, IssueCalling
<1>8. \A edit \in performed : Confirmed(edit.request.op) => edit.token # new.number
  BY <1>5 DEF Inv, EditsAreGranted
<1>9. \A edit \in performed' : Traced(edit)'
  BY <1>1, <1>2, <1>8 DEF Inv, Traced, Confirmed
<1>10. EditsAreGranted'
  BY <1>4 DEF Inv, EditsAreGranted, Confirmed
<1>11. Pointed'
  <2>1. new.bound.op = "remove" => Points(new.bound.id, new.shown, new.removals)
    BY <1>1, CallFits DEF Fits, Shows, Previews
  <2> QED
    BY <1>4, <2>1 DEF Inv, Pointed, Points
<1>12. ExactComponentIsRemoved'
  BY <1>4, <1>8 DEF Inv, ExactComponentIsRemoved, Confirmed
<1>13. Listed'
  BY DEF Inv, Listed
<1> QED
  BY <1>6, <1>7, <1>9, <1>10, <1>11, <1>12, <1>13 DEF Inv

LEMMA ReadBackKeeps ==
  ASSUME Inv, NEW c \in Callers, ReadBack(c), Remains,
         confirmations' = confirmations, descriptors' = descriptors
  PROVE  Inv'
<1> DEFINE read == Request("inspect", editing[c].request.id, Absent, Absent)
           x == [Idle EXCEPT !.step = "sent", !.request = read]
<1>1. /\ read.op = "inspect" /\ read.descriptor = Absent
  BY DEF Request
<1> HIDE DEF read
<1>2. /\ Shape(x) /\ x.step = "sent" /\ x.request = read /\ x.token = Absent
  <2> DEFINE none == Request("none", Whole, Absent, Absent)
             on == TRUE
             i == [step |-> "idle", request |-> none, token |-> Absent, observed |-> Absent,
                   answer |-> Absent, heard |-> on]
             y == [i EXCEPT !.step = "sent"]
  <2>1. Idle = i
    BY DEF Idle
  <2> HIDE DEF none, on
  <2>2. y = [step |-> "sent", request |-> none, token |-> Absent, observed |-> Absent,
             answer |-> Absent, heard |-> on]
    OBVIOUS
  <2>3. x = [y EXCEPT !.request = read]
    BY <2>1
  <2> HIDE DEF y, x
  <2>4. x = [step |-> "sent", request |-> read, token |-> Absent, observed |-> Absent,
             answer |-> Absent, heard |-> on]
    BY <2>2, <2>3
  <2> QED
    BY <2>4 DEF Shape
<1>3. editing' = [editing EXCEPT ![c] = x]
  BY DEF ReadBack, read
<1> HIDE DEF x
<1>4. Asks(x) /\ ~Spent(x) /\ ~Used(x) /\ ~Previews(x) /\ Aims(x)
  BY <1>1, <1>2 DEF Asks, Spent, Used, Previews, Aims
<1>5. Fits(c, x, confirmations', descriptors')
  BY <1>2, <1>4 DEF Fits, Spends, Uses, Shows
<1> QED
  BY <1>3, <1>5, MoveKeeps

LEMMA AnswerKeeps ==
  ASSUME Inv, NEW c \in Callers, Answer(c)
  PROVE  Inv'
<1>1. UNCHANGED <<target, components, performed, counts>> /\ editing[c].step = "answered"
  BY DEF Answer
<1>2. CASE End(c) /\ UNCHANGED <<descriptors, confirmations, given>>
  BY <1>1, <1>2, Stays, EndKeeps
<1>3. CASE ReadBack(c) /\ UNCHANGED <<descriptors, confirmations, given>>
  BY <1>1, <1>3, Stays, ReadBackKeeps
<1>4. CASE IssueDescriptor(c) /\ End(c)
  BY <1>1, <1>4, IssueDescriptorKeeps
<1>5. CASE /\ editing[c].answer # Absent /\ editing[c].answer.status = "confirmation-required"
           /\ IssueConfirmation(c) /\ End(c)
  BY <1>1, <1>5, IssueConfirmationKeeps
<1> QED
  BY <1>2, <1>3, <1>4, <1>5 DEF Answer

----------------------------------------------------------------------------
LEMMA InitInv == EditsInit => Inv
<1> SUFFICES ASSUME EditsInit PROVE Inv
  OBVIOUS
<1>1. /\ given = [descriptors |-> {}, confirmations |-> {}]
      /\ given.descriptors = {} /\ given.confirmations = {}
      /\ descriptors = {} /\ confirmations = {} /\ performed = {}
  BY DEF EditsInit
<1>2. Numbered({})
  BY FS_EmptySet DEF Numbered
<1>3. Entries
  BY <1>1, <1>2 DEF Entries
<1>4. Listed
  <2>1. counts \in Counts
    BY DEF EditsInit, Counts
  <2>2. PICK first \in Classes, second \in Classes :
          components = <<[identity |-> 1, class |-> first, value |-> Default],
                         [identity |-> 2, class |-> second, value |-> Default]>>
    BY DEF EditsInit
  <2> DEFINE default == Default
             a == [identity |-> 1, class |-> first, value |-> default]
             b == [identity |-> 2, class |-> second, value |-> default]
  <2>3. default \in Values \union {Default}
    OBVIOUS
  <2> HIDE DEF default
  <2>4. a \in ComponentStates /\ b \in ComponentStates
    BY <2>3 DEF ComponentStates
  <2>5. components = <<a, b>>
    BY <2>2 DEF default
  <2> HIDE DEF a, b
  <2>6. components \in Seq(ComponentStates)
    BY <2>4, <2>5
  <2> QED
    BY <2>1, <2>6 DEF Listed
<1>5. Calling
  <2>1. editing = [c \in Callers |-> Idle]
    BY DEF EditsInit
  <2>2. \A c \in Callers : Fits(c, Idle, confirmations, descriptors)
    BY IdleFits
  <2> HIDE DEF Idle
  <2> QED
    BY <2>1, <2>2 DEF Calling
<1>6. /\ Pointed /\ (\A edit \in performed : Traced(edit))
      /\ EditsAreGranted /\ ExactComponentIsRemoved
  BY <1>1 DEF Pointed, EditsAreGranted, ExactComponentIsRemoved
<1> QED
  BY <1>3, <1>4, <1>5, <1>6 DEF Inv

LEMMA UnchangedKeeps ==
  ASSUME Inv, UNCHANGED editVars
  PROVE  Inv'
<1>1. Entries' /\ Listed'
  BY DEF Inv, editVars, Entries, Listed
<1>2. Calling'
  <2>1. ASSUME NEW c \in Callers
        PROVE  Fits(c, editing[c], confirmations, descriptors)'
    <3>1. Fits(c, editing[c], confirmations, descriptors)
      BY CallFits
    <3> QED
      BY <3>1 DEF editVars, Fits, Shape, Asks, Spends, Spent, Uses, Used, Aims, Describes,
                  Shows, Previews, Points, Confirmed
  <2> QED
    BY <2>1 DEF Inv, editVars, Calling
<1>3. Pointed' /\ (\A edit \in performed' : Traced(edit)')
  BY DEF Inv, editVars, Pointed, Points, Traced, Confirmed
<1>4. EditsAreGranted' /\ ExactComponentIsRemoved'
  BY DEF Inv, editVars, EditsAreGranted, ExactComponentIsRemoved, Confirmed
<1> QED
  BY <1>1, <1>2, <1>3, <1>4 DEF Inv

LEMMA InvAlways == EditsSpec => []Inv
<1>1. Inv /\ [EditsNext]_editVars => Inv'
  <2> SUFFICES ASSUME Inv, [EditsNext]_editVars PROVE Inv'
    OBVIOUS
  <2>1. CASE Change
    BY <2>1, ChangeKeeps
  <2>2. ASSUME NEW c \in Callers, EditStep(c) PROVE Inv'
    <3>1. CASE Begin(c)
      BY <3>1, BeginKeeps
    <3>2. CASE Peek(c)
      BY <3>2, PeekKeeps
    <3>3. CASE TakeConfirmation(c)
      BY <3>3, TakeConfirmationKeeps
    <3>4. CASE TakeDescriptor(c)
      BY <3>4, TakeDescriptorKeeps
    <3>5. CASE Send(c)
      BY <3>5, SendKeeps
    <3>6. CASE Handle(c)
      BY <3>6, HandleKeeps
    <3>7. CASE Answer(c)
      BY <3>7, AnswerKeeps
    <3>8. CASE TimeOut(c)
      BY <3>8, TimeOutKeeps
    <3> QED
      BY <2>2, <3>1, <3>2, <3>3, <3>4, <3>5, <3>6, <3>7, <3>8 DEF EditStep
  <2>3. CASE UNCHANGED editVars
    BY <2>3, UnchangedKeeps
  <2> QED
    BY <2>1, <2>2, <2>3 DEF EditsNext
<1> QED
  BY <1>1, InitInv, PTL DEF EditsSpec

(* Whatever the callers repeat, swap or send twice at once and whatever is *)
(* late: delete_confirmations and property_write_descriptors give every    *)
(* edit that Workbench carries out a confirmation of its own where one is  *)
(* needed, and a descriptor of its own for the value that it replaces; and *)
(* the bridge handler removes the component that the confirmed preview     *)
(* showed, unless another one has been removed in between.                 *)
THEOREM EditsStayAuthorised == EditsSpec => []EditsAreAuthorised
<1>1. Inv => EditsAreAuthorised
  BY DEF Inv, EditsAreAuthorised
<1> QED
  BY <1>1, InvAlways, PTL

(***************************************************************************)
(* The bridge package.                                                     *)
(***************************************************************************)
\* The file that a call is at.
InstallFits(install, version) ==
    /\ install.step = "move" => install.target \in install.todo
    /\ install.step = "fill" => install.target \in install.todo \intersect Payload[version]

BridgeHolds ==
    /\ BridgeTypeOK
    /\ \A p \in Installers : InstallFits(installing[p], release[p])

\* What a call that nobody disturbs may rely on at each of its steps.
Keeps(install, version, package) ==
    /\ install.step \in {"read", "decide", "moved", "previous"} =>
            /\ install.found <= Named(package.manifest)
            /\ install.owned \subseteq ListedFiles(package.manifest)
    /\ install.step \in {"look", "move"} => install.found = 0 /\ install.owned = {}
    /\ install.step \in {"previous", "write", "fill", "manifest"} => install.found <= version
    /\ install.step \in {"write", "fill", "manifest"} =>
            /\ \A name \in Payload[version] \ install.todo : package.files[name] = version
            /\ \A name \in install.owned \ (Payload[version] \union install.todo) :
                  package.files[name] = NoFile
    /\ install.step = "manifest" => install.todo = {}
    /\ install.step = "done" =>
            /\ \/ Named(package.manifest) > version
               \/ /\ package.manifest = Manifest(version)
                  /\ \A name \in Payload[version] : package.files[name] = version
            /\ Named(package.manifest) >= install.found
            /\ \A name \in install.owned \ ListedFiles(package.manifest) :
                  package.files[name] = NoFile

SoleInstaller ==
    \A p, q \in Installers :
        installing[p].alone /\ Maintains(p) /\ Maintains(q) => p = q
BridgeKeeps ==
    \A p \in Installers :
        installing[p].alone /\ Maintains(p) => Keeps(installing[p], release[p], bridge)

\* Calls of one version that are not interrupted.
OneVersion(version) == used.faults = 0 /\ \A p \in Installers : release[p] = version

Writers == {p \in Installers : installing[p].step \in {"write", "fill"}}
Migrants == {p \in Installers : installing[p].step \in {"look", "move"}}

\* The file is that of the version, or about to be written.
Covered(name, version) ==
    bridge.files[name] = version \/ \E p \in Writers : name \in installing[p].todo
ManifestCovered(version) ==
    \/ bridge.manifest = Manifest(version)
    \/ \E p \in Installers : installing[p].step \in {"write", "fill", "manifest"}
AllCovered(version) == \A name \in Payload[version] : Covered(name, version)

\* A flat package of the version, part of which migrations have moved.
Migrating(version) ==
    /\ \A p \in Migrants :
          /\ installing[p].todo \subseteq Payload[version]
          /\ \A name \in Payload[version] \ installing[p].todo : legacy.files[name] = NoFile
          /\ installing[p].todo # Payload[version] => legacy.manifest = Manifest(version)
          /\ \/ legacy.manifest = Manifest(version)
             \/ \A name \in Payload[version] : legacy.files[name] = NoFile
    /\ \A p, q \in Migrants :
          p # q => Payload[version] \subseteq installing[p].todo \union installing[q].todo
    /\ legacy.manifest = Manifest(version) =>
          \A name \in Payload[version] : legacy.files[name] \in {NoFile, version}

Agrees(version) ==
    /\ Named(bridge.manifest) > version =>
          \A p \in Installers : installing[p].step \notin
             {"look", "move", "previous", "write", "fill", "manifest"}
    /\ Migrating(version)
    /\ \A p \in Installers : installing[p].step = "manifest" => installing[p].todo = {}
    /\ (\E p \in Installers : installing[p].step \in {"write", "fill", "manifest"})
          => AllCovered(version)
    /\ (\E p \in Installers : installing[p].step = "done") =>
          Named(bridge.manifest) > version \/ (ManifestCovered(version) /\ AllCovered(version))

BridgeAgrees == \A version \in Versions : OneVersion(version) => Agrees(version)

BridgeInvariant == BridgeHolds /\ SoleInstaller /\ BridgeKeeps /\ BridgeAgrees

----------------------------------------------------------------------------
\* The two directories and the call of one process.

LEMMA VersionsAreSo ==
    /\ \A version \in Versions :
          /\ version \in Nat /\ version > 0
          /\ Payload[version] \in SUBSET ScriptNames /\ Payload[version] # {}
          /\ Manifest(version) \in Manifests
          /\ Manifest(version).version = version /\ Manifest(version).files = Payload[version]
          /\ Legible(Manifest(version)) /\ Named(Manifest(version)) = version
          /\ ListedFiles(Manifest(version)) = Payload[version]
          /\ version # NoFile /\ version # Torn
    /\ \A v, w \in Versions : Manifest(v) = Manifest(w) => v = w
BY PackagesHaveFiles, NoFileIsTorn DEF Manifests, Manifest, Legible, Named, ListedFiles

LEMMA ManifestsAreSo ==
    \A manifest \in Manifests \union {NoFile, Torn} :
        /\ Named(manifest) \in Nat /\ ListedFiles(manifest) \in SUBSET ScriptNames
        /\ \/ ~Legible(manifest) /\ Named(manifest) = 0 /\ ListedFiles(manifest) = {}
           \/ \E version \in Versions : manifest = Manifest(version)
BY VersionsAreSo DEF Manifests, Named, ListedFiles, Legible

LEMMA InstallHolds ==
    ASSUME BridgeHolds, NEW p \in Installers, NEW install \in Installs,
           InstallFits(install, release[p]),
           installing' = [installing EXCEPT ![p] = install],
           bridge' \in BridgeDirectories, legacy' \in BridgeDirectories,
           UNCHANGED <<release, used>>
    PROVE  BridgeHolds'
<1>1. installing' \in [Installers -> Installs]
  BY DEF BridgeHolds, BridgeTypeOK
<1>2. \A q \in Installers : installing'[q] = IF q = p THEN install ELSE installing[q]
  BY DEF BridgeHolds, BridgeTypeOK
<1>3. \A q \in Installers : InstallFits(installing'[q], release'[q])
  BY <1>2 DEF BridgeHolds
<1> QED
  BY <1>1, <1>3 DEF BridgeHolds, BridgeTypeOK

LEMMA InstallTurns ==
    ASSUME BridgeHolds, NEW p \in Installers, NEW install,
           installing' = [installing EXCEPT ![p] = install]
    PROVE  /\ installing'[p] = install
           /\ \A q \in Installers \ {p} : installing'[q] = installing[q]
BY DEF BridgeHolds, BridgeTypeOK

\* A call goes on to its next step with what it has.
LEMMA ProceedHolds ==
    ASSUME BridgeHolds, NEW p \in Installers,
           NEW step \in {"idle", "read", "look", "moved", "decide", "previous", "write", "manifest",
                         "done", "refused"},
           Proceed(p, step),
           bridge' \in BridgeDirectories, legacy' \in BridgeDirectories,
           UNCHANGED <<release, used>>
    PROVE  /\ BridgeHolds'
           /\ installing'[p] = [installing[p] EXCEPT !.step = step]
           /\ \A q \in Installers \ {p} : installing'[q] = installing[q]
<1> DEFINE install == [installing[p] EXCEPT !.step = step]
<1>1. installing[p] \in Installs
  BY DEF BridgeHolds, BridgeTypeOK
<1>2. install \in Installs /\ install.step = step
  BY <1>1 DEF Installs
<1>3. InstallFits(install, release[p])
  BY <1>2 DEF InstallFits
<1>4. installing' = [installing EXCEPT ![p] = install]
  BY DEF Proceed
<1> HIDE DEF install
<1>5. BridgeHolds'
  BY <1>2, <1>3, <1>4, InstallHolds
<1>6. /\ installing'[p] = install
      /\ \A q \in Installers \ {p} : installing'[q] = installing[q]
  BY <1>4, InstallTurns
<1> QED
  BY <1>5, <1>6 DEF install

LEMMA FirstIsIn == \A names : \A name \in First(names) : name \in names
<1> SUFFICES ASSUME NEW names, NEW name \in First(names) PROVE name \in names
  OBVIOUS
<1>1. PICK n \in names : name = (CHOOSE m \in names : TRUE)
  BY DEF First
<1>2. (CHOOSE m \in names : TRUE) \in names
  BY <1>1
<1> QED
  BY <1>1, <1>2

LEMMA FileBecomes ==
    ASSUME NEW directory \in BridgeDirectories, NEW name \in ScriptNames,
           NEW content \in Versions \union {NoFile, Torn}
    PROVE  LET after == [directory EXCEPT !.files[name] = content] IN
           /\ after \in BridgeDirectories /\ after.manifest = directory.manifest
           /\ \A n \in ScriptNames : after.files[n] = IF n = name THEN content ELSE directory.files[n]
BY DEF BridgeDirectories

LEMMA ManifestBecomes ==
    ASSUME NEW directory \in BridgeDirectories, NEW manifest \in Manifests \union {NoFile, Torn}
    PROVE  LET after == [directory EXCEPT !.manifest = manifest] IN
           after \in BridgeDirectories /\ after.manifest = manifest /\ after.files = directory.files
BY DEF BridgeDirectories

LEMMA OwnedIsDecideOrRefused ==
    \A p, manifest : Owned(p, manifest) \in {"decide", "refused"}
BY DEF Owned

----------------------------------------------------------------------------
\* A step of one call, from what it does to that call and to the directories.

LEMMA StepPreserves ==
    ASSUME BridgeInvariant, NEW p \in Installers, Maintains(p), BridgeHolds',
           \A q \in Installers \ {p} : installing'[q] = installing[q],
           UNCHANGED <<release, used>>,
           installing'[p].alone => installing[p].alone,
           installing'[p].alone /\ Keeps(installing[p], release[p], bridge)
               => Keeps(installing'[p], release[p], bridge'),
           \A version \in Versions : OneVersion(version) /\ Agrees(version) => Agrees(version)'
    PROVE  BridgeInvariant'
<1>1. \A q \in Installers : Maintains(q)' => Maintains(q)
  BY DEF Maintains
<1>2. \A q \in Installers : installing'[q].alone => installing[q].alone
  OBVIOUS
<1>3. SoleInstaller'
  BY <1>1, <1>2 DEF BridgeInvariant, SoleInstaller
<1>4. ASSUME NEW q \in Installers, installing'[q].alone, Maintains(q)'
      PROVE  Keeps(installing'[q], release'[q], bridge')
  <2>1. q = p
    BY <1>1, <1>2, <1>4 DEF BridgeInvariant, SoleInstaller
  <2> QED
    BY <1>2, <1>4, <2>1 DEF BridgeInvariant, BridgeKeeps
<1>5. BridgeKeeps'
  BY <1>4 DEF BridgeKeeps
<1>6. BridgeAgrees'
  BY DEF BridgeInvariant, BridgeAgrees, OneVersion
<1> QED
  BY <1>3, <1>5, <1>6 DEF BridgeInvariant

\* Calls of one version go on agreeing when one of them, which writes nothing and
\* leaves nothing half-written, neither begins to write nor to migrate.
LEMMA QuietStepAgrees ==
    ASSUME NEW version \in Versions, Agrees(version), NEW p \in Installers,
           \A q \in Installers \ {p} :
              installing'[q].step = installing[q].step /\ installing'[q].todo = installing[q].todo,
           UNCHANGED <<bridge, legacy>>,
           installing[p].step \notin {"write", "fill", "manifest"},
           installing'[p].step \notin {"look", "move", "write", "fill", "manifest"},
           installing'[p].step = "previous" => ~(Named(bridge.manifest) > version),
           installing'[p].step = "done" =>
               \/ Named(bridge.manifest) > version
               \/ /\ bridge.manifest = Manifest(version)
                  /\ \A name \in Payload[version] : bridge.files[name] = version
    PROVE  Agrees(version)'
<1>1. \A q \in Writers : q \in Writers' /\ installing'[q].todo = installing[q].todo
  BY DEF Writers
<1>2. \A name \in Payload[version] : Covered(name, version) => Covered(name, version)'
  BY <1>1 DEF Covered
<1>3. AllCovered(version) => AllCovered(version)'
  BY <1>2 DEF AllCovered
<1>4. ManifestCovered(version) => ManifestCovered(version)'
  BY DEF ManifestCovered
<1>5. \A q \in Migrants' : q \in Migrants /\ installing'[q].todo = installing[q].todo
  BY DEF Migrants
<1>6. Migrating(version)'
  BY <1>5 DEF Agrees, Migrating
<1>7. Named(bridge'.manifest) > version =>
         \A q \in Installers : installing'[q].step \notin
            {"look", "move", "previous", "write", "fill", "manifest"}
  BY DEF Agrees
<1>8. \A q \in Installers : installing'[q].step = "manifest" => installing'[q].todo = {}
  BY DEF Agrees
<1>9. (\E q \in Installers : installing'[q].step \in {"write", "fill", "manifest"})
        => AllCovered(version)'
  BY <1>3 DEF Agrees
<1>10. ASSUME \E q \in Installers : installing'[q].step = "done"
       PROVE  Named(bridge.manifest) > version
                \/ (ManifestCovered(version)' /\ AllCovered(version)')
  <2>1. CASE \E q \in Installers : installing[q].step = "done"
    BY <1>3, <1>4, <2>1 DEF Agrees
  <2>2. CASE installing'[p].step = "done"
    BY <2>2 DEF ManifestCovered, AllCovered, Covered
  <2> QED
    BY <1>10, <2>1, <2>2
<1> QED
  BY <1>6, <1>7, <1>8, <1>9, <1>10 DEF Agrees

LEMMA PartsAreSo ==
    ASSUME BridgeHolds, NEW p \in Installers
    PROVE  /\ installing[p] \in Installs /\ InstallFits(installing[p], release[p])
           /\ release[p] \in Versions
           /\ bridge \in BridgeDirectories /\ legacy \in BridgeDirectories
           /\ bridge.manifest \in Manifests \union {NoFile, Torn}
           /\ legacy.manifest \in Manifests \union {NoFile, Torn}
           /\ bridge.files \in [ScriptNames -> Versions \union {NoFile, Torn}]
           /\ legacy.files \in [ScriptNames -> Versions \union {NoFile, Torn}]
BY DEF BridgeHolds, BridgeTypeOK, BridgeDirectories

----------------------------------------------------------------------------
\* The steps that only read.

\* A call that has read nothing to rely on is refused, or decides.
LEMMA GoOnPreserves ==
    ASSUME BridgeInvariant, NEW p \in Installers,
           installing[p].step \in {"read", "look", "move", "moved"},
           NEW manifest, Proceed(p, Owned(p, manifest)),
           UNCHANGED <<bridge, legacy, release, used>>
    PROVE  BridgeInvariant'
<1> DEFINE step == Owned(p, manifest)
<1>1. step \in {"decide", "refused"}
  BY OwnedIsDecideOrRefused
<1> HIDE DEF step
<1>2. BridgeHolds /\ Maintains(p)
  BY DEF BridgeInvariant, Maintains
<1>3. /\ installing[p] \in Installs /\ release[p] \in Versions
      /\ bridge \in BridgeDirectories /\ legacy \in BridgeDirectories
      /\ bridge.manifest \in Manifests \union {NoFile, Torn}
  BY <1>2, PartsAreSo
<1>4. Proceed(p, step)
  BY DEF step
<1>5. /\ BridgeHolds'
      /\ installing'[p] = [installing[p] EXCEPT !.step = step]
      /\ \A q \in Installers \ {p} : installing'[q] = installing[q]
  BY <1>1, <1>2, <1>3, <1>4, ProceedHolds
<1>6. /\ installing'[p].step = step /\ installing'[p].alone = installing[p].alone
      /\ installing'[p].found = installing[p].found
      /\ installing'[p].owned = installing[p].owned
  BY <1>3, <1>5 DEF Installs
<1>7. Named(bridge.manifest) \in Nat /\ ListedFiles(bridge.manifest) \in SUBSET ScriptNames
  BY <1>3, ManifestsAreSo
<1>8. ASSUME Keeps(installing[p], release[p], bridge)
      PROVE  Keeps(installing'[p], release[p], bridge)
  <2>1. /\ installing[p].found <= Named(bridge.manifest)
        /\ installing[p].owned \subseteq ListedFiles(bridge.manifest)
    BY <1>7, <1>8 DEF Keeps
  <2> QED
    BY <1>1, <1>6, <2>1 DEF Keeps
<1>9. ASSUME NEW version \in Versions, OneVersion(version), Agrees(version)
      PROVE  Agrees(version)'
  BY <1>1, <1>5, <1>6, <1>9, QuietStepAgrees
<1> QED
  BY <1>2, <1>5, <1>6, <1>8, <1>9, StepPreserves

LEMMA ReadMovedPreserves ==
    ASSUME BridgeInvariant, NEW p \in Installers, ReadMoved(p)
    PROVE  BridgeInvariant'
BY GoOnPreserves DEF ReadMoved

LEMMA DecidePreserves ==
    ASSUME BridgeInvariant, NEW p \in Installers, Decide(p)
    PROVE  BridgeInvariant'
<1> DEFINE step == IF NeedsMaintenance(release[p]) THEN "previous" ELSE "done"
<1>1. /\ BridgeHolds /\ installing[p].step = "decide" /\ Maintains(p)
      /\ UNCHANGED <<bridge, legacy, release, used>>
  BY DEF Decide, BridgeInvariant, Maintains
<1>2. /\ installing[p] \in Installs /\ release[p] \in Versions
      /\ bridge \in BridgeDirectories /\ legacy \in BridgeDirectories
      /\ bridge.manifest \in Manifests \union {NoFile, Torn}
  BY <1>1, PartsAreSo
<1>3. Proceed(p, step) /\ step \in {"previous", "done"}
  BY DEF Decide
<1>4. /\ release[p] \in Nat /\ Named(bridge.manifest) \in Nat
      /\ ListedFiles(bridge.manifest) \in SUBSET ScriptNames
  BY <1>2, VersionsAreSo, ManifestsAreSo
<1>5. step = "previous" => Named(bridge.manifest) <= release[p]
  BY <1>4 DEF NeedsMaintenance
<1>6. step = "done" =>
         \/ Named(bridge.manifest) > release[p]
         \/ /\ bridge.manifest = Manifest(release[p])
            /\ \A name \in Payload[release[p]] : bridge.files[name] = release[p]
  BY <1>4 DEF NeedsMaintenance, MatchesPayload
<1> HIDE DEF step
<1>7. /\ BridgeHolds'
      /\ installing'[p] = [installing[p] EXCEPT !.step = step]
      /\ \A q \in Installers \ {p} : installing'[q] = installing[q]
  BY <1>1, <1>2, <1>3, ProceedHolds
<1>8. /\ installing'[p].step = step /\ installing'[p].alone = installing[p].alone
      /\ installing'[p].found = installing[p].found
      /\ installing'[p].owned = installing[p].owned
  BY <1>2, <1>7 DEF Installs
<1>9. ASSUME Keeps(installing[p], release[p], bridge)
      PROVE  Keeps(installing'[p], release[p], bridge)
  <2>1. /\ installing[p].found <= Named(bridge.manifest)
        /\ installing[p].owned \subseteq ListedFiles(bridge.manifest)
    BY <1>1, <1>9 DEF Keeps
  <2>2. installing[p].found \in Nat
    BY <1>2 DEF Installs
  <2>3. CASE step = "previous"
    BY <1>4, <1>5, <1>8, <2>1, <2>2, <2>3 DEF Keeps
  <2>4. CASE step = "done"
    BY <1>4, <1>6, <1>8, <2>1, <2>2, <2>4 DEF Keeps
  <2> QED
    BY <1>3, <2>3, <2>4
<1>10. ASSUME NEW version \in Versions, OneVersion(version), Agrees(version)
       PROVE  Agrees(version)'
  <2>1. release[p] = version
    BY <1>10 DEF OneVersion
  <2>2. step = "previous" => ~(Named(bridge.manifest) > version)
    BY <1>4, <1>5, <2>1
  <2> QED
    BY <1>1, <1>3, <1>6, <1>7, <1>8, <1>10, <2>1, <2>2, QuietStepAgrees
<1> QED
  BY <1>1, <1>7, <1>8, <1>9, <1>10, StepPreserves

\* A call that ends, refused or done.
LEMMA EndInstallPreserves ==
    ASSUME BridgeInvariant, NEW p \in Installers, EndInstall(p)
    PROVE  BridgeInvariant'
<1>1. /\ BridgeHolds /\ installing[p].step \in {"done", "refused"} /\ Maintains(p)
      /\ installing' = [installing EXCEPT ![p] = Resting]
      /\ UNCHANGED <<bridge, legacy, release, used>>
  BY DEF EndInstall, BridgeInvariant, Maintains
<1>2. installing'[p] = Resting /\ \A q \in Installers \ {p} : installing'[q] = installing[q]
  BY <1>1, InstallTurns
<1>3. /\ Resting \in Installs /\ Resting.step = "idle" /\ ~Resting.alone
      /\ InstallFits(Resting, release[p])
  BY DEF Resting, Installs, InstallFits
<1>4. BridgeHolds'
  BY <1>1, <1>3, PartsAreSo, InstallHolds
<1>5. ASSUME NEW version \in Versions, OneVersion(version), Agrees(version)
      PROVE  Agrees(version)'
  BY <1>1, <1>2, <1>3, <1>5, QuietStepAgrees
<1> QED
  BY <1>1, <1>2, <1>3, <1>4, <1>5, StepPreserves

LEMMA ReadManifestPreserves ==
    ASSUME BridgeInvariant, NEW p \in Installers, ReadManifest(p)
    PROVE  BridgeInvariant'
<1>1. /\ BridgeHolds /\ installing[p].step = "read"
      /\ UNCHANGED <<bridge, legacy, release, used>>
  BY DEF ReadManifest, BridgeInvariant
<1>2. /\ installing[p] \in Installs /\ release[p] \in Versions
      /\ bridge \in BridgeDirectories /\ legacy \in BridgeDirectories
      /\ bridge.manifest \in Manifests \union {NoFile, Torn}
  BY <1>1, PartsAreSo
<1>3. Maintains(p)
  BY <1>1 DEF Maintains
<1>4. CASE ~Legible(bridge.manifest) /\ Migrates(p)
  <2> DEFINE install == [installing[p] EXCEPT !.step = "look", !.todo = legacy.manifest.files]
  <2>1. legacy.manifest = Manifest(release[p])
    BY <1>4 DEF Migrates, MatchesPayload
  <2>2. legacy.manifest.files = Payload[release[p]] /\ legacy.manifest.files \in SUBSET ScriptNames
    BY <1>2, <2>1, VersionsAreSo
  <2>3. /\ install \in Installs /\ install.step = "look" /\ install.todo = Payload[release[p]]
        /\ install.alone = installing[p].alone /\ install.found = installing[p].found
        /\ install.owned = installing[p].owned
    BY <1>2, <2>2 DEF Installs
  <2>4. installing' = [installing EXCEPT ![p] = install]
    BY <1>1, <1>4 DEF ReadManifest
  <2> HIDE DEF install
  <2>5. installing'[p] = install /\ \A q \in Installers \ {p} : installing'[q] = installing[q]
    BY <1>1, <2>4, InstallTurns
  <2>6. BridgeHolds'
    <3>1. InstallFits(install, release[p])
      BY <2>3 DEF InstallFits
    <3> QED
      BY <1>1, <1>2, <2>3, <2>4, <3>1, InstallHolds
  <2>7. Named(bridge.manifest) = 0 /\ ListedFiles(bridge.manifest) = {}
    BY <1>4 DEF Named, ListedFiles
  <2>8. ASSUME Keeps(installing[p], release[p], bridge)
        PROVE  Keeps(install, release[p], bridge)
    <3>1. install.found = 0 /\ install.owned = {}
      BY <1>1, <1>2, <2>3, <2>7, <2>8 DEF Keeps, Installs
    <3> QED
      BY <2>3, <3>1 DEF Keeps
  <2>9. ASSUME NEW version \in Versions, OneVersion(version), Agrees(version)
        PROVE  Agrees(version)'
    <3>1. release[p] = version
      BY <2>9 DEF OneVersion
    <3>2. \A q \in Writers : q \in Writers' /\ installing'[q] = installing[q]
      BY <1>1, <2>5 DEF Writers
    <3>3. AllCovered(version) => AllCovered(version)'
      BY <1>1, <3>2 DEF AllCovered, Covered
    <3>4. ManifestCovered(version) => ManifestCovered(version)'
      BY <1>1, <2>5 DEF ManifestCovered
    <3>5. \A q \in Migrants' : q = p \/ (q \in Migrants /\ installing'[q] = installing[q])
      BY <2>5 DEF Migrants
    <3>6. installing'[p].todo = Payload[version]
      BY <2>3, <2>5, <3>1
    <3>7. Migrating(version)'
      BY <1>1, <2>1, <2>9, <3>1, <3>5, <3>6 DEF Agrees, Migrating
    <3>8. ~(Named(bridge.manifest) > version)
      BY <2>7, VersionsAreSo
    <3>9. \A q \in Installers : installing'[q].step = "manifest" => installing'[q].todo = {}
      BY <2>3, <2>5, <2>9 DEF Agrees
    <3>10. (\E q \in Installers : installing'[q].step \in {"write", "fill", "manifest"})
             => AllCovered(version)'
      BY <2>3, <2>5, <2>9, <3>3 DEF Agrees
    <3>11. (\E q \in Installers : installing'[q].step = "done")
             => ManifestCovered(version)' /\ AllCovered(version)'
      BY <2>3, <2>5, <2>9, <3>3, <3>4, <3>8 DEF Agrees
    <3> QED
      BY <1>1, <3>7, <3>8, <3>9, <3>10, <3>11 DEF Agrees
  <2> QED
    BY <1>1, <1>3, <2>3, <2>5, <2>6, <2>8, <2>9, StepPreserves
<1>5. CASE ~(~Legible(bridge.manifest) /\ Migrates(p))
  <2>1. Proceed(p, Owned(p, bridge.manifest))
    BY <1>5 DEF ReadManifest
  <2> QED
    BY <1>1, <2>1, GoOnPreserves
<1> QED
  BY <1>4, <1>5

\* A call that begins disturbs the others, and is disturbed by them.
LEMMA BeginInstallPreserves ==
    ASSUME BridgeInvariant, NEW p \in Installers, BeginInstall(p)
    PROVE  BridgeInvariant'
<1>1. PICK allow \in BOOLEAN :
         installing' = [q \in Installers |->
           IF q = p
           THEN [Resting EXCEPT !.step = "read", !.allow = allow,
                   !.found = Named(bridge.manifest),
                   !.owned = ListedFiles(bridge.manifest),
                   !.alone = \A o \in Installers \ {p} : ~Maintains(o)]
           ELSE [installing[q] EXCEPT !.alone = FALSE]]
  BY DEF BeginInstall
<1>2. /\ BridgeHolds /\ ~Maintains(p) /\ used.calls < MaxInstalls
      /\ used' = [used EXCEPT !.calls = @ + 1]
      /\ UNCHANGED <<bridge, legacy, release>>
  BY DEF BeginInstall, BridgeInvariant
<1>3. /\ bridge \in BridgeDirectories /\ bridge.manifest \in Manifests \union {NoFile, Torn}
      /\ release[p] \in Versions /\ installing[p].step = "idle"
  BY <1>2, PartsAreSo DEF Maintains
<1>4. Named(bridge.manifest) \in Nat /\ ListedFiles(bridge.manifest) \in SUBSET ScriptNames
  BY <1>3, ManifestsAreSo
<1>5. /\ installing'[p] \in Installs /\ installing'[p].step = "read"
      /\ installing'[p].found = Named(bridge.manifest)
      /\ installing'[p].owned = ListedFiles(bridge.manifest)
      /\ installing'[p].alone => \A o \in Installers \ {p} : ~Maintains(o)
  BY <1>1, <1>4 DEF Resting, Installs
<1>6. ASSUME NEW q \in Installers \ {p}
      PROVE  /\ installing'[q] \in Installs /\ ~installing'[q].alone
             /\ installing'[q].step = installing[q].step
             /\ installing'[q].todo = installing[q].todo
             /\ installing'[q].target = installing[q].target
  BY <1>1, <1>2, PartsAreSo DEF Installs
<1>7. BridgeHolds'
  <2>1. installing' \in [Installers -> Installs]
    BY <1>1, <1>5, <1>6
  <2>2. used' \in [calls : 0..MaxInstalls, faults : 0..MaxDamages]
    BY <1>2, InstallsAreBounded DEF BridgeHolds, BridgeTypeOK
  <2>3. \A q \in Installers : InstallFits(installing'[q], release'[q])
    BY <1>2, <1>5, <1>6 DEF BridgeHolds, InstallFits
  <2> QED
    BY <1>2, <2>1, <2>2, <2>3 DEF BridgeHolds, BridgeTypeOK
<1>8. SoleInstaller'
  BY <1>5, <1>6 DEF SoleInstaller, Maintains
<1>9. BridgeKeeps'
  <2>1. Keeps(installing'[p], release[p], bridge)
    BY <1>4, <1>5 DEF Keeps
  <2> QED
    BY <1>2, <1>6, <2>1 DEF BridgeKeeps
<1>10. BridgeAgrees'
  <2> SUFFICES ASSUME NEW version \in Versions, OneVersion(version)'
               PROVE  Agrees(version)'
    BY DEF BridgeAgrees
  <2>1. used'.faults = used.faults
    BY <1>2 DEF BridgeHolds, BridgeTypeOK
  <2>2. Agrees(version)
    BY <1>2, <2>1 DEF BridgeInvariant, BridgeAgrees, OneVersion
  <2> QED
    BY <1>2, <1>3, <1>5, <1>6, <2>2, QuietStepAgrees
<1> QED
  BY <1>7, <1>8, <1>9, <1>10 DEF BridgeInvariant

----------------------------------------------------------------------------
\* The migration of the flat package.

LEMMA LookPreserves ==
    ASSUME BridgeInvariant, NEW p \in Installers, Look(p)
    PROVE  BridgeInvariant'
<1>1. PICK name \in First(installing[p].todo) :
         installing' = [installing EXCEPT
           ![p].step = IF bridge.files[name] = NoFile THEN "move" ELSE Owned(p, NoFile),
           ![p].target = name]
  BY DEF Look
<1>2. /\ BridgeHolds /\ installing[p].step = "look" /\ Maintains(p)
      /\ UNCHANGED <<bridge, legacy, release, used>>
  BY DEF Look, BridgeInvariant, Maintains
<1>3. /\ installing[p] \in Installs /\ release[p] \in Versions
      /\ bridge \in BridgeDirectories /\ legacy \in BridgeDirectories
  BY <1>2, PartsAreSo
<1> DEFINE step == IF bridge.files[name] = NoFile THEN "move" ELSE Owned(p, NoFile)
           install == [installing[p] EXCEPT !.step = step, !.target = name]
<1>4. step \in {"move", "decide", "refused"}
  BY OwnedIsDecideOrRefused
<1>5. installing' = [installing EXCEPT ![p] = install]
  BY <1>1
<1> HIDE DEF step
<1>6. name \in installing[p].todo /\ name \in ScriptNames
  BY <1>3, FirstIsIn DEF Installs
<1>7. /\ install \in Installs /\ install.step = step /\ install.target = name
      /\ install.todo = installing[p].todo /\ install.alone = installing[p].alone
      /\ install.found = installing[p].found /\ install.owned = installing[p].owned
  BY <1>3, <1>4, <1>6 DEF Installs
<1> HIDE DEF install
<1>8. installing'[p] = install /\ \A q \in Installers \ {p} : installing'[q] = installing[q]
  BY <1>2, <1>5, InstallTurns
<1>9. BridgeHolds'
  <2>1. InstallFits(install, release[p])
    BY <1>4, <1>6, <1>7 DEF InstallFits
  <2> QED
    BY <1>2, <1>3, <1>5, <1>7, <2>1, InstallHolds
<1>10. ASSUME Keeps(installing[p], release[p], bridge)
       PROVE  Keeps(install, release[p], bridge)
  <2>1. install.found = 0 /\ install.owned = {}
    BY <1>2, <1>7, <1>10 DEF Keeps
  <2>2. Named(bridge.manifest) \in Nat
    BY <1>2, PartsAreSo, ManifestsAreSo
  <2> QED
    BY <1>4, <1>7, <2>1, <2>2 DEF Keeps
<1>11. ASSUME NEW version \in Versions, OneVersion(version), Agrees(version)
       PROVE  Agrees(version)'
  <2>1. CASE step \in {"decide", "refused"}
    BY <1>2, <1>7, <1>8, <1>11, <2>1, QuietStepAgrees
  <2>2. CASE step = "move"
    <3>1. /\ Writers' = Writers /\ Migrants' = Migrants
          /\ \A q \in Installers : installing'[q].todo = installing[q].todo
      BY <1>2, <1>7, <1>8, <2>2 DEF Writers, Migrants
    <3>2. AllCovered(version)' = AllCovered(version)
      BY <1>2, <3>1 DEF AllCovered, Covered, Writers
    <3>3. ManifestCovered(version) => ManifestCovered(version)'
      BY <1>2, <1>7, <1>8, <2>2 DEF ManifestCovered
    <3>4. Migrating(version)'
      BY <1>2, <1>11, <3>1 DEF Agrees, Migrating, Migrants
    <3> QED
      BY <1>2, <1>7, <1>8, <1>11, <2>2, <3>1, <3>2, <3>3, <3>4 DEF Agrees
  <2> QED
    BY <1>4, <2>1, <2>2
<1> QED
  BY <1>2, <1>7, <1>8, <1>9, <1>10, <1>11, StepPreserves

LEMMA MovePreserves ==
    ASSUME BridgeInvariant, NEW p \in Installers, Move(p)
    PROVE  BridgeInvariant'
<1> DEFINE name == installing[p].target
           content == legacy.files[name]
           install == [installing[p] EXCEPT !.step = "look", !.todo = @ \ {name}]
<1>1. /\ BridgeHolds /\ installing[p].step = "move" /\ Maintains(p)
      /\ UNCHANGED <<release, used>>
  BY DEF Move, BridgeInvariant, Maintains
<1>2. CASE content = NoFile
  BY <1>1, <1>2, GoOnPreserves DEF Move
<1>3. CASE content # NoFile
  <2>1. /\ bridge' = [bridge EXCEPT !.files[name] = content]
        /\ legacy' = [legacy EXCEPT !.files[name] = NoFile]
        /\ installing' = [installing EXCEPT ![p].step = "look", ![p].todo = @ \ {name}]
    BY <1>3 DEF Move
  <2>2. installing' = [installing EXCEPT ![p] = install]
    BY <2>1
  <2>3. /\ installing[p] \in Installs /\ release[p] \in Versions
        /\ bridge \in BridgeDirectories /\ legacy \in BridgeDirectories
        /\ name \in installing[p].todo /\ name \in ScriptNames
        /\ content \in Versions \union {NoFile, Torn}
    BY <1>1, PartsAreSo DEF InstallFits, Installs
  <2>4. /\ install \in Installs /\ install.step = "look"
        /\ install.todo = installing[p].todo \ {name} /\ install.alone = installing[p].alone
        /\ install.found = installing[p].found /\ install.owned = installing[p].owned
    BY <2>3 DEF Installs
  <2>5. InstallFits(install, release[p])
    BY <2>4 DEF InstallFits
  <2> HIDE DEF install, name, content
  <2>6. /\ bridge' \in BridgeDirectories /\ bridge'.manifest = bridge.manifest
        /\ \A n \in ScriptNames : bridge'.files[n] = IF n = name THEN content ELSE bridge.files[n]
        /\ legacy' \in BridgeDirectories /\ legacy'.manifest = legacy.manifest
        /\ \A n \in ScriptNames : legacy'.files[n] = IF n = name THEN NoFile ELSE legacy.files[n]
    <3>1. NoFile \in Versions \union {NoFile, Torn}
      OBVIOUS
    <3>2. /\ bridge' \in BridgeDirectories /\ bridge'.manifest = bridge.manifest
          /\ \A n \in ScriptNames : bridge'.files[n] = IF n = name THEN content ELSE bridge.files[n]
      BY <2>1, <2>3, FileBecomes
    <3>3. /\ legacy' \in BridgeDirectories /\ legacy'.manifest = legacy.manifest
          /\ \A n \in ScriptNames : legacy'.files[n] = IF n = name THEN NoFile ELSE legacy.files[n]
      BY <2>1, <2>3, <3>1 DEF BridgeDirectories
    <3> QED
      BY <3>2, <3>3
  <2>7. installing'[p] = install /\ \A q \in Installers \ {p} : installing'[q] = installing[q]
    BY <1>1, <2>2, InstallTurns
  <2>8. BridgeHolds'
    BY <1>1, <2>2, <2>4, <2>5, <2>6, InstallHolds
  <2>9. Keeps(installing[p], release[p], bridge) => Keeps(install, release[p], bridge')
    BY <1>1, <2>4 DEF Keeps
  <2>10. ASSUME NEW version \in Versions, OneVersion(version), Agrees(version)
         PROVE  Agrees(version)'
    <3>1. /\ Migrating(version) /\ p \in Migrants
          /\ Payload[version] \subseteq ScriptNames
      BY <1>1, <2>10, VersionsAreSo DEF Agrees, Migrants
    <3>2. /\ Writers' = Writers /\ Migrants' = Migrants
          /\ \A q \in Migrants \ {p} : installing'[q] = installing[q]
          /\ \A q \in Writers : installing'[q] = installing[q]
      BY <1>1, <2>4, <2>7 DEF Writers, Migrants
    <3>3. installing[p].todo \subseteq Payload[version]
      BY <3>1 DEF Migrating
    <3>4. name \in Payload[version] /\ legacy.files[name] # NoFile
      BY <1>3, <2>3, <3>3 DEF content
    <3>5. legacy.manifest = Manifest(version)
      BY <3>1, <3>4 DEF Migrating
    <3>6. content = version
      BY <1>3, <3>1, <3>4, <3>5 DEF Migrating, content
    <3>7. \A n \in Payload[version] : legacy.files[n] = NoFile => legacy'.files[n] = NoFile
      BY <2>6, <3>1
    <3>8. \A q \in Migrants : name \in installing[q].todo
      BY <3>1, <3>4 DEF Migrating
    <3>9. Migrating(version)'
      <4>1. ASSUME NEW q \in Migrants
            PROVE  /\ installing'[q].todo \subseteq Payload[version]
                   /\ \A n \in Payload[version] \ installing'[q].todo : legacy'.files[n] = NoFile
        <5>1. CASE q = p
          BY <2>4, <2>6, <2>7, <3>1, <3>3, <3>4, <3>7, <5>1 DEF Migrating
        <5>2. CASE q # p
          BY <3>1, <3>2, <3>7, <5>2 DEF Migrating
        <5> QED
          BY <5>1, <5>2
      <4>2. ASSUME NEW q \in Migrants, NEW r \in Migrants, q # r
            PROVE  Payload[version] \subseteq installing'[q].todo \union installing'[r].todo
        <5>1. Payload[version] \subseteq installing[q].todo \union installing[r].todo
          BY <3>1, <4>2 DEF Migrating
        <5> QED
          BY <2>4, <2>7, <3>2, <3>8, <4>2, <5>1
      <4>3. legacy'.manifest = Manifest(version)
        BY <2>6, <3>5
      <4>4. \A n \in Payload[version] : legacy'.files[n] \in {NoFile, version}
        BY <2>6, <3>1, <3>5 DEF Migrating
      <4> QED
        BY <3>2, <4>1, <4>2, <4>3, <4>4 DEF Migrating
    <3>10. AllCovered(version) => AllCovered(version)'
      BY <2>6, <3>1, <3>2, <3>6 DEF AllCovered, Covered
    <3>11. ManifestCovered(version) => ManifestCovered(version)'
      BY <1>1, <2>6, <2>7 DEF ManifestCovered
    <3>12. /\ ~(Named(bridge.manifest) > version)
           /\ \A q \in Installers : installing'[q].step \in {"write", "fill", "manifest", "done"}
                 => installing'[q] = installing[q]
      BY <1>1, <2>4, <2>7, <2>10 DEF Agrees
    <3> QED
      BY <2>6, <2>10, <3>9, <3>10, <3>11, <3>12 DEF Agrees
  <2> QED
    BY <1>1, <2>4, <2>7, <2>8, <2>9, <2>10, StepPreserves
<1> QED
  BY <1>2, <1>3

LEMMA MoveManifestPreserves ==
    ASSUME BridgeInvariant, NEW p \in Installers, MoveManifest(p)
    PROVE  BridgeInvariant'
<1>1. /\ BridgeHolds /\ installing[p].step = "look" /\ installing[p].todo = {} /\ Maintains(p)
      /\ UNCHANGED <<release, used>> /\ Proceed(p, "moved")
      /\ bridge' = [bridge EXCEPT !.manifest = legacy.manifest]
      /\ legacy' = [legacy EXCEPT !.manifest = NoFile]
  BY DEF MoveManifest, BridgeInvariant, Maintains
<1>2. /\ installing[p] \in Installs /\ release[p] \in Versions
      /\ bridge \in BridgeDirectories /\ legacy \in BridgeDirectories
      /\ legacy.manifest \in Manifests \union {NoFile, Torn}
  BY <1>1, PartsAreSo
<1>3. /\ bridge' \in BridgeDirectories /\ bridge'.manifest = legacy.manifest
      /\ bridge'.files = bridge.files
      /\ legacy' \in BridgeDirectories /\ legacy'.manifest = NoFile
      /\ legacy'.files = legacy.files
  BY <1>1, <1>2, ManifestBecomes, Zenon
<1>4. /\ BridgeHolds'
      /\ installing'[p] = [installing[p] EXCEPT !.step = "moved"]
      /\ \A q \in Installers \ {p} : installing'[q] = installing[q]
  BY <1>1, <1>3, ProceedHolds
<1>5. /\ installing'[p].step = "moved" /\ installing'[p].alone = installing[p].alone
      /\ installing'[p].found = installing[p].found
      /\ installing'[p].owned = installing[p].owned
  BY <1>2, <1>4 DEF Installs
<1>6. Named(legacy.manifest) \in Nat
  BY <1>2, ManifestsAreSo
<1>7. Keeps(installing[p], release[p], bridge) => Keeps(installing'[p], release[p], bridge')
  BY <1>1, <1>3, <1>5, <1>6 DEF Keeps
<1>8. ASSUME NEW version \in Versions, OneVersion(version), Agrees(version)
      PROVE  Agrees(version)'
  <2>1. /\ Migrating(version) /\ p \in Migrants /\ Payload[version] # {}
    BY <1>1, <1>8, VersionsAreSo DEF Agrees, Migrants
  <2>2. /\ legacy.manifest = Manifest(version)
        /\ \A n \in Payload[version] : legacy.files[n] = NoFile
    BY <1>1, <2>1 DEF Migrating
  <2>3. Named(bridge'.manifest) = version
    BY <1>3, <2>2, VersionsAreSo
  <2>4. Writers' = Writers /\ Migrants' = Migrants \ {p}
    BY <1>1, <1>4, <1>5 DEF Writers, Migrants
  <2>5. Migrating(version)'
    <3>1. ASSUME NEW q \in Migrants \ {p} PROVE installing[q].todo = Payload[version]
      <4>1. installing[q].todo \subseteq Payload[version]
        BY <2>1 DEF Migrating
      <4>2. Payload[version] \subseteq installing[p].todo \union installing[q].todo
        BY <2>1 DEF Migrating
      <4> QED
        BY <1>1, <4>1, <4>2
    <3>2. \A q \in Migrants \ {p} : installing'[q] = installing[q]
      BY <1>4 DEF Migrants
    <3>3. legacy'.manifest # Manifest(version)
      BY <1>3, NoFileIsTorn DEF Manifests
    <3> QED
      BY <1>3, <2>2, <2>4, <3>1, <3>2, <3>3 DEF Migrating
  <2>6. AllCovered(version) => AllCovered(version)'
    BY <1>3, <1>4, <2>4, <1>1 DEF AllCovered, Covered, Writers
  <2>7. ManifestCovered(version)'
    BY <1>3, <2>2 DEF ManifestCovered
  <2>8. ~(Named(bridge.manifest) > version)
    BY <1>1, <1>8 DEF Agrees
  <2>9. ~(Named(bridge'.manifest) > version)
    BY <2>3, VersionsAreSo
  <2>10. \A q \in Installers : installing'[q].step \in {"write", "fill", "manifest", "done"}
            => installing'[q] = installing[q]
    BY <1>4, <1>5
  <2> QED
    BY <1>8, <2>5, <2>6, <2>7, <2>8, <2>9, <2>10 DEF Agrees
<1> QED
  BY <1>1, <1>4, <1>5, <1>7, <1>8, StepPreserves

----------------------------------------------------------------------------
\* The writing of the own package.

LEMMA ReadPreviousPreserves ==
    ASSUME BridgeInvariant, NEW p \in Installers, ReadPrevious(p)
    PROVE  BridgeInvariant'
<1> DEFINE names == Payload[release[p]] \union ListedFiles(bridge.manifest)
           install == [installing[p] EXCEPT !.step = "write", !.todo = names]
<1>1. /\ BridgeHolds /\ installing[p].step = "previous" /\ Maintains(p)
      /\ installing' = [installing EXCEPT ![p] = install]
      /\ UNCHANGED <<bridge, legacy, release, used>>
  BY DEF ReadPrevious, BridgeInvariant, Maintains
<1>2. /\ installing[p] \in Installs /\ release[p] \in Versions
      /\ bridge \in BridgeDirectories /\ legacy \in BridgeDirectories
      /\ bridge.manifest \in Manifests \union {NoFile, Torn}
  BY <1>1, PartsAreSo
<1>3. Payload[release[p]] \in SUBSET ScriptNames /\ ListedFiles(bridge.manifest) \in SUBSET ScriptNames
  BY <1>2, VersionsAreSo, ManifestsAreSo
<1>4. names \in SUBSET ScriptNames
  BY <1>3
<1>5. /\ install \in Installs /\ install.step = "write" /\ install.todo = names
      /\ install.alone = installing[p].alone /\ install.found = installing[p].found
      /\ install.owned = installing[p].owned
  BY <1>2, <1>4 DEF Installs
<1>6. Payload[release[p]] \subseteq install.todo /\ ListedFiles(bridge.manifest) \subseteq install.todo
  BY <1>5
<1> HIDE DEF install, names
<1>7. installing'[p] = install /\ \A q \in Installers \ {p} : installing'[q] = installing[q]
  BY <1>1, InstallTurns
<1>8. BridgeHolds'
  <2>1. InstallFits(install, release[p])
    BY <1>5 DEF InstallFits
  <2> QED
    BY <1>1, <1>2, <1>5, <2>1, InstallHolds
<1>9. ASSUME Keeps(installing[p], release[p], bridge)
      PROVE  Keeps(install, release[p], bridge)
  <2>1. install.found <= release[p] /\ install.owned \subseteq ListedFiles(bridge.manifest)
    BY <1>1, <1>5, <1>9 DEF Keeps
  <2> QED
    BY <1>5, <1>6, <2>1 DEF Keeps
<1>10. ASSUME NEW version \in Versions, OneVersion(version), Agrees(version)
       PROVE  Agrees(version)'
  <2>1. ~(Named(bridge.manifest) > version) /\ release[p] = version
    BY <1>1, <1>10 DEF Agrees, OneVersion
  <2>2. p \in Writers' /\ Payload[version] \subseteq installing'[p].todo
    BY <1>5, <1>6, <1>7, <2>1 DEF Writers
  <2>3. AllCovered(version)'
    BY <2>2 DEF AllCovered, Covered
  <2>4. ManifestCovered(version)'
    BY <1>5, <1>7 DEF ManifestCovered
  <2>5. \A q \in Migrants' : q \in Migrants /\ installing'[q] = installing[q]
    BY <1>5, <1>7 DEF Migrants
  <2>6. Migrating(version)'
    BY <1>1, <1>10, <2>5 DEF Agrees, Migrating
  <2>7. \A q \in Installers : installing'[q].step = "manifest" => installing'[q].todo = {}
    BY <1>5, <1>7, <1>10 DEF Agrees
  <2> QED
    BY <1>1, <2>1, <2>3, <2>4, <2>6, <2>7 DEF Agrees
<1> QED
  BY <1>1, <1>5, <1>7, <1>8, <1>9, <1>10, StepPreserves

\* Calls of one version go on agreeing when one that writes has written a file, or
\* has it still to write.
LEMMA WriterAgrees ==
    ASSUME NEW version \in Versions, Agrees(version), NEW p \in Installers,
           \A q \in Installers \ {p} : installing'[q] = installing[q],
           UNCHANGED legacy, bridge'.manifest = bridge.manifest,
           installing[p].step \in {"write", "fill"}, installing'[p].step \in {"write", "fill"},
           \A name \in Payload[version] :
              \/ bridge'.files[name] = version
              \/ name \in installing'[p].todo
              \/ bridge'.files[name] = bridge.files[name] /\ name \notin installing[p].todo
    PROVE  Agrees(version)'
<1>1. /\ Writers' = Writers /\ Migrants' = Migrants /\ p \in Writers
      /\ \A q \in Migrants : installing'[q] = installing[q]
  BY DEF Writers, Migrants
<1>2. \A name \in Payload[version] : Covered(name, version) => Covered(name, version)'
  BY <1>1 DEF Covered, Writers
<1>3. AllCovered(version)'
  BY <1>2 DEF AllCovered, Agrees
<1>4. ManifestCovered(version)'
  BY DEF ManifestCovered
<1>5. Migrating(version)'
  BY <1>1 DEF Agrees, Migrating
<1>6. ~(Named(bridge.manifest) > version)
  BY DEF Agrees
<1>7. \A q \in Installers : installing'[q].step = "manifest" => installing'[q].todo = {}
  BY DEF Agrees
<1> QED
  BY <1>3, <1>4, <1>5, <1>6, <1>7 DEF Agrees

LEMMA EmptyFilePreserves ==
    ASSUME BridgeInvariant, NEW p \in Installers, EmptyFile(p)
    PROVE  BridgeInvariant'
<1>1. PICK name \in First(Unwritten(p)) :
         /\ bridge' = [bridge EXCEPT !.files[name] = Torn]
         /\ installing' = [installing EXCEPT ![p].step = "fill", ![p].target = name]
  BY DEF EmptyFile
<1> DEFINE install == [installing[p] EXCEPT !.step = "fill", !.target = name]
<1>2. /\ BridgeHolds /\ installing[p].step = "write" /\ Maintains(p)
      /\ installing' = [installing EXCEPT ![p] = install]
      /\ UNCHANGED <<legacy, release, used>>
  BY <1>1 DEF EmptyFile, BridgeInvariant, Maintains
<1>3. /\ installing[p] \in Installs /\ release[p] \in Versions
      /\ bridge \in BridgeDirectories /\ legacy \in BridgeDirectories
  BY <1>2, PartsAreSo
<1>4. name \in installing[p].todo \intersect Payload[release[p]] /\ name \in ScriptNames
  BY <1>3, FirstIsIn DEF Unwritten, Installs
<1>5. /\ install \in Installs /\ install.step = "fill" /\ install.target = name
      /\ install.todo = installing[p].todo /\ install.alone = installing[p].alone
      /\ install.found = installing[p].found /\ install.owned = installing[p].owned
  BY <1>3, <1>4 DEF Installs
<1> HIDE DEF install
<1>6. installing'[p] = install /\ \A q \in Installers \ {p} : installing'[q] = installing[q]
  BY <1>2, InstallTurns
<1>7. /\ bridge' \in BridgeDirectories /\ bridge'.manifest = bridge.manifest
      /\ \A n \in ScriptNames : bridge'.files[n] = IF n = name THEN Torn ELSE bridge.files[n]
  BY <1>1, <1>3, <1>4, FileBecomes
<1>8. BridgeHolds'
  <2>1. InstallFits(install, release[p])
    BY <1>4, <1>5 DEF InstallFits
  <2> QED
    BY <1>2, <1>3, <1>5, <1>7, <2>1, InstallHolds
<1>9. ASSUME Keeps(installing[p], release[p], bridge)
      PROVE  Keeps(install, release[p], bridge')
  <2>1. Payload[release[p]] \subseteq ScriptNames /\ install.owned \subseteq ScriptNames
    BY <1>3, <1>5, VersionsAreSo DEF Installs
  <2>2. /\ \A n \in Payload[release[p]] \ install.todo : bridge'.files[n] = release[p]
        /\ \A n \in install.owned \ (Payload[release[p]] \union install.todo) :
              bridge'.files[n] = NoFile
    BY <1>2, <1>4, <1>5, <1>7, <1>9, <2>1 DEF Keeps
  <2> QED
    BY <1>2, <1>5, <1>9, <2>2 DEF Keeps
<1>10. ASSUME NEW version \in Versions, OneVersion(version), Agrees(version)
       PROVE  Agrees(version)'
  <2>1. Payload[version] \subseteq ScriptNames
    BY VersionsAreSo
  <2>2. \A n \in Payload[version] :
           \/ n \in installing'[p].todo
           \/ bridge'.files[n] = bridge.files[n] /\ n \notin installing[p].todo
    BY <1>4, <1>5, <1>6, <1>7, <2>1
  <2> QED
    BY <1>2, <1>5, <1>6, <1>7, <1>10, <2>2, WriterAgrees
<1> QED
  BY <1>2, <1>5, <1>6, <1>8, <1>9, <1>10, StepPreserves

LEMMA FillFilePreserves ==
    ASSUME BridgeInvariant, NEW p \in Installers, FillFile(p)
    PROVE  BridgeInvariant'
<1> DEFINE name == installing[p].target
           install == [installing[p] EXCEPT !.step = "write", !.todo = @ \ {name}]
<1>1. /\ BridgeHolds /\ installing[p].step = "fill" /\ Maintains(p)
      /\ installing' = [installing EXCEPT ![p] = install]
      /\ bridge' = [bridge EXCEPT !.files[name] = release[p]]
      /\ UNCHANGED <<legacy, release, used>>
  BY DEF FillFile, BridgeInvariant, Maintains
<1>2. /\ installing[p] \in Installs /\ release[p] \in Versions
      /\ bridge \in BridgeDirectories /\ legacy \in BridgeDirectories
      /\ name \in installing[p].todo \intersect Payload[release[p]] /\ name \in ScriptNames
  BY <1>1, PartsAreSo DEF InstallFits, Installs
<1>3. /\ install \in Installs /\ install.step = "write"
      /\ install.todo = installing[p].todo \ {name} /\ install.alone = installing[p].alone
      /\ install.found = installing[p].found /\ install.owned = installing[p].owned
  BY <1>2 DEF Installs
<1> HIDE DEF install, name
<1>4. installing'[p] = install /\ \A q \in Installers \ {p} : installing'[q] = installing[q]
  BY <1>1, InstallTurns
<1>5. /\ bridge' \in BridgeDirectories /\ bridge'.manifest = bridge.manifest
      /\ \A n \in ScriptNames : bridge'.files[n] = IF n = name THEN release[p] ELSE bridge.files[n]
  BY <1>1, <1>2, FileBecomes
<1>6. BridgeHolds'
  <2>1. InstallFits(install, release[p])
    BY <1>3 DEF InstallFits
  <2> QED
    BY <1>1, <1>2, <1>3, <1>5, <2>1, InstallHolds
<1>7. ASSUME Keeps(installing[p], release[p], bridge)
      PROVE  Keeps(install, release[p], bridge')
  <2>1. Payload[release[p]] \subseteq ScriptNames /\ install.owned \subseteq ScriptNames
    BY <1>2, <1>3, VersionsAreSo DEF Installs
  <2>2. /\ \A n \in Payload[release[p]] \ install.todo : bridge'.files[n] = release[p]
        /\ \A n \in install.owned \ (Payload[release[p]] \union install.todo) :
              bridge'.files[n] = NoFile
    BY <1>1, <1>2, <1>3, <1>5, <1>7, <2>1 DEF Keeps
  <2> QED
    BY <1>1, <1>3, <1>7, <2>2 DEF Keeps
<1>8. ASSUME NEW version \in Versions, OneVersion(version), Agrees(version)
      PROVE  Agrees(version)'
  <2>1. Payload[version] \subseteq ScriptNames /\ release[p] = version
    BY <1>8, VersionsAreSo DEF OneVersion
  <2>2. \A n \in Payload[version] :
           \/ bridge'.files[n] = version
           \/ n \in installing'[p].todo
           \/ bridge'.files[n] = bridge.files[n] /\ n \notin installing[p].todo
    BY <1>3, <1>4, <1>5, <2>1
  <2> QED
    BY <1>1, <1>3, <1>4, <1>5, <1>8, <2>2, WriterAgrees
<1> QED
  BY <1>1, <1>3, <1>4, <1>6, <1>7, <1>8, StepPreserves

LEMMA RemoveObsoletePreserves ==
    ASSUME BridgeInvariant, NEW p \in Installers, RemoveObsolete(p)
    PROVE  BridgeInvariant'
<1>1. PICK name \in First(installing[p].todo) :
         /\ bridge' = [bridge EXCEPT !.files[name] = NoFile]
         /\ installing' = [installing EXCEPT ![p].todo = @ \ {name}]
  BY DEF RemoveObsolete
<1> DEFINE install == [installing[p] EXCEPT !.todo = @ \ {name}]
<1>2. /\ BridgeHolds /\ installing[p].step = "write" /\ Maintains(p) /\ Unwritten(p) = {}
      /\ installing' = [installing EXCEPT ![p] = install]
      /\ UNCHANGED <<legacy, release, used>>
  BY <1>1 DEF RemoveObsolete, BridgeInvariant, Maintains
<1>3. /\ installing[p] \in Installs /\ release[p] \in Versions
      /\ bridge \in BridgeDirectories /\ legacy \in BridgeDirectories
  BY <1>2, PartsAreSo
<1>4. name \in installing[p].todo /\ name \notin Payload[release[p]] /\ name \in ScriptNames
  BY <1>2, <1>3, FirstIsIn DEF Unwritten, Installs
<1>5. /\ install \in Installs /\ install.step = "write"
      /\ install.todo = installing[p].todo \ {name} /\ install.alone = installing[p].alone
      /\ install.found = installing[p].found /\ install.owned = installing[p].owned
  BY <1>2, <1>3 DEF Installs
<1> HIDE DEF install
<1>6. installing'[p] = install /\ \A q \in Installers \ {p} : installing'[q] = installing[q]
  BY <1>2, InstallTurns
<1>7. /\ bridge' \in BridgeDirectories /\ bridge'.manifest = bridge.manifest
      /\ \A n \in ScriptNames : bridge'.files[n] = IF n = name THEN NoFile ELSE bridge.files[n]
  BY <1>1, <1>3, <1>4 DEF BridgeDirectories
<1>8. BridgeHolds'
  <2>1. InstallFits(install, release[p])
    BY <1>5 DEF InstallFits
  <2> QED
    BY <1>2, <1>3, <1>5, <1>7, <2>1, InstallHolds
<1>9. ASSUME Keeps(installing[p], release[p], bridge)
      PROVE  Keeps(install, release[p], bridge')
  <2>1. Payload[release[p]] \subseteq ScriptNames /\ install.owned \subseteq ScriptNames
    BY <1>3, <1>5, VersionsAreSo DEF Installs
  <2>2. /\ \A n \in Payload[release[p]] \ install.todo : bridge'.files[n] = release[p]
        /\ \A n \in install.owned \ (Payload[release[p]] \union install.todo) :
              bridge'.files[n] = NoFile
    BY <1>2, <1>4, <1>5, <1>7, <1>9, <2>1 DEF Keeps
  <2> QED
    BY <1>2, <1>5, <1>9, <2>2 DEF Keeps
<1>10. ASSUME NEW version \in Versions, OneVersion(version), Agrees(version)
       PROVE  Agrees(version)'
  <2>1. Payload[version] \subseteq ScriptNames /\ release[p] = version
    BY <1>10, VersionsAreSo DEF OneVersion
  <2>2. \A n \in Payload[version] :
           \/ n \in installing'[p].todo
           \/ bridge'.files[n] = bridge.files[n] /\ n \notin installing[p].todo
    BY <1>4, <1>5, <1>6, <1>7, <2>1
  <2> QED
    BY <1>2, <1>5, <1>6, <1>7, <1>10, <2>2, WriterAgrees
<1> QED
  BY <1>2, <1>5, <1>6, <1>8, <1>9, <1>10, StepPreserves

LEMMA EmptyManifestPreserves ==
    ASSUME BridgeInvariant, NEW p \in Installers, EmptyManifest(p)
    PROVE  BridgeInvariant'
<1>1. /\ BridgeHolds /\ installing[p].step = "write" /\ installing[p].todo = {} /\ Maintains(p)
      /\ bridge' = [bridge EXCEPT !.manifest = Torn] /\ Proceed(p, "manifest")
      /\ UNCHANGED <<legacy, release, used>>
  BY DEF EmptyManifest, BridgeInvariant, Maintains
<1>2. /\ installing[p] \in Installs /\ release[p] \in Versions
      /\ bridge \in BridgeDirectories /\ legacy \in BridgeDirectories
  BY <1>1, PartsAreSo
<1>3. bridge' \in BridgeDirectories /\ bridge'.manifest = Torn /\ bridge'.files = bridge.files
  BY <1>1, <1>2 DEF BridgeDirectories
<1>4. /\ BridgeHolds'
      /\ installing'[p] = [installing[p] EXCEPT !.step = "manifest"]
      /\ \A q \in Installers \ {p} : installing'[q] = installing[q]
  BY <1>1, <1>2, <1>3, ProceedHolds
<1>5. /\ installing'[p].step = "manifest" /\ installing'[p].alone = installing[p].alone
      /\ installing'[p].todo = {} /\ installing'[p].found = installing[p].found
      /\ installing'[p].owned = installing[p].owned
  BY <1>1, <1>2, <1>4 DEF Installs
<1>6. Keeps(installing[p], release[p], bridge) => Keeps(installing'[p], release[p], bridge')
  BY <1>1, <1>3, <1>5 DEF Keeps
<1>7. ASSUME NEW version \in Versions, OneVersion(version), Agrees(version)
      PROVE  Agrees(version)'
  <2>1. Migrants' = Migrants /\ \A q \in Migrants : installing'[q] = installing[q]
    BY <1>1, <1>4, <1>5 DEF Migrants
  <2>2. Migrating(version)'
    BY <1>1, <1>7, <2>1 DEF Agrees, Migrating
  <2>3. \A q \in Writers \ {p} : q \in Writers' /\ installing'[q] = installing[q]
    BY <1>4 DEF Writers
  <2>4. AllCovered(version)
    BY <1>1, <1>7 DEF Agrees
  <2>5. AllCovered(version)'
    BY <1>1, <1>3, <2>3, <2>4 DEF AllCovered, Covered
  <2>6. ManifestCovered(version)'
    BY <1>5 DEF ManifestCovered
  <2>7. Named(bridge'.manifest) = 0
    BY <1>3 DEF Named, Legible
  <2>8. ~(Named(bridge'.manifest) > version)
    BY <2>7, VersionsAreSo
  <2>9. \A q \in Installers : installing'[q].step = "manifest" => installing'[q].todo = {}
    BY <1>4, <1>5, <1>7 DEF Agrees
  <2> QED
    BY <2>2, <2>5, <2>6, <2>8, <2>9 DEF Agrees
<1> QED
  BY <1>1, <1>4, <1>5, <1>6, <1>7, StepPreserves

LEMMA FillManifestPreserves ==
    ASSUME BridgeInvariant, NEW p \in Installers, FillManifest(p)
    PROVE  BridgeInvariant'
<1>1. /\ BridgeHolds /\ installing[p].step = "manifest" /\ Maintains(p)
      /\ bridge' = [bridge EXCEPT !.manifest = Manifest(release[p])] /\ Proceed(p, "done")
      /\ UNCHANGED <<legacy, release, used>>
  BY DEF FillManifest, BridgeInvariant, Maintains
<1>2. /\ installing[p] \in Installs /\ release[p] \in Versions
      /\ bridge \in BridgeDirectories /\ legacy \in BridgeDirectories
  BY <1>1, PartsAreSo
<1>3. /\ Manifest(release[p]) \in Manifests
      /\ Named(Manifest(release[p])) = release[p]
      /\ ListedFiles(Manifest(release[p])) = Payload[release[p]]
      /\ release[p] \in Nat
  BY <1>2, VersionsAreSo
<1>4. /\ bridge' \in BridgeDirectories /\ bridge'.manifest = Manifest(release[p])
      /\ bridge'.files = bridge.files
  BY <1>1, <1>2, <1>3, ManifestBecomes
<1>5. /\ BridgeHolds'
      /\ installing'[p] = [installing[p] EXCEPT !.step = "done"]
      /\ \A q \in Installers \ {p} : installing'[q] = installing[q]
  BY <1>1, <1>2, <1>4, ProceedHolds
<1>6. /\ installing'[p].step = "done" /\ installing'[p].alone = installing[p].alone
      /\ installing'[p].found = installing[p].found
      /\ installing'[p].owned = installing[p].owned /\ installing[p].found \in Nat
  BY <1>2, <1>5 DEF Installs
<1>7. ASSUME Keeps(installing[p], release[p], bridge)
      PROVE  Keeps(installing'[p], release[p], bridge')
  <2>1. /\ installing[p].found <= release[p] /\ installing[p].todo = {}
        /\ \A name \in Payload[release[p]] \ installing[p].todo : bridge.files[name] = release[p]
        /\ \A name \in installing[p].owned \ (Payload[release[p]] \union installing[p].todo) :
              bridge.files[name] = NoFile
    BY <1>1, <1>7 DEF Keeps
  <2>2. /\ \A name \in Payload[release[p]] : bridge'.files[name] = release[p]
        /\ \A name \in installing'[p].owned \ ListedFiles(bridge'.manifest) :
              bridge'.files[name] = NoFile
    BY <1>3, <1>4, <1>6, <2>1
  <2>3. Named(bridge'.manifest) >= installing'[p].found
    BY <1>3, <1>4, <1>6, <2>1
  <2> QED
    BY <1>4, <1>6, <2>2, <2>3 DEF Keeps
<1>8. ASSUME NEW version \in Versions, OneVersion(version), Agrees(version)
      PROVE  Agrees(version)'
  <2>1. release[p] = version
    BY <1>8 DEF OneVersion
  <2>2. Migrants' = Migrants /\ \A q \in Migrants : installing'[q] = installing[q]
    BY <1>1, <1>5, <1>6 DEF Migrants
  <2>3. Migrating(version)'
    BY <1>1, <1>8, <2>2 DEF Agrees, Migrating
  <2>4. \A q \in Writers : q \in Writers' /\ installing'[q] = installing[q]
    BY <1>1, <1>5 DEF Writers
  <2>5. AllCovered(version)
    BY <1>1, <1>8 DEF Agrees
  <2>6. AllCovered(version)'
    BY <1>4, <2>4, <2>5 DEF AllCovered, Covered
  <2>7. ManifestCovered(version)'
    BY <1>4, <2>1 DEF ManifestCovered
  <2>8. ~(Named(bridge'.manifest) > version)
    BY <1>3, <1>4, <2>1
  <2>9. \A q \in Installers : installing'[q].step = "manifest" => installing'[q].todo = {}
    BY <1>5, <1>6, <1>8 DEF Agrees
  <2> QED
    BY <2>3, <2>6, <2>7, <2>8, <2>9 DEF Agrees
<1> QED
  BY <1>1, <1>5, <1>6, <1>7, <1>8, StepPreserves

----------------------------------------------------------------------------
\* Faults.  What was interrupted or changed need not agree.

LEMMA InterruptPreserves ==
    ASSUME BridgeInvariant, NEW p \in Installers, Interrupt(p)
    PROVE  BridgeInvariant'
<1>1. /\ BridgeHolds /\ used.faults < MaxDamages
      /\ installing' = [installing EXCEPT ![p] = Resting]
      /\ used' = [used EXCEPT !.faults = @ + 1]
      /\ UNCHANGED <<bridge, legacy, release>>
  BY DEF Interrupt, BridgeInvariant
<1>2. installing'[p] = Resting /\ \A q \in Installers \ {p} : installing'[q] = installing[q]
  BY <1>1, InstallTurns
<1>3. /\ Resting \in Installs /\ Resting.step = "idle" /\ ~Resting.alone
      /\ InstallFits(Resting, release[p])
  BY DEF Resting, Installs, InstallFits
<1>4. /\ used' \in [calls : 0..MaxInstalls, faults : 0..MaxDamages] /\ used'.faults # 0
  BY <1>1, InstallsAreBounded DEF BridgeHolds, BridgeTypeOK
<1>5. BridgeHolds'
  <2>1. installing' \in [Installers -> Installs]
    BY <1>1, <1>3 DEF BridgeHolds, BridgeTypeOK
  <2>2. \A q \in Installers : InstallFits(installing'[q], release'[q])
    BY <1>1, <1>2, <1>3 DEF BridgeHolds
  <2> QED
    BY <1>1, <1>4, <2>1, <2>2 DEF BridgeHolds, BridgeTypeOK
<1>6. SoleInstaller'
  BY <1>2, <1>3 DEF BridgeInvariant, SoleInstaller, Maintains
<1>7. BridgeKeeps'
  BY <1>1, <1>2, <1>3 DEF BridgeInvariant, BridgeKeeps, Maintains
<1>8. BridgeAgrees'
  BY <1>4 DEF BridgeAgrees, OneVersion
<1> QED
  BY <1>5, <1>6, <1>7, <1>8 DEF BridgeInvariant

LEMMA ChangeDirectoryPreserves ==
    ASSUME BridgeInvariant, ChangeDirectory
    PROVE  BridgeInvariant'
<1>1. /\ BridgeHolds /\ used.faults < MaxDamages /\ bridge \in BridgeDirectories
      /\ installing' = [p \in Installers |-> [installing[p] EXCEPT !.alone = FALSE]]
      /\ used' = [used EXCEPT !.faults = @ + 1]
      /\ UNCHANGED <<legacy, release>>
  BY DEF ChangeDirectory, BridgeInvariant, BridgeHolds, BridgeTypeOK
<1>2. bridge' \in BridgeDirectories
  <2>1. ASSUME NEW name \in ScriptNames, NEW content \in {NoFile, Torn},
               bridge' = [bridge EXCEPT !.files[name] = content]
        PROVE  bridge' \in BridgeDirectories
    BY <1>1, <2>1 DEF BridgeDirectories
  <2>2. ASSUME NEW manifest \in {NoFile, Torn}, bridge' = [bridge EXCEPT !.manifest = manifest]
        PROVE  bridge' \in BridgeDirectories
    BY <1>1, <2>2 DEF BridgeDirectories
  <2> QED
    BY <2>1, <2>2 DEF ChangeDirectory
<1>3. /\ used' \in [calls : 0..MaxInstalls, faults : 0..MaxDamages] /\ used'.faults # 0
  BY <1>1, InstallsAreBounded DEF BridgeHolds, BridgeTypeOK
<1>4. ASSUME NEW q \in Installers
      PROVE  /\ installing'[q] \in Installs /\ ~installing'[q].alone
             /\ InstallFits(installing'[q], release'[q])
  BY <1>1, PartsAreSo DEF Installs, InstallFits
<1>5. BridgeHolds'
  <2>1. installing' \in [Installers -> Installs]
    BY <1>1, <1>4
  <2> QED
    BY <1>1, <1>2, <1>3, <1>4, <2>1 DEF BridgeHolds, BridgeTypeOK
<1>6. SoleInstaller' /\ BridgeKeeps'
  BY <1>4 DEF SoleInstaller, BridgeKeeps
<1>7. BridgeAgrees'
  BY <1>3 DEF BridgeAgrees, OneVersion
<1> QED
  BY <1>5, <1>6, <1>7 DEF BridgeInvariant

----------------------------------------------------------------------------

LEMMA BridgeStarts == BridgeInit => BridgeInvariant
<1> SUFFICES ASSUME BridgeInit PROVE BridgeInvariant
  OBVIOUS
<1>1. /\ release \in [Installers -> Versions]
      /\ installing = [p \in Installers |-> Resting]
      /\ used = [calls |-> 0, faults |-> 0]
  BY DEF BridgeInit
<1>2. \A version \in Versions : Package(version) \in BridgeDirectories
  BY VersionsAreSo DEF Package, BridgeDirectories
<1>3. NoPackage \in BridgeDirectories
  BY DEF NoPackage, BridgeDirectories
<1>4. bridge \in BridgeDirectories /\ legacy \in BridgeDirectories
  BY <1>2, <1>3 DEF BridgeInit
<1>5. /\ Resting \in Installs /\ Resting.step = "idle" /\ ~Resting.alone
      /\ \A version \in Versions : InstallFits(Resting, version)
  BY DEF Resting, Installs, InstallFits
<1>6. \A p \in Installers : installing[p] = Resting
  BY <1>1
<1>7. BridgeHolds
  BY <1>1, <1>4, <1>5, InstallsAreBounded DEF BridgeHolds, BridgeTypeOK
<1>8. SoleInstaller /\ BridgeKeeps
  BY <1>5, <1>6 DEF SoleInstaller, BridgeKeeps
<1>9. ASSUME NEW version \in Versions PROVE Agrees(version)
  <2>1. Migrants = {} /\ Writers = {}
    BY <1>5, <1>6 DEF Migrants, Writers
  <2>2. legacy.manifest = Manifest(version) =>
           \A name \in Payload[version] : legacy.files[name] \in {NoFile, version}
    <3> SUFFICES ASSUME legacy.manifest = Manifest(version)
                 PROVE  \A name \in Payload[version] : legacy.files[name] \in {NoFile, version}
      OBVIOUS
    <3>1. CASE legacy = NoPackage
      BY <3>1, VersionsAreSo DEF NoPackage
    <3>2. ASSUME NEW other \in Versions, legacy = Package(other)
          PROVE  \A name \in Payload[version] : legacy.files[name] \in {NoFile, version}
      <4>1. Manifest(other) = Manifest(version)
        BY <3>2 DEF Package
      <4>2. other = version
        BY <4>1, VersionsAreSo
      <4> QED
        BY <3>2, <4>2, VersionsAreSo DEF Package
    <3>3. legacy = NoPackage \/ \E other \in Versions : legacy = Package(other)
      BY DEF BridgeInit
    <3> QED
      BY <3>1, <3>2, <3>3
  <2> QED
    BY <1>5, <1>6, <2>1, <2>2 DEF Agrees, Migrating
<1> QED
  BY <1>7, <1>8, <1>9 DEF BridgeInvariant, BridgeAgrees

LEMMA BridgeNextPreserves == BridgeInvariant /\ [BridgeNext]_bridgeVars => BridgeInvariant'
<1> SUFFICES ASSUME BridgeInvariant, [BridgeNext]_bridgeVars PROVE BridgeInvariant'
  OBVIOUS
<1>1. CASE UNCHANGED bridgeVars
  BY <1>1 DEF bridgeVars, BridgeInvariant, BridgeHolds, BridgeTypeOK, SoleInstaller, Maintains,
     BridgeKeeps, BridgeAgrees, OneVersion, Agrees, Migrating, Migrants, AllCovered, Covered,
     ManifestCovered, Writers
<1>2. CASE ChangeDirectory
  BY <1>2, ChangeDirectoryPreserves
<1>3. ASSUME NEW p \in Installers, InstallStep(p) PROVE BridgeInvariant'
  BY <1>3, BeginInstallPreserves, ReadManifestPreserves, LookPreserves, MovePreserves,
     MoveManifestPreserves, ReadMovedPreserves, DecidePreserves, ReadPreviousPreserves,
     EmptyFilePreserves, FillFilePreserves, RemoveObsoletePreserves, EmptyManifestPreserves,
     FillManifestPreserves, EndInstallPreserves, InterruptPreserves DEF InstallStep
<1> QED
  BY <1>1, <1>2, <1>3 DEF BridgeNext

LEMMA BridgeIsInvariant == BridgeSpec => []BridgeInvariant
BY BridgeStarts, BridgeNextPreserves, PTL DEF BridgeSpec

LEMMA InvariantRecovers == BridgeInvariant => BridgeRecovers
<1> SUFFICES ASSUME BridgeInvariant PROVE BridgeRecovers
  OBVIOUS
<1>1. CallsRepair
  <2> SUFFICES ASSUME NEW p \in Installers, installing[p].step = "done", installing[p].alone
               PROVE  /\ Installed(release[p])
                      /\ Named(bridge.manifest) >= installing[p].found
                      /\ \A name \in installing[p].owned \ bridge.manifest.files :
                            bridge.files[name] = NoFile
    BY DEF CallsRepair
  <2>1. /\ release[p] \in Versions /\ bridge.manifest \in Manifests \union {NoFile, Torn}
    BY PartsAreSo DEF BridgeInvariant
  <2>2. Keeps(installing[p], release[p], bridge)
    BY DEF BridgeInvariant, BridgeKeeps, Maintains
  <2>3. Installed(release[p]) /\ Named(bridge.manifest) >= installing[p].found
    BY <2>2 DEF Keeps, Installed
  <2>4. Legible(bridge.manifest)
    BY <2>1, <2>3, VersionsAreSo DEF Installed, Named
  <2>5. ListedFiles(bridge.manifest) = bridge.manifest.files
    BY <2>4 DEF ListedFiles
  <2> QED
    BY <2>2, <2>3, <2>5 DEF Keeps
<1>2. CallsAgree
  <2> SUFFICES ASSUME used.faults = 0,
                      \A p, q \in Installers : release[p] = release[q],
                      \A p \in Installers : installing[p].step \in {"idle", "done", "refused"},
                      NEW p \in Installers, installing[p].step = "done"
               PROVE  Installed(release[p])
    BY DEF CallsAgree
  <2> DEFINE version == release[p]
  <2>1. version \in Versions /\ OneVersion(version)
    BY PartsAreSo DEF BridgeInvariant, OneVersion
  <2>2. Agrees(version)
    BY <2>1 DEF BridgeInvariant, BridgeAgrees
  <2>3. Writers = {}
    BY DEF Writers
  <2> QED
    BY <2>2, <2>3 DEF Agrees, ManifestCovered, AllCovered, Covered, Installed
<1> QED
  BY <1>1, <1>2 DEF BridgeRecovers

(***************************************************************************)
(* The shape of the two package directories and of every call.             *)
(***************************************************************************)
THEOREM BridgeTypeCorrect == BridgeSpec => []BridgeTypeOK
<1>1. BridgeInvariant => BridgeTypeOK
  BY DEF BridgeInvariant, BridgeHolds
<1> QED
  BY <1>1, BridgeIsInvariant, PTL

(***************************************************************************)
(* Whatever crashes, failed writes, the user or other processes left in    *)
(* the directory of the bridge, a call that nobody disturbs ends with a    *)
(* complete package of its version or the newer one it met, and of what it *)
(* replaced nothing stays; processes of one version that are not           *)
(* interrupted agree on a complete package, however their calls and        *)
(* migrations interleave.                                                  *)
(***************************************************************************)
THEOREM BridgeStaysRecoverable == BridgeSpec => []BridgeRecovers
BY BridgeIsInvariant, InvariantRecovers, PTL
=============================================================================
