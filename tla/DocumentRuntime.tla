-------------------------- MODULE DocumentRuntime --------------------------
(***************************************************************************)
(* The language server's document runtime: the main loop's document state  *)
(* and deferred requests (server/src/lsp/document_runtime.rs), the token   *)
(* cache of an open document (open_documents.rs), the worker executor      *)
(* (runtime_scheduler.rs) and the dispatch of the requests that wait for   *)
(* background work (feature_dispatch.rs), over the admission table of      *)
(* AdmissionTable.                                                         *)
(*                                                                         *)
(* One handler of the main loop is one step.  Workers, the threads that    *)
(* publish external index generations, and the client run concurrently     *)
(* with it.  A client message is taken by the main loop at any moment the  *)
(* loop is free: the reader thread feeds the same channel as the workers,  *)
(* so every interleaving of messages with queued events is possible.       *)
(*                                                                         *)
(* Document text is abstracted to its size and to the revision number the  *)
(* DocumentStore gives it; analyses and token projections are abstracted   *)
(* to the revision and generation they were computed for.                  *)
(***************************************************************************)
EXTENDS AdmissionTable

CONSTANTS
  Requests,        \* ids of the client's requests, each sent at most once
  Kinds,           \* which kinds of request the client sends
  Sizes,           \* the text sizes a snapshot may have
  Lanes,           \* the runtime's workers
  DeferralLimit,   \* MAX_PENDING_DOCUMENT_REQUESTS_PER_URI
  EventCapacity,   \* INCOMING_EVENT_QUEUE_CAPACITY
  MaxRevision,     \* bound on accepted snapshots
  MaxGeneration    \* bound on external index publications

Classifications == {"completion", "tokens", "debug"}
WorkerLanes == {"foreground", "background", "foregroundWithIdleBackground"}

\* No request: of a job that answers none, or of a field not filled in yet.
NoRequest == "none"

ASSUME RuntimeAssumption ==
  /\ NoRequest \notin Requests
  /\ Kinds \subseteq Classifications /\ Lanes \subseteq WorkerLanes
  /\ Sizes \subseteq Nat /\ DeferralLimit \in Nat /\ EventCapacity \in Nat
  /\ MaxRevision \in Nat /\ MaxGeneration \in Nat

(* Of the kinds, "completion" stands for the source-backed requests that   *)
(* wait for the analysis, "tokens" for semanticTokens/full, "debug" for    *)
(* debugHover and debugCompletion.  The lanes are those of                 *)
(* RuntimeWorkCapacity: "foreground" and, with a second CPU, "background"; *)
(* without one "foregroundWithIdleBackground" takes both kinds of work.    *)

VARIABLES
  main,        \* the state the main loop owns, see Init
  jobs,        \* RuntimeWorkExecutor.state: scheduled jobs by (class, uri)
  workers,     \* what the busy lanes' threads are executing
  events,      \* the bounded event channel to the main loop
  generation,  \* the external index generation
  unannounced  \* generations published whose event is not sent yet

vars == <<main, jobs, workers, events, generation, unannounced>>

-----------------------------------------------------------------------------
(* Values.                                                                 *)

NoOverlay == [revision |-> 0, generation |-> 0]
NoPending == [revision |-> 0, generation |-> 0, sequence |-> 0]

(* OpenDocument with its SemanticTokenCache; revision 0 is a closed uri.   *)
Closed ==
  [revision |-> 0, bytes |-> 0, foreground |-> FALSE, analysis |-> FALSE,
   rejected |-> FALSE, overlay |-> NoOverlay, pending |-> NoPending]

Pending(revision, bytes) ==
  [Closed EXCEPT !.revision = revision, !.bytes = bytes]

NoTokens == [revision |-> 0, generation |-> 0, told |-> TRUE]

Init ==
  /\ main =
       [documents |-> [u \in Uris |-> Closed],
        nextRevision |-> 0,
        table |-> EmptyTable,
        deferredRequests |-> [u \in Uris |-> << >>],
        deferredTokens |-> [u \in Uris |-> << >>],
        lastGeneration |-> 0,
        refreshInFlight |-> FALSE,
        refreshDirty |-> FALSE,
        \* effects: ReplayDeferred not yet delivered, answers, diagnostics
        replays |-> << >>,
        requests |-> [r \in Requests |->
           [state |-> "unsent", kind |-> NoRequest, uri |-> NoRequest,
            revision |-> 0, answers |-> 0]],
        diagnostics |-> [u \in Uris |-> 0],
        \* the tokens the client shows, and whether it has been told since
        \* to ask again
        shown |-> [u \in Uris |-> NoTokens]]
  /\ jobs = [k \in {} |-> {}]
  /\ workers = [l \in {} |-> {}]
  /\ events = << >>
  /\ generation = 0
  /\ unannounced = 0

Document(s, u) == s.documents[u]
IsOpen(s, u) == Document(s, u).revision # 0

-----------------------------------------------------------------------------
(* Effects and deferred requests.                                          *)

Answer(s, R, outcome) ==
  [s EXCEPT !.requests = [r \in Requests |->
     IF r \in R
     THEN [s.requests[r] EXCEPT !.state = outcome, !.answers = @ + 1]
     ELSE s.requests[r]]]

(* The loops that split a deferred vector into the requests they take and  *)
(* those they put back: the members of seq that are in S, in order.        *)
Kept(seq, S) ==
  LET kept[n \in 0 .. Len(seq)] ==
        IF n = 0 THEN << >>
        ELSE IF seq[n] \in S THEN Append(kept[n - 1], seq[n]) ELSE kept[n - 1]
  IN  kept[Len(seq)]

Waiters == [request : Requests, revision : Nat]
TokenWaiters == [request : Requests, revision : Nat, generation : Nat]

RequestsIn(seq) == {seq[i].request : i \in 1 .. Len(seq)}

(* Defect: deferred requests are dropped without an answer. *)
DiscardSilently(s, u) == [s EXCEPT !.deferredRequests[u] = << >>]

(* discard_deferred_document_requests_for_revision: all of them, whatever  *)
(* their revision.                                                         *)
DiscardDeferredRequests(s, u) ==
  [Answer(s, RequestsIn(s.deferredRequests[u]), "error")
     EXCEPT !.deferredRequests[u] = << >>]

(* reject_deferred_semantic_token_requests, None standing for Nat. *)
RejectDeferredTokens(s, u, revisions, generations) ==
  LET rejected == [request : Requests, revision : revisions,
                   generation : generations]
  IN  [Answer(s, RequestsIn(Kept(s.deferredTokens[u], rejected)), "error")
         EXCEPT !.deferredTokens[u] = Kept(@, TokenWaiters \ rejected)]

(* Defect: a change during a refresh is not remembered. *)
RequestRefreshOnce(s) ==
  IF s.refreshInFlight THEN s
  ELSE [s EXCEPT !.refreshInFlight = TRUE,
                 !.shown = [u \in Uris |-> [s.shown[u] EXCEPT !.told = TRUE]]]

(* request_semantic_tokens_refresh_effect *)
RequestRefresh(s) ==
  IF s.refreshInFlight THEN [s EXCEPT !.refreshDirty = TRUE]
  ELSE [s EXCEPT !.refreshInFlight = TRUE,
                 !.shown = [u \in Uris |-> [s.shown[u] EXCEPT !.told = TRUE]]]

(* SemanticTokenCache::cancel_pending: the flag is shared with the task,   *)
(* which stays retained in the admission table.                            *)
CancelPending(s, u) ==
  IF Document(s, u).pending = NoPending THEN s
  ELSE [s EXCEPT
          !.table.cancelled = @ \union {Document(s, u).pending.sequence},
          !.documents[u].pending = NoPending]

-----------------------------------------------------------------------------
(* Admission followed at once by take_next and by scheduling what it took. *)

CanAdmit(s, class, u) == Admits(s.table, class, u, Document(s, u).bytes)

AfterAdmit(s, class, u) ==
  Admit(s.table, class, u, Document(s, u).revision, Document(s, u).bytes)

Taken(s, class, u) ==
  LET t == AfterAdmit(s, class, u)
  IN  TaskAt(t, CHOOSE p \in NextPositions(t) : TRUE)

AdmitAndTake(s, class, u) ==
  LET t == AfterAdmit(s, class, u)
  IN  [s EXCEPT !.table =
         IF CanAdmit(s, class, u)
         THEN TakeAt(t, CHOOSE p \in NextPositions(t) : TRUE) ELSE t]

Job(task, kind, g, r) ==
  [task |-> task, kind |-> kind, generation |-> g, request |-> r]

(* schedule_work: a job already queued under the key is overwritten. *)
Schedule(pending, job) ==
  [k \in (DOMAIN pending) \union {KeyOf(job.task)} |->
     IF k = KeyOf(job.task) THEN job ELSE pending[k]]

(* A handler's result: the main loop's new state and the jobs scheduled.   *)
Outcome(s, j) == [s |-> s, jobs |-> j]

Start(s, class, u, kind, g, r) ==
  Outcome(AdmitAndTake(s, class, u),
          Schedule(jobs, Job(Taken(s, class, u), kind, g, r)))

(* admit_foreground *)
AdmitForeground(s, u) ==
  IF CanAdmit(s, "foreground", u)
  THEN Start(s, "foreground", u, "foreground", 0, NoRequest)
  ELSE Outcome([AdmitAndTake(s, "foreground", u)
                  EXCEPT !.documents[u].rejected = TRUE], jobs)

(* admit_semantic_after_foreground_runtime *)
AdmitSemantic(s, u) ==
  IF CanAdmit(s, "semantic", u)
  THEN Start(s, "semantic", u, "semantic", 0, NoRequest)
  ELSE LET over == [AdmitAndTake(s, "semantic", u)
                      EXCEPT !.documents[u].rejected = TRUE]
       IN  Outcome(
             RejectDeferredTokens(DiscardDeferredRequests(over, u), u,
                                  {Document(s, u).revision}, Nat), jobs)

(* SemanticTokenCache::needs_rich_projection *)
NeedsRich(s, u, g) ==
  LET d == Document(s, u)
  IN  /\ d.overlay # [revision |-> d.revision, generation |-> g]
      /\ ~ (d.pending.revision = d.revision /\ d.pending.generation = g)

(* admit_rich_semantic_tokens *)
AdmitRich(s, u, g) ==
  IF ~ IsOpen(s, u) \/ ~ NeedsRich(s, u, g) THEN Outcome(s, jobs)
  ELSE IF CanAdmit(s, "rich", u)
  THEN LET o == Start(s, "rich", u, "rich", g, NoRequest)
       IN  [o EXCEPT !.s = [CancelPending(@, u) EXCEPT !.documents[u].pending =
              [revision |-> Document(s, u).revision, generation |-> g,
               sequence |-> Taken(s, "rich", u).sequence]]]
  ELSE Outcome(
         RejectDeferredTokens(AdmitAndTake(s, "rich", u), u,
                              {Document(s, u).revision}, {g}), jobs)

-----------------------------------------------------------------------------
(* observe_semantic_external_generation, which only tests ever call with a *)
(* self-save preservation.                                                 *)
Observe(s, g) ==
  LET stale == {u \in Uris : /\ Document(s, u).pending # NoPending
                             /\ Document(s, u).pending.generation # g}
      deferred == UNION {RequestsIn(s.deferredTokens[u]) : u \in Uris}
  IN  IF g = s.lastGeneration THEN s
      ELSE IF \A u \in Uris : ~ IsOpen(s, u)
      THEN [s EXCEPT !.lastGeneration = g]
      ELSE RequestRefresh(
             [Answer(s, deferred, "error") EXCEPT
                !.lastGeneration = g,
                !.deferredTokens = [u \in Uris |-> << >>],
                !.table.cancelled = @ \union
                   {Document(s, u).pending.sequence : u \in stale},
                !.documents = [u \in Uris |->
                   [Document(s, u) EXCEPT
                      !.pending = IF u \in stale THEN NoPending ELSE @,
                      !.overlay = IF @.generation # g THEN NoOverlay ELSE @]]])

-----------------------------------------------------------------------------
(* The client's document notifications.                                    *)

(* Every handler runs to completion, the deferred requests it replays      *)
(* included, before the loop takes another message or event.               *)
LoopIsFree == main.replays = << >>

Handled(o) ==
  /\ main' = o.s
  /\ jobs' = o.jobs
  /\ UNCHANGED <<workers, events, generation, unannounced>>

(* Forget the document a close or a repeated open replaces. *)
Release(s, u) ==
  LET idle == CancelPending(s, u)
  IN  IF IsOpen(s, u)
      THEN [idle EXCEPT !.table = CancelUri(@, u), !.documents[u] = Closed]
      ELSE s

(* open_document *)
OpenDocument(u, bytes) ==
  /\ LoopIsFree
  /\ main.nextRevision < MaxRevision
  /\ LET released == Release(main, u)
         upserted ==
           [released EXCEPT
              !.nextRevision = @ + 1,
              !.table = CancelUri(@, u),
              !.documents[u] = Pending(main.nextRevision + 1, bytes)]
     IN  Handled(AdmitForeground(DiscardDeferredRequests(upserted, u), u))

(* change_document with a newer version; a stale one changes nothing.      *)
(* OpenDocument::replace keeps the former token snapshot.                  *)
ChangeDocument(u, bytes) ==
  /\ LoopIsFree
  /\ IsOpen(main, u)
  /\ main.nextRevision < MaxRevision
  /\ LET replaced ==
           [CancelPending(main, u) EXCEPT
              !.nextRevision = @ + 1,
              !.table = CancelUri(@, u),
              !.documents[u] = [Pending(main.nextRevision + 1, bytes)
                 EXCEPT !.overlay = Document(main, u).overlay]]
         discarded == RejectDeferredTokens(
                        DiscardDeferredRequests(replaced, u), u, Nat, Nat)
     IN  Handled(AdmitForeground(discarded, u))

(* close_document *)
CloseDocument(u) ==
  /\ LoopIsFree
  /\ LET released == RejectDeferredTokens(
                       DiscardDeferredRequests(Release(main, u), u), u, Nat, Nat)
     IN  Handled(Outcome(
           [released EXCEPT !.diagnostics[u] = 0, !.shown[u] = NoTokens], jobs))

-----------------------------------------------------------------------------
(* Requests.                                                               *)

UriOf(s, r) == s.requests[r].uri

(* defer_document_request, reached while the analysis is not ready. *)
DeferRequest(s, r) ==
  LET u == UriOf(s, r)
  IN  IF Document(s, u).rejected \/ Len(s.deferredRequests[u]) >= DeferralLimit
      THEN Answer(s, {r}, "error")
      ELSE [s EXCEPT !.deferredRequests[u] =
              Append(@, [request |-> r, revision |-> Document(s, u).revision])]

(* defer_semantic_token_request *)
DeferTokens(s, r, g) ==
  LET u == UriOf(s, r)
  IN  IF Document(s, u).rejected \/ Len(s.deferredTokens[u]) >= DeferralLimit
      THEN Answer(s, {r}, "error")
      ELSE [s EXCEPT !.deferredTokens[u] =
              Append(@, [request |-> r, revision |-> Document(s, u).revision,
                         generation |-> g])]

AwaitsAnalysis(s, u) == IsOpen(s, u) /\ ~ Document(s, u).analysis

(* A source-backed request; answering it ends in the dispatcher's common   *)
(* tail, which observes the external generation.                           *)
DispatchCompletion(s, r) ==
  IF AwaitsAnalysis(s, UriOf(s, r)) THEN Outcome(DeferRequest(s, r), jobs)
  ELSE Outcome(Observe(Answer(s, {r}, "result"), generation), jobs)

(* debugHover and debugCompletion capture their result on the rich lane.   *)
DispatchDebug(s, r) ==
  LET u == UriOf(s, r)
  IN  IF AwaitsAnalysis(s, u) THEN Outcome(DeferRequest(s, r), jobs)
      ELSE IF ~ IsOpen(s, u)
      THEN Outcome(Observe(Answer(s, {r}, "result"), generation), jobs)
      ELSE IF CanAdmit(s, "rich", u)
      THEN Start(s, "rich", u, "debug", 0, r)
      ELSE Outcome(Answer(AdmitAndTake(s, "rich", u), {r}, "error"), jobs)

(* Defect: an overlay of any generation is served. *)
SelectedOfAnyGeneration(s, u) ==
  IF Document(s, u).overlay.revision = Document(s, u).revision
  THEN s ELSE [s EXCEPT !.documents[u].overlay = NoOverlay]

(* select_semantic_tokens: the overlay survives only for this revision and *)
(* generation; otherwise the request waits for rich work, or starts it.    *)
Selected(s, u) ==
  IF Document(s, u).overlay =
       [revision |-> Document(s, u).revision, generation |-> generation]
  THEN s ELSE [s EXCEPT !.documents[u].overlay = NoOverlay]

DispatchTokens(s, r) ==
  LET u == UriOf(s, r)
      selected == Selected(s, u)
      shows == [revision |-> Document(s, u).revision,
                generation |-> generation, told |-> FALSE]
      work == IF Document(s, u).analysis THEN AdmitRich(selected, u, generation)
              ELSE Outcome(selected, jobs)
      overloaded == /\ Document(s, u).analysis
                    /\ NeedsRich(work.s, u, generation)
  IN  IF ~ IsOpen(s, u)
      THEN Outcome(Observe(Answer(s, {r}, "result"), generation), jobs)
      ELSE IF Document(selected, u).overlay # NoOverlay
      THEN Outcome(Observe([Answer(selected, {r}, "result")
                              EXCEPT !.shown[u] = shows], generation), jobs)
      ELSE IF overloaded
      THEN Outcome(Answer(work.s, {r}, "error"), work.jobs)
      ELSE Outcome(DeferTokens(work.s, r, generation), work.jobs)

Dispatch(s, r) ==
  CASE s.requests[r].kind = "completion" -> DispatchCompletion(s, r)
    [] s.requests[r].kind = "debug"      -> DispatchDebug(s, r)
    [] s.requests[r].kind = "tokens"     -> DispatchTokens(s, r)

(* handle_routed with a new request of the client. *)
SendRequest(r, kind, u) ==
  /\ LoopIsFree
  /\ main.requests[r].state = "unsent"
  /\ Handled(Dispatch([main EXCEPT !.requests[r] =
       [state |-> "waiting", kind |-> kind, uri |-> u,
        revision |-> Document(main, u).revision, answers |-> 0]], r))

(* deliver_effect of ReplayDeferred: the same dispatch once more. *)
ReplayRequest ==
  /\ main.replays # << >>
  /\ Handled(Dispatch([main EXCEPT !.replays = Tail(@)], Head(main.replays)))

(* acknowledge_semantic_tokens_refresh *)
AcknowledgeRefresh ==
  /\ LoopIsFree
  /\ main.refreshInFlight
  /\ LET idle == [main EXCEPT !.refreshInFlight = FALSE,
                              !.refreshDirty = FALSE]
     IN  Handled(Outcome(
           IF main.refreshDirty THEN RequestRefresh(idle) ELSE idle, jobs))

-----------------------------------------------------------------------------
(* Worker events interpreted by the main loop.                             *)

Completed(s, job) == [s EXCEPT !.table = Complete(@, job.task)]
Accepts(s, job) == IsCurrent(s.table, job.task)
Matches(s, job) == Document(s, job.task.uri).revision = job.task.revision

(* Defects: diagnostics of a task that may not publish; no next step. *)
ForegroundReadyAlways(s, job) ==
  LET u == job.task.uri
  IN  AdmitSemantic(
        [Completed(s, job) EXCEPT
           !.documents[u].foreground = TRUE,
           !.diagnostics[u] = job.task.revision], u)

ForegroundReadyAlone(s, job) ==
  LET u == job.task.uri
  IN  IF ~ Accepts(s, job) \/ ~ Matches(s, job)
      THEN Outcome(Completed(s, job), jobs)
      ELSE Outcome([Completed(s, job) EXCEPT
                      !.documents[u].foreground = TRUE,
                      !.diagnostics[u] = job.task.revision], jobs)

(* interpret_foreground_event *)
ForegroundReady(s, job) ==
  LET u == job.task.uri
  IN  IF ~ Accepts(s, job) \/ ~ Matches(s, job)
      THEN Outcome(Completed(s, job), jobs)
      ELSE AdmitSemantic(
             [Completed(s, job) EXCEPT
                !.documents[u].foreground = TRUE,
                !.diagnostics[u] = job.task.revision], u)

(* The ForegroundDocumentSkipped arm of interpret_event. *)
ForegroundSkipped(s, job) ==
  LET u == job.task.uri
      completed == Completed(s, job)
      rejected == IF Matches(s, job)
                  THEN [completed EXCEPT !.documents[u].rejected = TRUE]
                  ELSE completed
  IN  IF ~ Accepts(s, job) THEN Outcome(completed, jobs)
      ELSE Outcome(RejectDeferredTokens(
             DiscardDeferredRequests(rejected, u), u,
             {job.task.revision}, Nat), jobs)

(* Defects: the analysis starts no projection, or replays nothing. *)
AnalysisReadyAlone(s, job) ==
  LET u == job.task.uri
      deferred == s.deferredRequests[u]
  IN  Outcome(
        IF ~ Accepts(s, job) \/ ~ Matches(s, job) THEN Completed(s, job)
        ELSE [Completed(s, job)
                EXCEPT !.documents[u].analysis = TRUE,
                       !.documents[u].rejected = FALSE,
                       !.deferredRequests[u] = << >>,
                       !.replays = [i \in 1 .. Len(deferred) |->
                                      deferred[i].request]], jobs)

AnalysisReadyReplaysNothing(s, job) ==
  LET u == job.task.uri
      installed == [Completed(s, job) EXCEPT !.documents[u].analysis = TRUE,
                                             !.documents[u].rejected = FALSE]
  IN  IF ~ Accepts(s, job) \/ ~ Matches(s, job)
      THEN Outcome(Completed(s, job), jobs)
      ELSE AdmitRich(installed, u, generation)

(* interpret_analysis_event, DocumentAnalysisReady: requests deferred for  *)
(* this revision are replayed, and the rich projection is started.         *)
AnalysisReady(s, job) ==
  LET u == job.task.uri
      same == [request : Requests, revision : {job.task.revision}]
      replayed == Kept(s.deferredRequests[u], same)
      others == Kept(s.deferredRequests[u], Waiters \ same)
      installed ==
        [Answer(Completed(s, job), RequestsIn(others), "error")
           EXCEPT !.documents[u].analysis = TRUE,
                  !.documents[u].rejected = FALSE,
                  !.deferredRequests[u] = << >>,
                  !.replays = [i \in 1 .. Len(replayed) |-> replayed[i].request]]
  IN  IF ~ Accepts(s, job) \/ ~ Matches(s, job)
      THEN Outcome(Completed(s, job), jobs)
      ELSE AdmitRich(installed, u, generation)

(* interpret_rich_ready_event; without a self-save retarget the projection *)
(* publishes only under the generation it was computed for.                *)
RichReady(s, job) ==
  LET u == job.task.uri
      served == [request : Requests, revision : {job.task.revision},
                 generation : {job.generation}]
      waiting == Kept(s.deferredTokens[u], served)
      installed ==
        [Completed(s, job) EXCEPT
           !.documents[u].overlay = [revision |-> job.task.revision,
                                     generation |-> job.generation],
           !.documents[u].pending = NoPending,
           !.deferredTokens[u] = Kept(@, TokenWaiters \ served),
           !.replays = [i \in 1 .. Len(waiting) |-> waiting[i].request]]
  IN  IF \/ ~ Accepts(s, job)
         \/ ~ Matches(s, job)
         \/ job.generation # generation
      THEN Outcome(Completed(s, job), jobs)
      ELSE Outcome(IF waiting = << >> THEN RequestRefresh(installed)
                   ELSE installed, jobs)

(* interpret_rich_skipped_event: rejects what waited for this projection,  *)
(* whether or not the task was still current.                              *)
RichSkipped(s, job) ==
  LET u == job.task.uri
      pending == Document(s, u).pending
      idle == IF /\ pending.revision = job.task.revision
                 /\ pending.generation = job.generation
              THEN CancelPending(Completed(s, job), u) ELSE Completed(s, job)
  IN  Outcome(RejectDeferredTokens(
        idle, u, {job.task.revision}, {job.generation}), jobs)

(* interpret_debug_event *)
DebugReady(s, job) ==
  Outcome(Answer(Completed(s, job), {job.request},
                 IF Accepts(s, job) THEN "result" ELSE "error"), jobs)

Interpret(s, event) ==
  LET job == event.job
      ready == event.outcome = "ready"
  IN  CASE job.kind = "foreground" ->
             IF ready THEN ForegroundReady(s, job) ELSE ForegroundSkipped(s, job)
        [] job.kind = "semantic" ->
             IF ready THEN AnalysisReady(s, job)
             ELSE Outcome(Completed(s, job), jobs)
        [] job.kind = "rich" ->
             IF ready THEN RichReady(s, job) ELSE RichSkipped(s, job)
        [] job.kind = "debug" -> DebugReady(s, job)
        [] job.kind = "indexChanged" -> Outcome(Observe(s, generation), jobs)

(* handle_internal_event *)
HandleEvent ==
  /\ LoopIsFree
  /\ events # << >>
  /\ LET o == Interpret(main, Head(events))
     IN  main' = o.s /\ jobs' = o.jobs
  /\ events' = Tail(events)
  /\ UNCHANGED <<workers, generation, unannounced>>

-----------------------------------------------------------------------------
(* The executor's workers.                                                 *)

Send(event) == Len(events) < EventCapacity /\ events' = Append(events, event)

Flagged(job) == job.task.sequence \in main.table.cancelled

(* Mutant: one CPU's worker never takes background work. *)
LaneAcceptsReserved(lane, class) ==
  IF lane = "background" THEN class # "foreground" ELSE class = "foreground"

(* next_runnable_work_key_for_lane *)
LaneAccepts(lane, class) ==
  CASE lane = "foreground" -> class = "foreground"
    [] lane = "background" -> class # "foreground"
    [] OTHER -> \/ class = "foreground"
                \/ \A k \in DOMAIN jobs : k[1] # "foreground"

NextKeys(lane) ==
  {k \in DOMAIN jobs :
     /\ LaneAccepts(lane, k[1])
     /\ \A other \in DOMAIN jobs :
          LaneAccepts(lane, other[1]) => Rank[k[1]] <= Rank[other[1]]}

(* run: a job whose flag is already set is not executed.  Among documents  *)
(* the code takes the least uri; the model takes any.                      *)
TakeJob(lane) ==
  /\ lane \notin DOMAIN workers
  /\ \E k \in NextKeys(lane) :
       /\ jobs' = Unretain(jobs, k)
       /\ workers' = [l \in (DOMAIN workers) \union {lane} |->
            IF l = lane THEN [job |-> jobs[k], skip |-> Flagged(jobs[k])]
            ELSE workers[l]]
  /\ UNCHANGED <<main, events, generation, unannounced>>

(* execute and send_skipped: a flag raised while the job runs may be seen  *)
(* at a later checkpoint, or be raised after the last one.                 *)
FinishJob(lane) ==
  /\ lane \in DOMAIN workers
  /\ \E outcome \in {"ready", "skipped"} :
       /\ workers[lane].skip => outcome = "skipped"
       /\ outcome = "skipped" => Flagged(workers[lane].job)
       /\ Send([job |-> workers[lane].job, outcome |-> outcome])
  /\ workers' = Unretain(workers, lane)
  /\ UNCHANGED <<main, jobs, generation, unannounced>>

-----------------------------------------------------------------------------
(* A thread that publishes an external index generation bumps it under the *)
(* state lock and sends ExternalIndexChanged after releasing the lock.     *)

PublishGeneration ==
  /\ generation < MaxGeneration
  /\ generation' = generation + 1
  /\ unannounced' = unannounced + 1
  /\ UNCHANGED <<main, jobs, workers, events>>

IndexChanged ==
  Job([uri |-> NoRequest, class |-> "none", revision |-> 0, sequence |-> 0],
      "indexChanged", 0, NoRequest)

AnnounceGeneration ==
  /\ unannounced > 0
  /\ unannounced' = unannounced - 1
  /\ Send([job |-> IndexChanged, outcome |-> "ready"])
  /\ UNCHANGED <<main, jobs, workers, generation>>

-----------------------------------------------------------------------------
(* The protocol forbids a client to open a document that is already open.  *)
ClientStep ==
  \/ \E u \in Uris, b \in Sizes :
       \/ ~ IsOpen(main, u) /\ OpenDocument(u, b)
       \/ ChangeDocument(u, b)
  \/ \E u \in Uris : CloseDocument(u)
  \/ \E r \in Requests, kind \in Kinds, u \in Uris : SendRequest(r, kind, u)
  \/ AcknowledgeRefresh

LoopStep == ReplayRequest \/ HandleEvent

Next ==
  \/ ClientStep
  \/ LoopStep
  \/ \E lane \in Lanes : TakeJob(lane) \/ FinishJob(lane)
  \/ PublishGeneration
  \/ AnnounceGeneration

Spec == Init /\ [][Next]_vars

(* The loop keeps taking events and delivering effects, every worker keeps *)
(* running, and a publishing thread reaches its send; nothing is assumed   *)
(* of the client.  Only HandleEvent shortens the channel, so fairness of   *)
(* TakesEvent is its fairness, and []<>LoopIsFree is that of               *)
(* ReplayRequest: both are stated in a form whose ENABLED is cheap.        *)
TakesEvent == LoopIsFree /\ events # << >> /\ events' = Tail(events)

FairSpec ==
  /\ Spec
  /\ []<>LoopIsFree /\ WF_events(TakesEvent)
  /\ \A lane \in Lanes : WF_vars(TakeJob(lane)) /\ WF_vars(FinishJob(lane))
  /\ WF_vars(AnnounceGeneration)

-----------------------------------------------------------------------------
Jobs ==
  [task : Identities, kind : {"foreground", "semantic", "rich", "debug"},
   generation : Nat, request : Requests \union {NoRequest}]

Events == [job : Jobs \union {IndexChanged}, outcome : {"ready", "skipped"}]

Documents ==
  [revision : Nat, bytes : Nat, foreground : BOOLEAN,
   analysis : BOOLEAN, rejected : BOOLEAN,
   overlay : [revision : Nat, generation : Nat],
   pending : [revision : Nat, generation : Nat, sequence : Nat]]

Exchanges ==
  [state : {"unsent", "waiting", "result", "error"},
   kind : Classifications \union {NoRequest}, uri : Uris \union {NoRequest},
   revision : Nat, answers : Nat]

Tokens == [revision : Nat, generation : Nat, told : BOOLEAN]

TypeOK ==
  /\ main.documents \in [Uris -> Documents]
  /\ main.nextRevision \in Nat /\ main.lastGeneration \in Nat
  /\ IsTable(main.table)
  /\ main.deferredRequests \in [Uris -> Seq(Waiters)]
  /\ main.deferredTokens \in [Uris -> Seq(TokenWaiters)]
  /\ {main.refreshInFlight, main.refreshDirty} \subseteq BOOLEAN
  /\ main.replays \in Seq(Requests)
  /\ main.requests \in [Requests -> Exchanges]
  /\ main.diagnostics \in [Uris -> Nat]
  /\ main.shown \in [Uris -> Tokens]
  /\ IsMap(jobs, Keys, Jobs)
  /\ IsMap(workers, WorkerLanes, [job : Jobs, skip : BOOLEAN])
  /\ events \in Seq(Events)
  /\ generation \in Nat /\ unannounced \in Nat

WaitingRequests == {r \in Requests : main.requests[r].state = "waiting"}

(* The jobs a task identity can still be completed from. *)
LiveJobs ==
  {jobs[k] : k \in DOMAIN jobs}
  \union {workers[l].job : l \in DOMAIN workers}
  \union {events[i].job : i \in 1 .. Len(events)}

(* A request is answered at most once, and every request the server still  *)
(* owes an answer is held by exactly the queue or the job that will answer *)
(* it: a request that nothing holds can never be answered.  Only a debug   *)
(* capture may be lost, see DebugRequestsAnswered.                         *)
HeldBy(r) ==
  Cardinality({u \in Uris : r \in RequestsIn(main.deferredRequests[u])})
  + Cardinality({u \in Uris : r \in RequestsIn(main.deferredTokens[u])})
  + Cardinality({j \in LiveJobs : j.request = r})
  + Cardinality({i \in 1 .. Len(main.replays) : main.replays[i] = r})

WaitingIsHeld ==
  \A r \in Requests : main.requests[r].kind # "debug" =>
    /\ main.requests[r].answers <= 1
    /\ HeldBy(r) = IF r \in WaitingRequests THEN 1 ELSE 0

(* What is deferred belongs to the revision on screen, waits for analysis  *)
(* or tokens that are still to come, and never exceeds its limit.          *)
DeferredIsCurrent ==
  \A u \in Uris :
    LET d == Document(main, u)
    IN  /\ \A i \in 1 .. Len(main.deferredRequests[u]) :
             /\ main.deferredRequests[u][i].revision = d.revision
             /\ ~ d.analysis /\ ~ d.rejected
        /\ \A i \in 1 .. Len(main.deferredTokens[u]) :
             /\ main.deferredTokens[u][i].revision = d.revision
             /\ ~ d.rejected
        /\ Len(main.deferredRequests[u]) <= DeferralLimit
        /\ Len(main.deferredTokens[u]) <= DeferralLimit

(* Both: until its one answer a request is in one place, and a document    *)
(* holds only requests of its own revision that it can still answer.       *)
RequestsAreHeld == DeferredIsCurrent /\ WaitingIsHeld

(* Every open document that is neither analysed nor rejected has a task    *)
(* that will get it there: retained by the table and held by a job.        *)
UnreadyHasWork ==
  \A u \in Uris :
    LET d == Document(main, u)
    IN  d.revision # 0 /\ ~ d.analysis /\ ~ d.rejected =>
          \E k \in DOMAIN main.table.retained :
            /\ k = <<IF d.foreground THEN "semantic" ELSE "foreground", u>>
            /\ main.table.retained[k].task.revision = d.revision
            /\ main.table.retained[k].task \in {j.task : j \in LiveJobs}

(* A token cache that says a projection is pending suppresses new ones, so *)
(* a job for it must exist, unless its generation is already outdated.     *)
PendingHasWork ==
  \A u \in Uris :
    LET p == Document(main, u).pending
    IN  p # NoPending =>
          \/ p.generation # generation
          \/ \E j \in LiveJobs :
               j.kind = "rich" /\ j.task.sequence = p.sequence

(* Deferred token requests wait for a projection that is coming: either    *)
(* one is pending for them, or the analysis that starts it is, or a newer  *)
(* generation is about to reject them.                                     *)
DeferredTokensHaveWork ==
  \A u \in Uris : \A i \in 1 .. Len(main.deferredTokens[u]) :
    LET d == Document(main, u)
    IN  \/ ~ d.analysis
        \/ d.pending # NoPending
        \/ main.lastGeneration # generation

(* The dispatcher takes what it has just admitted: nothing stays queued,   *)
(* so no job is scheduled with another request's task.                     *)
NothingLeftQueued ==
  /\ \A c \in Classes : main.table.pending[c] = << >>
  /\ \A k \in DOMAIN main.table.retained :
       main.table.retained[k].state = "inFlight"

(* A capture may also take the place of a projection that the token cache  *)
(* goes on calling pending.                                                *)
NoCaptures == \A r \in Requests : main.requests[r].kind # "debug"

(* Nothing waits for work that nobody will do: the three above, and every  *)
(* task the table retains has been handed to a job.                        *)
WorkIsComing ==
  /\ UnreadyHasWork /\ NothingLeftQueued
  /\ NoCaptures => PendingHasWork /\ DeferredTokensHaveWork

(* The client is never left with tokens of an older generation without     *)
(* being told, or about to be told, to ask again.                          *)
StaleTokensAreAnnounced ==
  \A u \in Uris :
    LET t == main.shown[u]
    IN  (~ t.told /\ t.generation # generation) =>
          \/ main.refreshDirty
          \/ unannounced > 0
          \/ \E i \in 1 .. Len(events) : events[i].job.kind = "indexChanged"

(* A result reflects the revision the client asked about, still current    *)
(* when it is delivered, and tokens the current generation as well.        *)
FreshAnswers ==
  \A r \in Requests :
    (main.requests[r].state # "result" /\ main'.requests[r].state = "result")
    => LET d == Document(main', UriOf(main', r))
       IN  /\ d.revision = main'.requests[r].revision
           /\ (main'.requests[r].kind = "tokens" /\ d.revision # 0) =>
                d.overlay = [revision |-> d.revision, generation |-> generation]

NoStaleAnswer == [][FreshAnswers]_vars

(* Diagnostics are those of a revision the document has had since it was   *)
(* opened, never of a closed one, and never step back.                     *)
ForwardDiagnostics ==
  \A u \in Uris :
    /\ main'.diagnostics[u] <= Document(main', u).revision
    /\ main'.diagnostics[u] # 0 => main'.diagnostics[u] >= main.diagnostics[u]

DiagnosticsNeverRegress == [][ForwardDiagnostics]_vars

(* lsp/tests/runtime.rs:1779-1780, of debugHover with a scheduler present: *)
(* "pending_debug_request_receives_content_modified_when_a_new_edit_       *)
(* supersedes_it".                                                         *)
DebugRequestsAnswered ==
  \A r \in Requests :
    (r \in WaitingRequests /\ main.requests[r].kind = "debug")
    ~> r \notin WaitingRequests

(* A document is closed, or rejected, or analysed; its diagnostics are     *)
(* then those of its own revision.                                         *)
Converged(u) ==
  \/ ~ IsOpen(main, u)
  \/ Document(main, u).rejected
  \/ /\ Document(main, u).analysis
     /\ main.diagnostics[u] = Document(main, u).revision
=============================================================================
