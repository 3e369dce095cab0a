-------------------------- MODULE AnalysisRuntime --------------------------
(***************************************************************************)
(* AnalysisRuntime of server/src/analysis_runtime.rs: the table of open    *)
(* document snapshots (DocumentStore) and the admission table, driven by   *)
(* any sequence of the calls the LSP layer makes.  Text is abstracted to   *)
(* its size, which is all the admission limits look at.                    *)
(*                                                                         *)
(* Two variables are not the runtime's own: `handed' holds the identities  *)
(* take_next returned whose completion has not been reported yet (they     *)
(* live in executor jobs and channel events), and `published' remembers    *)
(* the last sequence number each key was allowed to publish.               *)
(***************************************************************************)
EXTENDS AdmissionTable, FiniteSetsExt

CONSTANTS
  Sizes,          \* the text sizes a snapshot may have
  MaxVersion,     \* bound on client versions
  MaxRevision,    \* bound on accepted snapshots
  MaxSequence     \* bound on admitted tasks

ASSUME SizesAssumption == Sizes \subseteq Nat
ASSUME BoundsAssumption ==
  MaxVersion \in Nat /\ MaxRevision \in Nat /\ MaxSequence \in Nat

VARIABLES
  documents,      \* DocumentStore.documents
  nextRevision,   \* DocumentStore.next_revision
  table,          \* TaskAdmission
  handed,
  published

vars == <<documents, nextRevision, table, handed, published>>

Snapshots == [version : Nat, revision : Nat, bytes : Sizes]

Init ==
  /\ documents = [u \in {} |-> {}]
  /\ nextRevision = 0
  /\ table = EmptyTable
  /\ handed = {}
  /\ published = [k \in Keys |-> 0]

IsOpen(u) == u \in DOMAIN documents

(* AnalysisRuntime::upsert: a version that is not strictly newer is stale  *)
(* and changes nothing; an accepted one cancels the older snapshot's work. *)
Upsert(u, version, bytes) ==
  /\ nextRevision < MaxRevision
  /\ IsOpen(u) => version > documents[u].version
  /\ nextRevision' = nextRevision + 1
  /\ documents' =
       [d \in (DOMAIN documents) \union {u} |->
          IF d = u THEN [version |-> version, revision |-> nextRevision + 1,
                         bytes |-> bytes]
          ELSE documents[d]]
  /\ table' = CancelUri(table, u)
  /\ UNCHANGED <<handed, published>>

(* AnalysisRuntime::close: the work is cancelled whatever the revision,    *)
(* the document only goes if the caller observed its current revision.     *)
Close(u, revision) ==
  /\ table' = CancelUri(table, u)
  /\ documents' =
       IF IsOpen(u) /\ documents[u].revision = revision
       THEN [d \in (DOMAIN documents) \ {u} |-> documents[d]]
       ELSE documents
  /\ UNCHANGED <<nextRevision, handed, published>>

(* AnalysisRuntime::admit, always with the latest snapshot of the uri. *)
AdmitLatest(class, u) ==
  /\ IsOpen(u)
  /\ table.sequence < MaxSequence
  /\ table' = Admit(table, class, u, documents[u].revision,
                    documents[u].bytes)
  /\ UNCHANGED <<documents, nextRevision, handed, published>>

(* AnalysisRuntime::take_next *)
TakeNext ==
  \E p \in NextPositions(table) :
    /\ table' = TakeAt(table, p)
    /\ handed' = handed \union {TaskAt(table, p)}
    /\ UNCHANGED <<documents, nextRevision, published>>

(* SemanticTokenCache::cancel_pending: the document layer gives up a        *)
(* projection it waits for and raises the flag it shares with the task,    *)
(* which stays retained.                                                   *)
CancelPending(id) ==
  /\ id.class = "rich"
  /\ table' = [table EXCEPT !.cancelled = @ \union {id.sequence}]
  /\ UNCHANGED <<documents, nextRevision, handed, published>>

(* AnalysisRuntime::complete, called once with every identity handed out. *)
Finish(id) ==
  /\ handed' = handed \ {id}
  /\ table' = Complete(table, id)
  /\ published' = IF IsCurrent(table, id)
                  THEN [published EXCEPT ![KeyOf(id)] = id.sequence]
                  ELSE published
  /\ UNCHANGED <<documents, nextRevision>>

Next ==
  \/ \E u \in Uris, v \in 1 .. MaxVersion, b \in Sizes : Upsert(u, v, b)
  \/ \E u \in Uris, r \in 1 .. MaxRevision : Close(u, r)
  \/ \E c \in Classes, u \in Uris : AdmitLatest(c, u)
  \/ TakeNext
  \/ \E id \in handed : CancelPending(id) \/ Finish(id)

Spec == Init /\ [][Next]_vars

-----------------------------------------------------------------------------
TypeOK ==
  /\ IsMap(documents, Uris, Snapshots)
  /\ nextRevision \in Nat
  /\ IsTable(table)
  /\ handed \in SUBSET Identities
  /\ published \in [Keys -> Nat]

Retained == table.retained
IsQueued(k) == Retained[k].state = "queued"

(* Retained work stays within both limits, counting tasks in flight:       *)
(* analysis_runtime.rs:338-339, "Both queued and running tasks count".     *)
WithinLimits ==
  /\ Cardinality(DOMAIN Retained) <= MaxRetainedJobs
  /\ table.bytes <= MaxRetainedBytes

(* The running byte total, maintained by one addition and several          *)
(* saturating subtractions, never drifts from what is retained.            *)
BytesAreAccounted ==
  table.bytes =
    FoldSet(LAMBDA k, sum : Retained[k].bytes + sum, 0, DOMAIN Retained)

(* Eager removal keeps the queues exact: each class queue lists the queued *)
(* tasks of that class, each once, oldest first, and nothing else.  The    *)
(* defensive skip in take_next (analysis_runtime.rs:541-543) is never      *)
(* needed, and no queued task is ever lost from its queue.                 *)
QueuesAreExact ==
  \A c \in Classes :
    LET queue == table.pending[c]
    IN  /\ {queue[i] : i \in 1 .. Len(queue)} =
             {Retained[k].task :
                k \in {key \in DOMAIN Retained : key[1] = c /\ IsQueued(key)}}
        /\ \A i, j \in 1 .. Len(queue) :
             i < j => queue[i].sequence < queue[j].sequence

(* Both: what the table maintains step by step is what it would be if it   *)
(* were computed from the retained tasks.                                  *)
TableIsExact == BytesAreAccounted /\ QueuesAreExact

(* Whatever is retained belongs to the snapshot that is current for its    *)
(* uri, so a task that completes as current never carries an old revision  *)
(* or one of a closed document.                                            *)
RetainedIsLatestSnapshot ==
  \A k \in DOMAIN Retained :
    /\ IsOpen(k[2])
    /\ Retained[k].task.revision = documents[k[2]].revision
    /\ Retained[k].bytes = documents[k[2]].bytes

(* A task in a worker's hands that lost its ticket is flagged, whichever   *)
(* call took the ticket: nothing obsolete keeps computing.                 *)
LostTicketsAreFlagged ==
  \A id \in handed : ~ IsCurrent(table, id) => id.sequence \in table.cancelled

(* A task is dispatched with its flag down, and keeps it down while it may *)
(* publish, unless it is a projection that the document layer gave up.     *)
OnlyProjectionsAreGivenUp ==
  \A k \in DOMAIN Retained :
    IsQueued(k) \/ k[1] # "rich" => Retained[k].task.sequence \notin table.cancelled

(* What a worker may conclude from the flag it shares with the runtime and *)
(* with the token cache, which raises it on tasks that stay retained.      *)
FlagsFollowTickets == LostTicketsAreFlagged /\ OnlyProjectionsAreGivenUp

(* Of several tasks a key had, only one may still publish, and it is newer *)
(* than all the key has published.                                         *)
OnlyNewestPublishes ==
  \A k \in DOMAIN Retained :
    /\ Retained[k].task.sequence > published[k]
    /\ \A id \in handed : KeyOf(id) = k =>
         id.sequence <= Retained[k].task.sequence

(* The runtime implements the publication gate. *)
Gate == INSTANCE PublicationGate WITH
  issued <- table.sequence,
  live <- [k \in Keys |-> IF k \in DOMAIN Retained
                          THEN Retained[k].task.sequence ELSE 0]
GateSpec == Gate!Spec
=============================================================================
