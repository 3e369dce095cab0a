--------------------------- MODULE AdmissionTable ---------------------------
(***************************************************************************)
(* The fixed-capacity, latest-wins admission table of                      *)
(* server/src/analysis_runtime.rs (struct TaskAdmission) as operators on a *)
(* record.  The table owns no thread: the LSP main loop admits work, takes *)
(* the next task for the executor, and asks `complete' whether a finished  *)
(* task may still publish.                                                 *)
(*                                                                         *)
(* A table t has the fields                                                *)
(*   retained   partial function from TaskKey to RetainedTask              *)
(*   pending    one queue of task identities per class                     *)
(*   bytes      the running total of the retained snapshots' sizes         *)
(*   sequence   the last sequence number given to an identity              *)
(*   cancelled  the sequence numbers whose shared AtomicBool is set        *)
(*                                                                         *)
(* An identity's request_id is left out: the sequence number alone makes   *)
(* an identity unique.                                                     *)
(***************************************************************************)
EXTENDS Integers, Sequences, FiniteSets

CONSTANTS Uris, MaxRetainedJobs, MaxRetainedBytes

ASSUME LimitsAssumption ==
  MaxRetainedJobs \in Nat /\ MaxRetainedBytes \in Nat

(* TaskClass, in TaskClass::PRIORITY order. *)
Classes == {"foreground", "semantic", "rich"}
Rank == [foreground |-> 1, semantic |-> 2, rich |-> 3]

Keys == Classes \X Uris
Identities ==
  [uri : Uris, class : Classes, revision : Nat, sequence : Nat]
KeyOf(id) == <<id.class, id.uri>>

RetainedTasks ==
  [task : Identities, state : {"queued", "inFlight"}, bytes : Nat]

(* f is a HashMap from some of S to T. *)
IsMap(f, S, T) == DOMAIN f \subseteq S /\ f \in [DOMAIN f -> T]

IsTable(t) ==
  /\ t = [retained |-> t.retained, pending |-> t.pending, bytes |-> t.bytes,
           sequence |-> t.sequence, cancelled |-> t.cancelled]
  /\ IsMap(t.retained, Keys, RetainedTasks)
  /\ t.pending \in [Classes -> Seq(Identities)]
  /\ t.bytes \in Nat
  /\ t.sequence \in Nat
  /\ t.cancelled \in SUBSET Nat

(* Defect: no queue for one of the classes. *)
EmptyTableWithoutRich ==
  [retained  |-> [k \in {} |-> {}],
   pending   |-> [c \in Classes \ {"rich"} |-> << >>],
   bytes     |-> 0,
   sequence  |-> 0,
   cancelled |-> {}]

EmptyTable ==
  [retained  |-> [k \in {} |-> {}],
   pending   |-> [c \in Classes |-> << >>],
   bytes     |-> 0,
   sequence  |-> 0,
   cancelled |-> {}]

(* usize::saturating_sub *)
SaturatingSub(m, n) == IF n > m THEN 0 ELSE m - n

(* VecDeque::retain(|identity| identity != id); an identity is queued at   *)
(* most once, so dropping its first occurrence drops them all.             *)
Dequeue(queue, id) ==
  IF \E i \in 1 .. Len(queue) : queue[i] = id
  THEN LET at == CHOOSE i \in 1 .. Len(queue) : queue[i] = id
       IN  [j \in 1 .. Len(queue) - 1 |->
              IF j < at THEN queue[j] ELSE queue[j + 1]]
  ELSE queue

Unretain(retained, key) ==
  [k \in (DOMAIN retained) \ {key} |-> retained[k]]

(* Defects of removal: the flag is not raised, the queue entry stays. *)
RemoveRaisesNoFlag(t, key) ==
  IF key \notin DOMAIN t.retained THEN t
  ELSE LET gone == t.retained[key]
       IN  [t EXCEPT
              !.retained = Unretain(@, key),
              !.bytes = SaturatingSub(@, gone.bytes),
              !.pending[key[1]] =
                 IF gone.state = "queued" THEN Dequeue(@, gone.task) ELSE @]

RemoveLeavesQueued(t, key) ==
  IF key \notin DOMAIN t.retained THEN t
  ELSE LET gone == t.retained[key]
       IN  [t EXCEPT
              !.retained = Unretain(@, key),
              !.cancelled = @ \union {gone.task.sequence},
              !.bytes = SaturatingSub(@, gone.bytes)]

(* TaskAdmission::remove: raises the task's cancellation flag, releases    *)
(* its bytes, and drops a queued identity from its class queue.            *)
Remove(t, key) ==
  IF key \notin DOMAIN t.retained THEN t
  ELSE LET gone == t.retained[key]
       IN  [t EXCEPT
              !.retained = Unretain(@, key),
              !.cancelled = @ \union {gone.task.sequence},
              !.bytes = SaturatingSub(@, gone.bytes),
              !.pending[key[1]] =
                 IF gone.state = "queued" THEN Dequeue(@, gone.task) ELSE @]

(* Defect: one task too many. *)
OverloadedTooLate(t, bytes) ==
  \/ Cardinality(DOMAIN t.retained) > MaxRetainedJobs
  \/ bytes > SaturatingSub(MaxRetainedBytes, t.bytes)

(* The capacity test of TaskAdmission::admit, evaluated after the task it  *)
(* replaces is gone.                                                       *)
Overloaded(t, bytes) ==
  \/ Cardinality(DOMAIN t.retained) >= MaxRetainedJobs
  \/ bytes > SaturatingSub(MaxRetainedBytes, t.bytes)

(* Defect: the sequence number just given is not recorded. *)
RetainUncounted(t, id, bytes) ==
  [t EXCEPT
     !.bytes = @ + bytes,
     !.retained =
        [k \in (DOMAIN @) \union {KeyOf(id)} |->
           IF k = KeyOf(id)
           THEN [task |-> id, state |-> "queued", bytes |-> bytes]
           ELSE @[k]],
     !.pending[id.class] = Append(@, id)]

Retain(t, id, bytes) ==
  [t EXCEPT
     !.sequence = id.sequence,
     !.bytes = @ + bytes,
     !.retained =
        [k \in (DOMAIN @) \union {KeyOf(id)} |->
           IF k = KeyOf(id)
           THEN [task |-> id, state |-> "queued", bytes |-> bytes]
           ELSE @[k]],
     !.pending[id.class] = Append(@, id)]

(* What TaskAdmission::admit decides once the older task is removed. *)
Admits(t, class, uri, bytes) ==
  ~ Overloaded(Remove(t, <<class, uri>>), bytes)

(* TaskAdmission::admit; DroppedOverload leaves only the removal behind. *)
Admit(t, class, uri, revision, bytes) ==
  LET free == Remove(t, <<class, uri>>)
  IN  IF Overloaded(free, bytes) THEN free
      ELSE Retain(free, [uri |-> uri, class |-> class,
                         revision |-> revision,
                         sequence |-> t.sequence + 1], bytes)

(* The queue entries take_next does not skip. *)
Runnable(t, id) ==
  /\ KeyOf(id) \in DOMAIN t.retained
  /\ t.retained[KeyOf(id)].task = id
  /\ t.retained[KeyOf(id)].state = "queued"

QueuePositions(t) ==
  UNION {{c} \X (1 .. Len(t.pending[c])) : c \in Classes}

(* The positions <<class, index>> at which take_next stops: the first      *)
(* runnable entry of the highest-priority class that has one.              *)
NextPositions(t) ==
  {p \in QueuePositions(t) :
     /\ Runnable(t, t.pending[p[1]][p[2]])
     /\ \A i \in 1 .. (p[2] - 1) : ~ Runnable(t, t.pending[p[1]][i])
     /\ \A c \in Classes : Rank[c] < Rank[p[1]] =>
          \A i \in 1 .. Len(t.pending[c]) : ~ Runnable(t, t.pending[c][i])}

TaskAt(t, p) == t.pending[p[1]][p[2]]

(* TaskAdmission::take_next stopping at p: everything popped on the way    *)
(* stays popped, and the task it returns is in flight.                     *)
TakeAt(t, p) ==
  [t EXCEPT
     !.pending = [c \in Classes |->
        IF Rank[c] < Rank[p[1]] THEN << >>
        ELSE IF c = p[1] THEN SubSeq(@[c], p[2] + 1, Len(@[c]))
        ELSE @[c]],
     !.retained[KeyOf(TaskAt(t, p))].state = "inFlight"]

(* Defect: any task of the key counts as the current one. *)
IsCurrentByKey(t, id) == KeyOf(id) \in DOMAIN t.retained

(* TaskAdmission::complete: only the exact retained identity may publish,  *)
(* and completing it releases it.                                          *)
IsCurrent(t, id) ==
  KeyOf(id) \in DOMAIN t.retained /\ t.retained[KeyOf(id)].task = id
Complete(t, id) == IF IsCurrent(t, id) THEN Remove(t, KeyOf(id)) ELSE t

(* Defect: the rich lane is forgotten. *)
CancelUriButRich(t, uri) ==
  Remove(Remove(t, <<"foreground", uri>>), <<"semantic", uri>>)

(* TaskAdmission::cancel_uri *)
CancelUri(t, uri) ==
  Remove(Remove(Remove(t, <<"foreground", uri>>), <<"semantic", uri>>),
         <<"rich", uri>>)
=============================================================================
