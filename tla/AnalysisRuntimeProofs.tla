------------------------ MODULE AnalysisRuntimeProofs ------------------------
(***************************************************************************)
(* Proofs about the analysis runtime, for any documents, sizes and limits. *)
(*                                                                         *)
(* The inductive invariant has three parts.  Tickets relates the table to  *)
(* what was handed out and published: sequence numbers were issued, are    *)
(* unique, a lost ticket means a raised flag, and what is in a worker's    *)
(* hands is in flight.  Snapshotted relates the table to the documents.    *)
(* Five of the six actions only cancel, retain or mark tasks, so each part *)
(* is preserved by lemmas about those three.                               *)
(* ExactTable, which is inductive beside Tickets, relates the table to     *)
(* itself: its queues hold the identities it retains, once each, and its   *)
(* byte total is their sum.                                                *)
(***************************************************************************)
EXTENDS AnalysisRuntime, AdmissionTableProofs

Tickets ==
  /\ Sound(table)
  /\ handed \in SUBSET Identities
  /\ published \in [Keys -> Nat]
  /\ \A id \in handed : id.sequence \in 1 .. table.sequence
  /\ \A k \in Keys : published[k] <= table.sequence
  /\ \A id \in handed : \A k \in DOMAIN Retained :
       id.sequence = Retained[k].task.sequence => id = Retained[k].task
  /\ \A id \in handed : IsCurrent(table, id) =>
       Retained[KeyOf(id)].state = "inFlight"
  /\ LostTicketsAreFlagged
  /\ OnlyNewestPublishes

Snapshotted ==
  /\ IsMap(documents, Uris, Snapshots)
  /\ nextRevision \in Nat
  /\ RetainedIsLatestSnapshot

Inv == Tickets /\ Snapshotted

-----------------------------------------------------------------------------
LEMMA RetainedTypes ==
  ASSUME Sound(table), NEW k \in DOMAIN Retained
  PROVE  /\ k \in Keys /\ Retained[k] \in RetainedTasks
         /\ Retained[k].task \in Identities
         /\ Retained[k].task.sequence \in Nat
         /\ KeyOf(Retained[k].task) = k
BY DEF Sound, IsTable, IsMap, RetainedTasks, Identities, Retained

(* Cancelling tasks raises the flags of the tickets it takes away.         *)
LEMMA CancelKeepsTickets ==
  ASSUME Tickets, NEW K, Sound(table'), Cancels(table, table', K),
         UNCHANGED <<handed, published>>
  PROVE  Tickets'
<1>1. /\ \A k \in DOMAIN Retained' : k \in DOMAIN Retained /\ k \notin K
                                     /\ Retained'[k] = Retained[k]
      /\ table'.sequence = table.sequence
      /\ DOMAIN Retained' = (DOMAIN Retained) \ K
  BY DEF Cancels, Retained
<1>2. LostTicketsAreFlagged'
  <2> SUFFICES ASSUME NEW id \in handed, ~ IsCurrent(table', id)
               PROVE  id.sequence \in table'.cancelled
    BY DEF LostTicketsAreFlagged
  <2>1. ~ IsCurrent(table, id) => id.sequence \in table.cancelled
    BY DEF Tickets, LostTicketsAreFlagged
  <2>2. IsCurrent(table', id) <=> IsCurrent(table, id) /\ KeyOf(id) \notin K
    BY <1>1 DEF IsCurrent, Retained
  <2>3. id.sequence \in table'.cancelled <=>
          \/ id.sequence \in table.cancelled
          \/ \E k \in (DOMAIN Retained) \cap K : id.sequence = Retained[k].task.sequence
    BY DEF Cancels, Retained
  <2>4. ASSUME IsCurrent(table, id), KeyOf(id) \in K
        PROVE  \E k \in (DOMAIN Retained) \cap K :
                 id.sequence = Retained[k].task.sequence
    BY <2>4 DEF IsCurrent, Retained
  <2> QED
    BY <2>1, <2>2, <2>3, <2>4
<1>3. OnlyNewestPublishes'
  BY <1>1 DEF Tickets, OnlyNewestPublishes
<1>4. \A id \in handed : IsCurrent(table', id) =>
        Retained'[KeyOf(id)].state = "inFlight"
  BY <1>1 DEF Tickets, IsCurrent, Retained
<1> QED
  BY <1>1, <1>2, <1>3, <1>4 DEF Tickets

LEMMA CancelKeepsSnapshots ==
  ASSUME RetainedIsLatestSnapshot, NEW K, Cancels(table, table', K),
         \A k \in DOMAIN Retained :
           k \notin K => /\ k[2] \in DOMAIN documents'
                         /\ documents'[k[2]] = documents[k[2]]
  PROVE  RetainedIsLatestSnapshot'
BY DEF Cancels, Retained, RetainedIsLatestSnapshot, IsOpen

-----------------------------------------------------------------------------
LEMMA InitInv == Init => Inv
<1> SUFFICES ASSUME Init PROVE Inv
  OBVIOUS
<1>1. Sound(table) /\ DOMAIN Retained = {} /\ table.sequence = 0
  BY EmptyTableSound DEF Init, Retained, EmptyTable
<1>2. IsMap(documents, Uris, Snapshots)
  BY DEF Init, IsMap
<1> QED
  BY <1>1, <1>2 DEF Init, Inv, Tickets, Snapshotted, LostTicketsAreFlagged,
     OnlyNewestPublishes, RetainedIsLatestSnapshot

UriKeys(u) == {k \in Keys : k[2] = u}

(* A newer revision cancels all of its document's tasks. *)
LEMMA UpsertInv ==
  ASSUME Inv, NEW u \in Uris, NEW v \in Nat, NEW b \in Sizes, Upsert(u, v, b)
  PROVE  Inv'
<1>1. Sound(table') /\ Cancels(table, table', UriKeys(u))
  BY CancelUriProperties DEF Inv, Tickets, Upsert, UriKeys
<1>2. Tickets'
  BY <1>1, CancelKeepsTickets DEF Inv, Upsert
<1>3. IsMap(documents', Uris, Snapshots) /\ nextRevision' \in Nat
  <2>1. [version |-> v, revision |-> nextRevision + 1, bytes |-> b] \in Snapshots
    BY DEF Inv, Snapshotted, Snapshots
  <2> QED
    BY <2>1 DEF Inv, Snapshotted, IsMap, Upsert
<1>4. \A k \in DOMAIN Retained :
        k \notin UriKeys(u) => /\ k[2] \in DOMAIN documents'
                               /\ documents'[k[2]] = documents[k[2]]
  BY RetainedTypes DEF Inv, Tickets, Snapshotted, RetainedIsLatestSnapshot,
     IsOpen, Upsert, UriKeys
<1>5. RetainedIsLatestSnapshot'
  BY <1>1, <1>4, CancelKeepsSnapshots DEF Inv, Snapshotted
<1> QED
  BY <1>2, <1>3, <1>5 DEF Inv, Snapshotted

(* A close cancels them too, even if the document stays. *)
LEMMA CloseInv ==
  ASSUME Inv, NEW u \in Uris, NEW r, Close(u, r)
  PROVE  Inv'
<1>1. Sound(table') /\ Cancels(table, table', UriKeys(u))
  BY CancelUriProperties DEF Inv, Tickets, Close, UriKeys
<1>2. Tickets'
  BY <1>1, CancelKeepsTickets DEF Inv, Close
<1>3. IsMap(documents', Uris, Snapshots) /\ nextRevision' \in Nat
  BY DEF Inv, Snapshotted, IsMap, Close
<1>4. \A k \in DOMAIN Retained :
        k \notin UriKeys(u) => /\ k[2] \in DOMAIN documents'
                               /\ documents'[k[2]] = documents[k[2]]
  BY RetainedTypes DEF Inv, Tickets, Snapshotted, RetainedIsLatestSnapshot,
     IsOpen, Close, UriKeys
<1>5. RetainedIsLatestSnapshot'
  BY <1>1, <1>4, CancelKeepsSnapshots DEF Inv, Snapshotted
<1> QED
  BY <1>2, <1>3, <1>5 DEF Inv, Snapshotted

(* A task that fits gets a sequence number greater than all before it: it  *)
(* is the newest of its key, and nobody holds it yet.                      *)
LEMMA RetainKeepsTickets ==
  ASSUME Tickets, NEW key \in Keys, NEW free, NEW id \in Identities,
         Sound(table'), Cancels(table, free, {key}),
         DOMAIN Retained' = (DOMAIN free.retained) \union {key},
         \A k \in DOMAIN free.retained : Retained'[k] = free.retained[k],
         Retained'[key].task = id, KeyOf(id) = key,
         id.sequence = table.sequence + 1,
         table'.sequence = table.sequence + 1,
         table'.cancelled = free.cancelled,
         UNCHANGED <<handed, published>>
  PROVE  Tickets'
<1>1. /\ \A k \in (DOMAIN Retained') \ {key} :
           k \in DOMAIN Retained /\ Retained'[k] = Retained[k]
      /\ DOMAIN Retained' = ((DOMAIN Retained) \ {key}) \union {key}
  BY DEF Cancels, Retained
<1>2. table.sequence \in Nat
  BY DEF Tickets, Sound, IsTable
<1>3. \A held \in handed : held.sequence \in Nat /\ held.sequence < id.sequence
  BY <1>2 DEF Tickets
<1>4. LostTicketsAreFlagged'
  <2> SUFFICES ASSUME NEW held \in handed, ~ IsCurrent(table', held)
               PROVE  held.sequence \in table'.cancelled
    BY DEF LostTicketsAreFlagged
  <2>1. ~ IsCurrent(table, held) => held.sequence \in table.cancelled
    BY DEF Tickets, LostTicketsAreFlagged
  <2>2. IsCurrent(table', held) <=> IsCurrent(table, held) /\ KeyOf(held) # key
    <3>1. held # id
      BY <1>3
    <3> QED
      BY <1>1, <3>1 DEF IsCurrent, Retained
  <2>3. held.sequence \in table'.cancelled <=>
          \/ held.sequence \in table.cancelled
          \/ key \in DOMAIN Retained /\ held.sequence = Retained[key].task.sequence
    BY DEF Cancels, Retained
  <2>4. ASSUME IsCurrent(table, held), KeyOf(held) = key
        PROVE  key \in DOMAIN Retained /\ held.sequence = Retained[key].task.sequence
    BY <2>4 DEF IsCurrent, Retained
  <2> QED
    BY <2>1, <2>2, <2>3, <2>4
<1>5. OnlyNewestPublishes'
  BY <1>1, <1>2, <1>3 DEF Tickets, OnlyNewestPublishes
<1>6. \A held \in handed : \A k \in DOMAIN Retained' :
        held.sequence = Retained'[k].task.sequence => held = Retained'[k].task
  BY <1>1, <1>3 DEF Tickets
<1>7. /\ \A held \in handed : held.sequence \in 1 .. table'.sequence
      /\ \A k \in Keys : published[k] <= table'.sequence
  BY <1>2 DEF Tickets
<1>8. \A held \in handed : IsCurrent(table', held) =>
        Retained'[KeyOf(held)].state = "inFlight"
  <2> SUFFICES ASSUME NEW held \in handed, IsCurrent(table', held)
               PROVE  Retained'[KeyOf(held)].state = "inFlight"
    OBVIOUS
  <2>1. held # id
    BY <1>3
  <2>2. KeyOf(held) # key
    BY <2>1 DEF IsCurrent, Retained
  <2>3. KeyOf(held) \in (DOMAIN Retained') \ {key}
    BY <2>2 DEF IsCurrent, Retained
  <2>4. IsCurrent(table, held)
    BY <1>1, <2>3 DEF IsCurrent, Retained
  <2> QED
    BY <1>1, <2>3, <2>4 DEF Tickets
<1> QED
  BY <1>4, <1>5, <1>6, <1>7, <1>8 DEF Tickets

LEMMA AdmitInv ==
  ASSUME Inv, NEW c \in Classes, NEW u \in Uris, AdmitLatest(c, u)
  PROVE  Inv'
<1> DEFINE key == <<c, u>>
           d == documents[u]
           free == Remove(table, key)
           id == [uri |-> u, class |-> c, revision |-> d.revision,
                  sequence |-> table.sequence + 1]
<1>1. key \in Keys /\ u \in DOMAIN documents
  BY DEF Keys, AdmitLatest, IsOpen
<1>2. d \in Snapshots /\ d.revision \in Nat /\ d.bytes \in Nat
  BY <1>1, SizesAssumption DEF Inv, Snapshotted, IsMap, Snapshots
<1>3. id \in Identities /\ KeyOf(id) = key /\ id.sequence = table.sequence + 1
      /\ id.revision = d.revision
  BY <1>2 DEF Identities, KeyOf, Inv, Tickets, Sound, IsTable
<1>4. /\ Sound(table')
      /\ Cancels(table, free, {key})
      /\ ~ Admits(table, c, u, d.bytes) => table' = free
      /\ Admits(table, c, u, d.bytes) =>
           /\ DOMAIN Retained' = (DOMAIN free.retained) \union {key}
           /\ \A k \in DOMAIN free.retained : Retained'[k] = free.retained[k]
           /\ Retained'[key] = [task |-> id, state |-> "queued", bytes |-> d.bytes]
           /\ table'.sequence = table.sequence + 1
           /\ table'.cancelled = free.cancelled
  <2>1. Sound(table) /\ table' = Admit(table, c, u, d.revision, d.bytes)
    BY DEF Inv, Tickets, AdmitLatest
  <2> QED
    BY <1>2, <2>1, AdmitProperties DEF Retained
<1>5. UNCHANGED <<handed, published, documents, nextRevision>>
  BY DEF AdmitLatest
<1> HIDE DEF key, d, free, id
<1>6. CASE ~ Admits(table, c, u, d.bytes)
  <2>1. Tickets'
    BY <1>4, <1>5, <1>6, CancelKeepsTickets DEF Inv
  <2>2. RetainedIsLatestSnapshot'
    BY <1>4, <1>5, <1>6, CancelKeepsSnapshots
       DEF Inv, Snapshotted, RetainedIsLatestSnapshot, IsOpen
  <2> QED
    BY <1>5, <2>1, <2>2 DEF Inv, Snapshotted
<1>7. CASE Admits(table, c, u, d.bytes)
  <2>1. Retained'[key].task = id
    BY <1>4, <1>7
  <2>2. Tickets'
    BY <1>1, <1>3, <1>4, <1>5, <1>7, <2>1, RetainKeepsTickets DEF Inv
  <2>3. \A k \in (DOMAIN Retained') \ {key} :
          k \in DOMAIN Retained /\ Retained'[k] = Retained[k]
    BY <1>4, <1>7 DEF Cancels, Retained
  <2>4. /\ key[2] = u /\ d = documents[u]
        /\ Retained'[key].task.revision = d.revision
        /\ Retained'[key].bytes = d.bytes
    BY <1>3, <1>4, <1>7 DEF key, d
  <2>5. RetainedIsLatestSnapshot'
    BY <1>1, <1>5, <2>3, <2>4
       DEF Inv, Snapshotted, RetainedIsLatestSnapshot, IsOpen
  <2> QED
    BY <1>5, <2>2, <2>5 DEF Inv, Snapshotted
<1> QED
  BY <1>6, <1>7

(* The task taken is in flight from now on, and no other task has its      *)
(* sequence number.                                                        *)
LEMMA TakeNextInv ==
  ASSUME Inv, TakeNext
  PROVE  Inv'
<1> PICK p \in NextPositions(table) :
      /\ table' = TakeAt(table, p)
      /\ handed' = handed \union {TaskAt(table, p)}
      /\ UNCHANGED <<documents, nextRevision, published>>
  BY DEF TakeNext
<1> DEFINE id == TaskAt(table, p)
<1>1. /\ Sound(table')
      /\ id \in Identities
      /\ IsCurrent(table, id)
      /\ DOMAIN Retained' = DOMAIN Retained
      /\ \A k \in DOMAIN Retained : /\ Retained'[k].task = Retained[k].task
                                    /\ Retained'[k].bytes = Retained[k].bytes
                                    /\ \/ Retained'[k].state = Retained[k].state
                                       \/ k = KeyOf(id)
      /\ Retained'[KeyOf(id)].state = "inFlight"
      /\ table'.sequence = table.sequence
      /\ table'.cancelled = table.cancelled
  BY TakeAtProperties DEF Inv, Tickets, Retained
<1>2. handed' = handed \union {id}
  OBVIOUS
<1> HIDE DEF id
<1>3. /\ KeyOf(id) \in DOMAIN Retained
      /\ Retained[KeyOf(id)].task = id
      /\ id.sequence \in 1 .. table.sequence
  BY <1>1 DEF IsCurrent, Retained, Inv, Tickets, Sound
<1>4. \A held : IsCurrent(table', held) <=> IsCurrent(table, held)
  BY <1>1 DEF IsCurrent, Retained
<1>5. LostTicketsAreFlagged'
  BY <1>1, <1>2, <1>4 DEF Inv, Tickets, LostTicketsAreFlagged
<1>6. OnlyNewestPublishes'
  BY <1>1, <1>2, <1>3, RetainedTypes DEF Inv, Tickets, OnlyNewestPublishes
<1>7. \A held \in handed' : \A k \in DOMAIN Retained' :
        held.sequence = Retained'[k].task.sequence => held = Retained'[k].task
  <2>1. \A k \in DOMAIN Retained :
          id.sequence = Retained[k].task.sequence => k = KeyOf(id)
    BY <1>3 DEF Inv, Tickets, Sound, Retained
  <2> QED
    BY <1>1, <1>2, <1>3, <2>1 DEF Inv, Tickets
<1>8. \A held \in handed' : IsCurrent(table', held) =>
        Retained'[KeyOf(held)].state = "inFlight"
  <2> SUFFICES ASSUME NEW held \in handed', IsCurrent(table', held), held # id
               PROVE  Retained'[KeyOf(held)].state = "inFlight"
    BY <1>1
  <2>1. held \in handed /\ IsCurrent(table, held) /\ KeyOf(held) \in DOMAIN Retained
    BY <1>2, <1>4 DEF IsCurrent, Retained
  <2> QED
    BY <1>1, <2>1 DEF Inv, Tickets
<1>9. Tickets'
  BY <1>1, <1>2, <1>3, <1>5, <1>6, <1>7, <1>8 DEF Inv, Tickets
<1>10. Snapshotted'
  BY <1>1 DEF Inv, Snapshotted, RetainedIsLatestSnapshot, IsOpen
<1> QED
  BY <1>9, <1>10 DEF Inv

(* A projection nobody waits for keeps its ticket, and is in flight.       *)
LEMMA CancelPendingRaises ==
  ASSUME Inv, NEW id \in handed, CancelPending(id)
  PROVE  /\ Sound(table')
         /\ Retained' = Retained /\ table'.pending = table.pending
         /\ table'.bytes = table.bytes /\ table'.sequence = table.sequence
         /\ table'.cancelled = table.cancelled \union {id.sequence}
<1>1. id \in Identities /\ id.sequence \in 1 .. table.sequence
  BY DEF Inv, Tickets
<1>2. ASSUME NEW k \in DOMAIN Retained, Retained[k].task.sequence = id.sequence
      PROVE  k[1] = "rich" /\ Retained[k].state = "inFlight"
  <2>1. id = Retained[k].task
    BY <1>2 DEF Inv, Tickets
  <2>2. KeyOf(id) = k
    BY <2>1, RetainedTypes DEF Inv, Tickets
  <2>3. IsCurrent(table, id)
    BY <2>1, <2>2 DEF IsCurrent, Retained
  <2> QED
    BY <2>2, <2>3 DEF Inv, Tickets, KeyOf, CancelPending
<1>3. Sound(table)
  BY DEF Inv, Tickets
<1>4. table' = [table EXCEPT !.cancelled = @ \union {id.sequence}]
  BY DEF CancelPending
<1> QED
  BY <1>1, <1>2, <1>3, <1>4, RaiseSound DEF Retained

LEMMA CancelPendingInv ==
  ASSUME Inv, NEW id \in handed, CancelPending(id)
  PROVE  Inv'
<1>1. /\ Sound(table')
      /\ Retained' = Retained /\ table'.sequence = table.sequence
      /\ table'.cancelled = table.cancelled \union {id.sequence}
  BY CancelPendingRaises
<1>2. UNCHANGED <<documents, nextRevision, handed, published>>
  BY DEF CancelPending
<1>3. \A held : IsCurrent(table', held) <=> IsCurrent(table, held)
  BY <1>1 DEF IsCurrent, Retained
<1>4. LostTicketsAreFlagged'
  BY <1>1, <1>2, <1>3 DEF Inv, Tickets, LostTicketsAreFlagged
<1>5. OnlyNewestPublishes'
  BY <1>1, <1>2 DEF Inv, Tickets, OnlyNewestPublishes
<1>6. Tickets'
  BY <1>1, <1>2, <1>3, <1>4, <1>5 DEF Inv, Tickets
<1>7. Snapshotted'
  BY <1>1, <1>2 DEF Inv, Snapshotted, RetainedIsLatestSnapshot, IsOpen
<1> QED
  BY <1>6, <1>7 DEF Inv

(* A completion that publishes drops the key's ticket; a refused one       *)
(* changes nothing but what is handed out.                                 *)
LEMMA FinishInv ==
  ASSUME Inv, NEW id \in handed, Finish(id)
  PROVE  Inv'
<1>1. /\ Sound(table) /\ id \in Identities
      /\ table' = Complete(table, id) /\ handed' = handed \ {id}
      /\ UNCHANGED <<documents, nextRevision>>
      /\ published' = IF IsCurrent(table, id)
                      THEN [published EXCEPT ![KeyOf(id)] = id.sequence]
                      ELSE published
  BY DEF Inv, Tickets, Finish
<1>2. CASE ~ IsCurrent(table, id)
  <2>1. table' = table /\ published' = published
    BY <1>1, <1>2, CompleteProperties
  <2>2. Retained' = Retained
    BY <2>1 DEF Retained
  <2>3. Tickets'
    BY <1>1, <2>1, <2>2 DEF Inv, Tickets, LostTicketsAreFlagged, OnlyNewestPublishes
  <2>4. Snapshotted'
    BY <1>1, <2>2 DEF Inv, Snapshotted, RetainedIsLatestSnapshot, IsOpen
  <2> QED
    BY <2>3, <2>4 DEF Inv
<1>3. CASE IsCurrent(table, id)
  <2>1. Sound(table') /\ Cancels(table, table', {KeyOf(id)})
    BY <1>1, <1>3, CompleteProperties
  <2>2. /\ \A k \in DOMAIN Retained' : /\ k \in DOMAIN Retained /\ k # KeyOf(id)
                                       /\ Retained'[k] = Retained[k]
        /\ table'.sequence = table.sequence
        /\ DOMAIN Retained' = (DOMAIN Retained) \ {KeyOf(id)}
        /\ table'.cancelled = table.cancelled \union {id.sequence}
    BY <1>3, <2>1 DEF Cancels, Retained, IsCurrent
  <2>3. LostTicketsAreFlagged'
    <3> SUFFICES ASSUME NEW held \in handed, held # id, ~ IsCurrent(table', held)
                 PROVE  held.sequence \in table'.cancelled
      BY <1>1 DEF LostTicketsAreFlagged
    <3>1. ~ IsCurrent(table, held) => held.sequence \in table.cancelled
      BY DEF Inv, Tickets, LostTicketsAreFlagged
    <3>2. IsCurrent(table', held) <=> IsCurrent(table, held)
      BY <1>3, <2>2 DEF IsCurrent, Retained
    <3> QED
      BY <2>2, <3>1, <3>2
  <2>4. /\ published' \in [Keys -> Nat]
        /\ \A k \in Keys : published'[k] <= table'.sequence
        /\ \A k \in DOMAIN Retained' : published'[k] = published[k]
    BY <1>1, <1>3, <2>1, <2>2, RetainedTypes
       DEF Inv, Tickets, Identities, Sound, IsCurrent, Retained
  <2>5. OnlyNewestPublishes'
    BY <1>1, <2>2, <2>4 DEF Inv, Tickets, OnlyNewestPublishes
  <2>6. \A held \in handed' : IsCurrent(table', held) =>
          Retained'[KeyOf(held)].state = "inFlight"
    BY <1>1, <2>2 DEF Inv, Tickets, IsCurrent, Retained
  <2>7. Tickets'
    BY <1>1, <2>1, <2>2, <2>3, <2>4, <2>5, <2>6 DEF Inv, Tickets
  <2>8. Snapshotted'
    BY <1>1, <2>2 DEF Inv, Snapshotted, RetainedIsLatestSnapshot, IsOpen
  <2> QED
    BY <2>7, <2>8 DEF Inv
<1> QED
  BY <1>2, <1>3

LEMMA StutterInv == Inv /\ UNCHANGED vars => Inv'
<1> SUFFICES ASSUME Inv, UNCHANGED vars PROVE Inv'
  OBVIOUS
<1>1. Retained' = Retained
  BY DEF vars, Retained
<1> QED
  BY <1>1 DEF vars, Inv, Tickets, Snapshotted, LostTicketsAreFlagged,
     OnlyNewestPublishes, RetainedIsLatestSnapshot, IsOpen

LEMMA NextInv == Inv /\ [Next]_vars => Inv'
<1> SUFFICES ASSUME Inv, Next PROVE Inv'
  BY StutterInv
<1>1. ASSUME NEW u \in Uris, NEW v \in 1 .. MaxVersion, NEW b \in Sizes,
             Upsert(u, v, b)
      PROVE  Inv'
  BY <1>1, UpsertInv, BoundsAssumption
<1>2. ASSUME NEW u \in Uris, NEW r \in 1 .. MaxRevision, Close(u, r)
      PROVE  Inv'
  BY <1>2, CloseInv
<1>3. ASSUME NEW c \in Classes, NEW u \in Uris, AdmitLatest(c, u) PROVE Inv'
  BY <1>3, AdmitInv
<1>4. CASE TakeNext
  BY <1>4, TakeNextInv
<1>5. ASSUME NEW id \in handed, Finish(id) PROVE Inv'
  BY <1>5, FinishInv
<1>6. ASSUME NEW id \in handed, CancelPending(id) PROVE Inv'
  BY <1>6, CancelPendingInv
<1> QED
  BY <1>1, <1>2, <1>3, <1>4, <1>5, <1>6 DEF Next

LEMMA InvAlways == Spec => []Inv
BY InitInv, NextInv, PTL DEF Spec

-----------------------------------------------------------------------------
(* The runtime's state is well-formed, whatever it is asked to do. *)
THEOREM TypeCorrect == Spec => []TypeOK
<1>1. Inv => TypeOK
  BY DEF Inv, Tickets, Snapshotted, TypeOK, Sound
<1> QED
  BY <1>1, InvAlways, PTL

(* Queued and running tasks together never exceed either retention limit. *)
THEOREM LimitsHold == Spec => []WithinLimits
<1>1. Inv => WithinLimits
  BY DEF Inv, Tickets, Sound, WithinLimits, Retained
<1> QED
  BY <1>1, InvAlways, PTL

(* No task outlives the document snapshot it was admitted for. *)
THEOREM TasksAreCurrent == Spec => []RetainedIsLatestSnapshot
<1>1. Inv => RetainedIsLatestSnapshot
  BY DEF Inv, Snapshotted
<1> QED
  BY <1>1, InvAlways, PTL

(* Whatever call takes a ticket raises the flag of the task that held it,  *)
(* and of the tasks that keep theirs only a projection in flight is ever   *)
(* flagged, by the document layer that gave it up.                         *)
THEOREM FlagsAreFollowed == Spec => []FlagsFollowTickets
<1>1. Inv => FlagsFollowTickets
  BY DEF Inv, Tickets, Sound, Retained, IsQueued, FlagsFollowTickets,
     LostTicketsAreFlagged, OnlyProjectionsAreGivenUp
<1> QED
  BY <1>1, InvAlways, PTL

(* Whatever may still publish is newer than everything published before. *)
THEOREM NewestPublishes == Spec => []OnlyNewestPublishes
<1>1. Inv => OnlyNewestPublishes
  BY DEF Inv, Tickets
<1> QED
  BY <1>1, InvAlways, PTL

-----------------------------------------------------------------------------
(* The table stays exact whatever is asked of it, because each call is one *)
(* of the operations that keep a sound table exact.                        *)
ExactTable == Exact(table)

LEMMA NextExact == Inv /\ ExactTable /\ [Next]_vars => ExactTable'
<1> SUFFICES ASSUME Inv, Exact(table), [Next]_vars PROVE Exact(table')
  BY DEF ExactTable
<1>1. Sound(table)
  BY DEF Inv, Tickets
<1>2. ASSUME NEW u \in Uris, NEW v, NEW b, Upsert(u, v, b) PROVE Exact(table')
  BY <1>1, <1>2, CancelUriExact DEF Upsert
<1>3. ASSUME NEW u \in Uris, NEW r, Close(u, r) PROVE Exact(table')
  BY <1>1, <1>3, CancelUriExact DEF Close
<1>4. ASSUME NEW c \in Classes, NEW u \in Uris, AdmitLatest(c, u) PROVE Exact(table')
  <2>1. documents[u].revision \in Nat /\ documents[u].bytes \in Nat
    BY <1>4, SizesAssumption DEF AdmitLatest, IsOpen, Inv, Snapshotted, IsMap, Snapshots
  <2>2. table' = Admit(table, c, u, documents[u].revision, documents[u].bytes)
    BY <1>4 DEF AdmitLatest
  <2> QED
    BY <1>1, <2>1, <2>2, AdmitExact
<1>5. CASE TakeNext
  BY <1>1, <1>5, TakeAtExact DEF TakeNext
<1>6. ASSUME NEW id \in handed, Finish(id) PROVE Exact(table')
  BY <1>1, <1>6, CompleteExact DEF Finish, Inv, Tickets
<1>7. ASSUME NEW id \in handed, CancelPending(id) PROVE Exact(table')
  <2>1. /\ table'.retained = table.retained /\ table'.pending = table.pending
        /\ table'.bytes = table.bytes
    BY <1>7, CancelPendingRaises DEF Retained
  <2> QED
    BY <2>1 DEF Exact, Accounted, Listed, QueuedTasks
<1>8. CASE UNCHANGED vars
  BY <1>8 DEF vars
<1> QED
  BY <1>2, <1>3, <1>4, <1>5, <1>6, <1>7, <1>8 DEF Next

(* The byte total and the queues, which the code maintains one call at a   *)
(* time, are what they would be if computed from the retained tasks.       *)
THEOREM TableStaysExact == Spec => []TableIsExact
<1>1. Init => ExactTable
  BY EmptyTableExact DEF Init, ExactTable
<1>2. ExactTable => TableIsExact
  <2> SUFFICES ASSUME Exact(table) PROVE TableIsExact
    BY DEF ExactTable
  <2>1. BytesAreAccounted
    BY DEF Exact, Accounted, Total, BytesAreAccounted, Retained
  <2>2. QueuesAreExact
    BY DEF Exact, Listed, Entries, QueuedTasks, Ascending, QueuesAreExact,
       Retained, IsQueued
  <2> QED
    BY <2>1, <2>2 DEF TableIsExact
<1> QED
  BY <1>1, <1>2, NextExact, InvAlways, PTL DEF Spec

-----------------------------------------------------------------------------
(* The refinement: a document's cancellation withdraws its tickets, an     *)
(* admission issues one or withdraws one, taking is a stutter, and only a  *)
(* current completion publishes.                                           *)
Live == [k \in Keys |-> IF k \in DOMAIN Retained
                        THEN Retained[k].task.sequence ELSE 0]

GateVars == <<table.sequence, Live, published>>

LEMMA CancelWithdraws ==
  ASSUME NEW K \in SUBSET Keys, Cancels(table, table', K), published' = published
  PROVE  Gate!Withdraw(K)
<1>1. Live' = [k \in Keys |-> IF k \in K THEN 0 ELSE Live[k]]
  BY DEF Cancels, Live, Retained
<1> QED
  BY <1>1 DEF Cancels, Gate!Withdraw, Live

LEMMA AdmitIssues ==
  ASSUME Inv, NEW c \in Classes, NEW u \in Uris, AdmitLatest(c, u)
  PROVE  Gate!Issue(<<c, u>>) \/ Gate!Withdraw({<<c, u>>})
<1> DEFINE key == <<c, u>>
           d == documents[u]
           free == Remove(table, key)
           id == [uri |-> u, class |-> c, revision |-> d.revision,
                  sequence |-> table.sequence + 1]
<1>1. key \in Keys
  BY DEF Keys
<1>2. d.revision \in Nat /\ d.bytes \in Nat
  BY SizesAssumption DEF AdmitLatest, IsOpen, Inv, Snapshotted, IsMap, Snapshots
<1>3. /\ Cancels(table, free, {key})
      /\ ~ Admits(table, c, u, d.bytes) => table' = free
      /\ Admits(table, c, u, d.bytes) =>
           /\ DOMAIN Retained' = (DOMAIN free.retained) \union {key}
           /\ \A k \in DOMAIN free.retained : Retained'[k] = free.retained[k]
           /\ Retained'[key] = [task |-> id, state |-> "queued", bytes |-> d.bytes]
           /\ table'.sequence = table.sequence + 1
  <2>1. Sound(table) /\ table' = Admit(table, c, u, d.revision, d.bytes)
    BY DEF Inv, Tickets, AdmitLatest
  <2> QED
    BY <1>2, <2>1, AdmitProperties DEF Retained
<1>4. id.sequence = table.sequence + 1 /\ published' = published
  BY DEF AdmitLatest
<1> HIDE DEF key, free, id, d
<1>5. CASE ~ Admits(table, c, u, d.bytes)
  <2>1. Gate!Withdraw({key})
    BY <1>1, <1>3, <1>4, <1>5, CancelWithdraws
  <2> QED
    BY <2>1 DEF key
<1>6. CASE Admits(table, c, u, d.bytes)
  <2>1. Retained'[key].task.sequence = table.sequence + 1
    BY <1>3, <1>4, <1>6
  <2>2. Live' = [Live EXCEPT ![key] = table.sequence + 1]
    BY <1>1, <1>3, <1>6, <2>1 DEF Cancels, Live, Retained
  <2>3. Gate!Issue(key)
    BY <1>3, <1>4, <1>6, <2>2 DEF Gate!Issue, Live
  <2> QED
    BY <2>3 DEF key
<1> QED
  BY <1>5, <1>6

LEMMA TakeNextStutters ==
  ASSUME Inv, TakeNext
  PROVE  UNCHANGED GateVars
<1> PICK p \in NextPositions(table) :
      table' = TakeAt(table, p) /\ published' = published
  BY DEF TakeNext
<1>1. /\ DOMAIN Retained' = DOMAIN Retained
      /\ \A k \in DOMAIN Retained : Retained'[k].task = Retained[k].task
      /\ table'.sequence = table.sequence
  BY TakeAtProperties DEF Inv, Tickets, Retained
<1> QED
  BY <1>1 DEF GateVars, Live

LEMMA FinishPublishes ==
  ASSUME Inv, NEW id \in handed, Finish(id)
  PROVE  (\E k \in Keys : Gate!Publish(k)) \/ UNCHANGED GateVars
<1>1. Sound(table) /\ id \in Identities /\ table' = Complete(table, id)
  BY DEF Inv, Tickets, Finish
<1>2. CASE ~ IsCurrent(table, id)
  BY <1>1, <1>2, CompleteProperties DEF Finish, GateVars, Live, Retained
<1>3. CASE IsCurrent(table, id)
  <2>1. Cancels(table, table', {KeyOf(id)})
    BY <1>1, <1>3, CompleteProperties
  <2>2. KeyOf(id) \in Keys /\ Live[KeyOf(id)] = id.sequence /\ id.sequence # 0
    BY <1>1, <1>3, KeyOfType DEF IsCurrent, Live, Retained, Sound
  <2>3. Live' = [Live EXCEPT ![KeyOf(id)] = 0]
    BY <2>1, <2>2 DEF Cancels, Live, Retained
  <2>4. published' = [published EXCEPT ![KeyOf(id)] = id.sequence]
    BY <1>3 DEF Finish
  <2>5. Gate!Publish(KeyOf(id))
    BY <2>1, <2>2, <2>3, <2>4 DEF Gate!Publish, Live, Cancels
  <2> QED
    BY <2>2, <2>5
<1> QED
  BY <1>2, <1>3

(* The analysis runtime implements the publication gate. *)
THEOREM RuntimeImplementsGate == Spec => GateSpec
<1>1. Init => Gate!Init
  BY DEF Init, Gate!Init, EmptyTable, Retained
<1>2. Inv /\ [Next]_vars => [Gate!Next]_(Gate!vars)
  <2> SUFFICES ASSUME Inv, [Next]_vars PROVE Gate!Next \/ UNCHANGED GateVars
    BY DEF Gate!vars, GateVars, Live
  <2>1. ASSUME NEW u \in Uris, CancelUri(table, u) = table', published' = published
        PROVE  Gate!Withdraw(UriKeys(u))
    BY <2>1, CancelUriProperties, CancelWithdraws DEF Inv, Tickets, UriKeys
  <2>2. ASSUME NEW u \in Uris, NEW v, NEW b, Upsert(u, v, b) PROVE Gate!Next
    BY <2>1, <2>2 DEF Upsert, Gate!Next, UriKeys
  <2>3. ASSUME NEW u \in Uris, NEW r, Close(u, r) PROVE Gate!Next
    BY <2>1, <2>3 DEF Close, Gate!Next, UriKeys
  <2>4. ASSUME NEW c \in Classes, NEW u \in Uris, AdmitLatest(c, u) PROVE Gate!Next
    <3>1. <<c, u>> \in Keys /\ {<<c, u>>} \in SUBSET Keys
      BY DEF Keys
    <3>2. Gate!Issue(<<c, u>>) \/ Gate!Withdraw({<<c, u>>})
      BY <2>4, AdmitIssues
    <3> QED
      BY <3>1, <3>2 DEF Gate!Next
  <2>5. CASE TakeNext
    BY <2>5, TakeNextStutters
  <2>6. ASSUME NEW id \in handed, Finish(id) PROVE Gate!Next \/ UNCHANGED GateVars
    BY <2>6, FinishPublishes DEF Gate!Next
  <2>7. ASSUME NEW id \in handed, CancelPending(id) PROVE UNCHANGED GateVars
    <3>1. published' = published
      BY <2>7 DEF CancelPending
    <3> QED
      BY <2>7, <3>1, CancelPendingRaises DEF GateVars, Live
  <2>8. CASE UNCHANGED vars
    BY <2>8 DEF vars, GateVars, Live, Retained
  <2> QED
    BY <2>2, <2>3, <2>4, <2>5, <2>6, <2>7, <2>8 DEF Next
<1> QED
  BY <1>1, <1>2, InvAlways, PTL DEF Spec, GateSpec, Gate!Spec
-----------------------------------------------------------------------------
(* What the gate promises.  That every ticket a key holds or has published *)
(* was issued is, with LiveIsNewest, inductive: a new ticket is greater    *)
(* than all of them, so it is newest and shared with no other key.         *)
GateInv ==
  /\ table.sequence \in Nat
  /\ Live \in [Keys -> 0 .. table.sequence]
  /\ published \in [Keys -> 0 .. table.sequence]
  /\ \A k \in Keys : Live[k] # 0 => Live[k] > published[k]
  /\ \A k1, k2 \in Keys : Live[k1] # 0 /\ Live[k1] = Live[k2] => k1 = k2

LEMMA GateSteps ==
  ASSUME [Gate!Next]_(Gate!vars)
  PROVE  \/ \E k \in Keys :
              /\ table'.sequence = table.sequence + 1
              /\ Live' = [Live EXCEPT ![k] = table.sequence + 1]
              /\ published' = published
         \/ \E k \in Keys :
              /\ Live[k] # 0
              /\ published' = [published EXCEPT ![k] = Live[k]]
              /\ Live' = [Live EXCEPT ![k] = 0]
              /\ table'.sequence = table.sequence
         \/ \E K \in SUBSET Keys :
              /\ Live' = [k \in Keys |-> IF k \in K THEN 0 ELSE Live[k]]
              /\ table'.sequence = table.sequence /\ published' = published
         \/ UNCHANGED GateVars
<1>1. ASSUME NEW k \in Keys, Gate!Issue(k)
      PROVE  /\ table'.sequence = table.sequence + 1
             /\ Live' = [Live EXCEPT ![k] = table.sequence + 1]
             /\ published' = published
  BY <1>1 DEF Gate!Issue, Live
<1>2. ASSUME NEW k \in Keys, Gate!Publish(k)
      PROVE  /\ Live[k] # 0
             /\ published' = [published EXCEPT ![k] = Live[k]]
             /\ Live' = [Live EXCEPT ![k] = 0]
             /\ table'.sequence = table.sequence
  BY <1>2 DEF Gate!Publish, Live
<1>3. ASSUME NEW K \in SUBSET Keys, Gate!Withdraw(K)
      PROVE  /\ Live' = [k \in Keys |-> IF k \in K THEN 0 ELSE Live[k]]
             /\ table'.sequence = table.sequence /\ published' = published
  BY <1>3 DEF Gate!Withdraw, Live
<1>4. CASE UNCHANGED Gate!vars
  BY <1>4 DEF Gate!vars, GateVars, Live
<1> QED
  BY <1>1, <1>2, <1>3, <1>4 DEF Gate!Next

LEMMA GateInvAlways == GateSpec => []GateInv
<1>1. Gate!Init => GateInv
  <2> SUFFICES ASSUME Gate!Init PROVE GateInv
    OBVIOUS
  <2>1. /\ table.sequence = 0 /\ Live = [k \in Keys |-> 0]
        /\ published = [k \in Keys |-> 0]
    BY DEF Gate!Init, Live
  <2> QED
    BY <2>1 DEF GateInv
<1>2. GateInv /\ [Gate!Next]_(Gate!vars) => GateInv'
  <2> SUFFICES ASSUME GateInv, [Gate!Next]_(Gate!vars) PROVE GateInv'
    OBVIOUS
  <2>1. ASSUME NEW k \in Keys, table'.sequence = table.sequence + 1,
               Live' = [Live EXCEPT ![k] = table.sequence + 1], published' = published
        PROVE  GateInv'
    BY <2>1 DEF GateInv
  <2>2. ASSUME NEW k \in Keys, Live[k] # 0,
               published' = [published EXCEPT ![k] = Live[k]],
               Live' = [Live EXCEPT ![k] = 0], table'.sequence = table.sequence
        PROVE  GateInv'
    BY <2>2 DEF GateInv
  <2>3. ASSUME NEW K \in SUBSET Keys,
               Live' = [k \in Keys |-> IF k \in K THEN 0 ELSE Live[k]],
               table'.sequence = table.sequence, published' = published
        PROVE  GateInv'
    BY <2>3 DEF GateInv
  <2>4. CASE UNCHANGED GateVars
    BY <2>4 DEF GateVars, GateInv
  <2> QED
    BY <2>1, <2>2, <2>3, <2>4, GateSteps
<1> QED
  BY <1>1, <1>2, PTL DEF GateSpec, Gate!Spec

(* What the gate promises its callers: a live ticket is the newest of its  *)
(* key, newer than all the key has published, and no other key's.          *)
THEOREM GateLiveIsNewest == GateSpec => []Gate!LiveIsNewest
<1>1. GateInv => Gate!LiveIsNewest
  BY DEF GateInv, Gate!LiveIsNewest, Live
<1> QED
  BY <1>1, GateInvAlways, PTL

(* A key of the gate never publishes an older ticket after a newer one.    *)
THEOREM GatePublishesForward == GateSpec => Gate!PublishesForward
<1>1. GateInv /\ [Gate!Next]_(Gate!vars) =>
        [\A k \in Keys : published'[k] >= published[k]]_(Gate!vars)
  <2> SUFFICES ASSUME GateInv, [Gate!Next]_(Gate!vars), ~ UNCHANGED Gate!vars
               PROVE  \A k \in Keys : published'[k] >= published[k]
    OBVIOUS
  <2>1. ASSUME NEW k \in Keys, Live[k] # 0,
               published' = [published EXCEPT ![k] = Live[k]]
        PROVE  \A key \in Keys : published'[key] >= published[key]
    BY <2>1 DEF GateInv
  <2>2. ASSUME published' = published
        PROVE  \A key \in Keys : published'[key] >= published[key]
    BY <2>2 DEF GateInv
  <2> QED
    BY <2>1, <2>2, GateSteps DEF GateVars
<1> QED
  BY <1>1, GateInvAlways, PTL DEF GateSpec, Gate!Spec, Gate!PublishesForward

(* complete of analysis_runtime.rs accepts only current tasks, so that the *)
(* results of superseded analyses cannot overwrite newer ones.             *)
THEOREM RuntimePublishesForward == Spec => Gate!PublishesForward
BY RuntimeImplementsGate, GatePublishesForward, PTL
=============================================================================
