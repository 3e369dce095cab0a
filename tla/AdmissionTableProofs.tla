------------------------ MODULE AdmissionTableProofs ------------------------
(***************************************************************************)
(* What the operations of the admission table preserve, for any limits and *)
(* any set of documents.                                                   *)
(***************************************************************************)
EXTENDS AdmissionTable, FiniteSetsExt, SequenceTheorems, FiniteSetTheorems,
        WellFoundedInduction, TLAPS

LEMMA ClassOfKey ==
  ASSUME NEW k \in Keys
  PROVE  k[1] \in Classes /\ k[2] \in Uris /\ k = <<k[1], k[2]>>
BY DEF Keys

LEMMA KeyOfType == \A id \in Identities : KeyOf(id) \in Keys
BY DEF Identities, KeyOf, Keys

LEMMA DequeueType ==
  ASSUME NEW queue \in Seq(Identities), NEW id
  PROVE  Dequeue(queue, id) \in Seq(Identities)
<1>1. CASE \E i \in 1 .. Len(queue) : queue[i] = id
  <2> DEFINE at == CHOOSE i \in 1 .. Len(queue) : queue[i] = id
             n == Len(queue) - 1
             e(j) == IF j < at THEN queue[j] ELSE queue[j + 1]
  <2>1. n \in Nat
    BY <1>1, LenProperties
  <2>2. at \in 1 .. Len(queue)
    BY <1>1
  <2>3. \A j \in 1 .. n : e(j) \in Identities
    BY <2>1, <2>2, ElementOfSeq
  <2> HIDE DEF at, e, n
  <2>4. [j \in 1 .. n |-> e(j)] \in Seq(Identities)
    BY <2>1, <2>3, IsASeq
  <2> QED
    BY <1>1, <2>4 DEF Dequeue, at, e, n
<1>2. CASE ~ \E i \in 1 .. Len(queue) : queue[i] = id
  BY <1>2 DEF Dequeue
<1> QED
  BY <1>1, <1>2

LEMMA SaturatingSubType ==
  \A m, n \in Nat : SaturatingSub(m, n) \in Nat /\ SaturatingSub(m, n) <= m
BY DEF SaturatingSub

LEMMA EmptyTableType == IsTable(EmptyTable)
<1>1. << >> \in Seq(Identities)
  BY EmptySeq
<1> QED
  BY <1>1 DEF IsTable, EmptyTable, IsMap, Classes

(* Removing a key leaves every other key's task alone, raises the flag of  *)
(* the one it drops, and never increases the byte total.                   *)
LEMMA RemoveProperties ==
  ASSUME NEW t, IsTable(t), NEW key \in Keys
  PROVE  LET r == Remove(t, key)
         IN  /\ IsTable(r)
             /\ DOMAIN r.retained = (DOMAIN t.retained) \ {key}
             /\ \A k \in DOMAIN r.retained : r.retained[k] = t.retained[k]
             /\ r.sequence = t.sequence
             /\ r.bytes <= t.bytes
             /\ r.cancelled = t.cancelled \union
                  {t.retained[k].task.sequence : k \in (DOMAIN t.retained) \cap {key}}
<1> DEFINE r == Remove(t, key)
           gone == t.retained[key]
<1>1. CASE key \notin DOMAIN t.retained
  BY <1>1 DEF Remove, IsTable
<1>2. CASE key \in DOMAIN t.retained
  <2>1. gone \in RetainedTasks /\ gone.task.sequence \in Nat /\ gone.bytes \in Nat
    BY <1>2 DEF IsTable, IsMap, RetainedTasks, Identities
  <2>2. /\ r.retained = Unretain(t.retained, key)
        /\ r.cancelled = t.cancelled \union {gone.task.sequence}
        /\ r.bytes = SaturatingSub(t.bytes, gone.bytes)
        /\ r.sequence = t.sequence
        /\ r.pending = [t.pending EXCEPT ![key[1]] =
             IF gone.state = "queued" THEN Dequeue(@, gone.task) ELSE @]
        /\ r = [retained |-> r.retained, pending |-> r.pending,
                bytes |-> r.bytes, sequence |-> r.sequence,
                cancelled |-> r.cancelled]
    BY <1>2 DEF Remove, IsTable
  <2>3. IsMap(r.retained, Keys, RetainedTasks)
    BY <2>2 DEF Unretain, IsTable, IsMap
  <2>4. r.pending \in [Classes -> Seq(Identities)]
    <3>1. t.pending[key[1]] \in Seq(Identities)
      BY ClassOfKey DEF IsTable
    <3>2. Dequeue(t.pending[key[1]], gone.task) \in Seq(Identities)
      BY <3>1, DequeueType
    <3> QED
      BY <2>2, <3>1, <3>2 DEF IsTable
  <2>5. r.bytes \in Nat /\ r.bytes <= t.bytes
    BY <2>1, <2>2, SaturatingSubType DEF IsTable
  <2>6. r.sequence \in Nat /\ r.cancelled \in SUBSET Nat
    BY <2>1, <2>2 DEF IsTable
  <2>7. IsTable(r)
    BY <2>2, <2>3, <2>4, <2>5, <2>6 DEF IsTable
  <2>8. {t.retained[k].task.sequence : k \in (DOMAIN t.retained) \cap {key}}
          = {gone.task.sequence}
    BY <1>2
  <2> QED
    BY <2>2, <2>5, <2>7, <2>8 DEF Unretain
<1> QED
  BY <1>1, <1>2

-----------------------------------------------------------------------------
(* A sound table: every task is retained under its own key, sequence       *)
(* numbers are unique and were issued, no flag of a retained task is       *)
(* raised but that of a projection in flight, and both limits hold.        *)
Sound(t) ==
  /\ IsTable(t)
  /\ \A k \in DOMAIN t.retained :
       /\ KeyOf(t.retained[k].task) = k
       /\ t.retained[k].task.sequence \in 1 .. t.sequence
       /\ t.retained[k].state = "queued" \/ k[1] # "rich" =>
            t.retained[k].task.sequence \notin t.cancelled
  /\ \A k1, k2 \in DOMAIN t.retained :
       t.retained[k1].task.sequence = t.retained[k2].task.sequence => k1 = k2
  /\ t.cancelled \subseteq 1 .. t.sequence
  /\ IsFiniteSet(DOMAIN t.retained)
  /\ Cardinality(DOMAIN t.retained) <= MaxRetainedJobs
  /\ t.bytes <= MaxRetainedBytes

LEMMA EmptyTableSound == Sound(EmptyTable)
<1>1. DOMAIN EmptyTable.retained = {} /\ EmptyTable.cancelled = {}
      /\ EmptyTable.bytes = 0
  BY DEF EmptyTable
<1>2. IsFiniteSet({}) /\ Cardinality({}) = 0
  BY FS_EmptySet
<1> QED
  BY <1>1, <1>2, EmptyTableType, LimitsAssumption DEF Sound

(* Removal keeps a table sound: the flag it raises is of a task that is    *)
(* not retained any more.                                                  *)
LEMMA RemoveSound ==
  ASSUME NEW t, Sound(t), NEW key \in Keys
  PROVE  Sound(Remove(t, key))
<1> DEFINE r == Remove(t, key)
           raised == {t.retained[k].task.sequence :
                        k \in (DOMAIN t.retained) \cap {key}}
<1>1. /\ IsTable(r)
      /\ DOMAIN r.retained = (DOMAIN t.retained) \ {key}
      /\ \A k \in DOMAIN r.retained : r.retained[k] = t.retained[k]
      /\ r.sequence = t.sequence
      /\ r.bytes <= t.bytes
      /\ r.cancelled = t.cancelled \union raised
  BY RemoveProperties DEF Sound
<1> HIDE DEF r
<1>2. raised \subseteq 1 .. t.sequence
  BY DEF Sound
<1>3. \A k \in DOMAIN r.retained :
        r.retained[k].state = "queued" \/ k[1] # "rich" =>
          r.retained[k].task.sequence \notin r.cancelled
  BY <1>1 DEF Sound
<1>4. /\ IsFiniteSet(DOMAIN r.retained)
      /\ Cardinality(DOMAIN r.retained) <= MaxRetainedJobs
  <2>1. IsFiniteSet(DOMAIN t.retained) /\ DOMAIN r.retained \subseteq DOMAIN t.retained
    BY <1>1 DEF Sound
  <2>2. /\ IsFiniteSet(DOMAIN r.retained)
        /\ Cardinality(DOMAIN r.retained) <= Cardinality(DOMAIN t.retained)
    BY <2>1, FS_Subset
  <2>3. /\ Cardinality(DOMAIN r.retained) \in Nat
        /\ Cardinality(DOMAIN t.retained) \in Nat
    BY <2>1, <2>2, FS_CardinalityType
  <2> QED
    BY <2>2, <2>3, LimitsAssumption DEF Sound
<1>5. r.bytes <= MaxRetainedBytes
  BY <1>1, LimitsAssumption DEF Sound, IsTable
<1> QED
  BY <1>1, <1>2, <1>3, <1>4, <1>5 DEF Sound, r

(* What cancelling a document's work leaves: the other documents' tasks,   *)
(* untouched, with exactly the dropped tasks' flags raised.                *)
Cancels(t, r, K) ==
  /\ DOMAIN r.retained = (DOMAIN t.retained) \ K
  /\ \A k \in DOMAIN r.retained : r.retained[k] = t.retained[k]
  /\ r.sequence = t.sequence
  /\ r.cancelled = t.cancelled \union
       {t.retained[k].task.sequence : k \in (DOMAIN t.retained) \cap K}

LEMMA RemoveCancels ==
  ASSUME NEW t, IsTable(t), NEW key \in Keys
  PROVE  Cancels(t, Remove(t, key), {key})
BY RemoveProperties DEF Cancels

LEMMA CancelsTwice ==
  ASSUME NEW t, NEW r, NEW s, NEW J, NEW K, Cancels(t, r, J), Cancels(r, s, K)
  PROVE  Cancels(t, s, J \union K)
<1>1. DOMAIN s.retained = (DOMAIN t.retained) \ (J \union K)
  BY DEF Cancels
<1>2. \A k \in DOMAIN s.retained : s.retained[k] = t.retained[k]
  BY DEF Cancels
<1>3. s.cancelled = t.cancelled \union
        {t.retained[k].task.sequence : k \in (DOMAIN t.retained) \cap (J \union K)}
  <2>1. {r.retained[k].task.sequence : k \in (DOMAIN r.retained) \cap K}
          = {t.retained[k].task.sequence : k \in ((DOMAIN t.retained) \ J) \cap K}
    BY DEF Cancels
  <2>2. {t.retained[k].task.sequence : k \in (DOMAIN t.retained) \cap J} \union
        {t.retained[k].task.sequence : k \in ((DOMAIN t.retained) \ J) \cap K}
          = {t.retained[k].task.sequence :
               k \in (DOMAIN t.retained) \cap (J \union K)}
    OBVIOUS
  <2> QED
    BY <2>1, <2>2 DEF Cancels
<1> QED
  BY <1>1, <1>2, <1>3 DEF Cancels

LEMMA CancelUriProperties ==
  ASSUME NEW t, Sound(t), NEW uri \in Uris
  PROVE  LET r == CancelUri(t, uri)
         IN  Sound(r) /\ Cancels(t, r, {k \in Keys : k[2] = uri})
<1> DEFINE kf == <<"foreground", uri>>
           ks == <<"semantic", uri>>
           kr == <<"rich", uri>>
           t1 == Remove(t, kf)
           t2 == Remove(t1, ks)
           t3 == Remove(t2, kr)
<1>1. kf \in Keys /\ ks \in Keys /\ kr \in Keys
  BY DEF Keys, Classes
<1>2. {kf} \union {ks} \union {kr} = {k \in Keys : k[2] = uri}
  BY DEF Keys, Classes
<1> HIDE DEF kf, ks, kr
<1>3. Sound(t1) /\ Cancels(t, t1, {kf})
  BY <1>1, RemoveSound, RemoveCancels DEF Sound
<1> HIDE DEF t1
<1>4. Sound(t2) /\ Cancels(t1, t2, {ks})
  BY <1>1, <1>3, RemoveSound, RemoveCancels DEF Sound
<1> HIDE DEF t2
<1>5. Sound(t3) /\ Cancels(t2, t3, {kr})
  BY <1>1, <1>4, RemoveSound, RemoveCancels DEF Sound
<1> HIDE DEF t3
<1>6. Cancels(t, t2, {kf} \union {ks})
  BY <1>3, <1>4, CancelsTwice
<1>7. Cancels(t, t3, {kf} \union {ks} \union {kr})
  BY <1>5, <1>6, CancelsTwice
<1>8. CancelUri(t, uri) = t3
  BY DEF CancelUri, t1, t2, t3, kf, ks, kr
<1> QED
  BY <1>2, <1>5, <1>7, <1>8

-----------------------------------------------------------------------------
(* Retaining a task that fits, under a key that is free. *)
LEMMA RetainSound ==
  ASSUME NEW t, Sound(t), NEW id \in Identities, NEW bytes \in Nat,
         KeyOf(id) \notin DOMAIN t.retained, id.sequence = t.sequence + 1,
         ~ Overloaded(t, bytes)
  PROVE  LET r == Retain(t, id, bytes)
         IN  /\ Sound(r)
             /\ DOMAIN r.retained = (DOMAIN t.retained) \union {KeyOf(id)}
             /\ \A k \in DOMAIN t.retained : r.retained[k] = t.retained[k]
             /\ r.retained[KeyOf(id)] =
                  [task |-> id, state |-> "queued", bytes |-> bytes]
             /\ r.sequence = t.sequence + 1
             /\ r.cancelled = t.cancelled
<1> DEFINE r == Retain(t, id, bytes)
           new == [task |-> id, state |-> "queued", bytes |-> bytes]
<1>1. KeyOf(id) \in Keys /\ new \in RetainedTasks /\ id.class \in Classes
  BY KeyOfType DEF RetainedTasks, Identities
<1> DEFINE retained == [k \in (DOMAIN t.retained) \union {KeyOf(id)} |->
                          IF k = KeyOf(id) THEN new ELSE t.retained[k]]
           pending == [t.pending EXCEPT ![id.class] = Append(@, id)]
<1>2. /\ r.retained = retained /\ r.pending = pending
      /\ r.bytes = t.bytes + bytes
      /\ r.sequence = id.sequence
      /\ r.cancelled = t.cancelled
      /\ r = [retained |-> r.retained, pending |-> r.pending,
              bytes |-> r.bytes, sequence |-> r.sequence,
              cancelled |-> r.cancelled]
  <2>1. t = [retained |-> t.retained, pending |-> t.pending, bytes |-> t.bytes,
             sequence |-> t.sequence, cancelled |-> t.cancelled]
    BY DEF Sound, IsTable
  <2>2. r = [t EXCEPT !.sequence = id.sequence, !.bytes = @ + bytes,
                      !.retained = retained, !.pending = pending]
    BY <2>1 DEF Retain
  <2> HIDE DEF r, retained, pending
  <2>3. r = [retained |-> retained, pending |-> pending,
             bytes |-> t.bytes + bytes, sequence |-> id.sequence,
             cancelled |-> t.cancelled]
    BY <2>1, <2>2
  <2> QED
    BY <2>3
<1> HIDE DEF r
<1>3. r.pending \in [Classes -> Seq(Identities)]
  <2>1. Append(t.pending[id.class], id) \in Seq(Identities)
    BY <1>1, AppendProperties DEF Sound, IsTable
  <2> QED
    BY <1>2, <2>1 DEF Sound, IsTable
<1>4. IsMap(r.retained, Keys, RetainedTasks)
  BY <1>1, <1>2 DEF Sound, IsTable, IsMap
<1>5. IsTable(r)
  BY <1>2, <1>3, <1>4 DEF Sound, IsTable
<1>6. /\ IsFiniteSet(DOMAIN r.retained)
      /\ Cardinality(DOMAIN r.retained) <= MaxRetainedJobs
  <2>1. IsFiniteSet(DOMAIN t.retained) /\ Cardinality(DOMAIN t.retained) \in Nat
    BY FS_CardinalityType DEF Sound
  <2>2. /\ IsFiniteSet((DOMAIN t.retained) \union {KeyOf(id)})
        /\ Cardinality((DOMAIN t.retained) \union {KeyOf(id)}) =
             Cardinality(DOMAIN t.retained) + 1
    BY <2>1, FS_AddElement
  <2>3. Cardinality(DOMAIN t.retained) < MaxRetainedJobs
    BY <2>1, LimitsAssumption DEF Overloaded
  <2> QED
    BY <1>2, <2>1, <2>2, <2>3, LimitsAssumption
<1>7. r.bytes <= MaxRetainedBytes
  BY <1>2, LimitsAssumption DEF Overloaded, SaturatingSub, Sound, IsTable
<1>8. /\ \A k \in DOMAIN r.retained :
           /\ KeyOf(r.retained[k].task) = k
           /\ r.retained[k].task.sequence \in 1 .. r.sequence
           /\ r.retained[k].state = "queued" \/ k[1] # "rich" =>
                r.retained[k].task.sequence \notin r.cancelled
      /\ r.cancelled \subseteq 1 .. r.sequence
  BY <1>2 DEF Sound, IsTable
<1>9. \A k1, k2 \in DOMAIN r.retained :
        r.retained[k1].task.sequence = r.retained[k2].task.sequence => k1 = k2
  BY <1>2 DEF Sound, IsTable
<1> QED
  BY <1>2, <1>5, <1>6, <1>7, <1>8, <1>9 DEF Sound, r

(* Admission first drops the older task of the key.  If the new one fits,  *)
(* it is retained, queued, under the next sequence number.                 *)
LEMMA AdmitProperties ==
  ASSUME NEW t, Sound(t), NEW class \in Classes, NEW uri \in Uris,
         NEW revision \in Nat, NEW bytes \in Nat
  PROVE  LET key == <<class, uri>>
             free == Remove(t, key)
             a == Admit(t, class, uri, revision, bytes)
             id == [uri |-> uri, class |-> class, revision |-> revision,
                    sequence |-> t.sequence + 1]
         IN  /\ Sound(a)
             /\ Sound(free)
             /\ Cancels(t, free, {key})
             /\ ~ Admits(t, class, uri, bytes) => a = free
             /\ Admits(t, class, uri, bytes) =>
                  /\ DOMAIN a.retained = (DOMAIN free.retained) \union {key}
                  /\ \A k \in DOMAIN free.retained : a.retained[k] = free.retained[k]
                  /\ a.retained[key] = [task |-> id, state |-> "queued",
                                        bytes |-> bytes]
                  /\ a.sequence = t.sequence + 1
                  /\ a.cancelled = free.cancelled
<1> DEFINE key == <<class, uri>>
           free == Remove(t, key)
           id == [uri |-> uri, class |-> class, revision |-> revision,
                  sequence |-> t.sequence + 1]
<1>1. key \in Keys /\ KeyOf(id) = key /\ id.sequence = t.sequence + 1
  BY DEF Keys, KeyOf
<1>2. id \in Identities
  BY DEF Identities, Sound, IsTable
<1>3. Sound(free) /\ Cancels(t, free, {key})
  BY <1>1, RemoveSound, RemoveCancels DEF Sound
<1>4. key \notin DOMAIN free.retained /\ free.sequence = t.sequence
  BY <1>3 DEF Cancels
<1>5. Admit(t, class, uri, revision, bytes) =
        IF Overloaded(free, bytes) THEN free ELSE Retain(free, id, bytes)
  BY DEF Admit
<1>6. Admits(t, class, uri, bytes) <=> ~ Overloaded(free, bytes)
  BY DEF Admits
<1> HIDE DEF key, free, id
<1>7. CASE Overloaded(free, bytes)
  BY <1>3, <1>5, <1>6, <1>7 DEF key, free
<1>8. CASE ~ Overloaded(free, bytes)
  <2> DEFINE a == Retain(free, id, bytes)
  <2>1. /\ Sound(a)
        /\ DOMAIN a.retained = (DOMAIN free.retained) \union {key}
        /\ \A k \in DOMAIN free.retained : a.retained[k] = free.retained[k]
        /\ a.retained[key] = [task |-> id, state |-> "queued", bytes |-> bytes]
        /\ a.sequence = t.sequence + 1
        /\ a.cancelled = free.cancelled
    BY <1>1, <1>2, <1>3, <1>4, <1>8, RetainSound
  <2> HIDE DEF a
  <2>2. Admit(t, class, uri, revision, bytes) = a
    BY <1>5, <1>8 DEF a
  <2> QED
    BY <1>3, <1>6, <1>8, <2>1, <2>2 DEF key, free, id
<1> QED
  BY <1>7, <1>8

(* Taking a task only marks it: it was retained, and everything but its    *)
(* state and the queues stays.                                             *)
LEMMA TakeAtProperties ==
  ASSUME NEW t, Sound(t), NEW p \in NextPositions(t)
  PROVE  LET r == TakeAt(t, p)
             id == TaskAt(t, p)
         IN  /\ Sound(r)
             /\ id \in Identities
             /\ IsCurrent(t, id)
             /\ DOMAIN r.retained = DOMAIN t.retained
             /\ \A k \in DOMAIN t.retained :
                  /\ r.retained[k].task = t.retained[k].task
                  /\ r.retained[k].bytes = t.retained[k].bytes
                  /\ r.retained[k].state = t.retained[k].state \/ k = KeyOf(id)
             /\ r.retained[KeyOf(id)].state = "inFlight"
             /\ id.sequence \notin t.cancelled
             /\ r.sequence = t.sequence
             /\ r.cancelled = t.cancelled
<1> DEFINE r == TakeAt(t, p)
           id == TaskAt(t, p)
           skip(c) == IF Rank[c] < Rank[p[1]] THEN << >>
                      ELSE IF c = p[1]
                      THEN SubSeq(t.pending[c], p[2] + 1, Len(t.pending[c]))
                      ELSE t.pending[c]
<1>1. p \in QueuePositions(t) /\ Runnable(t, id)
  BY DEF NextPositions, TaskAt
<1>2. p[1] \in Classes /\ p[2] \in 1 .. Len(t.pending[p[1]])
  BY <1>1 DEF QueuePositions
<1>3. /\ KeyOf(id) \in DOMAIN t.retained
      /\ t.retained[KeyOf(id)].task = id
      /\ id \in Identities /\ id.sequence \notin t.cancelled
  BY <1>1 DEF Runnable, Sound, IsTable, IsMap, RetainedTasks
<1> DEFINE retained == [t.retained EXCEPT ![KeyOf(id)].state = "inFlight"]
           pending == [c \in Classes |-> skip(c)]
<1>4. /\ r.retained = retained /\ r.pending = pending
      /\ r.bytes = t.bytes /\ r.sequence = t.sequence
      /\ r.cancelled = t.cancelled
      /\ r = [retained |-> r.retained, pending |-> r.pending,
              bytes |-> r.bytes, sequence |-> r.sequence,
              cancelled |-> r.cancelled]
  <2>1. t = [retained |-> t.retained, pending |-> t.pending, bytes |-> t.bytes,
             sequence |-> t.sequence, cancelled |-> t.cancelled]
    BY DEF Sound, IsTable
  <2>2. r = [t EXCEPT !.pending = pending, !.retained = retained]
    BY <2>1 DEF TakeAt
  <2> HIDE DEF r, retained, pending
  <2>3. r = [retained |-> retained, pending |-> pending, bytes |-> t.bytes,
             sequence |-> t.sequence, cancelled |-> t.cancelled]
    BY <2>1, <2>2
  <2> QED
    BY <2>3
<1>5. \A c \in Classes : skip(c) \in Seq(Identities)
  <2> SUFFICES ASSUME NEW c \in Classes PROVE skip(c) \in Seq(Identities)
    OBVIOUS
  <2>1. t.pending[c] \in Seq(Identities)
    BY DEF Sound, IsTable
  <2>2. << >> \in Seq(Identities)
    BY EmptySeq
  <2>3. c = p[1] =>
          SubSeq(t.pending[c], p[2] + 1, Len(t.pending[c])) \in Seq(Identities)
    <3> SUFFICES ASSUME c = p[1]
                 PROVE  SubSeq(t.pending[c], p[2] + 1, Len(t.pending[c]))
                          \in Seq(Identities)
      OBVIOUS
    <3>1. Len(t.pending[c]) \in Nat /\ p[2] \in 1 .. Len(t.pending[c])
      BY <1>2, <2>1, LenProperties
    <3>2. \A i \in (p[2] + 1) .. Len(t.pending[c]) : t.pending[c][i] \in Identities
      BY <2>1, <3>1, ElementOfSeq
    <3> QED
      BY <3>1, <3>2, SubSeqProperties
  <2> QED
    BY <2>1, <2>2, <2>3
<1> HIDE DEF r, id, skip
<1>6. DOMAIN r.retained = DOMAIN t.retained
  BY <1>4
<1>7. \A k \in DOMAIN t.retained :
        /\ r.retained[k].task = t.retained[k].task
        /\ r.retained[k].bytes = t.retained[k].bytes
        /\ r.retained[k].state = IF k = KeyOf(id) THEN "inFlight"
                                 ELSE t.retained[k].state
        /\ r.retained[k] \in RetainedTasks
  <2> SUFFICES ASSUME NEW k \in DOMAIN t.retained
               PROVE  /\ r.retained[k].task = t.retained[k].task
                      /\ r.retained[k].bytes = t.retained[k].bytes
                      /\ r.retained[k].state = IF k = KeyOf(id) THEN "inFlight"
                                               ELSE t.retained[k].state
                      /\ r.retained[k] \in RetainedTasks
    OBVIOUS
  <2>1. t.retained[k] \in RetainedTasks
    BY DEF Sound, IsTable, IsMap
  <2>2. r.retained[k] = IF k = KeyOf(id)
                        THEN [t.retained[k] EXCEPT !.state = "inFlight"]
                        ELSE t.retained[k]
    BY <1>4
  <2> QED
    BY <2>1, <2>2 DEF RetainedTasks
<1>8. IsTable(r)
  <2>1. r.retained = [k \in DOMAIN r.retained |-> r.retained[k]]
    BY <1>4
  <2>2. IsMap(r.retained, Keys, RetainedTasks)
    BY <1>6, <1>7, <2>1 DEF Sound, IsTable, IsMap
  <2>3. r.pending \in [Classes -> Seq(Identities)]
    BY <1>4, <1>5
  <2> QED
    BY <1>4, <2>2, <2>3 DEF Sound, IsTable
<1>9. \A k \in DOMAIN r.retained :
        r.retained[k].state = "queued" \/ k[1] # "rich" =>
          r.retained[k].task.sequence \notin r.cancelled
  BY <1>3, <1>4, <1>6, <1>7 DEF Sound
<1>10. Sound(r)
  BY <1>4, <1>6, <1>7, <1>8, <1>9 DEF Sound
<1> QED
  BY <1>3, <1>4, <1>6, <1>7, <1>10 DEF IsCurrent, r, id

(* Raising flags changes the set of raised flags only. *)
LEMMA RaiseFields ==
  ASSUME NEW t, IsTable(t), NEW S \in SUBSET Nat
  PROVE  LET r == [t EXCEPT !.cancelled = @ \union S]
         IN  /\ r.retained = t.retained /\ r.pending = t.pending
             /\ r.bytes = t.bytes /\ r.sequence = t.sequence
             /\ r.cancelled = t.cancelled \union S
             /\ r = [retained |-> r.retained, pending |-> r.pending,
                     bytes |-> r.bytes, sequence |-> r.sequence,
                     cancelled |-> r.cancelled]
<1> DEFINE r == [t EXCEPT !.cancelled = @ \union S]
<1>1. t = [retained |-> t.retained, pending |-> t.pending, bytes |-> t.bytes,
           sequence |-> t.sequence, cancelled |-> t.cancelled]
  BY DEF IsTable
<1>2. /\ r.retained = t.retained /\ r.pending = t.pending
      /\ r.bytes = t.bytes /\ r.sequence = t.sequence
      /\ r.cancelled = t.cancelled \union S
      /\ r = [retained |-> r.retained, pending |-> r.pending, bytes |-> r.bytes,
              sequence |-> r.sequence, cancelled |-> r.cancelled]
  BY <1>1
<1> QED
  BY <1>2

(* Raising the flag of a projection that nobody waits for leaves a table   *)
(* sound, as long as the projection is not queued.                         *)
LEMMA RaiseSound ==
  ASSUME NEW t, Sound(t), NEW n \in 1 .. t.sequence,
         \A k \in DOMAIN t.retained :
           t.retained[k].task.sequence = n =>
             k[1] = "rich" /\ t.retained[k].state = "inFlight"
  PROVE  LET r == [t EXCEPT !.cancelled = @ \union {n}]
         IN  /\ Sound(r)
             /\ r.retained = t.retained /\ r.pending = t.pending
             /\ r.bytes = t.bytes /\ r.sequence = t.sequence
             /\ r.cancelled = t.cancelled \union {n}
<1> DEFINE r == [t EXCEPT !.cancelled = @ \union {n}]
<1>1. /\ r.retained = t.retained /\ r.pending = t.pending
      /\ r.bytes = t.bytes /\ r.sequence = t.sequence
      /\ r.cancelled = t.cancelled \union {n}
      /\ r = [retained |-> r.retained, pending |-> r.pending, bytes |-> r.bytes,
              sequence |-> r.sequence, cancelled |-> r.cancelled]
  <2>1. {n} \in SUBSET Nat
    BY DEF Sound, IsTable
  <2>2. IsTable(t)
    BY DEF Sound
  <2> QED
    BY <2>1, <2>2, RaiseFields, Zenon
<1> HIDE DEF r
<1>2. r.cancelled \subseteq 1 .. r.sequence
  BY <1>1 DEF Sound
<1>3. IsTable(r)
  <2>1. r.cancelled \in SUBSET Nat
    BY <1>1 DEF Sound, IsTable
  <2> QED
    BY <1>1, <2>1 DEF Sound, IsTable
<1>4. \A k \in DOMAIN r.retained :
        r.retained[k].state = "queued" \/ k[1] # "rich" =>
          r.retained[k].task.sequence \notin r.cancelled
  BY <1>1 DEF Sound
<1>5. Sound(r)
  BY <1>1, <1>2, <1>3, <1>4 DEF Sound
<1> QED
  BY <1>1, <1>5 DEF r

(* Completion removes exactly the current identity. *)
LEMMA CompleteProperties ==
  ASSUME NEW t, Sound(t), NEW id \in Identities
  PROVE  LET r == Complete(t, id)
         IN  /\ Sound(r)
             /\ IsCurrent(t, id) => Cancels(t, r, {KeyOf(id)})
             /\ ~ IsCurrent(t, id) => r = t
BY KeyOfType, RemoveSound, RemoveCancels DEF Complete, Sound

-----------------------------------------------------------------------------
(* The sum of the sizes of the tasks of S.  A fold is a recursive function *)
(* on subsets of S; the induction theorems of the library quantify over    *)
(* predicates, so the inductions below are over sets: a counterexample     *)
(* would have a least one.                                                 *)
(* The natural numbers are the least set with 0 and successors: induction  *)
(* over a set, which a proof can cite without naming a predicate.          *)
LEMMA NaturalsAreLeast ==
  ASSUME NEW T, 0 \in T, \A n \in Nat : n \in T => n + 1 \in T
  PROVE  Nat \subseteq T
<1> SUFFICES ASSUME Nat \ T # {} PROVE FALSE
  OBVIOUS
<1>1. PICK x \in Nat \ T : \A y \in Nat \ T : ~ (<<y, x>> \in OpToRel(<, Nat))
  <2> DEFINE R == OpToRel(<, Nat)
             U == Nat \ T
  <2>1. IsWellFoundedOn(R, Nat)
    BY NatLessThanWellFounded
  <2>2. U \subseteq Nat /\ U # {}
    OBVIOUS
  <2> HIDE DEF R, U
  <2>3. \E x \in U : \A y \in U : ~ (<<y, x>> \in R)
    BY <2>1, <2>2, WFMin
  <2> QED BY <2>3 DEF R, U
<1>2. \A y \in Nat \ T : ~ (y < x)
  BY <1>1, Zenon DEF OpToRel
<1>3. x # 0 /\ x - 1 \in Nat /\ x - 1 < x
  OBVIOUS
<1> QED
  BY <1>2, <1>3

(* A set of subsets of a finite set has one that contains no other.        *)
LEMMA LeastSubset ==
  ASSUME NEW S, IsFiniteSet(S), NEW T \in SUBSET (SUBSET S), T # {}
  PROVE  \E s \in T : \A u \in T : u \subseteq s => u = s
<1> DEFINE R == StrictSubsetOrdering(S)
<1>1. IsWellFoundedOn(R, SUBSET S)
  BY FS_StrictSubsetOrderingWellFounded, FS_FiniteSubsetsOfFinite
<1> HIDE DEF R
<1>2. \E s \in T : \A u \in T : ~ (<<u, s>> \in R)
  BY <1>1, WFMin
<1> QED
  BY <1>2 DEF R, StrictSubsetOrdering

Total(r, S) == FoldSet(LAMBDA k, sum : r[k].bytes + sum, 0, S)

(* h is the function a fold over a set computes, on the sets of D.         *)
Picked(s) == CHOOSE k \in s : TRUE
Sums(h, r, D) ==
  h = [s \in D |-> IF s = {} THEN 0 ELSE r[Picked(s)].bytes + h[s \ {Picked(s)}]]

LEMMA PickedIn == \A s : s # {} => Picked(s) \in s
BY DEF Picked

LEMMA TotalIs ==
  ASSUME NEW r, NEW S
  PROVE  Total(r, S) = (CHOOSE h : Sums(h, r, SUBSET S))[S]
BY DEF Total, FoldSet, MapThenFoldSet, Sums, Picked

LEMMA SumsExist ==
  ASSUME NEW r, NEW S, IsFiniteSet(S)
  PROVE  \E h : Sums(h, r, SUBSET S)
<1> DEFINE Level(n) == {s \in SUBSET S : Cardinality(s) <= n}
           T == {n \in Nat : \E h : Sums(h, r, Level(n))}
<1>1. \A s \in SUBSET S : /\ IsFiniteSet(s) /\ Cardinality(s) \in Nat
                          /\ Cardinality(s) <= Cardinality(S)
                          /\ s # {} => Cardinality(s \ {Picked(s)}) = Cardinality(s) - 1
  BY FS_Subset, FS_CardinalityType, FS_RemoveElement, PickedIn
<1>2. 0 \in T
  <2> DEFINE h == [s \in Level(0) |-> 0]
  <2>1. ASSUME NEW s \in Level(0) PROVE s = {}
    <3>1. IsFiniteSet(s) /\ Cardinality(s) = 0
      <4>1. s \in SUBSET S /\ Cardinality(s) <= 0
        BY <2>1
      <4>2. IsFiniteSet(s) /\ Cardinality(s) \in Nat
        BY <1>1, <4>1
      <4> QED
        BY <4>1, <4>2
    <3> QED
      BY <3>1, FS_EmptySet
  <2>2. Sums(h, r, Level(0))
    BY <2>1 DEF Sums
  <2> QED
    BY <2>2
<1>3. ASSUME NEW n \in Nat, n \in T PROVE n + 1 \in T
  <2> PICK h : Sums(h, r, Level(n))
    BY <1>3
  <2> DEFINE sum(f, s) == IF s = {} THEN 0 ELSE r[Picked(s)].bytes + f[s \ {Picked(s)}]
             g == [s \in Level(n + 1) |-> sum(h, s)]
  <2>1. \A s \in Level(n) : g[s] = h[s]
    <3>1. \A s \in Level(n) : h[s] = sum(h, s)
      BY DEF Sums
    <3>2. ASSUME NEW s \in Level(n) PROVE s \in Level(n + 1)
      <4>1. Cardinality(s) \in Nat /\ Cardinality(s) <= n
        BY <1>1
      <4> QED
        BY <4>1
    <3> QED
      BY <3>1, <3>2
  <2>2. \A s \in Level(n + 1) : s # {} => s \ {Picked(s)} \in Level(n)
    BY <1>1
  <2>3. \A s \in Level(n + 1) : sum(g, s) = sum(h, s)
    <3> HIDE DEF g, Level
    <3> QED
      BY <2>1, <2>2
  <2>4. g = [s \in Level(n + 1) |-> sum(g, s)]
    <3> HIDE DEF Level, sum
    <3>1. DOMAIN g = Level(n + 1)
      OBVIOUS
    <3> DEFINE gg == [s \in Level(n + 1) |-> sum(g, s)]
    <3>2. \A s \in Level(n + 1) : g[s] = gg[s]
      BY <2>3
    <3>3. DOMAIN gg = Level(n + 1)
      OBVIOUS
    <3>4. g = [s \in DOMAIN g |-> g[s]] /\ gg = [s \in DOMAIN gg |-> gg[s]]
      OBVIOUS
    <3> HIDE DEF g, gg
    <3>5. g = gg
      BY <3>1, <3>2, <3>3, <3>4
    <3> QED
      BY <3>5 DEF gg
  <2>5. Sums(g, r, Level(n + 1))
    <3> HIDE DEF g, Level
    <3> QED
      BY <2>4 DEF Sums
  <2> HIDE DEF g, Level
  <2> QED
    BY <2>5
<1>4. Cardinality(S) \in T
  <2> HIDE DEF T
  <2>1. Cardinality(S) \in Nat
    BY FS_CardinalityType
  <2> QED
    BY <1>2, <1>3, <2>1, NaturalsAreLeast
<1>5. Level(Cardinality(S)) = SUBSET S
  BY <1>1
<1> HIDE DEF Level
<1> QED
  BY <1>4, <1>5

(* Every task of S has a size; two maps give the tasks of S the same sizes. *)
Weighted(r, S) == \A k \in S : r[k].bytes \in Nat
SameWeights(r, q, S) == \A k \in S : r[k].bytes = q[k].bytes

LEMMA TotalHasSums ==
  ASSUME NEW r, NEW S, IsFiniteSet(S)
  PROVE  \E h : Sums(h, r, SUBSET S) /\ h[S] = Total(r, S)
<1> DEFINE h == CHOOSE g : Sums(g, r, SUBSET S)
<1>1. Sums(h, r, SUBSET S)
  BY SumsExist
<1>2. h[S] = Total(r, S)
  BY TotalIs
<1> QED
  BY <1>1, <1>2

(* It does not matter which element is taken first.                        *)
Commutes(h, r, S) ==
  \A s \in SUBSET S : /\ h[s] \in Nat
                      /\ \A k \in s : h[s] = r[k].bytes + h[s \ {k}]

LEMMA SumsCommute ==
  ASSUME NEW r, NEW S, NEW h, IsFiniteSet(S), Weighted(r, S),
         Sums(h, r, SUBSET S)
  PROVE  Commutes(h, r, S)
<1> DEFINE Good(s) == /\ h[s] \in Nat
                      /\ \A k \in s : h[s] = r[k].bytes + h[s \ {k}]
           T == {s \in SUBSET S : ~ Good(s)}
<1>1. \A s \in SUBSET S :
        h[s] = IF s = {} THEN 0 ELSE r[Picked(s)].bytes + h[s \ {Picked(s)}]
  BY DEF Sums
<1> SUFFICES ASSUME T # {} PROVE FALSE
  BY DEF Commutes
<1>2. PICK s \in T : \A u \in T : u \subseteq s => u = s
  <2>1. T \in SUBSET (SUBSET S)
    OBVIOUS
  <2> HIDE DEF T
  <2> QED
    BY <2>1, LeastSubset
<1>3. \A u \in SUBSET s : u # s => Good(u)
  BY <1>2
<1>4. s # {}
  <2>1. s \in SUBSET S /\ ~ Good(s)
    BY <1>2
  <2>2. s = {} => h[s] = 0
    BY <1>1, <2>1
  <2> QED
    BY <2>1, <2>2
<1> DEFINE x == Picked(s)
<1>5. x \in s /\ r[x].bytes \in Nat
  BY <1>4, PickedIn DEF Weighted
<1>6. h[s] = r[x].bytes + h[s \ {x}] /\ Good(s \ {x})
  BY <1>1, <1>3, <1>4, <1>5
<1> HIDE DEF x
<1>7. ASSUME NEW k \in s PROVE h[s] = r[k].bytes + h[s \ {k}]
  <2>1. CASE k = x
    BY <1>6, <2>1
  <2>2. CASE k # x
    <3>1. (s \ {x}) \ {k} = (s \ {k}) \ {x}
      OBVIOUS
    <3>2. h[s \ {x}] = r[k].bytes + h[(s \ {x}) \ {k}]
      BY <1>6, <1>7, <2>2
    <3>3. s \ {k} \in SUBSET s /\ s \ {k} # s /\ x \in s \ {k}
      BY <1>5, <1>7, <2>2
    <3>4. h[s \ {k}] = r[x].bytes + h[(s \ {k}) \ {x}]
      BY <1>3, <3>3
    <3>5. h[(s \ {x}) \ {k}] \in Nat
      <4>1. (s \ {x}) \ {k} \in SUBSET s /\ (s \ {x}) \ {k} # s
        BY <1>5
      <4> QED
        BY <1>3, <4>1
    <3>6. r[k].bytes \in Nat
      BY <1>7 DEF Weighted
    <3>7. h[s] = r[x].bytes + h[s \ {x}]
      BY <1>6
    <3> DEFINE a == r[x].bytes
               b == r[k].bytes
               c == h[(s \ {k}) \ {x}]
    <3>8. /\ a \in Nat /\ b \in Nat /\ c \in Nat
          /\ h[s] = a + h[s \ {x}] /\ h[s \ {x}] = b + c /\ h[s \ {k}] = a + c
      BY <1>5, <3>1, <3>2, <3>4, <3>5, <3>6, <3>7
    <3> HIDE DEF a, b, c
    <3>9. h[s] = b + h[s \ {k}]
      BY <3>8
    <3> QED
      BY <3>9 DEF b
  <2> QED
    BY <2>1, <2>2
<1>8. h[s] \in Nat
  BY <1>5, <1>6
<1>9. Good(s)
  BY <1>7, <1>8
<1> QED
  BY <1>9

(* Two sums over the same weights agree.                                   *)
LEMMA SumsAgree ==
  ASSUME NEW r, NEW q, NEW R, NEW S \in SUBSET R, NEW h, NEW g, IsFiniteSet(R),
         SameWeights(r, q, S),
         Sums(h, r, SUBSET S), Sums(g, q, SUBSET R)
  PROVE  h[S] = g[S]
<1> DEFINE T == {s \in SUBSET S : h[s] # g[s]}
<1>1. \A s \in SUBSET S :
        /\ h[s] = IF s = {} THEN 0 ELSE r[Picked(s)].bytes + h[s \ {Picked(s)}]
        /\ g[s] = IF s = {} THEN 0 ELSE q[Picked(s)].bytes + g[s \ {Picked(s)}]
  BY DEF Sums
<1>2. IsFiniteSet(S)
  BY FS_Subset
<1> SUFFICES ASSUME T # {} PROVE FALSE
  OBVIOUS
<1>3. PICK s \in T : \A u \in T : u \subseteq s => u = s
  <2>1. T \in SUBSET (SUBSET S)
    OBVIOUS
  <2> HIDE DEF T
  <2> QED
    BY <1>2, <2>1, LeastSubset
<1>4. s # {}
  BY <1>1
<1> DEFINE x == Picked(s)
<1>5. x \in s
  BY <1>4, PickedIn
<1>6. h[s \ {x}] = g[s \ {x}]
  <2>1. s \ {x} \in SUBSET S /\ s \ {x} # s /\ s \ {x} \subseteq s
    BY <1>5
  <2> QED
    BY <1>3, <2>1
<1>7. h[s] = g[s]
  BY <1>1, <1>4, <1>5, <1>6 DEF SameWeights
<1> QED
  BY <1>7

LEMMA TotalOfNothing ==
  ASSUME NEW r PROVE Total(r, {}) = 0
<1>1. IsFiniteSet({})
  BY FS_EmptySet
<1>2. PICK h : Sums(h, r, SUBSET {}) /\ h[{}] = Total(r, {})
  BY <1>1, TotalHasSums
<1> QED
  BY <1>2 DEF Sums

LEMMA TotalSame ==
  ASSUME NEW r, NEW q, NEW S, IsFiniteSet(S), SameWeights(r, q, S)
  PROVE  Total(r, S) = Total(q, S)
<1>0. S \in SUBSET S
  OBVIOUS
<1>1. PICK h : Sums(h, r, SUBSET S) /\ h[S] = Total(r, S)
  BY TotalHasSums
<1>2. PICK g : Sums(g, q, SUBSET S) /\ g[S] = Total(q, S)
  BY TotalHasSums
<1> QED
  BY <1>0, <1>1, <1>2, SumsAgree

LEMMA TotalWithout ==
  ASSUME NEW r, NEW S, IsFiniteSet(S), Weighted(r, S), NEW key \in S
  PROVE  /\ Total(r, S) = r[key].bytes + Total(r, S \ {key})
         /\ Total(r, S \ {key}) \in Nat
<1>1. PICK h : Sums(h, r, SUBSET S) /\ h[S] = Total(r, S)
  BY TotalHasSums
<1>2. IsFiniteSet(S \ {key})
  BY FS_Subset
<1>3. PICK g : Sums(g, r, SUBSET (S \ {key})) /\ g[S \ {key}] = Total(r, S \ {key})
  BY <1>2, TotalHasSums
<1>4. g[S \ {key}] = h[S \ {key}]
  <2>1. S \ {key} \in SUBSET S /\ SameWeights(r, r, S \ {key})
    BY DEF SameWeights
  <2> QED
    BY <1>1, <1>3, <2>1, SumsAgree
<1>5. h[S] = r[key].bytes + h[S \ {key}] /\ h[S \ {key}] \in Nat
  <2>1. Commutes(h, r, S)
    BY <1>1, SumsCommute
  <2>2. S \in SUBSET S /\ S \ {key} \in SUBSET S
    OBVIOUS
  <2> QED
    BY <2>1, <2>2 DEF Commutes
<1> QED
  BY <1>1, <1>3, <1>4, <1>5

-----------------------------------------------------------------------------
(* An exact table: its byte total is the sum of what it retains, and the   *)
(* queue of each class lists the queued tasks of that class, oldest first. *)
Accounted(t) == t.bytes = Total(t.retained, DOMAIN t.retained)

Entries(queue) == {queue[i] : i \in 1 .. Len(queue)}
Ascending(queue) ==
  \A i, j \in 1 .. Len(queue) : i < j => queue[i].sequence < queue[j].sequence
QueuedTasks(t, c) ==
  {t.retained[k].task :
     k \in {key \in DOMAIN t.retained : key[1] = c /\ t.retained[key].state = "queued"}}
Listed(t) ==
  \A c \in Classes : /\ Entries(t.pending[c]) = QueuedTasks(t, c)
                     /\ Ascending(t.pending[c])

Exact(t) == Accounted(t) /\ Listed(t)

LEMMA TasksHaveSizes ==
  ASSUME NEW t, Sound(t)
  PROVE  Weighted(t.retained, DOMAIN t.retained) /\ IsFiniteSet(DOMAIN t.retained)
BY DEF Sound, IsTable, IsMap, RetainedTasks, Weighted

LEMMA EmptyTableExact == Exact(EmptyTable)
<1>1. /\ DOMAIN EmptyTable.retained = {} /\ EmptyTable.bytes = 0
      /\ \A c \in Classes : EmptyTable.pending[c] = << >>
  BY DEF EmptyTable
<1>2. Accounted(EmptyTable)
  BY <1>1, TotalOfNothing DEF Accounted
<1>3. Entries(<< >>) = {} /\ Ascending(<< >>)
  BY DEF Entries, Ascending
<1>4. \A c \in Classes : QueuedTasks(EmptyTable, c) = {}
  BY <1>1 DEF QueuedTasks
<1> QED
  BY <1>1, <1>2, <1>3, <1>4 DEF Exact, Listed

LEMMA RemoveAccounted ==
  ASSUME NEW t, Sound(t), Accounted(t), NEW key \in Keys
  PROVE  Accounted(Remove(t, key))
<1> DEFINE r == Remove(t, key)
           gone == t.retained[key]
           rest == Total(t.retained, (DOMAIN t.retained) \ {key})
<1>1. CASE key \notin DOMAIN t.retained
  BY <1>1 DEF Remove
<1>2. CASE key \in DOMAIN t.retained
  <2>1. /\ DOMAIN r.retained = (DOMAIN t.retained) \ {key}
        /\ \A k \in DOMAIN r.retained : r.retained[k] = t.retained[k]
    BY RemoveProperties DEF Sound
  <2>2. r.bytes = SaturatingSub(t.bytes, gone.bytes)
    BY <1>2 DEF Remove, Sound, IsTable
  <2>3. t.bytes = gone.bytes + rest /\ rest \in Nat
    BY <1>2, TasksHaveSizes, TotalWithout DEF Accounted
  <2>4. gone.bytes \in Nat
    BY <1>2, TasksHaveSizes DEF Weighted
  <2>5. rest = Total(r.retained, DOMAIN r.retained)
    <3>1. IsFiniteSet(DOMAIN r.retained)
      BY <2>1, TasksHaveSizes, FS_Subset
    <3>2. SameWeights(t.retained, r.retained, DOMAIN r.retained)
      BY <2>1 DEF SameWeights
    <3> HIDE DEF r
    <3> QED
      BY <2>1, <3>1, <3>2, TotalSame
  <2> HIDE DEF r, gone, rest
  <2>6. r.bytes = rest
    BY <2>2, <2>3, <2>4 DEF SaturatingSub
  <2>7. Accounted(r)
    BY <2>5, <2>6 DEF Accounted
  <2> QED
    BY <2>7 DEF r
<1> QED
  BY <1>1, <1>2

(* Dropping the identity leaves the others, in their order.                *)
LEMMA DequeueKeepsOthers ==
  ASSUME NEW queue \in Seq(Identities), Ascending(queue), NEW id \in Entries(queue)
  PROVE  LET q == Dequeue(queue, id)
         IN  Entries(q) = Entries(queue) \ {id} /\ Ascending(q)
<1> DEFINE n == Len(queue)
           at == CHOOSE i \in 1 .. Len(queue) : queue[i] = id
           q == Dequeue(queue, id)
<1>1. n \in Nat /\ \A i \in 1 .. n : queue[i] \in Identities /\ queue[i].sequence \in Nat
  <2>1. Len(queue) \in Nat /\ \A i \in 1 .. Len(queue) : queue[i] \in Identities
    BY LenProperties, ElementOfSeq
  <2> QED
    BY <2>1 DEF Identities
<1>2. \E i \in 1 .. n : queue[i] = id
  BY DEF Entries
<1>3. at \in 1 .. n /\ queue[at] = id
  BY <1>2
<1>4. q = [j \in 1 .. n - 1 |-> IF j < at THEN queue[j] ELSE queue[j + 1]]
  BY <1>2 DEF Dequeue
<1> HIDE DEF at, q
<1>5. Len(q) = n - 1
  <2>1. DOMAIN q = 1 .. (n - 1) /\ n - 1 \in Nat
    BY <1>1, <1>3, <1>4
  <2>2. q \in Seq(Identities)
    BY DequeueType DEF q
  <2> QED
    BY <2>1, <2>2, LenProperties
<1>6. \A j \in 1 .. n - 1 : q[j] = IF j < at THEN queue[j] ELSE queue[j + 1]
  BY <1>4
<1> HIDE DEF n
<1>7. ASSUME NEW i \in 1 .. n, queue[i] = id PROVE i = at
  <2>1. i < at => FALSE
    BY <1>1, <1>3, <1>7 DEF Ascending, n
  <2>2. at < i => FALSE
    BY <1>1, <1>3, <1>7 DEF Ascending, n
  <2> QED
    BY <1>1, <1>3, <2>1, <2>2
<1>8. Entries(q) = Entries(queue) \ {id}
  <2>1. ASSUME NEW e \in Entries(q) PROVE e \in Entries(queue) \ {id}
    <3>1. PICK j \in 1 .. n - 1 : e = q[j]
      BY <1>5 DEF Entries
    <3>2. CASE j < at
      <4>1. j \in 1 .. n /\ j # at
        BY <1>1, <1>3, <3>2
      <4> QED
        BY <1>6, <1>7, <3>1, <3>2, <4>1 DEF Entries, n
    <3>3. CASE ~ (j < at)
      <4>1. j + 1 \in 1 .. n /\ j + 1 # at
        BY <1>1, <1>3, <3>3
      <4> QED
        BY <1>6, <1>7, <3>1, <3>3, <4>1 DEF Entries, n
    <3> QED
      BY <3>2, <3>3
  <2>2. ASSUME NEW e \in Entries(queue), e # id PROVE e \in Entries(q)
    <3>1. PICK i \in 1 .. n : e = queue[i]
      BY DEF Entries, n
    <3>2. i # at
      BY <1>3, <2>2, <3>1
    <3>3. CASE i < at
      <4>1. i \in 1 .. n - 1 /\ q[i] = e
        BY <1>1, <1>3, <1>6, <3>1, <3>3
      <4> QED
        BY <1>5, <4>1 DEF Entries
    <3>4. CASE at < i
      <4>1. i - 1 \in 1 .. n - 1 /\ ~ (i - 1 < at) /\ (i - 1) + 1 = i
        BY <1>1, <1>3, <3>4
      <4>2. q[i - 1] = e
        BY <1>6, <3>1, <4>1
      <4> QED
        BY <1>5, <4>1, <4>2 DEF Entries
    <3> QED
      BY <1>1, <1>3, <3>2, <3>3, <3>4
  <2> QED
    BY <2>1, <2>2
<1>9. Ascending(q)
  <2> SUFFICES ASSUME NEW i \in 1 .. n - 1, NEW j \in 1 .. n - 1, i < j
               PROVE  q[i].sequence < q[j].sequence
    BY <1>5 DEF Ascending
  <2>1. PICK a \in 1 .. n : q[i] = queue[a] /\ a = IF i < at THEN i ELSE i + 1
    BY <1>1, <1>3, <1>6
  <2>2. PICK b \in 1 .. n : q[j] = queue[b] /\ b = IF j < at THEN j ELSE j + 1
    BY <1>1, <1>3, <1>6
  <2>3. a < b
    BY <1>1, <1>3, <2>1, <2>2
  <2> QED
    BY <2>1, <2>2, <2>3 DEF Ascending, n
<1> QED
  BY <1>8, <1>9 DEF q

LEMMA RemoveListed ==
  ASSUME NEW t, Sound(t), Listed(t), NEW key \in Keys
  PROVE  Listed(Remove(t, key))
<1> DEFINE r == Remove(t, key)
           gone == t.retained[key]
<1>1. CASE key \notin DOMAIN t.retained
  BY <1>1 DEF Remove
<1>2. CASE key \in DOMAIN t.retained
  <2>1. /\ DOMAIN r.retained = (DOMAIN t.retained) \ {key}
        /\ \A k \in DOMAIN r.retained : r.retained[k] = t.retained[k]
    BY RemoveProperties DEF Sound
  <2>2. \A c \in Classes : r.pending[c] =
          IF c = key[1] /\ gone.state = "queued"
          THEN Dequeue(t.pending[c], gone.task) ELSE t.pending[c]
    <3>1. r.pending = [t.pending EXCEPT ![key[1]] =
             IF gone.state = "queued" THEN Dequeue(@, gone.task) ELSE @]
      BY <1>2 DEF Remove, Sound, IsTable
    <3>2. t.pending \in [Classes -> Seq(Identities)]
      BY DEF Sound, IsTable
    <3> QED
      BY <3>1, <3>2
  <2>3. \A k \in DOMAIN t.retained : KeyOf(t.retained[k].task) = k
    BY DEF Sound
  <2> HIDE DEF r, gone
  <2> SUFFICES ASSUME NEW c \in Classes
               PROVE  /\ Entries(r.pending[c]) = QueuedTasks(r, c)
                      /\ Ascending(r.pending[c])
    BY DEF Listed, r
  <2>4. /\ Entries(t.pending[c]) = QueuedTasks(t, c)
        /\ Ascending(t.pending[c]) /\ t.pending[c] \in Seq(Identities)
    BY DEF Listed, Sound, IsTable
  <2>5. CASE c = key[1] /\ gone.state = "queued"
    <3>1. gone.task \in QueuedTasks(t, c)
      BY <1>2, <2>5 DEF QueuedTasks, gone
    <3>2. /\ Entries(r.pending[c]) = Entries(t.pending[c]) \ {gone.task}
          /\ Ascending(r.pending[c])
      BY <2>2, <2>4, <2>5, <3>1, DequeueKeepsOthers
    <3>3. QueuedTasks(r, c) = QueuedTasks(t, c) \ {gone.task}
      <4>1. \A k \in DOMAIN t.retained : t.retained[k].task = gone.task => k = key
        BY <1>2, <2>3 DEF gone
      <4>2. QueuedTasks(r, c) \subseteq QueuedTasks(t, c) \ {gone.task}
        BY <2>1, <4>1 DEF QueuedTasks
      <4>3. QueuedTasks(t, c) \ {gone.task} \subseteq QueuedTasks(r, c)
        BY <2>1 DEF QueuedTasks, gone
      <4> QED
        BY <4>2, <4>3
    <3> QED
      BY <2>4, <3>2, <3>3
  <2>6. CASE ~ (c = key[1] /\ gone.state = "queued")
    <3>1. QueuedTasks(r, c) = QueuedTasks(t, c)
      BY <2>1, <2>6 DEF QueuedTasks, gone
    <3> QED
      BY <2>2, <2>4, <2>6, <3>1
  <2> QED
    BY <2>5, <2>6
<1> QED
  BY <1>1, <1>2

LEMMA RemoveExact ==
  ASSUME NEW t, Sound(t), Exact(t), NEW key \in Keys
  PROVE  Exact(Remove(t, key))
BY RemoveAccounted, RemoveListed DEF Exact

LEMMA CancelUriExact ==
  ASSUME NEW t, Sound(t), Exact(t), NEW uri \in Uris
  PROVE  Exact(CancelUri(t, uri))
<1>1. \A c \in Classes : <<c, uri>> \in Keys
  BY DEF Keys
<1>2. "foreground" \in Classes /\ "semantic" \in Classes /\ "rich" \in Classes
  BY DEF Classes
<1> DEFINE t1 == Remove(t, <<"foreground", uri>>)
           t2 == Remove(t1, <<"semantic", uri>>)
<1>3. Sound(t1) /\ Exact(t1)
  BY <1>1, <1>2, RemoveSound, RemoveExact
<1> HIDE DEF t1
<1>4. Sound(t2) /\ Exact(t2)
  BY <1>1, <1>2, <1>3, RemoveSound, RemoveExact
<1> HIDE DEF t2
<1>5. Exact(Remove(t2, <<"rich", uri>>))
  BY <1>1, <1>2, <1>4, RemoveExact
<1> QED
  BY <1>5 DEF CancelUri, t1, t2

(* A retained task is the newest of its queue.                             *)
LEMMA RetainExact ==
  ASSUME NEW t, Sound(t), Exact(t), NEW id \in Identities, NEW bytes \in Nat,
         KeyOf(id) \notin DOMAIN t.retained, id.sequence = t.sequence + 1,
         ~ Overloaded(t, bytes)
  PROVE  Exact(Retain(t, id, bytes))
<1> DEFINE r == Retain(t, id, bytes)
           key == KeyOf(id)
<1>1. /\ Sound(r)
      /\ DOMAIN r.retained = (DOMAIN t.retained) \union {key}
      /\ \A k \in DOMAIN t.retained : r.retained[k] = t.retained[k]
      /\ r.retained[key] = [task |-> id, state |-> "queued", bytes |-> bytes]
  BY RetainSound
<1>2. /\ r.bytes = t.bytes + bytes
      /\ r.pending = [t.pending EXCEPT ![id.class] = Append(@, id)]
  BY DEF Retain, Sound, IsTable
<1>3. key[1] = id.class /\ id.class \in Classes
  BY DEF KeyOf, Identities
<1> HIDE DEF r
<1>4. Accounted(r)
  <2>1. (DOMAIN r.retained) \ {key} = DOMAIN t.retained /\ key \in DOMAIN r.retained
    BY <1>1
  <2>2. /\ Total(r.retained, DOMAIN r.retained)
             = r.retained[key].bytes + Total(r.retained, DOMAIN t.retained)
        /\ Total(r.retained, DOMAIN t.retained) \in Nat
    <3>1. Weighted(r.retained, DOMAIN r.retained) /\ IsFiniteSet(DOMAIN r.retained)
      BY <1>1, TasksHaveSizes
    <3>2. /\ Total(r.retained, DOMAIN r.retained)
               = r.retained[key].bytes + Total(r.retained, (DOMAIN r.retained) \ {key})
          /\ Total(r.retained, (DOMAIN r.retained) \ {key}) \in Nat
      BY <2>1, <3>1, TotalWithout
    <3> QED
      BY <2>1, <3>2
  <2>3. Total(t.retained, DOMAIN t.retained) = Total(r.retained, DOMAIN t.retained)
    <3>1. SameWeights(t.retained, r.retained, DOMAIN t.retained)
      BY <1>1 DEF SameWeights
    <3> QED
      BY <3>1, TasksHaveSizes, TotalSame
  <2>4. r.retained[key].bytes = bytes
    BY <1>1
  <2> QED
    BY <1>2, <2>2, <2>3, <2>4 DEF Exact, Accounted
<1>5. ASSUME NEW c \in Classes
      PROVE  Entries(r.pending[c]) = QueuedTasks(r, c) /\ Ascending(r.pending[c])
  <2> DEFINE old == t.pending[c]
  <2>1. /\ Entries(old) = QueuedTasks(t, c) /\ Ascending(old)
        /\ old \in Seq(Identities) /\ t.pending \in [Classes -> Seq(Identities)]
    BY DEF Exact, Listed, Sound, IsTable
  <2>2. CASE c # id.class
    <3>1. r.pending[c] = old
      BY <1>2, <2>1, <2>2
    <3>2. QueuedTasks(r, c) = QueuedTasks(t, c)
      BY <1>1, <1>3, <2>2 DEF QueuedTasks
    <3> QED
      BY <2>1, <3>1, <3>2
  <2>3. CASE c = id.class
    <3>1. r.pending[c] = Append(old, id)
      BY <1>2, <1>3, <2>1, <2>3
    <3> HIDE DEF old
    <3>2. /\ Len(old) \in Nat /\ Len(r.pending[c]) = Len(old) + 1
          /\ \A i \in 1 .. Len(old) : r.pending[c][i] = old[i]
          /\ r.pending[c][Len(old) + 1] = id
      BY <2>1, <3>1, AppendProperties, LenProperties
    <3>3. Entries(r.pending[c]) = Entries(old) \union {id}
      BY <3>2 DEF Entries
    <3>4. QueuedTasks(r, c) = QueuedTasks(t, c) \union {id}
      <4>1. QueuedTasks(r, c) \subseteq QueuedTasks(t, c) \union {id}
        BY <1>1 DEF QueuedTasks
      <4>2. QueuedTasks(t, c) \subseteq QueuedTasks(r, c)
        BY <1>1 DEF QueuedTasks
      <4>3. id \in QueuedTasks(r, c)
        <5>1. /\ key \in DOMAIN r.retained /\ r.retained[key].task = id
              /\ r.retained[key].state = "queued" /\ key[1] = c
          BY <1>1, <1>3, <2>3
        <5> QED
          BY <5>1 DEF QueuedTasks
      <4> QED
        BY <4>1, <4>2, <4>3
    <3>5. \A i \in 1 .. Len(old) :
            old[i].sequence \in Nat /\ old[i].sequence < id.sequence
      <4>1. \A e \in Entries(old) : e.sequence \in Nat /\ e.sequence <= t.sequence
        BY <2>1 DEF QueuedTasks, Sound, IsTable
      <4>2. t.sequence \in Nat
        BY DEF Sound, IsTable
      <4> QED
        BY <4>1, <4>2 DEF Entries
    <3>6. Ascending(r.pending[c])
      <4> SUFFICES ASSUME NEW i \in 1 .. Len(old) + 1, NEW j \in 1 .. Len(old) + 1, i < j
                   PROVE  r.pending[c][i].sequence < r.pending[c][j].sequence
        BY <3>2 DEF Ascending
      <4>1. i \in 1 .. Len(old)
        BY <3>2
      <4>2. CASE j = Len(old) + 1
        BY <3>2, <3>5, <4>1, <4>2
      <4>3. CASE j \in 1 .. Len(old)
        BY <2>1, <3>2, <4>1, <4>3 DEF Ascending
      <4> QED
        BY <3>2, <4>2, <4>3
    <3> QED
      BY <2>1, <3>3, <3>4, <3>6 DEF old
  <2> QED
    BY <2>2, <2>3
<1>6. Exact(r)
  BY <1>4, <1>5 DEF Exact, Listed
<1> QED
  BY <1>6 DEF r

LEMMA AdmitExact ==
  ASSUME NEW t, Sound(t), Exact(t), NEW class \in Classes, NEW uri \in Uris,
         NEW revision \in Nat, NEW bytes \in Nat
  PROVE  Exact(Admit(t, class, uri, revision, bytes))
<1> DEFINE key == <<class, uri>>
           free == Remove(t, key)
           id == [uri |-> uri, class |-> class, revision |-> revision,
                  sequence |-> t.sequence + 1]
<1>1. key \in Keys /\ KeyOf(id) = key /\ id.sequence = t.sequence + 1
  BY DEF Keys, KeyOf
<1>2. id \in Identities
  BY DEF Identities, Sound, IsTable
<1>3. Sound(free) /\ Exact(free) /\ Cancels(t, free, {key})
  BY <1>1, RemoveSound, RemoveExact, RemoveCancels DEF Sound
<1>4. key \notin DOMAIN free.retained /\ free.sequence = t.sequence
  BY <1>3 DEF Cancels
<1>5. Admit(t, class, uri, revision, bytes) =
        IF Overloaded(free, bytes) THEN free ELSE Retain(free, id, bytes)
  BY DEF Admit
<1> HIDE DEF key, free, id
<1>6. ~ Overloaded(free, bytes) => Exact(Retain(free, id, bytes))
  BY <1>1, <1>2, <1>3, <1>4, RetainExact
<1> QED
  BY <1>3, <1>5, <1>6

LEMMA CompleteExact ==
  ASSUME NEW t, Sound(t), Exact(t), NEW id \in Identities
  PROVE  Exact(Complete(t, id))
BY KeyOfType, RemoveExact DEF Complete

(* In a table with exact queues take_next never skips: the task it takes   *)
(* heads its queue, and the queues it passes over are empty.               *)
LEMMA TakeAtExact ==
  ASSUME NEW t, Sound(t), Exact(t), NEW p \in NextPositions(t)
  PROVE  Exact(TakeAt(t, p))
<1> DEFINE r == TakeAt(t, p)
           id == TaskAt(t, p)
           key == KeyOf(id)
<1>1. /\ p[1] \in Classes /\ p[2] \in 1 .. Len(t.pending[p[1]])
      /\ Runnable(t, id)
      /\ \A i \in 1 .. (p[2] - 1) : ~ Runnable(t, t.pending[p[1]][i])
      /\ \A c \in Classes : Rank[c] < Rank[p[1]] =>
           \A i \in 1 .. Len(t.pending[c]) : ~ Runnable(t, t.pending[c][i])
  BY DEF NextPositions, QueuePositions, TaskAt
<1>2. /\ Sound(r) /\ DOMAIN r.retained = DOMAIN t.retained
      /\ \A k \in DOMAIN t.retained : /\ r.retained[k].task = t.retained[k].task
                                       /\ r.retained[k].bytes = t.retained[k].bytes
  BY TakeAtProperties
<1>3. /\ r.bytes = t.bytes
      /\ \A k \in DOMAIN t.retained :
           r.retained[k].state = IF k = key THEN "inFlight" ELSE t.retained[k].state
      /\ \A c \in Classes : r.pending[c] =
           IF Rank[c] < Rank[p[1]] THEN << >>
           ELSE IF c = p[1] THEN SubSeq(t.pending[c], p[2] + 1, Len(t.pending[c]))
           ELSE t.pending[c]
  <2>1. r = [t EXCEPT
          !.pending = [c \in Classes |->
             IF Rank[c] < Rank[p[1]] THEN << >>
             ELSE IF c = p[1] THEN SubSeq(t.pending[c], p[2] + 1, Len(t.pending[c]))
             ELSE t.pending[c]],
          !.retained[key].state = "inFlight"]
    BY DEF TakeAt, Sound, IsTable
  <2>2. \A k \in DOMAIN t.retained : t.retained[k] \in RetainedTasks
    BY DEF Sound, IsTable, IsMap
  <2>3. t = [retained |-> t.retained, pending |-> t.pending, bytes |-> t.bytes,
             sequence |-> t.sequence, cancelled |-> t.cancelled]
    BY DEF Sound, IsTable
  <2>4. r.retained = [t.retained EXCEPT ![key].state = "inFlight"]
    BY <2>1, <2>3
  <2>5. r.bytes = t.bytes
    BY <2>1, <2>3
  <2>6. r.pending = [c \in Classes |->
             IF Rank[c] < Rank[p[1]] THEN << >>
             ELSE IF c = p[1] THEN SubSeq(t.pending[c], p[2] + 1, Len(t.pending[c]))
             ELSE t.pending[c]]
    BY <2>1, <2>3
  <2> HIDE DEF r, key
  <2>7. \A k \in DOMAIN t.retained :
           r.retained[k].state = IF k = key THEN "inFlight" ELSE t.retained[k].state
    BY <2>2, <2>4 DEF RetainedTasks
  <2> QED
    BY <2>5, <2>6, <2>7
<1>4. \A c \in Classes : \A e \in Entries(t.pending[c]) : Runnable(t, e) /\ KeyOf(e)[1] = c
  BY DEF Exact, Listed, QueuedTasks, Runnable, Sound
<1>5. key[1] = p[1] /\ key \in DOMAIN t.retained
      /\ t.retained[key].task = id /\ t.retained[key].state = "queued"
  <2>1. id \in Entries(t.pending[p[1]])
    BY <1>1 DEF Entries, TaskAt
  <2> HIDE DEF id
  <2> QED
    BY <1>1, <1>4, <2>1 DEF Runnable
<1>6. p[2] = 1
  <2> SUFFICES ASSUME p[2] # 1 PROVE FALSE
    OBVIOUS
  <2>1. t.pending[p[1]] \in Seq(Identities)
    BY <1>1 DEF Sound, IsTable
  <2>2. Len(t.pending[p[1]]) \in Nat
    BY <2>1, LenProperties
  <2>3. 1 \in 1 .. (p[2] - 1) /\ 1 \in 1 .. Len(t.pending[p[1]])
    BY <1>1, <2>2
  <2> QED
    BY <1>1, <1>4, <2>3 DEF Entries
<1> HIDE DEF r, key, id
<1>7. Accounted(r)
  <2>1. SameWeights(t.retained, r.retained, DOMAIN t.retained)
    BY <1>2 DEF SameWeights
  <2>2. Total(t.retained, DOMAIN t.retained) = Total(r.retained, DOMAIN t.retained)
    BY <2>1, TasksHaveSizes, TotalSame
  <2> QED
    BY <1>2, <1>3, <2>2 DEF Exact, Accounted
<1>8. ASSUME NEW c \in Classes
      PROVE  Entries(r.pending[c]) = QueuedTasks(r, c) /\ Ascending(r.pending[c])
  <2> DEFINE old == t.pending[c]
  <2>1. /\ Entries(old) = QueuedTasks(t, c) /\ Ascending(old) /\ old \in Seq(Identities)
    BY DEF Exact, Listed, Sound, IsTable
  <2>2. CASE c = p[1]
    <3>1. r.pending[c] = SubSeq(old, 2, Len(old))
      <4>1. \A k \in Classes : Rank[k] \in Nat
        BY DEF Rank, Classes
      <4>2. ~ (Rank[c] < Rank[p[1]])
        BY <2>2, <4>1
      <4>3. r.pending[c] = SubSeq(old, p[2] + 1, Len(old))
        BY <1>3, <2>2, <4>2
      <4> QED
        BY <1>6, <4>3
    <3>2. Len(old) \in Nat /\ 1 \in 1 .. Len(old) /\ old[1] = id
      BY <1>1, <1>6, <2>1, <2>2, LenProperties DEF id, TaskAt
    <3> HIDE DEF old
    <3>3. /\ Len(r.pending[c]) = Len(old) - 1
          /\ \A i \in 1 .. Len(old) - 1 : r.pending[c][i] = old[i + 1]
      <4>1. \A i \in 2 .. Len(old) : old[i] \in Identities
        BY <2>1, <3>2, ElementOfSeq
      <4> QED
        <5>1. /\ Len(SubSeq(old, 2, Len(old))) =
                   IF 2 <= Len(old) THEN Len(old) - 2 + 1 ELSE 0
              /\ \A i \in 1 .. Len(old) - 2 + 1 :
                   SubSeq(old, 2, Len(old))[i] = old[2 + i - 1]
          BY <3>2, <4>1, SubSeqProperties
        <5> DEFINE rest == SubSeq(old, 2, Len(old))
        <5>2. Len(rest) = Len(old) - 1
          BY <3>2, <5>1
        <5>3. \A i \in 1 .. Len(old) - 1 : i \in 1 .. Len(old) - 2 + 1 /\ 2 + i - 1 = i + 1
          BY <3>2
        <5>4. \A i \in 1 .. Len(old) - 1 : rest[i] = old[i + 1]
          BY <5>1, <5>3
        <5> HIDE DEF rest
        <5> QED
          BY <3>1, <5>2, <5>4 DEF rest
    <3>4. Entries(r.pending[c]) = Entries(old) \ {id}
      <4>1. ASSUME NEW i \in 2 .. Len(old) PROVE old[i] # id
        <5>1. old[1].sequence < old[i].sequence
          BY <2>1, <3>2, <4>1 DEF Ascending
        <5>2. old[1].sequence \in Nat
          <6>1. old[1] \in Identities
            BY <2>1, <3>2, ElementOfSeq
          <6> QED
            BY <6>1 DEF Identities
        <5> QED
          BY <3>2, <5>1, <5>2
      <4>2. \A e \in Entries(r.pending[c]) : e \in Entries(old) /\ e # id
        <5>1. \A i \in 1 .. Len(old) - 1 : i + 1 \in 2 .. Len(old) /\ i + 1 \in 1 .. Len(old)
          BY <3>2
        <5> QED
          BY <3>3, <4>1, <5>1 DEF Entries
      <4>3. ASSUME NEW e \in Entries(old), e # id PROVE e \in Entries(r.pending[c])
        <5>1. PICK i \in 1 .. Len(old) : e = old[i]
          BY DEF Entries
        <5>2. i # 1
          BY <3>2, <4>3, <5>1
        <5>3. i - 1 \in 1 .. Len(old) - 1 /\ (i - 1) + 1 = i
          BY <3>2, <5>2
        <5>4. r.pending[c][i - 1] = e
          BY <3>3, <5>1, <5>3
        <5> QED
          BY <3>3, <5>3, <5>4 DEF Entries
      <4> QED
        BY <4>2, <4>3
    <3>5. QueuedTasks(r, c) = QueuedTasks(t, c) \ {id}
      <4>1. \A k \in DOMAIN t.retained : t.retained[k].task = id => k = key
        BY DEF Sound, key
      <4>2. QueuedTasks(r, c) \subseteq QueuedTasks(t, c) \ {id}
        BY <1>2, <1>3, <4>1 DEF QueuedTasks
      <4>3. QueuedTasks(t, c) \ {id} \subseteq QueuedTasks(r, c)
        BY <1>2, <1>3, <1>5 DEF QueuedTasks
      <4> QED
        BY <4>2, <4>3
    <3>6. Ascending(r.pending[c])
      <4> SUFFICES ASSUME NEW i \in 1 .. Len(old) - 1, NEW j \in 1 .. Len(old) - 1, i < j
                   PROVE  r.pending[c][i].sequence < r.pending[c][j].sequence
        BY <3>3 DEF Ascending
      <4>1. i + 1 \in 1 .. Len(old) /\ j + 1 \in 1 .. Len(old) /\ i + 1 < j + 1
        BY <3>2
      <4> QED
        BY <2>1, <3>3, <4>1 DEF Ascending
    <3> QED
      BY <2>1, <3>4, <3>5, <3>6
  <2>3. CASE c # p[1]
    <3>1. QueuedTasks(r, c) = QueuedTasks(t, c)
      BY <1>2, <1>3, <1>5, <2>3 DEF QueuedTasks
    <3>2. Rank[c] < Rank[p[1]] => Entries(old) = {}
      BY <1>1, <1>4 DEF Entries
    <3>3. Entries(<< >>) = {} /\ Ascending(<< >>)
      BY DEF Entries, Ascending
    <3> QED
      BY <1>3, <2>1, <2>3, <3>1, <3>2, <3>3
  <2> QED
    BY <2>2, <2>3
<1>9. Exact(r)
  BY <1>7, <1>8 DEF Exact, Listed
<1> QED
  BY <1>9 DEF r
=============================================================================
