----------------------- MODULE DocumentRuntimeProofs -----------------------
(***************************************************************************)
(* Proofs about the document runtime, for any documents, requests, lanes   *)
(* and limits.                                                             *)
(*                                                                         *)
(* Consistent says what the loop's state satisfies between two handlers,   *)
(* and Inv adds the jobs, workers and events, which carry tasks into later *)
(* handlers.  A handler composes up to a dozen state functions, so each of *)
(* those is shown to be a step of a few kinds that compose: Calm (keeps    *)
(* all parts of Consistent, and the revisions), Quiet (and gives no        *)
(* result), Resolves (and schedules at most one good job, and gives only   *)
(* fresh results).  Handles is what every handler, an edit included, must  *)
(* show of its outcome; NextSplits divides Next into a client's message,   *)
(* an event and the other threads' steps, and the last section puts them   *)
(* together.                                                               *)
(***************************************************************************)
EXTENDS DocumentRuntime, AdmissionTableProofs

-----------------------------------------------------------------------------
(* Splitting a queue of deferred requests.                                 *)

Members(seq) == {seq[i] : i \in 1 .. Len(seq)}
Distinct(seq) ==
  \A i, j \in 1 .. Len(seq) : seq[i].request = seq[j].request => i = j

(* h is what Kept computes for the first n members of seq, for n \in 0 .. m. *)
Keeping(h, seq, S, m) ==
  h = [n \in 0 .. m |->
         IF n = 0 THEN << >>
         ELSE IF seq[n] \in S THEN Append(h[n - 1], seq[n]) ELSE h[n - 1]]

LEMMA KeptIs ==
  ASSUME NEW seq, NEW S
  PROVE  Kept(seq, S) = (CHOOSE h : Keeping(h, seq, S, Len(seq)))[Len(seq)]
BY DEF Kept, Keeping

LEMMA KeepingExists ==
  ASSUME NEW seq, NEW S
  PROVE  \A m \in Nat : \E h : Keeping(h, seq, S, m)
<1> DEFINE T == {m \in Nat : \E h : Keeping(h, seq, S, m)}
<1>1. 0 \in T
  <2> DEFINE h == [n \in 0 .. 0 |-> << >>]
  <2>1. Keeping(h, seq, S, 0)
    BY DEF Keeping
  <2> QED
    BY <2>1
<1>2. ASSUME NEW m \in Nat, m \in T PROVE m + 1 \in T
  <2> PICK h : Keeping(h, seq, S, m)
    BY <1>2
  <2> DEFINE next(f, n) ==
               IF n = 0 THEN << >>
               ELSE IF seq[n] \in S THEN Append(f[n - 1], seq[n]) ELSE f[n - 1]
             g == [n \in 0 .. m + 1 |-> next(h, n)]
             gg == [n \in 0 .. m + 1 |-> next(g, n)]
  <2>1. \A n \in 0 .. m : h[n] = next(h, n)
    BY DEF Keeping
  <2>2. \A n \in 0 .. m : g[n] = h[n]
    BY <2>1
  <2>3. \A n \in 0 .. m + 1 : n # 0 => n - 1 \in 0 .. m
    OBVIOUS
  <2>4. \A n \in 0 .. m + 1 : next(g, n) = next(h, n)
    <3> HIDE DEF g
    <3> QED
      BY <2>2, <2>3
  <2>5. \A n \in 0 .. m + 1 : g[n] = gg[n]
    <3> HIDE DEF next
    <3> QED
      BY <2>4
  <2>6. g = gg
    <3> HIDE DEF next
    <3> QED
      BY <2>5
  <2>7. Keeping(g, seq, S, m + 1)
    <3> HIDE DEF g
    <3> QED
      BY <2>6 DEF Keeping
  <2> QED
    BY <2>7
<1> HIDE DEF T
<1>3. Nat \subseteq T
  BY <1>1, <1>2, NaturalsAreLeast
<1> QED
  BY <1>3 DEF T

(* What Kept computes for the first n members.                             *)
KeepsPart(q, seq, S, R, n) ==
  /\ q \in Seq(R)
  /\ Len(q) <= n
  /\ Members(q) = {seq[i] : i \in 1 .. n} \cap S
  /\ Distinct(seq) => Distinct(q)

LEMMA AppendMembers ==
  ASSUME NEW R, NEW q \in Seq(R), NEW e \in R
  PROVE  /\ Append(q, e) \in Seq(R)
         /\ Len(Append(q, e)) = Len(q) + 1
         /\ Members(Append(q, e)) = Members(q) \union {e}
<1>1. /\ Append(q, e) \in Seq(R)
      /\ Len(Append(q, e)) = Len(q) + 1
      /\ \A i \in 1 .. Len(q) : Append(q, e)[i] = q[i]
      /\ Append(q, e)[Len(q) + 1] = e
      /\ Len(q) \in Nat
  BY AppendProperties, LenProperties
<1> QED
  BY <1>1 DEF Members

LEMMA AppendDistinct ==
  ASSUME NEW R, NEW q \in Seq(R), NEW e \in R, Distinct(q),
         \A w \in Members(q) : w.request # e.request
  PROVE  Distinct(Append(q, e))
<1> DEFINE a == Append(q, e)
<1>1. /\ Len(a) = Len(q) + 1
      /\ \A i \in 1 .. Len(q) : a[i] = q[i]
      /\ a[Len(q) + 1] = e
      /\ Len(q) \in Nat
  BY AppendProperties, LenProperties
<1> HIDE DEF a
<1>2. \A i \in 1 .. Len(q) : a[i].request # e.request
  BY <1>1 DEF Members
<1>3. \A i, j \in 1 .. Len(q) : a[i].request = a[j].request => i = j
  BY <1>1 DEF Distinct
<1> QED
  BY <1>1, <1>2, <1>3 DEF Distinct, a

LEMMA KeptProperties ==
  ASSUME NEW R, NEW seq \in Seq(R), NEW S
  PROVE  LET k == Kept(seq, S)
         IN  /\ k \in Seq(R)
             /\ Len(k) <= Len(seq)
             /\ Members(k) = Members(seq) \cap S
             /\ Distinct(seq) => Distinct(k)
<1>1. Len(seq) \in Nat /\ \A i \in 1 .. Len(seq) : seq[i] \in R
  BY LenProperties, ElementOfSeq
<1> DEFINE h == CHOOSE g : Keeping(g, seq, S, Len(seq))
           L == Len(seq)
           T == {n \in Nat : n <= L => KeepsPart(h[n], seq, S, R, n)}
<1>2. Keeping(h, seq, S, L)
  <2>1. \E g : Keeping(g, seq, S, Len(seq))
    BY <1>1, KeepingExists
  <2> QED
    BY <2>1
<1>3. Kept(seq, S) = h[L]
  BY KeptIs
<1>4. /\ h[0] = << >>
      /\ \A n \in 1 .. L :
           h[n] = IF seq[n] \in S THEN Append(h[n - 1], seq[n]) ELSE h[n - 1]
  <2> HIDE DEF h
  <2>1. \A n \in 0 .. L :
          h[n] = IF n = 0 THEN << >>
                 ELSE IF seq[n] \in S THEN Append(h[n - 1], seq[n]) ELSE h[n - 1]
    <3> HIDE DEF L
    <3> QED
      BY <1>2 DEF Keeping
  <2>2. 0 \in 0 .. L /\ \A n \in 1 .. L : n \in 0 .. L /\ n # 0
    BY <1>1
  <2> HIDE DEF L
  <2> QED
    BY <2>1, <2>2
<1> HIDE DEF h
<1>5. 0 \in T
  <2>1. << >> \in Seq(R) /\ Len(<< >>) = 0
    BY EmptySeq
  <2>2. Members(<< >>) = {} /\ Distinct(<< >>)
    BY <2>1 DEF Members, Distinct
  <2>3. {seq[i] : i \in 1 .. 0} = {}
    OBVIOUS
  <2>4. KeepsPart(<< >>, seq, S, R, 0)
    BY <2>1, <2>2, <2>3 DEF KeepsPart
  <2> QED
    BY <1>4, <2>4
<1>6. ASSUME NEW m \in Nat, m \in T PROVE m + 1 \in T
  <2> SUFFICES ASSUME m + 1 <= L PROVE KeepsPart(h[m + 1], seq, S, R, m + 1)
    OBVIOUS
  <2> DEFINE e == seq[m + 1]
             q == h[m]
  <2>1. /\ m <= L /\ m + 1 \in 1 .. L /\ (m + 1) - 1 = m
        /\ 1 .. m + 1 = (1 .. m) \union {m + 1}
    BY <1>1
  <2>2. KeepsPart(q, seq, S, R, m)
    BY <1>6, <2>1
  <2>3. h[m + 1] = IF e \in S THEN Append(q, e) ELSE q
    BY <1>4, <2>1
  <2>4. e \in R
    BY <1>1, <2>1
  <2>5. {seq[i] : i \in 1 .. m + 1} = {seq[i] : i \in 1 .. m} \union {e}
    BY <2>1
  <2>6. Distinct(seq) => \A w \in {seq[i] : i \in 1 .. m} : w.request # e.request
    <3> SUFFICES ASSUME Distinct(seq), NEW i \in 1 .. m
                 PROVE  seq[i].request # seq[m + 1].request
      OBVIOUS
    <3>1. i \in 1 .. L /\ i # m + 1
      BY <1>1, <2>1
    <3>2. m + 1 \in 1 .. Len(seq) /\ i \in 1 .. Len(seq)
      BY <2>1, <3>1
    <3> QED
      BY <3>1, <3>2 DEF Distinct
  <2> HIDE DEF e, q
  <2>7. CASE e \in S
    <3>1. /\ Append(q, e) \in Seq(R)
          /\ Len(Append(q, e)) = Len(q) + 1
          /\ Members(Append(q, e)) = Members(q) \union {e}
      BY <2>2, <2>4, AppendMembers DEF KeepsPart
    <3>2. Len(q) \in Nat /\ Len(q) <= m
      BY <2>2, LenProperties DEF KeepsPart
    <3>3. Distinct(seq) => Distinct(Append(q, e))
      BY <2>2, <2>4, <2>6, AppendDistinct DEF KeepsPart
    <3>4. Members(Append(q, e)) = {seq[i] : i \in 1 .. m + 1} \cap S
      BY <2>2, <2>5, <2>7, <3>1 DEF KeepsPart
    <3> QED
      BY <2>3, <2>7, <3>1, <3>2, <3>3, <3>4 DEF KeepsPart
  <2>8. CASE e \notin S
    <3>1. Len(q) \in Nat /\ Len(q) <= m
      BY <2>2, LenProperties DEF KeepsPart
    <3>2. Members(q) = {seq[i] : i \in 1 .. m + 1} \cap S
      BY <2>2, <2>5, <2>8 DEF KeepsPart
    <3>3. KeepsPart(q, seq, S, R, m + 1)
      BY <2>2, <3>1, <3>2 DEF KeepsPart
    <3> QED
      BY <2>3, <2>8, <3>3
  <2> QED
    BY <2>7, <2>8
<1> HIDE DEF T
<1>7. L \in T
  BY <1>1, <1>5, <1>6, NaturalsAreLeast
<1>8. KeepsPart(h[L], seq, S, R, L)
  BY <1>1, <1>7 DEF T
<1> QED
  BY <1>3, <1>8 DEF KeepsPart, Members

-----------------------------------------------------------------------------
(* The admission table as the dispatcher uses it: what is admitted is      *)
(* taken at once, so no queue holds anything.  Unlike a sound table, an    *)
(* idle one may retain tasks whose flag is raised, because cancel_pending  *)
(* raises the flag of a task without removing it.                          *)
Idle(t) ==
  /\ IsTable(t)
  /\ \A c \in Classes : t.pending[c] = << >>
  /\ \A k \in DOMAIN t.retained :
       /\ KeyOf(t.retained[k].task) = k
       /\ t.retained[k].state = "inFlight"
       /\ t.retained[k].task.sequence \in 1 .. t.sequence
       /\ t.retained[k].task.revision # 0
  /\ \A k1, k2 \in DOMAIN t.retained :
       t.retained[k1].task.sequence = t.retained[k2].task.sequence => k1 = k2
  /\ t.cancelled \subseteq 1 .. t.sequence

LEMMA EmptyTableIdle == Idle(EmptyTable)
<1>1. DOMAIN EmptyTable.retained = {} /\ EmptyTable.cancelled = {}
  BY DEF EmptyTable
<1> QED
  BY <1>1, EmptyTableType DEF Idle, EmptyTable

LEMMA RemoveIdle ==
  ASSUME NEW t, Idle(t), NEW key \in Keys
  PROVE  Idle(Remove(t, key)) /\ Cancels(t, Remove(t, key), {key})
<1> DEFINE r == Remove(t, key)
<1>1. IsTable(r) /\ Cancels(t, r, {key})
  BY RemoveProperties, RemoveCancels DEF Idle
<1>2. r.pending = t.pending
  <2>1. t.pending \in [Classes -> Seq(Identities)] /\ key[1] \in Classes
    BY ClassOfKey DEF Idle, IsTable
  <2>2. CASE key \in DOMAIN t.retained
    <3>1. t.retained[key].state = "inFlight"
      BY <2>2 DEF Idle
    <3>2. r.pending = [t.pending EXCEPT ![key[1]] = @]
      BY <2>2, <3>1 DEF Remove, Idle, IsTable
    <3> QED
      BY <2>1, <3>2
  <2> QED
    BY <2>2 DEF Remove
<1> HIDE DEF r
<1>3. \A k \in DOMAIN r.retained :
        k \in DOMAIN t.retained /\ r.retained[k] = t.retained[k]
  BY <1>1 DEF Cancels
<1>4. r.sequence = t.sequence /\ r.cancelled \subseteq 1 .. t.sequence
  BY <1>1 DEF Cancels, Idle
<1> QED
  BY <1>1, <1>2, <1>3, <1>4 DEF Idle, r

LEMMA CancelUriIdle ==
  ASSUME NEW t, Idle(t), NEW uri \in Uris
  PROVE  LET r == CancelUri(t, uri)
         IN  Idle(r) /\ Cancels(t, r, {k \in Keys : k[2] = uri})
<1> DEFINE kf == <<"foreground", uri>>
           ks == <<"semantic", uri>>
           kr == <<"rich", uri>>
           t1 == Remove(t, kf)
           t2 == Remove(t1, ks)
           t3 == Remove(t2, kr)
<1>1. kf \in Keys /\ ks \in Keys /\ kr \in Keys
  BY DEF Keys, Classes
<1>2. {kf} \union {ks} \union {kr} = {k \in Keys : k[2] = uri}
  BY DEF Keys, Classes
<1> HIDE DEF kf, ks, kr
<1>3. Idle(t1) /\ Cancels(t, t1, {kf})
  BY <1>1, RemoveIdle
<1> HIDE DEF t1
<1>4. Idle(t2) /\ Cancels(t1, t2, {ks})
  BY <1>1, <1>3, RemoveIdle
<1> HIDE DEF t2
<1>5. Idle(t3) /\ Cancels(t2, t3, {kr})
  BY <1>1, <1>4, RemoveIdle
<1> HIDE DEF t3
<1>6. Cancels(t, t2, {kf} \union {ks})
  BY <1>3, <1>4, CancelsTwice
<1>7. Cancels(t, t3, {kf} \union {ks} \union {kr})
  BY <1>5, <1>6, CancelsTwice
<1>8. CancelUri(t, uri) = t3
  BY DEF CancelUri, t1, t2, t3, kf, ks, kr
<1> QED
  BY <1>2, <1>5, <1>7, <1>8

LEMMA CompleteIdle ==
  ASSUME NEW t, Idle(t), NEW id \in Identities
  PROVE  LET r == Complete(t, id)
         IN  /\ Idle(r)
             /\ IsCurrent(t, id) => Cancels(t, r, {KeyOf(id)})
             /\ ~ IsCurrent(t, id) => r = t
BY RemoveIdle, KeyOfType DEF Complete

LEMMA FlagIdle ==
  ASSUME NEW t, Idle(t), NEW S \in SUBSET (1 .. t.sequence)
  PROVE  LET r == [t EXCEPT !.cancelled = @ \union S]
         IN  /\ Idle(r)
             /\ r.retained = t.retained
             /\ r.sequence = t.sequence
             /\ r.cancelled = t.cancelled \union S
<1> DEFINE r == [t EXCEPT !.cancelled = @ \union S]
<1>1. /\ r.retained = t.retained /\ r.pending = t.pending
      /\ r.bytes = t.bytes /\ r.sequence = t.sequence
      /\ r.cancelled = t.cancelled \union S
      /\ r = [retained |-> r.retained, pending |-> r.pending, bytes |-> r.bytes,
              sequence |-> r.sequence, cancelled |-> r.cancelled]
  <2>1. t = [retained |-> t.retained, pending |-> t.pending, bytes |-> t.bytes,
             sequence |-> t.sequence, cancelled |-> t.cancelled]
    BY DEF Idle, IsTable
  <2> QED
    BY <2>1
<1> HIDE DEF r
<1>2. r.cancelled \in SUBSET Nat
  <2>1. t.sequence \in Nat /\ t.cancelled \in SUBSET Nat
    BY DEF Idle, IsTable
  <2>2. 1 .. t.sequence \subseteq Nat
    BY <2>1
  <2> QED
    BY <1>1, <2>1, <2>2
<1>3. IsTable(r)
  BY <1>1, <1>2 DEF Idle, IsTable
<1> QED
  BY <1>1, <1>3 DEF Idle, r

(* What admitting a task and taking it does to the table.                  *)
Takes(t, r, key, id) ==
  /\ DOMAIN r.retained = (DOMAIN t.retained) \union {key}
  /\ \A k \in DOMAIN t.retained : k # key => r.retained[k] = t.retained[k]
  /\ r.retained[key].task = id
  /\ r.sequence = t.sequence + 1
  /\ r.cancelled = t.cancelled \union
       {t.retained[k].task.sequence : k \in (DOMAIN t.retained) \cap {key}}

NewIdentity(t, class, uri, revision) ==
  [uri |-> uri, class |-> class, revision |-> revision, sequence |-> t.sequence + 1]

TaskFrom(a) == TaskAt(a, CHOOSE p \in NextPositions(a) : TRUE)
TakenFrom(a) == TakeAt(a, CHOOSE p \in NextPositions(a) : TRUE)

(* Admission on an idle table: what is admitted is what is taken.          *)
LEMMA TakeIdle ==
  ASSUME NEW t, Idle(t), NEW class \in Classes, NEW uri \in Uris,
         NEW revision \in Nat \ {0}, NEW bytes \in Nat,
         Admits(t, class, uri, bytes)
  PROVE  LET a == Admit(t, class, uri, revision, bytes)
             id == NewIdentity(t, class, uri, revision)
         IN  /\ TaskFrom(a) = id
             /\ Idle(TakenFrom(a))
             /\ Takes(t, TakenFrom(a), <<class, uri>>, id)
<1> DEFINE key == <<class, uri>>
           free == Remove(t, key)
           a == Admit(t, class, uri, revision, bytes)
           id == [uri |-> uri, class |-> class, revision |-> revision,
                  sequence |-> t.sequence + 1]
           p == CHOOSE q \in NextPositions(a) : TRUE
           r == TakeAt(a, p)
           queued == [task |-> id, state |-> "queued", bytes |-> bytes]
           taken == [task |-> id, state |-> "inFlight", bytes |-> bytes]
<1>1. key \in Keys /\ key[1] = class
  BY DEF Keys
<1>2. Idle(free) /\ Cancels(t, free, {key})
  BY <1>1, RemoveIdle
<1>3. id \in Identities /\ KeyOf(id) = key /\ id.class = class
      /\ id.sequence = t.sequence + 1 /\ id.revision = revision
  BY DEF Idle, IsTable, Identities, KeyOf
<1>4. a = Retain(free, id, bytes)
  BY DEF Admit, Admits
<1>5. key \notin DOMAIN free.retained
  BY <1>2 DEF Cancels
<1> HIDE DEF id, free, key
<1>6. /\ a.sequence = t.sequence + 1
      /\ a.bytes = free.bytes + bytes
      /\ a.retained = [k \in (DOMAIN free.retained) \union {key} |->
                         IF k = key THEN queued ELSE free.retained[k]]
      /\ a.pending = [free.pending EXCEPT ![class] = Append(@, id)]
      /\ a.cancelled = free.cancelled
      /\ a = [retained |-> a.retained, pending |-> a.pending, bytes |-> a.bytes,
              sequence |-> a.sequence, cancelled |-> a.cancelled]
  <2>1. /\ free = [retained |-> free.retained, pending |-> free.pending,
                   bytes |-> free.bytes, sequence |-> free.sequence,
                   cancelled |-> free.cancelled]
        /\ free.pending \in [Classes -> Seq(Identities)]
    BY <1>2 DEF Idle, IsTable
  <2> HIDE DEF queued
  <2>2. a = [free EXCEPT
               !.sequence = t.sequence + 1,
               !.bytes = @ + bytes,
               !.retained = [k \in (DOMAIN @) \union {key} |->
                               IF k = key THEN queued ELSE @[k]],
               !.pending[class] = Append(@, id)]
    BY <1>3, <1>4 DEF Retain, queued
  <2> HIDE DEF a
  <2> QED
    BY <2>1, <2>2
<1> HIDE DEF a
<1>7. /\ a.pending \in [Classes -> Seq(Identities)]
      /\ a.pending[class] = <<id>>
      /\ \A c \in Classes : c # class => a.pending[c] = << >>
  <2>1. /\ free.pending \in [Classes -> Seq(Identities)]
        /\ \A c \in Classes : free.pending[c] = << >>
    BY <1>2 DEF Idle, IsTable
  <2>2. Append(<< >>, id) = <<id>> /\ <<id>> \in Seq(Identities)
    BY <1>3
  <2>3. a.pending = [free.pending EXCEPT ![class] = <<id>>]
    BY <1>6, <2>1, <2>2
  <2> QED
    BY <2>1, <2>2, <2>3
<1>8. Len(a.pending[class]) = 1 /\ a.pending[class][1] = id
      /\ \A c \in Classes : c # class => Len(a.pending[c]) = 0
  BY <1>7
<1>9. NextPositions(a) = {<<class, 1>>}
  <2>1. QueuePositions(a) = {<<class, 1>>}
    <3>1. ASSUME NEW q \in QueuePositions(a) PROVE q = <<class, 1>>
      <4>1. PICK c \in Classes : q \in {c} \X (1 .. Len(a.pending[c]))
        BY DEF QueuePositions
      <4>2. PICK i \in 1 .. Len(a.pending[c]) : q = <<c, i>>
        BY <4>1
      <4>3. c = class
        BY <1>8, <4>2
      <4>4. i = 1
        <5>1. Len(a.pending[c]) = 1
          BY <1>8, <4>3
        <5>2. i \in 1 .. 1
          BY <4>2, <5>1
        <5> QED
          BY <5>2
      <4>5. q = <<c, 1>>
        BY <4>2, <4>4
      <4> QED
        BY <4>3, <4>5
    <3>2. <<class, 1>> \in {class} \X (1 .. Len(a.pending[class]))
      BY <1>8
    <3>3. <<class, 1>> \in QueuePositions(a)
      BY <3>2 DEF QueuePositions
    <3> QED
      BY <3>1, <3>3
  <2>2. Runnable(a, id)
    BY <1>3, <1>6 DEF Runnable
  <2>3. a.pending[<<class, 1>>[1]][<<class, 1>>[2]] = id
    BY <1>8
  <2>4. \A i \in 1 .. (<<class, 1>>[2] - 1) : ~ Runnable(a, a.pending[<<class, 1>>[1]][i])
    OBVIOUS
  <2>5. \A c \in Classes : Rank[c] < Rank[<<class, 1>>[1]] =>
          \A i \in 1 .. Len(a.pending[c]) : ~ Runnable(a, a.pending[c][i])
    <3> SUFFICES ASSUME NEW c \in Classes, Rank[c] < Rank[class]
                 PROVE  Len(a.pending[c]) = 0
      OBVIOUS
    <3>1. c # class
      BY DEF Rank, Classes
    <3> QED
      BY <1>8, <3>1
  <2> DEFINE position == <<class, 1>>
  <2>6. /\ position \in QueuePositions(a)
        /\ Runnable(a, a.pending[position[1]][position[2]])
        /\ \A i \in 1 .. (position[2] - 1) : ~ Runnable(a, a.pending[position[1]][i])
        /\ \A c \in Classes : Rank[c] < Rank[position[1]] =>
             \A i \in 1 .. Len(a.pending[c]) : ~ Runnable(a, a.pending[c][i])
    BY <2>1, <2>2, <2>3, <2>4, <2>5
  <2>7. QueuePositions(a) = {position}
    BY <2>1
  <2> HIDE DEF position
  <2>8. NextPositions(a) = {position}
    BY <2>6, <2>7 DEF NextPositions
  <2> QED
    BY <2>8 DEF position
<1>10. p = <<class, 1>>
  BY <1>9
<1> HIDE DEF p
<1>12. p[1] = class /\ p[2] = 1
  BY <1>10
<1>11. TaskAt(a, p) = id
  BY <1>8, <1>12 DEF TaskAt
<1>13. /\ r.pending = [c \in Classes |->
                         IF Rank[c] < Rank[class] THEN << >>
                         ELSE IF c = class
                         THEN SubSeq(a.pending[c], 2, Len(a.pending[c]))
                         ELSE a.pending[c]]
       /\ r.retained = [a.retained EXCEPT ![key].state = "inFlight"]
       /\ r.bytes = a.bytes /\ r.sequence = a.sequence
       /\ r.cancelled = a.cancelled
       /\ r = [retained |-> r.retained, pending |-> r.pending, bytes |-> r.bytes,
               sequence |-> r.sequence, cancelled |-> r.cancelled]
  <2>1. r = [a EXCEPT
               !.pending = [c \in Classes |->
                  IF Rank[c] < Rank[class] THEN << >>
                  ELSE IF c = class THEN SubSeq(@[c], 2, Len(@[c]))
                  ELSE @[c]],
               !.retained[key].state = "inFlight"]
    BY <1>3, <1>11, <1>12 DEF TakeAt
  <2> HIDE DEF r
  <2>2. a = [retained |-> a.retained, pending |-> a.pending, bytes |-> a.bytes,
             sequence |-> a.sequence, cancelled |-> a.cancelled]
    BY <1>6
  <2> QED
    BY <2>1, <2>2
<1> HIDE DEF r
<1>14. \A c \in Classes : r.pending[c] = << >>
  <2>1. SubSeq(a.pending[class], 2, Len(a.pending[class])) = << >>
    BY <1>8, SubSeqEmpty
  <2> QED
    BY <1>7, <1>13, <2>1
<1>15. /\ DOMAIN r.retained = (DOMAIN free.retained) \union {key}
       /\ \A k \in DOMAIN free.retained : r.retained[k] = free.retained[k]
       /\ r.retained[key] = taken
  <2>1. [queued EXCEPT !.state = "inFlight"] = taken
    OBVIOUS
  <2> HIDE DEF queued, taken
  <2> QED
    BY <1>5, <1>6, <1>13, <2>1
<1>16. taken \in RetainedTasks
  BY <1>3 DEF RetainedTasks
<1>17. r.bytes \in Nat /\ r.sequence \in Nat /\ r.cancelled \in SUBSET Nat
       /\ r.sequence = t.sequence + 1 /\ t.sequence \in Nat
       /\ free.sequence = t.sequence /\ r.cancelled = free.cancelled
  BY <1>2, <1>6, <1>13 DEF Idle, IsTable, Cancels
<1>18. taken.task = id /\ taken.state = "inFlight"
  OBVIOUS
<1> HIDE DEF taken
<1>19. IsTable(r)
  <2>1. IsMap(r.retained, Keys, RetainedTasks)
    <3>1. DOMAIN free.retained \subseteq Keys
          /\ \A k \in DOMAIN free.retained : free.retained[k] \in RetainedTasks
      BY <1>2 DEF Idle, IsTable, IsMap
    <3>2. r.retained = [k \in DOMAIN r.retained |-> r.retained[k]]
      BY <1>6, <1>13
    <3> QED
      BY <1>1, <1>15, <1>16, <3>1, <3>2 DEF IsMap
  <2>2. r.pending \in [Classes -> Seq(Identities)]
    <3>1. << >> \in Seq(Identities)
      BY EmptySeq
    <3> QED
      BY <1>13, <1>14, <3>1
  <2> QED
    BY <1>13, <1>17, <2>1, <2>2 DEF IsTable
<1>20. \A k \in DOMAIN free.retained :
         /\ KeyOf(free.retained[k].task) = k
         /\ free.retained[k].state = "inFlight"
         /\ free.retained[k].task.sequence \in 1 .. t.sequence
         /\ free.retained[k].task.revision # 0
  BY <1>2, <1>17 DEF Idle
<1>21. \A n \in 1 .. t.sequence : n \in 1 .. t.sequence + 1 /\ n # t.sequence + 1
  BY <1>17
<1>22. Idle(r)
  <2>1. \A k \in DOMAIN r.retained :
          /\ KeyOf(r.retained[k].task) = k
          /\ r.retained[k].state = "inFlight"
          /\ r.retained[k].task.sequence \in 1 .. r.sequence
          /\ r.retained[k].task.revision # 0
    <3>1. t.sequence + 1 \in 1 .. t.sequence + 1
      BY <1>17
    <3> QED
      BY <1>3, <1>15, <1>17, <1>18, <1>20, <1>21, <3>1
  <2>2. \A k1, k2 \in DOMAIN r.retained :
          r.retained[k1].task.sequence = r.retained[k2].task.sequence => k1 = k2
    <3>1. \A k1, k2 \in DOMAIN free.retained :
            free.retained[k1].task.sequence = free.retained[k2].task.sequence
            => k1 = k2
      BY <1>2 DEF Idle
    <3>2. \A k \in DOMAIN free.retained :
            free.retained[k].task.sequence # t.sequence + 1
      BY <1>20, <1>21
    <3> QED
      BY <1>3, <1>15, <1>18, <3>1, <3>2
  <2>3. r.cancelled \subseteq 1 .. r.sequence
    BY <1>2, <1>17, <1>21 DEF Idle
  <2> QED
    BY <1>14, <1>19, <2>1, <2>2, <2>3 DEF Idle
<1>23. Takes(t, r, key, id)
  <2>1. /\ DOMAIN r.retained = (DOMAIN t.retained) \union {key}
        /\ \A k \in DOMAIN t.retained : k # key => r.retained[k] = t.retained[k]
    BY <1>2, <1>15 DEF Cancels
  <2>2. r.cancelled = t.cancelled \union
          {t.retained[k].task.sequence : k \in (DOMAIN t.retained) \cap {key}}
    BY <1>2, <1>17 DEF Cancels
  <2> QED
    BY <1>15, <1>17, <1>18, <2>1, <2>2 DEF Takes
<1>24. /\ id = NewIdentity(t, class, uri, revision)
       /\ a = Admit(t, class, uri, revision, bytes)
       /\ key = <<class, uri>>
  BY DEF id, a, key, NewIdentity
<1>25. TaskFrom(a) = id /\ TakenFrom(a) = r
  BY <1>11 DEF TaskFrom, TakenFrom, r, p
<1> QED
  BY <1>22, <1>23, <1>24, <1>25

-----------------------------------------------------------------------------
(* The state of the main loop, and what a step leaves alone in it.         *)
Fields ==
  {"documents", "nextRevision", "table", "deferredRequests", "deferredTokens",
   "lastGeneration", "refreshInFlight", "refreshDirty", "replays", "requests",
   "diagnostics", "shown"}

Shape(s) == s = [f \in Fields |-> s[f]]
Keeps(s, t, F) == \A f \in Fields \ F : t[f] = s[f]

MainTypes(s) ==
  /\ Shape(s)
  /\ s.documents \in [Uris -> Documents]
  /\ s.nextRevision \in Nat /\ s.lastGeneration \in Nat
  /\ Idle(s.table)
  /\ s.deferredRequests \in [Uris -> Seq(Waiters)]
  /\ s.deferredTokens \in [Uris -> Seq(TokenWaiters)]
  /\ s.refreshInFlight \in BOOLEAN /\ s.refreshDirty \in BOOLEAN
  /\ s.replays \in Seq(Requests)
  /\ s.requests \in [Requests -> Exchanges]
  /\ s.diagnostics \in [Uris -> Nat]
  /\ s.shown \in [Uris -> Tokens]

(* The requests the server has been sent, whose kind and uri it knows.     *)
Asked(s) ==
  {r \in Requests : /\ s.requests[r].state # "unsent"
                    /\ s.requests[r].kind \in Classifications
                    /\ s.requests[r].uri \in Uris}

(* Only such requests wait anywhere, and a pending projection is that of a *)
(* task the table has issued.                                              *)
Held(s) ==
  /\ \A u \in Uris : RequestsIn(s.deferredRequests[u]) \subseteq Asked(s)
  /\ \A u \in Uris : RequestsIn(s.deferredTokens[u]) \subseteq Asked(s)
  /\ Members(s.replays) \subseteq Asked(s)
PendingIssued(s) ==
  \A u \in Uris : s.documents[u].pending # NoPending =>
    s.documents[u].pending.sequence \in 1 .. s.table.sequence

Good(s) == MainTypes(s) /\ Held(s) /\ PendingIssued(s)

(* The requests of R, and no others, are answered.                         *)
Replied(s, t, R, outcome) ==
  \A r \in Requests :
    t.requests[r] =
      IF r \in R
      THEN [s.requests[r] EXCEPT !.state = outcome, !.answers = @ + 1]
      ELSE s.requests[r]

LEMMA KeepsTrans ==
  ASSUME NEW s, NEW t, NEW v, NEW F, NEW G, Keeps(s, t, F), Keeps(t, v, G)
  PROVE  Keeps(s, v, F \union G)
BY DEF Keeps

LEMMA ReplyType ==
  ASSUME NEW e \in Exchanges, NEW outcome \in {"result", "error"}
  PROVE  LET x == [e EXCEPT !.state = outcome, !.answers = @ + 1]
         IN  /\ x \in Exchanges
             /\ x.kind = e.kind /\ x.uri = e.uri /\ x.revision = e.revision
             /\ x.state = outcome /\ x.answers = e.answers + 1
<1> DEFINE k == e.kind
           u == e.uri
           v == e.revision
           n == e.answers
           b == e.state
           x == [e EXCEPT !.state = outcome, !.answers = @ + 1]
<1>1. /\ e = [state |-> b, kind |-> k, uri |-> u, revision |-> v, answers |-> n]
      /\ k \in Classifications \union {NoRequest} /\ u \in Uris \union {NoRequest}
      /\ v \in Nat /\ n \in Nat
  BY DEF Exchanges
<1>2. x = [[e EXCEPT !.state = outcome] EXCEPT !.answers = n + 1]
  OBVIOUS
<1> HIDE DEF x, k, u, v, n, b
<1>3. x = [state |-> outcome, kind |-> k, uri |-> u, revision |-> v,
           answers |-> n + 1]
  BY <1>1, <1>2
<1>4. outcome \in {"unsent", "waiting", "result", "error"} /\ n + 1 \in Nat
  BY <1>1
<1>5. x \in Exchanges
  BY <1>1, <1>3, <1>4 DEF Exchanges
<1>6. /\ x.kind = k /\ x.uri = u /\ x.revision = v
      /\ x.state = outcome /\ x.answers = n + 1
  BY <1>3
<1> QED
  BY <1>5, <1>6 DEF x, k, u, v, n

Answers(s, a, R, outcome) ==
  /\ Good(a)
  /\ Keeps(s, a, {"requests"})
  /\ Replied(s, a, R, outcome)
  /\ Asked(a) = Asked(s)

LEMMA AnswerGood ==
  ASSUME NEW s, Good(s), NEW R, R \cap Requests \subseteq Asked(s),
         NEW outcome \in {"result", "error"}
  PROVE  Answers(s, Answer(s, R, outcome), R, outcome)
<1> DEFINE a == Answer(s, R, outcome)
<1>1. Shape(s) /\ s.requests \in [Requests -> Exchanges]
  BY DEF Good, MainTypes
<1>2. /\ Shape(a) /\ Keeps(s, a, {"requests"})
      /\ a.requests = [r \in Requests |->
           IF r \in R
           THEN [s.requests[r] EXCEPT !.state = outcome, !.answers = @ + 1]
           ELSE s.requests[r]]
  <2> DEFINE q == [r \in Requests |->
                    IF r \in R
                    THEN [s.requests[r] EXCEPT !.state = outcome, !.answers = @ + 1]
                    ELSE s.requests[r]]
  <2>1. a = [s EXCEPT !.requests = q]
    BY DEF Answer
  <2> HIDE DEF q, a
  <2>2. Shape(a) /\ Keeps(s, a, {"requests"}) /\ a.requests = q
    BY <1>1, <2>1 DEF Shape, Keeps, Fields
  <2> QED
    BY <2>2 DEF q
<1> HIDE DEF a
<1>3. \A r \in Requests :
        /\ a.requests[r] \in Exchanges
        /\ a.requests[r].kind = s.requests[r].kind
        /\ a.requests[r].uri = s.requests[r].uri
        /\ a.requests[r].state =
             IF r \in R THEN outcome ELSE s.requests[r].state
  <2> SUFFICES ASSUME NEW r \in Requests
               PROVE  /\ a.requests[r] \in Exchanges
                      /\ a.requests[r].kind = s.requests[r].kind
                      /\ a.requests[r].uri = s.requests[r].uri
                      /\ a.requests[r].state =
                           IF r \in R THEN outcome ELSE s.requests[r].state
    OBVIOUS
  <2> DEFINE e == s.requests[r]
             x == [e EXCEPT !.state = outcome, !.answers = @ + 1]
  <2>1. e \in Exchanges
    BY <1>1
  <2>2. a.requests[r] = IF r \in R THEN x ELSE e
    BY <1>2
  <2> HIDE DEF e
  <2>3. x \in Exchanges /\ x.kind = e.kind /\ x.uri = e.uri /\ x.state = outcome
    BY <2>1, ReplyType, Zenon
  <2> HIDE DEF x
  <2>4. /\ a.requests[r] \in Exchanges
        /\ a.requests[r].kind = e.kind /\ a.requests[r].uri = e.uri
        /\ a.requests[r].state = IF r \in R THEN outcome ELSE e.state
    <3>1. CASE r \in R
      BY <2>2, <2>3, <3>1
    <3>2. CASE r \notin R
      BY <2>1, <2>2, <3>2
    <3> QED
      BY <3>1, <3>2
  <2> QED
    BY <2>4 DEF e
<1>4. a.requests \in [Requests -> Exchanges]
  BY <1>2, <1>3
<1>5. Asked(a) = Asked(s)
  BY <1>3 DEF Asked
<1>6. MainTypes(a)
  BY <1>2, <1>4 DEF Good, MainTypes, Keeps, Fields
<1>7. Held(a) /\ PendingIssued(a)
  BY <1>2, <1>5 DEF Good, Held, PendingIssued, Keeps, Fields
<1> QED
  BY <1>2, <1>5, <1>6, <1>7 DEF Answers, Good, Replied, a

LEMMA RequestsAreMembers ==
  \A seq : RequestsIn(seq) = {w.request : w \in Members(seq)}
BY DEF RequestsIn, Members

LEMMA KeptRequests ==
  ASSUME NEW R, NEW seq \in Seq(R), NEW S
  PROVE  RequestsIn(Kept(seq, S)) = {w.request : w \in Members(seq) \cap S}
BY KeptProperties, RequestsAreMembers

(* Discarding empties one queue and answers what it held.                  *)
Discards(s, d, u) ==
  /\ Good(d)
  /\ Keeps(s, d, {"requests", "deferredRequests"})
  /\ Replied(s, d, RequestsIn(s.deferredRequests[u]), "error")
  /\ d.deferredRequests = [s.deferredRequests EXCEPT ![u] = << >>]

LEMMA DiscardGood ==
  ASSUME NEW s, Good(s), NEW u \in Uris
  PROVE  Discards(s, DiscardDeferredRequests(s, u), u)
<1> DEFINE R == RequestsIn(s.deferredRequests[u])
           a == Answer(s, R, "error")
           d == DiscardDeferredRequests(s, u)
<1>1. R \cap Requests \subseteq Asked(s)
  BY DEF Good, Held
<1> HIDE DEF R
<1>2. /\ Good(a) /\ Keeps(s, a, {"requests"}) /\ Replied(s, a, R, "error")
      /\ Asked(a) = Asked(s)
  BY <1>1, AnswerGood DEF Answers
<1>3. d = [a EXCEPT !.deferredRequests[u] = << >>]
  BY DEF DiscardDeferredRequests, R
<1> HIDE DEF a, d
<1>4. /\ Shape(a) /\ a.deferredRequests = s.deferredRequests
      /\ s.deferredRequests \in [Uris -> Seq(Waiters)]
  BY <1>2 DEF Good, MainTypes, Keeps, Fields
<1>5. /\ Shape(d) /\ Keeps(a, d, {"deferredRequests"})
      /\ d.deferredRequests = [s.deferredRequests EXCEPT ![u] = << >>]
  BY <1>3, <1>4 DEF Shape, Keeps, Fields
<1>6. << >> \in Seq(Waiters) /\ RequestsIn(<< >>) = {}
  BY EmptySeq DEF RequestsIn
<1>7. /\ d.deferredRequests \in [Uris -> Seq(Waiters)]
      /\ \A v \in Uris : d.deferredRequests[v] = IF v = u THEN << >>
                                                ELSE a.deferredRequests[v]
  BY <1>4, <1>5, <1>6
<1>8. MainTypes(d)
  BY <1>2, <1>5, <1>7 DEF Good, MainTypes, Keeps, Fields
<1>9. d.requests = a.requests
  BY <1>5 DEF Keeps, Fields
<1>10. Asked(d) = Asked(a)
  BY <1>9 DEF Asked
<1>11. Held(d) /\ PendingIssued(d)
  BY <1>2, <1>5, <1>6, <1>7, <1>10 DEF Good, Held, PendingIssued, Keeps, Fields
<1>12. Keeps(s, d, {"requests", "deferredRequests"})
  BY <1>2, <1>5 DEF Keeps
<1>13. Replied(s, d, R, "error")
  BY <1>2, <1>9 DEF Replied
<1> QED
  BY <1>2, <1>5, <1>8, <1>10, <1>11, <1>12, <1>13 DEF Discards, Good, R, d

(* Rejecting drops the token requests of some revisions and generations,   *)
(* and answers them.                                                       *)
Rejects(revisions, generations) ==
  [request : Requests, revision : revisions, generation : generations]

Drops(s, d, u, rejected) ==
  /\ Good(d)
  /\ Keeps(s, d, {"requests", "deferredTokens"})
  /\ Replied(s, d, RequestsIn(Kept(s.deferredTokens[u], rejected)), "error")
  /\ d.deferredTokens = [s.deferredTokens EXCEPT
       ![u] = Kept(s.deferredTokens[u], TokenWaiters \ rejected)]

LEMMA RejectGood ==
  ASSUME NEW s, Good(s), NEW u \in Uris, NEW revisions, NEW generations
  PROVE  Drops(s, RejectDeferredTokens(s, u, revisions, generations), u,
               Rejects(revisions, generations))
<1> DEFINE rejected == Rejects(revisions, generations)
           queue == s.deferredTokens[u]
           others == Kept(queue, TokenWaiters \ rejected)
           R == RequestsIn(Kept(queue, rejected))
           a == Answer(s, R, "error")
           d == RejectDeferredTokens(s, u, revisions, generations)
<1>0. /\ s.deferredTokens \in [Uris -> Seq(TokenWaiters)]
      /\ queue \in Seq(TokenWaiters)
  BY DEF Good, MainTypes
<1>1. RequestsIn(others) \subseteq RequestsIn(queue) /\ others \in Seq(TokenWaiters)
  BY <1>0, KeptProperties, RequestsAreMembers
<1>2. R \subseteq RequestsIn(queue)
  BY <1>0, KeptProperties, RequestsAreMembers
<1>3. RequestsIn(queue) \subseteq Asked(s)
  BY DEF Good, Held
<1> HIDE DEF R, others
<1>4. R \cap Requests \subseteq Asked(s)
  BY <1>2, <1>3
<1>5. /\ Good(a) /\ Keeps(s, a, {"requests"}) /\ Replied(s, a, R, "error")
      /\ Asked(a) = Asked(s)
  BY <1>4, AnswerGood DEF Answers
<1>6. d = [a EXCEPT !.deferredTokens[u] = Kept(@, TokenWaiters \ rejected)]
  BY DEF RejectDeferredTokens, R, Rejects
<1> HIDE DEF a, d
<1>7. Shape(a) /\ a.deferredTokens = s.deferredTokens
  BY <1>5 DEF Good, MainTypes, Keeps, Fields
<1>8. d = [a EXCEPT !.deferredTokens[u] = others]
  BY <1>6, <1>7 DEF others
<1>9. /\ Shape(d) /\ Keeps(a, d, {"deferredTokens"})
      /\ d.deferredTokens = [s.deferredTokens EXCEPT ![u] = others]
  BY <1>7, <1>8 DEF Shape, Keeps, Fields
<1>10. /\ d.deferredTokens \in [Uris -> Seq(TokenWaiters)]
       /\ \A v \in Uris : d.deferredTokens[v] = IF v = u THEN others
                                               ELSE a.deferredTokens[v]
  BY <1>0, <1>1, <1>7, <1>9
<1>11. MainTypes(d)
  BY <1>5, <1>9, <1>10 DEF Good, MainTypes, Keeps, Fields
<1>12. d.requests = a.requests
  BY <1>9 DEF Keeps, Fields
<1>13. Asked(d) = Asked(a)
  BY <1>12 DEF Asked
<1>14. \A v \in Uris : RequestsIn(d.deferredTokens[v]) \subseteq Asked(d)
  <2>1. \A v \in Uris : RequestsIn(a.deferredTokens[v]) \subseteq Asked(a)
    BY <1>5 DEF Good, Held
  <2>2. RequestsIn(others) \subseteq Asked(d)
    BY <1>1, <1>3, <1>5, <1>13
  <2> QED
    BY <1>10, <1>13, <2>1, <2>2
<1>15. Held(d) /\ PendingIssued(d)
  BY <1>5, <1>9, <1>13, <1>14 DEF Good, Held, PendingIssued, Keeps, Fields
<1>16. Keeps(s, d, {"requests", "deferredTokens"})
  BY <1>5, <1>9 DEF Keeps
<1>17. Replied(s, d, R, "error")
  BY <1>5, <1>12 DEF Replied
<1> QED
  BY <1>5, <1>9, <1>11, <1>13, <1>15, <1>16, <1>17 DEF Drops, Good, R, d, others

(* Cancelling a document's pending projection raises the flag of its task. *)
WithPending(d, p) == [d EXCEPT !.pending = p]

Flags(t, r, p) ==
  /\ r.retained = t.retained
  /\ r.sequence = t.sequence
  /\ r.cancelled = t.cancelled \union (IF p = NoPending THEN {} ELSE {p.sequence})

Stops(s, c, u) ==
  /\ Good(c)
  /\ Keeps(s, c, {"table", "documents"})
  /\ c.documents = [s.documents EXCEPT ![u] = WithPending(s.documents[u], NoPending)]
  /\ Flags(s.table, c.table, s.documents[u].pending)

LEMMA CancelGood ==
  ASSUME NEW s, Good(s), NEW u \in Uris
  PROVE  Stops(s, CancelPending(s, u), u)
<1> DEFINE c == CancelPending(s, u)
           p == s.documents[u].pending
           t == s.table
           docs == [s.documents EXCEPT ![u] = WithPending(s.documents[u], NoPending)]
<1>1. /\ Shape(s) /\ s.documents \in [Uris -> Documents] /\ Idle(t)
      /\ s.documents[u] \in Documents
  BY DEF Good, MainTypes
<1>2. CASE p = NoPending
  <2>1. c = s
    BY <1>2 DEF CancelPending, Document
  <2>2. docs = s.documents
    <3>1. WithPending(s.documents[u], NoPending) = s.documents[u]
      BY <1>1, <1>2 DEF Documents, WithPending
    <3> QED
      BY <1>1, <3>1
  <2>3. Flags(t, t, p)
    BY <1>2 DEF Flags
  <2> HIDE DEF docs, p, c
  <2>4. Keeps(s, s, {"table", "documents"})
    BY DEF Keeps
  <2> QED
    BY <2>1, <2>2, <2>3, <2>4 DEF Stops, docs, p, c
<1>3. CASE p # NoPending
  <2> DEFINE S == {p.sequence}
             r == [t EXCEPT !.cancelled = @ \union S]
  <2>1. p.sequence \in 1 .. t.sequence
    BY <1>3 DEF Good, PendingIssued
  <2>2. /\ Idle(r) /\ r.retained = t.retained /\ r.sequence = t.sequence
        /\ r.cancelled = t.cancelled \union {p.sequence}
    <3>1. Idle(t) /\ S \in SUBSET (1 .. t.sequence)
      BY <1>1, <2>1
    <3> HIDE DEF t, S
    <3>2. /\ Idle(r) /\ r.retained = t.retained /\ r.sequence = t.sequence
          /\ r.cancelled = t.cancelled \union S
      BY <3>1, FlagIdle
    <3> QED
      BY <3>2 DEF S
  <2>3. c = [s EXCEPT !.table = r, !.documents = docs]
    BY <1>3 DEF CancelPending, Document, WithPending
  <2> HIDE DEF r, docs, c
  <2>4. /\ Shape(c) /\ Keeps(s, c, {"table", "documents"})
        /\ c.table = r /\ c.documents = docs
    BY <1>1, <2>3 DEF Shape, Keeps, Fields
  <2>5. /\ docs \in [Uris -> Documents]
        /\ \A v \in Uris : v # u => docs[v] = s.documents[v]
        /\ docs[u].pending = NoPending
    <3>1. /\ WithPending(s.documents[u], NoPending) \in Documents
          /\ WithPending(s.documents[u], NoPending).pending = NoPending
      BY <1>1 DEF Documents, NoPending, WithPending
    <3> QED
      BY <1>1, <3>1 DEF docs
  <2>6. MainTypes(c)
    BY <2>2, <2>4, <2>5 DEF Good, MainTypes, Keeps, Fields
  <2>7. Held(c)
    BY <2>4 DEF Good, Held, Keeps, Fields, Asked
  <2>8. PendingIssued(c)
    BY <2>2, <2>4, <2>5 DEF Good, PendingIssued
  <2> QED
    BY <1>3, <2>2, <2>4, <2>6, <2>7, <2>8 DEF Stops, Flags, Good, docs, c
<1> QED
  BY <1>2, <1>3

NewTask(s, class, u) == NewIdentity(s.table, class, u, s.documents[u].revision)

LEMMA NewTableGood ==
  ASSUME NEW s, Good(s), NEW t, Shape(t), Keeps(s, t, {"table"}),
         Idle(t.table), t.table.sequence >= s.table.sequence
  PROVE  Good(t)
<1>1. MainTypes(t)
  BY DEF Good, MainTypes, Keeps, Fields
<1>2. Held(t)
  BY DEF Good, Held, Keeps, Fields, Asked
<1>3. PendingIssued(t)
  <2>1. t.documents = s.documents /\ s.table.sequence \in Nat /\ t.table.sequence \in Nat
    BY DEF Keeps, Fields, Good, MainTypes, Idle, IsTable
  <2>2. \A n \in 1 .. s.table.sequence : n \in 1 .. t.table.sequence
    BY <2>1
  <2> QED
    BY <2>1, <2>2 DEF Good, PendingIssued
<1> QED
  BY <1>1, <1>2, <1>3 DEF Good

AdmitsTask(s, t, class, u) ==
  /\ Good(t)
  /\ Keeps(s, t, {"table"})
  /\ CanAdmit(s, class, u) =>
       /\ Taken(s, class, u) = NewTask(s, class, u)
       /\ Takes(s.table, t.table, <<class, u>>, NewTask(s, class, u))
  /\ ~ CanAdmit(s, class, u) => Cancels(s.table, t.table, {<<class, u>>})

LEMMA TakeGood ==
  ASSUME NEW s, Good(s), NEW class \in Classes, NEW u \in Uris,
         s.documents[u].revision # 0
  PROVE  AdmitsTask(s, AdmitAndTake(s, class, u), class, u)
<1> DEFINE t == AdmitAndTake(s, class, u)
           key == <<class, u>>
           id == NewTask(s, class, u)
           d == s.documents[u]
           free == Remove(s.table, key)
           a == AfterAdmit(s, class, u)
           r == TakenFrom(a)
<1>1. /\ Shape(s) /\ Idle(s.table) /\ d \in Documents
      /\ d.revision \in Nat \ {0} /\ d.bytes \in Nat
  BY DEF Good, MainTypes, Documents
<1>2. key \in Keys /\ s.table.sequence \in Nat
  BY <1>1 DEF Keys, Idle, IsTable
<1>3. Idle(free) /\ Cancels(s.table, free, {key})
  BY <1>1, <1>2, RemoveIdle
<1>4. CASE CanAdmit(s, class, u)
  <2>1. Admits(s.table, class, u, d.bytes)
    BY <1>4 DEF CanAdmit, Document
  <2>2. a = Admit(s.table, class, u, d.revision, d.bytes)
    BY DEF AfterAdmit, Document
  <2>3. Idle(r) /\ TaskFrom(a) = id /\ Takes(s.table, r, key, id)
    <3>1. id = NewIdentity(s.table, class, u, d.revision)
      BY DEF NewTask
    <3> DEFINE table == s.table
               revision == d.revision
               bytes == d.bytes
    <3>2. /\ Idle(table) /\ revision \in Nat \ {0} /\ bytes \in Nat
          /\ Admits(table, class, u, bytes)
          /\ a = Admit(table, class, u, revision, bytes)
          /\ id = NewIdentity(table, class, u, revision)
      BY <1>1, <2>1, <2>2, <3>1
    <3> HIDE DEF a, id, d
    <3> HIDE DEF table, revision, bytes
    <3>3. Idle(r) /\ TaskFrom(a) = id /\ Takes(table, r, key, id)
      BY <3>2, TakeIdle
    <3> QED
      BY <3>3 DEF table
  <2>4. t = [s EXCEPT !.table = r]
    BY <1>4 DEF AdmitAndTake, TakenFrom
  <2>5. Taken(s, class, u) = id
    BY <2>3 DEF Taken, TaskFrom
  <2> HIDE DEF t, r, a, free, key, id
  <2>6. Shape(t) /\ Keeps(s, t, {"table"}) /\ t.table = r
    BY <1>1, <2>4 DEF Shape, Keeps, Fields
  <2>7. Good(t)
    BY <1>2, <2>3, <2>6, NewTableGood DEF Takes
  <2> QED
    BY <1>4, <2>3, <2>5, <2>6, <2>7 DEF AdmitsTask, t, key, id
<1>5. CASE ~ CanAdmit(s, class, u)
  <2>1. ~ Admits(s.table, class, u, d.bytes)
    BY <1>5 DEF CanAdmit, Document
  <2>2. a = free
    BY <2>1 DEF AfterAdmit, Document, Admit, Admits
  <2>3. t = [s EXCEPT !.table = a]
    BY <1>5 DEF AdmitAndTake
  <2> HIDE DEF t, r, a, free, key, id
  <2>4. Shape(t) /\ Keeps(s, t, {"table"}) /\ t.table = free
    BY <1>1, <2>2, <2>3 DEF Shape, Keeps, Fields
  <2>5. Good(t)
    <3>1. free.sequence = s.table.sequence
      BY <1>3 DEF Cancels
    <3> QED
      BY <1>2, <1>3, <2>4, <3>1, NewTableGood
  <2> QED
    BY <1>3, <1>5, <2>4, <2>5 DEF AdmitsTask, t, key, id
<1> QED
  BY <1>4, <1>5

-----------------------------------------------------------------------------
(* What every step keeps of the requests: which were sent, what they ask   *)
(* and of which revision.  A step that only rejects gives no result.       *)
Follows(s, t) ==
  /\ \A r \in Requests :
       /\ t.requests[r].kind = s.requests[r].kind
       /\ t.requests[r].uri = s.requests[r].uri
       /\ t.requests[r].revision = s.requests[r].revision
       /\ t.requests[r].state = "unsent" <=> s.requests[r].state = "unsent"
  /\ t.table.sequence >= s.table.sequence
GivesNoResult(s, t) ==
  \A r \in Requests :
    t.requests[r].state = "result" => s.requests[r].state = "result"
Rejecting(s, t) == Follows(s, t) /\ GivesNoResult(s, t)

LEMMA FollowsTrans ==
  ASSUME NEW s, Good(s), NEW t, Good(t), NEW v, Good(v), Follows(s, t), Follows(t, v)
  PROVE  Follows(s, v)
<1>1. s.table.sequence \in Nat /\ t.table.sequence \in Nat /\ v.table.sequence \in Nat
  BY DEF Good, MainTypes, Idle, IsTable
<1> QED
  BY <1>1 DEF Follows

LEMMA RejectingTrans ==
  ASSUME NEW s, Good(s), NEW t, Good(t), NEW v, Good(v),
         Rejecting(s, t), Rejecting(t, v)
  PROVE  Rejecting(s, v)
BY FollowsTrans DEF Rejecting, GivesNoResult

LEMMA KeepsRequests ==
  ASSUME NEW s, Good(s), NEW t, t.requests = s.requests,
         t.table.sequence >= s.table.sequence
  PROVE  Rejecting(s, t)
BY DEF Rejecting, Follows, GivesNoResult

LEMMA FollowsAsked ==
  ASSUME NEW s, NEW t, Follows(s, t)
  PROVE  Asked(t) = Asked(s)
BY DEF Follows, Asked

LEMMA RepliedFollows ==
  ASSUME NEW s, Good(s), NEW t, NEW R, R \cap Requests \subseteq Asked(s),
         NEW outcome \in {"result", "error"}, Replied(s, t, R, outcome),
         t.table = s.table
  PROVE  Follows(s, t) /\ (outcome = "error" => GivesNoResult(s, t))
<1>1. \A r \in Requests : s.requests[r] \in Exchanges
  BY DEF Good, MainTypes
<1>2. ASSUME NEW r \in Requests
      PROVE  /\ t.requests[r].kind = s.requests[r].kind
             /\ t.requests[r].uri = s.requests[r].uri
             /\ t.requests[r].revision = s.requests[r].revision
             /\ t.requests[r].state =
                  IF r \in R THEN outcome ELSE s.requests[r].state
             /\ r \in R => s.requests[r].state # "unsent"
  <2> DEFINE e == s.requests[r]
             x == [e EXCEPT !.state = outcome, !.answers = @ + 1]
  <2>1. e \in Exchanges
    BY <1>1
  <2>2. t.requests[r] = IF r \in R THEN x ELSE e
    BY DEF Replied
  <2>3. r \in R => e.state # "unsent"
    BY DEF Asked
  <2> HIDE DEF e
  <2>4. /\ x.kind = e.kind /\ x.uri = e.uri /\ x.revision = e.revision
        /\ x.state = outcome
    BY <2>1, ReplyType, Zenon
  <2> HIDE DEF x
  <2>5. CASE r \in R
    BY <2>2, <2>3, <2>4, <2>5 DEF e
  <2>6. CASE r \notin R
    BY <2>2, <2>6 DEF e
  <2> QED
    BY <2>5, <2>6
<1>3. s.table.sequence \in Nat
  BY DEF Good, MainTypes, Idle, IsTable
<1> QED
  BY <1>2, <1>3 DEF Follows, GivesNoResult

LEMMA DiscardRejecting ==
  ASSUME NEW s, Good(s), NEW u \in Uris
  PROVE  Rejecting(s, DiscardDeferredRequests(s, u))
<1> DEFINE R == RequestsIn(s.deferredRequests[u])
           d == DiscardDeferredRequests(s, u)
<1>0. Discards(s, d, u)
  BY DiscardGood
<1> HIDE DEF d
<1>1. Replied(s, d, R, "error") /\ d.table = s.table
  BY <1>0 DEF Discards, Keeps, Fields
<1>2. R \cap Requests \subseteq Asked(s)
  BY DEF Good, Held
<1> HIDE DEF R
<1>3. Follows(s, d) /\ GivesNoResult(s, d)
  BY <1>1, <1>2, RepliedFollows
<1> QED
  BY <1>3 DEF Rejecting, d

LEMMA RejectRejecting ==
  ASSUME NEW s, Good(s), NEW u \in Uris, NEW revisions, NEW generations
  PROVE  Rejecting(s, RejectDeferredTokens(s, u, revisions, generations))
<1> DEFINE queue == s.deferredTokens[u]
           R == RequestsIn(Kept(queue, Rejects(revisions, generations)))
           d == RejectDeferredTokens(s, u, revisions, generations)
<1>0. Drops(s, d, u, Rejects(revisions, generations))
  BY RejectGood
<1> HIDE DEF d
<1>1. Replied(s, d, R, "error") /\ d.table = s.table
  BY <1>0 DEF Drops, Keeps, Fields
<1>2. R \cap Requests \subseteq Asked(s)
  <2>1. queue \in Seq(TokenWaiters)
    BY DEF Good, MainTypes
  <2>2. R \subseteq RequestsIn(queue)
    BY <2>1, KeptRequests, RequestsAreMembers
  <2>3. RequestsIn(queue) \subseteq Asked(s)
    BY DEF Good, Held
  <2> QED
    BY <2>2, <2>3
<1> HIDE DEF R
<1>3. Follows(s, d) /\ GivesNoResult(s, d)
  BY <1>1, <1>2, RepliedFollows
<1> QED
  BY <1>3 DEF Rejecting, d

(* A document replaced by one whose pending projection is known.           *)
LEMMA NewDocumentGood ==
  ASSUME NEW s, Good(s), NEW t, Shape(t), Keeps(s, t, {"documents"}),
         NEW u \in Uris, NEW d \in Documents,
         t.documents = [s.documents EXCEPT ![u] = d],
         \/ d.pending \in {NoPending, s.documents[u].pending}
         \/ d.pending.sequence \in 1 .. s.table.sequence
  PROVE  Good(t) /\ Rejecting(s, t)
<1>1. /\ s.documents \in [Uris -> Documents] /\ t.table = s.table
      /\ s.table.sequence \in Nat /\ t.requests = s.requests
  BY DEF Good, MainTypes, Keeps, Fields, Idle, IsTable
<1>2. /\ t.documents \in [Uris -> Documents]
      /\ \A v \in Uris : t.documents[v] = IF v = u THEN d ELSE s.documents[v]
  BY <1>1
<1>3. MainTypes(t)
  BY <1>2 DEF Good, MainTypes, Keeps, Fields
<1>4. Held(t)
  BY DEF Good, Held, Keeps, Fields, Asked
<1>5. PendingIssued(t)
  BY <1>1, <1>2 DEF Good, PendingIssued
<1>6. Rejecting(s, t)
  BY <1>1, KeepsRequests
<1> QED
  BY <1>3, <1>4, <1>5, <1>6 DEF Good

WithRejected(d) == [d EXCEPT !.rejected = TRUE]

LEMMA RejectedType ==
  \A d \in Documents : /\ WithRejected(d) \in Documents
                       /\ WithRejected(d).pending = d.pending
BY DEF WithRejected, Documents

LEMMA OverloadParts ==
  ASSUME NEW s, Shape(s), NEW u \in Uris, u \in DOMAIN s.documents,
         NEW o, o = [s EXCEPT !.documents[u].rejected = TRUE]
  PROVE  /\ Shape(o) /\ Keeps(s, o, {"documents"})
         /\ o.documents = [s.documents EXCEPT ![u] = WithRejected(s.documents[u])]
<1> DEFINE d == WithRejected(s.documents[u])
<1>1. o = [s EXCEPT !.documents[u] = d]
  BY DEF WithRejected
<1> HIDE DEF d
<1>2. Shape(o) /\ Keeps(s, o, {"documents"}) /\ o.documents = [s.documents EXCEPT ![u] = d]
  BY <1>1 DEF Shape, Keeps, Fields
<1> QED
  BY <1>2 DEF d

LEMMA RejectedGood ==
  ASSUME NEW s, Good(s), NEW u \in Uris, NEW o, Shape(o), Keeps(s, o, {"documents"}),
         o.documents = [s.documents EXCEPT ![u] = WithRejected(s.documents[u])]
  PROVE  Good(o) /\ Rejecting(s, o)
<1>1. s.documents[u] \in Documents
  BY DEF Good, MainTypes
<1> DEFINE d == WithRejected(s.documents[u])
<1>2. d \in Documents /\ d.pending = s.documents[u].pending
  BY <1>1, RejectedType
<1>3. o.documents = [s.documents EXCEPT ![u] = d]
  OBVIOUS
<1> HIDE DEF d
<1> QED
  BY <1>2, <1>3, NewDocumentGood

LEMMA OverloadGood ==
  ASSUME NEW s, Good(s), NEW u \in Uris, NEW o, o = [s EXCEPT !.documents[u].rejected = TRUE]
  PROVE  /\ Good(o) /\ Rejecting(s, o) /\ Keeps(s, o, {"documents"})
         /\ o.documents = [s.documents EXCEPT ![u] = WithRejected(s.documents[u])]
<1>1. Shape(s) /\ u \in DOMAIN s.documents
  BY DEF Good, MainTypes
<1>2. /\ Shape(o) /\ Keeps(s, o, {"documents"})
      /\ o.documents = [s.documents EXCEPT ![u] = WithRejected(s.documents[u])]
  BY <1>1, OverloadParts
<1> QED
  BY <1>2, RejectedGood

(* A task admitted, with the job scheduled for it.                         *)
StartsTask(s, o, class, u, kind, g, r) ==
  /\ Keeps(s, o.s, {"table"})
  /\ Takes(s.table, o.s.table, <<class, u>>, NewTask(s, class, u))
  /\ o.jobs = Schedule(jobs, Job(NewTask(s, class, u), kind, g, r))

LEMMA TakeRejecting ==
  ASSUME NEW s, Good(s), NEW t, NEW class, NEW u, AdmitsTask(s, t, class, u)
  PROVE  Rejecting(s, t)
<1>1. t.requests = s.requests
  BY DEF AdmitsTask, Keeps, Fields
<1>2. t.table.sequence >= s.table.sequence
  <2>1. s.table.sequence \in Nat
    BY DEF Good, MainTypes, Idle, IsTable
  <2> QED
    BY <2>1 DEF AdmitsTask, Takes, Cancels
<1> QED
  BY <1>1, <1>2, KeepsRequests

LEMMA StartGood ==
  ASSUME NEW s, Good(s), NEW class \in Classes, NEW u \in Uris,
         s.documents[u].revision # 0, NEW kind, NEW g, NEW r,
         CanAdmit(s, class, u)
  PROVE  LET o == Start(s, class, u, kind, g, r)
         IN  /\ Good(o.s) /\ Rejecting(s, o.s)
             /\ StartsTask(s, o, class, u, kind, g, r)
             /\ o = Outcome(o.s, o.jobs)
<1> DEFINE t == AdmitAndTake(s, class, u)
           o == Start(s, class, u, kind, g, r)
<1>1. AdmitsTask(s, t, class, u)
  BY TakeGood
<1>2. /\ o.s = t
      /\ o.jobs = Schedule(jobs, Job(Taken(s, class, u), kind, g, r))
      /\ o = Outcome(o.s, o.jobs)
  BY DEF Start, Outcome
<1> HIDE DEF o, t
<1>3. Rejecting(s, t)
  BY <1>1, TakeRejecting
<1>4. Taken(s, class, u) = NewTask(s, class, u)
  BY <1>1 DEF AdmitsTask
<1> QED
  BY <1>1, <1>2, <1>3, <1>4 DEF AdmitsTask, StartsTask, o

(* admit_foreground: the task is retained, or the document is rejected.    *)
ForegroundAdmitted(s, o, u) ==
  /\ Good(o.s) /\ Rejecting(s, o.s)
  /\ \/ StartsTask(s, o, "foreground", u, "foreground", 0, NoRequest)
     \/ /\ Keeps(s, o.s, {"table", "documents"})
        /\ Cancels(s.table, o.s.table, {<<"foreground", u>>})
        /\ o.s.documents = [s.documents EXCEPT ![u] = WithRejected(s.documents[u])]
        /\ o.jobs = jobs

LEMMA AdmitForegroundGood ==
  ASSUME NEW s, Good(s), NEW u \in Uris, s.documents[u].revision # 0
  PROVE  ForegroundAdmitted(s, AdmitForeground(s, u), u)
<1> DEFINE o == AdmitForeground(s, u)
           class == "foreground"
<1>1. class \in Classes
  BY DEF Classes
<1>2. CASE CanAdmit(s, class, u)
  <2> DEFINE w == Start(s, class, u, "foreground", 0, NoRequest)
  <2>1. o = w
    BY <1>2 DEF AdmitForeground
  <2>2. /\ Good(w.s) /\ Rejecting(s, w.s)
        /\ StartsTask(s, w, class, u, "foreground", 0, NoRequest)
    BY <1>1, <1>2, StartGood
  <2> QED
    BY <2>1, <2>2 DEF ForegroundAdmitted
<1>3. CASE ~ CanAdmit(s, class, u)
  <2> DEFINE t == AdmitAndTake(s, class, u)
             q == [t EXCEPT !.documents[u].rejected = TRUE]
  <2>1. o.s = q /\ o.jobs = jobs
    BY <1>3 DEF AdmitForeground, Outcome
  <2>2. AdmitsTask(s, t, class, u)
    BY <1>1, TakeGood
  <2> HIDE DEF t, o
  <2>3. Good(t) /\ Rejecting(s, t)
    BY <2>2, TakeRejecting DEF AdmitsTask
  <2>4. q = [t EXCEPT !.documents[u].rejected = TRUE]
    OBVIOUS
  <2> HIDE DEF q
  <2>5. /\ Good(q) /\ Rejecting(t, q) /\ Keeps(t, q, {"documents"})
        /\ q.documents = [t.documents EXCEPT ![u] = WithRejected(t.documents[u])]
    BY <2>3, <2>4, OverloadGood
  <2>6. Rejecting(s, q)
    BY <2>3, <2>5, RejectingTrans
  <2>7. /\ t.documents = s.documents /\ q.table = t.table
        /\ Cancels(s.table, t.table, {<<class, u>>})
        /\ Keeps(s, q, {"table", "documents"})
    BY <1>3, <2>2, <2>5 DEF AdmitsTask, Keeps, Fields
  <2> QED
    BY <2>1, <2>5, <2>6, <2>7 DEF ForegroundAdmitted, o
<1> QED
  BY <1>2, <1>3

(* admit_semantic_after_foreground_runtime: the task is retained, or the   *)
(* document is rejected with what waited for it.                           *)
SemanticAdmitted(s, o, u) ==
  /\ Good(o.s) /\ Rejecting(s, o.s)
  /\ \/ StartsTask(s, o, "semantic", u, "semantic", 0, NoRequest)
     \/ /\ Keeps(s, o.s, {"table", "documents", "requests", "deferredRequests",
                         "deferredTokens"})
        /\ Cancels(s.table, o.s.table, {<<"semantic", u>>})
        /\ o.s.documents = [s.documents EXCEPT ![u] = WithRejected(s.documents[u])]
        /\ o.s.deferredRequests = [s.deferredRequests EXCEPT ![u] = << >>]
        /\ o.s.deferredTokens = [s.deferredTokens EXCEPT
             ![u] = Kept(s.deferredTokens[u],
                         TokenWaiters \ Rejects({s.documents[u].revision}, Nat))]
        /\ o.jobs = jobs

LEMMA AdmitSemanticGood ==
  ASSUME NEW s, Good(s), NEW u \in Uris, s.documents[u].revision # 0
  PROVE  SemanticAdmitted(s, AdmitSemantic(s, u), u)
<1> DEFINE o == AdmitSemantic(s, u)
           class == "semantic"
           revision == s.documents[u].revision
<1>1. class \in Classes
  BY DEF Classes
<1>2. CASE CanAdmit(s, class, u)
  <2> DEFINE w == Start(s, class, u, "semantic", 0, NoRequest)
  <2>1. o = w
    BY <1>2 DEF AdmitSemantic
  <2>2. /\ Good(w.s) /\ Rejecting(s, w.s)
        /\ StartsTask(s, w, class, u, "semantic", 0, NoRequest)
    BY <1>1, <1>2, StartGood
  <2> QED
    BY <2>1, <2>2 DEF SemanticAdmitted
<1>3. CASE ~ CanAdmit(s, class, u)
  <2> DEFINE t == AdmitAndTake(s, class, u)
             q == [t EXCEPT !.documents[u].rejected = TRUE]
             d == DiscardDeferredRequests(q, u)
             e == RejectDeferredTokens(d, u, {revision}, Nat)
  <2>1. o.s = e /\ o.jobs = jobs
    BY <1>3 DEF AdmitSemantic, Outcome, Document
  <2>2. AdmitsTask(s, t, class, u)
    BY <1>1, TakeGood
  <2> HIDE DEF t, o, revision
  <2>3. Good(t) /\ Rejecting(s, t)
    BY <2>2, TakeRejecting DEF AdmitsTask
  <2>4. q = [t EXCEPT !.documents[u].rejected = TRUE]
    OBVIOUS
  <2> HIDE DEF q
  <2>5. /\ Good(q) /\ Rejecting(t, q) /\ Keeps(t, q, {"documents"})
        /\ q.documents = [t.documents EXCEPT ![u] = WithRejected(t.documents[u])]
    BY <2>3, <2>4, OverloadGood
  <2>6. Discards(q, d, u) /\ Rejecting(q, d)
    BY <2>5, DiscardGood, DiscardRejecting
  <2> HIDE DEF d
  <2>7. Good(d)
    BY <2>6 DEF Discards
  <2>8. Drops(d, e, u, Rejects({revision}, Nat)) /\ Rejecting(d, e)
    BY <2>7, RejectGood, RejectRejecting
  <2> HIDE DEF e
  <2>9. Good(e)
    BY <2>8 DEF Drops
  <2>10. Rejecting(s, e)
    <3>1. Rejecting(s, q)
      BY <2>3, <2>5, RejectingTrans
    <3>2. Rejecting(s, d)
      BY <2>5, <2>6, <2>7, <3>1, RejectingTrans
    <3> QED
      BY <2>7, <2>8, <2>9, <3>2, RejectingTrans
  <2>11. /\ t.documents = s.documents
         /\ t.deferredRequests = s.deferredRequests
         /\ t.deferredTokens = s.deferredTokens
         /\ q.table = t.table /\ d.table = q.table /\ e.table = d.table
         /\ d.documents = q.documents /\ e.documents = d.documents
         /\ q.deferredRequests = t.deferredRequests
         /\ q.deferredTokens = t.deferredTokens
         /\ d.deferredTokens = q.deferredTokens
         /\ e.deferredRequests = d.deferredRequests
         /\ Cancels(s.table, t.table, {<<class, u>>})
    BY <1>3, <2>2, <2>5, <2>6, <2>8 DEF AdmitsTask, Discards, Drops, Keeps, Fields
  <2>12. Keeps(s, e, {"table", "documents", "requests", "deferredRequests",
                      "deferredTokens"})
    BY <2>2, <2>5, <2>6, <2>8 DEF AdmitsTask, Discards, Drops, Keeps, Fields
  <2>13. /\ e.documents = [s.documents EXCEPT ![u] = WithRejected(s.documents[u])]
         /\ e.deferredRequests = [s.deferredRequests EXCEPT ![u] = << >>]
         /\ e.deferredTokens = [s.deferredTokens EXCEPT
              ![u] = Kept(s.deferredTokens[u],
                          TokenWaiters \ Rejects({revision}, Nat))]
    BY <2>5, <2>6, <2>8, <2>11 DEF Discards, Drops
  <2> QED
    BY <2>1, <2>9, <2>10, <2>11, <2>12, <2>13 DEF SemanticAdmitted, o, revision
<1> QED
  BY <1>2, <1>3

(* admit_rich_semantic_tokens: nothing to do; or the projection becomes    *)
(* the pending one, in place of a former one whose flag is raised; or what *)
(* waited for it is rejected.                                              *)
Projection(s, u, g) ==
  [revision |-> s.documents[u].revision, generation |-> g,
   sequence |-> s.table.sequence + 1]

RichStarted(s, o, u, g) ==
  LET id == NewTask(s, "rich", u)
  IN  /\ Keeps(s, o.s, {"table", "documents"})
      /\ \E m : /\ Takes(s.table, m, <<"rich", u>>, id)
               /\ Flags(m, o.s.table, s.documents[u].pending)
      /\ o.s.documents = [s.documents EXCEPT
           ![u] = WithPending(s.documents[u], Projection(s, u, g))]
      /\ o.jobs = Schedule(jobs, Job(id, "rich", g, NoRequest))

RichRefused(s, o, u, g) ==
  /\ Keeps(s, o.s, {"table", "requests", "deferredTokens"})
  /\ Cancels(s.table, o.s.table, {<<"rich", u>>})
  /\ o.s.deferredTokens = [s.deferredTokens EXCEPT
       ![u] = Kept(s.deferredTokens[u],
                   TokenWaiters \ Rejects({s.documents[u].revision}, {g}))]
  /\ o.jobs = jobs

RichAdmitted(s, o, u, g) ==
  /\ Good(o.s) /\ Rejecting(s, o.s)
  /\ \/ /\ ~ (IsOpen(s, u) /\ NeedsRich(s, u, g))
        /\ o.s = s /\ o.jobs = jobs
     \/ /\ IsOpen(s, u) /\ NeedsRich(s, u, g)
        /\ RichStarted(s, o, u, g) \/ RichRefused(s, o, u, g)

LEMMA NothingRejected ==
  ASSUME NEW s, Good(s)
  PROVE  Rejecting(s, s)
<1>1. s.table.sequence \in Nat
  BY DEF Good, MainTypes, Idle, IsTable
<1> QED
  BY <1>1 DEF Rejecting, Follows, GivesNoResult

LEMMA PendingType ==
  ASSUME NEW d \in Documents,
         NEW p \in [revision : Nat, generation : Nat, sequence : Nat]
  PROVE  WithPending(d, p) \in Documents /\ WithPending(d, p).pending = p
BY DEF WithPending, Documents

LEMMA CancelRejecting ==
  ASSUME NEW s, Good(s), NEW c, NEW u, Stops(s, c, u)
  PROVE  Rejecting(s, c)
<1>1. s.table.sequence \in Nat
  BY DEF Good, MainTypes, Idle, IsTable
<1>2. c.requests = s.requests /\ c.table.sequence = s.table.sequence
  BY DEF Stops, Flags, Keeps, Fields
<1> QED
  BY <1>1, <1>2, KeepsRequests

LEMMA AdmitRichGood ==
  ASSUME NEW s, Good(s), NEW u \in Uris, NEW g \in Nat
  PROVE  RichAdmitted(s, AdmitRich(s, u, g), u, g)
<1> DEFINE o == AdmitRich(s, u, g)
           class == "rich"
           t == AdmitAndTake(s, class, u)
           d == s.documents[u]
           id == NewTask(s, class, u)
<1>1. CASE ~ (IsOpen(s, u) /\ NeedsRich(s, u, g))
  <2>1. o.s = s /\ o.jobs = jobs
    BY <1>1 DEF AdmitRich, Outcome
  <2> QED
    BY <1>1, <2>1, NothingRejected DEF RichAdmitted
<1>2. ASSUME IsOpen(s, u), NeedsRich(s, u, g)
      PROVE  /\ class \in Classes /\ d.revision # 0 /\ d \in Documents
             /\ AdmitsTask(s, t, class, u) /\ Good(t) /\ Rejecting(s, t)
             /\ s.table.sequence \in Nat
  <2>1. class \in Classes /\ d.revision # 0
    BY <1>2 DEF Classes, IsOpen, Document
  <2>2. AdmitsTask(s, t, class, u)
    BY <2>1, TakeGood
  <2> HIDE DEF t
  <2>3. Good(t) /\ Rejecting(s, t)
    BY <2>2, TakeRejecting DEF AdmitsTask
  <2> QED
    BY <2>1, <2>2, <2>3 DEF Good, MainTypes, Idle, IsTable
<1>3. CASE IsOpen(s, u) /\ NeedsRich(s, u, g) /\ CanAdmit(s, class, u)
  <2> DEFINE w == Start(s, class, u, "rich", g, NoRequest)
             c == CancelPending(t, u)
             p == Projection(s, u, g)
             v == [c EXCEPT !.documents[u].pending = p]
  <2>1. /\ class \in Classes /\ d.revision # 0 /\ d \in Documents
        /\ AdmitsTask(s, t, class, u) /\ Good(t) /\ Rejecting(s, t)
        /\ s.table.sequence \in Nat
    BY <1>2, <1>3
  <2>2. /\ w.s = t
        /\ w.jobs = Schedule(jobs, Job(Taken(s, class, u), "rich", g, NoRequest))
        /\ w = Outcome(w.s, w.jobs)
    BY DEF Start, Outcome
  <2>3. Taken(s, class, u) = id /\ id.sequence = s.table.sequence + 1
    BY <1>3, <2>1 DEF AdmitsTask, NewTask, NewIdentity
  <2>4. o = [w EXCEPT !.s = [CancelPending(@, u) EXCEPT !.documents[u].pending =
              [revision |-> d.revision, generation |-> g,
               sequence |-> Taken(s, class, u).sequence]]]
    BY <1>3 DEF AdmitRich, Document
  <2> HIDE DEF t, w, o, id
  <2>5. [revision |-> d.revision, generation |-> g,
         sequence |-> Taken(s, class, u).sequence] = p
    BY <2>3 DEF Projection
  <2> HIDE DEF p
  <2>6. w = [s |-> t, jobs |-> Schedule(jobs, Job(id, "rich", g, NoRequest))]
    BY <2>2, <2>3 DEF Outcome
  <2>7. o = [w EXCEPT !.s = [CancelPending(w.s, u) EXCEPT !.documents[u].pending = p]]
    BY <2>4, <2>5
  <2>8. o.s = v /\ o.jobs = Schedule(jobs, Job(id, "rich", g, NoRequest))
    BY <2>6, <2>7
  <2>9. Stops(t, c, u)
    BY <2>1, CancelGood
  <2> HIDE DEF c
  <2>10. Good(c) /\ Rejecting(t, c) /\ Shape(c)
    BY <2>1, <2>9, CancelRejecting DEF Stops, Good, MainTypes
  <2>11. /\ t.documents = s.documents
         /\ c.documents = [s.documents EXCEPT ![u] = WithPending(d, NoPending)]
         /\ s.documents \in [Uris -> Documents]
         /\ c.table.sequence = s.table.sequence + 1
    BY <1>3, <2>1, <2>9 DEF AdmitsTask, Takes, Stops, Flags, Keeps, Fields, Good, MainTypes
  <2>12. p \in [revision : Nat, generation : Nat, sequence : Nat]
         /\ p.sequence \in 1 .. c.table.sequence
    BY <2>1, <2>11 DEF Projection, p, Documents
  <2>13. WithPending(d, p) \in Documents /\ WithPending(d, p).pending = p
    BY <2>1, <2>12, PendingType
  <2>14. c.documents[u] = WithPending(d, NoPending)
    BY <2>11
  <2>15. [c.documents[u] EXCEPT !.pending = p] = WithPending(d, p)
    BY <2>1, <2>14 DEF WithPending, Documents
  <2>16. v = [c EXCEPT !.documents[u] = WithPending(d, p)]
    BY <2>15
  <2> HIDE DEF v
  <2>17. /\ Shape(v) /\ Keeps(c, v, {"documents"})
         /\ v.documents = [c.documents EXCEPT ![u] = WithPending(d, p)]
    BY <2>10, <2>16 DEF Shape, Keeps, Fields
  <2>18. Good(v) /\ Rejecting(c, v)
    BY <2>10, <2>12, <2>13, <2>17, NewDocumentGood
  <2>19. v.documents = [s.documents EXCEPT ![u] = WithPending(d, p)]
    BY <2>11, <2>17
  <2>20. Rejecting(s, v)
    <3>1. Rejecting(s, c)
      BY <2>1, <2>10, RejectingTrans
    <3> QED
      BY <2>10, <2>18, <3>1, RejectingTrans
  <2>21. Keeps(s, v, {"table", "documents"})
    BY <2>1, <2>9, <2>17 DEF AdmitsTask, Stops, Keeps
  <2>22. /\ Takes(s.table, t.table, <<class, u>>, id)
         /\ Flags(t.table, v.table, d.pending)
    <3>1. v.table = c.table
      BY <2>17 DEF Keeps, Fields
    <3> QED
      BY <1>3, <2>1, <2>9, <2>11, <3>1 DEF AdmitsTask, Stops, id
  <2>23. RichStarted(s, o, u, g)
    BY <2>8, <2>19, <2>21, <2>22 DEF RichStarted, id, p
  <2> QED
    BY <1>3, <2>8, <2>18, <2>20, <2>23 DEF RichAdmitted, o
<1>4. CASE IsOpen(s, u) /\ NeedsRich(s, u, g) /\ ~ CanAdmit(s, class, u)
  <2> DEFINE e == RejectDeferredTokens(t, u, {d.revision}, {g})
  <2>1. AdmitsTask(s, t, class, u) /\ Good(t) /\ Rejecting(s, t)
    BY <1>2, <1>4
  <2>2. o.s = e /\ o.jobs = jobs
    BY <1>4 DEF AdmitRich, Outcome, Document
  <2> HIDE DEF t, o, d
  <2>3. Drops(t, e, u, Rejects({d.revision}, {g})) /\ Rejecting(t, e)
    BY <2>1, RejectGood, RejectRejecting
  <2> HIDE DEF e
  <2>4. Good(e)
    BY <2>3 DEF Drops
  <2>5. Rejecting(s, e)
    BY <2>1, <2>3, <2>4, RejectingTrans
  <2>6. /\ t.deferredTokens = s.deferredTokens /\ e.table = t.table
        /\ Cancels(s.table, t.table, {<<class, u>>})
        /\ Keeps(s, e, {"table", "requests", "deferredTokens"})
    BY <1>4, <2>1, <2>3 DEF AdmitsTask, Drops, Keeps, Fields
  <2>7. e.deferredTokens = [s.deferredTokens EXCEPT
          ![u] = Kept(s.deferredTokens[u],
                      TokenWaiters \ Rejects({d.revision}, {g}))]
    BY <2>3, <2>6 DEF Drops
  <2>8. RichRefused(s, o, u, g)
    BY <2>2, <2>6, <2>7 DEF RichRefused, d
  <2> QED
    BY <1>4, <2>2, <2>4, <2>5, <2>8 DEF RichAdmitted, o
<1> QED
  BY <1>1, <1>3, <1>4

-----------------------------------------------------------------------------
(* What is deferred is current, the work retained is for the revision on   *)
(* screen, and the tokens shown are those of the generation the loop has   *)
(* observed, unless the client has been told or is about to be.            *)
SameStatus(d, e) ==
  /\ e.revision = d.revision
  /\ e.analysis = d.analysis
  /\ e.rejected = d.rejected

RequestsCurrent(s, u) ==
  /\ \A w \in Members(s.deferredRequests[u]) :
       /\ w.revision = s.documents[u].revision /\ w.revision # 0
       /\ ~ s.documents[u].analysis /\ ~ s.documents[u].rejected
       /\ s.requests[w.request].uri = u
       /\ s.requests[w.request].revision = w.revision
  /\ Len(s.deferredRequests[u]) <= DeferralLimit

TokensCurrent(s, u) ==
  /\ \A w \in Members(s.deferredTokens[u]) :
       /\ w.revision = s.documents[u].revision /\ w.revision # 0
       /\ ~ s.documents[u].rejected
       /\ s.requests[w.request].uri = u
       /\ s.requests[w.request].revision = w.revision
  /\ Len(s.deferredTokens[u]) <= DeferralLimit

QueuesCurrent(s) == \A u \in Uris : RequestsCurrent(s, u) /\ TokensCurrent(s, u)

Matched(s) ==
  \A k \in DOMAIN s.table.retained :
    s.table.retained[k].task.revision = s.documents[k[2]].revision

Announced(s) ==
  /\ s.lastGeneration <= generation
  /\ \A u \in Uris :
       /\ s.lastGeneration = generation =>
            s.shown[u].told \/ s.shown[u].generation = generation \/ s.refreshDirty
       /\ s.documents[u].revision = 0 => s.shown[u].told

(* A step on which revisions and diagnostics stand still, which observes   *)
(* no generation but the current one, and keeps each of these as it was.   *)
Steady(s, t) ==
  /\ \A u \in Uris : t.documents[u].revision = s.documents[u].revision
  /\ t.nextRevision = s.nextRevision
  /\ t.diagnostics = s.diagnostics
  /\ t.replays = s.replays
  /\ t.lastGeneration \in {s.lastGeneration, generation}

Stays(s, t) ==
  \A u \in Uris : /\ RequestsCurrent(s, u) => RequestsCurrent(t, u)
                  /\ TokensCurrent(s, u) => TokensCurrent(t, u)

Calm(s, t) ==
  /\ Good(t)
  /\ Follows(s, t)
  /\ Steady(s, t)
  /\ Stays(s, t)
  /\ Matched(s) => Matched(t)
  /\ Announced(s) => Announced(t)

Quiet(s, t) == Calm(s, t) /\ GivesNoResult(s, t)

LEMMA CalmTrans ==
  ASSUME NEW s, Good(s), NEW t, NEW v, Calm(s, t), Calm(t, v)
  PROVE  Calm(s, v)
<1>1. Good(t) /\ Good(v) /\ Follows(s, t) /\ Follows(t, v)
  BY DEF Calm
<1>2. Follows(s, v)
  BY <1>1, FollowsTrans
<1>3. Steady(s, v) /\ Stays(s, v)
  BY DEF Calm, Steady, Stays
<1> QED
  BY <1>1, <1>2, <1>3 DEF Calm

LEMMA QuietTrans ==
  ASSUME NEW s, Good(s), NEW t, NEW v, Quiet(s, t), Quiet(t, v)
  PROVE  Quiet(s, v)
<1>1. Calm(s, v)
  BY CalmTrans DEF Quiet
<1> QED
  BY <1>1 DEF Quiet, GivesNoResult

(* A queue some of whose members are gone.                                 *)
Thinned(q, p) == Members(p) \subseteq Members(q) /\ Len(p) <= Len(q)

LEMMA MembersType ==
  ASSUME NEW R, NEW q \in Seq(R)
  PROVE  Len(q) \in Nat /\ Members(q) \subseteq R
BY LenProperties, ElementOfSeq DEF Members

(* The retained tasks are former ones or of the revision on screen.        *)
Retains(s, t) ==
  \A k \in DOMAIN t.table.retained :
    \/ /\ k \in DOMAIN s.table.retained
       /\ t.table.retained[k] = s.table.retained[k]
    \/ t.table.retained[k].task.revision = s.documents[k[2]].revision

LEMMA MatchedKept ==
  ASSUME NEW s, Good(s), NEW t, Good(t), Retains(s, t), Matched(s),
         \A u \in Uris : t.documents[u].revision = s.documents[u].revision
  PROVE  Matched(t)
<1>1. \A k \in DOMAIN t.table.retained : k[2] \in Uris
  BY DEF Good, MainTypes, Idle, IsTable, IsMap, Keys
<1> QED
  BY <1>1 DEF Matched, Retains

LEMMA StaysAt ==
  ASSUME NEW s, Good(s), NEW t, Good(t), Follows(s, t), NEW u \in Uris,
         SameStatus(s.documents[u], t.documents[u])
  PROVE  /\ /\ Thinned(s.deferredRequests[u], t.deferredRequests[u])
            /\ RequestsCurrent(s, u)
            => RequestsCurrent(t, u)
         /\ /\ Thinned(s.deferredTokens[u], t.deferredTokens[u])
            /\ TokensCurrent(s, u)
            => TokensCurrent(t, u)
<1>1. /\ s.deferredRequests[u] \in Seq(Waiters) /\ t.deferredRequests[u] \in Seq(Waiters)
      /\ s.deferredTokens[u] \in Seq(TokenWaiters)
      /\ t.deferredTokens[u] \in Seq(TokenWaiters)
  BY DEF Good, MainTypes
<1>2. /\ Len(s.deferredRequests[u]) \in Nat /\ Len(t.deferredRequests[u]) \in Nat
      /\ Len(s.deferredTokens[u]) \in Nat /\ Len(t.deferredTokens[u]) \in Nat
      /\ \A w \in Members(t.deferredRequests[u]) : w.request \in Requests
      /\ \A w \in Members(t.deferredTokens[u]) : w.request \in Requests
  <2>1. /\ Len(s.deferredRequests[u]) \in Nat /\ Len(t.deferredRequests[u]) \in Nat
        /\ Len(s.deferredTokens[u]) \in Nat /\ Len(t.deferredTokens[u]) \in Nat
        /\ Members(t.deferredRequests[u]) \subseteq Waiters
        /\ Members(t.deferredTokens[u]) \subseteq TokenWaiters
    BY <1>1, MembersType
  <2>2. \A w \in Waiters : w.request \in Requests
    BY DEF Waiters
  <2>3. \A w \in TokenWaiters : w.request \in Requests
    BY DEF TokenWaiters
  <2> QED
    BY <2>1, <2>2, <2>3
<1>3. DeferralLimit \in Nat
  BY RuntimeAssumption
<1>4. ASSUME Thinned(s.deferredRequests[u], t.deferredRequests[u]), RequestsCurrent(s, u)
      PROVE  RequestsCurrent(t, u)
  BY <1>2, <1>3, <1>4 DEF Thinned, RequestsCurrent, SameStatus, Follows
<1>5. ASSUME Thinned(s.deferredTokens[u], t.deferredTokens[u]), TokensCurrent(s, u)
      PROVE  TokensCurrent(t, u)
  BY <1>2, <1>3, <1>5 DEF Thinned, TokensCurrent, SameStatus, Follows
<1> QED
  BY <1>4, <1>5

(* The steps that only drop what is deferred, or change the table.         *)
LEMMA CalmFrame ==
  ASSUME NEW s, Good(s), NEW t, Good(t), Follows(s, t), Retains(s, t),
         Keeps(s, t, {"table", "documents", "requests", "deferredRequests",
                      "deferredTokens"}),
         \A u \in Uris : SameStatus(s.documents[u], t.documents[u]),
         \A u \in Uris : Thinned(s.deferredRequests[u], t.deferredRequests[u]),
         \A u \in Uris : Thinned(s.deferredTokens[u], t.deferredTokens[u])
  PROVE  Calm(s, t)
<1>1. Steady(s, t)
  BY DEF Steady, SameStatus, Keeps, Fields
<1>2. Stays(s, t)
  BY StaysAt DEF Stays
<1>3. Matched(s) => Matched(t)
  BY <1>1, MatchedKept DEF Steady
<1>4. Announced(s) => Announced(t)
  <2>1. /\ t.lastGeneration = s.lastGeneration /\ t.shown = s.shown
        /\ t.refreshDirty = s.refreshDirty
    BY DEF Keeps, Fields
  <2> QED
    BY <1>1, <2>1 DEF Announced, Steady
<1> QED
  BY <1>1, <1>2, <1>3, <1>4 DEF Calm

LEMMA ThinnedSame ==
  ASSUME NEW R, NEW q \in Seq(R)
  PROVE  Thinned(q, q) /\ Thinned(q, << >>)
<1>1. Len(q) \in Nat /\ Len(q) >= 0 /\ Len(<< >>) = 0
  BY LenProperties, EmptySeq
<1> QED
  BY <1>1 DEF Thinned, Members

LEMMA ThinnedKept ==
  ASSUME NEW R, NEW q \in Seq(R), NEW S
  PROVE  Thinned(q, Kept(q, S))
BY KeptProperties DEF Thinned

LEMMA QueuesThin ==
  ASSUME NEW s, Good(s), NEW u \in Uris
  PROVE  /\ Thinned(s.deferredRequests[u], s.deferredRequests[u])
         /\ Thinned(s.deferredRequests[u], << >>)
         /\ Thinned(s.deferredTokens[u], s.deferredTokens[u])
         /\ Thinned(s.deferredTokens[u], << >>)
         /\ \A S : Thinned(s.deferredTokens[u], Kept(s.deferredTokens[u], S))
<1>1. /\ s.deferredRequests[u] \in Seq(Waiters)
      /\ s.deferredTokens[u] \in Seq(TokenWaiters)
  BY DEF Good, MainTypes
<1>2. \A S : Thinned(s.deferredTokens[u], Kept(s.deferredTokens[u], S))
  BY <1>1, ThinnedKept
<1> QED
  BY <1>1, <1>2, ThinnedSame

LEMMA SameRetained ==
  ASSUME NEW s, NEW t, t.table.retained = s.table.retained
  PROVE  Retains(s, t)
BY DEF Retains

LEMMA AnswerCalm ==
  ASSUME NEW s, Good(s), NEW R, R \cap Requests \subseteq Asked(s),
         NEW outcome \in {"result", "error"}
  PROVE  /\ Calm(s, Answer(s, R, outcome))
         /\ outcome = "error" => Quiet(s, Answer(s, R, outcome))
<1> DEFINE a == Answer(s, R, outcome)
<1>1. Answers(s, a, R, outcome)
  BY AnswerGood
<1> HIDE DEF a
<1>2. /\ Good(a) /\ Keeps(s, a, {"requests"}) /\ Replied(s, a, R, outcome)
      /\ a.table = s.table /\ a.documents = s.documents
      /\ a.deferredRequests = s.deferredRequests
      /\ a.deferredTokens = s.deferredTokens
  BY <1>1 DEF Answers, Keeps, Fields
<1>3. Follows(s, a) /\ (outcome = "error" => GivesNoResult(s, a))
  BY <1>2, RepliedFollows
<1>4. Retains(s, a)
  BY <1>2, SameRetained
<1>5. /\ \A u \in Uris : SameStatus(s.documents[u], a.documents[u])
      /\ \A u \in Uris : Thinned(s.deferredRequests[u], a.deferredRequests[u])
      /\ \A u \in Uris : Thinned(s.deferredTokens[u], a.deferredTokens[u])
  BY <1>2, QueuesThin DEF SameStatus
<1>6. Keeps(s, a, {"table", "documents", "requests", "deferredRequests",
                   "deferredTokens"})
  BY <1>2 DEF Keeps
<1>7. Calm(s, a)
  BY <1>2, <1>3, <1>4, <1>5, <1>6, CalmFrame
<1> QED
  BY <1>3, <1>7 DEF Quiet, a

LEMMA DiscardQuiet ==
  ASSUME NEW s, Good(s), NEW u \in Uris
  PROVE  Quiet(s, DiscardDeferredRequests(s, u))
<1> DEFINE d == DiscardDeferredRequests(s, u)
<1>1. Discards(s, d, u) /\ Rejecting(s, d)
  BY DiscardGood, DiscardRejecting
<1> HIDE DEF d
<1>2. /\ Good(d) /\ d.table = s.table /\ d.documents = s.documents
      /\ d.deferredRequests = [s.deferredRequests EXCEPT ![u] = << >>]
      /\ d.deferredTokens = s.deferredTokens
      /\ s.deferredRequests \in [Uris -> Seq(Waiters)]
  BY <1>1 DEF Discards, Keeps, Fields, Good, MainTypes
<1>3. \A v \in Uris : d.deferredRequests[v] = IF v = u THEN << >>
                                              ELSE s.deferredRequests[v]
  BY <1>2
<1>4. /\ \A v \in Uris : SameStatus(s.documents[v], d.documents[v])
      /\ \A v \in Uris : Thinned(s.deferredRequests[v], d.deferredRequests[v])
      /\ \A v \in Uris : Thinned(s.deferredTokens[v], d.deferredTokens[v])
  BY <1>2, <1>3, QueuesThin DEF SameStatus
<1>5. Retains(s, d)
  BY <1>2, SameRetained
<1>6. Keeps(s, d, {"table", "documents", "requests", "deferredRequests",
                   "deferredTokens"})
  BY <1>1 DEF Discards, Keeps
<1>7. Follows(s, d) /\ GivesNoResult(s, d)
  BY <1>1 DEF Rejecting
<1>8. Calm(s, d)
  BY <1>2, <1>4, <1>5, <1>6, <1>7, CalmFrame
<1> QED
  BY <1>7, <1>8 DEF Quiet, d

LEMMA RejectQuiet ==
  ASSUME NEW s, Good(s), NEW u \in Uris, NEW revisions, NEW generations
  PROVE  Quiet(s, RejectDeferredTokens(s, u, revisions, generations))
<1> DEFINE d == RejectDeferredTokens(s, u, revisions, generations)
           others == TokenWaiters \ Rejects(revisions, generations)
<1>1. Drops(s, d, u, Rejects(revisions, generations)) /\ Rejecting(s, d)
  BY RejectGood, RejectRejecting
<1> HIDE DEF d
<1>2. /\ Good(d) /\ d.table = s.table /\ d.documents = s.documents
      /\ d.deferredRequests = s.deferredRequests
      /\ d.deferredTokens = [s.deferredTokens EXCEPT
           ![u] = Kept(s.deferredTokens[u], others)]
      /\ s.deferredTokens \in [Uris -> Seq(TokenWaiters)]
  BY <1>1 DEF Drops, Keeps, Fields, Good, MainTypes
<1> HIDE DEF others
<1>3. \A v \in Uris : d.deferredTokens[v] =
        IF v = u THEN Kept(s.deferredTokens[u], others) ELSE s.deferredTokens[v]
  BY <1>2
<1>4. /\ \A v \in Uris : SameStatus(s.documents[v], d.documents[v])
      /\ \A v \in Uris : Thinned(s.deferredRequests[v], d.deferredRequests[v])
      /\ \A v \in Uris : Thinned(s.deferredTokens[v], d.deferredTokens[v])
  <2>1. \A v \in Uris : /\ Thinned(s.deferredRequests[v], s.deferredRequests[v])
                        /\ Thinned(s.deferredTokens[v], s.deferredTokens[v])
    BY QueuesThin
  <2>2. Thinned(s.deferredTokens[u], Kept(s.deferredTokens[u], others))
    BY QueuesThin
  <2> QED
    BY <1>2, <1>3, <2>1, <2>2 DEF SameStatus
<1>5. Retains(s, d)
  BY <1>2, SameRetained
<1>6. Keeps(s, d, {"table", "documents", "requests", "deferredRequests",
                   "deferredTokens"})
  BY <1>1 DEF Drops, Keeps
<1>7. Follows(s, d) /\ GivesNoResult(s, d)
  BY <1>1 DEF Rejecting
<1>8. Calm(s, d)
  BY <1>2, <1>4, <1>5, <1>6, <1>7, CalmFrame
<1> QED
  BY <1>7, <1>8 DEF Quiet, d

(* Changes of the table and of the token cache's projections alone.        *)
LEMMA QuietTable ==
  ASSUME NEW s, Good(s), NEW t, Good(t), Rejecting(s, t), Retains(s, t),
         Keeps(s, t, {"table", "documents"}),
         \A u \in Uris : SameStatus(s.documents[u], t.documents[u])
  PROVE  Quiet(s, t)
<1>1. /\ t.deferredRequests = s.deferredRequests
      /\ t.deferredTokens = s.deferredTokens
  BY DEF Keeps, Fields
<1>2. /\ \A u \in Uris : Thinned(s.deferredRequests[u], t.deferredRequests[u])
      /\ \A u \in Uris : Thinned(s.deferredTokens[u], t.deferredTokens[u])
  BY <1>1, QueuesThin
<1>3. Keeps(s, t, {"table", "documents", "requests", "deferredRequests",
                   "deferredTokens"})
  BY DEF Keeps
<1>4. Follows(s, t) /\ GivesNoResult(s, t)
  BY DEF Rejecting
<1>5. Calm(s, t)
  BY <1>2, <1>3, <1>4, CalmFrame
<1> QED
  BY <1>4, <1>5 DEF Quiet

LEMMA PendingStatus ==
  ASSUME NEW d \in Documents, NEW p
  PROVE  SameStatus(d, WithPending(d, p))
<1>1. d = [revision |-> d.revision, bytes |-> d.bytes,
           foreground |-> d.foreground, analysis |-> d.analysis,
           rejected |-> d.rejected, overlay |-> d.overlay, pending |-> d.pending]
  BY DEF Documents
<1> DEFINE e == [d EXCEPT !.pending = p]
<1>2. /\ e.revision = d.revision /\ e.analysis = d.analysis
      /\ e.rejected = d.rejected
  BY <1>1
<1> QED
  BY <1>2 DEF SameStatus, WithPending

LEMMA CancelQuiet ==
  ASSUME NEW s, Good(s), NEW u \in Uris
  PROVE  Quiet(s, CancelPending(s, u))
<1> DEFINE c == CancelPending(s, u)
           e == WithPending(s.documents[u], NoPending)
<1>1. Stops(s, c, u)
  BY CancelGood
<1> HIDE DEF c
<1>2. /\ Good(c) /\ Rejecting(s, c) /\ Keeps(s, c, {"table", "documents"})
      /\ c.table.retained = s.table.retained
      /\ s.documents \in [Uris -> Documents]
      /\ c.documents = [s.documents EXCEPT ![u] = e]
  BY <1>1, CancelRejecting DEF Stops, Flags, Good, MainTypes
<1>3. SameStatus(s.documents[u], e)
  BY <1>2, PendingStatus
<1> HIDE DEF e
<1>4. \A v \in Uris : SameStatus(s.documents[v], c.documents[v])
  BY <1>2, <1>3 DEF SameStatus
<1>5. Retains(s, c)
  BY <1>2, SameRetained
<1> QED
  BY <1>2, <1>4, <1>5, QuietTable DEF c

(* A job carries an issued task of an open document; a debug capture is    *)
(* that of a request asked about the revision it captures.                 *)
GoodJob(s, j) ==
  /\ j \in Jobs
  /\ j.task.revision # 0
  /\ j.task.sequence \in 1 .. s.table.sequence
  /\ j.task.class = IF j.kind = "debug" THEN "rich" ELSE j.kind
  /\ j.kind = "debug" =>
       /\ j.request \in Asked(s)
       /\ s.requests[j.request].kind = "debug"
       /\ s.requests[j.request].uri = j.task.uri
       /\ s.requests[j.request].revision = j.task.revision
  /\ j.kind # "debug" => j.request = NoRequest

Schedules(o) ==
  o.jobs = jobs \/ \E j : GoodJob(o.s, j) /\ o.jobs = Schedule(jobs, j)

LEMMA GoodJobKept ==
  ASSUME NEW s, Good(s), NEW t, Good(t), Follows(s, t), NEW j, GoodJob(s, j)
  PROVE  GoodJob(t, j)
<1>1. s.table.sequence \in Nat /\ t.table.sequence \in Nat
  BY DEF Good, MainTypes, Idle, IsTable
<1>2. t.table.sequence >= s.table.sequence /\ Asked(t) = Asked(s)
  BY FollowsAsked DEF Follows
<1>3. j.task.sequence \in 1 .. t.table.sequence
  BY <1>1, <1>2 DEF GoodJob
<1>4. j.kind = "debug" =>
        /\ j.request \in Asked(t)
        /\ t.requests[j.request].kind = "debug"
        /\ t.requests[j.request].uri = j.task.uri
        /\ t.requests[j.request].revision = j.task.revision
  BY <1>2 DEF GoodJob, Follows, Asked
<1> QED
  BY <1>3, <1>4 DEF GoodJob

LEMMA CancelsRetains ==
  ASSUME NEW s, NEW t, NEW K, Cancels(s.table, t.table, K)
  PROVE  Retains(s, t)
BY DEF Retains, Cancels

LEMMA TakesRetains ==
  ASSUME NEW s, NEW t, NEW class, NEW u, NEW m,
         Takes(s.table, m, <<class, u>>, NewTask(s, class, u)),
         t.table.retained = m.retained
  PROVE  Retains(s, t)
<1> DEFINE key == <<class, u>>
           id == NewTask(s, class, u)
<1>1. id.revision = s.documents[u].revision /\ key[2] = u
  BY DEF NewTask, NewIdentity
<1> HIDE DEF id, key
<1>2. /\ DOMAIN m.retained = (DOMAIN s.table.retained) \union {key}
      /\ \A k \in DOMAIN s.table.retained :
           k # key => m.retained[k] = s.table.retained[k]
      /\ m.retained[key].task = id
  BY DEF Takes, id, key
<1> QED
  BY <1>1, <1>2 DEF Retains

LEMMA NewTaskType ==
  ASSUME NEW s, Good(s), NEW class \in Classes, NEW u \in Uris
  PROVE  /\ NewTask(s, class, u) \in Identities
         /\ NewTask(s, class, u).class = class
         /\ NewTask(s, class, u).uri = u
         /\ NewTask(s, class, u).revision = s.documents[u].revision
         /\ NewTask(s, class, u).sequence = s.table.sequence + 1
<1>1. s.table.sequence \in Nat /\ s.documents[u] \in Documents
  BY DEF Good, MainTypes, Idle, IsTable
<1>2. s.documents[u].revision \in Nat
  BY <1>1 DEF Documents
<1> QED
  BY <1>1, <1>2 DEF NewTask, NewIdentity, Identities

(* A capture is for a request of this document and revision, other jobs   *)
(* are for none.                                                           *)
Captures(s, u, kind, r) ==
  IF kind = "debug"
  THEN /\ r \in Asked(s)
       /\ s.requests[r].kind = "debug"
       /\ s.requests[r].uri = u
       /\ s.requests[r].revision = s.documents[u].revision
  ELSE r = NoRequest

LEMMA NewJobGood ==
  ASSUME NEW s, Good(s), NEW u \in Uris, s.documents[u].revision # 0,
         NEW t, Good(t), Follows(s, t), t.table.sequence = s.table.sequence + 1,
         NEW kind \in {"foreground", "semantic", "rich", "debug"}, NEW g \in Nat,
         NEW r \in Requests \union {NoRequest}, Captures(s, u, kind, r),
         NEW class \in Classes, class = IF kind = "debug" THEN "rich" ELSE kind
  PROVE  GoodJob(t, Job(NewTask(s, class, u), kind, g, r))
<1> DEFINE id == NewTask(s, class, u)
           j == Job(id, kind, g, r)
<1>1. /\ id \in Identities /\ id.class = class /\ id.uri = u
      /\ id.revision = s.documents[u].revision
      /\ id.sequence = s.table.sequence + 1
  BY NewTaskType
<1> HIDE DEF id
<1>2. /\ j.task = id /\ j.kind = kind /\ j.request = r /\ j \in Jobs
  BY <1>1 DEF Job, Jobs
<1> HIDE DEF j
<1>3. j.task.sequence \in 1 .. t.table.sequence
  <2>1. s.table.sequence \in Nat
    BY DEF Good, MainTypes, Idle, IsTable
  <2> QED
    BY <1>1, <1>2, <2>1
<1>4. kind = "debug" =>
        /\ r \in Asked(t)
        /\ t.requests[r].kind = "debug"
        /\ t.requests[r].uri = u
        /\ t.requests[r].revision = s.documents[u].revision
  <2>1. Asked(t) = Asked(s)
    BY FollowsAsked
  <2> QED
    BY <2>1 DEF Captures, Follows, Asked
<1>5. kind # "debug" => r = NoRequest
  BY DEF Captures
<1>6. GoodJob(t, j)
  BY <1>1, <1>2, <1>3, <1>4, <1>5 DEF GoodJob
<1> QED
  BY <1>6 DEF j, id

LEMMA StartQuiet ==
  ASSUME NEW s, Good(s), NEW o, Good(o.s), Rejecting(s, o.s), NEW u \in Uris,
         s.documents[u].revision # 0, NEW class \in Classes,
         NEW kind \in {"foreground", "semantic", "rich", "debug"}, NEW g \in Nat,
         NEW r \in Requests \union {NoRequest}, Captures(s, u, kind, r),
         class = IF kind = "debug" THEN "rich" ELSE kind,
         StartsTask(s, o, class, u, kind, g, r)
  PROVE  Quiet(s, o.s) /\ Schedules(o)
<1> DEFINE t == o.s
           id == NewTask(s, class, u)
<1>1. /\ Keeps(s, t, {"table"}) /\ Takes(s.table, t.table, <<class, u>>, id)
      /\ o.jobs = Schedule(jobs, Job(id, kind, g, r))
  BY DEF StartsTask
<1> HIDE DEF id, t
<1>2. /\ Keeps(s, t, {"table", "documents"}) /\ t.documents = s.documents
      /\ t.table.sequence = s.table.sequence + 1
  BY <1>1 DEF Keeps, Fields, Takes
<1>3. Good(t) /\ Rejecting(s, t) /\ Follows(s, t)
  BY DEF t, Rejecting
<1>4. Retains(s, t)
  BY <1>1, TakesRetains DEF id
<1>5. \A v \in Uris : SameStatus(s.documents[v], t.documents[v])
  BY <1>2 DEF SameStatus
<1>6. Quiet(s, t)
  BY <1>2, <1>3, <1>4, <1>5, QuietTable
<1>7. GoodJob(t, Job(id, kind, g, r))
  BY <1>2, <1>3, NewJobGood DEF id
<1> QED
  BY <1>1, <1>6, <1>7 DEF Schedules, t

LEMMA CalmParts ==
  ASSUME NEW s, Good(s), NEW t, Good(t), Follows(s, t), Retains(s, t), Stays(s, t),
         Keeps(s, t, {"table", "documents", "requests", "deferredRequests",
                      "deferredTokens"}),
         \A u \in Uris : t.documents[u].revision = s.documents[u].revision
  PROVE  Calm(s, t)
<1>1. Steady(s, t)
  BY DEF Steady, Keeps, Fields
<1>2. Matched(s) => Matched(t)
  BY MatchedKept
<1>3. Announced(s) => Announced(t)
  <2>1. /\ t.lastGeneration = s.lastGeneration /\ t.shown = s.shown
        /\ t.refreshDirty = s.refreshDirty
    BY DEF Keeps, Fields
  <2> QED
    BY <1>1, <2>1 DEF Announced, Steady
<1> QED
  BY <1>1, <1>2, <1>3 DEF Calm

LEMMA EmptyCurrent ==
  ASSUME NEW s, NEW u
  PROVE  /\ s.deferredRequests[u] = << >> => RequestsCurrent(s, u)
         /\ s.deferredTokens[u] = << >> => TokensCurrent(s, u)
<1>1. Members(<< >>) = {} /\ Len(<< >>) = 0 /\ DeferralLimit \in Nat
  BY EmptySeq, RuntimeAssumption DEF Members
<1> QED
  BY <1>1 DEF RequestsCurrent, TokensCurrent

LEMMA RejectedStatus ==
  ASSUME NEW d \in Documents
  PROVE  WithRejected(d).revision = d.revision
BY DEF WithRejected, Documents

LEMMA AdmitForegroundQuiet ==
  ASSUME NEW s, Good(s), NEW u \in Uris, s.documents[u].revision # 0,
         s.deferredRequests[u] = << >>, s.deferredTokens[u] = << >>
  PROVE  /\ Quiet(s, AdmitForeground(s, u).s)
         /\ Schedules(AdmitForeground(s, u))
<1> DEFINE o == AdmitForeground(s, u)
           t == o.s
           e == WithRejected(s.documents[u])
<1>1. ForegroundAdmitted(s, o, u)
  BY AdmitForegroundGood
<1> HIDE DEF o
<1>2. Good(o.s) /\ Rejecting(s, o.s)
  BY <1>1 DEF ForegroundAdmitted
<1>3. CASE StartsTask(s, o, "foreground", u, "foreground", 0, NoRequest)
  <2>1. "foreground" \in Classes /\ Captures(s, u, "foreground", NoRequest)
    BY DEF Classes, Captures
  <2> QED
    BY <1>2, <1>3, <2>1, StartQuiet DEF o
<1>4. CASE /\ Keeps(s, o.s, {"table", "documents"})
           /\ Cancels(s.table, o.s.table, {<<"foreground", u>>})
           /\ o.s.documents = [s.documents EXCEPT ![u] = e]
           /\ o.jobs = jobs
  <2> HIDE DEF e
  <2>1. /\ t.deferredRequests = s.deferredRequests
        /\ t.deferredTokens = s.deferredTokens
        /\ s.documents \in [Uris -> Documents]
        /\ Good(t) /\ Follows(s, t) /\ GivesNoResult(s, t)
    BY <1>2, <1>4 DEF Keeps, Fields, Good, MainTypes, Rejecting
  <2>2. \A v \in Uris : v # u => SameStatus(s.documents[v], t.documents[v])
    BY <1>4, <2>1 DEF SameStatus
  <2>3. Stays(s, t)
    <3>1. RequestsCurrent(t, u) /\ TokensCurrent(t, u)
      BY <2>1, EmptyCurrent
    <3> QED
      BY <2>1, <2>2, <3>1, StaysAt, QueuesThin DEF Stays
  <2>4. \A v \in Uris : t.documents[v].revision = s.documents[v].revision
    <3>1. e.revision = s.documents[u].revision
      BY <2>1, RejectedStatus DEF e
    <3> QED
      BY <1>4, <2>1, <3>1
  <2>5. Retains(s, t)
    BY <1>4, CancelsRetains
  <2>6. Keeps(s, t, {"table", "documents", "requests", "deferredRequests",
                     "deferredTokens"})
    BY <1>4 DEF Keeps
  <2>7. Calm(s, t)
    BY <2>1, <2>3, <2>4, <2>5, <2>6, CalmParts
  <2> QED
    BY <1>4, <2>1, <2>7 DEF Quiet, Schedules, o
<1> QED
  BY <1>1, <1>3, <1>4 DEF ForegroundAdmitted

LEMMA RevisionRejected ==
  ASSUME NEW s, Good(s), NEW u \in Uris, TokensCurrent(s, u),
         NEW revision, revision = s.documents[u].revision
  PROVE  Kept(s.deferredTokens[u], TokenWaiters \ Rejects({revision}, Nat)) = << >>
<1> DEFINE q == s.deferredTokens[u]
           S == TokenWaiters \ Rejects({revision}, Nat)
           k == Kept(q, S)
<1>1. q \in Seq(TokenWaiters)
  BY DEF Good, MainTypes
<1>2. Members(q) \subseteq TokenWaiters
  BY <1>1, MembersType
<1>3. \A w \in Members(q) : w.revision = revision
  BY DEF TokensCurrent
<1>4. \A w \in TokenWaiters : w.revision = revision => w \in Rejects({revision}, Nat)
  BY DEF TokenWaiters, Rejects
<1> HIDE DEF q
<1>5. Members(q) \cap S = {}
  BY <1>2, <1>3, <1>4
<1> HIDE DEF S
<1>6. Members(k) = {} /\ k \in Seq(TokenWaiters)
  BY <1>1, <1>5, KeptProperties
<1> HIDE DEF k
<1>7. Len(k) = 0
  <2>1. Len(k) \in Nat
    BY <1>6, LenProperties
  <2>2. Len(k) # 0 => k[1] \in Members(k)
    BY <2>1 DEF Members
  <2> QED
    BY <1>6, <2>1, <2>2
<1>8. k = << >>
  BY <1>6, <1>7, EmptySeq
<1> QED
  BY <1>8 DEF k, S, q

LEMMA AdmitSemanticQuiet ==
  ASSUME NEW s, Good(s), NEW u \in Uris, s.documents[u].revision # 0
  PROVE  /\ Quiet(s, AdmitSemantic(s, u).s)
         /\ Schedules(AdmitSemantic(s, u))
<1> DEFINE o == AdmitSemantic(s, u)
           t == o.s
           e == WithRejected(s.documents[u])
           k == Kept(s.deferredTokens[u],
                     TokenWaiters \ Rejects({s.documents[u].revision}, Nat))
<1>1. SemanticAdmitted(s, o, u)
  BY AdmitSemanticGood
<1> HIDE DEF o
<1>2. Good(o.s) /\ Rejecting(s, o.s)
  BY <1>1 DEF SemanticAdmitted
<1>3. CASE StartsTask(s, o, "semantic", u, "semantic", 0, NoRequest)
  <2>1. "semantic" \in Classes /\ Captures(s, u, "semantic", NoRequest)
    BY DEF Classes, Captures
  <2> QED
    BY <1>2, <1>3, <2>1, StartQuiet DEF o
<1>4. CASE ~ StartsTask(s, o, "semantic", u, "semantic", 0, NoRequest)
  <2>0. /\ Keeps(s, t, {"table", "documents", "requests", "deferredRequests",
                        "deferredTokens"})
        /\ Cancels(s.table, t.table, {<<"semantic", u>>})
        /\ t.documents = [s.documents EXCEPT ![u] = e]
        /\ t.deferredRequests = [s.deferredRequests EXCEPT ![u] = << >>]
        /\ t.deferredTokens = [s.deferredTokens EXCEPT ![u] = k]
        /\ o.jobs = jobs
    BY <1>1, <1>4 DEF SemanticAdmitted
  <2>1. /\ s.documents \in [Uris -> Documents]
        /\ s.deferredRequests \in [Uris -> Seq(Waiters)]
        /\ s.deferredTokens \in [Uris -> Seq(TokenWaiters)]
        /\ Good(t) /\ Follows(s, t) /\ GivesNoResult(s, t)
    BY <1>2 DEF Good, MainTypes, Rejecting
  <2>2. TokensCurrent(s, u) => k = << >>
    BY RevisionRejected
  <2> HIDE DEF e, t, k
  <2>3. /\ \A v \in Uris : v # u => SameStatus(s.documents[v], t.documents[v])
        /\ \A v \in Uris : v # u => t.deferredRequests[v] = s.deferredRequests[v]
        /\ \A v \in Uris : v # u => t.deferredTokens[v] = s.deferredTokens[v]
        /\ t.deferredRequests[u] = << >> /\ t.deferredTokens[u] = k
    BY <2>0, <2>1 DEF SameStatus
  <2>4. Stays(s, t)
    <3>1. RequestsCurrent(t, u) /\ (TokensCurrent(s, u) => TokensCurrent(t, u))
      BY <2>2, <2>3, EmptyCurrent
    <3>2. ASSUME NEW v \in Uris, v # u
          PROVE  /\ RequestsCurrent(s, v) => RequestsCurrent(t, v)
                 /\ TokensCurrent(s, v) => TokensCurrent(t, v)
      BY <2>1, <2>3, <3>2, StaysAt, QueuesThin
    <3> QED
      BY <3>1, <3>2 DEF Stays
  <2>5. \A v \in Uris : t.documents[v].revision = s.documents[v].revision
    <3>1. e.revision = s.documents[u].revision
      BY <2>1, RejectedStatus DEF e
    <3> QED
      BY <2>0, <2>1, <3>1
  <2>6. Retains(s, t)
    BY <2>0, CancelsRetains
  <2>7. Calm(s, t)
    BY <2>0, <2>1, <2>4, <2>5, <2>6, CalmParts
  <2> QED
    BY <2>0, <2>1, <2>7 DEF Quiet, Schedules, o, t
<1> QED
  BY <1>3, <1>4

LEMMA QuietSelf ==
  ASSUME NEW s, Good(s)
  PROVE  Quiet(s, s)
<1>1. Rejecting(s, s)
  BY NothingRejected
<1> QED
  BY <1>1 DEF Quiet, Calm, Rejecting, Steady, Stays

LEMMA AdmitRichQuiet ==
  ASSUME NEW s, Good(s), NEW u \in Uris, NEW g \in Nat
  PROVE  /\ Quiet(s, AdmitRich(s, u, g).s)
         /\ Schedules(AdmitRich(s, u, g))
<1> DEFINE o == AdmitRich(s, u, g)
           t == o.s
<1>1. RichAdmitted(s, o, u, g)
  BY AdmitRichGood
<1> HIDE DEF o
<1>2. Good(t) /\ Rejecting(s, t) /\ Follows(s, t) /\ GivesNoResult(s, t)
  BY <1>1 DEF RichAdmitted, Rejecting
<1>3. CASE t = s /\ o.jobs = jobs
  BY <1>3, QuietSelf DEF Schedules, o
<1>4. CASE IsOpen(s, u) /\ RichStarted(s, o, u, g)
  <2> DEFINE id == NewTask(s, "rich", u)
             e == WithPending(s.documents[u], Projection(s, u, g))
  <2>1. PICK m : /\ Takes(s.table, m, <<"rich", u>>, id)
                 /\ Flags(m, t.table, s.documents[u].pending)
    BY <1>4 DEF RichStarted
  <2>2. /\ Keeps(s, t, {"table", "documents"})
        /\ t.documents = [s.documents EXCEPT ![u] = e]
        /\ o.jobs = Schedule(jobs, Job(id, "rich", g, NoRequest))
    BY <1>4 DEF RichStarted
  <2>3. /\ s.documents[u].revision # 0 /\ s.documents \in [Uris -> Documents]
        /\ "rich" \in Classes /\ Captures(s, u, "rich", NoRequest)
    BY <1>4 DEF IsOpen, Document, Classes, Captures, Good, MainTypes
  <2>4. SameStatus(s.documents[u], e)
    BY <2>3, PendingStatus
  <2> HIDE DEF e, t, id
  <2>5. \A v \in Uris : SameStatus(s.documents[v], t.documents[v])
    BY <2>2, <2>3, <2>4 DEF SameStatus
  <2>6. t.table.retained = m.retained /\ t.table.sequence = s.table.sequence + 1
    BY <2>1 DEF Flags, Takes
  <2>7. Retains(s, t)
    BY <2>1, <2>6, TakesRetains DEF id
  <2>8. Quiet(s, t)
    BY <1>2, <2>2, <2>5, <2>7, QuietTable
  <2>9. GoodJob(t, Job(id, "rich", g, NoRequest))
    BY <1>2, <2>3, <2>6, NewJobGood DEF id
  <2> QED
    BY <2>2, <2>8, <2>9 DEF Schedules, t, o
<1>5. CASE RichRefused(s, o, u, g)
  <2> DEFINE k == Kept(s.deferredTokens[u],
                       TokenWaiters \ Rejects({s.documents[u].revision}, {g}))
  <2>1. /\ Keeps(s, t, {"table", "requests", "deferredTokens"})
        /\ Cancels(s.table, t.table, {<<"rich", u>>})
        /\ t.deferredTokens = [s.deferredTokens EXCEPT ![u] = k]
        /\ o.jobs = jobs
    BY <1>5 DEF RichRefused
  <2>2. Thinned(s.deferredTokens[u], k)
    BY QueuesThin
  <2> HIDE DEF k, t
  <2>3. /\ t.documents = s.documents /\ t.deferredRequests = s.deferredRequests
        /\ s.deferredTokens \in [Uris -> Seq(TokenWaiters)]
        /\ Keeps(s, t, {"table", "documents", "requests", "deferredRequests",
                        "deferredTokens"})
    BY <2>1 DEF Keeps, Fields, Good, MainTypes
  <2>4. /\ \A v \in Uris : SameStatus(s.documents[v], t.documents[v])
        /\ \A v \in Uris : Thinned(s.deferredRequests[v], t.deferredRequests[v])
    BY <2>3, QueuesThin DEF SameStatus
  <2>5. \A v \in Uris : Thinned(s.deferredTokens[v], t.deferredTokens[v])
    BY <2>1, <2>2, <2>3, QueuesThin
  <2>6. Retains(s, t)
    BY <2>1, CancelsRetains
  <2>7. Calm(s, t)
    BY <1>2, <2>3, <2>4, <2>5, <2>6, CalmFrame
  <2> QED
    BY <1>2, <2>1, <2>7 DEF Quiet, Schedules, t, o
<1> QED
  BY <1>1, <1>3, <1>4, <1>5 DEF RichAdmitted

(* request_semantic_tokens_refresh_effect: the client is told, or will be. *)
Refreshes(s, t) ==
  /\ Good(t)
  /\ Keeps(s, t, {"refreshInFlight", "refreshDirty", "shown"})
  /\ t.refreshDirty \/ \A u \in Uris : t.shown[u].told
  /\ \A u \in Uris : s.shown[u].told => t.shown[u].told

LEMMA RefreshGood ==
  ASSUME NEW s, Good(s)
  PROVE  Refreshes(s, RequestRefresh(s))
<1> DEFINE t == RequestRefresh(s)
           told == [u \in Uris |-> [s.shown[u] EXCEPT !.told = TRUE]]
<1>1. Shape(s) /\ s.shown \in [Uris -> Tokens]
  BY DEF Good, MainTypes
<1>2. told \in [Uris -> Tokens] /\ \A u \in Uris : told[u].told
  <2>1. \A d \in Tokens : /\ [d EXCEPT !.told = TRUE] \in Tokens
                          /\ [d EXCEPT !.told = TRUE].told
    BY DEF Tokens
  <2> QED
    BY <1>1, <2>1
<1>3. CASE s.refreshInFlight
  <2>1. t = [s EXCEPT !.refreshDirty = TRUE]
    BY <1>3 DEF RequestRefresh
  <2> HIDE DEF t
  <2>2. /\ Shape(t) /\ Keeps(s, t, {"refreshDirty"}) /\ t.refreshDirty = TRUE
    BY <1>1, <2>1 DEF Shape, Keeps, Fields
  <2>3. MainTypes(t)
    BY <2>2 DEF Good, MainTypes, Keeps, Fields
  <2>4. Held(t) /\ PendingIssued(t)
    BY <2>2 DEF Good, Held, PendingIssued, Asked, Keeps, Fields
  <2>5. Keeps(s, t, {"refreshInFlight", "refreshDirty", "shown"}) /\ t.shown = s.shown
    BY <2>2 DEF Keeps, Fields
  <2> QED
    BY <2>2, <2>3, <2>4, <2>5 DEF Refreshes, Good, t
<1>4. CASE ~ s.refreshInFlight
  <2>1. t = [s EXCEPT !.refreshInFlight = TRUE, !.shown = told]
    BY <1>4 DEF RequestRefresh
  <2> HIDE DEF t, told
  <2>2. /\ Shape(t) /\ Keeps(s, t, {"refreshInFlight", "shown"})
        /\ t.refreshInFlight = TRUE /\ t.shown = told
    BY <1>1, <2>1 DEF Shape, Keeps, Fields
  <2>3. MainTypes(t)
    BY <1>2, <2>2 DEF Good, MainTypes, Keeps, Fields
  <2>4. Held(t) /\ PendingIssued(t)
    BY <2>2 DEF Good, Held, PendingIssued, Asked, Keeps, Fields
  <2>5. Keeps(s, t, {"refreshInFlight", "refreshDirty", "shown"})
    BY <2>2 DEF Keeps, Fields
  <2> QED
    BY <1>2, <2>2, <2>3, <2>4, <2>5 DEF Refreshes, Good, t
<1> QED
  BY <1>3, <1>4

(* Told or about to be told, the client is not left behind.                *)
LEMMA RefreshAnnounces ==
  ASSUME NEW s, NEW t, Refreshes(s, t), s.lastGeneration <= generation,
         \A u \in Uris : s.documents[u].revision = 0 => s.shown[u].told
  PROVE  Announced(t)
<1>1. t.lastGeneration = s.lastGeneration /\ t.documents = s.documents
  BY DEF Refreshes, Keeps, Fields
<1> QED
  BY <1>1 DEF Refreshes, Announced

LEMMA RefreshFrame ==
  ASSUME NEW s, Good(s), NEW t, Good(t),
         Keeps(s, t, {"refreshInFlight", "refreshDirty", "shown"}),
         Announced(s) => Announced(t)
  PROVE  Quiet(s, t)
<1>1. /\ t.documents = s.documents /\ t.table = s.table
      /\ t.requests = s.requests /\ t.deferredRequests = s.deferredRequests
      /\ t.deferredTokens = s.deferredTokens /\ t.nextRevision = s.nextRevision
      /\ t.diagnostics = s.diagnostics /\ t.replays = s.replays
      /\ t.lastGeneration = s.lastGeneration
      /\ s.table.sequence \in Nat
  BY DEF Keeps, Fields, Good, MainTypes, Idle, IsTable
<1>2. Rejecting(s, t)
  BY <1>1, KeepsRequests
<1>3. Steady(s, t) /\ (Matched(s) => Matched(t))
  BY <1>1 DEF Steady, Matched
<1>4. Stays(s, t)
  BY <1>1 DEF Stays, RequestsCurrent, TokensCurrent
<1> QED
  BY <1>2, <1>3, <1>4 DEF Quiet, Calm, Rejecting

LEMMA RefreshQuiet ==
  ASSUME NEW s, Good(s)
  PROVE  Quiet(s, RequestRefresh(s))
<1> DEFINE t == RequestRefresh(s)
<1>1. Refreshes(s, t)
  BY RefreshGood
<1> HIDE DEF t
<1>2. Announced(s) => Announced(t)
  BY <1>1, RefreshAnnounces DEF Announced
<1>3. Good(t) /\ Keeps(s, t, {"refreshInFlight", "refreshDirty", "shown"})
  BY <1>1 DEF Refreshes
<1> QED
  BY <1>2, <1>3, RefreshFrame DEF t

(* observe_semantic_external_generation with a document open: projections  *)
(* and tokens of other generations are dropped, and so is what waited.     *)
Outdated(s, g) ==
  {u \in Uris : /\ Document(s, u).pending # NoPending
                /\ Document(s, u).pending.generation # g}

Settled(s, u, g) ==
  [Document(s, u) EXCEPT
     !.pending = IF u \in Outdated(s, g) THEN NoPending ELSE @,
     !.overlay = IF @.generation # g THEN NoOverlay ELSE @]

Waiting(s) == UNION {RequestsIn(s.deferredTokens[u]) : u \in Uris}

OutdatedSequences(s, g) ==
  {Document(s, u).pending.sequence : u \in Outdated(s, g)}

Unsettled == {"requests", "lastGeneration", "deferredTokens", "table", "documents"}

Observes(s, t, g) ==
  /\ Good(t)
  /\ Rejecting(s, t)
  /\ Keeps(s, t, Unsettled)
  /\ Replied(s, t, Waiting(s), "error")
  /\ t.lastGeneration = g
  /\ t.deferredTokens = [u \in Uris |-> << >>]
  /\ t.documents = [u \in Uris |-> Settled(s, u, g)]
  /\ t.table.retained = s.table.retained
  /\ t.table.sequence = s.table.sequence
  /\ t.table.cancelled = s.table.cancelled \union OutdatedSequences(s, g)

LEMMA SettledType ==
  ASSUME NEW s, Good(s), NEW u \in Uris, NEW g \in Nat
  PROVE  /\ Settled(s, u, g) \in Documents
         /\ SameStatus(s.documents[u], Settled(s, u, g))
         /\ Settled(s, u, g).foreground = s.documents[u].foreground
         /\ Settled(s, u, g).pending \in {NoPending, s.documents[u].pending}
         /\ Settled(s, u, g).overlay = IF s.documents[u].overlay.generation # g
                                       THEN NoOverlay ELSE s.documents[u].overlay
         /\ Settled(s, u, g).pending = IF u \in Outdated(s, g)
                                       THEN NoPending ELSE s.documents[u].pending
<1> DEFINE d == s.documents[u]
           p == IF u \in Outdated(s, g) THEN NoPending ELSE d.pending
           o == IF d.overlay.generation # g THEN NoOverlay ELSE d.overlay
           e == Settled(s, u, g)
<1>1. /\ d \in Documents
      /\ d = [revision |-> d.revision, bytes |-> d.bytes,
              foreground |-> d.foreground, analysis |-> d.analysis,
              rejected |-> d.rejected, overlay |-> d.overlay, pending |-> d.pending]
  BY DEF Good, MainTypes, Documents
<1>2. /\ p \in [revision : Nat, generation : Nat, sequence : Nat]
      /\ o \in [revision : Nat, generation : Nat]
  BY <1>1 DEF Documents, NoPending, NoOverlay
<1>3. e = [d EXCEPT !.pending = p, !.overlay = o]
  BY <1>1 DEF Settled, Document
<1>4. p \in {NoPending, d.pending}
  OBVIOUS
<1> HIDE DEF e, p, o, d
<1>5. e = [revision |-> d.revision, bytes |-> d.bytes,
           foreground |-> d.foreground, analysis |-> d.analysis,
           rejected |-> d.rejected, overlay |-> o, pending |-> p]
  <2>1. e = [[d EXCEPT !.pending = p] EXCEPT !.overlay = o]
    BY <1>1, <1>3
  <2> QED
    BY <1>1, <2>1
<1>6. e \in Documents
  BY <1>1, <1>2, <1>5 DEF Documents
<1>7. SameStatus(d, e) /\ e.foreground = d.foreground
      /\ e.pending = p /\ e.overlay = o
  BY <1>5 DEF SameStatus
<1> QED
  BY <1>4, <1>6, <1>7 DEF e, p, o, d

LEMMA WaitingAsked ==
  ASSUME NEW s, Good(s)
  PROVE  Waiting(s) \subseteq Asked(s)
BY DEF Good, Held, Waiting

LEMMA ObserveGood ==
  ASSUME NEW s, Good(s), NEW g \in Nat, NEW x,
         x = [Answer(s, Waiting(s), "error") EXCEPT
                !.lastGeneration = g,
                !.deferredTokens = [u \in Uris |-> << >>],
                !.table.cancelled = @ \union OutdatedSequences(s, g),
                !.documents = [u \in Uris |-> Settled(s, u, g)]]
  PROVE  Observes(s, x, g)
<1> DEFINE W == Waiting(s)
           a == Answer(s, W, "error")
           S == OutdatedSequences(s, g)
           t == s.table
           r == [t EXCEPT !.cancelled = @ \union S]
           docs == [u \in Uris |-> Settled(s, u, g)]
           none == [u \in Uris |-> << >>]
<1>1. W \cap Requests \subseteq Asked(s)
  BY WaitingAsked
<1> HIDE DEF W
<1>2. Answers(s, a, W, "error")
  BY <1>1, AnswerGood
<1> HIDE DEF a
<1>3. /\ Good(a) /\ Shape(a) /\ a.table = t /\ Keeps(s, a, {"requests"})
      /\ a.documents = s.documents /\ Replied(s, a, W, "error")
      /\ Asked(a) = Asked(s)
  BY <1>2 DEF Answers, Good, MainTypes, Keeps, Fields
<1>4. S \in SUBSET (1 .. t.sequence)
  <2>1. \A u \in Outdated(s, g) : s.documents[u].pending.sequence \in 1 .. t.sequence
    BY DEF Good, PendingIssued, Outdated, Document
  <2> QED
    BY <2>1 DEF OutdatedSequences, Document
<1>5. Idle(t)
  BY DEF Good, MainTypes
<1> DEFINE y == [a EXCEPT !.lastGeneration = g, !.deferredTokens = none]
<1>6. x = [y EXCEPT !.table = [y.table EXCEPT !.cancelled = a.table.cancelled \union S],
                    !.documents = docs]
  BY DEF a, W
<1> HIDE DEF S, docs, none, t
<1>7. y.table = a.table
  BY <1>3 DEF Shape, Fields
<1> HIDE DEF y
<1>8. /\ Idle(r) /\ r.retained = t.retained /\ r.sequence = t.sequence
      /\ r.cancelled = t.cancelled \union S
  BY <1>4, <1>5, FlagIdle
<1>9. r = [y.table EXCEPT !.cancelled = a.table.cancelled \union S]
  BY <1>3, <1>7
<1> HIDE DEF r
<1>10. x = [a EXCEPT !.lastGeneration = g, !.deferredTokens = none,
                    !.table = r, !.documents = docs]
  BY <1>6, <1>9 DEF y
<1>11. /\ Shape(x)
      /\ Keeps(a, x, {"lastGeneration", "deferredTokens", "table", "documents"})
      /\ x.lastGeneration = g /\ x.deferredTokens = none
      /\ x.table = r /\ x.documents = docs
  BY <1>3, <1>10 DEF Shape, Keeps, Fields
<1>12. /\ docs \in [Uris -> Documents]
       /\ \A u \in Uris : docs[u].pending \in {NoPending, s.documents[u].pending}
  BY SettledType DEF docs
<1>13. /\ none \in [Uris -> Seq(TokenWaiters)]
       /\ \A u \in Uris : RequestsIn(none[u]) = {}
  BY EmptySeq DEF none, RequestsIn
<1>14. MainTypes(x)
  BY <1>3, <1>8, <1>11, <1>12, <1>13 DEF Good, MainTypes, Keeps, Fields
<1>15. Keeps(s, x, Unsettled)
  BY <1>3, <1>11 DEF Keeps, Unsettled
<1>16. x.requests = a.requests /\ Asked(x) = Asked(s)
  <2>1. x.requests = a.requests
    BY <1>11 DEF Keeps, Fields
  <2> QED
    BY <1>3, <2>1 DEF Asked
<1>17. Held(x)
  BY <1>3, <1>11, <1>13, <1>16 DEF Good, Held, Keeps, Fields
<1>18. PendingIssued(x)
  BY <1>3, <1>8, <1>11, <1>12 DEF Good, PendingIssued, t
<1>19. Replied(s, x, W, "error")
  BY <1>3, <1>16 DEF Replied
<1>20. Rejecting(s, x)
  <2>1. Follows(s, a) /\ GivesNoResult(s, a)
    BY <1>1, <1>3, RepliedFollows DEF t
  <2>2. x.table.sequence = a.table.sequence
    BY <1>3, <1>8, <1>11
  <2> QED
    BY <1>16, <2>1, <2>2 DEF Rejecting, Follows, GivesNoResult
<1> QED
  BY <1>8, <1>11, <1>14, <1>15, <1>17, <1>18, <1>19, <1>20
     DEF Observes, Good, W, S, t, docs, none

(* Observing the current generation: what was deferred for tokens has gone *)
(* or nothing has changed, and projections of this generation stay.        *)
Observed(s, t) ==
  /\ Quiet(s, t)
  /\ t.lastGeneration = generation
  /\ \A u \in Uris :
       s.documents[u].overlay.generation = generation =>
         t.documents[u].overlay = s.documents[u].overlay

LEMMA ObserveQuiet ==
  ASSUME NEW s, Good(s), generation \in Nat
  PROVE  Observed(s, Observe(s, generation))
<1> DEFINE g == generation
           t == Observe(s, g)
           x == [Answer(s, Waiting(s), "error") EXCEPT
                !.lastGeneration = g,
                !.deferredTokens = [u \in Uris |-> << >>],
                !.table.cancelled = @ \union OutdatedSequences(s, g),
                !.documents = [u \in Uris |-> Settled(s, u, g)]]
<1>1. Shape(s) /\ s.documents \in [Uris -> Documents] /\ Quiet(s, s)
  BY QuietSelf DEF Good, MainTypes
<1>2. CASE g = s.lastGeneration
  <2>1. t = s
    BY <1>2 DEF Observe
  <2> QED
    BY <1>1, <1>2, <2>1 DEF Observed
<1>3. CASE g # s.lastGeneration /\ \A u \in Uris : ~ IsOpen(s, u)
  <2>1. t = [s EXCEPT !.lastGeneration = g]
    BY <1>3 DEF Observe
  <2> HIDE DEF t
  <2>2. /\ Shape(t) /\ Keeps(s, t, {"lastGeneration"}) /\ t.lastGeneration = g
    BY <1>1, <2>1 DEF Shape, Keeps, Fields
  <2>3. /\ t.documents = s.documents /\ t.table = s.table
        /\ t.requests = s.requests /\ t.deferredRequests = s.deferredRequests
        /\ t.deferredTokens = s.deferredTokens /\ t.nextRevision = s.nextRevision
        /\ t.diagnostics = s.diagnostics /\ t.replays = s.replays
        /\ t.shown = s.shown /\ t.refreshDirty = s.refreshDirty
        /\ s.table.sequence \in Nat
    BY <2>2 DEF Keeps, Fields, Good, MainTypes, Idle, IsTable
  <2>4. MainTypes(t)
    BY <2>2 DEF Good, MainTypes, Keeps, Fields
  <2>5. Held(t) /\ PendingIssued(t)
    BY <2>3 DEF Good, Held, PendingIssued, Asked
  <2>6. Rejecting(s, t)
    BY <2>3, KeepsRequests
  <2>7. Steady(s, t) /\ (Matched(s) => Matched(t))
    BY <2>2, <2>3 DEF Steady, Matched
  <2>8. Stays(s, t)
    BY <2>3 DEF Stays, RequestsCurrent, TokensCurrent
  <2>9. Announced(s) => Announced(t)
    BY <1>3, <2>2, <2>3 DEF Announced, IsOpen, Document
  <2> QED
    BY <2>2, <2>3, <2>4, <2>5, <2>6, <2>7, <2>8, <2>9
       DEF Observed, Quiet, Calm, Rejecting, Good, t
<1>4. CASE g # s.lastGeneration /\ ~ \A u \in Uris : ~ IsOpen(s, u)
  <2>1. t = RequestRefresh(x)
    BY <1>4 DEF Observe, Waiting, OutdatedSequences, Outdated, Settled
  <2>2. Observes(s, x, g)
    BY ObserveGood
  <2> HIDE DEF x, t
  <2>3. Good(x) /\ Rejecting(s, x) /\ Keeps(s, x, Unsettled)
    BY <2>2 DEF Observes
  <2>4. /\ x.lastGeneration = g /\ x.deferredTokens = [u \in Uris |-> << >>]
        /\ \A u \in Uris : x.documents[u] = Settled(s, u, g)
        /\ x.table.retained = s.table.retained
        /\ x.deferredRequests = s.deferredRequests
        /\ x.nextRevision = s.nextRevision /\ x.replays = s.replays
        /\ x.diagnostics = s.diagnostics /\ x.shown = s.shown
    BY <2>2 DEF Observes, Keeps, Fields, Unsettled
  <2>5. Refreshes(x, t) /\ Quiet(x, t)
    BY <2>1, <2>3, RefreshGood, RefreshQuiet
  <2>6. \A u \in Uris : SameStatus(s.documents[u], x.documents[u])
    BY <2>4, SettledType
  <2>7. Steady(s, x)
    BY <2>4, <2>6 DEF Steady, SameStatus
  <2>8. Stays(s, x)
    <3>1. \A u \in Uris : TokensCurrent(x, u)
      BY <2>4, EmptyCurrent
    <3>2. \A u \in Uris : RequestsCurrent(s, u) => RequestsCurrent(x, u)
      BY <2>3, <2>4, <2>6, StaysAt, QueuesThin DEF Rejecting
    <3> QED
      BY <3>1, <3>2 DEF Stays
  <2>9. Matched(s) => Matched(x)
    BY <2>3, <2>4, <2>7, MatchedKept, SameRetained DEF Steady
  <2>10. Announced(s) => Announced(t)
    <3>1. x.lastGeneration <= generation
      BY <2>4
    <3>2. Announced(s) =>
            \A u \in Uris : x.documents[u].revision = 0 => x.shown[u].told
      BY <2>4, <2>7 DEF Announced, Steady
    <3> QED
      BY <2>5, <3>1, <3>2, RefreshAnnounces
  <2>11. Quiet(s, t)
    <3>1. Good(t) /\ Follows(x, t) /\ Steady(x, t) /\ Stays(x, t)
          /\ (Matched(x) => Matched(t)) /\ GivesNoResult(x, t)
      BY <2>5 DEF Quiet, Calm
    <3>2. Rejecting(s, t)
      BY <2>3, <3>1, RejectingTrans DEF Rejecting
    <3>3. Steady(s, t) /\ Stays(s, t)
      BY <2>7, <2>8, <3>1 DEF Steady, Stays
    <3> QED
      BY <2>9, <2>10, <3>1, <3>2, <3>3 DEF Quiet, Calm, Rejecting
  <2>12. t.lastGeneration = g /\ t.documents = x.documents
    BY <2>4, <2>5 DEF Refreshes, Keeps, Fields
  <2>13. \A u \in Uris : s.documents[u].overlay.generation = g =>
           t.documents[u].overlay = s.documents[u].overlay
    BY <2>4, <2>12, SettledType
  <2> QED
    BY <2>11, <2>12, <2>13 DEF Observed, t
<1> QED
  BY <1>2, <1>3, <1>4

(* select_semantic_tokens changes the overlay alone.                       *)
WithOverlay(d, o) == [d EXCEPT !.overlay = o]

LEMMA OverlayType ==
  ASSUME NEW d \in Documents, NEW o \in [revision : Nat, generation : Nat]
  PROVE  /\ WithOverlay(d, o) \in Documents
         /\ WithOverlay(d, o).overlay = o
         /\ WithOverlay(d, o).pending = d.pending
         /\ SameStatus(d, WithOverlay(d, o))
         /\ WithOverlay(d, o).foreground = d.foreground
BY DEF WithOverlay, Documents, SameStatus

LEMMA SelectedQuiet ==
  ASSUME NEW s, Good(s), NEW u \in Uris
  PROVE  LET t == Selected(s, u)
         IN  /\ Quiet(s, t)
             /\ \/ t.documents[u].overlay = NoOverlay
                \/ t.documents[u].overlay =
                     [revision |-> s.documents[u].revision,
                      generation |-> generation]
<1> DEFINE t == Selected(s, u)
           d == s.documents[u]
           e == WithOverlay(d, NoOverlay)
<1>1. Shape(s) /\ s.documents \in [Uris -> Documents] /\ d \in Documents
  BY DEF Good, MainTypes
<1>2. CASE d.overlay = [revision |-> d.revision, generation |-> generation]
  <2>1. t = s
    BY <1>2 DEF Selected, Document
  <2> QED
    BY <1>2, <2>1, QuietSelf
<1>3. CASE d.overlay # [revision |-> d.revision, generation |-> generation]
  <2>1. t = [s EXCEPT !.documents[u] = e]
    BY <1>3 DEF Selected, Document, WithOverlay
  <2>2. /\ e \in Documents /\ e.overlay = NoOverlay /\ e.pending = d.pending
        /\ SameStatus(d, e)
    <3>1. NoOverlay \in [revision : Nat, generation : Nat]
      BY DEF NoOverlay
    <3> QED
      BY <1>1, <3>1, OverlayType
  <2> HIDE DEF t, e
  <2>3. /\ Shape(t) /\ Keeps(s, t, {"documents"})
        /\ t.documents = [s.documents EXCEPT ![u] = e]
    BY <1>1, <2>1 DEF Shape, Keeps, Fields
  <2>4. Good(t) /\ Rejecting(s, t)
    BY <2>2, <2>3, NewDocumentGood
  <2>5. \A v \in Uris : SameStatus(s.documents[v], t.documents[v])
    BY <1>1, <2>2, <2>3 DEF SameStatus
  <2>6. Retains(s, t) /\ Keeps(s, t, {"table", "documents"})
    BY <2>3 DEF Keeps, Fields, Retains
  <2>7. Quiet(s, t)
    BY <2>4, <2>5, <2>6, QuietTable
  <2>8. t.documents[u].overlay = NoOverlay
    BY <1>1, <2>2, <2>3
  <2> QED
    BY <2>7, <2>8 DEF t
<1> QED
  BY <1>2, <1>3

(* A request that waits is one about the open revision of its document.    *)
Awaits(s, r) ==
  /\ r \in Asked(s)
  /\ s.documents[UriOf(s, r)].revision # 0
  /\ s.requests[r].revision = s.documents[UriOf(s, r)].revision

LEMMA DeferRequestQuiet ==
  ASSUME NEW s, Good(s), NEW r, Awaits(s, r), ~ s.documents[UriOf(s, r)].analysis
  PROVE  Quiet(s, DeferRequest(s, r))
<1> DEFINE u == UriOf(s, r)
           d == s.documents[u]
           t == DeferRequest(s, r)
           w == [request |-> r, revision |-> d.revision]
           q == s.deferredRequests[u]
<1>1. /\ Shape(s) /\ u \in Uris /\ r \in Requests /\ r \in Asked(s)
      /\ d.revision \in Nat \ {0} /\ s.requests[r].revision = d.revision
      /\ s.deferredRequests \in [Uris -> Seq(Waiters)] /\ q \in Seq(Waiters)
      /\ s.requests[r].uri = u /\ s.table.sequence \in Nat
  BY DEF Awaits, Asked, UriOf, Good, MainTypes, Documents, Idle, IsTable
<1>2. CASE d.rejected \/ Len(q) >= DeferralLimit
  <2>1. t = Answer(s, {r}, "error")
    BY <1>2 DEF DeferRequest, Document
  <2>2. {r} \cap Requests \subseteq Asked(s)
    BY <1>1
  <2> QED
    BY <2>1, <2>2, AnswerCalm
<1>3. CASE ~ (d.rejected \/ Len(q) >= DeferralLimit)
  <2>1. t = [s EXCEPT !.deferredRequests[u] = Append(@, w)]
    BY <1>3 DEF DeferRequest, Document
  <2>2. w \in Waiters /\ w.request = r /\ w.revision = d.revision
    BY <1>1 DEF Waiters
  <2>3. ~ d.analysis
    OBVIOUS
  <2> HIDE DEF w, t, u, d
  <2> DEFINE p == Append(q, w)
  <2>4. /\ p \in Seq(Waiters) /\ Len(p) = Len(q) + 1
        /\ Members(p) = Members(q) \union {w} /\ Len(q) \in Nat
    BY <1>1, <2>2, AppendMembers, LenProperties
  <2>5. t = [s EXCEPT !.deferredRequests[u] = p]
    BY <2>1
  <2> HIDE DEF p, q
  <2>6. /\ Shape(t) /\ Keeps(s, t, {"deferredRequests"})
        /\ t.deferredRequests = [s.deferredRequests EXCEPT ![u] = p]
    BY <1>1, <2>5 DEF Shape, Keeps, Fields
  <2>7. /\ t.deferredRequests \in [Uris -> Seq(Waiters)]
        /\ \A v \in Uris : t.deferredRequests[v] = IF v = u THEN p
                                                   ELSE s.deferredRequests[v]
    BY <1>1, <2>4, <2>6
  <2>8. /\ t.documents = s.documents /\ t.table = s.table
        /\ t.requests = s.requests /\ t.deferredTokens = s.deferredTokens
        /\ t.nextRevision = s.nextRevision
        /\ t.diagnostics = s.diagnostics /\ t.replays = s.replays
    BY <2>6 DEF Keeps, Fields
  <2>9. MainTypes(t)
    BY <2>6, <2>7 DEF Good, MainTypes, Keeps, Fields
  <2>10. RequestsIn(p) \subseteq Asked(s)
    <3>1. RequestsIn(q) \subseteq Asked(s)
      BY <1>1 DEF Good, Held, q
    <3>2. RequestsIn(p) = RequestsIn(q) \union {r}
      <4>1. /\ RequestsIn(p) = {x.request : x \in Members(p)}
            /\ RequestsIn(q) = {x.request : x \in Members(q)}
        BY RequestsAreMembers
      <4> QED
        BY <2>2, <2>4, <4>1
    <3> QED
      BY <1>1, <3>1, <3>2
  <2>11. Held(t) /\ PendingIssued(t)
    BY <2>7, <2>8, <2>10 DEF Good, Held, PendingIssued, Asked
  <2>12. Rejecting(s, t)
    BY <1>1, <2>8, KeepsRequests
  <2>13. Good(t) /\ Follows(s, t) /\ GivesNoResult(s, t)
    BY <2>9, <2>11, <2>12 DEF Good, Rejecting
  <2>14. Stays(s, t)
    <3>1. RequestsCurrent(s, u) => RequestsCurrent(t, u)
      <4>1. DeferralLimit \in Nat
        BY RuntimeAssumption
      <4>2. Len(p) <= DeferralLimit
        BY <1>3, <2>4, <4>1
      <4> QED
        BY <1>1, <1>3, <2>2, <2>3, <2>4, <2>7, <2>8, <4>2
           DEF RequestsCurrent, q, d
    <3>2. \A v \in Uris : SameStatus(s.documents[v], t.documents[v])
      BY <2>8 DEF SameStatus
    <3>3. ASSUME NEW v \in Uris
          PROVE  TokensCurrent(s, v) => TokensCurrent(t, v)
      BY <2>8, <2>13, <3>2, StaysAt, QueuesThin
    <3>4. ASSUME NEW v \in Uris, v # u
          PROVE  RequestsCurrent(s, v) => RequestsCurrent(t, v)
      BY <2>7, <2>13, <3>2, <3>4, StaysAt, QueuesThin
    <3> QED
      BY <3>1, <3>3, <3>4 DEF Stays
  <2>15. Keeps(s, t, {"table", "documents", "requests", "deferredRequests",
                      "deferredTokens"}) /\ Retains(s, t)
    BY <2>6, <2>8 DEF Keeps, Retains
  <2>16. Calm(s, t)
    BY <2>8, <2>13, <2>14, <2>15, CalmParts
  <2> QED
    BY <2>13, <2>16 DEF Quiet, t
<1> QED
  BY <1>2, <1>3

LEMMA DeferTokensQuiet ==
  ASSUME NEW s, Good(s), NEW r, Awaits(s, r), NEW g \in Nat
  PROVE  Quiet(s, DeferTokens(s, r, g))
<1> DEFINE u == UriOf(s, r)
           d == s.documents[u]
           t == DeferTokens(s, r, g)
           w == [request |-> r, revision |-> d.revision, generation |-> g]
           q == s.deferredTokens[u]
<1>1. /\ Shape(s) /\ u \in Uris /\ r \in Requests /\ r \in Asked(s)
      /\ d.revision \in Nat \ {0} /\ s.requests[r].revision = d.revision
      /\ s.deferredTokens \in [Uris -> Seq(TokenWaiters)] /\ q \in Seq(TokenWaiters)
      /\ s.requests[r].uri = u /\ s.table.sequence \in Nat
  BY DEF Awaits, Asked, UriOf, Good, MainTypes, Documents, Idle, IsTable
<1>2. CASE d.rejected \/ Len(q) >= DeferralLimit
  <2>1. t = Answer(s, {r}, "error")
    BY <1>2 DEF DeferTokens, Document
  <2>2. {r} \cap Requests \subseteq Asked(s)
    BY <1>1
  <2> QED
    BY <2>1, <2>2, AnswerCalm
<1>3. CASE ~ (d.rejected \/ Len(q) >= DeferralLimit)
  <2>1. t = [s EXCEPT !.deferredTokens[u] = Append(@, w)]
    BY <1>3 DEF DeferTokens, Document
  <2>2. w \in TokenWaiters /\ w.request = r /\ w.revision = d.revision
    BY <1>1 DEF TokenWaiters
  <2> HIDE DEF w, t, u, d
  <2> DEFINE p == Append(q, w)
  <2>4. /\ p \in Seq(TokenWaiters) /\ Len(p) = Len(q) + 1
        /\ Members(p) = Members(q) \union {w} /\ Len(q) \in Nat
    BY <1>1, <2>2, AppendMembers, LenProperties
  <2>5. t = [s EXCEPT !.deferredTokens[u] = p]
    BY <2>1
  <2> HIDE DEF p, q
  <2>6. /\ Shape(t) /\ Keeps(s, t, {"deferredTokens"})
        /\ t.deferredTokens = [s.deferredTokens EXCEPT ![u] = p]
    BY <1>1, <2>5 DEF Shape, Keeps, Fields
  <2>7. /\ t.deferredTokens \in [Uris -> Seq(TokenWaiters)]
        /\ \A v \in Uris : t.deferredTokens[v] = IF v = u THEN p
                                                 ELSE s.deferredTokens[v]
    BY <1>1, <2>4, <2>6
  <2>8. /\ t.documents = s.documents /\ t.table = s.table
        /\ t.requests = s.requests /\ t.deferredRequests = s.deferredRequests
        /\ t.nextRevision = s.nextRevision
        /\ t.diagnostics = s.diagnostics /\ t.replays = s.replays
    BY <2>6 DEF Keeps, Fields
  <2>9. MainTypes(t)
    BY <2>6, <2>7 DEF Good, MainTypes, Keeps, Fields
  <2>10. RequestsIn(p) \subseteq Asked(s)
    <3>1. RequestsIn(q) \subseteq Asked(s)
      BY <1>1 DEF Good, Held, q
    <3>2. RequestsIn(p) = RequestsIn(q) \union {r}
      <4>1. /\ RequestsIn(p) = {x.request : x \in Members(p)}
            /\ RequestsIn(q) = {x.request : x \in Members(q)}
        BY RequestsAreMembers
      <4> QED
        BY <2>2, <2>4, <4>1
    <3> QED
      BY <1>1, <3>1, <3>2
  <2>11. Held(t) /\ PendingIssued(t)
    BY <2>7, <2>8, <2>10 DEF Good, Held, PendingIssued, Asked
  <2>12. Rejecting(s, t)
    BY <1>1, <2>8, KeepsRequests
  <2>13. Good(t) /\ Follows(s, t) /\ GivesNoResult(s, t)
    BY <2>9, <2>11, <2>12 DEF Good, Rejecting
  <2>14. Stays(s, t)
    <3>1. TokensCurrent(s, u) => TokensCurrent(t, u)
      <4>1. DeferralLimit \in Nat
        BY RuntimeAssumption
      <4>2. Len(p) <= DeferralLimit
        BY <1>3, <2>4, <4>1
      <4> QED
        BY <1>1, <1>3, <2>2, <2>4, <2>7, <2>8, <4>2 DEF TokensCurrent, q, d
    <3>2. \A v \in Uris : SameStatus(s.documents[v], t.documents[v])
      BY <2>8 DEF SameStatus
    <3>3. ASSUME NEW v \in Uris
          PROVE  RequestsCurrent(s, v) => RequestsCurrent(t, v)
      BY <2>8, <2>13, <3>2, StaysAt, QueuesThin
    <3>4. ASSUME NEW v \in Uris, v # u
          PROVE  TokensCurrent(s, v) => TokensCurrent(t, v)
      BY <2>7, <2>13, <3>2, <3>4, StaysAt, QueuesThin
    <3> QED
      BY <3>1, <3>3, <3>4 DEF Stays
  <2>15. Keeps(s, t, {"table", "documents", "requests", "deferredRequests",
                      "deferredTokens"}) /\ Retains(s, t)
    BY <2>6, <2>8 DEF Keeps, Retains
  <2>16. Calm(s, t)
    BY <2>8, <2>13, <2>14, <2>15, CalmParts
  <2> QED
    BY <2>13, <2>16 DEF Quiet, t
<1> QED
  BY <1>2, <1>3

-----------------------------------------------------------------------------
(* Requests: what a result reflects.                                       *)
Fresh(t, r) ==
  LET d == Document(t, UriOf(t, r))
  IN  /\ d.revision = t.requests[r].revision
      /\ (t.requests[r].kind = "tokens" /\ d.revision # 0) =>
           d.overlay = [revision |-> d.revision, generation |-> generation]

GivesFresh(s, t) ==
  \A r \in Requests :
    (s.requests[r].state # "result" /\ t.requests[r].state = "result")
    => Fresh(t, r)

Resolves(s, o) == Calm(s, o.s) /\ Schedules(o) /\ GivesFresh(s, o.s)

LEMMA QuietResolves ==
  ASSUME NEW s, NEW o, Quiet(s, o.s), Schedules(o)
  PROVE  Resolves(s, o)
BY DEF Resolves, Quiet, GivesNoResult, GivesFresh

LEMMA OutcomeParts ==
  ASSUME NEW s, NEW j
  PROVE  Outcome(s, j).s = s /\ Outcome(s, j).jobs = j
BY DEF Outcome

LEMMA SchedulesAfter ==
  ASSUME NEW o, Good(o.s), Schedules(o), NEW t, Good(t), Follows(o.s, t)
  PROVE  Schedules(Outcome(t, o.jobs))
<1> DEFINE p == Outcome(t, o.jobs)
<1>1. p.s = t /\ p.jobs = o.jobs
  BY OutcomeParts
<1> HIDE DEF p
<1>2. \A j : GoodJob(o.s, j) => GoodJob(t, j)
  BY GoodJobKept
<1> QED
  BY <1>1, <1>2 DEF Schedules, p

LEMMA JobsUnchanged ==
  ASSUME NEW t
  PROVE  Schedules(Outcome(t, jobs))
BY OutcomeParts DEF Schedules

(* A request about the revision its document has, an open one or not.      *)
Asks(s, r) ==
  /\ r \in Asked(s)
  /\ s.requests[r].revision = s.documents[UriOf(s, r)].revision

LEMMA AsksKept ==
  ASSUME NEW s, NEW t, NEW r, Asks(s, r), Calm(s, t)
  PROVE  /\ Asks(t, r) /\ UriOf(t, r) = UriOf(s, r) /\ UriOf(s, r) \in Uris
         /\ t.requests[r].kind = s.requests[r].kind
         /\ t.requests[r].revision = s.requests[r].revision
         /\ t.documents[UriOf(s, r)].revision = s.documents[UriOf(s, r)].revision
<1>1. r \in Asked(s) /\ r \in Requests /\ s.requests[r].uri \in Uris
  BY DEF Asks, Asked
<1>2. Follows(s, t) /\ Steady(s, t)
  BY DEF Calm
<1>3. Asked(t) = Asked(s)
  BY <1>2, FollowsAsked
<1> QED
  BY <1>1, <1>2, <1>3 DEF Asks, UriOf, Follows, Steady

(* The result is given, and the external generation observed.              *)
LEMMA ResultFresh ==
  ASSUME NEW s, Good(s), NEW r, Asks(s, r), NEW x, Quiet(s, x),
         NEW a, Calm(x, a), Replied(x, a, {r}, "result"),
         NEW t, Observed(a, t),
         \/ s.requests[r].kind # "tokens"
         \/ s.documents[UriOf(s, r)].revision = 0
         \/ a.documents[UriOf(s, r)].overlay =
              [revision |-> s.documents[UriOf(s, r)].revision,
               generation |-> generation]
  PROVE  Calm(s, t) /\ GivesFresh(s, t)
<1> DEFINE u == UriOf(s, r)
<1>1. Calm(s, x) /\ Calm(a, t) /\ GivesNoResult(s, x) /\ GivesNoResult(a, t)
  BY DEF Quiet, Observed
<1>2. Good(x) /\ Good(a) /\ Good(t)
  BY <1>1 DEF Calm
<1>3. Calm(s, a)
  BY <1>1, CalmTrans
<1>4. Calm(s, t)
  BY <1>1, <1>3, CalmTrans
<1>5. /\ UriOf(t, r) = u /\ u \in Uris
      /\ t.requests[r].kind = s.requests[r].kind
      /\ t.requests[r].revision = s.documents[u].revision
      /\ t.documents[u].revision = s.documents[u].revision
  BY <1>4, AsksKept DEF Asks
<1>6. \A q \in Requests :
        t.requests[q].state = "result" => q = r \/ s.requests[q].state = "result"
  <2>1. \A q \in Requests : q # r => a.requests[q] = x.requests[q]
    BY DEF Replied
  <2> QED
    BY <1>1, <2>1 DEF GivesNoResult
<1>7. (t.requests[r].kind = "tokens" /\ t.documents[u].revision # 0) =>
        t.documents[u].overlay = [revision |-> t.documents[u].revision,
                                  generation |-> generation]
  <2> SUFFICES ASSUME a.documents[u].overlay =
                        [revision |-> s.documents[u].revision,
                         generation |-> generation]
               PROVE  t.documents[u].overlay =
                        [revision |-> t.documents[u].revision,
                         generation |-> generation]
    BY <1>5
  <2>1. a.documents[u].overlay.generation = generation
    OBVIOUS
  <2>2. t.documents[u].overlay = a.documents[u].overlay
    BY <1>5, <2>1 DEF Observed
  <2> QED
    BY <1>5, <2>2
<1> HIDE DEF u
<1>8. Fresh(t, r)
  BY <1>5, <1>7 DEF Fresh, Document
<1> QED
  BY <1>4, <1>6, <1>8 DEF GivesFresh

LEMMA AnswerResult ==
  ASSUME NEW s, Good(s), NEW r, Asks(s, r)
  PROVE  LET a == Answer(s, {r}, "result")
         IN  /\ Calm(s, a) /\ Replied(s, a, {r}, "result")
             /\ a.documents = s.documents
<1> DEFINE a == Answer(s, {r}, "result")
<1>1. {r} \cap Requests \subseteq Asked(s)
  BY DEF Asks
<1>2. Answers(s, a, {r}, "result") /\ Calm(s, a)
  BY <1>1, AnswerGood, AnswerCalm
<1> HIDE DEF a
<1> QED
  BY <1>2 DEF Answers, Keeps, Fields, a

LEMMA CompletionResolves ==
  ASSUME NEW s, Good(s), NEW r, Asks(s, r), s.requests[r].kind # "tokens",
         generation \in Nat
  PROVE  /\ Resolves(s, DispatchCompletion(s, r))
         /\ Resolves(s, Outcome(Observe(Answer(s, {r}, "result"), generation), jobs))
<1> DEFINE a == Answer(s, {r}, "result")
           t == Observe(a, generation)
           o == Outcome(t, jobs)
<1>1. Calm(s, a) /\ Replied(s, a, {r}, "result")
  BY AnswerResult
<1> HIDE DEF a
<1>2. Observed(a, t)
  BY <1>1, ObserveQuiet DEF Calm
<1> HIDE DEF t
<1>3. Calm(s, t) /\ GivesFresh(s, t)
  BY <1>1, <1>2, QuietSelf, ResultFresh
<1>4. o.s = t /\ Schedules(o)
  BY OutcomeParts, JobsUnchanged
<1> HIDE DEF o
<1>5. Resolves(s, o)
  BY <1>3, <1>4 DEF Resolves
<1>6. CASE ~ AwaitsAnalysis(s, UriOf(s, r))
  <2>1. DispatchCompletion(s, r) = o
    BY <1>6 DEF DispatchCompletion, o, t, a
  <2> QED
    BY <1>5, <2>1 DEF o, t, a
<1>7. CASE AwaitsAnalysis(s, UriOf(s, r))
  <2> DEFINE w == DeferRequest(s, r)
             p == Outcome(w, jobs)
  <2>1. DispatchCompletion(s, r) = p
    BY <1>7 DEF DispatchCompletion
  <2>2. Awaits(s, r) /\ ~ s.documents[UriOf(s, r)].analysis
    BY <1>7 DEF AwaitsAnalysis, IsOpen, Document, Asks, Awaits
  <2>3. Quiet(s, w)
    BY <2>2, DeferRequestQuiet
  <2> HIDE DEF w
  <2>4. p.s = w /\ Schedules(p)
    BY OutcomeParts, JobsUnchanged
  <2> HIDE DEF p
  <2>5. Resolves(s, p)
    BY <2>3, <2>4, QuietResolves
  <2> QED
    BY <1>5, <2>1, <2>5 DEF o, t, a
<1> QED
  BY <1>6, <1>7

LEMMA RefusedQuiet ==
  ASSUME NEW s, Good(s), NEW class \in Classes, NEW u \in Uris,
         s.documents[u].revision # 0, ~ CanAdmit(s, class, u)
  PROVE  Quiet(s, AdmitAndTake(s, class, u))
<1> DEFINE t == AdmitAndTake(s, class, u)
<1>1. AdmitsTask(s, t, class, u)
  BY TakeGood
<1> HIDE DEF t
<1>2. Good(t) /\ Rejecting(s, t) /\ Retains(s, t)
  BY <1>1, TakeRejecting, CancelsRetains DEF AdmitsTask
<1>3. Keeps(s, t, {"table", "documents"}) /\ t.documents = s.documents
  BY <1>1 DEF AdmitsTask, Keeps, Fields
<1>4. \A v \in Uris : SameStatus(s.documents[v], t.documents[v])
  BY <1>3 DEF SameStatus
<1> QED
  BY <1>2, <1>3, <1>4, QuietTable DEF t

LEMMA ErrorQuiet ==
  ASSUME NEW s, Good(s), NEW r, Asks(s, r), NEW x, Quiet(s, x)
  PROVE  Quiet(s, Answer(x, {r}, "error"))
<1>1. Good(x) /\ Calm(s, x)
  BY DEF Quiet, Calm
<1>2. {r} \cap Requests \subseteq Asked(x)
  BY <1>1, AsksKept DEF Asks
<1>3. Quiet(x, Answer(x, {r}, "error"))
  BY <1>1, <1>2, AnswerCalm
<1> QED
  BY <1>3, QuietTrans

LEMMA DebugResolves ==
  ASSUME NEW s, Good(s), NEW r, Asks(s, r), s.requests[r].kind = "debug",
         generation \in Nat
  PROVE  Resolves(s, DispatchDebug(s, r))
<1> DEFINE u == UriOf(s, r)
           o == DispatchDebug(s, r)
<1>1. u \in Uris /\ r \in Requests
  BY DEF Asks, Asked, UriOf
<1>2. CASE AwaitsAnalysis(s, u)
  <2>1. o = Outcome(DeferRequest(s, r), jobs)
    BY <1>2 DEF DispatchDebug
  <2>2. Awaits(s, r) /\ ~ s.documents[UriOf(s, r)].analysis
    BY <1>2 DEF AwaitsAnalysis, IsOpen, Document, Asks, Awaits
  <2>3. Quiet(s, DeferRequest(s, r))
    BY <2>2, DeferRequestQuiet
  <2> HIDE DEF o
  <2>4. o.s = DeferRequest(s, r) /\ Schedules(o)
    BY <2>1, OutcomeParts, JobsUnchanged
  <2> QED
    BY <2>3, <2>4, QuietResolves DEF o
<1>3. CASE ~ AwaitsAnalysis(s, u) /\ ~ IsOpen(s, u)
  <2>1. o = Outcome(Observe(Answer(s, {r}, "result"), generation), jobs)
    BY <1>3 DEF DispatchDebug
  <2>2. s.requests[r].kind # "tokens"
    OBVIOUS
  <2> HIDE DEF o
  <2> QED
    BY <2>1, <2>2, CompletionResolves DEF o
<1>4. CASE ~ AwaitsAnalysis(s, u) /\ IsOpen(s, u) /\ CanAdmit(s, "rich", u)
  <2> DEFINE w == Start(s, "rich", u, "debug", 0, r)
  <2>1. o = w
    BY <1>4 DEF DispatchDebug
  <2>2. "rich" \in Classes /\ s.documents[u].revision # 0
    BY <1>4 DEF Classes, IsOpen, Document
  <2>3. /\ Good(w.s) /\ Rejecting(s, w.s)
        /\ StartsTask(s, w, "rich", u, "debug", 0, r)
    BY <1>1, <1>4, <2>2, StartGood
  <2> HIDE DEF w
  <2>4. Captures(s, u, "debug", r)
    BY DEF Captures, Asks, UriOf
  <2> HIDE DEF u
  <2>5. Quiet(s, w.s) /\ Schedules(w)
    BY <1>1, <2>2, <2>3, <2>4, StartQuiet
  <2> QED
    BY <2>1, <2>5, QuietResolves DEF o
<1>5. CASE ~ AwaitsAnalysis(s, u) /\ IsOpen(s, u) /\ ~ CanAdmit(s, "rich", u)
  <2> DEFINE x == AdmitAndTake(s, "rich", u)
             t == Answer(x, {r}, "error")
  <2>1. o = Outcome(t, jobs)
    BY <1>5 DEF DispatchDebug
  <2>2. "rich" \in Classes /\ s.documents[u].revision # 0
    BY <1>5 DEF Classes, IsOpen, Document
  <2>3. Quiet(s, x)
    BY <1>1, <1>5, <2>2, RefusedQuiet
  <2> HIDE DEF x
  <2>4. Quiet(s, t)
    BY <2>3, ErrorQuiet
  <2> HIDE DEF t, o
  <2>5. o.s = t /\ Schedules(o)
    BY <2>1, OutcomeParts, JobsUnchanged
  <2> QED
    BY <2>4, <2>5, QuietResolves DEF o
<1> QED
  BY <1>2, <1>3, <1>4, <1>5

(* Showing tokens of the current generation leaves the client behind none. *)
LEMMA ShownQuiet ==
  ASSUME NEW s, Good(s), NEW u \in Uris, s.documents[u].revision # 0,
         NEW shows \in Tokens, shows.generation = generation,
         NEW t, Shape(t), Keeps(s, t, {"shown"}),
         t.shown = [s.shown EXCEPT ![u] = shows]
  PROVE  Quiet(s, t)
<1>1. Shape(s) /\ s.shown \in [Uris -> Tokens] /\ s.table.sequence \in Nat
  BY DEF Good, MainTypes, Idle, IsTable
<1>2. /\ t.documents = s.documents /\ t.table = s.table
      /\ t.requests = s.requests /\ t.deferredRequests = s.deferredRequests
      /\ t.deferredTokens = s.deferredTokens /\ t.nextRevision = s.nextRevision
      /\ t.diagnostics = s.diagnostics /\ t.replays = s.replays
      /\ t.lastGeneration = s.lastGeneration /\ t.refreshDirty = s.refreshDirty
  BY DEF Keeps, Fields
<1>3. /\ t.shown \in [Uris -> Tokens]
      /\ \A v \in Uris : t.shown[v] = IF v = u THEN shows ELSE s.shown[v]
  BY <1>1
<1>4. MainTypes(t)
  BY <1>3 DEF Good, MainTypes, Keeps, Fields
<1>5. Held(t) /\ PendingIssued(t)
  BY <1>2 DEF Good, Held, PendingIssued, Asked
<1>6. Rejecting(s, t)
  BY <1>1, <1>2, KeepsRequests
<1>7. Steady(s, t) /\ (Matched(s) => Matched(t))
  BY <1>2 DEF Steady, Matched
<1>8. Stays(s, t)
  BY <1>2 DEF Stays, RequestsCurrent, TokensCurrent
<1>9. Announced(s) => Announced(t)
  BY <1>2, <1>3 DEF Announced
<1> QED
  BY <1>4, <1>5, <1>6, <1>7, <1>8, <1>9 DEF Quiet, Calm, Rejecting, Good

LEMMA TokensResolve ==
  ASSUME NEW s, Good(s), NEW r, Asks(s, r), generation \in Nat
  PROVE  Resolves(s, DispatchTokens(s, r))
<1> DEFINE u == UriOf(s, r)
           d == s.documents[u]
           x == Selected(s, u)
           shows == [revision |-> d.revision, generation |-> generation,
                     told |-> FALSE]
           work == IF d.analysis THEN AdmitRich(x, u, generation)
                   ELSE Outcome(x, jobs)
           o == DispatchTokens(s, r)
<1>1. u \in Uris /\ r \in Requests /\ d \in Documents /\ d.revision \in Nat
  BY DEF Asks, Asked, UriOf, Good, MainTypes, Documents
<1>2. /\ Quiet(s, x)
      /\ \/ x.documents[u].overlay = NoOverlay
         \/ x.documents[u].overlay = [revision |-> d.revision, generation |-> generation]
  BY <1>1, SelectedQuiet
<1>3. CASE ~ IsOpen(s, u)
  <2> DEFINE a == Answer(s, {r}, "result")
             t == Observe(a, generation)
  <2>1. o = Outcome(t, jobs)
    BY <1>3 DEF DispatchTokens
  <2>2. Calm(s, a) /\ Replied(s, a, {r}, "result")
    BY AnswerResult
  <2> HIDE DEF a
  <2>3. Observed(a, t)
    BY <2>2, ObserveQuiet DEF Calm
  <2> HIDE DEF t, o
  <2>4. d.revision = 0
    BY <1>3 DEF IsOpen, Document
  <2>5. Calm(s, t) /\ GivesFresh(s, t)
    BY <2>2, <2>3, <2>4, QuietSelf, ResultFresh
  <2>6. o.s = t /\ Schedules(o)
    BY <2>1, OutcomeParts, JobsUnchanged
  <2> QED
    BY <2>5, <2>6 DEF Resolves, o
<1>4. CASE IsOpen(s, u) /\ x.documents[u].overlay # NoOverlay
  <2> DEFINE a == Answer(x, {r}, "result")
             b == [a EXCEPT !.shown[u] = shows]
             t == Observe(b, generation)
  <2>1. o = Outcome(t, jobs)
    BY <1>4 DEF DispatchTokens, Document
  <2>2. d.revision # 0
    BY <1>4 DEF IsOpen, Document
  <2>3. shows \in Tokens /\ shows.generation = generation
    BY <1>1 DEF Tokens
  <2> HIDE DEF x, shows, o
  <2>4. Good(x) /\ Asks(x, r) /\ x.documents[u].revision = d.revision
    BY <1>2, AsksKept DEF Quiet, Calm
  <2>5. Calm(x, a) /\ Replied(x, a, {r}, "result") /\ a.documents = x.documents
    BY <2>4, AnswerResult
  <2> HIDE DEF a
  <2>6. Good(a) /\ Shape(a)
    BY <2>5 DEF Calm, Good, MainTypes
  <2>7. /\ Shape(b) /\ Keeps(a, b, {"shown"})
        /\ b.shown = [a.shown EXCEPT ![u] = shows]
    BY <2>6 DEF Shape, Keeps, Fields
  <2> HIDE DEF b
  <2>8. Quiet(a, b)
    BY <1>1, <2>2, <2>3, <2>4, <2>5, <2>6, <2>7, ShownQuiet
  <2>9. Calm(x, b)
    BY <2>4, <2>5, <2>8, CalmTrans DEF Quiet
  <2>10. b.requests = a.requests /\ b.documents = x.documents
    BY <2>5, <2>7 DEF Keeps, Fields
  <2>11. Replied(x, b, {r}, "result")
    BY <2>5, <2>10 DEF Replied
  <2>12. Observed(b, t)
    BY <2>9, ObserveQuiet DEF Calm
  <2> HIDE DEF t
  <2>13. b.documents[u].overlay = [revision |-> d.revision, generation |-> generation]
    BY <1>2, <1>4, <2>10
  <2>14. Calm(s, t) /\ GivesFresh(s, t)
    BY <1>2, <2>9, <2>11, <2>12, <2>13, ResultFresh
  <2>15. o.s = t /\ Schedules(o)
    BY <2>1, OutcomeParts, JobsUnchanged
  <2> QED
    BY <2>14, <2>15 DEF Resolves, o
<1>5. CASE IsOpen(s, u) /\ x.documents[u].overlay = NoOverlay
  <2> DEFINE w == work.s
             e == Answer(w, {r}, "error")
             f == DeferTokens(w, r, generation)
  <2>1. o = Outcome(e, work.jobs) \/ o = Outcome(f, work.jobs)
    BY <1>5 DEF DispatchTokens, Document
  <2>2. d.revision # 0
    BY <1>5 DEF IsOpen, Document
  <2>3. Good(x) /\ Calm(s, x)
    BY <1>2 DEF Quiet, Calm
  <2>4. Quiet(x, work.s) /\ Schedules(work)
    <3>1. CASE d.analysis
      BY <1>1, <2>3, <3>1, AdmitRichQuiet
    <3>2. CASE ~ d.analysis
      BY <2>3, <3>2, QuietSelf, OutcomeParts, JobsUnchanged
    <3> QED
      BY <3>1, <3>2
  <2> HIDE DEF x, o, work
  <2>5. Quiet(s, w)
    BY <1>2, <2>4, QuietTrans
  <2> HIDE DEF w
  <2>6. /\ Good(w) /\ Asks(w, r) /\ UriOf(w, r) = u
        /\ w.documents[u].revision = d.revision
    BY <2>5, AsksKept DEF Quiet, Calm
  <2>7. Quiet(w, e)
    BY <2>6, QuietSelf, ErrorQuiet
  <2>8. Quiet(w, f)
    <3>1. Awaits(w, r)
      BY <2>2, <2>6 DEF Awaits, Asks
    <3> QED
      BY <2>6, <3>1, DeferTokensQuiet
  <2> HIDE DEF e, f
  <2>9. ASSUME NEW v, Quiet(w, v), o = Outcome(v, work.jobs)
        PROVE  Resolves(s, o)
    <3>1. o.s = v
      BY <2>9, OutcomeParts
    <3>2. Quiet(s, v)
      BY <2>5, <2>9, QuietTrans
    <3>3. Schedules(o)
      BY <2>4, <2>6, <2>9, SchedulesAfter DEF Quiet, Calm, w
    <3> QED
      BY <3>1, <3>2, <3>3, QuietResolves
  <2> QED
    BY <2>1, <2>7, <2>8, <2>9 DEF o
<1> QED
  BY <1>3, <1>4, <1>5

LEMMA DispatchResolves ==
  ASSUME NEW s, Good(s), NEW r, Asks(s, r), generation \in Nat
  PROVE  Resolves(s, Dispatch(s, r))
<1>1. s.requests[r].kind \in {"completion", "tokens", "debug"}
  BY DEF Asks, Asked, Classifications
<1>2. CASE s.requests[r].kind = "completion"
  <2>1. Dispatch(s, r) = DispatchCompletion(s, r)
    BY <1>2 DEF Dispatch
  <2> QED
    BY <1>2, <2>1, CompletionResolves
<1>3. CASE s.requests[r].kind = "debug"
  <2>1. Dispatch(s, r) = DispatchDebug(s, r)
    BY <1>3 DEF Dispatch
  <2> QED
    BY <1>3, <2>1, DebugResolves
<1>4. CASE s.requests[r].kind = "tokens"
  <2>1. Dispatch(s, r) = DispatchTokens(s, r)
    BY <1>4 DEF Dispatch
  <2> QED
    BY <2>1, TokensResolve
<1> QED
  BY <1>1, <1>2, <1>3, <1>4

-----------------------------------------------------------------------------
(* What holds of the main loop's state between two handlers, and what a    *)
(* handler must show.                                                      *)
Diagnosed(s) ==
  \A u \in Uris : /\ s.diagnostics[u] <= s.documents[u].revision
                  /\ s.documents[u].revision <= s.nextRevision

ReplaysCurrent(s) == \A r \in Members(s.replays) : Asks(s, r)

Consistent(s) ==
  /\ Good(s)
  /\ QueuesCurrent(s)
  /\ Matched(s)
  /\ Announced(s)
  /\ Diagnosed(s)
  /\ ReplaysCurrent(s)

Forward(s, t) ==
  \A u \in Uris : /\ t.diagnostics[u] <= t.documents[u].revision
                  /\ t.diagnostics[u] # 0 => t.diagnostics[u] >= s.diagnostics[u]

Handles(s, o) ==
  /\ Consistent(o.s)
  /\ Schedules(o)
  /\ \A j : GoodJob(s, j) => GoodJob(o.s, j)
  /\ o.s.lastGeneration \in {s.lastGeneration, generation}
  /\ GivesFresh(s, o.s)
  /\ Forward(s, o.s)

LEMMA CalmSound ==
  ASSUME NEW s, Consistent(s), NEW t, Calm(s, t)
  PROVE  Consistent(t)
<1>1. Good(s) /\ Good(t) /\ Steady(s, t)
  BY DEF Consistent, Calm
<1>2. QueuesCurrent(t)
  BY DEF Consistent, Calm, QueuesCurrent, Stays
<1>3. Matched(t) /\ Announced(t)
  BY DEF Consistent, Calm
<1>4. Diagnosed(t)
  BY <1>1 DEF Consistent, Diagnosed, Steady
<1>5. ReplaysCurrent(t)
  BY <1>1, AsksKept DEF Consistent, ReplaysCurrent, Steady
<1> QED
  BY <1>1, <1>2, <1>3, <1>4, <1>5 DEF Consistent

LEMMA NatDiagnostics ==
  ASSUME NEW s, Good(s), NEW u \in Uris
  PROVE  s.diagnostics[u] \in Nat /\ s.documents[u].revision \in Nat
         /\ s.nextRevision \in Nat
BY DEF Good, MainTypes, Documents

LEMMA CalmForward ==
  ASSUME NEW s, Consistent(s), NEW t, Calm(s, t)
  PROVE  Forward(s, t)
<1>1. Good(s) /\ Steady(s, t) /\ Diagnosed(s)
  BY DEF Consistent, Calm
<1> QED
  BY <1>1, NatDiagnostics DEF Steady, Forward, Diagnosed

LEMMA ResolvesHandles ==
  ASSUME NEW s, Consistent(s), NEW o, Resolves(s, o)
  PROVE  Handles(s, o)
<1>1. Calm(s, o.s) /\ Schedules(o) /\ GivesFresh(s, o.s)
  BY DEF Resolves
<1>2. Good(s) /\ Good(o.s) /\ Follows(s, o.s) /\ Steady(s, o.s)
  BY <1>1 DEF Consistent, Calm
<1>3. Consistent(o.s) /\ Forward(s, o.s)
  BY <1>1, CalmSound, CalmForward
<1>4. \A j : GoodJob(s, j) => GoodJob(o.s, j)
  BY <1>2, GoodJobKept
<1> QED
  BY <1>1, <1>2, <1>3, <1>4 DEF Handles, Steady

LEMMA QuietHandles ==
  ASSUME NEW s, Consistent(s), NEW o, Quiet(s, o.s), Schedules(o)
  PROVE  Handles(s, o)
BY QuietResolves, ResolvesHandles

(* The handler goes on calmly from a state it has made sound.              *)
LEMMA HandlesOn ==
  ASSUME NEW s, Consistent(s), NEW x, Consistent(x), NEW o, Quiet(x, o.s), Schedules(o),
         \A j : GoodJob(s, j) => GoodJob(x, j),
         x.lastGeneration \in {s.lastGeneration, generation},
         GivesNoResult(s, x), Forward(s, x)
  PROVE  Handles(s, o)
<1>1. Handles(x, o)
  BY QuietHandles
<1>2. GivesNoResult(x, o.s) /\ Steady(x, o.s)
  BY DEF Quiet, Calm
<1>3. GivesFresh(s, o.s)
  BY <1>2 DEF GivesNoResult, GivesFresh
<1>4. Forward(s, o.s)
  BY <1>2 DEF Steady, Forward
<1> QED
  BY <1>1, <1>3, <1>4 DEF Handles

-----------------------------------------------------------------------------
(* Worker events.                                                          *)
LEMMA CompletedQuiet ==
  ASSUME NEW s, Good(s), NEW job, job.task \in Identities
  PROVE  Quiet(s, Completed(s, job)) /\ Completed(s, job).documents = s.documents
<1> DEFINE t == Completed(s, job)
           id == job.task
           m == Complete(s.table, id)
<1>1. Shape(s) /\ Idle(s.table) /\ s.table.sequence \in Nat
  BY DEF Good, MainTypes, Idle, IsTable
<1>2. /\ Idle(m)
      /\ IsCurrent(s.table, id) => Cancels(s.table, m, {KeyOf(id)})
      /\ ~ IsCurrent(s.table, id) => m = s.table
  BY <1>1, CompleteIdle
<1>3. t = [s EXCEPT !.table = m]
  BY DEF Completed
<1> HIDE DEF t, m
<1>4. Shape(t) /\ Keeps(s, t, {"table"}) /\ t.table = m
  BY <1>1, <1>3 DEF Shape, Keeps, Fields
<1>5. Retains(s, t) /\ m.sequence = s.table.sequence
  <2>1. CASE IsCurrent(s.table, id)
    <3>1. Cancels(s.table, t.table, {KeyOf(id)})
      BY <1>2, <1>4, <2>1
    <3>2. Retains(s, t)
      BY <3>1, CancelsRetains
    <3> QED
      BY <1>4, <3>1, <3>2 DEF Cancels
  <2>2. CASE ~ IsCurrent(s.table, id)
    BY <1>2, <1>4, <2>2, SameRetained
  <2> QED
    BY <2>1, <2>2
<1>6. Good(t)
  BY <1>1, <1>2, <1>4, <1>5, NewTableGood
<1>7. t.requests = s.requests /\ t.documents = s.documents
      /\ Keeps(s, t, {"table", "documents"})
  BY <1>4 DEF Keeps, Fields
<1>8. Rejecting(s, t)
  BY <1>1, <1>4, <1>5, <1>7, KeepsRequests
<1>9. \A v \in Uris : SameStatus(s.documents[v], t.documents[v])
  BY <1>7 DEF SameStatus
<1> QED
  BY <1>5, <1>6, <1>7, <1>8, <1>9, QuietTable DEF t

LEMMA CompletedHandles ==
  ASSUME NEW s, Consistent(s), NEW job, job.task \in Identities
  PROVE  Handles(s, Outcome(Completed(s, job), jobs))
<1>1. Quiet(s, Completed(s, job))
  BY CompletedQuiet DEF Consistent
<1> QED
  BY <1>1, OutcomeParts, JobsUnchanged, QuietHandles

LEMMA JobType ==
  ASSUME NEW s, NEW j, GoodJob(s, j)
  PROVE  /\ j.task \in Identities /\ j.task.uri \in Uris /\ j.generation \in Nat
         /\ j.task.revision \in Nat \ {0} /\ j.task.class \in Classes
         /\ j.kind \in {"foreground", "semantic", "rich", "debug"}
<1>1. j \in Jobs /\ j.task.revision # 0
  BY DEF GoodJob
<1>2. /\ j.task \in Identities /\ j.generation \in Nat
      /\ j.kind \in {"foreground", "semantic", "rich", "debug"}
  BY <1>1 DEF Jobs
<1>3. j.task.uri \in Uris /\ j.task.revision \in Nat /\ j.task.class \in Classes
  BY <1>2 DEF Identities
<1> QED
  BY <1>1, <1>2, <1>3

(* The foreground task publishes its diagnostics.                          *)
WithForeground(d) == [d EXCEPT !.foreground = TRUE]

LEMMA ForegroundType ==
  ASSUME NEW d \in Documents
  PROVE  /\ WithForeground(d) \in Documents
         /\ WithForeground(d).pending = d.pending
         /\ SameStatus(d, WithForeground(d))
BY DEF WithForeground, Documents, SameStatus

Published(s, x, u) ==
  /\ Shape(x) /\ Keeps(s, x, {"documents", "diagnostics"})
  /\ x.documents = [s.documents EXCEPT ![u] = WithForeground(s.documents[u])]
  /\ x.diagnostics = [s.diagnostics EXCEPT ![u] = s.documents[u].revision]

LEMMA PublishParts ==
  ASSUME NEW s, Shape(s), NEW u \in Uris,
         NEW x, x = [s EXCEPT !.documents[u].foreground = TRUE,
                              !.diagnostics[u] = s.documents[u].revision]
  PROVE  Published(s, x, u)
<1> DEFINE docs == [s.documents EXCEPT ![u] = WithForeground(s.documents[u])]
           y == [s EXCEPT !.documents = docs]
           diag == [s.diagnostics EXCEPT ![u] = s.documents[u].revision]
<1>1. x = [y EXCEPT !.diagnostics = diag]
  <2>1. x = [y EXCEPT !.diagnostics[u] = s.documents[u].revision]
    BY DEF WithForeground
  <2>2. y.diagnostics = s.diagnostics
    BY DEF Shape, Fields
  <2> HIDE DEF y
  <2> QED
    BY <2>1, <2>2
<1> HIDE DEF docs, diag
<1>2. Shape(y) /\ Keeps(s, y, {"documents"}) /\ y.documents = docs
  BY DEF Shape, Keeps, Fields
<1> HIDE DEF y
<1>3. Shape(x) /\ Keeps(y, x, {"diagnostics"}) /\ x.diagnostics = diag
  BY <1>1, <1>2 DEF Shape, Keeps, Fields
<1>4. Keeps(s, x, {"documents", "diagnostics"}) /\ x.documents = docs
  BY <1>2, <1>3 DEF Keeps, Fields
<1> QED
  BY <1>3, <1>4 DEF Published, docs, diag

LEMMA PublishSound ==
  ASSUME NEW s, Consistent(s), NEW u \in Uris, NEW x, Published(s, x, u)
  PROVE  /\ Consistent(x) /\ Forward(s, x) /\ Rejecting(s, x)
         /\ x.lastGeneration = s.lastGeneration
         /\ x.documents[u].revision = s.documents[u].revision
<1> DEFINE e == WithForeground(s.documents[u])
           y == [s EXCEPT !.documents[u] = e]
           revision == s.documents[u].revision
<1>0. Good(s) /\ Diagnosed(s)
  BY DEF Consistent
<1>1. /\ Shape(s) /\ s.documents \in [Uris -> Documents]
      /\ s.documents[u] \in Documents /\ s.diagnostics \in [Uris -> Nat]
      /\ revision \in Nat
  BY <1>0 DEF Good, MainTypes, Documents
<1>2. e \in Documents /\ e.pending = s.documents[u].pending
      /\ SameStatus(s.documents[u], e)
  BY <1>1, ForegroundType
<1>3. /\ Shape(x) /\ Keeps(s, x, {"documents", "diagnostics"})
      /\ x.documents = [s.documents EXCEPT ![u] = e]
      /\ x.diagnostics = [s.diagnostics EXCEPT ![u] = revision]
  BY DEF Published
<1> HIDE DEF e
<1>4. /\ Shape(y) /\ Keeps(s, y, {"documents"})
      /\ y.documents = [s.documents EXCEPT ![u] = e]
  BY <1>1 DEF Shape, Keeps, Fields
<1> HIDE DEF y, revision
<1>5. Good(y) /\ Rejecting(s, y)
  BY <1>0, <1>2, <1>4, NewDocumentGood
<1>6. \A v \in Uris : SameStatus(s.documents[v], y.documents[v])
  BY <1>1, <1>2, <1>4 DEF SameStatus
<1>7. Retains(s, y) /\ Keeps(s, y, {"table", "documents"})
  BY <1>4 DEF Keeps, Fields, Retains
<1>8. Quiet(s, y)
  BY <1>0, <1>5, <1>6, <1>7, QuietTable
<1>9. Consistent(y) /\ Steady(s, y)
  BY <1>8, CalmSound DEF Quiet, Calm
<1> DEFINE diag == [s.diagnostics EXCEPT ![u] = revision]
<1>10. diag \in [Uris -> Nat] /\ \A v \in Uris : diag[v] = IF v = u THEN revision
                                                         ELSE s.diagnostics[v]
  BY <1>1
<1> HIDE DEF diag
<1>11. /\ Shape(x) /\ Keeps(y, x, {"diagnostics"}) /\ x.diagnostics = diag
  BY <1>3, <1>4 DEF Keeps, Fields, diag
<1>12. /\ x.documents = y.documents /\ x.table = y.table
       /\ x.requests = y.requests /\ x.deferredRequests = y.deferredRequests
       /\ x.deferredTokens = y.deferredTokens /\ x.nextRevision = y.nextRevision
       /\ x.replays = y.replays /\ x.shown = y.shown
       /\ x.lastGeneration = y.lastGeneration /\ x.refreshDirty = y.refreshDirty
  BY <1>11 DEF Keeps, Fields
<1>13. MainTypes(x)
  BY <1>9, <1>10, <1>11 DEF Consistent, Good, MainTypes, Keeps, Fields
<1>14. Held(x) /\ PendingIssued(x)
  BY <1>9, <1>12 DEF Consistent, Good, Held, PendingIssued, Asked
<1>15. QueuesCurrent(x) /\ Matched(x) /\ Announced(x)
  <2>1. QueuesCurrent(y) /\ Matched(y) /\ Announced(y)
    BY <1>9 DEF Consistent
  <2>2. QueuesCurrent(x)
    <3>1. ASSUME NEW v \in Uris PROVE RequestsCurrent(x, v) /\ TokensCurrent(x, v)
      <4>1. RequestsCurrent(y, v) /\ TokensCurrent(y, v)
        BY <2>1, <3>1 DEF QueuesCurrent
      <4>2. RequestsCurrent(x, v)
        BY <1>12, <4>1 DEF RequestsCurrent
      <4>3. TokensCurrent(x, v)
        BY <1>12, <4>1 DEF TokensCurrent
      <4> QED
        BY <4>2, <4>3
    <3> QED
      BY <3>1 DEF QueuesCurrent
  <2>3. Matched(x)
    BY <1>12, <2>1 DEF Matched
  <2>4. Announced(x)
    BY <1>12, <2>1 DEF Announced
  <2> QED
    BY <2>2, <2>3, <2>4
<1>16. ReplaysCurrent(x)
  BY <1>9, <1>12 DEF Consistent, ReplaysCurrent, Asks, Asked, UriOf
<1>17. \A v \in Uris : x.documents[v].revision = s.documents[v].revision
  BY <1>9, <1>12 DEF Steady
<1>18. x.nextRevision = s.nextRevision
  BY <1>9, <1>12 DEF Steady
<1>19. Diagnosed(x) /\ Forward(s, x)
  <2>1. ASSUME NEW v \in Uris
        PROVE  /\ x.diagnostics[v] <= x.documents[v].revision
               /\ x.documents[v].revision <= x.nextRevision
               /\ x.diagnostics[v] >= s.diagnostics[v]
    <3>1. /\ s.diagnostics[v] \in Nat /\ s.documents[v].revision \in Nat
          /\ s.nextRevision \in Nat
      BY <1>0, NatDiagnostics
    <3>2. /\ s.diagnostics[v] <= s.documents[v].revision
          /\ s.documents[v].revision <= s.nextRevision
      BY <1>0 DEF Diagnosed
    <3>3. x.diagnostics[v] = IF v = u THEN s.documents[u].revision
                             ELSE s.diagnostics[v]
      BY <1>10, <1>11 DEF revision
    <3> QED
      BY <1>17, <1>18, <3>1, <3>2, <3>3
  <2> QED
    BY <2>1 DEF Diagnosed, Forward
<1>20. Rejecting(s, x)
  BY <1>5, <1>12 DEF Rejecting, Follows, GivesNoResult
<1>21. x.lastGeneration = s.lastGeneration
  BY <1>4, <1>12 DEF Keeps, Fields
<1> QED
  BY <1>13, <1>14, <1>15, <1>16, <1>17, <1>19, <1>20, <1>21 DEF Consistent, Good

LEMMA ForegroundReadyHandles ==
  ASSUME NEW s, Consistent(s), NEW job, GoodJob(s, job)
  PROVE  Handles(s, ForegroundReady(s, job))
<1> DEFINE u == job.task.uri
           c == Completed(s, job)
           o == ForegroundReady(s, job)
<1>0. Good(s) /\ job.task \in Identities /\ u \in Uris /\ job.task.revision # 0
  BY JobType DEF Consistent
<1>1. CASE ~ Accepts(s, job) \/ ~ Matches(s, job)
  <2>1. o = Outcome(c, jobs)
    BY <1>1 DEF ForegroundReady
  <2> QED
    BY <1>0, <2>1, CompletedHandles
<1>2. CASE Accepts(s, job) /\ Matches(s, job)
  <2> DEFINE x == [c EXCEPT !.documents[u].foreground = TRUE,
                            !.diagnostics[u] = c.documents[u].revision]
  <2>1. Quiet(s, c) /\ c.documents = s.documents
    BY <1>0, CompletedQuiet
  <2>2. Consistent(c) /\ Good(c) /\ Calm(s, c)
    BY <2>1, CalmSound DEF Quiet, Calm
  <2>3. c.documents[u].revision = job.task.revision
    BY <1>2, <2>1 DEF Matches, Document
  <2>4. o = AdmitSemantic([c EXCEPT !.documents[u].foreground = TRUE,
                                    !.diagnostics[u] = job.task.revision], u)
    BY <1>2 DEF ForegroundReady
  <2>5. o = AdmitSemantic(x, u)
    BY <2>3, <2>4
  <2> HIDE DEF c, o
  <2>x. Published(c, x, u)
    <3>1. Shape(c)
      BY <2>2 DEF Good, MainTypes
    <3> QED
      BY <1>0, <3>1, PublishParts
  <2> HIDE DEF x
  <2>6. /\ Consistent(x) /\ Forward(c, x) /\ Rejecting(c, x)
        /\ x.lastGeneration = c.lastGeneration
        /\ x.documents[u].revision = c.documents[u].revision
    BY <1>0, <2>2, <2>x, PublishSound
  <2>7. Good(x) /\ x.documents[u].revision # 0
    BY <1>0, <2>3, <2>6 DEF Consistent
  <2>8. Quiet(x, o.s) /\ Schedules(o)
    BY <1>0, <2>5, <2>7, AdmitSemanticQuiet
  <2>9. /\ Follows(s, c) /\ Follows(c, x) /\ GivesNoResult(s, x)
        /\ c.diagnostics = s.diagnostics
        /\ c.lastGeneration \in {s.lastGeneration, generation}
    BY <2>1, <2>2, <2>6 DEF Quiet, Calm, Steady, Rejecting, GivesNoResult
  <2>10. \A j : GoodJob(s, j) => GoodJob(x, j)
    BY <1>0, <2>2, <2>7, <2>9, GoodJobKept
  <2>11. Forward(s, x)
    BY <2>6, <2>9 DEF Forward
  <2>12. x.lastGeneration \in {s.lastGeneration, generation}
    BY <2>6, <2>9
  <2> QED
    BY <2>6, <2>8, <2>9, <2>10, <2>11, <2>12, HandlesOn DEF o
<1> QED
  BY <1>1, <1>2

(* The document is rejected, and what waited for it with it.               *)
LEMMA RejectDocumentQuiet ==
  ASSUME NEW s, Good(s), NEW u \in Uris, NEW x,
         x = [s EXCEPT !.documents[u].rejected = TRUE],
         TokensCurrent(s, u), NEW revision, revision = s.documents[u].revision
  PROVE  Quiet(s, RejectDeferredTokens(DiscardDeferredRequests(x, u), u,
                                       {revision}, Nat))
<1> DEFINE d == DiscardDeferredRequests(x, u)
           t == RejectDeferredTokens(d, u, {revision}, Nat)
           k == Kept(s.deferredTokens[u], TokenWaiters \ Rejects({revision}, Nat))
           e == WithRejected(s.documents[u])
<1>0. /\ s.documents \in [Uris -> Documents] /\ s.documents[u] \in Documents
      /\ s.deferredRequests \in [Uris -> Seq(Waiters)]
      /\ s.deferredTokens \in [Uris -> Seq(TokenWaiters)]
  BY DEF Good, MainTypes
<1>1. /\ Good(x) /\ Rejecting(s, x) /\ Keeps(s, x, {"documents"})
      /\ x.documents = [s.documents EXCEPT ![u] = e]
  BY OverloadGood
<1>2. e.revision = s.documents[u].revision
  BY <1>0, RejectedStatus
<1>3. k = << >>
  BY RevisionRejected
<1> HIDE DEF e
<1>4. Discards(x, d, u) /\ Rejecting(x, d)
  BY <1>1, DiscardGood, DiscardRejecting
<1> HIDE DEF d
<1>5. Drops(d, t, u, Rejects({revision}, Nat)) /\ Rejecting(d, t) /\ Good(d)
  BY <1>4, RejectGood, RejectRejecting DEF Discards
<1> HIDE DEF t
<1>6. Good(t)
  BY <1>5 DEF Drops
<1>7. Rejecting(s, t)
  <2>1. Rejecting(s, d)
    BY <1>1, <1>4, <1>5, RejectingTrans
  <2> QED
    BY <1>5, <1>6, <2>1, RejectingTrans
<1>8. /\ t.table = s.table /\ t.documents = x.documents
      /\ t.deferredRequests = [s.deferredRequests EXCEPT ![u] = << >>]
      /\ d.deferredTokens = s.deferredTokens
      /\ Keeps(s, t, {"table", "documents", "requests", "deferredRequests",
                      "deferredTokens"})
  BY <1>1, <1>4, <1>5 DEF Discards, Drops, Keeps, Fields
<1>9. t.deferredTokens = [s.deferredTokens EXCEPT ![u] = k]
  BY <1>5, <1>8 DEF Drops
<1> HIDE DEF k
<1>10. /\ \A v \in Uris : v # u => SameStatus(s.documents[v], t.documents[v])
       /\ \A v \in Uris : v # u => t.deferredRequests[v] = s.deferredRequests[v]
       /\ \A v \in Uris : v # u => t.deferredTokens[v] = s.deferredTokens[v]
       /\ t.deferredRequests[u] = << >> /\ t.deferredTokens[u] = << >>
  BY <1>0, <1>1, <1>3, <1>8, <1>9 DEF SameStatus
<1>11. Stays(s, t)
  <2>1. RequestsCurrent(t, u) /\ TokensCurrent(t, u)
    BY <1>10, EmptyCurrent
  <2>2. ASSUME NEW v \in Uris, v # u
        PROVE  /\ RequestsCurrent(s, v) => RequestsCurrent(t, v)
               /\ TokensCurrent(s, v) => TokensCurrent(t, v)
    BY <1>6, <1>7, <1>10, <2>2, StaysAt, QueuesThin DEF Rejecting
  <2> QED
    BY <2>1, <2>2 DEF Stays
<1>12. \A v \in Uris : t.documents[v].revision = s.documents[v].revision
  BY <1>0, <1>1, <1>2, <1>8
<1>13. Retains(s, t)
  BY <1>8, SameRetained
<1>14. Calm(s, t)
  BY <1>6, <1>7, <1>8, <1>11, <1>12, <1>13, CalmParts DEF Rejecting
<1> QED
  BY <1>7, <1>14 DEF Quiet, Rejecting, t, d

LEMMA DropQuiet ==
  ASSUME NEW s, Good(s), NEW u \in Uris, NEW revisions, NEW generations
  PROVE  Quiet(s, RejectDeferredTokens(DiscardDeferredRequests(s, u), u,
                                       revisions, generations))
<1> DEFINE d == DiscardDeferredRequests(s, u)
<1>1. Quiet(s, d)
  BY DiscardQuiet
<1> HIDE DEF d
<1>2. Quiet(d, RejectDeferredTokens(d, u, revisions, generations))
  BY <1>1, RejectQuiet DEF Quiet, Calm
<1>3. Quiet(s, RejectDeferredTokens(d, u, revisions, generations))
  BY <1>1, <1>2, QuietTrans
<1> QED
  BY <1>3 DEF d

LEMMA ForegroundSkippedHandles ==
  ASSUME NEW s, Consistent(s), NEW job, GoodJob(s, job)
  PROVE  Handles(s, ForegroundSkipped(s, job))
<1> DEFINE u == job.task.uri
           revision == job.task.revision
           c == Completed(s, job)
           o == ForegroundSkipped(s, job)
<1>0. Good(s) /\ job.task \in Identities /\ u \in Uris
  BY JobType DEF Consistent
<1>1. Quiet(s, c) /\ c.documents = s.documents
  BY <1>0, CompletedQuiet
<1>2. Consistent(c) /\ Good(c)
  BY <1>1, CalmSound DEF Quiet, Calm
<1>3. CASE ~ Accepts(s, job)
  <2>1. o = Outcome(c, jobs)
    BY <1>3 DEF ForegroundSkipped
  <2> QED
    BY <1>0, <2>1, CompletedHandles
<1>4. CASE Accepts(s, job) /\ ~ Matches(s, job)
  <2> DEFINE t == RejectDeferredTokens(DiscardDeferredRequests(c, u), u,
                                       {revision}, Nat)
  <2>1. o = Outcome(t, jobs)
    BY <1>4 DEF ForegroundSkipped
  <2> HIDE DEF c, o
  <2>2. Quiet(s, t)
    BY <1>0, <1>1, <1>2, DropQuiet, QuietTrans
  <2> HIDE DEF t
  <2> QED
    BY <2>1, <2>2, OutcomeParts, JobsUnchanged, QuietHandles DEF o
<1>5. CASE Accepts(s, job) /\ Matches(s, job)
  <2> DEFINE x == [c EXCEPT !.documents[u].rejected = TRUE]
             t == RejectDeferredTokens(DiscardDeferredRequests(x, u), u,
                                       {revision}, Nat)
  <2>1. o = Outcome(t, jobs)
    BY <1>5 DEF ForegroundSkipped
  <2>2. revision = c.documents[u].revision
    BY <1>1, <1>5 DEF Matches, Document
  <2> HIDE DEF c, o
  <2>3. TokensCurrent(c, u)
    BY <1>0, <1>2 DEF Consistent, QueuesCurrent
  <2>4. Quiet(c, t)
    BY <1>0, <1>2, <2>2, <2>3, RejectDocumentQuiet
  <2> HIDE DEF t
  <2>5. Quiet(s, t)
    BY <1>0, <1>1, <2>4, QuietTrans
  <2> QED
    BY <2>1, <2>5, OutcomeParts, JobsUnchanged, QuietHandles DEF o
<1> QED
  BY <1>3, <1>4, <1>5

LEMMA CompletedKeeps ==
  ASSUME NEW s, Good(s), NEW job
  PROVE  Keeps(s, Completed(s, job), {"table"})
<1> DEFINE t == Completed(s, job)
           m == Complete(s.table, job.task)
<1>1. Shape(s)
  BY DEF Good, MainTypes
<1>2. t = [s EXCEPT !.table = m]
  BY DEF Completed
<1> HIDE DEF t, m
<1>3. Keeps(s, t, {"table"})
  BY <1>1, <1>2 DEF Shape, Keeps, Fields
<1> QED
  BY <1>3 DEF t

(* The requests of a queue, in its order.                                  *)
Replayed(q) == [i \in 1 .. Len(q) |-> q[i].request]

LEMMA ReplayedType ==
  ASSUME NEW R, NEW q \in Seq(R), \A w \in R : w.request \in Requests
  PROVE  Replayed(q) \in Seq(Requests) /\ Members(Replayed(q)) = RequestsIn(q)
<1>1. Len(q) \in Nat /\ \A i \in 1 .. Len(q) : q[i] \in R
  BY LenProperties, ElementOfSeq
<1>2. Replayed(q) \in [1 .. Len(q) -> Requests]
  BY <1>1 DEF Replayed
<1>3. Replayed(q) \in Seq(Requests)
  BY <1>1, <1>2, SeqDef
<1>4. Len(Replayed(q)) = Len(q)
  <2>1. /\ DOMAIN Replayed(q) = 1 .. Len(q) /\ Len(Replayed(q)) \in Nat
        /\ DOMAIN Replayed(q) = 1 .. Len(Replayed(q))
    BY <1>2, <1>3, LenProperties
  <2> QED
    BY <1>1, <2>1
<1>5. \A i \in 1 .. Len(q) : Replayed(q)[i] = q[i].request
  BY DEF Replayed
<1> QED
  BY <1>3, <1>4, <1>5 DEF Members, RequestsIn

(* What is replayed asks about the revision on screen.                     *)
Replayable(s, u) ==
  {r \in Asked(s) : /\ s.requests[r].uri = u
                    /\ s.requests[r].revision = s.documents[u].revision}

LEMMA QueueReplayable ==
  ASSUME NEW s, Consistent(s), NEW u \in Uris
  PROVE  /\ RequestsIn(s.deferredRequests[u]) \subseteq Replayable(s, u)
         /\ RequestsIn(s.deferredTokens[u]) \subseteq Replayable(s, u)
<1>1. /\ RequestsIn(s.deferredRequests[u]) \subseteq Asked(s)
      /\ RequestsIn(s.deferredTokens[u]) \subseteq Asked(s)
  BY DEF Consistent, Good, Held
<1>2. RequestsCurrent(s, u) /\ TokensCurrent(s, u)
  BY DEF Consistent, QueuesCurrent
<1>3. /\ \A r \in RequestsIn(s.deferredRequests[u]) :
           s.requests[r].uri = u /\ s.requests[r].revision = s.documents[u].revision
      /\ \A r \in RequestsIn(s.deferredTokens[u]) :
           s.requests[r].uri = u /\ s.requests[r].revision = s.documents[u].revision
  BY <1>2, RequestsAreMembers DEF RequestsCurrent, TokensCurrent
<1> QED
  BY <1>1, <1>3 DEF Replayable

(* A document's analysis or projection is installed: its status changes as *)
(* far as what is still deferred allows, and requests are replayed.        *)
LEMMA InstallSound ==
  ASSUME NEW s, Consistent(s), NEW u \in Uris, NEW x, Shape(x),
         Keeps(s, x, {"documents", "deferredRequests", "deferredTokens", "replays"}),
         NEW e \in Documents, x.documents = [s.documents EXCEPT ![u] = e],
         e.revision = s.documents[u].revision,
         e.pending \in {NoPending, s.documents[u].pending},
         NEW q \in Seq(Waiters),
         x.deferredRequests = [s.deferredRequests EXCEPT ![u] = q],
         Thinned(s.deferredRequests[u], q),
         e.analysis = s.documents[u].analysis \/ q = << >>,
         NEW p \in Seq(TokenWaiters),
         x.deferredTokens = [s.deferredTokens EXCEPT ![u] = p],
         Thinned(s.deferredTokens[u], p),
         e.rejected \in {FALSE, s.documents[u].rejected},
         x.replays \in Seq(Requests), Members(x.replays) \subseteq Replayable(s, u)
  PROVE  Consistent(x) /\ Rejecting(s, x) /\ Forward(s, x)
         /\ x.lastGeneration = s.lastGeneration
<1>1. /\ Good(s) /\ s.documents \in [Uris -> Documents]
      /\ s.deferredRequests \in [Uris -> Seq(Waiters)]
      /\ s.deferredTokens \in [Uris -> Seq(TokenWaiters)]
  BY DEF Consistent, Good, MainTypes
<1>2. /\ x.documents \in [Uris -> Documents]
      /\ \A v \in Uris : x.documents[v] = IF v = u THEN e ELSE s.documents[v]
      /\ x.deferredRequests \in [Uris -> Seq(Waiters)]
      /\ \A v \in Uris : x.deferredRequests[v] = IF v = u THEN q
                                                 ELSE s.deferredRequests[v]
      /\ x.deferredTokens \in [Uris -> Seq(TokenWaiters)]
      /\ \A v \in Uris : x.deferredTokens[v] = IF v = u THEN p
                                               ELSE s.deferredTokens[v]
  BY <1>1
<1>3. /\ x.table = s.table /\ x.requests = s.requests
      /\ x.nextRevision = s.nextRevision /\ x.diagnostics = s.diagnostics
      /\ x.shown = s.shown /\ x.lastGeneration = s.lastGeneration
      /\ x.refreshDirty = s.refreshDirty
  BY DEF Keeps, Fields
<1>4. MainTypes(x)
  BY <1>1, <1>2 DEF Good, MainTypes, Keeps, Fields
<1>5. Asked(x) = Asked(s)
  BY <1>3 DEF Asked
<1>6. Held(x)
  <2>1. /\ RequestsIn(q) \subseteq RequestsIn(s.deferredRequests[u])
        /\ RequestsIn(p) \subseteq RequestsIn(s.deferredTokens[u])
    BY RequestsAreMembers DEF Thinned
  <2>2. Held(s) /\ Members(x.replays) \subseteq Asked(s)
    BY <1>1 DEF Good, Replayable
  <2> QED
    BY <1>2, <1>5, <2>1, <2>2 DEF Held
<1>7. PendingIssued(x)
  BY <1>1, <1>2, <1>3 DEF Good, PendingIssued
<1>8. Good(x)
  BY <1>4, <1>6, <1>7 DEF Good
<1>9. Rejecting(s, x)
  <2>1. s.table.sequence \in Nat
    BY <1>1 DEF Good, MainTypes, Idle, IsTable
  <2> QED
    BY <1>1, <1>3, <2>1, KeepsRequests
<1>10. \A v \in Uris : x.documents[v].revision = s.documents[v].revision
  BY <1>2
<1>11. QueuesCurrent(x)
  <2>0. \A v \in Uris : RequestsCurrent(s, v) /\ TokensCurrent(s, v)
    BY DEF Consistent, QueuesCurrent
  <2>1. ASSUME NEW v \in Uris, v # u
        PROVE  RequestsCurrent(x, v) /\ TokensCurrent(x, v)
    <3>1. SameStatus(s.documents[v], x.documents[v])
      BY <1>2, <2>1 DEF SameStatus
    <3> QED
      BY <1>1, <1>2, <1>8, <1>9, <2>0, <2>1, <3>1, StaysAt, QueuesThin DEF Rejecting
  <2>2. /\ Len(q) \in Nat /\ Len(s.deferredRequests[u]) \in Nat
        /\ Len(p) \in Nat /\ Len(s.deferredTokens[u]) \in Nat /\ DeferralLimit \in Nat
        /\ Members(q) \subseteq Waiters /\ Members(p) \subseteq TokenWaiters
    BY <1>1, MembersType, RuntimeAssumption
  <2>3. RequestsCurrent(x, u)
    <3>1. CASE q = << >>
      BY <1>2, <3>1, EmptyCurrent
    <3>2. CASE q # << >>
      <4>1. e.analysis = s.documents[u].analysis /\ (e.rejected => s.documents[u].rejected)
        BY <3>2
      <4> QED
        BY <1>2, <1>3, <2>0, <2>2, <4>1 DEF RequestsCurrent, Thinned
    <3> QED
      BY <3>1, <3>2
  <2>4. TokensCurrent(x, u)
    <3>1. e.rejected => s.documents[u].rejected
      OBVIOUS
    <3> QED
      BY <1>2, <1>3, <2>0, <2>2, <3>1 DEF TokensCurrent, Thinned
  <2> QED
    BY <2>1, <2>3, <2>4 DEF QueuesCurrent
<1>12. Matched(x)
  <2>1. Retains(s, x)
    BY <1>3, SameRetained
  <2> QED
    BY <1>1, <1>8, <1>10, <2>1, MatchedKept DEF Consistent
<1>13. Announced(x)
  BY <1>3, <1>10 DEF Consistent, Announced
<1>14. Diagnosed(x) /\ Forward(s, x)
  <2>1. Diagnosed(s)
    BY DEF Consistent
  <2> QED
    BY <1>1, <1>3, <1>10, <2>1, NatDiagnostics DEF Diagnosed, Forward
<1>15. ReplaysCurrent(x)
  BY <1>3, <1>5, <1>10 DEF ReplaysCurrent, Asks, UriOf, Replayable
<1> QED
  BY <1>3, <1>8, <1>9, <1>11, <1>12, <1>13, <1>14, <1>15 DEF Consistent


(* From s calmly to a, which x installs something in, and on from there.   *)
LEMMA InstalledHandles ==
  ASSUME NEW s, Consistent(s), NEW a, Quiet(s, a), NEW x, Consistent(x), Rejecting(a, x),
         Forward(a, x), x.lastGeneration = a.lastGeneration,
         NEW o, Quiet(x, o.s), Schedules(o)
  PROVE  Handles(s, o)
<1>1. Good(s) /\ Good(a) /\ Good(x) /\ Follows(s, a) /\ Steady(s, a)
  BY DEF Consistent, Quiet, Calm
<1>2. Follows(s, x) /\ GivesNoResult(s, x)
  <2>1. Follows(s, x)
    BY <1>1, FollowsTrans DEF Rejecting
  <2>2. GivesNoResult(s, x)
    BY DEF Quiet, Rejecting, GivesNoResult
  <2> QED
    BY <2>1, <2>2
<1>3. \A j : GoodJob(s, j) => GoodJob(x, j)
  BY <1>1, <1>2, GoodJobKept
<1>4. Forward(s, x) /\ x.lastGeneration \in {s.lastGeneration, generation}
  BY <1>1 DEF Steady, Forward
<1> QED
  BY <1>2, <1>3, <1>4, HandlesOn

(* The analysis is installed, and what waited for it is replayed.          *)
WithAnalysis(d) == [d EXCEPT !.analysis = TRUE, !.rejected = FALSE]

LEMMA AnalysisType ==
  ASSUME NEW d \in Documents
  PROVE  /\ WithAnalysis(d) \in Documents
         /\ WithAnalysis(d).revision = d.revision
         /\ WithAnalysis(d).pending = d.pending
         /\ WithAnalysis(d).rejected = FALSE
BY DEF WithAnalysis, Documents

AnalysisInstalled(s, x, u, p) ==
  /\ Shape(x)
  /\ Keeps(s, x, {"documents", "deferredRequests", "deferredTokens", "replays"})
  /\ x.documents = [s.documents EXCEPT ![u] = WithAnalysis(s.documents[u])]
  /\ x.deferredRequests = [s.deferredRequests EXCEPT ![u] = << >>]
  /\ x.deferredTokens = s.deferredTokens
  /\ x.replays = p

LEMMA AnalysisParts ==
  ASSUME NEW s, Shape(s), NEW u \in Uris, NEW p, s.documents \in [Uris -> Documents],
         NEW x, x = [s EXCEPT !.documents[u].analysis = TRUE,
                              !.documents[u].rejected = FALSE,
                              !.deferredRequests[u] = << >>,
                              !.replays = p]
  PROVE  AnalysisInstalled(s, x, u, p)
<1> DEFINE e == WithAnalysis(s.documents[u])
           docs == [s.documents EXCEPT ![u] = e]
           q == [s.deferredRequests EXCEPT ![u] = << >>]
<1>1. docs = [s.documents EXCEPT ![u].analysis = TRUE, ![u].rejected = FALSE]
  BY DEF WithAnalysis
<1>2. x = [s EXCEPT !.documents = docs, !.deferredRequests = q, !.replays = p]
  BY <1>1
<1> HIDE DEF docs, q
<1>3. /\ Shape(x) /\ x.deferredTokens = s.deferredTokens
      /\ Keeps(s, x, {"documents", "deferredRequests", "deferredTokens", "replays"})
      /\ x.documents = docs /\ x.deferredRequests = q /\ x.replays = p
  BY <1>2 DEF Shape, Keeps, Fields
<1> QED
  BY <1>3 DEF AnalysisInstalled, docs, q

LEMMA AnalysisSound ==
  ASSUME NEW s, Consistent(s), NEW u \in Uris, NEW p \in Seq(Requests),
         Members(p) \subseteq Replayable(s, u),
         NEW x, AnalysisInstalled(s, x, u, p)
  PROVE  Consistent(x) /\ Rejecting(s, x) /\ Forward(s, x)
         /\ x.lastGeneration = s.lastGeneration
<1> DEFINE e == WithAnalysis(s.documents[u])
<1>1. /\ Good(s) /\ s.documents[u] \in Documents
      /\ s.deferredTokens \in [Uris -> Seq(TokenWaiters)]
      /\ s.deferredTokens[u] \in Seq(TokenWaiters)
  BY DEF Consistent, Good, MainTypes
<1>2. /\ e \in Documents /\ e.revision = s.documents[u].revision
      /\ e.pending = s.documents[u].pending /\ e.rejected = FALSE
  BY <1>1, AnalysisType
<1>3. /\ Shape(x)
      /\ Keeps(s, x, {"documents", "deferredRequests", "deferredTokens", "replays"})
      /\ x.documents = [s.documents EXCEPT ![u] = e]
      /\ x.deferredRequests = [s.deferredRequests EXCEPT ![u] = << >>]
      /\ x.deferredTokens = s.deferredTokens /\ x.replays = p
  BY DEF AnalysisInstalled
<1> HIDE DEF e
<1>4. x.deferredTokens = [s.deferredTokens EXCEPT ![u] = s.deferredTokens[u]]
  BY <1>1, <1>3
<1>5. << >> \in Seq(Waiters)
  BY EmptySeq
<1>6. /\ Thinned(s.deferredRequests[u], << >>)
      /\ Thinned(s.deferredTokens[u], s.deferredTokens[u])
  BY <1>1, QueuesThin
<1> DEFINE q == << >>
           k == s.deferredTokens[u]
<1>7. /\ q \in Seq(Waiters) /\ x.deferredRequests = [s.deferredRequests EXCEPT ![u] = q]
      /\ Thinned(s.deferredRequests[u], q)
      /\ e.analysis = s.documents[u].analysis \/ q = << >>
  BY <1>3, <1>5, <1>6
<1>8. /\ k \in Seq(TokenWaiters)
      /\ x.deferredTokens = [s.deferredTokens EXCEPT ![u] = k]
      /\ Thinned(s.deferredTokens[u], k)
  BY <1>1, <1>4, <1>6
<1> HIDE DEF q, k
<1>9. /\ e.pending \in {NoPending, s.documents[u].pending}
      /\ e.rejected \in {FALSE, s.documents[u].rejected}
      /\ x.replays \in Seq(Requests) /\ Members(x.replays) \subseteq Replayable(s, u)
  BY <1>2, <1>3
<1> QED
  BY <1>2, <1>3, <1>7, <1>8, <1>9, InstallSound, ZenonT(60)


LEMMA AnalysisReadyHandles ==
  ASSUME NEW s, Consistent(s), NEW job, GoodJob(s, job), generation \in Nat
  PROVE  Handles(s, AnalysisReady(s, job))
<1> DEFINE u == job.task.uri
           c == Completed(s, job)
           o == AnalysisReady(s, job)
           same == [request : Requests, revision : {job.task.revision}]
           queue == Kept(s.deferredRequests[u], same)
           others == Kept(s.deferredRequests[u], Waiters \ same)
           a == Answer(c, RequestsIn(others), "error")
           x == [a EXCEPT !.documents[u].analysis = TRUE,
                          !.documents[u].rejected = FALSE,
                          !.deferredRequests[u] = << >>,
                          !.replays = Replayed(queue)]
<1>0. /\ Good(s) /\ job.task \in Identities /\ u \in Uris
      /\ s.deferredRequests[u] \in Seq(Waiters)
  BY JobType DEF Consistent, Good, MainTypes
<1>1. CASE ~ Accepts(s, job) \/ ~ Matches(s, job)
  <2>1. o = Outcome(c, jobs)
    BY <1>1 DEF AnalysisReady
  <2> QED
    BY <1>0, <2>1, CompletedHandles
<1>2. CASE Accepts(s, job) /\ Matches(s, job)
  <2>1. o = AdmitRich(x, u, generation)
    BY <1>2 DEF AnalysisReady, Replayed
  <2>2. Quiet(s, c) /\ Keeps(s, c, {"table"})
    BY <1>0, CompletedQuiet, CompletedKeeps
  <2> HIDE DEF c, o
  <2>3. /\ Members(queue) \subseteq Members(s.deferredRequests[u])
        /\ Members(others) \subseteq Members(s.deferredRequests[u])
        /\ queue \in Seq(Waiters) /\ others \in Seq(Waiters)
    BY <1>0, KeptProperties
  <2> HIDE DEF queue, others, same
  <2>4. /\ RequestsIn(queue) \subseteq RequestsIn(s.deferredRequests[u])
        /\ RequestsIn(others) \subseteq RequestsIn(s.deferredRequests[u])
    BY <2>3, RequestsAreMembers
  <2>5. RequestsIn(others) \cap Requests \subseteq Asked(c)
    BY <1>0, <2>2, <2>4 DEF Good, Held, Keeps, Fields, Asked
  <2>6. Good(c)
    BY <2>2 DEF Quiet, Calm
  <2>7. Answers(c, a, RequestsIn(others), "error") /\ Quiet(c, a)
    BY <2>5, <2>6, AnswerGood, AnswerCalm
  <2> HIDE DEF a
  <2>8. Quiet(s, a) /\ Consistent(a) /\ Good(a) /\ Shape(a)
        /\ a.documents \in [Uris -> Documents]
    <3>1. Quiet(s, a)
      BY <1>0, <2>2, <2>7, QuietTrans
    <3>2. Consistent(a)
      BY <3>1, CalmSound DEF Quiet
    <3> QED
      BY <3>1, <3>2 DEF Consistent, Good, MainTypes
  <2>9. a.deferredRequests = s.deferredRequests
    BY <2>2, <2>7 DEF Answers, Keeps, Fields
  <2>10. /\ Replayed(queue) \in Seq(Requests)
         /\ Members(Replayed(queue)) \subseteq Replayable(a, u)
    <3>1. \A w \in Waiters : w.request \in Requests
      BY DEF Waiters
    <3>2. /\ Replayed(queue) \in Seq(Requests)
          /\ Members(Replayed(queue)) = RequestsIn(queue)
      BY <2>3, <3>1, ReplayedType
    <3>3. RequestsIn(a.deferredRequests[u]) \subseteq Replayable(a, u)
      BY <1>0, <2>8, QueueReplayable
    <3> QED
      BY <2>4, <2>9, <3>2, <3>3
  <2> DEFINE p == Replayed(queue)
  <2> HIDE DEF p
  <2>11. AnalysisInstalled(a, x, u, p)
    BY <1>0, <2>8, AnalysisParts DEF p
  <2> HIDE DEF x
  <2>12. Consistent(x) /\ Rejecting(a, x) /\ Forward(a, x)
         /\ x.lastGeneration = a.lastGeneration
    BY <1>0, <2>8, <2>10, <2>11, AnalysisSound DEF p
  <2>13. Quiet(x, o.s) /\ Schedules(o)
    BY <1>0, <2>1, <2>12, AdmitRichQuiet DEF Consistent
  <2> QED
    BY <2>8, <2>12, <2>13, InstalledHandles DEF o
<1> QED
  BY <1>1, <1>2


(* The projection is installed, and what waited for it is replayed.        *)
WithProjection(d, o) == [d EXCEPT !.overlay = o, !.pending = NoPending]

LEMMA ProjectionType ==
  ASSUME NEW d \in Documents, NEW o \in [revision : Nat, generation : Nat]
  PROVE  /\ WithProjection(d, o) \in Documents
         /\ SameStatus(d, WithProjection(d, o))
         /\ WithProjection(d, o).pending = NoPending
<1>1. NoPending \in [revision : Nat, generation : Nat, sequence : Nat]
  BY DEF NoPending
<1> HIDE DEF NoPending
<1> QED
  BY <1>1 DEF WithProjection, Documents, SameStatus

ProjectionInstalled(s, x, u, o, k, p) ==
  /\ Shape(x)
  /\ Keeps(s, x, {"documents", "deferredRequests", "deferredTokens", "replays"})
  /\ x.documents = [s.documents EXCEPT ![u] = WithProjection(s.documents[u], o)]
  /\ x.deferredRequests = s.deferredRequests
  /\ x.deferredTokens = [s.deferredTokens EXCEPT ![u] = k]
  /\ x.replays = p

LEMMA ProjectionParts ==
  ASSUME NEW s, Shape(s), NEW u \in Uris, NEW o, NEW S, NEW p,
         s.documents \in [Uris -> Documents],
         NEW x, x = [s EXCEPT !.documents[u].overlay = o,
                              !.documents[u].pending = NoPending,
                              !.deferredTokens[u] = Kept(@, S),
                              !.replays = p]
  PROVE  ProjectionInstalled(s, x, u, o, Kept(s.deferredTokens[u], S), p)
<1> DEFINE e == WithProjection(s.documents[u], o)
           docs == [s.documents EXCEPT ![u] = e]
           q == [s.deferredTokens EXCEPT ![u] = Kept(s.deferredTokens[u], S)]
<1>1. docs = [s.documents EXCEPT ![u].overlay = o, ![u].pending = NoPending]
  BY DEF WithProjection
<1>2. q = [s.deferredTokens EXCEPT ![u] = Kept(@, S)]
  OBVIOUS
<1>3. x = [s EXCEPT !.documents = docs, !.deferredTokens = q, !.replays = p]
  BY <1>1, <1>2
<1> HIDE DEF docs, q
<1>4. /\ Shape(x) /\ x.deferredRequests = s.deferredRequests
      /\ Keeps(s, x, {"documents", "deferredRequests", "deferredTokens", "replays"})
      /\ x.documents = docs /\ x.deferredTokens = q /\ x.replays = p
  BY <1>3 DEF Shape, Keeps, Fields
<1> QED
  BY <1>4 DEF ProjectionInstalled, docs, q

ProjectionFits(s, x, u, o, k, p) ==
  /\ Consistent(s) /\ u \in Uris /\ o \in [revision : Nat, generation : Nat]
  /\ k \in Seq(TokenWaiters) /\ Thinned(s.deferredTokens[u], k)
  /\ p \in Seq(Requests) /\ Members(p) \subseteq Replayable(s, u)
  /\ ProjectionInstalled(s, x, u, o, k, p)

LEMMA ProjectionSound ==
  ASSUME NEW s, NEW x, NEW u, NEW o, NEW k, NEW p, ProjectionFits(s, x, u, o, k, p)
  PROVE  Consistent(x) /\ Rejecting(s, x) /\ Forward(s, x)
         /\ x.lastGeneration = s.lastGeneration
<1> DEFINE e == WithProjection(s.documents[u], o)
           q == s.deferredRequests[u]
<1>0. /\ Consistent(s) /\ u \in Uris /\ o \in [revision : Nat, generation : Nat]
      /\ k \in Seq(TokenWaiters) /\ Thinned(s.deferredTokens[u], k)
      /\ p \in Seq(Requests) /\ Members(p) \subseteq Replayable(s, u)
      /\ ProjectionInstalled(s, x, u, o, k, p)
  BY DEF ProjectionFits
<1>1. /\ Good(s) /\ s.documents[u] \in Documents
      /\ s.deferredRequests \in [Uris -> Seq(Waiters)]
      /\ s.deferredRequests[u] \in Seq(Waiters)
  BY <1>0 DEF Consistent, Good, MainTypes
<1>2. /\ e \in Documents /\ SameStatus(s.documents[u], e) /\ e.pending = NoPending
  BY <1>0, <1>1, ProjectionType
<1>3. /\ Shape(x)
      /\ Keeps(s, x, {"documents", "deferredRequests", "deferredTokens", "replays"})
      /\ x.documents = [s.documents EXCEPT ![u] = e]
      /\ x.deferredTokens = [s.deferredTokens EXCEPT ![u] = k]
      /\ x.deferredRequests = s.deferredRequests /\ x.replays = p
  BY <1>0 DEF ProjectionInstalled
<1> HIDE DEF e
<1>4. /\ q \in Seq(Waiters) /\ Thinned(s.deferredRequests[u], q)
      /\ x.deferredRequests = [s.deferredRequests EXCEPT ![u] = q]
  BY <1>0, <1>1, <1>3, QueuesThin
<1> HIDE DEF q
<1>5. /\ e.revision = s.documents[u].revision
      /\ e.pending \in {NoPending, s.documents[u].pending}
      /\ e.analysis = s.documents[u].analysis \/ q = << >>
      /\ e.rejected \in {FALSE, s.documents[u].rejected}
      /\ x.replays \in Seq(Requests) /\ Members(x.replays) \subseteq Replayable(s, u)
  BY <1>0, <1>2, <1>3 DEF SameStatus
<1> QED
  BY <1>0, <1>2, <1>3, <1>4, <1>5, InstallSound, ZenonT(60)

LEMMA RichReadyHandles ==
  ASSUME NEW s, Consistent(s), NEW job, GoodJob(s, job), generation \in Nat
  PROVE  Handles(s, RichReady(s, job))
<1> DEFINE u == job.task.uri
           c == Completed(s, job)
           o == RichReady(s, job)
           served == [request : Requests, revision : {job.task.revision},
                      generation : {job.generation}]
           waiting == Kept(s.deferredTokens[u], served)
           overlay == [revision |-> job.task.revision, generation |-> job.generation]
           x == [c EXCEPT !.documents[u].overlay = overlay,
                          !.documents[u].pending = NoPending,
                          !.deferredTokens[u] = Kept(@, TokenWaiters \ served),
                          !.replays = Replayed(waiting)]
           t == IF waiting = << >> THEN RequestRefresh(x) ELSE x
<1>0. /\ Good(s) /\ job.task \in Identities /\ u \in Uris
      /\ job.task.revision \in Nat /\ job.generation \in Nat
      /\ s.deferredTokens[u] \in Seq(TokenWaiters)
  BY JobType DEF Consistent, Good, MainTypes
<1>1. CASE ~ Accepts(s, job) \/ ~ Matches(s, job) \/ job.generation # generation
  <2>1. o = Outcome(c, jobs)
    BY <1>1 DEF RichReady
  <2> QED
    BY <1>0, <2>1, CompletedHandles
<1>2. CASE Accepts(s, job) /\ Matches(s, job) /\ job.generation = generation
  <2>1. o = Outcome(t, jobs)
    BY <1>2 DEF RichReady, Replayed
  <2>2. overlay \in [revision : Nat, generation : Nat]
    BY <1>0
  <2>3. Quiet(s, c) /\ Keeps(s, c, {"table"})
    BY <1>0, CompletedQuiet, CompletedKeeps
  <2> HIDE DEF c, o, overlay
  <2>4. Consistent(c) /\ Good(c) /\ Shape(c) /\ c.documents \in [Uris -> Documents]
    <3>1. Consistent(c)
      BY <2>3, CalmSound DEF Quiet
    <3> QED
      BY <3>1 DEF Consistent, Good, MainTypes
  <2>5. c.deferredTokens = s.deferredTokens
    BY <2>3 DEF Keeps, Fields
  <2> DEFINE k == Kept(c.deferredTokens[u], TokenWaiters \ served)
             p == Replayed(waiting)
  <2>6. k \in Seq(TokenWaiters) /\ Thinned(c.deferredTokens[u], k)
    BY <1>0, <2>5, KeptProperties DEF Thinned
  <2>7. Members(waiting) \subseteq Members(s.deferredTokens[u])
        /\ waiting \in Seq(TokenWaiters)
    BY <1>0, KeptProperties
  <2> HIDE DEF waiting
  <2>8. p \in Seq(Requests) /\ Members(p) \subseteq Replayable(c, u)
    <3>1. \A w \in TokenWaiters : w.request \in Requests
      BY DEF TokenWaiters
    <3>2. p \in Seq(Requests) /\ Members(p) = RequestsIn(waiting)
      BY <2>7, <3>1, ReplayedType
    <3>3. RequestsIn(c.deferredTokens[u]) \subseteq Replayable(c, u)
      BY <1>0, <2>4, QueueReplayable
    <3>4. RequestsIn(waiting) \subseteq RequestsIn(s.deferredTokens[u])
      BY <2>7, RequestsAreMembers
    <3> QED
      BY <2>5, <3>2, <3>3, <3>4
  <2> HIDE DEF p, served
  <2>9. ProjectionInstalled(c, x, u, overlay, k, p)
    BY <1>0, <2>4, ProjectionParts DEF p
  <2> HIDE DEF x, k
  <2>10. Consistent(x) /\ Rejecting(c, x) /\ Forward(c, x)
         /\ x.lastGeneration = c.lastGeneration
    <3>1. ProjectionFits(c, x, u, overlay, k, p)
      BY <1>0, <2>2, <2>4, <2>6, <2>8, <2>9 DEF ProjectionFits
    <3> QED
      BY <3>1, ProjectionSound
  <2>11. t = RequestRefresh(x) \/ t = x
    OBVIOUS
  <2> HIDE DEF t
  <2>12. Quiet(x, t)
    <3>1. Good(x)
      BY <2>10 DEF Consistent
    <3>2. Quiet(x, RequestRefresh(x)) /\ Quiet(x, x)
      BY <3>1, RefreshQuiet, QuietSelf
    <3> QED
      BY <2>11, <3>2
  <2>13. Quiet(x, o.s) /\ Schedules(o)
    BY <2>1, <2>12, OutcomeParts, JobsUnchanged
  <2> QED
    BY <2>3, <2>10, <2>13, InstalledHandles DEF o
<1> QED
  BY <1>1, <1>2

LEMMA RichSkippedHandles ==
  ASSUME NEW s, Consistent(s), NEW job, GoodJob(s, job)
  PROVE  Handles(s, RichSkipped(s, job))
<1> DEFINE u == job.task.uri
           c == Completed(s, job)
           pending == s.documents[u].pending
           idle == IF /\ pending.revision = job.task.revision
                      /\ pending.generation = job.generation
                   THEN CancelPending(c, u) ELSE c
           t == RejectDeferredTokens(idle, u, {job.task.revision}, {job.generation})
<1>0. Good(s) /\ job.task \in Identities /\ u \in Uris
  BY JobType DEF Consistent
<1>1. RichSkipped(s, job) = Outcome(t, jobs)
  BY DEF RichSkipped, Document
<1>2. Quiet(s, c) /\ Good(c)
  BY <1>0, CompletedQuiet DEF Quiet, Calm
<1> HIDE DEF c
<1>3. Quiet(s, CancelPending(c, u))
  BY <1>0, <1>2, CancelQuiet, QuietTrans
<1>4. Quiet(s, idle) /\ Good(idle)
  BY <1>2, <1>3 DEF Quiet, Calm
<1> HIDE DEF idle
<1>5. Quiet(s, t)
  BY <1>0, <1>4, RejectQuiet, QuietTrans
<1> HIDE DEF t
<1> QED
  BY <1>1, <1>5, OutcomeParts, JobsUnchanged, QuietHandles

LEMMA DebugReadyHandles ==
  ASSUME NEW s, Consistent(s), NEW job, GoodJob(s, job), job.kind = "debug"
  PROVE  Handles(s, DebugReady(s, job))
<1> DEFINE u == job.task.uri
           r == job.request
           c == Completed(s, job)
           outcome == IF Accepts(s, job) THEN "result" ELSE "error"
           a == Answer(c, {r}, outcome)
<1>0. Good(s) /\ job.task \in Identities /\ u \in Uris
  BY JobType DEF Consistent
<1>1. DebugReady(s, job) = Outcome(a, jobs)
  BY DEF DebugReady
<1>2. /\ r \in Asked(s) /\ s.requests[r].kind = "debug"
      /\ UriOf(s, r) = u /\ s.requests[r].revision = job.task.revision
  BY DEF GoodJob, UriOf
<1>3. Quiet(s, c) /\ Good(c) /\ Calm(s, c) /\ Follows(s, c)
  BY <1>0, CompletedQuiet DEF Quiet, Calm
<1> HIDE DEF c
<1>4. {r} \cap Requests \subseteq Asked(c) /\ outcome \in {"result", "error"}
  BY <1>2, <1>3, FollowsAsked
<1> HIDE DEF outcome
<1>5. Calm(c, a) /\ Answers(c, a, {r}, outcome)
  BY <1>3, <1>4, AnswerCalm, AnswerGood
<1> HIDE DEF a
<1>6. Calm(s, a)
  BY <1>0, <1>3, <1>5, CalmTrans
<1>7. outcome = "error" \/ (outcome = "result" /\ Asks(s, r))
  <2>1. CASE Accepts(s, job)
    <3>1. KeyOf(job.task) \in DOMAIN s.table.retained
          /\ s.table.retained[KeyOf(job.task)].task = job.task
      BY <2>1 DEF Accepts, IsCurrent
    <3>2. KeyOf(job.task)[2] = u
      BY DEF KeyOf
    <3>3. job.task.revision = s.documents[u].revision
      BY <3>1, <3>2 DEF Consistent, Matched
    <3> QED
      BY <1>2, <2>1, <3>3 DEF Asks, outcome
  <2>2. CASE ~ Accepts(s, job)
    BY <2>2 DEF outcome
  <2> QED
    BY <2>1, <2>2
<1>8. GivesFresh(s, a)
  <2>1. \A q \in Requests : q # r => a.requests[q] = c.requests[q]
    BY <1>5 DEF Answers, Replied
  <2>2. \A q \in Requests : q # r /\ a.requests[q].state = "result"
                              => s.requests[q].state = "result"
    BY <1>3, <2>1 DEF Quiet, GivesNoResult
  <2>3. CASE outcome = "error"
    <3>1. Replied(c, a, {r}, "error") /\ a.table = c.table
      BY <1>5, <2>3 DEF Answers, Keeps, Fields
    <3>2. GivesNoResult(c, a)
      BY <1>3, <1>4, <3>1, RepliedFollows
    <3> QED
      BY <1>3, <3>2 DEF Quiet, GivesNoResult, GivesFresh
  <2>4. CASE outcome = "result" /\ Asks(s, r)
    <3>1. /\ Asks(a, r) /\ a.requests[r].kind = "debug"
      BY <1>2, <1>6, <2>4, AsksKept
    <3>2. Fresh(a, r)
      BY <3>1 DEF Fresh, Document, Asks
    <3> QED
      BY <2>2, <3>2 DEF GivesFresh
  <2> QED
    BY <1>7, <2>3, <2>4
<1> DEFINE o == Outcome(a, jobs)
<1>9. o.s = a /\ Schedules(o)
  BY OutcomeParts, JobsUnchanged
<1> HIDE DEF o
<1>10. Resolves(s, o)
  BY <1>6, <1>8, <1>9 DEF Resolves
<1>11. Handles(s, o)
  BY <1>10, ResolvesHandles
<1> QED
  BY <1>1, <1>11 DEF o

LEMMA ObserveHandles ==
  ASSUME NEW s, Consistent(s), generation \in Nat
  PROVE  /\ Handles(s, Outcome(Observe(s, generation), jobs))
         /\ Observe(s, generation).lastGeneration = generation
<1> DEFINE t == Observe(s, generation)
<1>1. Observed(s, t)
  BY ObserveQuiet DEF Consistent
<1> HIDE DEF t
<1>2. Quiet(s, t) /\ t.lastGeneration = generation
  BY <1>1 DEF Observed
<1> QED
  BY <1>2, OutcomeParts, JobsUnchanged, QuietHandles DEF t

(* An event of the channel: a worker's, or the index's.                    *)
GoodEvent(s, e) ==
  /\ e.outcome \in {"ready", "skipped"}
  /\ GoodJob(s, e.job) \/ e.job = IndexChanged

LEMMA InterpretHandles ==
  ASSUME NEW s, Consistent(s), NEW e, GoodEvent(s, e), generation \in Nat
  PROVE  /\ Handles(s, Interpret(s, e))
         /\ e.job = IndexChanged => Interpret(s, e).s.lastGeneration = generation
<1> DEFINE job == e.job
           ready == e.outcome = "ready"
<1>1. CASE job = IndexChanged
  <2>1. job.kind = "indexChanged"
    BY <1>1 DEF IndexChanged, Job
  <2>2. Interpret(s, e) = Outcome(Observe(s, generation), jobs)
    BY <2>1 DEF Interpret
  <2> QED
    BY <2>2, ObserveHandles, OutcomeParts
<1>2. CASE job # IndexChanged /\ GoodJob(s, job)
  <2>1. job.kind \in {"foreground", "semantic", "rich", "debug"}
        /\ job.task \in Identities
    BY <1>2, JobType
  <2>2. CASE job.kind = "foreground"
    <3>1. Interpret(s, e) = IF ready THEN ForegroundReady(s, job)
                            ELSE ForegroundSkipped(s, job)
      BY <2>2 DEF Interpret
    <3> QED
      BY <1>2, <3>1, ForegroundReadyHandles, ForegroundSkippedHandles
  <2>3. CASE job.kind = "semantic"
    <3>1. Interpret(s, e) = IF ready THEN AnalysisReady(s, job)
                            ELSE Outcome(Completed(s, job), jobs)
      BY <2>3 DEF Interpret
    <3> QED
      BY <1>2, <2>1, <3>1, AnalysisReadyHandles, CompletedHandles
  <2>4. CASE job.kind = "rich"
    <3>1. Interpret(s, e) = IF ready THEN RichReady(s, job)
                            ELSE RichSkipped(s, job)
      BY <2>4 DEF Interpret
    <3> QED
      BY <1>2, <3>1, RichReadyHandles, RichSkippedHandles
  <2>5. CASE job.kind = "debug"
    <3>1. Interpret(s, e) = DebugReady(s, job)
      BY <2>5 DEF Interpret
    <3> QED
      BY <1>2, <2>5, <3>1, DebugReadyHandles
  <2> QED
    BY <1>2, <2>1, <2>2, <2>3, <2>4, <2>5
<1> QED
  BY <1>1, <1>2 DEF GoodEvent

-----------------------------------------------------------------------------
(* The client's notifications give a document another revision, or close   *)
(* it, and drop everything that waited for the former one.                 *)
UriKeys(u) == {k \in Keys : k[2] = u}

Replaces(s, y, u, e) ==
  /\ Shape(y)
  /\ Keeps(s, y, {"nextRevision", "table", "documents"})
  /\ y.table = CancelUri(s.table, u)
  /\ y.documents = [s.documents EXCEPT ![u] = e]
  /\ y.nextRevision \in {s.nextRevision, s.nextRevision + 1}

LEMMA ReplacesGood ==
  ASSUME NEW s, Good(s), NEW u \in Uris, NEW e \in Documents, e.pending = NoPending,
         NEW y, Replaces(s, y, u, e)
  PROVE  /\ Good(y) /\ Rejecting(s, y)
         /\ Cancels(s.table, y.table, UriKeys(u))
<1>1. /\ s.documents \in [Uris -> Documents] /\ s.nextRevision \in Nat
      /\ Idle(s.table) /\ s.table.sequence \in Nat
  BY DEF Good, MainTypes, Idle, IsTable
<1>2. /\ Shape(y) /\ Keeps(s, y, {"nextRevision", "table", "documents"})
      /\ y.nextRevision \in Nat /\ y.table = CancelUri(s.table, u)
  BY <1>1 DEF Replaces
<1>3. Idle(y.table) /\ Cancels(s.table, y.table, UriKeys(u))
  BY <1>1, <1>2, CancelUriIdle DEF UriKeys
<1>4. /\ y.documents \in [Uris -> Documents]
      /\ \A v \in Uris : y.documents[v] = IF v = u THEN e ELSE s.documents[v]
  BY <1>1 DEF Replaces
<1>5. /\ y.requests = s.requests /\ y.table.sequence = s.table.sequence
      /\ y.deferredRequests = s.deferredRequests
      /\ y.deferredTokens = s.deferredTokens /\ y.replays = s.replays
  BY <1>2, <1>3 DEF Keeps, Fields, Cancels
<1>6. MainTypes(y)
  BY <1>2, <1>3, <1>4 DEF Good, MainTypes, Keeps, Fields
<1>7. Held(y)
  BY <1>5 DEF Good, Held, Asked
<1>8. PendingIssued(y)
  BY <1>4, <1>5 DEF Good, PendingIssued
<1>9. Rejecting(s, y)
  BY <1>1, <1>5, KeepsRequests
<1> QED
  BY <1>3, <1>6, <1>7, <1>8, <1>9 DEF Good

(* Nothing that waited for the document is left.                           *)
Cleared(y, z, u) ==
  /\ Good(z) /\ Rejecting(y, z)
  /\ Keeps(y, z, {"requests", "deferredRequests", "deferredTokens"})
  /\ z.deferredRequests = [y.deferredRequests EXCEPT ![u] = << >>]
  /\ z.deferredTokens = [y.deferredTokens EXCEPT ![u] = << >>]

LEMMA AllRejected ==
  ASSUME NEW q \in Seq(TokenWaiters)
  PROVE  Kept(q, TokenWaiters \ Rejects(Nat, Nat)) = << >>
<1> DEFINE S == TokenWaiters \ Rejects(Nat, Nat)
           k == Kept(q, S)
<1>1. S = {}
  BY DEF TokenWaiters, Rejects
<1>2. k \in Seq(TokenWaiters) /\ Members(k) = Members(q) \cap S
  BY KeptProperties
<1> HIDE DEF S, k
<1>3. Members(k) = {}
  BY <1>1, <1>2
<1>4. Len(k) = 0
  <2>1. Len(k) \in Nat
    BY <1>2, LenProperties
  <2>2. Len(k) # 0 => k[1] \in Members(k)
    BY <2>1 DEF Members
  <2> QED
    BY <1>3, <2>1, <2>2
<1>5. k = << >>
  BY <1>2, <1>4, EmptySeq
<1> QED
  BY <1>5 DEF k, S

LEMMA ClearedGood ==
  ASSUME NEW y, Good(y), NEW u \in Uris
  PROVE  Cleared(y, RejectDeferredTokens(DiscardDeferredRequests(y, u), u, Nat, Nat), u)
<1> DEFINE d == DiscardDeferredRequests(y, u)
           z == RejectDeferredTokens(d, u, Nat, Nat)
<1>1. Discards(y, d, u) /\ Rejecting(y, d)
  BY DiscardGood, DiscardRejecting
<1> HIDE DEF d
<1>2. Good(d) /\ d.deferredTokens = y.deferredTokens
      /\ d.deferredTokens[u] \in Seq(TokenWaiters)
  BY <1>1 DEF Discards, Keeps, Fields, Good, MainTypes
<1>3. Drops(d, z, u, Rejects(Nat, Nat)) /\ Rejecting(d, z)
  BY <1>2, RejectGood, RejectRejecting
<1> HIDE DEF z
<1>4. Kept(d.deferredTokens[u], TokenWaiters \ Rejects(Nat, Nat)) = << >>
  BY <1>2, AllRejected
<1>5. Good(z) /\ Rejecting(y, z)
  <2>1. Good(z)
    BY <1>3 DEF Drops
  <2> QED
    BY <1>1, <1>2, <1>3, <2>1, RejectingTrans
<1>6. Keeps(y, z, {"requests", "deferredRequests", "deferredTokens"})
  BY <1>1, <1>3 DEF Discards, Drops, Keeps
<1>7. z.deferredRequests = [y.deferredRequests EXCEPT ![u] = << >>]
  BY <1>1, <1>3 DEF Discards, Drops, Keeps, Fields
<1>8. z.deferredTokens = [y.deferredTokens EXCEPT ![u] = << >>]
  BY <1>2, <1>3, <1>4 DEF Drops
<1> QED
  BY <1>5, <1>6, <1>7, <1>8 DEF Cleared, z, d

(* What such a notification leaves alone, and what it makes of the rest.   *)
Revised(s, z, u) ==
  /\ Good(z) /\ Rejecting(s, z)
  /\ Keeps(s, z, {"nextRevision", "table", "documents", "requests",
                  "deferredRequests", "deferredTokens", "diagnostics", "shown"})
  /\ z.nextRevision >= s.nextRevision
  /\ \A v \in Uris : v # u =>
       /\ z.documents[v] = s.documents[v]
       /\ z.deferredRequests[v] = s.deferredRequests[v]
       /\ z.deferredTokens[v] = s.deferredTokens[v]
       /\ z.diagnostics[v] = s.diagnostics[v]
       /\ z.shown[v] = s.shown[v]
  /\ z.deferredRequests[u] = << >> /\ z.deferredTokens[u] = << >>
  /\ z.diagnostics[u] \in {0, s.diagnostics[u]}
  /\ z.diagnostics[u] <= z.documents[u].revision
  /\ z.documents[u].revision <= z.nextRevision
  /\ \/ z.shown[u].told
     \/ z.shown[u] = s.shown[u] /\ z.documents[u].revision # 0
  /\ \A k \in DOMAIN z.table.retained :
       /\ k \in DOMAIN s.table.retained
       /\ z.table.retained[k] = s.table.retained[k]
       /\ z.documents[k[2]].revision = s.documents[k[2]].revision

LEMMA RevisedConsistent ==
  ASSUME NEW s, Consistent(s), s.replays = << >>, NEW u \in Uris, NEW z,
         Revised(s, z, u)
  PROVE  /\ Consistent(z) /\ Forward(s, z) /\ z.lastGeneration = s.lastGeneration
         /\ Follows(s, z) /\ GivesNoResult(s, z)
<1>1. Good(s) /\ Good(z) /\ Rejecting(s, z) /\ Follows(s, z)
  BY DEF Consistent, Revised, Rejecting
<1>2. /\ z.lastGeneration = s.lastGeneration /\ z.replays = << >>
      /\ z.refreshDirty = s.refreshDirty
  BY DEF Revised, Keeps, Fields
<1>3. QueuesCurrent(z)
  <2>1. RequestsCurrent(z, u) /\ TokensCurrent(z, u)
    BY EmptyCurrent DEF Revised
  <2>2. ASSUME NEW v \in Uris, v # u
        PROVE  RequestsCurrent(z, v) /\ TokensCurrent(z, v)
    <3>1. /\ SameStatus(s.documents[v], z.documents[v])
          /\ z.deferredRequests[v] = s.deferredRequests[v]
          /\ z.deferredTokens[v] = s.deferredTokens[v]
      BY <2>2 DEF Revised, SameStatus
    <3>2. RequestsCurrent(s, v) /\ TokensCurrent(s, v)
      BY DEF Consistent, QueuesCurrent
    <3> QED
      BY <1>1, <3>1, <3>2, StaysAt, QueuesThin
  <2> QED
    BY <2>1, <2>2 DEF QueuesCurrent
<1>4. Matched(z)
  BY DEF Consistent, Matched, Revised
<1>5. Announced(z)
  <2>1. ASSUME NEW v \in Uris
        PROVE  /\ z.shown[v].told \/ z.shown[v] = s.shown[v]
               /\ z.documents[v].revision = 0 =>
                    z.shown[v].told \/ s.documents[v].revision = 0
    <3>1. CASE v = u
      BY <3>1 DEF Revised
    <3>2. CASE v # u
      BY <3>2 DEF Revised
    <3> QED
      BY <3>1, <3>2
  <2>2. ASSUME NEW v \in Uris, z.documents[v].revision = 0
        PROVE  z.shown[v].told
    <3>1. CASE v = u
      BY <2>2, <3>1 DEF Revised
    <3>2. CASE v # u
      BY <2>2, <3>2 DEF Revised, Consistent, Announced
    <3> QED
      BY <3>1, <3>2
  <2> QED
    BY <1>2, <2>1, <2>2 DEF Consistent, Announced
<1>6. Diagnosed(z) /\ Forward(s, z)
  <2>1. ASSUME NEW v \in Uris
        PROVE  /\ z.diagnostics[v] <= z.documents[v].revision
               /\ z.documents[v].revision <= z.nextRevision
               /\ z.diagnostics[v] # 0 => z.diagnostics[v] >= s.diagnostics[v]
    <3>1. /\ s.diagnostics[v] \in Nat /\ s.documents[v].revision \in Nat
          /\ s.nextRevision \in Nat /\ z.nextRevision \in Nat
      BY <1>1, NatDiagnostics
    <3>2. CASE v = u
      BY <3>1, <3>2 DEF Revised
    <3>3. CASE v # u
      BY <3>1, <3>3 DEF Revised, Consistent, Diagnosed
    <3> QED
      BY <3>2, <3>3
  <2> QED
    BY <2>1 DEF Diagnosed, Forward
<1>7. ReplaysCurrent(z)
  <2>1. Members(<< >>) = {}
    BY EmptySeq DEF Members
  <2> QED
    BY <1>2, <2>1 DEF ReplaysCurrent
<1> QED
  BY <1>1, <1>2, <1>3, <1>4, <1>5, <1>6, <1>7 DEF Consistent, Rejecting


(* A new revision of a document, accepted by the store.                    *)
Replaced(s, u, e) ==
  [s EXCEPT !.nextRevision = @ + 1, !.table = CancelUri(@, u), !.documents[u] = e]

LEMMA ReplacedParts ==
  ASSUME NEW s, Good(s), NEW u \in Uris, NEW e
  PROVE  /\ Replaces(s, Replaced(s, u, e), u, e)
         /\ Replaced(s, u, e).nextRevision = s.nextRevision + 1
<1> DEFINE y == Replaced(s, u, e)
           n == s.nextRevision + 1
           m == CancelUri(s.table, u)
           docs == [s.documents EXCEPT ![u] = e]
<1>1. Shape(s)
  BY DEF Good, MainTypes
<1>2. y = [s EXCEPT !.nextRevision = n, !.table = m, !.documents = docs]
  BY DEF Replaced
<1> HIDE DEF y, n, m, docs
<1>3. /\ Shape(y) /\ Keeps(s, y, {"nextRevision", "table", "documents"})
      /\ y.nextRevision = n /\ y.table = m /\ y.documents = docs
  BY <1>1, <1>2 DEF Shape, Keeps, Fields
<1> QED
  BY <1>3 DEF Replaces, y, n, m, docs

Revision(n, bytes, o) == [Pending(n, bytes) EXCEPT !.overlay = o]

LEMMA NextDocument ==
  ASSUME NEW n \in Nat \ {0}, NEW bytes \in Nat,
         NEW o \in [revision : Nat, generation : Nat]
  PROVE  /\ Revision(n, bytes, o) \in Documents
         /\ Revision(n, bytes, o).pending = NoPending
         /\ Revision(n, bytes, o).revision = n
         /\ Pending(n, bytes) \in Documents
         /\ Pending(n, bytes).pending = NoPending
         /\ Pending(n, bytes).revision = n
<1> DEFINE c == Closed
           d == Pending(n, bytes)
           e == Revision(n, bytes, o)
<1>1. c \in Documents /\ c.pending = NoPending
  <2>1. NoPending \in [revision : Nat, generation : Nat, sequence : Nat]
        /\ NoOverlay \in [revision : Nat, generation : Nat]
    BY DEF NoPending, NoOverlay
  <2> HIDE DEF NoPending, NoOverlay
  <2> QED
    BY <2>1 DEF Closed, Documents
<1>2. d = [c EXCEPT !.revision = n, !.bytes = bytes]
  BY DEF Pending
<1> HIDE DEF c, d
<1>3. d \in Documents /\ d.pending = NoPending /\ d.revision = n
  BY <1>1, <1>2 DEF Documents
<1>4. e = [d EXCEPT !.overlay = o]
  BY DEF Revision, d
<1> HIDE DEF e
<1>5. e \in Documents /\ e.pending = NoPending /\ e.revision = n
  BY <1>3, <1>4 DEF Documents
<1> QED
  BY <1>3, <1>5 DEF d, e

(* From s, of which c has forgotten a projection, to z with nothing left   *)
(* of the former revision.                                                 *)
LEMMA RevisionHandles ==
  ASSUME NEW s, Consistent(s), s.replays = << >>, NEW u \in Uris,
         NEW c, Quiet(s, c), Keeps(s, c, {"table", "documents"}),
         c.table.retained = s.table.retained,
         \A v \in Uris : v # u => c.documents[v] = s.documents[v],
         NEW e \in Documents, e.pending = NoPending,
         e.revision = s.nextRevision + 1, e.revision # 0,
         NEW z, Cleared(Replaced(c, u, e), z, u)
  PROVE  Handles(s, AdmitForeground(z, u))
<1> DEFINE y == Replaced(c, u, e)
<1>1. /\ Good(s) /\ Good(c) /\ Rejecting(s, c) /\ Diagnosed(s)
      /\ s.nextRevision \in Nat
  BY DEF Consistent, Quiet, Calm, Rejecting, Good, MainTypes
<1>2. Replaces(c, y, u, e) /\ y.nextRevision = c.nextRevision + 1
  BY <1>1, ReplacedParts
<1> HIDE DEF y
<1>3. Good(y) /\ Rejecting(c, y) /\ Cancels(c.table, y.table, UriKeys(u))
  BY <1>1, <1>2, ReplacesGood
<1>4. Cleared(y, z, u) /\ Good(z) /\ Rejecting(y, z)
  BY DEF y, Cleared
<1>5. Rejecting(s, z)
  <2>1. Rejecting(s, y)
    BY <1>1, <1>3, RejectingTrans
  <2> QED
    BY <1>1, <1>3, <1>4, <2>1, RejectingTrans
<1>6. /\ c.deferredRequests = s.deferredRequests
      /\ c.deferredTokens = s.deferredTokens /\ c.nextRevision = s.nextRevision
      /\ s.deferredRequests \in [Uris -> Seq(Waiters)]
      /\ s.deferredTokens \in [Uris -> Seq(TokenWaiters)]
      /\ c.documents \in [Uris -> Documents]
  BY <1>1 DEF Keeps, Fields, Good, MainTypes
<1>7. /\ y.deferredRequests = s.deferredRequests
      /\ y.deferredTokens = s.deferredTokens
      /\ y.documents = [c.documents EXCEPT ![u] = e]
      /\ y.nextRevision = e.revision
  BY <1>2, <1>6 DEF Replaces, Keeps, Fields
<1>8. /\ z.deferredRequests = [s.deferredRequests EXCEPT ![u] = << >>]
      /\ z.deferredTokens = [s.deferredTokens EXCEPT ![u] = << >>]
      /\ z.documents = [c.documents EXCEPT ![u] = e]
      /\ z.nextRevision = e.revision
      /\ z.table = y.table
  BY <1>4, <1>7 DEF Cleared, Keeps, Fields
<1>9. Keeps(s, z, {"nextRevision", "table", "documents", "requests",
                   "deferredRequests", "deferredTokens", "diagnostics", "shown"})
  BY <1>2, <1>4 DEF Keeps, Replaces, Cleared
<1>10. z.diagnostics = s.diagnostics /\ z.shown = s.shown
  BY <1>2, <1>4 DEF Keeps, Fields, Replaces, Cleared
<1>11. \A v \in Uris : v # u =>
         /\ z.documents[v] = s.documents[v]
         /\ z.deferredRequests[v] = s.deferredRequests[v]
         /\ z.deferredTokens[v] = s.deferredTokens[v]
         /\ z.diagnostics[v] = s.diagnostics[v]
         /\ z.shown[v] = s.shown[v]
  BY <1>6, <1>8, <1>10
<1>12. /\ z.deferredRequests[u] = << >> /\ z.deferredTokens[u] = << >>
       /\ z.documents[u] = e
  BY <1>6, <1>8
<1>13. /\ z.diagnostics[u] <= z.documents[u].revision
       /\ z.nextRevision >= s.nextRevision
       /\ z.documents[u].revision <= z.nextRevision
  <2>1. /\ s.diagnostics[u] \in Nat /\ s.documents[u].revision \in Nat
        /\ s.diagnostics[u] <= s.documents[u].revision
        /\ s.documents[u].revision <= s.nextRevision
    BY <1>1, NatDiagnostics DEF Diagnosed
  <2> QED
    BY <1>1, <1>8, <1>10, <1>12, <2>1
<1>14. \A k \in DOMAIN z.table.retained :
         /\ k \in DOMAIN s.table.retained
         /\ z.table.retained[k] = s.table.retained[k]
         /\ z.documents[k[2]].revision = s.documents[k[2]].revision
  <2>1. \A k \in DOMAIN z.table.retained :
          /\ k \in DOMAIN s.table.retained /\ k \notin UriKeys(u)
          /\ z.table.retained[k] = s.table.retained[k]
    BY <1>3, <1>8 DEF Cancels
  <2>2. \A k \in DOMAIN s.table.retained : k \in Keys /\ k[2] \in Uris
    BY <1>1 DEF Good, MainTypes, Idle, IsTable, IsMap, Keys
  <2>3. \A k \in DOMAIN z.table.retained : k[2] # u /\ k[2] \in Uris
    BY <2>1, <2>2 DEF UriKeys
  <2> QED
    BY <1>11, <2>1, <2>3
<1>15. Revised(s, z, u)
  BY <1>4, <1>5, <1>9, <1>10, <1>11, <1>12, <1>13, <1>14 DEF Revised
<1>16. /\ Consistent(z) /\ Forward(s, z) /\ z.lastGeneration = s.lastGeneration
       /\ Follows(s, z) /\ GivesNoResult(s, z)
  BY <1>15, RevisedConsistent
<1> DEFINE o == AdmitForeground(z, u)
<1>17. Quiet(z, o.s) /\ Schedules(o)
  BY <1>4, <1>12, AdmitForegroundQuiet
<1> HIDE DEF o
<1>18. \A j : GoodJob(s, j) => GoodJob(z, j)
  BY <1>1, <1>4, <1>16, GoodJobKept
<1>19. Handles(s, o)
  BY <1>16, <1>17, <1>18, HandlesOn
<1> QED
  BY <1>19 DEF o


LEMMA ClosedQueues ==
  ASSUME NEW s, Consistent(s), NEW u \in Uris, s.documents[u].revision = 0
  PROVE  s.deferredRequests[u] = << >> /\ s.deferredTokens[u] = << >>
<1> DEFINE q == s.deferredRequests[u]
           k == s.deferredTokens[u]
<1>1. q \in Seq(Waiters) /\ k \in Seq(TokenWaiters)
  BY DEF Consistent, Good, MainTypes
<1>2. RequestsCurrent(s, u) /\ TokensCurrent(s, u)
  BY DEF Consistent, QueuesCurrent
<1>3. Members(q) = {} /\ Members(k) = {}
  BY <1>2 DEF RequestsCurrent, TokensCurrent
<1> HIDE DEF q, k
<1>4. Len(q) = 0 /\ Len(k) = 0
  <2>1. Len(q) \in Nat /\ Len(k) \in Nat
    BY <1>1, LenProperties
  <2>2. (Len(q) # 0 => q[1] \in Members(q)) /\ (Len(k) # 0 => k[1] \in Members(k))
    BY <2>1 DEF Members
  <2> QED
    BY <1>3, <2>1, <2>2
<1>5. q = << >> /\ k = << >>
  BY <1>1, <1>4, EmptySeq
<1> QED
  BY <1>5 DEF q, k

LEMMA OpenHandles ==
  ASSUME NEW s, Consistent(s), s.replays = << >>, NEW u \in Uris,
         s.documents[u].revision = 0, NEW bytes \in Nat
  PROVE  Handles(s, AdmitForeground(DiscardDeferredRequests(
           Replaced(s, u, Pending(s.nextRevision + 1, bytes)), u), u))
<1> DEFINE e == Pending(s.nextRevision + 1, bytes)
           y == Replaced(s, u, e)
           z == DiscardDeferredRequests(y, u)
<1>1. Good(s) /\ s.nextRevision + 1 \in Nat \ {0} /\ Quiet(s, s)
      /\ s.deferredTokens \in [Uris -> Seq(TokenWaiters)]
  <2>1. Good(s)
    BY DEF Consistent
  <2>2. Quiet(s, s)
    BY <2>1, QuietSelf
  <2> QED
    BY <2>1, <2>2 DEF Good, MainTypes
<1>2. /\ e \in Documents /\ e.pending = NoPending
      /\ e.revision = s.nextRevision + 1 /\ e.revision # 0
  <2>1. NoOverlay \in [revision : Nat, generation : Nat]
    BY DEF NoOverlay
  <2> QED
    BY <1>1, <2>1, NextDocument
<1> HIDE DEF e
<1>3. Replaces(s, y, u, e)
  BY <1>1, ReplacedParts
<1> HIDE DEF y
<1>4. Good(y) /\ y.deferredTokens = s.deferredTokens
  BY <1>1, <1>2, <1>3, ReplacesGood DEF Replaces, Keeps, Fields
<1>5. Discards(y, z, u) /\ Rejecting(y, z)
  BY <1>4, DiscardGood, DiscardRejecting
<1> HIDE DEF z
<1>6. Cleared(y, z, u)
  <2>1. /\ Good(z) /\ Keeps(y, z, {"requests", "deferredRequests", "deferredTokens"})
        /\ z.deferredRequests = [y.deferredRequests EXCEPT ![u] = << >>]
    BY <1>5 DEF Discards, Keeps
  <2>2. z.deferredTokens = s.deferredTokens /\ s.deferredTokens[u] = << >>
    BY <1>4, <1>5, ClosedQueues DEF Discards, Keeps, Fields
  <2>3. z.deferredTokens = [y.deferredTokens EXCEPT ![u] = << >>]
    BY <1>1, <1>4, <2>2
  <2> QED
    BY <1>5, <2>1, <2>3 DEF Cleared
<1>7. Keeps(s, s, {"table", "documents"})
  BY DEF Keeps
<1>8. Handles(s, AdmitForeground(z, u))
  BY <1>1, <1>2, <1>6, <1>7, RevisionHandles DEF y
<1> QED
  BY <1>8 DEF z, y, e

LEMMA ChangeHandles ==
  ASSUME NEW s, Consistent(s), s.replays = << >>, NEW u \in Uris, NEW bytes \in Nat
  PROVE  Handles(s, AdmitForeground(RejectDeferredTokens(DiscardDeferredRequests(
           Replaced(CancelPending(s, u), u,
                    Revision(s.nextRevision + 1, bytes, s.documents[u].overlay)), u),
           u, Nat, Nat), u))
<1> DEFINE c == CancelPending(s, u)
           e == Revision(s.nextRevision + 1, bytes, s.documents[u].overlay)
           y == Replaced(c, u, e)
           z == RejectDeferredTokens(DiscardDeferredRequests(y, u), u, Nat, Nat)
<1>1. /\ Good(s) /\ s.nextRevision + 1 \in Nat \ {0}
      /\ s.documents \in [Uris -> Documents] /\ s.documents[u] \in Documents
  BY DEF Consistent, Good, MainTypes
<1>2. /\ e \in Documents /\ e.pending = NoPending
      /\ e.revision = s.nextRevision + 1 /\ e.revision # 0
  <2>1. s.documents[u].overlay \in [revision : Nat, generation : Nat]
    BY <1>1 DEF Documents
  <2> QED
    BY <1>1, <2>1, NextDocument
<1> HIDE DEF e
<1>3. Quiet(s, c) /\ Stops(s, c, u)
  BY <1>1, CancelQuiet, CancelGood
<1> HIDE DEF c
<1>4. /\ Good(c) /\ Keeps(s, c, {"table", "documents"})
      /\ c.table.retained = s.table.retained
      /\ \A v \in Uris : v # u => c.documents[v] = s.documents[v]
  <2>1. c.documents = [s.documents EXCEPT ![u] = WithPending(s.documents[u], NoPending)]
    BY <1>3 DEF Stops
  <2> QED
    BY <1>1, <1>3, <2>1 DEF Stops, Flags
<1>5. Good(y)
  BY <1>2, <1>4, ReplacedParts, ReplacesGood
<1> HIDE DEF y
<1>6. Cleared(y, z, u)
  BY <1>5, ClearedGood
<1> HIDE DEF z
<1>7. Handles(s, AdmitForeground(z, u))
  BY <1>2, <1>3, <1>4, <1>6, RevisionHandles DEF y
<1> QED
  BY <1>7 DEF z, y, e, c


(* A closed document shows neither diagnostics nor tokens.                 *)
Blanks(s, t, u) ==
  /\ Shape(t)
  /\ Keeps(s, t, {"diagnostics", "shown"})
  /\ t.diagnostics = [s.diagnostics EXCEPT ![u] = 0]
  /\ t.shown = [s.shown EXCEPT ![u] = NoTokens]

LEMMA BlankParts ==
  ASSUME NEW s, Shape(s), NEW u \in Uris
  PROVE  Blanks(s, [s EXCEPT !.diagnostics[u] = 0, !.shown[u] = NoTokens], u)
<1> DEFINE t == [s EXCEPT !.diagnostics[u] = 0, !.shown[u] = NoTokens]
           diag == [s.diagnostics EXCEPT ![u] = 0]
           shows == [s.shown EXCEPT ![u] = NoTokens]
<1>1. t = [s EXCEPT !.diagnostics = diag, !.shown = shows]
  OBVIOUS
<1> HIDE DEF t, diag, shows
<1>2. /\ Shape(t) /\ Keeps(s, t, {"diagnostics", "shown"})
      /\ t.diagnostics = diag /\ t.shown = shows
  BY <1>1 DEF Shape, Keeps, Fields
<1> QED
  BY <1>2 DEF Blanks, t, diag, shows

LEMMA BlanksGood ==
  ASSUME NEW s, Good(s), NEW u \in Uris, NEW t, Blanks(s, t, u)
  PROVE  /\ Good(t) /\ Rejecting(s, t) /\ t.diagnostics[u] = 0 /\ t.shown[u].told
         /\ \A v \in Uris : v # u => /\ t.diagnostics[v] = s.diagnostics[v]
                                     /\ t.shown[v] = s.shown[v]
<1>1. /\ s.diagnostics \in [Uris -> Nat] /\ s.shown \in [Uris -> Tokens]
      /\ s.table.sequence \in Nat
  BY DEF Good, MainTypes, Idle, IsTable
<1>2. NoTokens \in Tokens /\ NoTokens.told
  BY DEF NoTokens, Tokens
<1> HIDE DEF NoTokens
<1>3. /\ t.diagnostics \in [Uris -> Nat] /\ t.shown \in [Uris -> Tokens]
      /\ t.diagnostics[u] = 0 /\ t.shown[u].told
      /\ \A v \in Uris : v # u => /\ t.diagnostics[v] = s.diagnostics[v]
                                  /\ t.shown[v] = s.shown[v]
  BY <1>1, <1>2 DEF Blanks
<1>4. MainTypes(t)
  BY <1>3 DEF Blanks, Good, MainTypes, Keeps, Fields
<1>5. /\ t.requests = s.requests /\ t.table = s.table
      /\ t.documents = s.documents /\ t.deferredRequests = s.deferredRequests
      /\ t.deferredTokens = s.deferredTokens /\ t.replays = s.replays
  BY DEF Blanks, Keeps, Fields
<1>6. Held(t) /\ PendingIssued(t)
  BY <1>5 DEF Good, Held, PendingIssued, Asked
<1>7. Rejecting(s, t)
  BY <1>1, <1>5, KeepsRequests
<1> QED
  BY <1>3, <1>4, <1>6, <1>7 DEF Good

(* Releasing a document forgets its work and itself.                       *)
Releases(s, y, u) ==
  /\ Good(y) /\ Rejecting(s, y)
  /\ Keeps(s, y, {"table", "documents"})
  /\ \A v \in Uris : v # u => y.documents[v] = s.documents[v]
  /\ y.documents[u].revision = 0
  /\ \A k \in DOMAIN y.table.retained :
       /\ k \in DOMAIN s.table.retained
       /\ y.table.retained[k] = s.table.retained[k]
       /\ k[2] \in Uris \ {u}

LEMMA RetainedAt ==
  ASSUME NEW s, Good(s)
  PROVE  \A k \in DOMAIN s.table.retained :
           k \in Keys /\ k[2] \in Uris /\ s.table.retained[k].task.revision # 0
BY DEF Good, MainTypes, Idle, IsTable, IsMap, Keys

LEMMA ReleaseGood ==
  ASSUME NEW s, Consistent(s), NEW u \in Uris
  PROVE  Releases(s, Release(s, u), u)
<1> DEFINE y == Release(s, u)
           c == CancelPending(s, u)
           m == CancelUri(c.table, u)
           docs == [c.documents EXCEPT ![u] = Closed]
<1>1. Good(s)
  BY DEF Consistent
<1>2. CASE ~ IsOpen(s, u)
  <2>1. y = s /\ s.documents[u].revision = 0
    BY <1>2 DEF Release, IsOpen, Document
  <2> HIDE DEF y
  <2>2. Keeps(s, y, {"table", "documents"}) /\ Rejecting(s, y)
    BY <1>1, <2>1, NothingRejected DEF Keeps
  <2>3. \A k \in DOMAIN s.table.retained : k[2] # u
    BY <1>1, <2>1, RetainedAt DEF Consistent, Matched
  <2>4. \A k \in DOMAIN s.table.retained : k[2] \in Uris
    BY <1>1, RetainedAt
  <2> QED
    BY <1>1, <2>1, <2>2, <2>3, <2>4 DEF Releases, y
<1>3. CASE IsOpen(s, u)
  <2>1. y = [c EXCEPT !.table = m, !.documents = docs]
    BY <1>3 DEF Release
  <2>2. Quiet(s, c) /\ Stops(s, c, u)
    BY <1>1, CancelQuiet, CancelGood
  <2> HIDE DEF c, y
  <2>3. /\ Good(c) /\ Rejecting(s, c) /\ Keeps(s, c, {"table", "documents"})
        /\ c.table.retained = s.table.retained
        /\ \A v \in Uris : v # u => c.documents[v] = s.documents[v]
        /\ c.documents \in [Uris -> Documents] /\ Shape(c)
    <3>1. s.documents \in [Uris -> Documents]
      BY <1>1 DEF Good, MainTypes
    <3>2. /\ c.documents = [s.documents EXCEPT
                              ![u] = WithPending(s.documents[u], NoPending)]
      BY <2>2 DEF Stops
    <3> QED
      BY <2>2, <3>1, <3>2 DEF Stops, Flags, Quiet, Calm, Rejecting, Good, MainTypes
  <2>4. Closed \in Documents /\ Closed.pending = NoPending /\ Closed.revision = 0
    <3>1. NoPending \in [revision : Nat, generation : Nat, sequence : Nat]
          /\ NoOverlay \in [revision : Nat, generation : Nat]
      BY DEF NoPending, NoOverlay
    <3> HIDE DEF NoPending, NoOverlay
    <3> QED
      BY <3>1 DEF Closed, Documents
  <2> HIDE DEF Closed
  <2>5. Replaces(c, y, u, Closed) /\ Keeps(c, y, {"table", "documents"})
        /\ y.documents = docs
    <3> HIDE DEF m, docs
    <3>1. /\ Shape(y) /\ Keeps(c, y, {"table", "documents"})
          /\ y.table = m /\ y.documents = docs
      BY <2>1, <2>3 DEF Shape, Keeps, Fields
    <3>2. y.nextRevision = c.nextRevision
          /\ Keeps(c, y, {"nextRevision", "table", "documents"})
      BY <3>1 DEF Keeps, Fields
    <3> QED
      BY <3>1, <3>2 DEF Replaces, m, docs
  <2>6. Good(y) /\ Rejecting(c, y) /\ Cancels(c.table, y.table, UriKeys(u))
    BY <2>3, <2>4, <2>5, ReplacesGood
  <2>7. Rejecting(s, y)
    BY <1>1, <2>3, <2>6, RejectingTrans
  <2>8. Keeps(s, y, {"table", "documents"})
    BY <2>3, <2>5 DEF Keeps
  <2>9. \A k \in DOMAIN y.table.retained :
          /\ k \in DOMAIN s.table.retained
          /\ y.table.retained[k] = s.table.retained[k]
          /\ k \notin UriKeys(u)
    BY <2>3, <2>6 DEF Cancels
  <2>10. \A k \in DOMAIN y.table.retained : k[2] \in Uris \ {u}
    BY <1>1, <2>9, RetainedAt DEF UriKeys
  <2>11. /\ \A v \in Uris : v # u => y.documents[v] = s.documents[v]
         /\ y.documents[u].revision = 0
    BY <2>3, <2>4, <2>5
  <2> QED
    BY <2>6, <2>7, <2>8, <2>9, <2>10, <2>11 DEF Releases, y
<1> QED
  BY <1>2, <1>3

LEMMA CloseHandles ==
  ASSUME NEW s, Consistent(s), s.replays = << >>, NEW u \in Uris,
         NEW c, c = RejectDeferredTokens(
                      DiscardDeferredRequests(Release(s, u), u), u, Nat, Nat),
         NEW z, Blanks(c, z, u)
  PROVE  Handles(s, Outcome(z, jobs))
<1> DEFINE y == Release(s, u)
<1>1. Good(s) /\ Diagnosed(s)
  BY DEF Consistent
<1>2. Releases(s, y, u)
  BY ReleaseGood
<1> HIDE DEF y
<1>3. Good(y) /\ Rejecting(s, y) /\ y.documents \in [Uris -> Documents]
  BY <1>2 DEF Releases, Good, MainTypes
<1>4. Cleared(y, c, u)
  BY <1>3, ClearedGood DEF y
<1>5. Good(c) /\ Rejecting(y, c)
  BY <1>4 DEF Cleared
<1>6. /\ Good(z) /\ Rejecting(c, z) /\ z.diagnostics[u] = 0 /\ z.shown[u].told
      /\ \A v \in Uris : v # u => /\ z.diagnostics[v] = c.diagnostics[v]
                                  /\ z.shown[v] = c.shown[v]
  BY <1>5, BlanksGood
<1>7. Rejecting(s, z)
  <2>1. Rejecting(s, c)
    BY <1>1, <1>3, <1>5, RejectingTrans
  <2> QED
    BY <1>1, <1>5, <1>6, <2>1, RejectingTrans
<1>8. /\ y.deferredRequests = s.deferredRequests
      /\ y.deferredTokens = s.deferredTokens /\ y.nextRevision = s.nextRevision
      /\ y.diagnostics = s.diagnostics /\ y.shown = s.shown
      /\ s.deferredRequests \in [Uris -> Seq(Waiters)]
      /\ s.deferredTokens \in [Uris -> Seq(TokenWaiters)]
      /\ s.nextRevision \in Nat
  BY <1>1, <1>2 DEF Releases, Keeps, Fields, Good, MainTypes
<1>9. /\ c.deferredRequests = [s.deferredRequests EXCEPT ![u] = << >>]
      /\ c.deferredTokens = [s.deferredTokens EXCEPT ![u] = << >>]
      /\ c.nextRevision = s.nextRevision /\ c.documents = y.documents
      /\ c.table = y.table
      /\ c.diagnostics = s.diagnostics /\ c.shown = s.shown
  BY <1>4, <1>8 DEF Cleared, Keeps, Fields
<1>10. /\ z.deferredRequests = c.deferredRequests
       /\ z.deferredTokens = c.deferredTokens
       /\ z.nextRevision = s.nextRevision /\ z.documents = y.documents
       /\ z.table = y.table
  BY <1>9 DEF Blanks, Keeps, Fields
<1>11. Keeps(s, z, {"nextRevision", "table", "documents", "requests",
                    "deferredRequests", "deferredTokens", "diagnostics", "shown"})
  BY <1>2, <1>4 DEF Keeps, Releases, Cleared, Blanks
<1>12. /\ \A v \in Uris : v # u => z.documents[v] = s.documents[v]
       /\ z.documents[u].revision = 0
  BY <1>2, <1>10 DEF Releases
<1>13. \A v \in Uris : v # u =>
         /\ z.documents[v] = s.documents[v]
         /\ z.deferredRequests[v] = s.deferredRequests[v]
         /\ z.deferredTokens[v] = s.deferredTokens[v]
         /\ z.diagnostics[v] = s.diagnostics[v]
         /\ z.shown[v] = s.shown[v]
  BY <1>6, <1>8, <1>9, <1>10, <1>12
<1>14. z.deferredRequests[u] = << >> /\ z.deferredTokens[u] = << >>
  BY <1>8, <1>9, <1>10
<1>15. \A k \in DOMAIN z.table.retained :
         /\ k \in DOMAIN s.table.retained
         /\ z.table.retained[k] = s.table.retained[k]
         /\ z.documents[k[2]].revision = s.documents[k[2]].revision
  BY <1>2, <1>10, <1>12 DEF Releases
<1>16. Revised(s, z, u)
  BY <1>6, <1>7, <1>8, <1>10, <1>11, <1>12, <1>13, <1>14, <1>15 DEF Revised
<1>17. /\ Consistent(z) /\ Forward(s, z) /\ z.lastGeneration = s.lastGeneration
       /\ Follows(s, z) /\ GivesNoResult(s, z)
  BY <1>16, RevisedConsistent
<1>18. \A j : GoodJob(s, j) => GoodJob(z, j)
  BY <1>1, <1>6, <1>17, GoodJobKept
<1> DEFINE o == Outcome(z, jobs)
<1>19. o.s = z /\ Schedules(o)
  BY OutcomeParts, JobsUnchanged
<1> HIDE DEF o
<1>20. Quiet(z, o.s)
  BY <1>6, <1>19, QuietSelf
<1>21. Handles(s, o)
  BY <1>17, <1>18, <1>19, <1>20, HandlesOn
<1> QED
  BY <1>21 DEF o


-----------------------------------------------------------------------------
(* Requests, their replay, and the client's answer to a refresh.           *)
NewExchange(s, kind, u) ==
  [state |-> "waiting", kind |-> kind, uri |-> u,
   revision |-> s.documents[u].revision, answers |-> 0]

Asking(s, x, r, e) ==
  /\ Shape(x)
  /\ Keeps(s, x, {"requests"})
  /\ x.requests = [s.requests EXCEPT ![r] = e]

LEMMA AskingParts ==
  ASSUME NEW s, Shape(s), NEW r, NEW e
  PROVE  Asking(s, [s EXCEPT !.requests[r] = e], r, e)
<1> DEFINE x == [s EXCEPT !.requests[r] = e]
           m == [s.requests EXCEPT ![r] = e]
<1>1. x = [s EXCEPT !.requests = m]
  OBVIOUS
<1> HIDE DEF x, m
<1>2. Shape(x) /\ Keeps(s, x, {"requests"}) /\ x.requests = m
  BY <1>1 DEF Shape, Keeps, Fields
<1> QED
  BY <1>2 DEF Asking, x, m

LEMMA AskingConsistent ==
  ASSUME NEW s, Consistent(s), s.replays = << >>, NEW r \in Requests,
         s.requests[r].state = "unsent", NEW kind \in Classifications, NEW u \in Uris,
         NEW x, Asking(s, x, r, NewExchange(s, kind, u))
  PROVE  /\ Consistent(x) /\ Asks(x, r)
         /\ \A j : GoodJob(s, j) => GoodJob(x, j)
         /\ x.lastGeneration = s.lastGeneration /\ x.diagnostics = s.diagnostics
         /\ \A q \in Requests :
              s.requests[q].state # "result" => x.requests[q].state # "result"
<1> DEFINE e == NewExchange(s, kind, u)
<1>1. /\ Good(s) /\ s.requests \in [Requests -> Exchanges]
      /\ s.documents[u].revision \in Nat /\ r \notin Asked(s)
      /\ \A v \in Uris : s.deferredRequests[v] \in Seq(Waiters)
      /\ \A v \in Uris : s.deferredTokens[v] \in Seq(TokenWaiters)
  BY NatDiagnostics DEF Consistent, Good, MainTypes, Asked
<1>2. /\ e \in Exchanges /\ e.state = "waiting" /\ e.kind = kind /\ e.uri = u
      /\ e.revision = s.documents[u].revision
  BY <1>1 DEF NewExchange, Exchanges
<1> HIDE DEF e
<1>3. Shape(x) /\ Keeps(s, x, {"requests"}) /\ x.requests = [s.requests EXCEPT ![r] = e]
  BY DEF Asking, e
<1>4. /\ x.requests \in [Requests -> Exchanges] /\ x.requests[r] = e
      /\ \A q \in Requests : q # r => x.requests[q] = s.requests[q]
  BY <1>1, <1>2, <1>3
<1>5. /\ x.documents = s.documents /\ x.table = s.table
      /\ x.deferredRequests = s.deferredRequests
      /\ x.deferredTokens = s.deferredTokens /\ x.nextRevision = s.nextRevision
      /\ x.diagnostics = s.diagnostics /\ x.replays = s.replays
      /\ x.lastGeneration = s.lastGeneration /\ x.shown = s.shown
      /\ x.refreshDirty = s.refreshDirty
  BY <1>3 DEF Keeps, Fields
<1>6. \A q \in Asked(s) : q \in Asked(x) /\ x.requests[q] = s.requests[q]
  BY <1>1, <1>4 DEF Asked
<1>7. Good(x)
  <2>1. MainTypes(x)
    BY <1>1, <1>3, <1>4 DEF Good, MainTypes, Keeps, Fields
  <2>2. Held(x)
    BY <1>1, <1>5, <1>6 DEF Good, Held
  <2>3. PendingIssued(x)
    BY <1>1, <1>5 DEF Good, PendingIssued
  <2> QED
    BY <2>1, <2>2, <2>3 DEF Good
<1>8. QueuesCurrent(x)
  <2>1. ASSUME NEW v \in Uris
        PROVE  RequestsCurrent(x, v) /\ TokensCurrent(x, v)
    <3>1. /\ \A w \in Members(s.deferredRequests[v]) : w.request \in Asked(s)
          /\ \A w \in Members(s.deferredTokens[v]) : w.request \in Asked(s)
      BY <1>1, RequestsAreMembers DEF Good, Held
    <3>2. RequestsCurrent(s, v) /\ TokensCurrent(s, v)
      BY DEF Consistent, QueuesCurrent
    <3> QED
      BY <1>5, <1>6, <3>1, <3>2 DEF RequestsCurrent, TokensCurrent
  <2> QED
    BY <2>1 DEF QueuesCurrent
<1>9. Matched(x) /\ Announced(x) /\ Diagnosed(x)
  BY <1>5 DEF Consistent, Matched, Announced, Diagnosed
<1>10. ReplaysCurrent(x)
  <2>1. Members(<< >>) = {}
    BY EmptySeq DEF Members
  <2> QED
    BY <1>5, <2>1 DEF ReplaysCurrent
<1>11. Asks(x, r)
  BY <1>2, <1>4, <1>5 DEF Asks, Asked, UriOf
<1>12. \A j : GoodJob(s, j) => GoodJob(x, j)
  BY <1>5, <1>6 DEF GoodJob
<1>13. \A q \in Requests :
         s.requests[q].state # "result" => x.requests[q].state # "result"
  BY <1>2, <1>4
<1> QED
  BY <1>5, <1>7, <1>8, <1>9, <1>10, <1>11, <1>12, <1>13 DEF Consistent

LEMMA SendHandles ==
  ASSUME NEW s, Consistent(s), s.replays = << >>, NEW r \in Requests,
         s.requests[r].state = "unsent", NEW kind \in Classifications, NEW u \in Uris,
         NEW x, Asking(s, x, r, NewExchange(s, kind, u)), generation \in Nat
  PROVE  Handles(s, Dispatch(x, r))
<1>1. /\ Consistent(x) /\ Asks(x, r)
      /\ \A j : GoodJob(s, j) => GoodJob(x, j)
      /\ x.lastGeneration = s.lastGeneration /\ x.diagnostics = s.diagnostics
      /\ \A q \in Requests :
           s.requests[q].state # "result" => x.requests[q].state # "result"
  BY AskingConsistent
<1> DEFINE o == Dispatch(x, r)
<1>2. Resolves(x, o)
  BY <1>1, DispatchResolves DEF Consistent
<1> HIDE DEF o
<1>3. Handles(x, o)
  BY <1>1, <1>2, ResolvesHandles
<1>4. GivesFresh(s, o.s) /\ Forward(s, o.s)
  BY <1>1, <1>3 DEF Handles, GivesFresh, Forward
<1>5. Handles(s, o)
  BY <1>1, <1>3, <1>4 DEF Handles
<1> QED
  BY <1>5 DEF o

LEMMA ReplayHandles ==
  ASSUME NEW s, Consistent(s), s.replays # << >>, generation \in Nat
  PROVE  Handles(s, Dispatch([s EXCEPT !.replays = Tail(@)], Head(s.replays)))
<1> DEFINE p == Tail(s.replays)
           r == Head(s.replays)
           x == [s EXCEPT !.replays = p]
           o == Dispatch(x, r)
<1>1. Good(s) /\ Shape(s) /\ s.replays \in Seq(Requests) /\ s.table.sequence \in Nat
  BY DEF Consistent, Good, MainTypes, Idle, IsTable
<1>2. /\ p \in Seq(Requests) /\ r \in Members(s.replays)
      /\ Members(p) \subseteq Members(s.replays)
  <2>1. /\ Len(s.replays) \in Nat /\ Len(s.replays) # 0
        /\ p \in Seq(Requests) /\ r = s.replays[1]
        /\ Len(p) = Len(s.replays) - 1
        /\ \A i \in 1 .. Len(p) : p[i] = s.replays[i + 1]
    BY <1>1, LenProperties, EmptySeq, HeadTailProperties
  <2> QED
    BY <2>1 DEF Members
<1> HIDE DEF p, r
<1>3. Shape(x) /\ Keeps(s, x, {"replays"}) /\ x.replays = p
  BY <1>1 DEF Shape, Keeps, Fields
<1> HIDE DEF x
<1>4. /\ x.documents = s.documents /\ x.table = s.table /\ x.requests = s.requests
      /\ x.deferredRequests = s.deferredRequests
      /\ x.deferredTokens = s.deferredTokens /\ x.nextRevision = s.nextRevision
      /\ x.diagnostics = s.diagnostics
      /\ x.lastGeneration = s.lastGeneration /\ x.shown = s.shown
      /\ x.refreshDirty = s.refreshDirty
  BY <1>3 DEF Keeps, Fields
<1>5. Good(x)
  <2>1. MainTypes(x)
    BY <1>1, <1>2, <1>3 DEF Good, MainTypes, Keeps, Fields
  <2>2. Held(x) /\ PendingIssued(x)
    BY <1>1, <1>2, <1>3, <1>4 DEF Good, Held, PendingIssued, Asked
  <2> QED
    BY <2>1, <2>2 DEF Good
<1>6. QueuesCurrent(x) /\ Matched(x) /\ Announced(x) /\ Diagnosed(x)
  BY <1>4 DEF Consistent, QueuesCurrent, RequestsCurrent, TokensCurrent, Matched,
              Announced, Diagnosed
<1>7. \A q \in Members(s.replays) : Asks(x, q)
  BY <1>4 DEF Consistent, ReplaysCurrent, Asks, Asked, UriOf
<1>8. Consistent(x) /\ Asks(x, r)
  BY <1>2, <1>3, <1>5, <1>6, <1>7 DEF Consistent, ReplaysCurrent
<1>9. Rejecting(s, x)
  BY <1>1, <1>4, KeepsRequests
<1>10. Resolves(x, o)
  BY <1>5, <1>8, DispatchResolves
<1> HIDE DEF o
<1>11. Handles(x, o)
  BY <1>8, <1>10, ResolvesHandles
<1>12. GivesFresh(s, o.s) /\ Forward(s, o.s)
  BY <1>4, <1>11 DEF Handles, GivesFresh, Forward
<1>13. \A j : GoodJob(s, j) => GoodJob(x, j)
  BY <1>1, <1>5, <1>9, GoodJobKept DEF Rejecting
<1>14. Handles(s, o)
  BY <1>4, <1>11, <1>12, <1>13 DEF Handles
<1> QED
  BY <1>14 DEF o, x, p, r


LEMMA AcknowledgeHandles ==
  ASSUME NEW s, Consistent(s)
  PROVE  LET idle == [s EXCEPT !.refreshInFlight = FALSE, !.refreshDirty = FALSE]
         IN  Handles(s, Outcome(IF s.refreshDirty THEN RequestRefresh(idle)
                                ELSE idle, jobs))
<1> DEFINE idle == [s EXCEPT !.refreshInFlight = FALSE, !.refreshDirty = FALSE]
           t == IF s.refreshDirty THEN RequestRefresh(idle) ELSE idle
           three == {"refreshInFlight", "refreshDirty", "shown"}
<1>1. Good(s) /\ Shape(s) /\ Announced(s)
  BY DEF Consistent, Good, MainTypes
<1>2. /\ Shape(idle) /\ Keeps(s, idle, {"refreshInFlight", "refreshDirty"})
      /\ idle.refreshInFlight = FALSE /\ idle.refreshDirty = FALSE
  BY <1>1 DEF Shape, Keeps, Fields
<1> HIDE DEF idle
<1>3. /\ idle.lastGeneration = s.lastGeneration /\ idle.documents = s.documents
      /\ idle.shown = s.shown
  BY <1>2 DEF Keeps, Fields
<1>4. Good(idle)
  <2>1. MainTypes(idle)
    BY <1>1, <1>2 DEF Good, MainTypes, Keeps, Fields
  <2>2. Held(idle) /\ PendingIssued(idle)
    BY <1>1, <1>2 DEF Good, Held, PendingIssued, Asked, Keeps, Fields
  <2> QED
    BY <2>1, <2>2 DEF Good
<1>5. ASSUME s.refreshDirty PROVE Quiet(s, t)
  <2>1. t = RequestRefresh(idle)
    BY <1>5
  <2>2. Refreshes(idle, t)
    BY <1>4, <2>1, RefreshGood
  <2> HIDE DEF t
  <2>3. Announced(t)
    BY <1>1, <1>3, <2>2, RefreshAnnounces DEF Announced
  <2>4. Good(t) /\ Keeps(s, t, three)
    BY <1>2, <2>2 DEF Refreshes, Keeps
  <2> HIDE DEF three
  <2>5. Quiet(s, t)
    BY <1>1, <2>3, <2>4, RefreshFrame DEF three
  <2> QED
    BY <2>5 DEF t
<1>6. ASSUME ~ s.refreshDirty PROVE Quiet(s, t)
  <2>1. t = idle
    BY <1>6
  <2> HIDE DEF t
  <2>2. Announced(t)
    BY <1>1, <1>2, <1>3, <1>6, <2>1 DEF Announced
  <2>3. Good(t) /\ Keeps(s, t, three)
    BY <1>2, <1>4, <2>1 DEF Keeps
  <2> HIDE DEF three
  <2>4. Quiet(s, t)
    BY <1>1, <2>2, <2>3, RefreshFrame DEF three
  <2> QED
    BY <2>4 DEF t
<1>7. Quiet(s, t)
  BY <1>5, <1>6
<1> HIDE DEF t
<1>8. Handles(s, Outcome(t, jobs))
  BY <1>7, OutcomeParts, JobsUnchanged, QuietHandles
<1> QED
  BY <1>8 DEF t, idle


-----------------------------------------------------------------------------
(* The whole runtime.  Jobs, wherever they are, are good ones, and while   *)
(* the loop has not observed the generation, it will be told of it.        *)
JobsGood ==
  /\ IsMap(jobs, Keys, Jobs)
  /\ \A k \in DOMAIN jobs : GoodJob(main, jobs[k])
WorkersGood ==
  /\ IsMap(workers, WorkerLanes, [job : Jobs, skip : BOOLEAN])
  /\ \A l \in DOMAIN workers : GoodJob(main, workers[l].job)
EventsGood ==
  /\ events \in Seq(Events)
  /\ \A i \in 1 .. Len(events) : GoodEvent(main, events[i])
Coming ==
  /\ generation \in Nat /\ unannounced \in Nat
  /\ main.lastGeneration # generation =>
       \/ unannounced > 0
       \/ \E i \in 1 .. Len(events) : events[i].job = IndexChanged

Inv == Consistent(main) /\ JobsGood /\ WorkersGood /\ EventsGood /\ Coming

(* A step of the main loop on which it does what a handler may do.         *)
Message == \E o : Handles(main, o) /\ Handled(o)

Event ==
  /\ events # << >> /\ events' = Tail(events)
  /\ UNCHANGED <<workers, generation, unannounced>>
  /\ \E o : /\ Handles(main, o) /\ main' = o.s /\ jobs' = o.jobs
            /\ Head(events).job = IndexChanged => o.s.lastGeneration = generation

LEMMA OpenIsMessage ==
  ASSUME Inv, NEW u \in Uris, NEW b \in Sizes, ~ IsOpen(main, u), OpenDocument(u, b)
  PROVE  Message
<1> DEFINE s == main
           y == Replaced(s, u, Pending(s.nextRevision + 1, b))
           o == AdmitForeground(DiscardDeferredRequests(y, u), u)
<1>1. Release(main, u) = main
  BY DEF Release
<1>2. Handled(o)
  BY <1>1 DEF OpenDocument, Replaced
<1>3. Consistent(s) /\ s.replays = << >> /\ s.documents[u].revision = 0 /\ b \in Nat
  BY RuntimeAssumption DEF Inv, OpenDocument, LoopIsFree, IsOpen, Document
<1> HIDE DEF s
<1>4. Handles(s, o)
  BY <1>3, OpenHandles
<1> HIDE DEF o
<1> QED
  BY <1>2, <1>4 DEF Message, s

LEMMA ChangeIsMessage ==
  ASSUME Inv, NEW u \in Uris, NEW b \in Sizes, ChangeDocument(u, b)
  PROVE  Message
<1> DEFINE s == main
           e == Revision(s.nextRevision + 1, b, s.documents[u].overlay)
           y == Replaced(CancelPending(s, u), u, e)
           o == AdmitForeground(RejectDeferredTokens(
                  DiscardDeferredRequests(y, u), u, Nat, Nat), u)
<1>1. Handled(o)
  BY DEF ChangeDocument, Replaced, Revision, Document
<1>2. Consistent(s) /\ s.replays = << >> /\ b \in Nat
  BY RuntimeAssumption DEF Inv, ChangeDocument, LoopIsFree
<1> HIDE DEF s
<1>3. Handles(s, o)
  BY <1>2, ChangeHandles
<1> HIDE DEF o
<1> QED
  BY <1>1, <1>3 DEF Message, s

LEMMA CloseIsMessage ==
  ASSUME Inv, NEW u \in Uris, CloseDocument(u)
  PROVE  Message
<1> DEFINE s == main
           c == RejectDeferredTokens(
                  DiscardDeferredRequests(Release(s, u), u), u, Nat, Nat)
           z == [c EXCEPT !.diagnostics[u] = 0, !.shown[u] = NoTokens]
           o == Outcome(z, jobs)
<1>1. Handled(o)
  BY DEF CloseDocument
<1>2. Consistent(s) /\ s.replays = << >>
  BY DEF Inv, CloseDocument, LoopIsFree
<1> HIDE DEF s
<1>3. Shape(c)
  <2>1. Good(Release(s, u))
    BY <1>2, ReleaseGood DEF Releases
  <2>2. Good(c)
    BY <2>1, ClearedGood DEF Cleared
  <2> QED
    BY <2>2 DEF Good, MainTypes
<1>4. Handles(s, o)
  <2> HIDE DEF c
  <2>1. Blanks(c, z, u)
    BY <1>3, BlankParts
  <2> HIDE DEF z
  <2> QED
    BY <1>2, <2>1, CloseHandles DEF c
<1> HIDE DEF o
<1> QED
  BY <1>1, <1>4 DEF Message, s

LEMMA SendIsMessage ==
  ASSUME Inv, NEW r \in Requests, NEW kind \in Kinds, NEW u \in Uris,
         SendRequest(r, kind, u)
  PROVE  Message
<1> DEFINE s == main
           x == [s EXCEPT !.requests[r] = NewExchange(s, kind, u)]
           o == Dispatch(x, r)
<1>1. Handled(o)
  BY DEF SendRequest, NewExchange, Document
<1>2. /\ Consistent(s) /\ s.replays = << >> /\ s.requests[r].state = "unsent"
      /\ kind \in Classifications /\ generation \in Nat
  BY RuntimeAssumption DEF Inv, Coming, SendRequest, LoopIsFree
<1> HIDE DEF s
<1>3. Shape(s)
  BY <1>2 DEF Consistent, Good, MainTypes
<1>4. Asking(s, x, r, NewExchange(s, kind, u))
  BY <1>3, AskingParts
<1> HIDE DEF x
<1>5. Handles(s, o)
  BY <1>2, <1>4, SendHandles
<1> HIDE DEF o
<1> QED
  BY <1>1, <1>5 DEF Message, s

LEMMA ReplayIsMessage ==
  ASSUME Inv, ReplayRequest
  PROVE  Message
<1> DEFINE s == main
           o == Dispatch([s EXCEPT !.replays = Tail(@)], Head(s.replays))
<1>1. Handled(o)
  BY DEF ReplayRequest
<1>2. Consistent(s) /\ s.replays # << >> /\ generation \in Nat
  BY DEF Inv, Coming, ReplayRequest
<1> HIDE DEF s
<1>3. Handles(s, o)
  BY <1>2, ReplayHandles
<1> HIDE DEF o
<1> QED
  BY <1>1, <1>3 DEF Message, s

LEMMA AcknowledgeIsMessage ==
  ASSUME Inv, AcknowledgeRefresh
  PROVE  Message
<1> DEFINE s == main
           idle == [s EXCEPT !.refreshInFlight = FALSE, !.refreshDirty = FALSE]
           o == Outcome(IF s.refreshDirty THEN RequestRefresh(idle) ELSE idle, jobs)
<1>1. Handled(o)
  BY DEF AcknowledgeRefresh
<1>2. Consistent(s)
  BY DEF Inv
<1> HIDE DEF s
<1>3. Handles(s, o)
  BY <1>2, AcknowledgeHandles
<1> HIDE DEF o
<1> QED
  BY <1>1, <1>3 DEF Message, s

LEMMA HandleIsEvent ==
  ASSUME Inv, HandleEvent
  PROVE  Event
<1> DEFINE s == main
           e == Head(events)
           o == Interpret(s, e)
<1>1. /\ events # << >> /\ events' = Tail(events)
      /\ main' = o.s /\ jobs' = o.jobs
      /\ UNCHANGED <<workers, generation, unannounced>>
  BY DEF HandleEvent
<1>2. GoodEvent(s, e) /\ Consistent(s) /\ generation \in Nat
  <2>1. events \in Seq(Events) /\ Len(events) \in Nat \ {0} /\ e = events[1]
    BY <1>1, EmptySeq, HeadTailProperties DEF Inv, EventsGood
  <2> QED
    BY <2>1 DEF Inv, EventsGood, Coming
<1> HIDE DEF s, e
<1>3. /\ Handles(s, o)
      /\ e.job = IndexChanged => o.s.lastGeneration = generation
  BY <1>2, InterpretHandles
<1> HIDE DEF o
<1> QED
  BY <1>1, <1>3 DEF Event, s, e


(* What a handler leaves of the invariant's parts.                         *)
LEMMA ScheduleType ==
  ASSUME NEW s, IsMap(jobs, Keys, Jobs), \A k \in DOMAIN jobs : GoodJob(s, jobs[k]),
         NEW j, GoodJob(s, j)
  PROVE  /\ IsMap(Schedule(jobs, j), Keys, Jobs)
         /\ \A k \in DOMAIN Schedule(jobs, j) : GoodJob(s, Schedule(jobs, j)[k])
<1> DEFINE m == Schedule(jobs, j)
           key == KeyOf(j.task)
<1>1. key \in Keys /\ j \in Jobs
  BY JobType DEF KeyOf, Keys, GoodJob
<1> HIDE DEF key
<1>2. /\ DOMAIN m = (DOMAIN jobs) \union {key}
      /\ \A k \in DOMAIN m : m[k] = IF k = key THEN j ELSE jobs[k]
      /\ m = [k \in DOMAIN m |-> m[k]]
  BY DEF Schedule, key
<1> HIDE DEF m
<1>3. \A k \in DOMAIN m : m[k] \in Jobs /\ GoodJob(s, m[k])
  BY <1>1, <1>2 DEF IsMap
<1>4. DOMAIN m \subseteq Keys /\ m \in [DOMAIN m -> Jobs]
  BY <1>1, <1>2, <1>3 DEF IsMap
<1> QED
  BY <1>3, <1>4 DEF IsMap, m

LEMMA HandlesJobs ==
  ASSUME JobsGood, NEW o, Handles(main, o)
  PROVE  /\ IsMap(o.jobs, Keys, Jobs)
         /\ \A k \in DOMAIN o.jobs : GoodJob(o.s, o.jobs[k])
<1>1. IsMap(jobs, Keys, Jobs) /\ \A k \in DOMAIN jobs : GoodJob(o.s, jobs[k])
  BY DEF JobsGood, Handles
<1>2. Schedules(o)
  BY DEF Handles
<1>3. CASE o.jobs = jobs
  BY <1>1, <1>3
<1>4. ASSUME NEW j, GoodJob(o.s, j), o.jobs = Schedule(jobs, j)
      PROVE  /\ IsMap(o.jobs, Keys, Jobs)
             /\ \A k \in DOMAIN o.jobs : GoodJob(o.s, o.jobs[k])
  BY <1>1, <1>4, ScheduleType
<1> QED
  BY <1>2, <1>3, <1>4 DEF Schedules

(* The generation stands still under every step of the main loop.          *)
LEMMA ConsistentPrimed ==
  ASSUME Consistent(main'), generation' = generation
  PROVE  Consistent(main)'
BY DEF Consistent, Announced

LEMMA HandledKeeps ==
  ASSUME Inv, NEW o, Handles(main, o), main' = o.s, jobs' = o.jobs,
         workers' = workers, generation' = generation
  PROVE  Consistent(main)' /\ JobsGood' /\ WorkersGood'
<1>1. Consistent(main)'
  <2>1. Consistent(main')
    BY DEF Handles
  <2> QED
    BY <2>1, ConsistentPrimed
<1>2. JobsGood'
  BY HandlesJobs DEF Inv, JobsGood
<1>3. WorkersGood'
  BY DEF Inv, WorkersGood, Handles
<1> QED
  BY <1>1, <1>2, <1>3

LEMMA MessageKeeps ==
  ASSUME Inv, Message
  PROVE  Inv'
<1>1. PICK o : Handles(main, o) /\ Handled(o)
  BY DEF Message
<1>2. /\ main' = o.s /\ jobs' = o.jobs /\ workers' = workers
      /\ events' = events /\ generation' = generation /\ unannounced' = unannounced
  BY <1>1 DEF Handled
<1>3. Consistent(main)' /\ JobsGood' /\ WorkersGood'
  BY <1>1, <1>2, HandledKeeps
<1>4. EventsGood'
  BY <1>1, <1>2 DEF Inv, EventsGood, GoodEvent, Handles
<1>5. Coming'
  BY <1>1, <1>2 DEF Inv, Coming, Handles
<1> QED
  BY <1>3, <1>4, <1>5 DEF Inv

LEMMA EventKeeps ==
  ASSUME Inv, Event
  PROVE  Inv'
<1>1. PICK o : /\ Handles(main, o) /\ main' = o.s /\ jobs' = o.jobs
               /\ Head(events).job = IndexChanged => o.s.lastGeneration = generation
  BY DEF Event
<1>2. /\ workers' = workers /\ generation' = generation
      /\ unannounced' = unannounced /\ events # << >> /\ events' = Tail(events)
  BY DEF Event
<1>3. Consistent(main)' /\ JobsGood' /\ WorkersGood'
  BY <1>1, <1>2, HandledKeeps
<1>4. /\ events \in Seq(Events) /\ Len(events) \in Nat \ {0}
      /\ events' \in Seq(Events) /\ Len(events') = Len(events) - 1
      /\ Head(events) = events[1]
      /\ \A i \in 1 .. Len(events') : events'[i] = events[i + 1]
  BY <1>2, EmptySeq, HeadTailProperties DEF Inv, EventsGood
<1>5. EventsGood'
  <2>1. \A i \in 1 .. Len(events) : GoodEvent(main', events[i])
    BY <1>1 DEF Inv, EventsGood, GoodEvent, Handles
  <2>2. \A i \in 1 .. Len(events') : GoodEvent(main', events'[i])
    BY <1>4, <2>1
  <2> QED
    BY <1>4, <2>2 DEF EventsGood
<1>6. Coming'
  <2>1. main'.lastGeneration \in {main.lastGeneration, generation}
    BY <1>1 DEF Handles
  <2>2. SUFFICES ASSUME main'.lastGeneration # generation
                 PROVE  \/ unannounced > 0
                        \/ \E i \in 1 .. Len(events') : events'[i].job = IndexChanged
    BY <1>2 DEF Inv, Coming
  <2>3. main.lastGeneration # generation /\ events[1].job # IndexChanged
    BY <1>1, <1>4, <2>1, <2>2
  <2>4. CASE unannounced > 0
    BY <2>4
  <2>5. ASSUME NEW i \in 1 .. Len(events), events[i].job = IndexChanged
        PROVE  \E j \in 1 .. Len(events') : events'[j].job = IndexChanged
    <3>1. i - 1 \in 1 .. Len(events') /\ (i - 1) + 1 = i
      BY <1>4, <2>3, <2>5
    <3> QED
      BY <1>4, <2>5, <3>1
  <2> QED
    BY <2>3, <2>4, <2>5 DEF Inv, Coming
<1> QED
  BY <1>3, <1>5, <1>6 DEF Inv

LEMMA SendKeeps ==
  ASSUME Inv, NEW e \in Events, GoodEvent(main, e), Send(e)
  PROVE  /\ events' \in Seq(Events)
         /\ \A i \in 1 .. Len(events') : GoodEvent(main, events'[i])
         /\ \E i \in 1 .. Len(events') : events'[i] = e
         /\ \A i \in 1 .. Len(events) : i \in 1 .. Len(events') /\ events'[i] = events[i]
<1>1. /\ events \in Seq(Events) /\ Len(events) \in Nat
      /\ \A i \in 1 .. Len(events) : GoodEvent(main, events[i])
  BY LenProperties DEF Inv, EventsGood
<1>2. events' = Append(events, e)
  BY DEF Send
<1>3. /\ events' \in Seq(Events) /\ Len(events') = Len(events) + 1
      /\ \A i \in 1 .. Len(events) : events'[i] = events[i]
      /\ events'[Len(events) + 1] = e
  BY <1>1, <1>2, AppendProperties
<1>4. \A i \in 1 .. Len(events') : i \in 1 .. Len(events) \/ i = Len(events) + 1
  BY <1>1, <1>3
<1>5. Len(events) + 1 \in 1 .. Len(events')
  BY <1>1, <1>3
<1>6. \A i \in 1 .. Len(events) : i \in 1 .. Len(events')
  BY <1>1, <1>3
<1> QED
  BY <1>1, <1>3, <1>4, <1>5, <1>6

LEMMA TakeKeeps ==
  ASSUME Inv, NEW lane \in Lanes, TakeJob(lane)
  PROVE  Inv'
<1>1. PICK k \in NextKeys(lane) :
        /\ jobs' = Unretain(jobs, k)
        /\ workers' = [l \in (DOMAIN workers) \union {lane} |->
             IF l = lane THEN [job |-> jobs[k], skip |-> Flagged(jobs[k])]
             ELSE workers[l]]
  BY DEF TakeJob
<1>2. UNCHANGED <<main, events, generation, unannounced>>
  BY DEF TakeJob
<1>3. k \in DOMAIN jobs /\ lane \in WorkerLanes
  BY RuntimeAssumption DEF NextKeys
<1>4. /\ DOMAIN jobs \subseteq Keys /\ jobs[k] \in Jobs
      /\ \A m \in DOMAIN jobs : jobs[m] \in Jobs /\ GoodJob(main, jobs[m])
  BY <1>3 DEF Inv, JobsGood, IsMap
<1>5. JobsGood'
  <2>1. /\ DOMAIN jobs' = (DOMAIN jobs) \ {k}
        /\ \A m \in DOMAIN jobs' : jobs'[m] = jobs[m]
        /\ jobs' = [m \in DOMAIN jobs' |-> jobs'[m]]
    BY <1>1 DEF Unretain
  <2> QED
    BY <1>2, <1>4, <2>1 DEF JobsGood, IsMap
<1>6. WorkersGood'
  <2> DEFINE w == [job |-> jobs[k], skip |-> Flagged(jobs[k])]
  <2>1. Flagged(jobs[k]) \in BOOLEAN
    BY DEF Flagged
  <2>2. w \in [job : Jobs, skip : BOOLEAN] /\ w.job = jobs[k]
    BY <1>4, <2>1
  <2>3. /\ DOMAIN workers' = (DOMAIN workers) \union {lane}
        /\ \A l \in DOMAIN workers' : workers'[l] = IF l = lane THEN w ELSE workers[l]
        /\ workers' = [l \in DOMAIN workers' |-> workers'[l]]
    BY <1>1
  <2> HIDE DEF w
  <2>4. \A l \in DOMAIN workers' : /\ workers'[l] \in [job : Jobs, skip : BOOLEAN]
                                   /\ GoodJob(main, workers'[l].job)
    BY <1>3, <1>4, <2>2, <2>3 DEF Inv, WorkersGood, IsMap
  <2>5. DOMAIN workers' \subseteq WorkerLanes
    BY <1>3, <2>3 DEF Inv, WorkersGood, IsMap
  <2> QED
    BY <1>2, <2>3, <2>4, <2>5 DEF WorkersGood, IsMap
<1>7. Consistent(main)' /\ EventsGood' /\ Coming'
  BY <1>2, ConsistentPrimed DEF Inv, EventsGood, Coming
<1> QED
  BY <1>5, <1>6, <1>7 DEF Inv

LEMMA FinishKeeps ==
  ASSUME Inv, NEW lane \in Lanes, FinishJob(lane)
  PROVE  Inv'
<1> DEFINE job == workers[lane].job
<1>1. PICK outcome \in {"ready", "skipped"} : Send([job |-> job, outcome |-> outcome])
  BY DEF FinishJob
<1>2. /\ lane \in DOMAIN workers /\ workers' = Unretain(workers, lane)
      /\ UNCHANGED <<main, jobs, generation, unannounced>>
  BY DEF FinishJob
<1>3. job \in Jobs /\ GoodJob(main, job)
  BY <1>2 DEF Inv, WorkersGood, GoodJob
<1> DEFINE e == [job |-> job, outcome |-> outcome]
<1>4. e \in Events /\ GoodEvent(main, e)
  BY <1>3 DEF Events, GoodEvent
<1> HIDE DEF job, e
<1>5. /\ events' \in Seq(Events)
      /\ \A i \in 1 .. Len(events') : GoodEvent(main, events'[i])
      /\ \A i \in 1 .. Len(events) : i \in 1 .. Len(events') /\ events'[i] = events[i]
  BY <1>1, <1>4, SendKeeps DEF e
<1>6. EventsGood'
  BY <1>2, <1>5 DEF EventsGood
<1>7. WorkersGood'
  <2>1. /\ DOMAIN workers' = (DOMAIN workers) \ {lane}
        /\ \A l \in DOMAIN workers' : workers'[l] = workers[l]
        /\ workers' = [l \in DOMAIN workers' |-> workers'[l]]
    BY <1>2 DEF Unretain
  <2> QED
    BY <1>2, <2>1 DEF Inv, WorkersGood, IsMap
<1>8. Consistent(main)' /\ JobsGood'
  BY <1>2, ConsistentPrimed DEF Inv, JobsGood
<1>9. Coming'
  BY <1>2, <1>5 DEF Inv, Coming
<1> QED
  BY <1>6, <1>7, <1>8, <1>9 DEF Inv

LEMMA PublishKeeps ==
  ASSUME Inv, PublishGeneration
  PROVE  Inv'
<1>1. /\ generation' = generation + 1 /\ unannounced' = unannounced + 1
      /\ UNCHANGED <<main, jobs, workers, events>>
  BY DEF PublishGeneration
<1>2. generation \in Nat /\ unannounced \in Nat /\ main.lastGeneration \in Nat
      /\ main.lastGeneration <= generation
  BY DEF Inv, Coming, Consistent, Good, MainTypes, Announced
<1>3. Announced(main)'
  <2>1. main.lastGeneration <= generation + 1 /\ main.lastGeneration # generation + 1
    BY <1>2
  <2> QED
    BY <1>1, <2>1 DEF Inv, Consistent, Announced
<1>4. Consistent(main)'
  BY <1>1, <1>3 DEF Inv, Consistent
<1>5. Coming'
  BY <1>1, <1>2 DEF Coming
<1>6. JobsGood' /\ WorkersGood' /\ EventsGood'
  BY <1>1 DEF Inv, JobsGood, WorkersGood, EventsGood
<1> QED
  BY <1>4, <1>5, <1>6 DEF Inv

LEMMA AnnounceKeeps ==
  ASSUME Inv, AnnounceGeneration
  PROVE  Inv'
<1> DEFINE e == [job |-> IndexChanged, outcome |-> "ready"]
<1>1. /\ unannounced > 0 /\ unannounced' = unannounced - 1 /\ Send(e)
      /\ UNCHANGED <<main, jobs, workers, generation>>
  BY DEF AnnounceGeneration
<1>2. e \in Events /\ GoodEvent(main, e) /\ e.job = IndexChanged
  BY DEF Events, GoodEvent
<1> HIDE DEF e
<1>3. /\ events' \in Seq(Events)
      /\ \A i \in 1 .. Len(events') : GoodEvent(main, events'[i])
      /\ \E i \in 1 .. Len(events') : events'[i] = e
  BY <1>1, <1>2, SendKeeps
<1>4. Coming' /\ EventsGood'
  BY <1>1, <1>2, <1>3 DEF Inv, Coming, EventsGood
<1>5. Consistent(main)' /\ JobsGood' /\ WorkersGood'
  BY <1>1, ConsistentPrimed DEF Inv, JobsGood, WorkersGood
<1> QED
  BY <1>4, <1>5 DEF Inv


(* What the main loop does of Next, and what the others do.                *)
LEMMA NextSplits ==
  ASSUME Inv, Next
  PROVE  \/ Message \/ Event
         \/ /\ main' = main
            /\ \/ \E lane \in Lanes : TakeJob(lane) \/ FinishJob(lane)
               \/ PublishGeneration \/ AnnounceGeneration
<1>1. ASSUME NEW u \in Uris, NEW b \in Sizes, ~ IsOpen(main, u), OpenDocument(u, b)
      PROVE  Message
  BY <1>1, OpenIsMessage
<1>2. ASSUME NEW u \in Uris, NEW b \in Sizes, ChangeDocument(u, b)
      PROVE  Message
  BY <1>2, ChangeIsMessage
<1>3. ASSUME NEW u \in Uris, CloseDocument(u) PROVE Message
  BY <1>3, CloseIsMessage
<1>4. ASSUME NEW r \in Requests, NEW kind \in Kinds, NEW u \in Uris,
             SendRequest(r, kind, u)
      PROVE  Message
  BY <1>4, SendIsMessage
<1>5. CASE AcknowledgeRefresh
  BY <1>5, AcknowledgeIsMessage
<1>6. CASE ReplayRequest
  BY <1>6, ReplayIsMessage
<1>7. CASE HandleEvent
  BY <1>7, HandleIsEvent
<1>8. ASSUME NEW lane \in Lanes, TakeJob(lane) \/ FinishJob(lane)
      PROVE  main' = main
  BY <1>8 DEF TakeJob, FinishJob
<1>9. PublishGeneration \/ AnnounceGeneration => main' = main
  BY DEF PublishGeneration, AnnounceGeneration
<1> QED
  BY <1>1, <1>2, <1>3, <1>4, <1>5, <1>6, <1>7, <1>8, <1>9
     DEF Next, ClientStep, LoopStep

LEMMA NextKeeps ==
  ASSUME Inv, [Next]_vars
  PROVE  Inv'
<1>1. CASE Message
  BY <1>1, MessageKeeps
<1>2. CASE Event
  BY <1>2, EventKeeps
<1>3. ASSUME NEW lane \in Lanes, TakeJob(lane) \/ FinishJob(lane) PROVE Inv'
  BY <1>3, TakeKeeps, FinishKeeps
<1>4. CASE PublishGeneration
  BY <1>4, PublishKeeps
<1>5. CASE AnnounceGeneration
  BY <1>5, AnnounceKeeps
<1>6. CASE UNCHANGED vars
  <2>1. /\ main' = main /\ jobs' = jobs /\ workers' = workers /\ events' = events
        /\ generation' = generation /\ unannounced' = unannounced
    BY <1>6 DEF vars
  <2> QED
    BY <2>1, ConsistentPrimed DEF Inv, JobsGood, WorkersGood, EventsGood, Coming
<1>7. CASE Next
  BY <1>1, <1>2, <1>3, <1>4, <1>5, <1>7, NextSplits
<1> QED
  BY <1>6, <1>7

LEMMA InitGood == Init => Inv
<1> SUFFICES ASSUME Init PROVE Inv
  OBVIOUS
<1> DEFINE s == main
           idle == [state |-> "unsent", kind |-> NoRequest, uri |-> NoRequest,
                    revision |-> 0, answers |-> 0]
<1>1. /\ Shape(s)
      /\ s.documents = [u \in Uris |-> Closed] /\ s.nextRevision = 0
      /\ s.table = EmptyTable /\ s.deferredRequests = [u \in Uris |-> << >>]
      /\ s.deferredTokens = [u \in Uris |-> << >>] /\ s.lastGeneration = 0
      /\ s.refreshInFlight = FALSE /\ s.refreshDirty = FALSE
      /\ s.replays = << >> /\ s.requests = [r \in Requests |-> idle]
      /\ s.diagnostics = [u \in Uris |-> 0] /\ s.shown = [u \in Uris |-> NoTokens]
  BY DEF Init, Shape, Fields
<1> HIDE DEF s
<1>2. /\ Closed \in Documents /\ Closed.pending = NoPending /\ Closed.revision = 0
      /\ NoTokens \in Tokens /\ NoTokens.told
  <2>1. NoPending \in [revision : Nat, generation : Nat, sequence : Nat]
        /\ NoOverlay \in [revision : Nat, generation : Nat]
        /\ NoTokens \in Tokens /\ NoTokens.told
    BY DEF NoPending, NoOverlay, NoTokens, Tokens
  <2> HIDE DEF NoPending, NoOverlay, NoTokens
  <2> QED
    BY <2>1 DEF Closed, Documents
<1> HIDE DEF Closed, NoTokens
<1>3. idle \in Exchanges
  BY DEF Exchanges
<1> HIDE DEF idle
<1>4. MainTypes(s)
  <2>1. << >> \in Seq(Waiters) /\ << >> \in Seq(TokenWaiters) /\ << >> \in Seq(Requests)
    BY EmptySeq
  <2>2. Idle(s.table)
    BY <1>1, EmptyTableIdle
  <2>3. s.documents \in [Uris -> Documents] /\ s.diagnostics \in [Uris -> Nat]
    BY <1>1, <1>2
  <2>4. s.deferredRequests \in [Uris -> Seq(Waiters)]
        /\ s.deferredTokens \in [Uris -> Seq(TokenWaiters)]
        /\ s.replays \in Seq(Requests)
    BY <1>1, <2>1
  <2>5. s.requests \in [Requests -> Exchanges] /\ s.shown \in [Uris -> Tokens]
    BY <1>1, <1>2, <1>3
  <2>6. s.refreshInFlight \in BOOLEAN /\ s.refreshDirty \in BOOLEAN
    BY <1>1, Zenon
  <2>7. s.nextRevision \in Nat /\ s.lastGeneration \in Nat
    BY <1>1
  <2>8. Shape(s)
    BY <1>1
  <2> QED
    BY <2>2, <2>3, <2>4, <2>5, <2>6, <2>7, <2>8 DEF MainTypes
<1>5. RequestsIn(<< >>) = {} /\ Members(<< >>) = {}
  BY EmptySeq DEF RequestsIn, Members
<1>6. Held(s) /\ PendingIssued(s)
  BY <1>1, <1>2, <1>5 DEF Held, PendingIssued
<1>7. QueuesCurrent(s) /\ ReplaysCurrent(s)
  BY <1>1, <1>5, EmptyCurrent DEF QueuesCurrent, ReplaysCurrent
<1>8. generation = 0 /\ unannounced = 0 /\ events = << >>
      /\ jobs = [k \in {} |-> {}] /\ workers = [l \in {} |-> {}]
  BY DEF Init
<1>9. Matched(s)
  BY <1>1 DEF Matched, EmptyTable
<1>10. Announced(s) /\ Diagnosed(s)
  BY <1>1, <1>2, <1>8 DEF Announced, Diagnosed
<1>11. Consistent(s)
  BY <1>4, <1>6, <1>7, <1>9, <1>10 DEF Consistent, Good
<1>12. JobsGood /\ WorkersGood
  BY <1>8 DEF JobsGood, WorkersGood, IsMap
<1>13. EventsGood /\ Coming
  BY <1>1, <1>8, EmptySeq DEF EventsGood, Coming, s
<1> QED
  BY <1>11, <1>12, <1>13 DEF Inv, s

LEMMA InvAlways == Spec => []Inv
BY InitGood, NextKeeps, PTL DEF Spec

(* The state the main loop owns, the scheduled jobs, the workers and the   *)
(* events are well formed: the loop's handlers in document_runtime.rs,     *)
(* open_documents.rs and feature_dispatch.rs never build anything else.    *)
THEOREM DocumentTypeCorrect == Spec => []TypeOK
<1>1. Inv => TypeOK
  <2> SUFFICES ASSUME Inv PROVE TypeOK
    OBVIOUS
  <2>1. MainTypes(main) /\ IsTable(main.table)
    BY DEF Inv, Consistent, Good, MainTypes, Idle
  <2>2. IsMap(jobs, Keys, Jobs) /\ events \in Seq(Events)
        /\ IsMap(workers, WorkerLanes, [job : Jobs, skip : BOOLEAN])
        /\ generation \in Nat /\ unannounced \in Nat
    BY DEF Inv, JobsGood, WorkersGood, EventsGood, Coming
  <2> QED
    BY <2>1, <2>2 DEF TypeOK, MainTypes
<1> QED
  BY <1>1, InvAlways, PTL

(* What is deferred for a document is of the revision on screen, of an     *)
(* analysis still to come and of no rejected document, and no more than    *)
(* the limit: document_runtime.rs discards it on every path that makes it  *)
(* anything else.                                                          *)
THEOREM DeferredStaysCurrent == Spec => []DeferredIsCurrent
<1>1. Inv => DeferredIsCurrent
  <2> SUFFICES ASSUME Inv, NEW u \in Uris
               PROVE  LET d == Document(main, u)
                      IN  /\ \A i \in 1 .. Len(main.deferredRequests[u]) :
                               /\ main.deferredRequests[u][i].revision = d.revision
                               /\ ~ d.analysis /\ ~ d.rejected
                          /\ \A i \in 1 .. Len(main.deferredTokens[u]) :
                               /\ main.deferredTokens[u][i].revision = d.revision
                               /\ ~ d.rejected
                          /\ Len(main.deferredRequests[u]) <= DeferralLimit
                          /\ Len(main.deferredTokens[u]) <= DeferralLimit
    BY DEF DeferredIsCurrent
  <2>1. RequestsCurrent(main, u) /\ TokensCurrent(main, u)
    BY DEF Inv, Consistent, QueuesCurrent
  <2> QED
    BY <2>1 DEF RequestsCurrent, TokensCurrent, Members, Document
<1> QED
  BY <1>1, InvAlways, PTL

(* The dispatcher takes what it has just admitted, whatever the limits of  *)
(* the table: nothing stays queued between two handlers.                   *)
THEOREM NothingStaysQueued == Spec => []NothingLeftQueued
<1>1. Inv => NothingLeftQueued
  BY DEF Inv, Consistent, Good, MainTypes, Idle, NothingLeftQueued
<1> QED
  BY <1>1, InvAlways, PTL

(* A client that shows tokens of an older generation has been told to ask  *)
(* again, will be when it acknowledges the refresh in flight, or the       *)
(* generation's event is still on its way to the loop.                     *)
THEOREM StaleTokensGetAnnounced == Spec => []StaleTokensAreAnnounced
<1>1. Inv => StaleTokensAreAnnounced
  <2> SUFFICES ASSUME Inv, NEW u \in Uris, ~ main.shown[u].told,
                      main.shown[u].generation # generation
               PROVE  \/ main.refreshDirty
                      \/ unannounced > 0
                      \/ \E i \in 1 .. Len(events) :
                           events[i].job.kind = "indexChanged"
    BY DEF StaleTokensAreAnnounced
  <2>1. CASE main.lastGeneration = generation
    BY <2>1 DEF Inv, Consistent, Announced
  <2>2. CASE main.lastGeneration # generation
    <3>1. IndexChanged.kind = "indexChanged"
      BY DEF IndexChanged, Job
    <3> QED
      BY <2>2, <3>1 DEF Inv, Coming
  <2> QED
    BY <2>1, <2>2
<1> QED
  BY <1>1, InvAlways, PTL

(* A result is of the revision the client asked about, and tokens are of   *)
(* the current generation too, on every path that answers one: at once,    *)
(* replayed after the analysis, or captured by a debug job.                *)
THEOREM AnswersAreFresh == Spec => NoStaleAnswer
<1>1. Inv /\ [Next]_vars => [FreshAnswers]_vars
  <2> SUFFICES ASSUME Inv, Next PROVE FreshAnswers
    OBVIOUS
  <2>1. ASSUME NEW o, Handles(main, o), main' = o.s PROVE FreshAnswers
    BY <2>1 DEF Handles, GivesFresh, Fresh, FreshAnswers
  <2>2. CASE Message
    BY <2>1, <2>2 DEF Message, Handled
  <2>3. CASE Event
    BY <2>1, <2>3 DEF Event
  <2>4. CASE main' = main
    BY <2>4 DEF FreshAnswers
  <2> QED
    BY <2>2, <2>3, <2>4, NextSplits
<1> QED
  BY <1>1, InvAlways, PTL DEF Spec, NoStaleAnswer

(* Diagnostics only move forward, to a revision the document has had, and  *)
(* are gone when it is closed.                                             *)
THEOREM DiagnosticsMoveForward == Spec => DiagnosticsNeverRegress
<1>1. Inv /\ [Next]_vars => [ForwardDiagnostics]_vars
  <2> SUFFICES ASSUME Inv, Next PROVE ForwardDiagnostics
    OBVIOUS
  <2>1. ASSUME NEW o, Handles(main, o), main' = o.s PROVE ForwardDiagnostics
    BY <2>1 DEF Handles, Forward, ForwardDiagnostics, Document
  <2>2. CASE Message
    BY <2>1, <2>2 DEF Message, Handled
  <2>3. CASE Event
    BY <2>1, <2>3 DEF Event
  <2>4. CASE main' = main
    <3>1. Good(main) /\ Diagnosed(main)
      BY DEF Inv, Consistent
    <3> QED
      BY <2>4, <3>1, NatDiagnostics DEF Diagnosed, ForwardDiagnostics, Document
  <2> QED
    BY <2>2, <2>3, <2>4, NextSplits
<1> QED
  BY <1>1, InvAlways, PTL DEF Spec, DiagnosticsNeverRegress

-----------------------------------------------------------------------------
(* Where a request waits.  A handler answers requests, moves them from one *)
(* box to another, or takes one in hand; X is what it has in hand.         *)
RequestBox(u) == <<"requests", u>>
TokenBox(u) == <<"tokens", u>>
ReplayBox == <<"replays", "replays">>
Boxes == ({"requests", "tokens"} \X Uris) \union {ReplayBox}

Box(s, b) ==
  CASE b[1] = "requests" -> RequestsIn(s.deferredRequests[b[2]])
    [] b[1] = "tokens"   -> RequestsIn(s.deferredTokens[b[2]])
    [] OTHER             -> Members(s.replays)

Stored(s, r) == {b \in Boxes : r \in Box(s, b)}
Common(s, r) == s.requests[r].kind # "debug"

Once(seq) == \A i, j \in 1 .. Len(seq) : seq[i] = seq[j] => i = j

Ordered(s) ==
  /\ \A u \in Uris : Distinct(s.deferredRequests[u]) /\ Distinct(s.deferredTokens[u])
  /\ Once(s.replays)

Apart(s, X) ==
  \A r \in Requests : /\ \A b, c \in Stored(s, r) : b = c
                      /\ r \in X => Stored(s, r) = {}

Owed(s, X) ==
  \A r \in Requests : Common(s, r) =>
    /\ s.requests[r].answers =
         IF s.requests[r].state \in {"result", "error"} THEN 1 ELSE 0
    /\ s.requests[r].state = "waiting" <=> r \in X \/ Stored(s, r) # {}

Filed(s, X) == Ordered(s) /\ Apart(s, X) /\ Owed(s, X)

LEMMA BoxIs ==
  ASSUME NEW s
  PROVE  /\ \A u \in Uris :
              /\ Box(s, RequestBox(u)) = RequestsIn(s.deferredRequests[u])
              /\ Box(s, TokenBox(u)) = RequestsIn(s.deferredTokens[u])
         /\ Box(s, ReplayBox) = Members(s.replays)
BY DEF Box, RequestBox, TokenBox, ReplayBox

LEMMA BoxNames ==
  /\ \A u \in Uris : RequestBox(u) \in Boxes /\ TokenBox(u) \in Boxes
  /\ ReplayBox \in Boxes
  /\ \A b \in Boxes :
       b = ReplayBox \/ \E u \in Uris : b = RequestBox(u) \/ b = TokenBox(u)
  /\ \A u, v \in Uris :
       /\ RequestBox(u) # TokenBox(v)
       /\ RequestBox(u) # ReplayBox /\ TokenBox(u) # ReplayBox
       /\ RequestBox(u) = RequestBox(v) => u = v
       /\ TokenBox(u) = TokenBox(v) => u = v
BY DEF Boxes, RequestBox, TokenBox, ReplayBox

(* What leaves the filing alone.                                           *)
SameFiles(s, t) ==
  /\ t.requests = s.requests
  /\ t.deferredRequests = s.deferredRequests
  /\ t.deferredTokens = s.deferredTokens
  /\ t.replays = s.replays

Files(s, t) == \A X : Filed(s, X) => Filed(t, X)

LEMMA SameFilesKept ==
  ASSUME NEW s, NEW t, SameFiles(s, t)
  PROVE  Files(s, t)
<1>1. \A b : Box(t, b) = Box(s, b)
  BY DEF SameFiles, Box
<1>2. \A r : Stored(t, r) = Stored(s, r) /\ (Common(t, r) <=> Common(s, r))
  BY <1>1 DEF SameFiles, Stored, Common
<1>3. Ordered(s) => Ordered(t)
  BY DEF SameFiles, Ordered
<1>4. \A X : Apart(s, X) => Apart(t, X)
  BY <1>2 DEF Apart
<1>5. \A X : Owed(s, X) => Owed(t, X)
  BY <1>2 DEF SameFiles, Owed
<1> QED
  BY <1>3, <1>4, <1>5 DEF Files, Filed

(* The common requests of R, and they alone, leave their boxes.            *)
Unfiles(s, t, R) ==
  \A b \in Boxes :
    /\ Box(t, b) \subseteq Box(s, b)
    /\ \A r \in Requests :
         Common(s, r) => (r \in Box(t, b) <=> r \in Box(s, b) /\ r \notin R)

LEMMA AnswerFiles ==
  ASSUME NEW s, Good(s), NEW X, Filed(s, X), NEW R,
         \A r \in R \cap Requests : Common(s, r) => r \in X \/ Stored(s, r) # {},
         NEW outcome \in {"result", "error"},
         NEW t, Replied(s, t, R, outcome), Unfiles(s, t, R), Ordered(t)
  PROVE  Filed(t, X \ R)
<1>1. \A r \in Requests : s.requests[r] \in Exchanges
  BY DEF Good, MainTypes
<1>2. ASSUME NEW r \in Requests
      PROVE  /\ t.requests[r].kind = s.requests[r].kind
             /\ r \in R => /\ t.requests[r].state = outcome
                           /\ t.requests[r].answers = s.requests[r].answers + 1
             /\ r \notin R => t.requests[r] = s.requests[r]
  <2> DEFINE e == s.requests[r]
             x == [e EXCEPT !.state = outcome, !.answers = @ + 1]
  <2>1. t.requests[r] = IF r \in R THEN x ELSE e
    BY DEF Replied
  <2>2. e \in Exchanges
    BY <1>1
  <2> HIDE DEF e
  <2>3. x.kind = e.kind /\ x.state = outcome /\ x.answers = e.answers + 1
    BY <2>2, ReplyType, Zenon
  <2> HIDE DEF x
  <2> QED
    BY <2>1, <2>3 DEF e
<1>3. \A r \in Requests : Stored(t, r) \subseteq Stored(s, r)
  BY DEF Unfiles, Stored
<1>4. \A r \in Requests : Common(s, r) =>
        Stored(t, r) = IF r \in R THEN {} ELSE Stored(s, r)
  BY DEF Unfiles, Stored
<1>5. Apart(t, X \ R)
  BY <1>3 DEF Filed, Apart
<1>6. Owed(t, X \ R)
  <2> SUFFICES ASSUME NEW r \in Requests, Common(t, r)
               PROVE  /\ t.requests[r].answers =
                           IF t.requests[r].state \in {"result", "error"} THEN 1 ELSE 0
                      /\ t.requests[r].state = "waiting" <=>
                           r \in X \ R \/ Stored(t, r) # {}
    BY DEF Owed
  <2>1. /\ Common(s, r)
        /\ s.requests[r].answers =
             IF s.requests[r].state \in {"result", "error"} THEN 1 ELSE 0
        /\ s.requests[r].state = "waiting" <=> r \in X \/ Stored(s, r) # {}
    BY <1>2 DEF Filed, Owed, Common
  <2>2. CASE r \in R
    <3>1. s.requests[r].state = "waiting"
      BY <2>1, <2>2
    <3>2. s.requests[r].answers = 0 /\ Stored(t, r) = {}
      BY <1>4, <2>1, <2>2, <3>1
    <3> QED
      BY <1>2, <2>2, <3>2
  <2>3. CASE r \notin R
    <3>1. t.requests[r] = s.requests[r] /\ Stored(t, r) = Stored(s, r)
      BY <1>2, <1>4, <2>1, <2>3
    <3> QED
      BY <2>1, <2>3, <3>1
  <2> QED
    BY <2>2, <2>3
<1> QED
  BY <1>5, <1>6 DEF Filed

LEMMA FilesTrans ==
  ASSUME NEW s, NEW t, NEW v, Files(s, t), Files(t, v)
  PROVE  Files(s, v)
BY DEF Files

(* Answering what is taken out of one box.                                 *)
LEMMA BoxFiles ==
  ASSUME NEW s, Good(s), NEW X, Filed(s, X), NEW t, Ordered(t),
         NEW a \in Boxes, NEW R \in SUBSET Requests, R \subseteq Box(s, a),
         Box(t, a) = Box(s, a) \ R,
         \A b \in Boxes : b # a => Box(t, b) = Box(s, b),
         NEW outcome \in {"result", "error"}, Replied(s, t, R, outcome)
  PROVE  Filed(t, X)
<1>1. \A r \in R : a \in Stored(s, r)
  BY DEF Stored
<1>2. \A r \in R : r \notin X
  BY <1>1 DEF Filed, Apart
<1>3. \A r \in R, b \in Boxes : r \in Box(s, b) => b = a
  BY <1>1 DEF Filed, Apart, Stored
<1>4. Unfiles(s, t, R)
  <2> SUFFICES ASSUME NEW b \in Boxes
               PROVE  /\ Box(t, b) \subseteq Box(s, b)
                      /\ \A r \in Requests : Common(s, r) =>
                           (r \in Box(t, b) <=> r \in Box(s, b) /\ r \notin R)
    BY DEF Unfiles
  <2>1. CASE b = a
    BY <2>1
  <2>2. CASE b # a
    BY <1>3, <2>2
  <2> QED
    BY <2>1, <2>2
<1>5. Filed(t, X \ R)
  BY <1>1, <1>4, AnswerFiles
<1>6. X \ R = X
  BY <1>2
<1> QED
  BY <1>5, <1>6

LEMMA EmptyOrdered ==
  /\ Distinct(<< >>) /\ Once(<< >>)
  /\ RequestsIn(<< >>) = {} /\ Members(<< >>) = {}
BY EmptySeq DEF Distinct, Once, RequestsIn, Members

LEMMA DiscardFiles ==
  ASSUME NEW s, Good(s), NEW u \in Uris, NEW d, Discards(s, d, u)
  PROVE  Files(s, d)
<1> SUFFICES ASSUME NEW X, Filed(s, X) PROVE Filed(d, X)
  BY DEF Files
<1> DEFINE a == RequestBox(u)
           R == RequestsIn(s.deferredRequests[u])
<1>1. /\ s.deferredRequests \in [Uris -> Seq(Waiters)]
      /\ d.deferredRequests = [s.deferredRequests EXCEPT ![u] = << >>]
      /\ d.deferredTokens = s.deferredTokens /\ d.replays = s.replays
      /\ Replied(s, d, R, "error")
  BY DEF Discards, Keeps, Fields, Good, MainTypes
<1>2. R \in SUBSET Requests
  BY DEF Good, Held, Asked
<1>3. /\ \A v \in Uris : d.deferredRequests[v] = IF v = u THEN << >>
                                                 ELSE s.deferredRequests[v]
  BY <1>1
<1>4. a \in Boxes /\ Box(s, a) = R /\ Box(d, a) = {}
  BY <1>3, BoxIs, BoxNames, EmptyOrdered
<1> HIDE DEF R
<1>5. \A b \in Boxes : b # a => Box(d, b) = Box(s, b)
  <2> SUFFICES ASSUME NEW b \in Boxes, b # a PROVE Box(d, b) = Box(s, b)
    OBVIOUS
  <2>1. CASE b = ReplayBox
    BY <1>1, <2>1, BoxIs, BoxNames
  <2>2. ASSUME NEW v \in Uris, b = RequestBox(v)
        PROVE  Box(d, b) = Box(s, b)
    BY <1>3, <2>2, BoxIs, BoxNames
  <2>3. ASSUME NEW v \in Uris, b = TokenBox(v)
        PROVE  Box(d, b) = Box(s, b)
    BY <1>1, <2>3, BoxIs, BoxNames
  <2> QED
    BY <2>1, <2>2, <2>3, BoxIs, BoxNames
<1>6. Ordered(d)
  BY <1>1, <1>3, EmptyOrdered DEF Filed, Ordered
<1> HIDE DEF a
<1> QED
  BY <1>1, <1>2, <1>4, <1>5, <1>6, BoxFiles

(* What is taken out of a queue of distinct requests and what is left of it. *)
LEMMA KeptSplit ==
  ASSUME NEW R, NEW q \in Seq(R), Distinct(q), NEW S
  PROVE  /\ RequestsIn(Kept(q, R \ S)) = RequestsIn(q) \ RequestsIn(Kept(q, S))
         /\ RequestsIn(Kept(q, S)) \subseteq RequestsIn(q)
         /\ Distinct(Kept(q, R \ S)) /\ Distinct(Kept(q, S))
<1>1. Members(q) \subseteq R
  BY MembersType
<1> DEFINE kept == Kept(q, S)
           left == Kept(q, R \ S)
<1>2. /\ RequestsIn(kept) = {w.request : w \in Members(q) \cap S}
      /\ RequestsIn(left) = {w.request : w \in Members(q) \cap (R \ S)}
      /\ RequestsIn(q) = {w.request : w \in Members(q)}
  BY KeptRequests, RequestsAreMembers
<1>3. \A v, w \in Members(q) : v.request = w.request => v = w
  BY DEF Members, Distinct
<1>4. Distinct(left) /\ Distinct(kept)
  BY KeptProperties
<1> HIDE DEF kept, left
<1>5. RequestsIn(kept) \subseteq RequestsIn(q)
  BY <1>2
<1>6. ASSUME NEW w \in Members(q)
      PROVE  w.request \in RequestsIn(left) <=> w.request \notin RequestsIn(kept)
  BY <1>1, <1>2, <1>3
<1>7. RequestsIn(left) = RequestsIn(q) \ RequestsIn(kept)
  BY <1>2, <1>6
<1> QED
  BY <1>4, <1>5, <1>7 DEF kept, left

LEMMA DropFiles ==
  ASSUME NEW s, Good(s), NEW u \in Uris, NEW d, NEW rejected,
         Drops(s, d, u, rejected)
  PROVE  Files(s, d)
<1> SUFFICES ASSUME NEW X, Filed(s, X) PROVE Filed(d, X)
  BY DEF Files
<1> DEFINE a == TokenBox(u)
           q == s.deferredTokens[u]
           k == Kept(q, TokenWaiters \ rejected)
           R == RequestsIn(Kept(q, rejected))
<1>1. /\ s.deferredTokens \in [Uris -> Seq(TokenWaiters)] /\ q \in Seq(TokenWaiters)
      /\ d.deferredTokens = [s.deferredTokens EXCEPT ![u] = k]
      /\ d.deferredRequests = s.deferredRequests /\ d.replays = s.replays
      /\ Replied(s, d, R, "error")
  BY DEF Drops, Keeps, Fields, Good, MainTypes
<1>2. Distinct(q) /\ RequestsIn(q) \in SUBSET Requests
  BY DEF Filed, Ordered, Good, Held, Asked
<1>3. /\ RequestsIn(k) = RequestsIn(q) \ R /\ R \subseteq RequestsIn(q)
      /\ Distinct(k)
  BY <1>1, <1>2, KeptSplit
<1> HIDE DEF R, k, q
<1>4. /\ \A v \in Uris : d.deferredTokens[v] = IF v = u THEN k
                                               ELSE s.deferredTokens[v]
  BY <1>1
<1>5. a \in Boxes /\ Box(s, a) = RequestsIn(q) /\ Box(d, a) = RequestsIn(k)
  BY <1>4, BoxIs, BoxNames DEF q
<1>6. \A b \in Boxes : b # a => Box(d, b) = Box(s, b)
  <2> SUFFICES ASSUME NEW b \in Boxes, b # a PROVE Box(d, b) = Box(s, b)
    OBVIOUS
  <2>1. CASE b = ReplayBox
    BY <1>1, <2>1, BoxIs, BoxNames
  <2>2. ASSUME NEW v \in Uris, b = RequestBox(v)
        PROVE  Box(d, b) = Box(s, b)
    BY <1>1, <2>2, BoxIs, BoxNames
  <2>3. ASSUME NEW v \in Uris, b = TokenBox(v)
        PROVE  Box(d, b) = Box(s, b)
    BY <1>4, <2>3, BoxIs, BoxNames
  <2> QED
    BY <2>1, <2>2, <2>3, BoxIs, BoxNames
<1>7. Ordered(d)
  BY <1>1, <1>3, <1>4 DEF Filed, Ordered
<1>8. R \in SUBSET Requests /\ R \subseteq Box(s, a) /\ Box(d, a) = Box(s, a) \ R
  BY <1>2, <1>3, <1>5
<1> HIDE DEF a
<1> QED
  BY <1>1, <1>5, <1>6, <1>7, <1>8, BoxFiles

(* The dispatcher's tail answers every deferred token request at once.     *)
LEMMA ObserveFiles ==
  ASSUME NEW s, Good(s), NEW g, NEW t, Observes(s, t, g)
  PROVE  Files(s, t)
<1> SUFFICES ASSUME NEW X, Filed(s, X) PROVE Filed(t, X)
  BY DEF Files
<1> DEFINE R == Waiting(s)
<1>1. /\ t.deferredTokens = [u \in Uris |-> << >>]
      /\ t.deferredRequests = s.deferredRequests /\ t.replays = s.replays
      /\ Replied(s, t, R, "error")
  BY DEF Observes, Keeps, Fields, Unsettled
<1>2. R \subseteq Requests
  BY DEF Good, Held, Asked, Waiting
<1>3. \A r \in R : \E u \in Uris : TokenBox(u) \in Stored(s, r)
  BY BoxIs, BoxNames DEF Waiting, Stored
<1>4. \A u \in Uris : RequestsIn(s.deferredTokens[u]) \subseteq R
  BY DEF Waiting
<1> HIDE DEF R
<1>5. \A r \in R : r \notin X
  BY <1>2, <1>3 DEF Filed, Apart
<1>6. Unfiles(s, t, R)
  <2> SUFFICES ASSUME NEW b \in Boxes
               PROVE  /\ Box(t, b) \subseteq Box(s, b)
                      /\ \A r \in Requests : Common(s, r) =>
                           (r \in Box(t, b) <=> r \in Box(s, b) /\ r \notin R)
    BY DEF Unfiles
  <2>1. ASSUME NEW v \in Uris, b = TokenBox(v)
        PROVE  Box(t, b) = {} /\ Box(s, b) \subseteq R
    BY <1>1, <1>4, <2>1, BoxIs, BoxNames, EmptyOrdered
  <2>2. ASSUME \A v \in Uris : b # TokenBox(v)
        PROVE  Box(t, b) = Box(s, b) /\ \A r \in R : r \notin Box(s, b)
    <3>1. \A r \in R : r \notin Box(s, b)
      BY <1>2, <1>3, <2>2 DEF Filed, Apart, Stored
    <3>2. b = ReplayBox \/ \E v \in Uris : b = RequestBox(v)
      BY <2>2, BoxIs, BoxNames
    <3>3. Box(t, b) = Box(s, b)
      BY <1>1, <3>2, BoxIs, BoxNames
    <3> QED
      BY <3>1, <3>3
  <2> QED
    BY <2>1, <2>2
<1>7. Ordered(t)
  BY <1>1, EmptyOrdered DEF Filed, Ordered
<1>8. Filed(t, X \ R)
  BY <1>1, <1>2, <1>3, <1>6, <1>7, AnswerFiles
<1>9. X \ R = X
  BY <1>5
<1> QED
  BY <1>8, <1>9

LEMMA FrameFiles ==
  ASSUME NEW s, NEW t, NEW F, Keeps(s, t, F),
         F \cap {"requests", "deferredRequests", "deferredTokens", "replays"} = {}
  PROVE  Files(s, t)
<1>1. SameFiles(s, t)
  BY DEF Keeps, Fields, SameFiles
<1> QED
  BY <1>1, SameFilesKept

LEMMA AdmitForegroundFiles ==
  ASSUME NEW s, Good(s), NEW u \in Uris, s.documents[u].revision # 0
  PROVE  Files(s, AdmitForeground(s, u).s)
<1> DEFINE o == AdmitForeground(s, u)
<1>1. ForegroundAdmitted(s, o, u)
  BY AdmitForegroundGood
<1> HIDE DEF o
<1>2. Keeps(s, o.s, {"table", "documents"})
  BY <1>1 DEF ForegroundAdmitted, StartsTask, Keeps
<1>3. Files(s, o.s)
  BY <1>2, FrameFiles
<1> QED
  BY <1>3 DEF o

LEMMA AdmitSemanticFiles ==
  ASSUME NEW s, Good(s), NEW u \in Uris, s.documents[u].revision # 0
  PROVE  Files(s, AdmitSemantic(s, u).s)
<1> DEFINE o == AdmitSemantic(s, u)
           class == "semantic"
           t == AdmitAndTake(s, class, u)
<1>1. AdmitsTask(s, t, class, u)
  BY TakeGood DEF Classes
<1>2. CASE CanAdmit(s, class, u)
  <2>1. o.s = t
    BY <1>2 DEF AdmitSemantic, Start, Outcome
  <2> HIDE DEF t, o
  <2>2. Keeps(s, t, {"table"})
    BY <1>1 DEF AdmitsTask
  <2>3. Files(s, o.s)
    BY <2>1, <2>2, FrameFiles
  <2> QED
    BY <2>3 DEF o
<1>3. CASE ~ CanAdmit(s, class, u)
  <2> DEFINE q == [t EXCEPT !.documents[u].rejected = TRUE]
             d == DiscardDeferredRequests(q, u)
             e == RejectDeferredTokens(d, u, {s.documents[u].revision}, Nat)
  <2>1. o.s = e
    BY <1>3 DEF AdmitSemantic, Outcome, Document
  <2> HIDE DEF t, o
  <2>2. Good(t) /\ Keeps(s, t, {"table"})
    BY <1>1 DEF AdmitsTask
  <2>3. q = [t EXCEPT !.documents[u].rejected = TRUE]
    OBVIOUS
  <2> HIDE DEF q
  <2>4. Good(q) /\ Keeps(t, q, {"documents"})
    BY <2>2, <2>3, OverloadGood
  <2>5. Discards(q, d, u)
    BY <2>4, DiscardGood
  <2> HIDE DEF d
  <2>6. Good(d)
    BY <2>5 DEF Discards
  <2>7. Drops(d, e, u, Rejects({s.documents[u].revision}, Nat))
    BY <2>6, RejectGood
  <2> HIDE DEF e
  <2>8. Files(s, t) /\ Files(t, q)
    BY <2>2, <2>4, FrameFiles
  <2>9. Files(q, d) /\ Files(d, e)
    BY <2>4, <2>5, <2>6, <2>7, DiscardFiles, DropFiles
  <2>10. Files(s, e)
    BY <2>8, <2>9, FilesTrans
  <2> QED
    BY <2>1, <2>10 DEF o
<1> QED
  BY <1>2, <1>3

LEMMA AdmitRichFiles ==
  ASSUME NEW s, Good(s), NEW u \in Uris, NEW g \in Nat
  PROVE  Files(s, AdmitRich(s, u, g).s)
<1> DEFINE o == AdmitRich(s, u, g)
           class == "rich"
           t == AdmitAndTake(s, class, u)
<1>1. RichAdmitted(s, o, u, g)
  BY AdmitRichGood
<1>2. CASE ~ (IsOpen(s, u) /\ NeedsRich(s, u, g) /\ ~ CanAdmit(s, class, u))
  <2>1. o.s = s \/ Keeps(s, o.s, {"table", "documents"})
    <3>1. CASE ~ (IsOpen(s, u) /\ NeedsRich(s, u, g))
      BY <3>1 DEF AdmitRich, Outcome
    <3>2. CASE IsOpen(s, u) /\ NeedsRich(s, u, g) /\ CanAdmit(s, class, u)
      <4> DEFINE c == CancelPending(t, u)
                 id == Taken(s, class, u)
                 p == [revision |-> Document(s, u).revision, generation |-> g,
                       sequence |-> id.sequence]
      <4>1. o.s = [c EXCEPT !.documents[u].pending = p]
        BY <3>2 DEF AdmitRich, Start, Outcome
      <4>2. AdmitsTask(s, t, class, u)
        BY <3>2, TakeGood DEF Classes, IsOpen, Document
      <4> HIDE DEF t, o, p
      <4>3. Good(t) /\ Keeps(s, t, {"table"})
        BY <4>2 DEF AdmitsTask
      <4>4. Stops(t, c, u)
        BY <4>3, CancelGood
      <4> HIDE DEF c
      <4>5. Good(c) /\ Keeps(t, c, {"table", "documents"}) /\ Shape(c)
        BY <4>4 DEF Stops, Good, MainTypes
      <4>6. Keeps(c, o.s, {"documents"})
        BY <4>1, <4>5 DEF Shape, Keeps, Fields
      <4> QED
        BY <4>3, <4>5, <4>6 DEF Keeps
    <3> QED
      BY <1>2, <3>1, <3>2
  <2> HIDE DEF o
  <2>2. Files(s, s)
    BY DEF Files
  <2>3. Files(s, o.s)
    BY <2>1, <2>2, FrameFiles
  <2> QED
    BY <2>3 DEF o
<1>3. CASE IsOpen(s, u) /\ NeedsRich(s, u, g) /\ ~ CanAdmit(s, class, u)
  <2> DEFINE e == RejectDeferredTokens(t, u, {s.documents[u].revision}, {g})
  <2>1. o.s = e
    BY <1>3 DEF AdmitRich, Outcome, Document
  <2>2. AdmitsTask(s, t, class, u)
    BY <1>3, TakeGood DEF Classes, IsOpen, Document
  <2> HIDE DEF t, o
  <2>3. Good(t) /\ Keeps(s, t, {"table"})
    BY <2>2 DEF AdmitsTask
  <2>4. Drops(t, e, u, Rejects({s.documents[u].revision}, {g}))
    BY <2>3, RejectGood
  <2> HIDE DEF e
  <2>5. Files(s, t) /\ Files(t, e)
    BY <2>3, <2>4, FrameFiles, DropFiles
  <2>6. Files(s, e)
    BY <2>5, FilesTrans
  <2> QED
    BY <2>1, <2>6 DEF o
<1> QED
  BY <1>2, <1>3

LEMMA RefreshFiles ==
  ASSUME NEW s, Good(s)
  PROVE  Files(s, RequestRefresh(s))
<1> DEFINE t == RequestRefresh(s)
<1>1. Refreshes(s, t)
  BY RefreshGood
<1> HIDE DEF t
<1>2. Files(s, t)
  BY <1>1, FrameFiles DEF Refreshes
<1> QED
  BY <1>2 DEF t

LEMMA ObservedFiles ==
  ASSUME NEW s, Good(s), generation \in Nat
  PROVE  Files(s, Observe(s, generation))
<1> DEFINE g == generation
           t == Observe(s, g)
           x == [Answer(s, Waiting(s), "error") EXCEPT
                !.lastGeneration = g,
                !.deferredTokens = [u \in Uris |-> << >>],
                !.table.cancelled = @ \union OutdatedSequences(s, g),
                !.documents = [u \in Uris |-> Settled(s, u, g)]]
<1>1. Shape(s)
  BY DEF Good, MainTypes
<1>2. CASE g = s.lastGeneration
  <2>1. t = s
    BY <1>2 DEF Observe
  <2> QED
    BY <2>1 DEF Files
<1>3. CASE g # s.lastGeneration /\ \A u \in Uris : ~ IsOpen(s, u)
  <2>1. t = [s EXCEPT !.lastGeneration = g]
    BY <1>3 DEF Observe
  <2> HIDE DEF t
  <2>2. Keeps(s, t, {"lastGeneration"})
    BY <1>1, <2>1 DEF Shape, Keeps, Fields
  <2>3. Files(s, t)
    BY <2>2, FrameFiles
  <2> QED
    BY <2>3 DEF t
<1>4. CASE g # s.lastGeneration /\ ~ \A u \in Uris : ~ IsOpen(s, u)
  <2>1. t = RequestRefresh(x)
    BY <1>4 DEF Observe, Waiting, OutdatedSequences, Outdated, Settled
  <2>2. Observes(s, x, g)
    BY ObserveGood
  <2> HIDE DEF x, t
  <2>3. Good(x) /\ Files(s, x)
    BY <2>2, ObserveFiles DEF Observes
  <2>4. Files(x, t)
    BY <2>1, <2>3, RefreshFiles
  <2>5. Files(s, t)
    BY <2>3, <2>4, FilesTrans
  <2> QED
    BY <2>5 DEF t
<1> QED
  BY <1>2, <1>3, <1>4

(* The request in hand is put into a box, or answered; a debug request may *)
(* also be handed to the job that captures its result.                     *)
LEMMA PlaceFiles ==
  ASSUME NEW s, NEW r \in Requests, Filed(s, {r}), NEW t, t.requests = s.requests,
         Ordered(t), NEW a \in Boxes, Box(t, a) = Box(s, a) \union {r},
         \A b \in Boxes : b # a => Box(t, b) = Box(s, b)
  PROVE  Filed(t, {})
<1>1. Stored(t, r) = {a}
  BY DEF Filed, Apart, Stored
<1>2. \A q \in Requests : q # r => Stored(t, q) = Stored(s, q)
  BY DEF Stored
<1>3. Apart(t, {})
  BY <1>1, <1>2 DEF Filed, Apart
<1>4. Owed(t, {})
  <2> SUFFICES ASSUME NEW q \in Requests, Common(s, q)
               PROVE  /\ s.requests[q].answers =
                           IF s.requests[q].state \in {"result", "error"} THEN 1 ELSE 0
                      /\ s.requests[q].state = "waiting" <=> Stored(t, q) # {}
    BY DEF Owed, Common
  <2>1. /\ s.requests[q].answers =
             IF s.requests[q].state \in {"result", "error"} THEN 1 ELSE 0
        /\ s.requests[q].state = "waiting" <=> q \in {r} \/ Stored(s, q) # {}
    BY DEF Filed, Owed
  <2>2. q = r => Stored(t, q) # {}
    BY <1>1
  <2> QED
    BY <1>2, <2>1, <2>2
<1> QED
  BY <1>3, <1>4 DEF Filed

LEMMA ForgetFiles ==
  ASSUME NEW s, NEW r, Filed(s, {r}), ~ Common(s, r)
  PROVE  Filed(s, {})
<1>1. Apart(s, {})
  BY DEF Filed, Apart
<1>2. Owed(s, {})
  BY DEF Filed, Owed
<1> QED
  BY <1>1, <1>2 DEF Filed

LEMMA SameOrdered ==
  ASSUME NEW s, Ordered(s), NEW t, t.deferredRequests = s.deferredRequests,
         t.deferredTokens = s.deferredTokens, t.replays = s.replays
  PROVE  Ordered(t) /\ \A b : Box(t, b) = Box(s, b)
BY DEF Ordered, Box

LEMMA AnsweredFiles ==
  ASSUME NEW s, Good(s), NEW r \in Asked(s), Filed(s, {r}),
         NEW outcome \in {"result", "error"}
  PROVE  Filed(Answer(s, {r}, outcome), {})
<1> DEFINE a == Answer(s, {r}, outcome)
<1>1. r \in Requests /\ {r} \cap Requests \subseteq Asked(s)
  BY DEF Asked
<1>2. Answers(s, a, {r}, outcome)
  BY <1>1, AnswerGood
<1> HIDE DEF a
<1>3. /\ Replied(s, a, {r}, outcome) /\ Ordered(a)
      /\ \A b : Box(a, b) = Box(s, b)
  BY <1>2, SameOrdered DEF Answers, Keeps, Fields, Filed
<1>4. Unfiles(s, a, {r})
  BY <1>1, <1>3 DEF Unfiles, Filed, Apart, Stored
<1>5. Filed(a, {r} \ {r})
  BY <1>3, <1>4, AnswerFiles
<1>6. {r} \ {r} = {}
  OBVIOUS
<1> QED
  BY <1>5, <1>6 DEF a

LEMMA AppendRequests ==
  ASSUME NEW R, NEW q \in Seq(R), NEW w \in R, Distinct(q),
         w.request \notin RequestsIn(q)
  PROVE  /\ Distinct(Append(q, w))
         /\ RequestsIn(Append(q, w)) = RequestsIn(q) \union {w.request}
<1> DEFINE p == Append(q, w)
<1>1. /\ RequestsIn(p) = {x.request : x \in Members(p)}
      /\ RequestsIn(q) = {x.request : x \in Members(q)}
  BY RequestsAreMembers
<1>2. Members(p) = Members(q) \union {w}
  BY AppendMembers
<1>3. Distinct(p)
  BY <1>1, AppendDistinct
<1> HIDE DEF p
<1> QED
  BY <1>1, <1>2, <1>3 DEF p

LEMMA DeferRequestFiles ==
  ASSUME NEW s, Good(s), NEW r \in Asked(s), Filed(s, {r})
  PROVE  Filed(DeferRequest(s, r), {})
<1> DEFINE u == UriOf(s, r)
           t == DeferRequest(s, r)
           w == [request |-> r, revision |-> s.documents[u].revision]
           q == s.deferredRequests[u]
           p == Append(q, w)
           a == RequestBox(u)
<1>1. /\ Shape(s) /\ u \in Uris /\ r \in Requests /\ s.documents[u].revision \in Nat
      /\ s.deferredRequests \in [Uris -> Seq(Waiters)] /\ q \in Seq(Waiters)
  BY DEF Asked, UriOf, Good, MainTypes, Documents
<1>2. CASE t = Answer(s, {r}, "error")
  BY <1>2, AnsweredFiles
<1>3. CASE t = [s EXCEPT !.deferredRequests[u] = p]
  <2>1. w \in Waiters /\ w.request = r
    BY <1>1 DEF Waiters
  <2>2. a \in Boxes /\ Box(s, a) = RequestsIn(q)
    BY <1>1, BoxIs, BoxNames
  <2> HIDE DEF w, t, u, q, a
  <2>3. Distinct(q) /\ r \notin RequestsIn(q)
    BY <1>1, <2>2 DEF Filed, Ordered, Apart, Stored, q
  <2>4. Distinct(p) /\ RequestsIn(p) = RequestsIn(q) \union {r}
    BY <1>1, <2>1, <2>3, AppendRequests
  <2> HIDE DEF p
  <2>5. /\ t.deferredRequests = [s.deferredRequests EXCEPT ![u] = p]
        /\ t.deferredTokens = s.deferredTokens /\ t.replays = s.replays
        /\ t.requests = s.requests
    BY <1>1, <1>3 DEF Shape, Fields
  <2>6. \A v \in Uris : t.deferredRequests[v] = IF v = u THEN p
                                                ELSE s.deferredRequests[v]
    BY <1>1, <2>5
  <2>7. Ordered(t)
    BY <2>4, <2>5, <2>6 DEF Filed, Ordered
  <2>8. Box(t, a) = RequestsIn(p)
    BY <1>1, <2>6, BoxIs DEF a
  <2>9. \A b \in Boxes : b # a => Box(t, b) = Box(s, b)
    <3> SUFFICES ASSUME NEW b \in Boxes, b # a PROVE Box(t, b) = Box(s, b)
      OBVIOUS
    <3>1. CASE b = ReplayBox
      BY <2>5, <3>1, BoxIs
    <3>2. ASSUME NEW v \in Uris, b = RequestBox(v) PROVE Box(t, b) = Box(s, b)
      BY <2>6, <3>2, BoxIs DEF a
    <3>3. ASSUME NEW v \in Uris, b = TokenBox(v) PROVE Box(t, b) = Box(s, b)
      BY <2>5, <3>3, BoxIs
    <3> QED
      BY <3>1, <3>2, <3>3, BoxNames
  <2>10. Box(t, a) = Box(s, a) \union {r}
    BY <2>2, <2>4, <2>8
  <2>11. Filed(t, {})
    BY <1>1, <2>2, <2>5, <2>7, <2>9, <2>10, PlaceFiles
  <2> QED
    BY <2>11 DEF t
<1> QED
  BY <1>2, <1>3 DEF DeferRequest, Document

LEMMA DeferTokensFiles ==
  ASSUME NEW s, Good(s), NEW r \in Asked(s), Filed(s, {r}), NEW g \in Nat
  PROVE  Filed(DeferTokens(s, r, g), {})
<1> DEFINE u == UriOf(s, r)
           t == DeferTokens(s, r, g)
           w == [request |-> r, revision |-> s.documents[u].revision,
                 generation |-> g]
           q == s.deferredTokens[u]
           p == Append(q, w)
           a == TokenBox(u)
<1>1. /\ Shape(s) /\ u \in Uris /\ r \in Requests /\ s.documents[u].revision \in Nat
      /\ s.deferredTokens \in [Uris -> Seq(TokenWaiters)] /\ q \in Seq(TokenWaiters)
  BY DEF Asked, UriOf, Good, MainTypes, Documents
<1>2. CASE t = Answer(s, {r}, "error")
  BY <1>2, AnsweredFiles
<1>3. CASE t = [s EXCEPT !.deferredTokens[u] = p]
  <2>1. w \in TokenWaiters /\ w.request = r
    BY <1>1 DEF TokenWaiters
  <2>2. a \in Boxes /\ Box(s, a) = RequestsIn(q)
    BY <1>1, BoxIs, BoxNames
  <2> HIDE DEF w, t, u, q, a
  <2>3. Distinct(q) /\ r \notin RequestsIn(q)
    BY <1>1, <2>2 DEF Filed, Ordered, Apart, Stored, q
  <2>4. Distinct(p) /\ RequestsIn(p) = RequestsIn(q) \union {r}
    BY <1>1, <2>1, <2>3, AppendRequests
  <2> HIDE DEF p
  <2>5. /\ t.deferredTokens = [s.deferredTokens EXCEPT ![u] = p]
        /\ t.deferredRequests = s.deferredRequests /\ t.replays = s.replays
        /\ t.requests = s.requests
    BY <1>1, <1>3 DEF Shape, Fields
  <2>6. \A v \in Uris : t.deferredTokens[v] = IF v = u THEN p
                                              ELSE s.deferredTokens[v]
    BY <1>1, <2>5
  <2>7. Ordered(t)
    BY <2>4, <2>5, <2>6 DEF Filed, Ordered
  <2>8. Box(t, a) = RequestsIn(p)
    BY <1>1, <2>6, BoxIs DEF a
  <2>9. \A b \in Boxes : b # a => Box(t, b) = Box(s, b)
    <3> SUFFICES ASSUME NEW b \in Boxes, b # a PROVE Box(t, b) = Box(s, b)
      OBVIOUS
    <3>1. CASE b = ReplayBox
      BY <2>5, <3>1, BoxIs
    <3>2. ASSUME NEW v \in Uris, b = RequestBox(v) PROVE Box(t, b) = Box(s, b)
      BY <2>5, <3>2, BoxIs
    <3>3. ASSUME NEW v \in Uris, b = TokenBox(v) PROVE Box(t, b) = Box(s, b)
      BY <2>6, <3>3, BoxIs DEF a
    <3> QED
      BY <3>1, <3>2, <3>3, BoxNames
  <2>10. Box(t, a) = Box(s, a) \union {r}
    BY <2>2, <2>4, <2>8
  <2>11. Filed(t, {})
    BY <1>1, <2>2, <2>5, <2>7, <2>9, <2>10, PlaceFiles
  <2> QED
    BY <2>11 DEF t
<1> QED
  BY <1>2, <1>3 DEF DeferTokens, Document

LEMMA SelectedFiles ==
  ASSUME NEW s, Good(s), NEW u \in Uris
  PROVE  Files(s, Selected(s, u))
<1> DEFINE t == Selected(s, u)
<1>1. Shape(s)
  BY DEF Good, MainTypes
<1>2. t = s \/ t = [s EXCEPT !.documents[u].overlay = NoOverlay]
  BY DEF Selected
<1> HIDE DEF t
<1>3. Keeps(s, t, {"documents"})
  BY <1>1, <1>2 DEF Shape, Keeps, Fields
<1>4. Files(s, t)
  BY <1>3, FrameFiles
<1> QED
  BY <1>4 DEF t

(* The dispatchers: the request in hand is answered, deferred, or handed   *)
(* to a job.                                                               *)
LEMMA ResultFiles ==
  ASSUME NEW s, Good(s), NEW r, Asks(s, r), Filed(s, {r}), generation \in Nat
  PROVE  Filed(Observe(Answer(s, {r}, "result"), generation), {})
<1> DEFINE a == Answer(s, {r}, "result")
<1>1. Good(a)
  BY AnswerResult DEF Calm
<1>2. Filed(a, {})
  BY AnsweredFiles DEF Asks
<1> HIDE DEF a
<1>3. Files(a, Observe(a, generation))
  BY <1>1, ObservedFiles
<1> QED
  BY <1>2, <1>3 DEF Files, a

LEMMA CompletionFiles ==
  ASSUME NEW s, Good(s), NEW r, Asks(s, r), Filed(s, {r}), generation \in Nat
  PROVE  Filed(DispatchCompletion(s, r).s, {})
<1> DEFINE t == Observe(Answer(s, {r}, "result"), generation)
           w == DeferRequest(s, r)
<1>1. Filed(t, {}) /\ Filed(w, {})
  BY ResultFiles, DeferRequestFiles DEF Asks
<1>2. DispatchCompletion(s, r).s = t \/ DispatchCompletion(s, r).s = w
  BY DEF DispatchCompletion, Outcome
<1> HIDE DEF t, w
<1> QED
  BY <1>1, <1>2

LEMMA DebugFiles ==
  ASSUME NEW s, Good(s), NEW r, Asks(s, r), s.requests[r].kind = "debug",
         Filed(s, {r}), generation \in Nat
  PROVE  Filed(DispatchDebug(s, r).s, {})
<1> DEFINE u == UriOf(s, r)
           o == DispatchDebug(s, r)
           x == AdmitAndTake(s, "rich", u)
           t == Answer(x, {r}, "error")
<1>1. u \in Uris /\ r \in Requests /\ "rich" \in Classes
  BY DEF Asks, Asked, UriOf, Classes
<1>2. CASE AwaitsAnalysis(s, u)
  <2>1. o.s = DeferRequest(s, r)
    BY <1>2 DEF DispatchDebug, Outcome
  <2>2. Filed(DeferRequest(s, r), {})
    BY DeferRequestFiles DEF Asks
  <2> QED
    BY <2>1, <2>2
<1>3. CASE ~ AwaitsAnalysis(s, u) /\ ~ IsOpen(s, u)
  <2>1. o.s = Observe(Answer(s, {r}, "result"), generation)
    BY <1>3 DEF DispatchDebug, Outcome
  <2> QED
    BY <2>1, ResultFiles
<1>4. CASE ~ AwaitsAnalysis(s, u) /\ IsOpen(s, u)
  <2>1. o.s = x \/ o.s = t
    BY <1>4 DEF DispatchDebug, Start, Outcome
  <2>2. s.documents[u].revision # 0
    BY <1>4 DEF IsOpen, Document
  <2>3. AdmitsTask(s, x, "rich", u)
    BY <1>1, <2>2, TakeGood
  <2> HIDE DEF x, o
  <2>4. Good(x) /\ Keeps(s, x, {"table"})
    BY <2>3 DEF AdmitsTask
  <2>a. x.requests = s.requests
    BY <2>4 DEF Keeps, Fields
  <2>5. Files(s, x) /\ x.requests = s.requests
    BY <2>4, <2>a, FrameFiles
  <2>6. Filed(x, {r}) /\ r \in Asked(x) /\ ~ Common(x, r)
    BY <2>5 DEF Files, Asks, Asked, Common
  <2>7. Filed(t, {})
    BY <2>4, <2>6, AnsweredFiles
  <2> HIDE DEF t
  <2>8. Filed(x, {})
    BY <2>6, ForgetFiles
  <2> QED
    BY <2>1, <2>7, <2>8 DEF o
<1> QED
  BY <1>2, <1>3, <1>4

LEMMA TokensFiles ==
  ASSUME NEW s, Good(s), NEW r, Asks(s, r), Filed(s, {r}), generation \in Nat
  PROVE  Filed(DispatchTokens(s, r).s, {})
<1> DEFINE u == UriOf(s, r)
           d == s.documents[u]
           x == Selected(s, u)
           shows == [revision |-> d.revision, generation |-> generation,
                     told |-> FALSE]
           work == IF d.analysis THEN AdmitRich(x, u, generation)
                   ELSE Outcome(x, jobs)
           o == DispatchTokens(s, r)
           a == Answer(x, {r}, "result")
           b == [a EXCEPT !.shown[u] = shows]
           t == Observe(b, generation)
           w == work.s
           e == Answer(w, {r}, "error")
           f == DeferTokens(w, r, generation)
<1>1. u \in Uris /\ r \in Requests /\ d \in Documents /\ d.revision \in Nat
  BY DEF Asks, Asked, UriOf, Good, MainTypes, Documents
<1>2. \/ o.s = Observe(Answer(s, {r}, "result"), generation)
      \/ o.s = t
      \/ o.s = e
      \/ o.s = f
  BY DEF DispatchTokens, Outcome, Document
<1>3. Quiet(s, x) /\ Files(s, x)
  BY <1>1, SelectedQuiet, SelectedFiles
<1>4. shows \in Tokens /\ shows.generation = generation
  BY <1>1 DEF Tokens
<1> HIDE DEF x, shows, o
<1>5. Good(x) /\ Asks(x, r) /\ Filed(x, {r}) /\ Quiet(x, x)
  BY <1>3, AsksKept, QuietSelf DEF Quiet, Calm, Files
<1>6. Filed(t, {})
  <2>1. Good(a) /\ Filed(a, {})
    BY <1>5, AnswerResult, AnsweredFiles DEF Calm, Asks
  <2> HIDE DEF a
  <2>2. Shape(a) /\ a.shown \in [Uris -> Tokens]
    BY <2>1 DEF Good, MainTypes
  <2>3. /\ Shape(b) /\ Keeps(a, b, {"shown"})
        /\ b.shown = [a.shown EXCEPT ![u] = shows]
    BY <2>2 DEF Shape, Keeps, Fields
  <2> HIDE DEF b
  <2>4. b.shown \in [Uris -> Tokens]
    BY <1>4, <2>2, <2>3
  <2>5. Good(b)
    <3>1. MainTypes(b)
      BY <2>1, <2>3, <2>4 DEF Good, MainTypes, Keeps, Fields
    <3>2. Held(b) /\ PendingIssued(b)
      BY <2>1, <2>3 DEF Good, Held, PendingIssued, Asked, Keeps, Fields
    <3> QED
      BY <3>1, <3>2 DEF Good
  <2>6. Files(a, b) /\ Files(b, t)
    BY <2>3, <2>5, FrameFiles, ObservedFiles
  <2> QED
    BY <2>1, <2>6 DEF Files
<1>7. Good(w) /\ Asks(w, r) /\ Filed(w, {r})
  <2>1. Quiet(x, w) /\ Files(x, w)
    <3>1. CASE d.analysis
      BY <1>1, <1>5, <3>1, AdmitRichQuiet, AdmitRichFiles
    <3>2. CASE ~ d.analysis
      <4>1. w = x
        BY <3>2, OutcomeParts
      <4> QED
        BY <1>5, <4>1 DEF Files
    <3> QED
      BY <3>1, <3>2
  <2> HIDE DEF w
  <2>2. Calm(x, w)
    BY <2>1 DEF Quiet
  <2> QED
    BY <1>5, <2>1, <2>2, AsksKept DEF Calm, Files
<1> HIDE DEF w
<1>8. Filed(e, {}) /\ Filed(f, {})
  BY <1>7, AnsweredFiles, DeferTokensFiles DEF Asks
<1>9. Filed(Observe(Answer(s, {r}, "result"), generation), {})
  BY ResultFiles
<1> HIDE DEF e, f, t
<1> QED
  BY <1>2, <1>6, <1>8, <1>9 DEF o

LEMMA DispatchFiles ==
  ASSUME NEW s, Good(s), NEW r, Asks(s, r), Filed(s, {r}), generation \in Nat
  PROVE  Filed(Dispatch(s, r).s, {})
<1>1. s.requests[r].kind \in {"completion", "tokens", "debug"}
  BY DEF Asks, Asked, Classifications
<1>2. CASE s.requests[r].kind = "completion"
  <2>1. Dispatch(s, r) = DispatchCompletion(s, r)
    BY <1>2 DEF Dispatch
  <2> QED
    BY <2>1, CompletionFiles
<1>3. CASE s.requests[r].kind = "debug"
  <2>1. Dispatch(s, r) = DispatchDebug(s, r)
    BY <1>3 DEF Dispatch
  <2> QED
    BY <1>3, <2>1, DebugFiles
<1>4. CASE s.requests[r].kind = "tokens"
  <2>1. Dispatch(s, r) = DispatchTokens(s, r)
    BY <1>4 DEF Dispatch
  <2> QED
    BY <2>1, TokensFiles
<1> QED
  BY <1>1, <1>2, <1>3, <1>4

(* Worker events.                                                          *)
LEMMA MoveFiles ==
  ASSUME NEW s, NEW X, Filed(s, X), NEW t, t.requests = s.requests, Ordered(t),
         NEW a \in Boxes, NEW b \in Boxes, a # b,
         NEW R, R \subseteq Box(s, a),
         Box(t, a) = Box(s, a) \ R, Box(t, b) = Box(s, b) \union R,
         \A c \in Boxes : c # a /\ c # b => Box(t, c) = Box(s, c)
  PROVE  Filed(t, X)
<1>1. \A r \in Requests : r \in R => Stored(s, r) = {a}
  BY DEF Filed, Apart, Stored
<1>2. \A r \in Requests : r \in R => Stored(t, r) = {b}
  BY <1>1 DEF Stored
<1>3. \A r \in Requests : r \notin R => Stored(t, r) = Stored(s, r)
  BY DEF Stored
<1>4. Apart(t, X)
  BY <1>1, <1>2, <1>3 DEF Filed, Apart
<1>5. Owed(t, X)
  <2>1. \A r \in Requests : Stored(t, r) # {} <=> Stored(s, r) # {}
    BY <1>1, <1>2, <1>3
  <2> QED
    BY <2>1 DEF Filed, Owed, Common
<1> QED
  BY <1>4, <1>5 DEF Filed

LEMMA ReplayedOnce ==
  ASSUME NEW R, NEW q \in Seq(R), \A w \in R : w.request \in Requests, Distinct(q)
  PROVE  Once(Replayed(q))
<1>1. Len(q) \in Nat /\ \A i \in 1 .. Len(q) : q[i] \in R
  BY LenProperties, ElementOfSeq
<1>2. Replayed(q) \in [1 .. Len(q) -> Requests]
  BY <1>1 DEF Replayed
<1>3. Replayed(q) \in Seq(Requests)
  BY ReplayedType
<1>4. Len(Replayed(q)) = Len(q)
  <2>1. /\ DOMAIN Replayed(q) = 1 .. Len(q) /\ Len(Replayed(q)) \in Nat
        /\ DOMAIN Replayed(q) = 1 .. Len(Replayed(q))
    BY <1>2, <1>3, LenProperties
  <2> QED
    BY <1>1, <2>1
<1>5. \A i \in 1 .. Len(q) : Replayed(q)[i] = q[i].request
  BY DEF Replayed
<1> HIDE DEF Replayed
<1> QED
  BY <1>4, <1>5 DEF Once, Distinct

LEMMA CompletedFiles ==
  ASSUME NEW s, Good(s), NEW job
  PROVE  Files(s, Completed(s, job))
<1> DEFINE t == Completed(s, job)
<1>1. Keeps(s, t, {"table"})
  BY CompletedKeeps
<1> HIDE DEF t
<1>2. Files(s, t)
  BY <1>1, FrameFiles
<1> QED
  BY <1>2 DEF t

LEMMA ForegroundReadyFiles ==
  ASSUME NEW s, Consistent(s), NEW job, GoodJob(s, job)
  PROVE  Files(s, ForegroundReady(s, job).s)
<1> DEFINE u == job.task.uri
           c == Completed(s, job)
           o == ForegroundReady(s, job)
<1>0. Good(s) /\ job.task \in Identities /\ u \in Uris /\ job.task.revision # 0
  BY JobType DEF Consistent
<1>1. Files(s, c)
  BY <1>0, CompletedFiles
<1>2. CASE ~ Accepts(s, job) \/ ~ Matches(s, job)
  <2>1. o.s = c
    BY <1>2 DEF ForegroundReady, Outcome
  <2> QED
    BY <1>1, <2>1
<1>3. CASE Accepts(s, job) /\ Matches(s, job)
  <2> DEFINE x == [c EXCEPT !.documents[u].foreground = TRUE,
                            !.diagnostics[u] = c.documents[u].revision]
  <2>1. Quiet(s, c) /\ c.documents = s.documents
    BY <1>0, CompletedQuiet
  <2>2. Consistent(c) /\ Good(c)
    BY <2>1, CalmSound DEF Quiet, Calm
  <2>3. c.documents[u].revision = job.task.revision
    BY <1>3, <2>1 DEF Matches, Document
  <2>4. o = AdmitSemantic([c EXCEPT !.documents[u].foreground = TRUE,
                                    !.diagnostics[u] = job.task.revision], u)
    BY <1>3 DEF ForegroundReady
  <2>5. o = AdmitSemantic(x, u)
    BY <2>3, <2>4
  <2> HIDE DEF c, o
  <2>6. Published(c, x, u)
    <3>1. Shape(c)
      BY <2>2 DEF Good, MainTypes
    <3> QED
      BY <1>0, <3>1, PublishParts
  <2> HIDE DEF x
  <2>7. Consistent(x) /\ x.documents[u].revision = c.documents[u].revision
    BY <1>0, <2>2, <2>6, PublishSound
  <2>8. Good(x) /\ x.documents[u].revision # 0
    BY <1>0, <2>3, <2>7 DEF Consistent
  <2>9. Keeps(c, x, {"documents", "diagnostics"})
    BY <2>6 DEF Published
  <2>10. Files(c, x) /\ Files(x, o.s)
    BY <1>0, <2>5, <2>8, <2>9, FrameFiles, AdmitSemanticFiles
  <2>11. Files(s, o.s)
    BY <1>1, <2>10, FilesTrans
  <2> QED
    BY <2>11 DEF o
<1> QED
  BY <1>2, <1>3

LEMMA ForegroundSkippedFiles ==
  ASSUME NEW s, Consistent(s), NEW job, GoodJob(s, job)
  PROVE  Files(s, ForegroundSkipped(s, job).s)
<1> DEFINE u == job.task.uri
           c == Completed(s, job)
           o == ForegroundSkipped(s, job)
           x == IF Matches(s, job) THEN [c EXCEPT !.documents[u].rejected = TRUE]
                ELSE c
           d == DiscardDeferredRequests(x, u)
           t == RejectDeferredTokens(d, u, {job.task.revision}, Nat)
<1>0. Good(s) /\ job.task \in Identities /\ u \in Uris
  BY JobType DEF Consistent
<1>1. o.s = c \/ o.s = t
  BY DEF ForegroundSkipped, Outcome
<1>2. Files(s, c) /\ Good(c)
  BY <1>0, CompletedFiles, CompletedQuiet DEF Quiet, Calm
<1> HIDE DEF c, o
<1>3. Good(x) /\ Files(c, x)
  <2> DEFINE y == [c EXCEPT !.documents[u].rejected = TRUE]
  <2>1. Good(y) /\ Keeps(c, y, {"documents"})
    BY <1>0, <1>2, OverloadGood
  <2>2. x = y \/ x = c
    OBVIOUS
  <2> HIDE DEF x, y
  <2>3. Files(c, y) /\ Files(c, c)
    BY <2>1, FrameFiles DEF Files
  <2> QED
    BY <1>2, <2>1, <2>2, <2>3
<1> HIDE DEF x
<1>4. Discards(x, d, u)
  BY <1>0, <1>3, DiscardGood
<1> HIDE DEF d
<1>5. Good(d)
  BY <1>4 DEF Discards
<1>6. Drops(d, t, u, Rejects({job.task.revision}, Nat))
  BY <1>0, <1>5, RejectGood
<1> HIDE DEF t
<1>7. Files(x, d) /\ Files(d, t)
  BY <1>0, <1>3, <1>4, <1>5, <1>6, DiscardFiles, DropFiles
<1>8. Files(s, t)
  BY <1>2, <1>3, <1>7, FilesTrans
<1> QED
  BY <1>1, <1>2, <1>8 DEF o

LEMMA RichSkippedFiles ==
  ASSUME NEW s, Consistent(s), NEW job, GoodJob(s, job)
  PROVE  Files(s, RichSkipped(s, job).s)
<1> DEFINE u == job.task.uri
           c == Completed(s, job)
           y == CancelPending(c, u)
           pending == s.documents[u].pending
           idle == IF /\ pending.revision = job.task.revision
                      /\ pending.generation = job.generation
                   THEN y ELSE c
           t == RejectDeferredTokens(idle, u, {job.task.revision}, {job.generation})
<1>0. Good(s) /\ job.task \in Identities /\ u \in Uris
  BY JobType DEF Consistent
<1>1. RichSkipped(s, job).s = t
  BY DEF RichSkipped, Document, Outcome
<1>2. Files(s, c) /\ Good(c)
  BY <1>0, CompletedFiles, CompletedQuiet DEF Quiet, Calm
<1> HIDE DEF c
<1>3. Stops(c, y, u)
  BY <1>0, <1>2, CancelGood
<1> HIDE DEF y
<1>4. Good(y) /\ Keeps(c, y, {"table", "documents"})
  BY <1>3 DEF Stops
<1>5. idle = y \/ idle = c
  OBVIOUS
<1> HIDE DEF idle
<1>6. Files(c, y) /\ Files(c, c)
  BY <1>4, FrameFiles DEF Files
<1>7. Good(idle) /\ Files(c, idle)
  BY <1>2, <1>4, <1>5, <1>6
<1>8. Drops(idle, t, u, Rejects({job.task.revision}, {job.generation}))
  BY <1>0, <1>7, RejectGood
<1> HIDE DEF t
<1>9. Files(idle, t)
  BY <1>0, <1>7, <1>8, DropFiles
<1> QED
  BY <1>1, <1>2, <1>7, <1>9, FilesTrans

LEMMA DebugReadyFiles ==
  ASSUME NEW s, Consistent(s), NEW job, GoodJob(s, job), job.kind = "debug",
         Filed(s, {})
  PROVE  Filed(DebugReady(s, job).s, {})
<1> DEFINE r == job.request
           c == Completed(s, job)
           outcome == IF Accepts(s, job) THEN "result" ELSE "error"
           a == Answer(c, {r}, outcome)
<1>0. Good(s) /\ job.task \in Identities
  BY JobType DEF Consistent
<1>1. DebugReady(s, job).s = a
  BY DEF DebugReady, Outcome
<1>2. /\ Keeps(s, c, {"table"}) /\ Good(c) /\ Files(s, c)
  BY <1>0, CompletedKeeps, CompletedQuiet, CompletedFiles DEF Quiet, Calm
<1> HIDE DEF c
<1>3. r \in Asked(s) /\ s.requests[r].kind = "debug"
  BY DEF GoodJob
<1>4. r \in Asked(c) /\ ~ Common(c, r) /\ {r} \cap Requests \subseteq Asked(c)
  BY <1>2, <1>3 DEF Keeps, Fields, Asked, Common
<1>5. outcome \in {"result", "error"}
  OBVIOUS
<1> HIDE DEF outcome
<1>6. Filed(c, {})
  BY <1>2 DEF Files
<1>7. Answers(c, a, {r}, outcome)
  BY <1>2, <1>4, <1>5, AnswerGood
<1> HIDE DEF a
<1>8. /\ Replied(c, a, {r}, outcome) /\ Ordered(a)
      /\ \A b : Box(a, b) = Box(c, b)
  BY <1>6, <1>7, SameOrdered DEF Answers, Keeps, Fields, Filed
<1>9. Unfiles(c, a, {r})
  BY <1>4, <1>8 DEF Unfiles
<1>10. Filed(a, {} \ {r})
  BY <1>2, <1>4, <1>5, <1>6, <1>8, <1>9, AnswerFiles
<1>11. {} \ {r} = {}
  OBVIOUS
<1> QED
  BY <1>1, <1>10, <1>11

(* What the analysis no longer answers is rejected, the rest replayed.     *)
LEMMA ReplayFiles ==
  ASSUME NEW c, Good(c), Filed(c, {}), c.replays = << >>, NEW u \in Uris,
         NEW queue \in Seq(Waiters), Distinct(queue), NEW others,
         RequestsIn(others) \subseteq RequestsIn(c.deferredRequests[u]),
         RequestsIn(queue) = RequestsIn(c.deferredRequests[u]) \ RequestsIn(others),
         NEW a, Answers(c, a, RequestsIn(others), "error"),
         NEW x, AnalysisInstalled(a, x, u, Replayed(queue))
  PROVE  Filed(x, {})
<1> DEFINE p == Replayed(queue)
           b == RequestBox(u)
           R == RequestsIn(others)
           D == [c.deferredRequests EXCEPT ![u] = queue]
           y == [a EXCEPT !.deferredRequests = D]
<1>1. /\ c.deferredRequests \in [Uris -> Seq(Waiters)] /\ Shape(a)
      /\ a.requests = a.requests /\ Replied(c, a, R, "error")
      /\ a.deferredRequests = c.deferredRequests
      /\ a.deferredTokens = c.deferredTokens /\ a.replays = c.replays
  BY DEF Good, MainTypes, Answers, Keeps, Fields
<1>2. R \in SUBSET Requests
  BY DEF Good, Held, Asked
<1>3. /\ p \in Seq(Requests) /\ Members(p) = RequestsIn(queue) /\ Once(p)
  <2>1. \A w \in Waiters : w.request \in Requests
    BY DEF Waiters
  <2>2. p \in Seq(Requests) /\ Members(p) = RequestsIn(queue)
    BY <2>1, ReplayedType
  <2>3. Once(p)
    BY <2>1, ReplayedOnce
  <2> QED
    BY <2>2, <2>3
<1>4. /\ x.deferredRequests = [c.deferredRequests EXCEPT ![u] = << >>]
      /\ x.deferredTokens = c.deferredTokens /\ x.replays = p
      /\ x.requests = a.requests
  BY <1>1 DEF AnalysisInstalled, Keeps, Fields
<1> HIDE DEF p, R, D
<1>5. /\ y.deferredRequests = D /\ y.deferredTokens = c.deferredTokens
      /\ y.replays = << >> /\ y.requests = a.requests
  BY <1>1 DEF Shape, Fields
<1> HIDE DEF y
<1>6. \A v \in Uris :
        /\ y.deferredRequests[v] = IF v = u THEN queue ELSE c.deferredRequests[v]
        /\ x.deferredRequests[v] = IF v = u THEN << >> ELSE c.deferredRequests[v]
  BY <1>1, <1>4, <1>5 DEF D
<1>7. /\ b \in Boxes /\ b # ReplayBox /\ ReplayBox \in Boxes
      /\ \A v \in Uris : v # u => RequestBox(v) # b
      /\ \A v \in Uris : TokenBox(v) # b /\ TokenBox(v) # ReplayBox
      /\ \A v \in Uris : RequestBox(v) # ReplayBox
  BY BoxNames
<1>8. /\ Box(c, b) = RequestsIn(c.deferredRequests[u])
      /\ Box(y, b) = RequestsIn(queue) /\ Box(x, b) = {}
      /\ Box(y, ReplayBox) = {} /\ Box(x, ReplayBox) = RequestsIn(queue)
      /\ Box(c, ReplayBox) = {}
  <2>1. /\ Box(c, b) = RequestsIn(c.deferredRequests[u])
        /\ Box(y, b) = RequestsIn(y.deferredRequests[u])
        /\ Box(x, b) = RequestsIn(x.deferredRequests[u])
    BY BoxIs
  <2>2. /\ Box(y, ReplayBox) = Members(y.replays)
        /\ Box(x, ReplayBox) = Members(x.replays)
        /\ Box(c, ReplayBox) = Members(c.replays)
    BY BoxIs
  <2> HIDE DEF b
  <2> QED
    BY <1>3, <1>4, <1>5, <1>6, <2>1, <2>2, EmptyOrdered
<1> HIDE DEF b
<1>9. \A v \in Uris : v # u =>
        /\ Box(y, RequestBox(v)) = Box(c, RequestBox(v))
        /\ Box(x, RequestBox(v)) = Box(c, RequestBox(v))
  BY <1>6, BoxIs
<1>10. \A v \in Uris :
        /\ Box(y, TokenBox(v)) = Box(c, TokenBox(v))
        /\ Box(x, TokenBox(v)) = Box(c, TokenBox(v))
  BY <1>4, <1>5, BoxIs
<1>11. \A e \in Boxes : e # b => Box(y, e) = Box(c, e)
  <2> SUFFICES ASSUME NEW e \in Boxes, e # b PROVE Box(y, e) = Box(c, e)
    OBVIOUS
  <2>1. e = ReplayBox \/ \E v \in Uris : e = RequestBox(v) \/ e = TokenBox(v)
    BY BoxNames
  <2> QED
    BY <1>8, <1>9, <1>10, <2>1 DEF b
<1>12. \A e \in Boxes : e # b /\ e # ReplayBox => Box(x, e) = Box(y, e)
  <2> SUFFICES ASSUME NEW e \in Boxes, e # b, e # ReplayBox
               PROVE  Box(x, e) = Box(y, e)
    OBVIOUS
  <2>1. \E v \in Uris : e = RequestBox(v) \/ e = TokenBox(v)
    BY BoxNames
  <2> QED
    BY <1>9, <1>10, <2>1 DEF b
<1>13. Ordered(y)
  BY <1>5, <1>6, EmptyOrdered DEF Filed, Ordered
<1>14. Ordered(x)
  BY <1>3, <1>4, <1>6, EmptyOrdered DEF Filed, Ordered
<1>15. Replied(c, y, R, "error")
  BY <1>1, <1>5 DEF Replied
<1>16. /\ Box(y, b) = Box(c, b) \ R /\ R \subseteq Box(c, b)
  BY <1>8 DEF R
<1>17. Filed(y, {})
  BY <1>2, <1>7, <1>11, <1>13, <1>15, <1>16, BoxFiles
<1> DEFINE M == RequestsIn(queue)
<1>18. /\ M \subseteq Box(y, b) /\ Box(x, b) = Box(y, b) \ M
       /\ Box(x, ReplayBox) = Box(y, ReplayBox) \union M
  BY <1>8
<1>19. x.requests = y.requests
  BY <1>4, <1>5
<1> HIDE DEF M
<1> QED
  BY <1>7, <1>12, <1>14, <1>17, <1>18, <1>19, MoveFiles

LEMMA AnalysisReadyFiles ==
  ASSUME NEW s, Consistent(s), NEW job, GoodJob(s, job), generation \in Nat,
         Filed(s, {}), s.replays = << >>
  PROVE  Filed(AnalysisReady(s, job).s, {})
<1> DEFINE u == job.task.uri
           c == Completed(s, job)
           o == AnalysisReady(s, job)
           same == [request : Requests, revision : {job.task.revision}]
           queue == Kept(s.deferredRequests[u], same)
           others == Kept(s.deferredRequests[u], Waiters \ same)
           a == Answer(c, RequestsIn(others), "error")
           x == [a EXCEPT !.documents[u].analysis = TRUE,
                          !.documents[u].rejected = FALSE,
                          !.deferredRequests[u] = << >>,
                          !.replays = Replayed(queue)]
<1>0. /\ Good(s) /\ job.task \in Identities /\ u \in Uris
      /\ s.deferredRequests[u] \in Seq(Waiters) /\ Distinct(s.deferredRequests[u])
  BY JobType DEF Consistent, Good, MainTypes, Filed, Ordered
<1>a. Quiet(s, c) /\ Keeps(s, c, {"table"}) /\ Files(s, c)
  BY <1>0, CompletedQuiet, CompletedKeeps, CompletedFiles
<1>b. Good(c) /\ Filed(c, {}) /\ c.deferredRequests = s.deferredRequests
      /\ c.replays = << >> /\ Asked(c) = Asked(s)
  BY <1>a DEF Quiet, Calm, Files, Keeps, Fields, Asked
<1>1. CASE ~ Accepts(s, job) \/ ~ Matches(s, job)
  <2>1. o.s = c
    BY <1>1 DEF AnalysisReady, Outcome
  <2> QED
    BY <1>b, <2>1
<1>2. CASE Accepts(s, job) /\ Matches(s, job)
  <2>1. o = AdmitRich(x, u, generation)
    BY <1>2 DEF AnalysisReady, Replayed
  <2> HIDE DEF c, o
  <2> HIDE DEF same
  <2>2. queue \in Seq(Waiters) /\ Distinct(queue)
    BY <1>0, KeptProperties
  <2>3. /\ RequestsIn(others) = RequestsIn(s.deferredRequests[u]) \ RequestsIn(queue)
        /\ RequestsIn(queue) \subseteq RequestsIn(s.deferredRequests[u])
    <3> DEFINE q == s.deferredRequests[u]
    <3>1. q \in Seq(Waiters) /\ Distinct(q)
      BY <1>0
    <3>2. queue = Kept(q, same) /\ others = Kept(q, Waiters \ same)
      OBVIOUS
    <3> HIDE DEF q, queue, others
    <3>3. /\ RequestsIn(Kept(q, Waiters \ same)) =
               RequestsIn(q) \ RequestsIn(Kept(q, same))
          /\ RequestsIn(Kept(q, same)) \subseteq RequestsIn(q)
      BY <3>1, KeptSplit
    <3>4. /\ RequestsIn(others) = RequestsIn(q) \ RequestsIn(queue)
          /\ RequestsIn(queue) \subseteq RequestsIn(q)
      BY <3>2, <3>3
    <3> QED
      BY <3>4 DEF q
  <2> HIDE DEF queue, others
  <2>4. RequestsIn(others) \cap Requests \subseteq Asked(c)
    BY <1>0, <1>b, <2>3 DEF Good, Held
  <2>5. Answers(c, a, RequestsIn(others), "error") /\ Quiet(c, a)
    BY <1>b, <2>4, AnswerGood, AnswerCalm
  <2> HIDE DEF a
  <2>6. Quiet(s, a) /\ Consistent(a) /\ Shape(a)
        /\ a.documents \in [Uris -> Documents]
    <3>1. Quiet(s, a)
      BY <1>0, <1>a, <2>5, QuietTrans
    <3>2. Consistent(a)
      BY <3>1, CalmSound DEF Quiet
    <3> QED
      BY <3>1, <3>2 DEF Consistent, Good, MainTypes
  <2>7. a.deferredRequests = s.deferredRequests
    BY <1>b, <2>5 DEF Answers, Keeps, Fields
  <2>8. /\ Replayed(queue) \in Seq(Requests)
        /\ Members(Replayed(queue)) \subseteq Replayable(a, u)
    <3>1. \A w \in Waiters : w.request \in Requests
      BY DEF Waiters
    <3>2. /\ Replayed(queue) \in Seq(Requests)
          /\ Members(Replayed(queue)) = RequestsIn(queue)
      BY <2>2, <3>1, ReplayedType
    <3>3. RequestsIn(a.deferredRequests[u]) \subseteq Replayable(a, u)
      BY <1>0, <2>6, QueueReplayable
    <3> QED
      BY <2>3, <2>7, <3>2, <3>3
  <2>9. AnalysisInstalled(a, x, u, Replayed(queue))
    BY <1>0, <2>6, AnalysisParts
  <2> HIDE DEF x
  <2>10. Consistent(x)
    BY <1>0, <2>6, <2>8, <2>9, AnalysisSound
  <2>11. /\ RequestsIn(others) \subseteq RequestsIn(c.deferredRequests[u])
         /\ RequestsIn(queue) = RequestsIn(c.deferredRequests[u]) \ RequestsIn(others)
    BY <1>b, <2>3
  <2>12. Filed(x, {})
    BY <1>0, <1>b, <2>2, <2>5, <2>9, <2>11, ReplayFiles
  <2>13. Files(x, o.s)
    BY <1>0, <2>1, <2>10, AdmitRichFiles DEF Consistent
  <2>14. Filed(o.s, {})
    BY <2>12, <2>13 DEF Files
  <2> QED
    BY <2>14 DEF o
<1> QED
  BY <1>1, <1>2

(* What waited for this projection is replayed, the rest waits on.         *)
LEMMA ServeFiles ==
  ASSUME NEW c, Good(c), Filed(c, {}), c.replays = << >>, NEW u \in Uris, NEW o,
         NEW k, Distinct(k), NEW waiting \in Seq(TokenWaiters), Distinct(waiting),
         RequestsIn(waiting) \subseteq RequestsIn(c.deferredTokens[u]),
         RequestsIn(k) = RequestsIn(c.deferredTokens[u]) \ RequestsIn(waiting),
         NEW x, ProjectionInstalled(c, x, u, o, k, Replayed(waiting))
  PROVE  Filed(x, {})
<1> DEFINE p == Replayed(waiting)
           b == TokenBox(u)
           M == RequestsIn(waiting)
<1>1. c.deferredTokens \in [Uris -> Seq(TokenWaiters)]
  BY DEF Good, MainTypes
<1>2. Members(p) = M /\ Once(p)
  <2>1. \A w \in TokenWaiters : w.request \in Requests
    BY DEF TokenWaiters
  <2>2. Members(p) = RequestsIn(waiting)
    BY <2>1, ReplayedType
  <2>3. Once(p)
    BY <2>1, ReplayedOnce
  <2> QED
    BY <2>2, <2>3
<1>3. /\ x.deferredTokens = [c.deferredTokens EXCEPT ![u] = k]
      /\ x.deferredRequests = c.deferredRequests /\ x.replays = p
      /\ x.requests = c.requests
  BY DEF ProjectionInstalled, Keeps, Fields
<1> HIDE DEF p
<1>4. \A v \in Uris :
        x.deferredTokens[v] = IF v = u THEN k ELSE c.deferredTokens[v]
  BY <1>1, <1>3
<1>5. /\ b \in Boxes /\ b # ReplayBox /\ ReplayBox \in Boxes
      /\ \A v \in Uris : v # u => TokenBox(v) # b
  BY BoxNames
<1>6. /\ M \subseteq Box(c, b) /\ Box(x, b) = Box(c, b) \ M
      /\ Box(x, ReplayBox) = Box(c, ReplayBox) \union M
  <2>1. /\ Box(c, b) = RequestsIn(c.deferredTokens[u])
        /\ Box(x, b) = RequestsIn(x.deferredTokens[u])
    BY BoxIs
  <2>2. /\ Box(x, ReplayBox) = Members(x.replays)
        /\ Box(c, ReplayBox) = Members(c.replays)
    BY BoxIs
  <2>3. x.deferredTokens[u] = k
    BY <1>4
  <2> HIDE DEF b
  <2>4. Box(c, ReplayBox) = {} /\ Box(x, ReplayBox) = M
    BY <1>2, <1>3, <2>2, EmptyOrdered
  <2> QED
    BY <2>1, <2>3, <2>4
<1>7. \A e \in Boxes : e # b /\ e # ReplayBox => Box(x, e) = Box(c, e)
  <2> SUFFICES ASSUME NEW e \in Boxes, e # b, e # ReplayBox
               PROVE  Box(x, e) = Box(c, e)
    OBVIOUS
  <2>1. ASSUME NEW v \in Uris, e = RequestBox(v) PROVE Box(x, e) = Box(c, e)
    BY <1>3, <2>1, BoxIs
  <2>2. ASSUME NEW v \in Uris, e = TokenBox(v) PROVE Box(x, e) = Box(c, e)
    BY <1>4, <2>2, BoxIs
  <2> QED
    BY <2>1, <2>2, BoxNames
<1>8. Ordered(x)
  BY <1>2, <1>3, <1>4 DEF Filed, Ordered
<1> HIDE DEF b, M
<1> QED
  BY <1>3, <1>5, <1>6, <1>7, <1>8, MoveFiles

LEMMA RichReadyFiles ==
  ASSUME NEW s, Consistent(s), NEW job, GoodJob(s, job), generation \in Nat,
         Filed(s, {}), s.replays = << >>
  PROVE  Filed(RichReady(s, job).s, {})
<1> DEFINE u == job.task.uri
           c == Completed(s, job)
           o == RichReady(s, job)
           served == [request : Requests, revision : {job.task.revision},
                      generation : {job.generation}]
           waiting == Kept(s.deferredTokens[u], served)
           overlay == [revision |-> job.task.revision, generation |-> job.generation]
           x == [c EXCEPT !.documents[u].overlay = overlay,
                          !.documents[u].pending = NoPending,
                          !.deferredTokens[u] = Kept(@, TokenWaiters \ served),
                          !.replays = Replayed(waiting)]
           t == IF waiting = << >> THEN RequestRefresh(x) ELSE x
<1>0. /\ Good(s) /\ job.task \in Identities /\ u \in Uris
      /\ job.task.revision \in Nat /\ job.generation \in Nat
      /\ s.deferredTokens[u] \in Seq(TokenWaiters) /\ Distinct(s.deferredTokens[u])
  BY JobType DEF Consistent, Good, MainTypes, Filed, Ordered
<1>a. Quiet(s, c) /\ Keeps(s, c, {"table"}) /\ Files(s, c)
  BY <1>0, CompletedQuiet, CompletedKeeps, CompletedFiles
<1>b. Filed(c, {}) /\ c.deferredTokens = s.deferredTokens /\ c.replays = << >>
  BY <1>a DEF Files, Keeps, Fields
<1>1. CASE ~ Accepts(s, job) \/ ~ Matches(s, job) \/ job.generation # generation
  <2>1. o.s = c
    BY <1>1 DEF RichReady, Outcome
  <2> QED
    BY <1>b, <2>1
<1>2. CASE Accepts(s, job) /\ Matches(s, job) /\ job.generation = generation
  <2>1. o.s = t
    BY <1>2 DEF RichReady, Replayed, Outcome
  <2>2. overlay \in [revision : Nat, generation : Nat]
    BY <1>0
  <2> HIDE DEF c, o, overlay
  <2>3. Consistent(c) /\ Good(c) /\ Shape(c) /\ c.documents \in [Uris -> Documents]
    <3>1. Consistent(c)
      BY <1>a, CalmSound DEF Quiet
    <3> QED
      BY <3>1 DEF Consistent, Good, MainTypes
  <2> DEFINE k == Kept(c.deferredTokens[u], TokenWaiters \ served)
             p == Replayed(waiting)
  <2>4. /\ waiting \in Seq(TokenWaiters) /\ Distinct(waiting)
        /\ RequestsIn(waiting) \subseteq RequestsIn(c.deferredTokens[u])
        /\ RequestsIn(k) = RequestsIn(c.deferredTokens[u]) \ RequestsIn(waiting)
        /\ k \in Seq(TokenWaiters) /\ Distinct(k) /\ Thinned(c.deferredTokens[u], k)
    <3> DEFINE q == c.deferredTokens[u]
    <3>1. q \in Seq(TokenWaiters) /\ Distinct(q)
      BY <1>0, <1>b
    <3>2. waiting = Kept(q, served) /\ k = Kept(q, TokenWaiters \ served)
      BY <1>b
    <3> HIDE DEF q, waiting, k, served
    <3>3. /\ Kept(q, served) \in Seq(TokenWaiters)
          /\ Kept(q, TokenWaiters \ served) \in Seq(TokenWaiters)
          /\ Len(Kept(q, TokenWaiters \ served)) <= Len(q)
          /\ Members(Kept(q, TokenWaiters \ served)) \subseteq Members(q)
      BY <3>1, KeptProperties
    <3>4. /\ RequestsIn(Kept(q, TokenWaiters \ served)) =
               RequestsIn(q) \ RequestsIn(Kept(q, served))
          /\ RequestsIn(Kept(q, served)) \subseteq RequestsIn(q)
          /\ Distinct(Kept(q, served)) /\ Distinct(Kept(q, TokenWaiters \ served))
      BY <3>1, KeptSplit
    <3>5. /\ waiting \in Seq(TokenWaiters) /\ Distinct(waiting)
          /\ RequestsIn(waiting) \subseteq RequestsIn(q)
          /\ RequestsIn(k) = RequestsIn(q) \ RequestsIn(waiting)
          /\ k \in Seq(TokenWaiters) /\ Distinct(k) /\ Thinned(q, k)
      BY <3>2, <3>3, <3>4 DEF Thinned
    <3> QED
      BY <3>5 DEF q
  <2> HIDE DEF waiting
  <2>5. p \in Seq(Requests) /\ Members(p) \subseteq Replayable(c, u)
    <3>1. \A w \in TokenWaiters : w.request \in Requests
      BY DEF TokenWaiters
    <3>2. p \in Seq(Requests) /\ Members(p) = RequestsIn(waiting)
      BY <2>4, <3>1, ReplayedType
    <3>3. RequestsIn(c.deferredTokens[u]) \subseteq Replayable(c, u)
      BY <1>0, <2>3, QueueReplayable
    <3> QED
      BY <2>4, <3>2, <3>3
  <2> HIDE DEF p, served
  <2>6. ProjectionInstalled(c, x, u, overlay, k, p)
    BY <1>0, <2>3, ProjectionParts DEF p
  <2>7. t = RequestRefresh(x) \/ t = x
    OBVIOUS
  <2> HIDE DEF x, k, t
  <2>8. Good(x)
    <3>1. ProjectionFits(c, x, u, overlay, k, p)
      BY <1>0, <2>2, <2>3, <2>4, <2>5, <2>6 DEF ProjectionFits
    <3> QED
      BY <3>1, ProjectionSound DEF Consistent
  <2>9. ProjectionInstalled(c, x, u, overlay, k, Replayed(waiting))
    BY <2>6 DEF p
  <2>10. Filed(x, {})
    BY <1>0, <1>b, <2>3, <2>4, <2>9, ServeFiles
  <2>11. Files(x, RequestRefresh(x))
    BY <2>8, RefreshFiles
  <2>12. Filed(t, {})
    BY <2>7, <2>10, <2>11 DEF Files
  <2> QED
    BY <2>1, <2>12 DEF o
<1> QED
  BY <1>1, <1>2

LEMMA InterpretFiles ==
  ASSUME NEW s, Consistent(s), NEW e, GoodEvent(s, e), generation \in Nat,
         Filed(s, {}), s.replays = << >>
  PROVE  Filed(Interpret(s, e).s, {})
<1> DEFINE job == e.job
           ready == e.outcome = "ready"
<1>0. Good(s)
  BY DEF Consistent
<1>1. CASE job = IndexChanged
  <2>1. job.kind = "indexChanged"
    BY <1>1 DEF IndexChanged, Job
  <2>2. Interpret(s, e).s = Observe(s, generation)
    BY <2>1 DEF Interpret, Outcome
  <2>3. Filed(Observe(s, generation), {})
    BY <1>0, ObservedFiles DEF Files
  <2> QED
    BY <2>2, <2>3
<1>2. CASE job # IndexChanged /\ GoodJob(s, job)
  <2>1. job.kind \in {"foreground", "semantic", "rich", "debug"}
    BY <1>2, JobType
  <2>2. CASE job.kind = "foreground"
    <3>1. Interpret(s, e) = IF ready THEN ForegroundReady(s, job)
                            ELSE ForegroundSkipped(s, job)
      BY <2>2 DEF Interpret
    <3>2. Files(s, ForegroundReady(s, job).s) /\ Files(s, ForegroundSkipped(s, job).s)
      BY <1>2, ForegroundReadyFiles, ForegroundSkippedFiles
    <3> QED
      BY <3>1, <3>2 DEF Files
  <2>3. CASE job.kind = "semantic"
    <3>1. \/ Interpret(s, e) = AnalysisReady(s, job)
          \/ Interpret(s, e) = Outcome(Completed(s, job), jobs)
      BY <2>3 DEF Interpret
    <3>2. Filed(AnalysisReady(s, job).s, {})
      BY <1>2, AnalysisReadyFiles
    <3>3. Filed(Completed(s, job), {})
      BY <1>0, CompletedFiles DEF Files
    <3> QED
      BY <3>1, <3>2, <3>3, OutcomeParts
  <2>4. CASE job.kind = "rich"
    <3>1. Interpret(s, e) = IF ready THEN RichReady(s, job) ELSE RichSkipped(s, job)
      BY <2>4 DEF Interpret
    <3>2. Filed(RichReady(s, job).s, {})
      BY <1>2, RichReadyFiles
    <3>3. Filed(RichSkipped(s, job).s, {})
      BY <1>2, RichSkippedFiles DEF Files
    <3> QED
      BY <3>1, <3>2, <3>3
  <2>5. CASE job.kind = "debug"
    <3>1. Interpret(s, e) = DebugReady(s, job)
      BY <2>5 DEF Interpret
    <3> QED
      BY <1>2, <2>5, <3>1, DebugReadyFiles
  <2> QED
    BY <2>1, <2>2, <2>3, <2>4, <2>5
<1> QED
  BY <1>1, <1>2 DEF GoodEvent

(* The client's messages.                                                  *)
LEMMA RevisionFiles ==
  ASSUME NEW s, NEW u \in Uris, NEW e \in Documents, e.pending = NoPending,
         e.revision # 0, NEW c, Good(c), Files(s, c)
  PROVE  LET y == Replaced(c, u, e)
             d == DiscardDeferredRequests(y, u)
         IN  /\ Files(s, AdmitForeground(d, u).s)
             /\ Files(s, AdmitForeground(RejectDeferredTokens(d, u, Nat, Nat), u).s)
<1> DEFINE y == Replaced(c, u, e)
           d == DiscardDeferredRequests(y, u)
           z == RejectDeferredTokens(d, u, Nat, Nat)
<1>1. Replaces(c, y, u, e) /\ c.documents \in [Uris -> Documents]
  BY ReplacedParts DEF Good, MainTypes
<1> HIDE DEF y
<1>2. /\ Good(y) /\ Keeps(c, y, {"nextRevision", "table", "documents"})
      /\ y.documents[u].revision # 0
  BY <1>1, ReplacesGood DEF Replaces
<1>3. Discards(y, d, u)
  BY <1>2, DiscardGood
<1> HIDE DEF d
<1>4. Good(d) /\ d.documents = y.documents
  BY <1>3 DEF Discards, Keeps, Fields
<1>5. Drops(d, z, u, Rejects(Nat, Nat))
  BY <1>4, RejectGood
<1> HIDE DEF z
<1>6. Good(z) /\ z.documents = d.documents
  BY <1>5 DEF Drops, Keeps, Fields
<1>7. Files(c, y) /\ Files(y, d) /\ Files(d, z)
  BY <1>2, <1>3, <1>4, <1>5, FrameFiles, DiscardFiles, DropFiles
<1>8. Files(s, d) /\ Files(s, z)
  BY <1>7, FilesTrans
<1>9. /\ Files(d, AdmitForeground(d, u).s)
      /\ Files(z, AdmitForeground(z, u).s)
  BY <1>2, <1>4, <1>6, AdmitForegroundFiles
<1>10. Files(s, AdmitForeground(d, u).s) /\ Files(s, AdmitForeground(z, u).s)
  BY <1>8, <1>9, FilesTrans
<1> QED
  BY <1>10 DEF z, d, y

LEMMA OpenFiles ==
  ASSUME NEW s, Consistent(s), NEW u \in Uris, NEW bytes \in Nat
  PROVE  Files(s, AdmitForeground(DiscardDeferredRequests(
           Replaced(s, u, Pending(s.nextRevision + 1, bytes)), u), u).s)
<1> DEFINE e == Pending(s.nextRevision + 1, bytes)
<1>1. Good(s) /\ s.nextRevision + 1 \in Nat \ {0} /\ Files(s, s)
  BY DEF Consistent, Good, MainTypes, Files
<1>2. e \in Documents /\ e.pending = NoPending /\ e.revision # 0
  <2>1. NoOverlay \in [revision : Nat, generation : Nat]
    BY DEF NoOverlay
  <2> QED
    BY <1>1, <2>1, NextDocument
<1> HIDE DEF e
<1>3. Files(s, AdmitForeground(DiscardDeferredRequests(Replaced(s, u, e), u), u).s)
  BY <1>1, <1>2, RevisionFiles
<1> QED
  BY <1>3 DEF e

LEMMA ChangeFiles ==
  ASSUME NEW s, Consistent(s), NEW u \in Uris, NEW bytes \in Nat
  PROVE  Files(s, AdmitForeground(RejectDeferredTokens(DiscardDeferredRequests(
           Replaced(CancelPending(s, u), u,
                    Revision(s.nextRevision + 1, bytes, s.documents[u].overlay)), u),
           u, Nat, Nat), u).s)
<1> DEFINE c == CancelPending(s, u)
           e == Revision(s.nextRevision + 1, bytes, s.documents[u].overlay)
<1>1. /\ Good(s) /\ s.nextRevision + 1 \in Nat \ {0}
      /\ s.documents \in [Uris -> Documents] /\ s.documents[u] \in Documents
  BY DEF Consistent, Good, MainTypes
<1>2. e \in Documents /\ e.pending = NoPending /\ e.revision # 0
  <2>1. s.documents[u].overlay \in [revision : Nat, generation : Nat]
    BY <1>1 DEF Documents
  <2> QED
    BY <1>1, <2>1, NextDocument
<1> HIDE DEF e
<1>3. Stops(s, c, u)
  BY <1>1, CancelGood
<1> HIDE DEF c
<1>4. Good(c) /\ Keeps(s, c, {"table", "documents"})
  BY <1>3 DEF Stops
<1>5. Files(s, c)
  BY <1>4, FrameFiles
<1>6. Files(s, AdmitForeground(RejectDeferredTokens(
               DiscardDeferredRequests(Replaced(c, u, e), u), u, Nat, Nat), u).s)
  BY <1>2, <1>4, <1>5, RevisionFiles
<1> QED
  BY <1>6 DEF e, c

LEMMA CloseFiles ==
  ASSUME NEW s, Consistent(s), NEW u \in Uris,
         NEW c, c = RejectDeferredTokens(
                      DiscardDeferredRequests(Release(s, u), u), u, Nat, Nat),
         NEW z, Blanks(c, z, u)
  PROVE  Files(s, z)
<1> DEFINE y == Release(s, u)
           d == DiscardDeferredRequests(y, u)
<1>1. Releases(s, y, u)
  BY ReleaseGood
<1> HIDE DEF y
<1>2. Good(y) /\ Keeps(s, y, {"table", "documents"})
  BY <1>1 DEF Releases
<1>3. Discards(y, d, u)
  BY <1>2, DiscardGood
<1>4. c = RejectDeferredTokens(d, u, Nat, Nat)
  BY DEF y
<1> HIDE DEF d
<1>5. Good(d)
  BY <1>3 DEF Discards
<1>6. Drops(d, c, u, Rejects(Nat, Nat))
  BY <1>4, <1>5, RejectGood
<1>7. Files(s, y) /\ Files(y, d) /\ Files(d, c)
  BY <1>2, <1>3, <1>5, <1>6, FrameFiles, DiscardFiles, DropFiles
<1>8. Keeps(c, z, {"diagnostics", "shown"})
  BY DEF Blanks
<1>9. Files(c, z)
  BY <1>8, FrameFiles
<1> QED
  BY <1>7, <1>9, FilesTrans

LEMMA SendFiles ==
  ASSUME NEW s, Consistent(s), s.replays = << >>, NEW r \in Requests,
         s.requests[r].state = "unsent", NEW kind \in Classifications, NEW u \in Uris,
         NEW x, Asking(s, x, r, NewExchange(s, kind, u)), generation \in Nat,
         Filed(s, {})
  PROVE  Filed(Dispatch(x, r).s, {})
<1> DEFINE e == NewExchange(s, kind, u)
<1>1. Good(x) /\ Asks(x, r)
  BY AskingConsistent DEF Consistent
<1>2. Good(s) /\ s.requests \in [Requests -> Exchanges] /\ r \notin Asked(s)
  BY DEF Consistent, Good, MainTypes, Asked
<1>3. e.state = "waiting" /\ e.answers = 0
  BY DEF NewExchange
<1> HIDE DEF e
<1>4. /\ x.requests = [s.requests EXCEPT ![r] = e]
      /\ x.deferredRequests = s.deferredRequests
      /\ x.deferredTokens = s.deferredTokens /\ x.replays = s.replays
  BY DEF Asking, Keeps, Fields, e
<1>5. /\ x.requests[r] = e
      /\ \A q \in Requests : q # r => x.requests[q] = s.requests[q]
  BY <1>2, <1>4
<1>6. Ordered(x) /\ \A b : Box(x, b) = Box(s, b)
  BY <1>4, SameOrdered DEF Filed
<1>7. \A q : Stored(x, q) = Stored(s, q)
  BY <1>6 DEF Stored
<1>8. Stored(s, r) = {}
  <2> SUFFICES ASSUME NEW b \in Boxes PROVE r \notin Box(s, b)
    BY DEF Stored
  <2>1. CASE b = ReplayBox
    BY <1>2, <2>1, BoxIs DEF Good, Held
  <2>2. ASSUME NEW v \in Uris, b = RequestBox(v) PROVE r \notin Box(s, b)
    BY <1>2, <2>2, BoxIs DEF Good, Held
  <2>3. ASSUME NEW v \in Uris, b = TokenBox(v) PROVE r \notin Box(s, b)
    BY <1>2, <2>3, BoxIs DEF Good, Held
  <2> QED
    BY <2>1, <2>2, <2>3, BoxNames
<1>9. Apart(x, {r})
  BY <1>7, <1>8 DEF Filed, Apart
<1>10. Owed(x, {r})
  <2> SUFFICES ASSUME NEW q \in Requests, Common(x, q)
               PROVE  /\ x.requests[q].answers =
                           IF x.requests[q].state \in {"result", "error"} THEN 1 ELSE 0
                      /\ x.requests[q].state = "waiting" <=>
                           q \in {r} \/ Stored(x, q) # {}
    BY DEF Owed
  <2>1. CASE q = r
    BY <1>3, <1>5, <2>1
  <2>2. CASE q # r
    BY <1>5, <1>7, <2>2 DEF Filed, Owed, Common
  <2> QED
    BY <2>1, <2>2
<1>11. Filed(x, {r})
  BY <1>6, <1>9, <1>10 DEF Filed
<1> QED
  BY <1>1, <1>11, DispatchFiles

LEMMA ReplayedFiles ==
  ASSUME NEW s, Consistent(s), s.replays # << >>, generation \in Nat, Filed(s, {})
  PROVE  Filed(Dispatch([s EXCEPT !.replays = Tail(@)], Head(s.replays)).s, {})
<1> DEFINE p == Tail(s.replays)
           r == Head(s.replays)
           x == [s EXCEPT !.replays = p]
<1>1. Good(s) /\ Shape(s) /\ s.replays \in Seq(Requests)
  BY DEF Consistent, Good, MainTypes
<1>2. /\ p \in Seq(Requests) /\ r \in Members(s.replays) /\ r \in Requests
      /\ Members(p) = Members(s.replays) \ {r} /\ Once(p)
  <2>1. /\ Len(s.replays) \in Nat /\ Len(s.replays) # 0
        /\ p \in Seq(Requests) /\ r = s.replays[1]
        /\ Len(p) = Len(s.replays) - 1
        /\ \A i \in 1 .. Len(p) : p[i] = s.replays[i + 1]
    BY <1>1, LenProperties, EmptySeq, HeadTailProperties
  <2>2. Once(s.replays)
    BY DEF Filed, Ordered
  <2> HIDE DEF p, r
  <2>3. r \in Members(s.replays)
    BY <2>1 DEF Members
  <2>4. r \in Requests
    BY <1>1, <2>3, MembersType
  <2>5. Once(p)
    BY <2>1, <2>2 DEF Once
  <2>6. \A i \in 1 .. Len(p) : p[i] \in Members(s.replays) /\ p[i] # r
    BY <2>1, <2>2 DEF Once, Members
  <2>7. \A i \in 1 .. Len(s.replays) :
          \/ i = 1
          \/ i - 1 \in 1 .. Len(p) /\ p[i - 1] = s.replays[i]
    BY <2>1
  <2>8. \A q \in Members(s.replays) : q = r \/ q \in Members(p)
    <3> SUFFICES ASSUME NEW q \in Members(s.replays) PROVE q = r \/ q \in Members(p)
      OBVIOUS
    <3>1. PICK i \in 1 .. Len(s.replays) : q = s.replays[i]
      BY DEF Members
    <3>2. CASE i = 1
      BY <2>1, <3>1, <3>2
    <3>3. CASE i - 1 \in 1 .. Len(p) /\ p[i - 1] = s.replays[i]
      BY <3>1, <3>3 DEF Members
    <3> QED
      BY <2>7, <3>2, <3>3
  <2>9. Members(p) \subseteq Members(s.replays) \ {r}
    BY <2>6 DEF Members
  <2> QED
    BY <2>1, <2>3, <2>4, <2>5, <2>8, <2>9
<1> HIDE DEF p, r
<1>3. Shape(x) /\ Keeps(s, x, {"replays"}) /\ x.replays = p
  BY <1>1 DEF Shape, Keeps, Fields
<1> HIDE DEF x
<1>4. /\ x.documents = s.documents /\ x.table = s.table /\ x.requests = s.requests
      /\ x.deferredRequests = s.deferredRequests
      /\ x.deferredTokens = s.deferredTokens
  BY <1>3 DEF Keeps, Fields
<1>5. Good(x)
  <2>1. MainTypes(x)
    BY <1>1, <1>2, <1>3 DEF Good, MainTypes, Keeps, Fields
  <2>2. Held(x) /\ PendingIssued(x)
    BY <1>1, <1>2, <1>3, <1>4 DEF Good, Held, PendingIssued, Asked
  <2> QED
    BY <2>1, <2>2 DEF Good
<1>6. Asks(x, r)
  BY <1>2, <1>4 DEF Consistent, ReplaysCurrent, Asks, Asked, UriOf
<1>7. /\ Box(x, ReplayBox) = Box(s, ReplayBox) \ {r}
      /\ ReplayBox \in Boxes /\ r \in Box(s, ReplayBox)
  BY <1>2, <1>3, BoxIs, BoxNames
<1>8. \A b \in Boxes : b # ReplayBox => Box(x, b) = Box(s, b)
  <2> SUFFICES ASSUME NEW b \in Boxes, b # ReplayBox PROVE Box(x, b) = Box(s, b)
    OBVIOUS
  <2>1. ASSUME NEW v \in Uris, b = RequestBox(v) PROVE Box(x, b) = Box(s, b)
    BY <1>4, <2>1, BoxIs
  <2>2. ASSUME NEW v \in Uris, b = TokenBox(v) PROVE Box(x, b) = Box(s, b)
    BY <1>4, <2>2, BoxIs
  <2> QED
    BY <2>1, <2>2, BoxNames
<1>9. /\ Stored(s, r) = {ReplayBox} /\ Stored(x, r) = {}
      /\ \A q : q # r => Stored(x, q) = Stored(s, q)
  <2>1. ReplayBox \in Stored(s, r)
    BY <1>7 DEF Stored
  <2>2. Stored(s, r) = {ReplayBox}
    BY <1>2, <2>1 DEF Filed, Apart
  <2>3. Stored(x, r) = {}
    BY <1>7, <1>8, <2>2 DEF Stored
  <2>4. \A q : q # r => Stored(x, q) = Stored(s, q)
    BY <1>7, <1>8 DEF Stored
  <2> QED
    BY <2>2, <2>3, <2>4
<1>10. Ordered(x)
  BY <1>2, <1>3, <1>4 DEF Filed, Ordered
<1>11. Apart(x, {r})
  BY <1>9 DEF Filed, Apart
<1>12. Owed(x, {r})
  <2> SUFFICES ASSUME NEW q \in Requests, Common(x, q)
               PROVE  /\ x.requests[q].answers =
                           IF x.requests[q].state \in {"result", "error"} THEN 1 ELSE 0
                      /\ x.requests[q].state = "waiting" <=>
                           q \in {r} \/ Stored(x, q) # {}
    BY DEF Owed
  <2>1. /\ s.requests[q].answers =
             IF s.requests[q].state \in {"result", "error"} THEN 1 ELSE 0
        /\ s.requests[q].state = "waiting" <=> Stored(s, q) # {}
    BY <1>4 DEF Filed, Owed, Common
  <2> QED
    BY <1>4, <1>9, <2>1
<1>13. Filed(x, {r})
  BY <1>10, <1>11, <1>12 DEF Filed
<1>14. Filed(Dispatch(x, r).s, {})
  BY <1>5, <1>6, <1>13, DispatchFiles
<1> QED
  BY <1>14 DEF x, p, r

LEMMA AcknowledgeFiles ==
  ASSUME NEW s, Consistent(s)
  PROVE  LET idle == [s EXCEPT !.refreshInFlight = FALSE, !.refreshDirty = FALSE]
         IN  Files(s, IF s.refreshDirty THEN RequestRefresh(idle) ELSE idle)
<1> DEFINE idle == [s EXCEPT !.refreshInFlight = FALSE, !.refreshDirty = FALSE]
<1>1. Good(s) /\ Shape(s)
  BY DEF Consistent, Good, MainTypes
<1>2. /\ Shape(idle) /\ Keeps(s, idle, {"refreshInFlight", "refreshDirty"})
      /\ idle.refreshInFlight = FALSE /\ idle.refreshDirty = FALSE
  BY <1>1 DEF Shape, Keeps, Fields
<1> HIDE DEF idle
<1>3. Good(idle)
  <2>1. MainTypes(idle)
    BY <1>1, <1>2 DEF Good, MainTypes, Keeps, Fields
  <2>2. Held(idle) /\ PendingIssued(idle)
    BY <1>1, <1>2 DEF Good, Held, PendingIssued, Asked, Keeps, Fields
  <2> QED
    BY <2>1, <2>2 DEF Good
<1>4. Files(s, idle) /\ Files(idle, RequestRefresh(idle))
  BY <1>2, <1>3, FrameFiles, RefreshFiles
<1>5. Files(s, RequestRefresh(idle))
  BY <1>4, FilesTrans
<1>6. Files(s, IF s.refreshDirty THEN RequestRefresh(idle) ELSE idle)
  BY <1>4, <1>5
<1> QED
  BY <1>6 DEF idle

(* Every step of the main loop files the requests it leaves unanswered.    *)
LEMMA ClientFiles ==
  ASSUME Inv, Filed(main, {}), ClientStep
  PROVE  Filed(main', {})
<1> DEFINE s == main
<1>0. Consistent(s) /\ generation \in Nat
  BY DEF Inv, Coming
<1>1. ASSUME NEW u \in Uris, NEW b \in Sizes, ~ IsOpen(main, u), OpenDocument(u, b)
      PROVE  Filed(main', {})
  <2> DEFINE o == AdmitForeground(DiscardDeferredRequests(
                    Replaced(s, u, Pending(s.nextRevision + 1, b)), u), u)
  <2>1. Release(main, u) = main
    BY <1>1 DEF Release
  <2>2. main' = o.s
    BY <1>1, <2>1 DEF OpenDocument, Replaced, Handled
  <2>3. b \in Nat
    BY RuntimeAssumption
  <2>4. Files(s, o.s)
    BY <1>0, <2>3, OpenFiles
  <2> QED
    BY <2>2, <2>4 DEF Files
<1>2. ASSUME NEW u \in Uris, NEW b \in Sizes, ChangeDocument(u, b)
      PROVE  Filed(main', {})
  <2> DEFINE e == Revision(s.nextRevision + 1, b, s.documents[u].overlay)
             y == Replaced(CancelPending(s, u), u, e)
             o == AdmitForeground(RejectDeferredTokens(
                    DiscardDeferredRequests(y, u), u, Nat, Nat), u)
  <2>1. main' = o.s
    BY <1>2 DEF ChangeDocument, Replaced, Revision, Document, Handled
  <2>2. b \in Nat
    BY RuntimeAssumption
  <2>3. Files(s, o.s)
    BY <1>0, <2>2, ChangeFiles
  <2> QED
    BY <2>1, <2>3 DEF Files
<1>3. ASSUME NEW u \in Uris, CloseDocument(u) PROVE Filed(main', {})
  <2> DEFINE c == RejectDeferredTokens(
                    DiscardDeferredRequests(Release(s, u), u), u, Nat, Nat)
             z == [c EXCEPT !.diagnostics[u] = 0, !.shown[u] = NoTokens]
  <2>1. main' = z
    BY <1>3 DEF CloseDocument, Handled, Outcome
  <2>2. Shape(c)
    <3>1. Good(Release(s, u))
      BY <1>0, ReleaseGood DEF Releases
    <3>2. Good(c)
      BY <3>1, ClearedGood DEF Cleared
    <3> QED
      BY <3>2 DEF Good, MainTypes
  <2> HIDE DEF s
  <2>3. Files(s, z)
    <3> HIDE DEF c
    <3>1. Blanks(c, z, u)
      BY <2>2, BlankParts
    <3> HIDE DEF z
    <3> QED
      BY <1>0, <3>1, CloseFiles DEF c
  <2> QED
    BY <2>1, <2>3 DEF Files, s
<1>4. ASSUME NEW r \in Requests, NEW kind \in Kinds, NEW u \in Uris,
             SendRequest(r, kind, u)
      PROVE  Filed(main', {})
  <2> DEFINE x == [s EXCEPT !.requests[r] = NewExchange(s, kind, u)]
             t == Dispatch(x, r).s
  <2>1. main' = t
    BY <1>4 DEF SendRequest, NewExchange, Document, Handled
  <2>2. /\ s.replays = << >> /\ s.requests[r].state = "unsent"
        /\ kind \in Classifications
    BY <1>4, RuntimeAssumption DEF SendRequest, LoopIsFree
  <2> HIDE DEF s
  <2>3. Shape(s)
    BY <1>0 DEF Consistent, Good, MainTypes
  <2>4. Asking(s, x, r, NewExchange(s, kind, u))
    BY <2>3, AskingParts
  <2> HIDE DEF x
  <2>5. Filed(s, {})
    BY DEF s
  <2>6. Filed(t, {})
    BY <1>0, <2>2, <2>4, <2>5, SendFiles
  <2> QED
    BY <2>1, <2>6
<1>5. CASE AcknowledgeRefresh
  <2> DEFINE idle == [s EXCEPT !.refreshInFlight = FALSE, !.refreshDirty = FALSE]
             t == IF s.refreshDirty THEN RequestRefresh(idle) ELSE idle
  <2>1. main' = t
    BY <1>5 DEF AcknowledgeRefresh, Handled, Outcome
  <2>2. Files(s, t)
    BY <1>0, AcknowledgeFiles
  <2> QED
    BY <2>1, <2>2 DEF Files
<1> QED
  BY <1>1, <1>2, <1>3, <1>4, <1>5 DEF ClientStep

LEMMA LoopFiles ==
  ASSUME Inv, Filed(main, {}), LoopStep
  PROVE  Filed(main', {})
<1> DEFINE s == main
<1>0. Consistent(s) /\ generation \in Nat
  BY DEF Inv, Coming
<1>1. CASE ReplayRequest
  <2> DEFINE t == Dispatch([s EXCEPT !.replays = Tail(@)], Head(s.replays)).s
  <2>1. main' = t /\ s.replays # << >>
    BY <1>1 DEF ReplayRequest, Handled
  <2>2. Filed(t, {})
    BY <1>0, <2>1, ReplayedFiles
  <2> QED
    BY <2>1, <2>2
<1>2. CASE HandleEvent
  <2> DEFINE e == Head(events)
             t == Interpret(s, e).s
  <2>1. main' = t /\ s.replays = << >> /\ events # << >>
    BY <1>2 DEF HandleEvent, LoopIsFree
  <2>2. GoodEvent(s, e)
    <3>1. events \in Seq(Events) /\ Len(events) \in Nat \ {0} /\ e = events[1]
      BY <2>1, EmptySeq, HeadTailProperties DEF Inv, EventsGood
    <3> QED
      BY <3>1 DEF Inv, EventsGood
  <2>3. Filed(t, {})
    BY <1>0, <2>1, <2>2, InterpretFiles
  <2> QED
    BY <2>1, <2>3
<1> QED
  BY <1>1, <1>2 DEF LoopStep

LEMMA FiledAlways == Spec => [](Inv /\ Filed(main, {}))
<1>1. Init => Filed(main, {})
  <2> SUFFICES ASSUME Init PROVE Filed(main, {})
    OBVIOUS
  <2> DEFINE s == main
             idle == [state |-> "unsent", kind |-> NoRequest, uri |-> NoRequest,
                      revision |-> 0, answers |-> 0]
  <2>1. /\ s.deferredRequests = [u \in Uris |-> << >>]
        /\ s.deferredTokens = [u \in Uris |-> << >>]
        /\ s.replays = << >> /\ s.requests = [r \in Requests |-> idle]
    BY DEF Init
  <2>2. idle.state = "unsent" /\ idle.answers = 0
    OBVIOUS
  <2> HIDE DEF s, idle
  <2>3. \A b \in Boxes : Box(s, b) = {}
    <3> SUFFICES ASSUME NEW b \in Boxes PROVE Box(s, b) = {}
      OBVIOUS
    <3>1. CASE b = ReplayBox
      BY <2>1, <3>1, BoxIs, EmptyOrdered
    <3>2. ASSUME NEW v \in Uris, b = RequestBox(v) PROVE Box(s, b) = {}
      BY <2>1, <3>2, BoxIs, EmptyOrdered
    <3>3. ASSUME NEW v \in Uris, b = TokenBox(v) PROVE Box(s, b) = {}
      BY <2>1, <3>3, BoxIs, EmptyOrdered
    <3> QED
      BY <3>1, <3>2, <3>3, BoxNames
  <2>4. \A r : Stored(s, r) = {}
    BY <2>3 DEF Stored
  <2>5. Ordered(s)
    BY <2>1, EmptyOrdered DEF Ordered
  <2>6. Apart(s, {}) /\ Owed(s, {})
    BY <2>1, <2>2, <2>4 DEF Apart, Owed
  <2> QED
    BY <2>5, <2>6 DEF Filed, s
<1>2. Inv /\ Filed(main, {}) /\ [Next]_vars => Filed(main, {})'
  <2> SUFFICES ASSUME Inv, Filed(main, {}), [Next]_vars PROVE Filed(main', {})
    OBVIOUS
  <2>1. CASE ClientStep
    BY <2>1, ClientFiles
  <2>2. CASE LoopStep
    BY <2>2, LoopFiles
  <2>3. CASE main' = main
    BY <2>3
  <2>4. ASSUME NEW lane \in Lanes, TakeJob(lane) \/ FinishJob(lane)
        PROVE  main' = main
    BY <2>4 DEF TakeJob, FinishJob
  <2>5. PublishGeneration \/ AnnounceGeneration \/ UNCHANGED vars => main' = main
    BY DEF PublishGeneration, AnnounceGeneration, vars
  <2> QED
    BY <2>1, <2>2, <2>3, <2>4, <2>5 DEF Next
<1> QED
  BY <1>1, <1>2, InvAlways, PTL DEF Spec

LEMMA NoJobHolds ==
  ASSUME Inv, NEW r \in Requests, Common(main, r)
  PROVE  {j \in LiveJobs : j.request = r} = {}
<1>1. NoRequest # r
  BY RuntimeAssumption
<1>2. \A j : GoodJob(main, j) => j.request # r
  BY <1>1 DEF GoodJob, Common
<1>3. IndexChanged.request # r
  BY <1>1 DEF IndexChanged, Job
<1>4. \A j \in LiveJobs : GoodJob(main, j) \/ j = IndexChanged
  BY DEF LiveJobs, Inv, JobsGood, WorkersGood, EventsGood, GoodEvent
<1> QED
  BY <1>2, <1>3, <1>4

(* Until its one answer a request is in exactly one of the places that     *)
(* answer it: no path of document_runtime.rs, replay and overload          *)
(* included, loses it, keeps it twice or answers it twice.  Debug captures *)
(* alone may be lost.                                                      *)
THEOREM RequestsStayHeld == Spec => []RequestsAreHeld
<1>1. Inv /\ Filed(main, {}) => WaitingIsHeld
  <2> SUFFICES ASSUME Inv, Filed(main, {}), NEW r \in Requests, Common(main, r)
               PROVE  /\ main.requests[r].answers <= 1
                      /\ HeldBy(r) = IF r \in WaitingRequests THEN 1 ELSE 0
    BY DEF WaitingIsHeld, Common
  <2> DEFINE s == main
             A == {u \in Uris : r \in RequestsIn(s.deferredRequests[u])}
             B == {u \in Uris : r \in RequestsIn(s.deferredTokens[u])}
             C == {j \in LiveJobs : j.request = r}
             D == {i \in 1 .. Len(s.replays) : s.replays[i] = r}
  <2>1. HeldBy(r) = Cardinality(A) + Cardinality(B) + Cardinality(C) + Cardinality(D)
    BY DEF HeldBy
  <2>2. C = {}
    BY NoJobHolds
  <2>3. /\ r \in WaitingRequests <=> Stored(s, r) # {}
        /\ s.requests[r].answers =
             IF s.requests[r].state \in {"result", "error"} THEN 1 ELSE 0
    BY DEF Filed, Owed, WaitingRequests
  <2>4. \A b, c \in Stored(s, r) : b = c
    BY DEF Filed, Apart
  <2>5. Once(s.replays)
    BY DEF Filed, Ordered
  <2> HIDE DEF s, C
  <2>6. /\ \A u \in Uris : u \in A <=> RequestBox(u) \in Stored(s, r)
        /\ \A u \in Uris : u \in B <=> TokenBox(u) \in Stored(s, r)
    BY BoxIs, BoxNames DEF Stored
  <2>7. D # {} <=> ReplayBox \in Stored(s, r)
    BY BoxIs, BoxNames DEF Stored, Members
  <2>8. \A i, j \in D : i = j
    BY <2>5 DEF Once
  <2>9. A \subseteq Uris /\ B \subseteq Uris
    OBVIOUS
  <2> HIDE DEF A, B, D
  <2>10. /\ Cardinality({}) = 0
         /\ \A x : Cardinality({x}) = 1
    BY FS_EmptySet, FS_Singleton
  <2>11. CASE Stored(s, r) = {}
    <3>1. A = {} /\ B = {} /\ D = {}
      BY <2>6, <2>7, <2>9, <2>11
    <3> QED
      BY <2>1, <2>2, <2>3, <2>10, <2>11, <3>1 DEF s
  <2> DEFINE One(a, b, d) == /\ Cardinality(A) = a /\ Cardinality(B) = b
                             /\ Cardinality(D) = d
  <2>12. ASSUME NEW b \in Stored(s, r)
         PROVE  One(1, 0, 0) \/ One(0, 1, 0) \/ One(0, 0, 1)
    <3>1. b \in Boxes
      BY DEF Stored
    <3>2. Stored(s, r) = {b}
      BY <2>4
    <3>3. CASE b = ReplayBox
      <4>1. A = {} /\ B = {} /\ D # {}
        BY <2>6, <2>7, <2>9, <3>2, <3>3, BoxNames
      <4>2. PICK i : D = {i}
        BY <2>8, <4>1
      <4>3. One(0, 0, 1)
        BY <2>10, <4>1, <4>2
      <4> QED
        BY <4>3
    <3>4. ASSUME NEW u \in Uris, b = RequestBox(u)
          PROVE  One(1, 0, 0)
      <4>1. A = {u} /\ B = {} /\ D = {}
        BY <2>6, <2>7, <2>9, <3>2, <3>4, BoxNames
      <4> QED
        BY <2>10, <4>1
    <3>5. ASSUME NEW u \in Uris, b = TokenBox(u)
          PROVE  One(0, 1, 0)
      <4>1. A = {} /\ B = {u} /\ D = {}
        BY <2>6, <2>7, <2>9, <3>2, <3>5, BoxNames
      <4> QED
        BY <2>10, <4>1
    <3> QED
      BY <3>1, <3>3, <3>4, <3>5, BoxNames
  <2>13. CASE Stored(s, r) # {}
    <3>1. One(1, 0, 0) \/ One(0, 1, 0) \/ One(0, 0, 1)
      BY <2>12, <2>13
    <3>2. r \in WaitingRequests /\ s.requests[r].answers <= 1
      BY <2>3, <2>13
    <3>3. Cardinality(C) = 0
      BY <2>2, <2>10
    <3>4. HeldBy(r) = 1
      BY <2>1, <3>1, <3>3
    <3> QED
      BY <3>2, <3>4 DEF s
  <2> QED
    BY <2>11, <2>13
<1> QED
  BY <1>1, FiledAlways, DeferredStaysCurrent, PTL DEF RequestsAreHeld
=============================================================================
