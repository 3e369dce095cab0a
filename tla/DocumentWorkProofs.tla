------------------------- MODULE DocumentWorkProofs -------------------------
(***************************************************************************)
(* Proof that work is coming (WorkIsComing): whatever a document still     *)
(* waits for, the analysis runtime retains the task that brings it, for    *)
(* any documents, requests, revisions, generations and sequence numbers.   *)
(*                                                                         *)
(* The inductive invariant is about pairs of a document and its tasks.     *)
(* Fine says of one document which task it has while it is not ready       *)
(* (Staffed), which task computes the projection its token cache calls     *)
(* pending (Projected), and what its deferred token requests wait for      *)
(* (Served); Unflagged says that no flag of a foreground or semantic task  *)
(* is raised while the table retains it; Fits that a job and the           *)
(* projection it computes agree.                                           *)
(*                                                                         *)
(* A step replaces, drops or answers several of these at once, so one      *)
(* operation seldom keeps Fine by itself.  Evolves says what every         *)
(* operation does to the parts Fine is about, Hires what a hand-over of a  *)
(* task does, and Moves, Ends, Still, Advances and Losing are the kinds of *)
(* change an operation makes to one document.  Each operation is shown to  *)
(* be of one kind, and the kinds are composed along the handlers.          *)
(* WorkInv adds what a step needs of the rest of the state: every task the *)
(* table retains has a job, queued, running or waiting in the channel      *)
(* (Carried), under the key of its task (Keyed), and fitting the           *)
(* projection it computes (Fitting); what the executor skips was flagged   *)
(* (SkippedIsFlagged); and requests not yet sent are no captures           *)
(* (Unasked).                                                              *)
(***************************************************************************)
EXTENDS DocumentRuntimeProofs

Has(s, class, u) == <<class, u>> \in DOMAIN s.table.retained
Uncaptured(s) == \A r \in Requests : s.requests[r].kind # "debug"

Staffed(s, u) ==
  LET d == s.documents[u]
  IN  d.revision # 0 /\ ~ d.analysis /\ ~ d.rejected =>
        Has(s, IF d.foreground THEN "semantic" ELSE "foreground", u)

(* The projection a token cache calls pending, and the overlay it shows.   *)
Underway(s, u) ==
  LET p == s.documents[u].pending
  IN  p.generation = generation /\ Uncaptured(s) =>
        /\ Has(s, "rich", u)
        /\ s.table.retained[<<"rich", u>>].task.sequence = p.sequence

Projected(s, u) ==
  LET d == s.documents[u]
      p == d.pending
  IN  /\ Has(s, "rich", u) => d.analysis
      /\ d.overlay.revision <= d.revision
      /\ d.overlay.revision = d.revision /\ d.revision # 0 => d.analysis
      /\ p # NoPending =>
           /\ p.revision = d.revision /\ d.revision # 0
           /\ p.generation <= generation
           /\ Underway(s, u)

Served(s, u) ==
  LET d == s.documents[u]
      p == d.pending
      q == s.deferredTokens[u]
  IN  s.lastGeneration = generation =>
        /\ \A w \in Members(q) : w.generation = generation
        /\ p # NoPending => p.generation = generation
        /\ d.analysis /\ Members(q) # {} => p # NoPending

Fine(s, u) == Staffed(s, u) /\ Projected(s, u) /\ Served(s, u)

(* No flag of a foreground or a semantic task is raised while the table    *)
(* retains it, and no pending projection shares it.                        *)
Unflagged(s) ==
  \A k \in DOMAIN s.table.retained : k[1] # "rich" =>
    /\ s.table.retained[k].task.sequence \notin s.table.cancelled
    /\ \A u \in Uris : s.documents[u].pending # NoPending =>
         s.documents[u].pending.sequence # s.table.retained[k].task.sequence

Working(s) == Unflagged(s) /\ \A u \in Uris : Fine(s, u)

(* The job that computes a pending projection is of its revision and       *)
(* generation.                                                             *)
Fits(s, j) ==
  j.kind = "rich" => \A u \in Uris :
    LET p == s.documents[u].pending
    IN  p # NoPending /\ p.sequence = j.task.sequence =>
          p.generation = j.generation /\ p.revision = j.task.revision

-----------------------------------------------------------------------------
(* A document that a step leaves alone.                                    *)
SameAt(s, t, u) ==
  /\ t.documents[u] = s.documents[u]
  /\ Members(t.deferredTokens[u]) \subseteq Members(s.deferredTokens[u])
  /\ t.lastGeneration = s.lastGeneration
  /\ Uncaptured(t) => Uncaptured(s)
  /\ \A class \in Classes :
       /\ Has(t, class, u) <=> Has(s, class, u)
       /\ Has(s, class, u) => t.table.retained[<<class, u>>] = s.table.retained[<<class, u>>]

Beside(s, t, u) == \A v \in Uris : v # u => SameAt(s, t, v)

LEMMA SameFine ==
  ASSUME NEW s, NEW t, NEW u, SameAt(s, t, u), Fine(s, u)
  PROVE  Fine(t, u)
<1>1. /\ "semantic" \in Classes /\ "foreground" \in Classes /\ "rich" \in Classes
  BY DEF Classes
<1>2. Staffed(t, u)
  BY <1>1 DEF Fine, Staffed, SameAt
<1>3. Projected(t, u)
  BY <1>1 DEF Fine, Projected, Underway, SameAt
<1>4. Served(t, u)
  BY DEF Fine, Served, SameAt
<1> QED
  BY <1>2, <1>3, <1>4 DEF Fine

LEMMA BesideFine ==
  ASSUME NEW s, NEW t, NEW u, Beside(s, t, u), \A v \in Uris : Fine(s, v),
         u \in Uris => Fine(t, u)
  PROVE  \A v \in Uris : Fine(t, v)
<1>1. ASSUME NEW v \in Uris, v # u PROVE Fine(t, v)
  BY <1>1, SameFine DEF Beside
<1> QED
  BY <1>1

LEMMA SameAtTrans ==
  ASSUME NEW s, NEW t, NEW v, NEW u, SameAt(s, t, u), SameAt(t, v, u)
  PROVE  SameAt(s, v, u)
BY DEF SameAt

LEMMA BesideTrans ==
  ASSUME NEW s, NEW t, NEW v, NEW u, Beside(s, t, u), Beside(t, v, u)
  PROVE  Beside(s, v, u)
BY SameAtTrans DEF Beside

(* The tasks of other documents are those of the table's other keys.       *)
Elsewhere(t, r, u) ==
  \A k \in Keys : k[2] # u =>
    /\ k \in DOMAIN r.retained <=> k \in DOMAIN t.retained
    /\ k \in DOMAIN t.retained => r.retained[k] = t.retained[k]

LEMMA BesideParts ==
  ASSUME NEW s, NEW t, NEW u, Elsewhere(s.table, t.table, u),
         t.lastGeneration = s.lastGeneration, Uncaptured(t) => Uncaptured(s),
         \A v \in Uris : v # u => /\ t.documents[v] = s.documents[v]
                                  /\ t.deferredTokens[v] = s.deferredTokens[v]
  PROVE  Beside(s, t, u)
<1>1. \A v \in Uris, class \in Classes :
        <<class, v>> \in Keys /\ <<class, v>>[2] = v
  BY DEF Keys
<1>2. ASSUME NEW v \in Uris, v # u PROVE SameAt(s, t, v)
  BY <1>1, <1>2 DEF SameAt, Elsewhere, Has
<1> QED
  BY <1>2 DEF Beside

LEMMA CancelsElsewhere ==
  ASSUME NEW t, NEW r, NEW u, NEW K, Cancels(t, r, K), \A k \in K : k[2] = u
  PROVE  Elsewhere(t, r, u)
BY DEF Cancels, Elsewhere

LEMMA TakesElsewhere ==
  ASSUME NEW t, NEW r, NEW u, NEW class, NEW id, Takes(t, r, <<class, u>>, id)
  PROVE  Elsewhere(t, r, u)
BY DEF Takes, Elsewhere

LEMMA FollowsUncaptured ==
  ASSUME NEW s, NEW t, Follows(s, t)
  PROVE  Uncaptured(t) <=> Uncaptured(s)
BY DEF Follows, Uncaptured

-----------------------------------------------------------------------------
(* What every function of the loop's state keeps of the work at hand: it   *)
(* raises the flag of a task only if it drops the task or no longer calls  *)
(* the projection pending, and a projection it calls pending is new.       *)
Old(s, t, k) ==
  k \in DOMAIN s.table.retained /\ t.table.retained[k] = s.table.retained[k]

FreshPending(s, t, u) ==
  t.documents[u].pending \notin {NoPending, s.documents[u].pending}

Reuses(s, t) ==
  \A u \in Uris : FreshPending(s, t, u) =>
    t.documents[u].pending.sequence > s.table.sequence

Unasked(s) ==
  \A r \in Requests : s.requests[r].state = "unsent" => s.requests[r].kind # "debug"

Evolves(s, t) ==
  /\ Unflagged(s) => Unflagged(t)
  /\ Unasked(s) => Unasked(t)
  /\ s.table.cancelled \subseteq t.table.cancelled
  /\ t.table.sequence >= s.table.sequence
  /\ Uncaptured(t) => Uncaptured(s)
  /\ Reuses(s, t)

LEMMA SequencesNat ==
  ASSUME NEW s, Good(s)
  PROVE  /\ s.table.sequence \in Nat
         /\ \A k \in DOMAIN s.table.retained :
              /\ k \in Keys /\ KeyOf(s.table.retained[k].task) = k
              /\ s.table.retained[k].task.sequence \in 1 .. s.table.sequence
         /\ \A k, l \in DOMAIN s.table.retained :
              s.table.retained[k].task.sequence = s.table.retained[l].task.sequence
                => k = l
         /\ s.table.cancelled \subseteq 1 .. s.table.sequence
         /\ \A u \in Uris : s.documents[u].pending # NoPending =>
              s.documents[u].pending.sequence \in 1 .. s.table.sequence
BY DEF Good, MainTypes, Idle, IsTable, IsMap, PendingIssued

LEMMA EvolvesTrans ==
  ASSUME NEW s, Good(s), NEW t, Good(t), NEW v, Good(v), Evolves(s, t), Evolves(t, v)
  PROVE  Evolves(s, v)
<1>1. s.table.sequence \in Nat /\ t.table.sequence \in Nat /\ v.table.sequence \in Nat
  BY SequencesNat
<1>2. v.table.sequence >= s.table.sequence
  BY <1>1 DEF Evolves
<1>3. ASSUME NEW u \in Uris, FreshPending(s, v, u)
      PROVE  v.documents[u].pending.sequence > s.table.sequence
  <2>1. CASE FreshPending(t, v, u)
    <3>1. v.documents[u].pending.sequence > t.table.sequence
      BY <2>1 DEF Evolves, Reuses
    <3>2. v.documents[u].pending.sequence \in Nat
      BY <1>1, <1>3, SequencesNat DEF FreshPending
    <3> QED
      BY <1>1, <3>1, <3>2 DEF Evolves
  <2>2. CASE ~ FreshPending(t, v, u)
    <3>1. v.documents[u].pending = t.documents[u].pending /\ FreshPending(s, t, u)
      BY <1>3, <2>2 DEF FreshPending
    <3> QED
      BY <3>1 DEF Evolves, Reuses
  <2> QED
    BY <2>1, <2>2
<1> QED
  BY <1>2, <1>3 DEF Evolves, Reuses

LEMMA FollowsUnasked ==
  ASSUME NEW s, NEW t, Follows(s, t)
  PROVE  Unasked(s) => Unasked(t)
BY DEF Follows, Unasked

(* The flags that a step raises.                                           *)
Raised(s, t, n) ==
  \/ n \in s.table.cancelled
  \/ \E u \in Uris : /\ s.documents[u].pending # NoPending
                     /\ n = s.documents[u].pending.sequence
  \/ \E k \in DOMAIN s.table.retained :
       /\ n = s.table.retained[k].task.sequence
       /\ ~ (k \in DOMAIN t.table.retained /\ Old(s, t, k))

LEMMA EvolvesParts ==
  ASSUME NEW s, Good(s), NEW t, Good(t), Follows(s, t), Reuses(s, t),
         \A k \in DOMAIN t.table.retained :
           Old(s, t, k) \/ t.table.retained[k].task.sequence > s.table.sequence,
         s.table.cancelled \subseteq t.table.cancelled,
         \A n \in t.table.cancelled : Raised(s, t, n),
         \A u \in Uris, k \in DOMAIN t.table.retained :
           FreshPending(s, t, u) => k[1] = "rich" \/ Old(s, t, k)
  PROVE  Evolves(s, t)
<1>1. s.table.sequence \in Nat /\ t.table.sequence >= s.table.sequence
  BY SequencesNat DEF Follows
<1>2. ASSUME Unflagged(s), NEW k \in DOMAIN t.table.retained, k[1] # "rich"
      PROVE  /\ t.table.retained[k].task.sequence \notin t.table.cancelled
             /\ \A u \in Uris : t.documents[u].pending # NoPending =>
                  t.documents[u].pending.sequence # t.table.retained[k].task.sequence
  <2> DEFINE n == t.table.retained[k].task.sequence
  <2>1. CASE Old(s, t, k)
    <3>1. /\ k \in DOMAIN s.table.retained /\ n = s.table.retained[k].task.sequence
          /\ n \in 1 .. s.table.sequence /\ n \notin s.table.cancelled
          /\ \A u \in Uris : s.documents[u].pending # NoPending =>
               s.documents[u].pending.sequence # n
      BY <1>2, <2>1, SequencesNat DEF Old, Unflagged
    <3>2. ASSUME n \in t.table.cancelled PROVE FALSE
      <4>1. Raised(s, t, n)
        BY <3>2
      <4>2. PICK l \in DOMAIN s.table.retained :
              /\ n = s.table.retained[l].task.sequence
              /\ ~ (l \in DOMAIN t.table.retained /\ Old(s, t, l))
        BY <3>1, <4>1 DEF Raised
      <4>3. l = k
        BY <3>1, <4>2, SequencesNat
      <4> QED
        BY <1>2, <2>1, <4>2, <4>3
    <3>3. ASSUME NEW u \in Uris, t.documents[u].pending # NoPending
          PROVE  t.documents[u].pending.sequence # n
      <4>1. CASE FreshPending(s, t, u)
        BY <1>1, <3>1, <4>1 DEF Reuses
      <4>2. CASE ~ FreshPending(s, t, u)
        BY <3>1, <3>3, <4>2 DEF FreshPending
      <4> QED
        BY <4>1, <4>2
    <3> QED
      BY <3>2, <3>3
  <2>2. CASE ~ Old(s, t, k)
    <3>1. n > s.table.sequence
      BY <2>2
    <3>2. /\ s.table.cancelled \subseteq 1 .. s.table.sequence
          /\ \A u \in Uris : s.documents[u].pending # NoPending =>
               s.documents[u].pending.sequence \in 1 .. s.table.sequence
          /\ \A l \in DOMAIN s.table.retained :
               s.table.retained[l].task.sequence \in 1 .. s.table.sequence
      BY SequencesNat
    <3>3. n \notin 1 .. s.table.sequence
      BY <1>1, <3>1
    <3>4. n \notin t.table.cancelled
      BY <3>2, <3>3 DEF Raised
    <3>5. ASSUME NEW u \in Uris, t.documents[u].pending # NoPending
          PROVE  t.documents[u].pending.sequence # n
      <4>1. ~ FreshPending(s, t, u)
        BY <1>2, <2>2
      <4> QED
        BY <3>2, <3>3, <3>5, <4>1 DEF FreshPending
    <3> QED
      BY <3>4, <3>5
  <2> QED
    BY <2>1, <2>2
<1>3. Unflagged(s) => Unflagged(t)
  BY <1>2 DEF Unflagged
<1>4. (Uncaptured(t) => Uncaptured(s)) /\ (Unasked(s) => Unasked(t))
  BY FollowsUncaptured, FollowsUnasked
<1> QED
  BY <1>1, <1>3, <1>4 DEF Evolves

LEMMA EvolvesFits ==
  ASSUME NEW s, Good(s), NEW t, Evolves(s, t), NEW j, GoodJob(s, j), Fits(s, j)
  PROVE  Fits(t, j)
<1>1. s.table.sequence \in Nat /\ j.task.sequence \in 1 .. s.table.sequence
  BY SequencesNat DEF GoodJob
<1>2. ASSUME NEW u \in Uris, j.kind = "rich", t.documents[u].pending # NoPending,
             t.documents[u].pending.sequence = j.task.sequence
      PROVE  /\ t.documents[u].pending.generation = j.generation
             /\ t.documents[u].pending.revision = j.task.revision
  <2>1. ~ FreshPending(s, t, u)
    BY <1>1, <1>2 DEF Evolves, Reuses
  <2>2. t.documents[u].pending = s.documents[u].pending
    BY <1>2, <2>1 DEF FreshPending
  <2> QED
    BY <1>2, <2>2 DEF Fits
<1> QED
  BY <1>2 DEF Fits

-----------------------------------------------------------------------------
(* The tasks that a step leaves, and the job it schedules.                 *)
Fewer(s, t) == \A k \in DOMAIN t.table.retained : Old(s, t, k)

Hires(s, t, J) ==
  \/ J = jobs /\ Fewer(s, t)
  \/ \E j : /\ Fits(t, j) /\ J = Schedule(jobs, j)
            /\ \A k \in DOMAIN t.table.retained :
                 IF k = KeyOf(j.task) THEN t.table.retained[k].task = j.task
                 ELSE Old(s, t, k)

LEMMA FewerTrans ==
  ASSUME NEW s, NEW t, NEW v, Fewer(s, t), Fewer(t, v)
  PROVE  Fewer(s, v)
BY DEF Fewer, Old

LEMMA FewerHires ==
  ASSUME NEW s, NEW t, NEW v, NEW J, Fewer(s, t), Hires(t, v, J)
  PROVE  Hires(s, v, J)
<1>1. \A k : Old(t, v, k) => Old(s, v, k)
  BY DEF Fewer, Old
<1> QED
  BY <1>1 DEF Fewer, Hires

LEMMA HiresFewer ==
  ASSUME NEW s, NEW t, NEW J, Hires(s, t, J), NEW v, v.table = t.table,
         \A u \in Uris : v.documents[u].pending = t.documents[u].pending
  PROVE  Hires(s, v, J)
<1>1. \A j : Fits(t, j) => Fits(v, j)
  BY DEF Fits
<1>2. \A k : Old(s, t, k) => Old(s, v, k)
  BY DEF Old
<1> QED
  BY <1>1, <1>2 DEF Fewer, Hires

LEMMA KeepsEvolves ==
  ASSUME NEW s, Good(s), NEW t, Good(t), Follows(s, t),
         t.table.retained = s.table.retained, t.table.cancelled = s.table.cancelled,
         \A u \in Uris : t.documents[u].pending \in {NoPending, s.documents[u].pending}
  PROVE  Evolves(s, t) /\ Fewer(s, t)
<1>1. \A k \in DOMAIN t.table.retained : Old(s, t, k)
  BY DEF Old
<1>2. Reuses(s, t) /\ \A u \in Uris : ~ FreshPending(s, t, u)
  BY DEF Reuses, FreshPending
<1>3. \A n \in t.table.cancelled : Raised(s, t, n)
  BY DEF Raised
<1>4. Evolves(s, t)
  BY <1>1, <1>2, <1>3, EvolvesParts
<1> QED
  BY <1>1, <1>4 DEF Fewer

LEMMA CancelsEvolves ==
  ASSUME NEW s, Good(s), NEW t, Good(t), Follows(s, t),
         NEW K, Cancels(s.table, t.table, K),
         \A u \in Uris : t.documents[u].pending \in {NoPending, s.documents[u].pending}
  PROVE  Evolves(s, t) /\ Fewer(s, t)
<1>1. \A k \in DOMAIN t.table.retained : Old(s, t, k)
  BY DEF Old, Cancels
<1>2. Reuses(s, t) /\ \A u \in Uris : ~ FreshPending(s, t, u)
  BY DEF Reuses, FreshPending
<1>3. \A n \in t.table.cancelled : Raised(s, t, n)
  BY DEF Raised, Cancels
<1>4. s.table.cancelled \subseteq t.table.cancelled
  BY DEF Cancels
<1>5. Evolves(s, t)
  BY <1>1, <1>2, <1>3, <1>4, EvolvesParts
<1> QED
  BY <1>1, <1>5 DEF Fewer

LEMMA StopsEvolves ==
  ASSUME NEW s, Good(s), NEW t, NEW u \in Uris, Stops(s, t, u)
  PROVE  Evolves(s, t) /\ Fewer(s, t) /\ Beside(s, t, u)
<1>1. Good(t) /\ Rejecting(s, t) /\ Follows(s, t)
  BY CancelRejecting DEF Stops, Rejecting
<1>2. /\ t.table.retained = s.table.retained
      /\ s.table.cancelled \subseteq t.table.cancelled
  BY DEF Stops, Flags
<1>3. /\ \A v \in Uris : v # u => t.documents[v] = s.documents[v]
      /\ t.documents[u].pending = NoPending
      /\ t.deferredTokens = s.deferredTokens /\ t.lastGeneration = s.lastGeneration
  <2>1. u \in DOMAIN s.documents /\ s.documents[u] \in Documents
    BY DEF Good, MainTypes
  <2>2. WithPending(s.documents[u], NoPending).pending = NoPending
    BY <2>1, PendingType DEF NoPending
  <2> QED
    BY <2>1, <2>2 DEF Stops, Keeps, Fields
<1>4. \A k \in DOMAIN t.table.retained : Old(s, t, k)
  BY <1>2 DEF Old
<1>5. Reuses(s, t) /\ \A v \in Uris : ~ FreshPending(s, t, v)
  BY <1>3 DEF Reuses, FreshPending
<1>6. \A n \in t.table.cancelled : Raised(s, t, n)
  BY DEF Raised, Stops, Flags
<1>7. Evolves(s, t)
  BY <1>1, <1>2, <1>4, <1>5, <1>6, EvolvesParts
<1>8. Elsewhere(s.table, t.table, u) /\ (Uncaptured(t) => Uncaptured(s))
  BY <1>1, <1>2, FollowsUncaptured DEF Elsewhere
<1>9. Beside(s, t, u)
  BY <1>3, <1>8, BesideParts
<1> QED
  BY <1>4, <1>7, <1>9 DEF Fewer

(* A task that is admitted and taken, and the job it is given.             *)
LEMMA TakesEvolves ==
  ASSUME NEW s, Good(s), NEW t, Good(t), Follows(s, t), NEW key, NEW id,
         Takes(s.table, t.table, key, id), id.sequence = s.table.sequence + 1,
         \A u \in Uris : t.documents[u].pending \in {NoPending, s.documents[u].pending}
  PROVE  Evolves(s, t)
<1>1. s.table.sequence \in Nat
  BY SequencesNat
<1>2. \A k \in DOMAIN t.table.retained :
        \/ k # key /\ Old(s, t, k)
        \/ k = key /\ t.table.retained[k].task.sequence > s.table.sequence
  BY <1>1 DEF Old, Takes
<1>3. Reuses(s, t) /\ \A u \in Uris : ~ FreshPending(s, t, u)
  BY DEF Reuses, FreshPending
<1>4. s.table.cancelled \subseteq t.table.cancelled
  BY DEF Takes
<1>5. ~ (key \in DOMAIN s.table.retained /\ Old(s, t, key))
  <2>1. t.table.retained[key].task.sequence > s.table.sequence
    BY <1>1 DEF Takes
  <2>2. key \in DOMAIN s.table.retained =>
          s.table.retained[key].task.sequence <= s.table.sequence
    BY <1>1, SequencesNat
  <2>3. key \in DOMAIN s.table.retained =>
          s.table.retained[key].task.sequence \in Nat
    BY <1>1, SequencesNat
  <2> QED
    BY <1>1, <2>1, <2>2, <2>3 DEF Old
<1>6. \A n \in t.table.cancelled : Raised(s, t, n)
  BY <1>5 DEF Raised, Takes
<1> QED
  BY <1>2, <1>3, <1>4, <1>6, EvolvesParts

(* The other tasks of the document itself.                                 *)
Otherwise(s, t, u, class) ==
  \A c \in Classes : c # class =>
    /\ Has(t, c, u) <=> Has(s, c, u)
    /\ Has(s, c, u) => t.table.retained[<<c, u>>] = s.table.retained[<<c, u>>]

LEMMA StartsHires ==
  ASSUME NEW s, Good(s), NEW o, Good(o.s), Follows(s, o.s), NEW class \in Classes,
         NEW u \in Uris, NEW kind, kind # "rich", NEW g, NEW r,
         StartsTask(s, o, class, u, kind, g, r)
  PROVE  /\ Evolves(s, o.s) /\ Hires(s, o.s, o.jobs) /\ Beside(s, o.s, u)
         /\ Has(o.s, class, u) /\ Otherwise(s, o.s, u, class)
         /\ o.s.documents = s.documents /\ o.s.deferredTokens = s.deferredTokens
<1> DEFINE id == NewTask(s, class, u)
           j == Job(id, kind, g, r)
           t == o.s
<1>1. /\ Keeps(s, t, {"table"}) /\ Takes(s.table, t.table, <<class, u>>, id)
      /\ o.jobs = Schedule(jobs, j)
  BY DEF StartsTask
<1>2. /\ id.sequence = s.table.sequence + 1 /\ KeyOf(id) = <<class, u>>
      /\ j.task = id /\ j.kind = kind
  BY NewTaskType DEF KeyOf, Job
<1> HIDE DEF id, j, t
<1>3. /\ t.documents = s.documents /\ t.deferredTokens = s.deferredTokens
      /\ t.lastGeneration = s.lastGeneration
  BY <1>1 DEF Keeps, Fields
<1>4. Evolves(s, t)
  BY <1>1, <1>2, <1>3, TakesEvolves DEF t
<1>5. /\ Elsewhere(s.table, t.table, u) /\ Has(t, class, u)
      /\ Otherwise(s, t, u, class)
  <2>1. Elsewhere(s.table, t.table, u)
    BY <1>1, TakesElsewhere
  <2> QED
    BY <1>1, <2>1 DEF Takes, Has, Otherwise
<1>6. Beside(s, t, u)
  BY <1>3, <1>5, BesideParts, FollowsUncaptured DEF t
<1>7. Fits(t, j)
  BY <1>2 DEF Fits
<1>8. \A k \in DOMAIN t.table.retained :
        IF k = KeyOf(j.task) THEN t.table.retained[k].task = j.task ELSE Old(s, t, k)
  BY <1>1, <1>2 DEF Takes, Old
<1>9. Hires(s, t, o.jobs)
  BY <1>1, <1>7, <1>8 DEF Hires
<1> QED
  BY <1>3, <1>4, <1>5, <1>6, <1>9 DEF t

LEMMA CancelsBeside ==
  ASSUME NEW s, NEW t, NEW u, NEW K, Cancels(s.table, t.table, K), \A k \in K : k[2] = u,
         t.lastGeneration = s.lastGeneration, Follows(s, t),
         \A v \in Uris : v # u => /\ t.documents[v] = s.documents[v]
                                  /\ t.deferredTokens[v] = s.deferredTokens[v]
  PROVE  Beside(s, t, u)
<1>1. Elsewhere(s.table, t.table, u)
  BY CancelsElsewhere
<1> QED
  BY <1>1, BesideParts, FollowsUncaptured

LEMMA CancelsOtherwise ==
  ASSUME NEW s, NEW t, NEW u, NEW class, Cancels(s.table, t.table, {<<class, u>>})
  PROVE  ~ Has(t, class, u) /\ Otherwise(s, t, u, class)
BY DEF Cancels, Has, Otherwise

LEMMA ForegroundWorks ==
  ASSUME NEW s, Good(s), NEW u \in Uris, NEW o, ForegroundAdmitted(s, o, u)
  PROVE  /\ Evolves(s, o.s) /\ Hires(s, o.s, o.jobs) /\ Beside(s, o.s, u)
         /\ Otherwise(s, o.s, u, "foreground")
         /\ \/ Has(o.s, "foreground", u) /\ o.s.documents[u] = s.documents[u]
            \/ o.s.documents[u] = WithRejected(s.documents[u])
         /\ o.s.deferredTokens = s.deferredTokens
<1>1. Good(o.s) /\ Follows(s, o.s) /\ "foreground" \in Classes
  BY DEF ForegroundAdmitted, Rejecting, Classes
<1>2. CASE StartsTask(s, o, "foreground", u, "foreground", 0, NoRequest)
  BY <1>1, <1>2, StartsHires
<1>3. CASE /\ Keeps(s, o.s, {"table", "documents"})
           /\ Cancels(s.table, o.s.table, {<<"foreground", u>>})
           /\ o.s.documents = [s.documents EXCEPT ![u] = WithRejected(s.documents[u])]
           /\ o.jobs = jobs
  <2>1. u \in DOMAIN s.documents /\ s.documents[u] \in Documents
    BY DEF Good, MainTypes
  <2>2. /\ o.s.documents[u] = WithRejected(s.documents[u])
        /\ \A v \in Uris : v # u => o.s.documents[v] = s.documents[v]
        /\ o.s.deferredTokens = s.deferredTokens
        /\ o.s.lastGeneration = s.lastGeneration
    BY <1>3, <2>1 DEF Keeps, Fields
  <2>3. \A v \in Uris : o.s.documents[v].pending = s.documents[v].pending
    BY <2>1, <2>2, RejectedType
  <2> DEFINE K == {<<"foreground", u>>}
  <2>6. Cancels(s.table, o.s.table, K) /\ \A k \in K : k[2] = u
    BY <1>3
  <2> HIDE DEF K
  <2>4. Evolves(s, o.s) /\ Fewer(s, o.s)
    BY <1>1, <2>3, <2>6, CancelsEvolves
  <2>5. Beside(s, o.s, u)
    BY <1>1, <2>2, <2>6, CancelsBeside
  <2> QED
    BY <1>3, <2>2, <2>4, <2>5, CancelsOtherwise DEF Hires
<1> QED
  BY <1>2, <1>3 DEF ForegroundAdmitted

LEMMA SemanticWorks ==
  ASSUME NEW s, Good(s), NEW u \in Uris, NEW o, SemanticAdmitted(s, o, u)
  PROVE  /\ Evolves(s, o.s) /\ Hires(s, o.s, o.jobs) /\ Beside(s, o.s, u)
         /\ Otherwise(s, o.s, u, "semantic")
         /\ o.s.lastGeneration = s.lastGeneration
         /\ \/ /\ Has(o.s, "semantic", u) /\ o.s.documents[u] = s.documents[u]
               /\ o.s.deferredTokens[u] = s.deferredTokens[u]
            \/ /\ o.s.documents[u] = WithRejected(s.documents[u])
               /\ \E S : o.s.deferredTokens[u] = Kept(s.deferredTokens[u], S)
<1>1. Good(o.s) /\ Follows(s, o.s) /\ "semantic" \in Classes
  BY DEF SemanticAdmitted, Rejecting, Classes
<1>2. CASE StartsTask(s, o, "semantic", u, "semantic", 0, NoRequest)
  <2>1. o.s.lastGeneration = s.lastGeneration
    BY <1>2 DEF StartsTask, Keeps, Fields
  <2> QED
    BY <1>1, <1>2, <2>1, StartsHires
<1>3. CASE ~ StartsTask(s, o, "semantic", u, "semantic", 0, NoRequest)
  <2> DEFINE S == TokenWaiters \ Rejects({s.documents[u].revision}, Nat)
  <2>1. /\ u \in DOMAIN s.documents /\ s.documents[u] \in Documents
        /\ u \in DOMAIN s.deferredTokens
    BY DEF Good, MainTypes
  <2> HIDE DEF S
  <2>2. /\ Keeps(s, o.s, {"table", "documents", "requests", "deferredRequests",
                          "deferredTokens"})
        /\ Cancels(s.table, o.s.table, {<<"semantic", u>>})
        /\ o.s.documents = [s.documents EXCEPT ![u] = WithRejected(s.documents[u])]
        /\ o.s.deferredTokens = [s.deferredTokens EXCEPT ![u] = Kept(s.deferredTokens[u], S)]
        /\ o.jobs = jobs
    BY <1>3 DEF SemanticAdmitted, S
  <2>3. /\ o.s.documents[u] = WithRejected(s.documents[u])
        /\ \A v \in Uris : v # u => /\ o.s.documents[v] = s.documents[v]
                                    /\ o.s.deferredTokens[v] = s.deferredTokens[v]
        /\ o.s.deferredTokens[u] = Kept(s.deferredTokens[u], S)
        /\ o.s.lastGeneration = s.lastGeneration
    BY <2>1, <2>2 DEF Keeps, Fields
  <2>4. \A v \in Uris : o.s.documents[v].pending = s.documents[v].pending
    BY <2>1, <2>3, RejectedType
  <2> DEFINE K == {<<"semantic", u>>}
  <2>7. Cancels(s.table, o.s.table, K) /\ \A k \in K : k[2] = u
    BY <2>2
  <2> HIDE DEF K
  <2>5. Evolves(s, o.s) /\ Fewer(s, o.s)
    BY <1>1, <2>4, <2>7, CancelsEvolves
  <2>6. Beside(s, o.s, u)
    BY <1>1, <2>3, <2>7, CancelsBeside
  <2> QED
    BY <2>2, <2>3, <2>5, <2>6, CancelsOtherwise DEF Hires
<1> QED
  BY <1>2, <1>3

LEMMA RichStartedWorks ==
  ASSUME NEW s, Good(s), NEW u \in Uris, NEW g \in Nat, NEW o, Good(o.s), Follows(s, o.s),
         RichStarted(s, o, u, g)
  PROVE  /\ Evolves(s, o.s) /\ Hires(s, o.s, o.jobs) /\ Beside(s, o.s, u)
         /\ Otherwise(s, o.s, u, "rich") /\ Has(o.s, "rich", u)
         /\ o.s.lastGeneration = s.lastGeneration
         /\ o.s.deferredTokens = s.deferredTokens
         /\ o.s.table.retained[<<"rich", u>>].task.sequence = s.table.sequence + 1
         /\ o.s.documents[u] = WithPending(s.documents[u], Projection(s, u, g))
<1> DEFINE id == NewTask(s, "rich", u)
           t == o.s
           n == Projection(s, u, g)
           key == <<"rich", u>>
           j == Job(id, "rich", g, NoRequest)
<1>1. /\ id.sequence = s.table.sequence + 1 /\ KeyOf(id) = key
      /\ id.revision = s.documents[u].revision
  BY NewTaskType DEF KeyOf, Classes
<1>2. /\ s.table.sequence \in Nat /\ u \in DOMAIN s.documents
      /\ s.documents[u] \in Documents
  BY SequencesNat DEF Good, MainTypes
<1>3. /\ n.sequence = s.table.sequence + 1 /\ n.generation = g
      /\ n.revision = s.documents[u].revision
      /\ WithPending(s.documents[u], n).pending = n
      /\ j.task = id /\ j.kind = "rich" /\ j.generation = g
  <2>1. s.documents[u].revision \in Nat
    BY <1>2 DEF Documents
  <2>2. n \in [revision : Nat, generation : Nat, sequence : Nat]
    BY <1>2, <2>1 DEF Projection
  <2> QED
    BY <1>2, <2>2, PendingType DEF Projection, Job
<1>4. PICK m : /\ Takes(s.table, m, key, id)
               /\ Flags(m, t.table, s.documents[u].pending)
  BY DEF RichStarted
<1>5. /\ Keeps(s, t, {"table", "documents"})
      /\ t.documents = [s.documents EXCEPT ![u] = WithPending(s.documents[u], n)]
      /\ o.jobs = Schedule(jobs, j)
  BY DEF RichStarted
<1> HIDE DEF id, t, n, j
<1>6. /\ t.documents[u] = WithPending(s.documents[u], n) /\ t.documents[u].pending = n
      /\ \A v \in Uris : v # u => t.documents[v] = s.documents[v]
      /\ t.deferredTokens = s.deferredTokens /\ t.lastGeneration = s.lastGeneration
  BY <1>2, <1>3, <1>5 DEF Keeps, Fields
<1>7. /\ DOMAIN t.table.retained = (DOMAIN s.table.retained) \union {key}
      /\ \A k \in DOMAIN s.table.retained : k # key =>
           t.table.retained[k] = s.table.retained[k]
      /\ t.table.retained[key].task = id
      /\ s.table.cancelled \subseteq t.table.cancelled
      /\ \A r \in t.table.cancelled :
           \/ r \in s.table.cancelled
           \/ /\ s.documents[u].pending # NoPending
              /\ r = s.documents[u].pending.sequence
           \/ key \in DOMAIN s.table.retained /\ r = s.table.retained[key].task.sequence
  BY <1>4 DEF Takes, Flags
<1>8. Reuses(s, t)
  BY <1>2, <1>3, <1>6 DEF Reuses, FreshPending
<1>9. \A k \in DOMAIN t.table.retained :
        \/ k = key /\ t.table.retained[k].task.sequence > s.table.sequence
        \/ Old(s, t, k)
  BY <1>1, <1>2, <1>7 DEF Old
<1>10. key \in DOMAIN s.table.retained => ~ Old(s, t, key)
  <2>1. t.table.retained[key].task.sequence = s.table.sequence + 1
    BY <1>1, <1>7
  <2>2. key \in DOMAIN s.table.retained =>
          s.table.retained[key].task.sequence \in 1 .. s.table.sequence
    BY SequencesNat
  <2> QED
    BY <1>2, <2>1, <2>2 DEF Old
<1>11. \A r \in t.table.cancelled : Raised(s, t, r)
  BY <1>7, <1>10 DEF Raised
<1>12. \A v \in Uris, k \in DOMAIN t.table.retained :
         FreshPending(s, t, v) => k[1] = "rich" \/ Old(s, t, k)
  BY <1>9
<1>13. Evolves(s, t)
  BY <1>8, <1>9, <1>11, <1>12, <1>7, EvolvesParts DEF t
<1>14. Fits(t, j)
  <2> SUFFICES ASSUME NEW v \in Uris, t.documents[v].pending # NoPending,
                      t.documents[v].pending.sequence = j.task.sequence
               PROVE  /\ t.documents[v].pending.generation = j.generation
                      /\ t.documents[v].pending.revision = j.task.revision
    BY DEF Fits
  <2>1. v = u
    <3>1. ASSUME v # u PROVE FALSE
      <4>1. s.documents[v].pending.sequence \in 1 .. s.table.sequence
        BY <1>6, <3>1, SequencesNat
      <4> QED
        BY <1>1, <1>2, <1>3, <1>6, <3>1, <4>1
    <3> QED
      BY <3>1
  <2> QED
    BY <1>1, <1>3, <1>6, <2>1
<1>15. Hires(s, t, o.jobs)
  <2>1. \A k \in DOMAIN t.table.retained :
          IF k = KeyOf(j.task) THEN t.table.retained[k].task = j.task ELSE Old(s, t, k)
    BY <1>1, <1>3, <1>7 DEF Old
  <2> QED
    BY <1>5, <1>14, <2>1 DEF Hires
<1>16. Elsewhere(s.table, t.table, u) /\ Otherwise(s, t, u, "rich") /\ Has(t, "rich", u)
  BY <1>7 DEF Elsewhere, Otherwise, Has
<1>17. Beside(s, t, u)
  BY <1>6, <1>16, BesideParts, FollowsUncaptured DEF t
<1>18. t.table.retained[<<"rich", u>>].task.sequence = s.table.sequence + 1
  BY <1>1, <1>7
<1> QED
  BY <1>6, <1>13, <1>15, <1>16, <1>17, <1>18 DEF t, n

LEMMA KeptMembers ==
  ASSUME NEW s, Good(s), NEW u \in Uris, NEW S
  PROVE  Members(Kept(s.deferredTokens[u], S)) = Members(s.deferredTokens[u]) \cap S
<1>1. s.deferredTokens[u] \in Seq(TokenWaiters)
  BY DEF Good, MainTypes
<1> QED
  BY <1>1, KeptProperties

LEMMA WaiterTypes ==
  ASSUME NEW s, Good(s), NEW u \in Uris
  PROVE  Members(s.deferredTokens[u]) \subseteq TokenWaiters
<1>1. s.deferredTokens[u] \in Seq(TokenWaiters)
  BY DEF Good, MainTypes
<1> QED
  BY <1>1, MembersType

LEMMA RichRefusedWorks ==
  ASSUME NEW s, Good(s), NEW u \in Uris, NEW g \in Nat, NEW o, Good(o.s), Follows(s, o.s),
         RichRefused(s, o, u, g)
  PROVE  /\ Evolves(s, o.s) /\ Hires(s, o.s, o.jobs) /\ Beside(s, o.s, u)
         /\ Otherwise(s, o.s, u, "rich") /\ ~ Has(o.s, "rich", u)
         /\ o.s.lastGeneration = s.lastGeneration
         /\ o.s.documents = s.documents
         /\ \A w \in Members(o.s.deferredTokens[u]) :
              /\ w \in Members(s.deferredTokens[u])
              /\ ~ (w.revision = s.documents[u].revision /\ w.generation = g)
<1> DEFINE K == {<<"rich", u>>}
           S == TokenWaiters \ Rejects({s.documents[u].revision}, {g})
           q == Kept(s.deferredTokens[u], S)
<1>1. u \in DOMAIN s.deferredTokens
  BY DEF Good, MainTypes
<1> HIDE DEF S
<1>8. \A w \in Members(q) :
        /\ w \in Members(s.deferredTokens[u])
        /\ ~ (w.revision = s.documents[u].revision /\ w.generation = g)
  <2>1. Members(q) = Members(s.deferredTokens[u]) \cap S
    BY KeptMembers
  <2>2. \A w \in S : ~ (w.revision = s.documents[u].revision /\ w.generation = g)
    BY DEF S, TokenWaiters, Rejects
  <2> QED
    BY <2>1, <2>2
<1> HIDE DEF q
<1>2. /\ Keeps(s, o.s, {"table", "requests", "deferredTokens"})
      /\ Cancels(s.table, o.s.table, K)
      /\ o.s.deferredTokens = [s.deferredTokens EXCEPT ![u] = q]
      /\ o.jobs = jobs
  BY DEF RichRefused, q, S
<1>3. ~ Has(o.s, "rich", u) /\ Otherwise(s, o.s, u, "rich")
  <2>1. Cancels(s.table, o.s.table, {<<"rich", u>>})
    BY <1>2
  <2> QED
    BY <2>1, CancelsOtherwise
<1>7. \A k \in K : k[2] = u
  OBVIOUS
<1> HIDE DEF K
<1>4. /\ o.s.documents = s.documents /\ o.s.lastGeneration = s.lastGeneration
      /\ o.s.deferredTokens[u] = q
      /\ \A v \in Uris : v # u => o.s.deferredTokens[v] = s.deferredTokens[v]
  BY <1>1, <1>2 DEF Keeps, Fields
<1>5. Evolves(s, o.s) /\ Fewer(s, o.s)
  BY <1>2, <1>4, CancelsEvolves
<1>6. Beside(s, o.s, u)
  BY <1>2, <1>4, <1>7, CancelsBeside
<1> QED
  BY <1>2, <1>3, <1>4, <1>5, <1>6, <1>8 DEF Hires

-----------------------------------------------------------------------------
(* A step between two states of the loop that touches one document, and a  *)
(* handler's last step, which may also schedule a job.                     *)
Moves(s, t, u) ==
  Good(t) /\ Follows(s, t) /\ Evolves(s, t) /\ Fewer(s, t) /\ Beside(s, t, u)

Ends(s, o, u) ==
  /\ Good(o.s) /\ Follows(s, o.s) /\ Evolves(s, o.s)
  /\ Hires(s, o.s, o.jobs) /\ Beside(s, o.s, u)

LEMMA MovesTrans ==
  ASSUME NEW s, Good(s), NEW t, NEW v, NEW u, Moves(s, t, u), Moves(t, v, u)
  PROVE  Moves(s, v, u)
<1>1. Good(t) /\ Good(v) /\ Follows(s, v)
  BY FollowsTrans DEF Moves
<1>2. Evolves(s, v)
  BY <1>1, EvolvesTrans DEF Moves
<1>3. Fewer(s, v)
  BY FewerTrans DEF Moves
<1>4. Beside(s, v, u)
  BY BesideTrans DEF Moves
<1> QED
  BY <1>1, <1>2, <1>3, <1>4 DEF Moves

LEMMA MovesEnds ==
  ASSUME NEW s, Good(s), NEW t, NEW o, NEW u, Moves(s, t, u), Ends(t, o, u)
  PROVE  Ends(s, o, u)
<1>1. Good(t) /\ Good(o.s) /\ Follows(s, o.s)
  BY FollowsTrans DEF Moves, Ends
<1>2. Evolves(s, o.s)
  BY <1>1, EvolvesTrans DEF Moves, Ends
<1>3. Hires(s, o.s, o.jobs)
  BY FewerHires DEF Moves, Ends
<1>4. Beside(s, o.s, u)
  BY BesideTrans DEF Moves, Ends
<1> QED
  BY <1>1, <1>2, <1>3, <1>4 DEF Ends

LEMMA MovedEnds ==
  ASSUME NEW s, NEW t, NEW u, Moves(s, t, u)
  PROVE  Ends(s, Outcome(t, jobs), u)
BY OutcomeParts DEF Moves, Ends, Hires

LEMMA EndsMoved ==
  ASSUME NEW s, Good(s), NEW o, NEW u, Ends(s, o, u), NEW t, Moves(o.s, t, u),
         t.table = o.s.table, t.documents = o.s.documents
  PROVE  Ends(s, Outcome(t, o.jobs), u)
<1>1. Good(o.s) /\ Good(t) /\ Follows(s, t)
  BY FollowsTrans DEF Moves, Ends
<1>2. Evolves(s, t)
  BY <1>1, EvolvesTrans DEF Moves, Ends
<1> DEFINE J == o.jobs
           m == o.s
<1>3. Hires(s, m, J) /\ t.table = m.table
      /\ \A v \in Uris : t.documents[v].pending = m.documents[v].pending
  BY DEF Ends
<1> HIDE DEF J, m
<1>4. Hires(s, t, J)
  BY <1>3, HiresFewer
<1>5. Beside(s, t, u)
  BY BesideTrans DEF Moves, Ends
<1> QED
  BY <1>1, <1>2, <1>4, <1>5, OutcomeParts DEF Ends, J

(* A step that touches no task, no document and no token request.          *)
Still(s, t) ==
  /\ Good(t) /\ Follows(s, t)
  /\ t.documents = s.documents /\ t.table = s.table
  /\ t.lastGeneration = s.lastGeneration
  /\ \A u \in Uris : Members(t.deferredTokens[u]) \subseteq Members(s.deferredTokens[u])

LEMMA StillMoves ==
  ASSUME NEW s, Good(s), NEW t, Still(s, t)
  PROVE  /\ \A u : Moves(s, t, u)
         /\ \A u \in Uris : SameAt(s, t, u)
<1>1. /\ Good(t) /\ Follows(s, t) /\ t.table = s.table /\ t.documents = s.documents
  BY DEF Still
<1>2. Evolves(s, t) /\ Fewer(s, t)
  <2>1. /\ t.table.retained = s.table.retained /\ t.table.cancelled = s.table.cancelled
        /\ \A u \in Uris :
             t.documents[u].pending \in {NoPending, s.documents[u].pending}
    BY <1>1
  <2> QED
    BY <1>1, <2>1, KeepsEvolves
<1>3. ASSUME NEW u \in Uris PROVE SameAt(s, t, u)
  BY <1>1, FollowsUncaptured DEF SameAt, Has, Still
<1> QED
  BY <1>1, <1>2, <1>3 DEF Moves, Beside

LEMMA StillTrans ==
  ASSUME NEW s, Good(s), NEW t, NEW v, Still(s, t), Still(t, v)
  PROVE  Still(s, v)
<1>1. Good(v) /\ Follows(s, v)
  BY FollowsTrans DEF Still
<1> QED
  BY <1>1 DEF Still

LEMMA StillFine ==
  ASSUME NEW s, Good(s), NEW t, Still(s, t), NEW u \in Uris, Fine(s, u)
  PROVE  Fine(t, u)
BY StillMoves, SameFine

(* The functions that only answer, defer or refresh.                       *)
LEMMA FrameStill ==
  ASSUME NEW s, NEW t, Good(t), Follows(s, t), NEW F, Keeps(s, t, F),
         F \cap {"documents", "table", "lastGeneration", "deferredTokens"} = {}
  PROVE  Still(s, t)
<1>1. {"documents", "table", "lastGeneration", "deferredTokens"} \subseteq Fields
  BY DEF Fields
<1>2. /\ t.documents = s.documents /\ t.table = s.table
      /\ t.lastGeneration = s.lastGeneration /\ t.deferredTokens = s.deferredTokens
  BY <1>1 DEF Keeps
<1> QED
  BY <1>2 DEF Still

LEMMA AnswerStill ==
  ASSUME NEW s, Good(s), NEW R, R \cap Requests \subseteq Asked(s),
         NEW outcome \in {"result", "error"}
  PROVE  Still(s, Answer(s, R, outcome))
<1> DEFINE a == Answer(s, R, outcome)
           F == {"requests"}
<1>1. Answers(s, a, R, outcome) /\ Follows(s, a)
  BY AnswerGood, AnswerCalm DEF Calm
<1>2. Good(a) /\ Keeps(s, a, F)
  BY <1>1 DEF Answers
<1>3. F \cap {"documents", "table", "lastGeneration", "deferredTokens"} = {}
  OBVIOUS
<1> HIDE DEF a, F
<1>4. Still(s, a)
  BY <1>1, <1>2, <1>3, FrameStill
<1> QED
  BY <1>4 DEF a

LEMMA DiscardStill ==
  ASSUME NEW s, Good(s), NEW u \in Uris
  PROVE  Still(s, DiscardDeferredRequests(s, u))
<1> DEFINE d == DiscardDeferredRequests(s, u)
           F == {"requests", "deferredRequests"}
<1>1. Discards(s, d, u) /\ Follows(s, d)
  BY DiscardGood, DiscardRejecting DEF Rejecting
<1>2. Good(d) /\ Keeps(s, d, F)
  BY <1>1 DEF Discards
<1>3. F \cap {"documents", "table", "lastGeneration", "deferredTokens"} = {}
  OBVIOUS
<1> HIDE DEF d, F
<1>4. Still(s, d)
  BY <1>1, <1>2, <1>3, FrameStill
<1> QED
  BY <1>4 DEF d

LEMMA RefreshStill ==
  ASSUME NEW s, Good(s)
  PROVE  Still(s, RequestRefresh(s))
<1> DEFINE t == RequestRefresh(s)
           F == {"refreshInFlight", "refreshDirty", "shown"}
<1>1. Refreshes(s, t) /\ Follows(s, t)
  BY RefreshGood, RefreshQuiet DEF Quiet, Calm
<1>2. Good(t) /\ Keeps(s, t, F)
  BY <1>1 DEF Refreshes
<1>3. F \cap {"documents", "table", "lastGeneration", "deferredTokens"} = {}
  OBVIOUS
<1> HIDE DEF t, F
<1>4. Still(s, t)
  BY <1>1, <1>2, <1>3, FrameStill
<1> QED
  BY <1>4 DEF t

LEMMA DropsStill ==
  ASSUME NEW s, Good(s), NEW u \in Uris, NEW revisions, NEW generations
  PROVE  LET d == RejectDeferredTokens(s, u, revisions, generations)
         IN  /\ Still(s, d)
             /\ Members(d.deferredTokens[u]) =
                  Members(s.deferredTokens[u]) \ Rejects(revisions, generations)
<1> DEFINE d == RejectDeferredTokens(s, u, revisions, generations)
           S == TokenWaiters \ Rejects(revisions, generations)
<1>1. Drops(s, d, u, Rejects(revisions, generations)) /\ Follows(s, d)
  BY RejectGood, RejectRejecting DEF Rejecting
<1>2. u \in DOMAIN s.deferredTokens
  BY DEF Good, MainTypes
<1> HIDE DEF d
<1>3. Good(d) /\ d.documents = s.documents /\ d.table = s.table
      /\ d.lastGeneration = s.lastGeneration
  BY <1>1 DEF Drops, Keeps, Fields
<1>4. /\ d.deferredTokens[u] = Kept(s.deferredTokens[u], S)
      /\ \A v \in Uris : v # u => d.deferredTokens[v] = s.deferredTokens[v]
  BY <1>1, <1>2 DEF Drops
<1> HIDE DEF S
<1>5. Members(d.deferredTokens[u]) = Members(s.deferredTokens[u]) \cap S
  BY <1>4, KeptMembers
<1> USE DEF S
<1>6. Members(d.deferredTokens[u]) =
        Members(s.deferredTokens[u]) \ Rejects(revisions, generations)
  BY <1>5, WaiterTypes
<1>7. Still(s, d)
  BY <1>1, <1>3, <1>4, <1>6 DEF Still
<1> QED
  BY <1>6, <1>7 DEF d

(* The projection that analysis or a token request starts.                 *)
Prepared(s, u) ==
  s.lastGeneration = generation =>
    /\ \A w \in Members(s.deferredTokens[u]) : w.generation = generation
    /\ s.documents[u].pending # NoPending =>
         s.documents[u].pending.generation = generation
    /\ ~ NeedsRich(s, u, generation) /\ Members(s.deferredTokens[u]) # {} =>
         s.documents[u].pending # NoPending

LEMMA RichStartedFine ==
  ASSUME NEW s, Good(s), NEW u \in Uris, generation \in Nat, s.documents[u].revision # 0,
         Projected(s, u), Prepared(s, u), s.documents[u].analysis,
         NEW o, Good(o.s), Follows(s, o.s), RichStarted(s, o, u, generation)
  PROVE  Fine(o.s, u)
<1> DEFINE n == Projection(s, u, generation)
           d == o.s.documents[u]
<1>1. /\ Beside(s, o.s, u) /\ Has(o.s, "rich", u)
      /\ o.s.lastGeneration = s.lastGeneration
      /\ o.s.deferredTokens = s.deferredTokens
      /\ o.s.table.retained[<<"rich", u>>].task.sequence = s.table.sequence + 1
      /\ d = WithPending(s.documents[u], n)
  BY RichStartedWorks
<1>2. /\ s.documents[u] \in Documents /\ s.table.sequence \in Nat
      /\ s.documents[u].revision \in Nat
  BY NatDiagnostics DEF Good, MainTypes, Idle, IsTable
<1>3. /\ n \in [revision : Nat, generation : Nat, sequence : Nat]
      /\ n.revision = s.documents[u].revision /\ n.generation = generation
      /\ n.sequence = s.table.sequence + 1
  BY <1>2 DEF Projection
<1> HIDE DEF n
<1>4. /\ d.pending = n /\ d.revision = s.documents[u].revision
      /\ d.analysis = s.documents[u].analysis
      /\ d.overlay = s.documents[u].overlay
  BY <1>1, <1>2, <1>3, PendingType DEF WithPending, Documents
<1>5. n # NoPending
  BY <1>3 DEF NoPending
<1> HIDE DEF d
<1>6. Staffed(o.s, u)
  BY <1>4 DEF Staffed, d
<1>7. Projected(o.s, u)
  BY <1>1, <1>3, <1>4 DEF Projected, Underway, d
<1>8. Served(o.s, u)
  BY <1>1, <1>3, <1>4, <1>5 DEF Served, Prepared, d
<1> QED
  BY <1>6, <1>7, <1>8 DEF Fine

LEMMA RichRefusedFine ==
  ASSUME NEW s, Good(s), NEW u \in Uris, generation \in Nat,
         Projected(s, u), TokensCurrent(s, u), Prepared(s, u), s.documents[u].analysis,
         NeedsRich(s, u, generation),
         NEW o, Good(o.s), Follows(s, o.s), RichRefused(s, o, u, generation)
  PROVE  Fine(o.s, u)
<1>1. /\ ~ Has(o.s, "rich", u) /\ o.s.lastGeneration = s.lastGeneration
      /\ o.s.documents = s.documents
      /\ \A w \in Members(o.s.deferredTokens[u]) :
           /\ w \in Members(s.deferredTokens[u])
           /\ ~ (w.revision = s.documents[u].revision /\ w.generation = generation)
  BY RichRefusedWorks
<1>4. s.lastGeneration = generation => Members(o.s.deferredTokens[u]) = {}
  BY <1>1 DEF Prepared, TokensCurrent
<1>5. s.documents[u].pending # NoPending =>
        s.documents[u].pending.generation # generation
  BY DEF NeedsRich, Document, Projected
<1>6. Staffed(o.s, u)
  BY <1>1 DEF Staffed
<1>7. Projected(o.s, u)
  <2>1. \/ s.documents[u].pending = NoPending
        \/ ~ (s.documents[u].pending.generation = generation)
    BY <1>5
  <2> QED
    BY <1>1, <2>1 DEF Projected, Underway
<1>8. Served(o.s, u)
  BY <1>1, <1>4, <1>5 DEF Served, Prepared
<1> QED
  BY <1>6, <1>7, <1>8 DEF Fine

LEMMA RichFine ==
  ASSUME NEW s, Good(s), NEW u \in Uris, generation \in Nat,
         Projected(s, u), TokensCurrent(s, u), Prepared(s, u), s.documents[u].analysis
  PROVE  LET o == AdmitRich(s, u, generation)
         IN  Ends(s, o, u) /\ Fine(o.s, u)
<1> DEFINE o == AdmitRich(s, u, generation)
<1>1. RichAdmitted(s, o, u, generation)
  BY AdmitRichGood
<1> HIDE DEF o
<1>2. Good(o.s) /\ Follows(s, o.s)
  BY <1>1 DEF RichAdmitted, Rejecting
<1>3. CASE ~ (IsOpen(s, u) /\ NeedsRich(s, u, generation)) /\ o.s = s /\ o.jobs = jobs
  <2>1. Still(s, s)
    BY <1>2, <1>3 DEF Still
  <2>2. Ends(s, o, u)
    BY <1>3, <2>1, StillMoves DEF Moves, Ends, Hires
  <2>3. ~ IsOpen(s, u) => Members(s.deferredTokens[u]) = {}
    BY DEF TokensCurrent, IsOpen, Document
  <2>4. Served(s, u)
    BY <1>3, <2>3 DEF Served, Prepared
  <2>5. Staffed(s, u)
    BY DEF Staffed
  <2> QED
    BY <1>3, <2>2, <2>4, <2>5 DEF Fine, o
<1>4. CASE IsOpen(s, u) /\ NeedsRich(s, u, generation) /\ RichStarted(s, o, u, generation)
  <2>1. s.documents[u].revision # 0
    BY <1>4 DEF IsOpen, Document
  <2>2. Fine(o.s, u)
    BY <1>2, <1>4, <2>1, RichStartedFine
  <2>3. Ends(s, o, u)
    BY <1>2, <1>4, RichStartedWorks DEF Ends
  <2> QED
    BY <2>2, <2>3 DEF o
<1>5. CASE IsOpen(s, u) /\ NeedsRich(s, u, generation) /\ RichRefused(s, o, u, generation)
  <2>2. Fine(o.s, u)
    BY <1>2, <1>5, RichRefusedFine
  <2>3. Ends(s, o, u)
    BY <1>2, <1>5, RichRefusedWorks DEF Ends
  <2> QED
    BY <2>2, <2>3 DEF o
<1> QED
  BY <1>1, <1>3, <1>4, <1>5 DEF RichAdmitted

-----------------------------------------------------------------------------
(* The events of the workers.  Completing a job's task leaves no task to   *)
(* wait for the job.                                                       *)
Gone(c, job) ==
  \A k \in DOMAIN c.table.retained : c.table.retained[k].task # job.task

LEMMA CompletedMoves ==
  ASSUME NEW s, Good(s), NEW job, GoodJob(s, job)
  PROVE  LET c == Completed(s, job)
             u == job.task.uri
             class == job.task.class
         IN  /\ Moves(s, c, u) /\ Gone(c, job)
             /\ c.documents = s.documents /\ c.deferredTokens = s.deferredTokens
             /\ c.lastGeneration = s.lastGeneration
             /\ Accepts(s, job) =>
                  /\ Has(s, class, u) /\ s.table.retained[<<class, u>>].task = job.task
                  /\ ~ Has(c, class, u) /\ Otherwise(s, c, u, class)
             /\ ~ Accepts(s, job) => Still(s, c)
<1> DEFINE c == Completed(s, job)
           u == job.task.uri
           class == job.task.class
           K == {<<class, u>>}
           F == {"table"}
<1>1. job.task \in Identities /\ u \in Uris /\ class \in Classes
  BY JobType
<1>2. /\ Good(c) /\ Follows(s, c) /\ c.documents = s.documents
      /\ Keeps(s, c, F)
  BY <1>1, CompletedQuiet, CompletedKeeps DEF Quiet, Calm
<1>3. /\ c.deferredTokens = s.deferredTokens /\ c.lastGeneration = s.lastGeneration
  BY <1>2 DEF Keeps, Fields
<1>4. /\ Accepts(s, job) => /\ Cancels(s.table, c.table, K)
                            /\ <<class, u>> \in DOMAIN s.table.retained
                            /\ s.table.retained[<<class, u>>].task = job.task
      /\ ~ Accepts(s, job) => c.table = s.table
  <2> DEFINE m == Complete(s.table, job.task)
  <2>1. Shape(s) /\ Idle(s.table)
    BY DEF Good, MainTypes
  <2>2. c = [s EXCEPT !.table = m]
    BY DEF Completed
  <2>3. /\ IsCurrent(s.table, job.task) => Cancels(s.table, m, {KeyOf(job.task)})
        /\ ~ IsCurrent(s.table, job.task) => m = s.table
    BY <1>1, <2>1, CompleteIdle
  <2> HIDE DEF c, m
  <2>4. c.table = m
    BY <2>1, <2>2 DEF Shape, Fields
  <2>5. KeyOf(job.task) = <<class, u>>
    BY DEF KeyOf
  <2> QED
    BY <2>3, <2>4, <2>5 DEF Accepts, IsCurrent
<1>5. \A k \in K : k[2] = u
  OBVIOUS
<1>6. Accepts(s, job) => ~ Has(c, class, u) /\ Otherwise(s, c, u, class)
  BY <1>4, CancelsOtherwise
<1>7. ~ Accepts(s, job) => Still(s, c)
  BY <1>2, <1>3, <1>4 DEF Still
<1>8. Gone(c, job)
  <2> SUFFICES ASSUME NEW k \in DOMAIN c.table.retained,
                      c.table.retained[k].task = job.task
               PROVE  FALSE
    BY DEF Gone
  <2>1. KeyOf(job.task) = k /\ KeyOf(job.task) = <<class, u>>
    BY <1>2, SequencesNat DEF KeyOf
  <2>2. CASE Accepts(s, job)
    BY <1>6, <2>1, <2>2 DEF Has
  <2>3. CASE ~ Accepts(s, job)
    BY <1>4, <2>1, <2>3 DEF Accepts, IsCurrent
  <2> QED
    BY <2>2, <2>3
<1> HIDE DEF K
<1>9. ASSUME Accepts(s, job) PROVE Moves(s, c, u)
  <2>1. Cancels(s.table, c.table, K)
    BY <1>4, <1>9
  <2>2. Evolves(s, c) /\ Fewer(s, c)
    BY <1>2, <2>1, CancelsEvolves
  <2>3. Beside(s, c, u)
    BY <1>2, <1>3, <1>5, <2>1, CancelsBeside
  <2> QED
    BY <1>2, <2>2, <2>3 DEF Moves
<1>10. Moves(s, c, u)
  BY <1>7, <1>9, StillMoves
<1> QED
  BY <1>2, <1>3, <1>4, <1>6, <1>7, <1>8, <1>10 DEF Has

(* What a handler does to the work at hand, c being the state in which the *)
(* job it hears of is complete.                                            *)
Advances(s, c, o) ==
  /\ Good(o.s) /\ Evolves(s, o.s) /\ Hires(c, o.s, o.jobs)
  /\ \A u \in Uris : Fine(o.s, u)

LEMMA EndsAdvances ==
  ASSUME NEW s, Good(s), NEW c, NEW u, Moves(s, c, u), NEW o, Ends(c, o, u),
         \A v \in Uris : Fine(s, v), u \in Uris => Fine(o.s, u)
  PROVE  Advances(s, c, o)
<1>1. Ends(s, o, u)
  BY MovesEnds
<1>2. \A v \in Uris : Fine(o.s, v)
  BY <1>1, BesideFine DEF Ends
<1> QED
  BY <1>1, <1>2 DEF Ends, Advances

LEMMA StillAdvances ==
  ASSUME NEW s, Good(s), NEW t, Still(s, t), \A v \in Uris : Fine(s, v)
  PROVE  /\ Advances(s, s, Outcome(t, jobs)) /\ Advances(s, t, Outcome(t, jobs))
<1>1. \A u : Moves(s, t, u)
  BY StillMoves
<1>2. \A v \in Uris : Fine(t, v)
  BY StillFine
<1>3. Fewer(t, t)
  BY DEF Fewer, Old
<1> QED
  BY <1>1, <1>2, <1>3, OutcomeParts DEF Moves, Advances, Hires

LEMMA AcceptsMatches ==
  ASSUME NEW s, Consistent(s), NEW job, GoodJob(s, job), Accepts(s, job)
  PROVE  Matches(s, job) /\ job.task.revision = s.documents[job.task.uri].revision
<1>1. /\ KeyOf(job.task) \in DOMAIN s.table.retained
      /\ s.table.retained[KeyOf(job.task)].task = job.task
      /\ KeyOf(job.task)[2] = job.task.uri
  BY DEF Accepts, IsCurrent, KeyOf
<1> QED
  BY <1>1 DEF Consistent, Matched, Matches, Document

LEMMA DocumentMoves ==
  ASSUME NEW s, Good(s), NEW t, Good(t), Follows(s, t), t.table = s.table,
         t.lastGeneration = s.lastGeneration, NEW u,
         \A v \in Uris : v # u => /\ t.documents[v] = s.documents[v]
                                  /\ t.deferredTokens[v] = s.deferredTokens[v],
         u \in Uris => t.documents[u].pending \in {NoPending, s.documents[u].pending}
  PROVE  Moves(s, t, u)
<1>1. Elsewhere(s.table, t.table, u)
  BY DEF Elsewhere
<1>2. Beside(s, t, u)
  BY <1>1, BesideParts, FollowsUncaptured
<1>3. /\ t.table.retained = s.table.retained /\ t.table.cancelled = s.table.cancelled
      /\ \A v \in Uris : t.documents[v].pending \in {NoPending, s.documents[v].pending}
  OBVIOUS
<1>4. Evolves(s, t) /\ Fewer(s, t)
  BY <1>3, KeepsEvolves
<1> QED
  BY <1>2, <1>4 DEF Moves

(* The fields of a document, and the ways in which a handler marks it.     *)
DocumentParts(d) ==
  [revision |-> d.revision, bytes |-> d.bytes, foreground |-> d.foreground,
   analysis |-> d.analysis, rejected |-> d.rejected, overlay |-> d.overlay,
   pending |-> d.pending]

LEMMA DocumentIs ==
  ASSUME NEW d \in Documents
  PROVE  d = DocumentParts(d)
BY DEF Documents, DocumentParts

LEMMA MarkedFields ==
  ASSUME NEW d \in Documents
  PROVE  /\ LET e == WithForeground(d)
            IN  /\ e.revision = d.revision /\ e.analysis = d.analysis
                /\ e.rejected = d.rejected /\ e.overlay = d.overlay
                /\ e.pending = d.pending /\ e.foreground
         /\ LET e == WithRejected(d)
            IN  /\ e.revision = d.revision /\ e.analysis = d.analysis
                /\ e.foreground = d.foreground /\ e.overlay = d.overlay
                /\ e.pending = d.pending /\ e.rejected
         /\ LET e == WithAnalysis(d)
            IN  /\ e.revision = d.revision /\ e.foreground = d.foreground
                /\ e.overlay = d.overlay /\ e.pending = d.pending
                /\ e.analysis /\ ~ e.rejected
<1> DEFINE yes == TRUE
           no == FALSE
<1>1. d = DocumentParts(d)
  BY DocumentIs
<1>2. /\ WithForeground(d) = [d EXCEPT !.foreground = yes]
      /\ WithRejected(d) = [d EXCEPT !.rejected = yes]
      /\ WithAnalysis(d) = [d EXCEPT !.analysis = yes, !.rejected = no]
  BY DEF WithForeground, WithRejected, WithAnalysis
<1>3. yes /\ ~ no
  OBVIOUS
<1> HIDE DEF yes, no
<1>4. LET e == WithForeground(d)
      IN  /\ e.revision = d.revision /\ e.analysis = d.analysis
          /\ e.rejected = d.rejected /\ e.overlay = d.overlay
          /\ e.pending = d.pending /\ e.foreground = yes
  BY <1>1, <1>2 DEF DocumentParts
<1>5. LET e == WithRejected(d)
      IN  /\ e.revision = d.revision /\ e.analysis = d.analysis
          /\ e.foreground = d.foreground /\ e.overlay = d.overlay
          /\ e.pending = d.pending /\ e.rejected = yes
  BY <1>1, <1>2 DEF DocumentParts
<1>6. LET e == WithAnalysis(d)
      IN  /\ e.revision = d.revision /\ e.foreground = d.foreground
          /\ e.overlay = d.overlay /\ e.pending = d.pending
          /\ e.analysis = yes /\ e.rejected = no
  BY <1>1, <1>2 DEF DocumentParts
<1> QED
  BY <1>3, <1>4, <1>5, <1>6

(* A document whose projection and whose overlay are left as they are.     *)
Kin(s, t, u) ==
  /\ t.documents[u].revision = s.documents[u].revision
  /\ t.documents[u].analysis = s.documents[u].analysis
  /\ t.documents[u].overlay = s.documents[u].overlay
  /\ t.documents[u].pending = s.documents[u].pending
  /\ Members(t.deferredTokens[u]) \subseteq Members(s.deferredTokens[u])
  /\ t.lastGeneration = s.lastGeneration
  /\ Uncaptured(t) => Uncaptured(s)
  /\ Has(t, "rich", u) <=> Has(s, "rich", u)
  /\ Has(s, "rich", u) =>
       t.table.retained[<<"rich", u>>] = s.table.retained[<<"rich", u>>]

LEMMA KinFine ==
  ASSUME NEW s, NEW t, NEW u, Kin(s, t, u), Fine(s, u), Staffed(t, u)
  PROVE  Fine(t, u)
<1>1. Projected(t, u)
  BY DEF Fine, Projected, Underway, Kin
<1>2. Served(t, u)
  BY DEF Fine, Served, Kin
<1> QED
  BY <1>1, <1>2 DEF Fine

LEMMA KinTrans ==
  ASSUME NEW s, NEW t, NEW v, NEW u, Kin(s, t, u), Kin(t, v, u)
  PROVE  Kin(s, v, u)
BY DEF Kin

LEMMA SameAtKin ==
  ASSUME NEW s, NEW t, NEW u, SameAt(s, t, u)
  PROVE  Kin(s, t, u)
BY DEF SameAt, Kin, Classes

LEMMA OtherwiseKin ==
  ASSUME NEW s, NEW t, NEW u, NEW class, class # "rich", Otherwise(s, t, u, class),
         t.documents[u].revision = s.documents[u].revision,
         t.documents[u].analysis = s.documents[u].analysis,
         t.documents[u].overlay = s.documents[u].overlay,
         t.documents[u].pending = s.documents[u].pending,
         Members(t.deferredTokens[u]) \subseteq Members(s.deferredTokens[u]),
         t.lastGeneration = s.lastGeneration, Uncaptured(t) => Uncaptured(s)
  PROVE  Kin(s, t, u)
<1>1. "rich" \in Classes
  BY DEF Classes
<1> QED
  BY <1>1 DEF Kin, Otherwise

(* The state in which an accepted job's task is complete differs from the  *)
(* former one in that task only.                                           *)
LEMMA CompletedKin ==
  ASSUME NEW s, Good(s), NEW job, GoodJob(s, job), job.kind \in {"foreground", "semantic"}
  PROVE  Kin(s, Completed(s, job), job.task.uri)
<1> DEFINE c == Completed(s, job)
           u == job.task.uri
           class == job.task.class
<1>1. /\ c.documents = s.documents /\ c.deferredTokens = s.deferredTokens
      /\ c.lastGeneration = s.lastGeneration /\ Moves(s, c, u)
      /\ Accepts(s, job) => Otherwise(s, c, u, class)
      /\ ~ Accepts(s, job) => Still(s, c)
  BY CompletedMoves
<1>2. u \in Uris /\ class # "rich"
  BY JobType DEF GoodJob
<1>3. Uncaptured(c) => Uncaptured(s)
  BY <1>1, FollowsUncaptured DEF Moves
<1> HIDE DEF c, u, class
<1>4. CASE Accepts(s, job)
  BY <1>1, <1>2, <1>3, <1>4, OtherwiseKin DEF c, u
<1>5. CASE ~ Accepts(s, job)
  BY <1>1, <1>2, <1>5, StillMoves, SameAtKin DEF c, u
<1> QED
  BY <1>4, <1>5

LEMMA RefusedAdvances ==
  ASSUME NEW s, Consistent(s), NEW job, GoodJob(s, job), ~ Accepts(s, job),
         \A v \in Uris : Fine(s, v)
  PROVE  LET c == Completed(s, job)
         IN  Advances(s, c, Outcome(c, jobs))
<1>1. Still(s, Completed(s, job))
  BY CompletedMoves DEF Consistent
<1> QED
  BY <1>1, StillAdvances DEF Consistent

LEMMA KeptThins ==
  ASSUME NEW s, Good(s), NEW u \in Uris, NEW q, \E S : q = Kept(s.deferredTokens[u], S)
  PROVE  Members(q) \subseteq Members(s.deferredTokens[u])
<1>1. PICK S : q = Kept(s.deferredTokens[u], S)
  OBVIOUS
<1>2. Members(Kept(s.deferredTokens[u], S)) = Members(s.deferredTokens[u]) \cap S
  BY KeptMembers
<1> QED
  BY <1>1, <1>2

LEMMA RejectedParts ==
  ASSUME NEW c, Good(c), NEW u \in Uris
  PROVE  LET x == [c EXCEPT !.documents[u].rejected = TRUE]
         IN  /\ Good(x) /\ Follows(c, x) /\ Keeps(c, x, {"documents"})
             /\ x.documents = [c.documents EXCEPT ![u] = WithRejected(c.documents[u])]
<1> DEFINE x == [c EXCEPT !.documents[u].rejected = TRUE]
<1>1. x = [c EXCEPT !.documents[u].rejected = TRUE]
  OBVIOUS
<1> HIDE DEF x
<1>2. /\ Good(x) /\ Rejecting(c, x) /\ Keeps(c, x, {"documents"})
      /\ x.documents = [c.documents EXCEPT ![u] = WithRejected(c.documents[u])]
  BY <1>1, OverloadGood
<1> QED
  BY <1>2 DEF Rejecting, x

LEMMA ForegroundReadyWorks ==
  ASSUME NEW s, Consistent(s), NEW job, GoodJob(s, job), job.kind = "foreground",
         \A v \in Uris : Fine(s, v)
  PROVE  Advances(s, Completed(s, job), ForegroundReady(s, job))
<1> DEFINE u == job.task.uri
           c == Completed(s, job)
           o == ForegroundReady(s, job)
<1>0. /\ Good(s) /\ u \in Uris /\ job.task.revision # 0
      /\ s.documents[u] \in Documents
  BY JobType DEF Consistent, Good, MainTypes
<1>1. CASE ~ Accepts(s, job)
  <2>1. o = Outcome(c, jobs)
    BY <1>1 DEF ForegroundReady
  <2> QED
    BY <1>1, <2>1, RefusedAdvances
<1>2. CASE Accepts(s, job)
  <2> DEFINE x == [c EXCEPT !.documents[u].foreground = TRUE,
                            !.diagnostics[u] = job.task.revision]
  <2>1. Matches(s, job) /\ job.task.revision = s.documents[u].revision
    BY <1>2, AcceptsMatches
  <2>2. /\ Moves(s, c, u) /\ Kin(s, c, u) /\ Good(c)
        /\ c.documents = s.documents
    BY <1>0, CompletedMoves, CompletedKin DEF Moves
  <2>3. o = AdmitSemantic(x, u)
    BY <1>2, <2>1 DEF ForegroundReady
  <2>4. Consistent(c)
    <3>1. Quiet(s, c)
      BY <1>0, JobType, CompletedQuiet
    <3> QED
      BY <3>1, CalmSound DEF Quiet
  <2>5. x = [c EXCEPT !.documents[u].foreground = TRUE,
                      !.diagnostics[u] = c.documents[u].revision]
    BY <2>1, <2>2
  <2> HIDE DEF c, o, x
  <2>6. Published(c, x, u)
    <3>1. Shape(c)
      BY <2>2 DEF Good, MainTypes
    <3> QED
      BY <1>0, <2>5, <3>1, PublishParts
  <2>7. /\ Good(x) /\ Follows(c, x) /\ x.documents[u].revision # 0
    BY <1>0, <2>1, <2>2, <2>4, <2>6, PublishSound DEF Consistent, Rejecting
  <2>8. /\ x.table = c.table /\ x.lastGeneration = c.lastGeneration
        /\ x.deferredTokens = c.deferredTokens
        /\ x.documents[u] = WithForeground(s.documents[u])
        /\ \A v \in Uris : v # u => x.documents[v] = c.documents[v]
    <3>1. c.documents \in [Uris -> Documents]
      BY <2>2 DEF Good, MainTypes
    <3> QED
      BY <1>0, <2>2, <2>6, <3>1 DEF Published, Keeps, Fields
  <2>9. /\ x.documents[u].revision = s.documents[u].revision
        /\ x.documents[u].analysis = s.documents[u].analysis
        /\ x.documents[u].overlay = s.documents[u].overlay
        /\ x.documents[u].pending = s.documents[u].pending
        /\ x.documents[u].foreground
    BY <1>0, <2>8, MarkedFields
  <2>10. Moves(c, x, u)
    BY <2>2, <2>7, <2>8, <2>9, DocumentMoves
  <2>11. SemanticAdmitted(x, o, u)
    BY <1>0, <2>3, <2>7, AdmitSemanticGood
  <2>12. /\ Evolves(x, o.s) /\ Hires(x, o.s, o.jobs) /\ Beside(x, o.s, u)
         /\ Otherwise(x, o.s, u, "semantic")
         /\ o.s.lastGeneration = x.lastGeneration
         /\ \/ /\ Has(o.s, "semantic", u) /\ o.s.documents[u] = x.documents[u]
               /\ o.s.deferredTokens[u] = x.deferredTokens[u]
            \/ /\ o.s.documents[u] = WithRejected(x.documents[u])
               /\ \E S : o.s.deferredTokens[u] = Kept(x.deferredTokens[u], S)
    BY <1>0, <2>7, <2>11, SemanticWorks
  <2>13. Good(o.s) /\ Follows(x, o.s)
    BY <2>11 DEF SemanticAdmitted, Rejecting
  <2>14. Ends(c, o, u)
    <3>1. Ends(x, o, u)
      BY <2>12, <2>13 DEF Ends
    <3> QED
      BY <2>2, <2>10, <3>1, MovesEnds
  <2>15. x.documents[u] \in Documents
    BY <1>0, <2>7 DEF Good, MainTypes
  <2>16. Members(o.s.deferredTokens[u]) \subseteq Members(x.deferredTokens[u])
    <3>1. CASE o.s.deferredTokens[u] = x.deferredTokens[u]
      BY <3>1
    <3>2. CASE \E S : o.s.deferredTokens[u] = Kept(x.deferredTokens[u], S)
      BY <1>0, <2>7, <3>2, KeptThins
    <3> QED
      BY <2>12, <3>1, <3>2
  <2>17. /\ o.s.documents[u].revision = x.documents[u].revision
         /\ o.s.documents[u].analysis = x.documents[u].analysis
         /\ o.s.documents[u].overlay = x.documents[u].overlay
         /\ o.s.documents[u].pending = x.documents[u].pending
         /\ o.s.documents[u].foreground
         /\ Has(o.s, "semantic", u) \/ o.s.documents[u].rejected
    BY <2>9, <2>12, <2>15, MarkedFields
  <2>18. Uncaptured(o.s) => Uncaptured(c)
    BY <2>7, <2>13, FollowsUncaptured
  <2>19. Kin(s, o.s, u)
    <3> DEFINE class == "semantic"
               t == o.s
    <3>1. class # "rich" /\ Otherwise(x, t, u, class)
      BY <2>12
    <3> HIDE DEF class, t
    <3>2. Kin(x, t, u)
      BY <2>12, <2>16, <2>17, <2>13, FollowsUncaptured, <3>1, OtherwiseKin DEF t
    <3>3. Kin(c, x, u)
      BY <2>2, <2>8, <2>9, <2>7, FollowsUncaptured DEF Kin, Has
    <3> QED
      BY <2>2, <3>2, <3>3, KinTrans DEF t
  <2>20. Staffed(o.s, u)
    BY <2>17 DEF Staffed
  <2>21. Fine(o.s, u)
    BY <1>0, <2>19, <2>20, KinFine
  <2>22. Advances(s, c, o)
    BY <1>0, <2>2, <2>14, <2>21, EndsAdvances
  <2> QED
    BY <2>22 DEF c, o
<1> QED
  BY <1>1, <1>2

LEMMA ForegroundSkippedWorks ==
  ASSUME NEW s, Consistent(s), NEW job, GoodJob(s, job), job.kind = "foreground",
         \A v \in Uris : Fine(s, v)
  PROVE  Advances(s, Completed(s, job), ForegroundSkipped(s, job))
<1> DEFINE u == job.task.uri
           c == Completed(s, job)
           o == ForegroundSkipped(s, job)
<1>0. /\ Good(s) /\ u \in Uris /\ s.documents[u] \in Documents
  BY JobType DEF Consistent, Good, MainTypes
<1>1. CASE ~ Accepts(s, job)
  <2>1. o = Outcome(c, jobs)
    BY <1>1 DEF ForegroundSkipped
  <2> QED
    BY <1>1, <2>1, RefusedAdvances
<1>2. CASE Accepts(s, job)
  <2> DEFINE x == [c EXCEPT !.documents[u].rejected = TRUE]
             d == DiscardDeferredRequests(x, u)
             t == RejectDeferredTokens(d, u, {job.task.revision}, Nat)
  <2>1. Matches(s, job)
    BY <1>2, AcceptsMatches
  <2>2. /\ Moves(s, c, u) /\ Kin(s, c, u) /\ Good(c)
        /\ c.documents = s.documents
    BY <1>0, CompletedMoves, CompletedKin DEF Moves
  <2>3. o = Outcome(t, jobs)
    BY <1>2, <2>1 DEF ForegroundSkipped
  <2> HIDE DEF c, o
  <2>4. /\ Good(x) /\ Follows(c, x) /\ Keeps(c, x, {"documents"})
        /\ x.documents = [c.documents EXCEPT ![u] = WithRejected(c.documents[u])]
    BY <1>0, <2>2, RejectedParts
  <2> HIDE DEF x
  <2>5. /\ x.table = c.table /\ x.lastGeneration = c.lastGeneration
        /\ x.deferredTokens = c.deferredTokens
        /\ x.documents[u] = WithRejected(s.documents[u])
        /\ \A v \in Uris : v # u => x.documents[v] = c.documents[v]
    <3>1. c.documents \in [Uris -> Documents]
      BY <2>2 DEF Good, MainTypes
    <3> QED
      BY <1>0, <2>2, <2>4, <3>1 DEF Keeps, Fields
  <2>6. /\ x.documents[u].revision = s.documents[u].revision
        /\ x.documents[u].analysis = s.documents[u].analysis
        /\ x.documents[u].overlay = s.documents[u].overlay
        /\ x.documents[u].pending = s.documents[u].pending
        /\ x.documents[u].rejected
    BY <1>0, <2>5, MarkedFields
  <2>7. Moves(c, x, u)
    BY <2>2, <2>4, <2>5, <2>6, DocumentMoves
  <2>8. Still(x, d) /\ Good(d)
    BY <1>0, <2>4, DiscardStill DEF Still
  <2> HIDE DEF d
  <2>9. Still(d, t)
    BY <1>0, <2>8, DropsStill
  <2> HIDE DEF t
  <2>10. Still(x, t)
    BY <2>4, <2>8, <2>9, StillTrans
  <2>11. Moves(c, t, u) /\ SameAt(x, t, u)
    BY <1>0, <2>2, <2>4, <2>7, <2>10, StillMoves, MovesTrans
  <2>12. Kin(s, t, u)
    <3>1. Kin(c, x, u)
      BY <2>2, <2>4, <2>5, <2>6, FollowsUncaptured DEF Kin, Has
    <3> QED
      BY <2>2, <2>11, <3>1, SameAtKin, KinTrans
  <2>13. Staffed(t, u)
    BY <2>6, <2>10 DEF Staffed, Still
  <2>14. Fine(t, u)
    BY <1>0, <2>12, <2>13, KinFine
  <2>15. Ends(c, o, u) /\ o.s = t
    BY <2>3, <2>11, MovedEnds, OutcomeParts
  <2>16. Advances(s, c, o)
    BY <1>0, <2>2, <2>14, <2>15, EndsAdvances
  <2> QED
    BY <2>16 DEF c, o
<1> QED
  BY <1>1, <1>2

LEMMA SemanticSkippedWorks ==
  ASSUME NEW s, Consistent(s), NEW job, GoodJob(s, job), job.kind = "semantic",
         Unflagged(s), job.task.sequence \in s.table.cancelled, \A v \in Uris : Fine(s, v)
  PROVE  LET c == Completed(s, job)
         IN  Advances(s, c, Outcome(c, jobs))
<1>1. job.task.class = "semantic"
  BY DEF GoodJob
<1>2. Accepts(s, job) => job.task.sequence \notin s.table.cancelled
  <2> DEFINE k == <<"semantic", job.task.uri>>
  <2>1. KeyOf(job.task) = k /\ k[1] # "rich"
    BY <1>1 DEF KeyOf
  <2>2. Accepts(s, job) =>
          k \in DOMAIN s.table.retained /\ s.table.retained[k].task = job.task
    BY <2>1 DEF Accepts, IsCurrent
  <2> HIDE DEF k
  <2> QED
    BY <2>1, <2>2 DEF Unflagged
<1>3. ~ Accepts(s, job)
  BY <1>2
<1> QED
  BY <1>3, RefusedAdvances

(* A projection's task that is gone leaves its document fine, unless the   *)
(* token cache waits for that very task.                                   *)
LEMMA RichGoneFine ==
  ASSUME NEW s, NEW c, NEW u, Fine(s, u), Otherwise(s, c, u, "rich"), ~ Has(c, "rich", u),
         c.documents[u] = s.documents[u], c.lastGeneration = s.lastGeneration,
         c.deferredTokens[u] = s.deferredTokens[u], Uncaptured(c) => Uncaptured(s),
         \/ ~ Uncaptured(s) \/ s.documents[u].pending = NoPending
         \/ s.documents[u].pending.generation # generation
  PROVE  Fine(c, u)
<1>1. \A class \in {"foreground", "semantic"} : Has(c, class, u) <=> Has(s, class, u)
  BY DEF Otherwise, Classes
<1>2. Staffed(c, u)
  BY <1>1 DEF Fine, Staffed
<1>3. Projected(c, u)
  <2>1. s.documents[u].pending # NoPending => Underway(c, u)
    BY DEF Underway
  <2> QED
    BY <2>1 DEF Fine, Projected
<1>4. Served(c, u)
  BY DEF Fine, Served
<1> QED
  BY <1>2, <1>3, <1>4 DEF Fine

LEMMA DebugReadyWorks ==
  ASSUME NEW s, Consistent(s), NEW job, GoodJob(s, job), job.kind = "debug",
         \A v \in Uris : Fine(s, v)
  PROVE  Advances(s, Completed(s, job), DebugReady(s, job))
<1> DEFINE u == job.task.uri
           r == job.request
           c == Completed(s, job)
           outcome == IF Accepts(s, job) THEN "result" ELSE "error"
           a == Answer(c, {r}, outcome)
           o == DebugReady(s, job)
<1>0. Good(s) /\ u \in Uris /\ job.task.class = "rich"
  BY JobType DEF Consistent, GoodJob
<1>1. o = Outcome(a, jobs)
  BY DEF DebugReady
<1>2. r \in Asked(s) /\ s.requests[r].kind = "debug"
  BY DEF GoodJob
<1>3. /\ Moves(s, c, u) /\ c.documents = s.documents
      /\ c.deferredTokens = s.deferredTokens /\ c.lastGeneration = s.lastGeneration
      /\ Accepts(s, job) => ~ Has(c, "rich", u) /\ Otherwise(s, c, u, "rich")
      /\ ~ Accepts(s, job) => Still(s, c)
  <2> DEFINE class == job.task.class
  <2>1. /\ Moves(s, c, u) /\ c.documents = s.documents
        /\ c.deferredTokens = s.deferredTokens /\ c.lastGeneration = s.lastGeneration
        /\ Accepts(s, job) => ~ Has(c, class, u) /\ Otherwise(s, c, u, class)
        /\ ~ Accepts(s, job) => Still(s, c)
    BY <1>0, CompletedMoves
  <2>2. class = "rich"
    BY <1>0
  <2> HIDE DEF class, c
  <2> QED
    BY <2>1, <2>2
<1> HIDE DEF c, o
<1>4. Good(c) /\ Follows(s, c)
  BY <1>3 DEF Moves
<1>5. {r} \cap Requests \subseteq Asked(c) /\ outcome \in {"result", "error"}
  BY <1>2, <1>4, FollowsAsked
<1> HIDE DEF outcome
<1> DEFINE R == {r}
<1>6. R \cap Requests \subseteq Asked(c) /\ a = Answer(c, R, outcome)
  BY <1>5
<1> HIDE DEF R, a
<1>7. Still(c, a)
  BY <1>4, <1>5, <1>6, AnswerStill
<1>8. ~ Uncaptured(s)
  BY <1>2 DEF Uncaptured, Asked
<1>9. Fine(c, u)
  <2>1. CASE Accepts(s, job)
    <3>1. Uncaptured(c) => Uncaptured(s)
      BY <1>4, FollowsUncaptured
    <3> QED
      BY <1>0, <1>3, <1>8, <2>1, <3>1, RichGoneFine
  <2>2. CASE ~ Accepts(s, job)
    BY <1>0, <1>3, <2>2, StillFine
  <2> QED
    BY <2>1, <2>2
<1>10. Fine(a, u)
  BY <1>0, <1>4, <1>7, <1>9, StillFine
<1>11. Ends(c, o, u) /\ o.s = a
  BY <1>1, <1>4, <1>7, StillMoves, MovedEnds, OutcomeParts
<1>12. Advances(s, c, o)
  BY <1>0, <1>3, <1>10, <1>11, EndsAdvances
<1> QED
  BY <1>12 DEF c, o

LEMMA CompletedRich ==
  ASSUME NEW s, Good(s), NEW job, GoodJob(s, job), job.task.class = "rich"
  PROVE  LET c == Completed(s, job)
             u == job.task.uri
         IN  /\ Moves(s, c, u) /\ Good(c) /\ Follows(s, c)
             /\ c.documents = s.documents /\ c.deferredTokens = s.deferredTokens
             /\ c.lastGeneration = s.lastGeneration
             /\ Accepts(s, job) =>
                  /\ Has(s, "rich", u) /\ s.table.retained[<<"rich", u>>].task = job.task
                  /\ ~ Has(c, "rich", u) /\ Otherwise(s, c, u, "rich")
             /\ ~ Accepts(s, job) => Still(s, c)
<1> DEFINE class == job.task.class
           u == job.task.uri
           c == Completed(s, job)
<1>1. /\ Moves(s, c, u) /\ c.documents = s.documents
      /\ c.deferredTokens = s.deferredTokens /\ c.lastGeneration = s.lastGeneration
      /\ Accepts(s, job) =>
           /\ Has(s, class, u) /\ s.table.retained[<<class, u>>].task = job.task
           /\ ~ Has(c, class, u) /\ Otherwise(s, c, u, class)
      /\ ~ Accepts(s, job) => Still(s, c)
  BY CompletedMoves
<1>2. class = "rich"
  OBVIOUS
<1> HIDE DEF class, c
<1>3. Good(c) /\ Follows(s, c)
  BY <1>1 DEF Moves
<1> QED
  BY <1>1, <1>2, <1>3 DEF c

(* A projection that a token cache waits for is its task's, if the table   *)
(* still retains the task.                                                 *)
LEMMA RichAccepted ==
  ASSUME NEW s, NEW job, job.kind = "rich", NEW u \in Uris,
         Has(s, "rich", u), s.table.retained[<<"rich", u>>].task = job.task,
         Fits(s, job), Fine(s, u)
  PROVE  LET p == s.documents[u].pending
         IN  \/ ~ Uncaptured(s) \/ p = NoPending \/ p.generation # generation
             \/ p.generation = job.generation /\ p.revision = job.task.revision
BY DEF Fine, Projected, Underway, Fits

LEMMA ProjectionMarked ==
  ASSUME NEW d \in Documents, NEW o \in [revision : Nat, generation : Nat]
  PROVE  LET e == WithProjection(d, o)
         IN  /\ e.revision = d.revision /\ e.analysis = d.analysis
             /\ e.rejected = d.rejected /\ e.foreground = d.foreground
             /\ e.overlay = o /\ e.pending = NoPending
<1>1. d = DocumentParts(d)
  BY DocumentIs
<1> DEFINE e == WithProjection(d, o)
<1>2. e = [d EXCEPT !.overlay = o, !.pending = NoPending]
  BY DEF WithProjection
<1> HIDE DEF e
<1>3. /\ e.revision = d.revision /\ e.analysis = d.analysis
      /\ e.rejected = d.rejected /\ e.foreground = d.foreground
      /\ e.overlay = o /\ e.pending = NoPending
  BY <1>1, <1>2 DEF DocumentParts
<1> QED
  BY <1>3 DEF e

LEMMA ProjectionFine ==
  ASSUME NEW s, NEW x, NEW u, Fine(s, u), TokensCurrent(s, u), Has(s, "rich", u),
         s.documents[u].revision \in Nat, s.documents[u].revision # 0, generation \in Nat,
         Otherwise(s, x, u, "rich"), ~ Has(x, "rich", u),
         x.lastGeneration = s.lastGeneration,
         x.documents[u].revision = s.documents[u].revision,
         x.documents[u].analysis = s.documents[u].analysis,
         x.documents[u].rejected = s.documents[u].rejected,
         x.documents[u].foreground = s.documents[u].foreground,
         x.documents[u].overlay.revision = s.documents[u].revision,
         x.documents[u].pending = NoPending,
         \A w \in Members(x.deferredTokens[u]) :
           /\ w \in Members(s.deferredTokens[u])
           /\ ~ (w.revision = s.documents[u].revision /\ w.generation = generation)
  PROVE  Fine(x, u)
<1>1. \A class \in {"foreground", "semantic"} : Has(x, class, u) <=> Has(s, class, u)
  BY DEF Otherwise, Classes
<1>2. Staffed(x, u)
  BY <1>1 DEF Fine, Staffed
<1>3. Projected(x, u)
  BY DEF Fine, Projected
<1>4. s.lastGeneration = generation => Members(x.deferredTokens[u]) = {}
  BY DEF Fine, Served, TokensCurrent
<1>5. Served(x, u)
  BY <1>4 DEF Served
<1> QED
  BY <1>2, <1>3, <1>5 DEF Fine

LEMMA RichReadyWorks ==
  ASSUME NEW s, Consistent(s), NEW job, GoodJob(s, job), job.kind = "rich",
         generation \in Nat, Fits(s, job), \A v \in Uris : Fine(s, v)
  PROVE  Advances(s, Completed(s, job), RichReady(s, job))
<1> DEFINE u == job.task.uri
           c == Completed(s, job)
           o == RichReady(s, job)
           served == [request : Requests, revision : {job.task.revision},
                      generation : {job.generation}]
           waiting == Kept(s.deferredTokens[u], served)
           overlay == [revision |-> job.task.revision, generation |-> job.generation]
           x == [c EXCEPT !.documents[u].overlay = overlay,
                          !.documents[u].pending = NoPending,
                          !.deferredTokens[u] = Kept(@, TokenWaiters \ served),
                          !.replays = Replayed(waiting)]
           t == IF waiting = << >> THEN RequestRefresh(x) ELSE x
<1>0. /\ Good(s) /\ job.task \in Identities /\ u \in Uris
      /\ job.task.revision \in Nat \ {0} /\ job.generation \in Nat
      /\ s.deferredTokens[u] \in Seq(TokenWaiters)
      /\ job.task.class = "rich"
  BY JobType DEF Consistent, Good, MainTypes, GoodJob
<1>1. CASE ~ Accepts(s, job)
  <2>1. o = Outcome(c, jobs)
    BY <1>1 DEF RichReady
  <2> QED
    BY <1>1, <2>1, RefusedAdvances
<1>2. /\ Moves(s, c, u) /\ Good(c) /\ Follows(s, c)
      /\ c.documents = s.documents /\ c.deferredTokens = s.deferredTokens
      /\ c.lastGeneration = s.lastGeneration
      /\ Accepts(s, job) =>
           /\ Has(s, "rich", u) /\ s.table.retained[<<"rich", u>>].task = job.task
           /\ ~ Has(c, "rich", u) /\ Otherwise(s, c, u, "rich")
  BY <1>0, CompletedRich
<1>3. Uncaptured(c) => Uncaptured(s)
  BY <1>2, FollowsUncaptured
<1>4. CASE Accepts(s, job) /\ job.generation # generation
  <2>1. o = Outcome(c, jobs)
    BY <1>4 DEF RichReady
  <2> HIDE DEF c, o
  <2>2. \/ ~ Uncaptured(s) \/ s.documents[u].pending = NoPending
        \/ s.documents[u].pending.generation # generation
    BY <1>0, <1>2, <1>4, RichAccepted
  <2>3. Fine(c, u)
    BY <1>0, <1>2, <1>3, <1>4, <2>2, RichGoneFine
  <2>4. Ends(c, o, u) /\ o.s = c
    <3>1. Still(c, c)
      BY <1>2 DEF Still, Follows, Moves, Good, MainTypes, Idle, IsTable
    <3> QED
      BY <1>2, <2>1, <3>1, StillMoves, MovedEnds, OutcomeParts
  <2>5. Advances(s, c, o)
    BY <1>0, <1>2, <2>3, <2>4, EndsAdvances
  <2> QED
    BY <2>5 DEF c, o
<1>5. CASE Accepts(s, job) /\ job.generation = generation
  <2>0. Matches(s, job) /\ job.task.revision = s.documents[u].revision
    BY <1>5, AcceptsMatches
  <2>1. o = Outcome(t, jobs)
    BY <1>5, <2>0 DEF RichReady, Replayed
  <2>2. /\ overlay \in [revision : Nat, generation : Nat]
        /\ overlay.revision = s.documents[u].revision
    BY <1>0, <2>0
  <2>3. Quiet(s, c)
    BY <1>0, CompletedQuiet
  <2> HIDE DEF c, o, overlay
  <2>4. Consistent(c) /\ Shape(c) /\ c.documents \in [Uris -> Documents]
    <3>1. Consistent(c)
      BY <2>3, CalmSound DEF Quiet
    <3> QED
      BY <3>1 DEF Consistent, Good, MainTypes
  <2>5. c.deferredTokens = s.deferredTokens
    BY <1>2
  <2> DEFINE k == Kept(c.deferredTokens[u], TokenWaiters \ served)
             p == Replayed(waiting)
  <2>6. k \in Seq(TokenWaiters) /\ Thinned(c.deferredTokens[u], k)
        /\ Members(k) = Members(s.deferredTokens[u]) \cap (TokenWaiters \ served)
    BY <1>0, <2>5, KeptProperties DEF Thinned
  <2>7. Members(waiting) \subseteq Members(s.deferredTokens[u])
        /\ waiting \in Seq(TokenWaiters)
    BY <1>0, KeptProperties
  <2> HIDE DEF waiting
  <2>8. p \in Seq(Requests) /\ Members(p) \subseteq Replayable(c, u)
    <3>1. \A w \in TokenWaiters : w.request \in Requests
      BY DEF TokenWaiters
    <3>2. p \in Seq(Requests) /\ Members(p) = RequestsIn(waiting)
      BY <2>7, <3>1, ReplayedType
    <3>3. RequestsIn(c.deferredTokens[u]) \subseteq Replayable(c, u)
      BY <1>0, <2>4, QueueReplayable
    <3>4. RequestsIn(waiting) \subseteq RequestsIn(s.deferredTokens[u])
      BY <2>7, RequestsAreMembers
    <3> QED
      BY <2>5, <3>2, <3>3, <3>4
  <2>16. \A w \in TokenWaiters :
           w.revision = s.documents[u].revision /\ w.generation = generation
                                  => w \in served
    BY <1>5, <2>0 DEF TokenWaiters
  <2>17. \A w \in Members(k) : /\ w \in Members(s.deferredTokens[u])
                               /\ ~ (w.revision = s.documents[u].revision /\ w.generation = generation)
    BY <2>6, <2>16
  <2> HIDE DEF p, served
  <2>9. ProjectionInstalled(c, x, u, overlay, k, p)
    BY <1>0, <2>4, ProjectionParts DEF p
  <2> HIDE DEF x, k
  <2>10. Good(x) /\ Follows(c, x)
    <3>1. ProjectionFits(c, x, u, overlay, k, p)
      BY <1>0, <2>2, <2>4, <2>6, <2>8, <2>9 DEF ProjectionFits
    <3> QED
      BY <3>1, ProjectionSound DEF Consistent, Rejecting
  <2>11. /\ x.table = c.table /\ x.lastGeneration = c.lastGeneration
         /\ x.deferredTokens[u] = k
         /\ x.documents[u] = WithProjection(s.documents[u], overlay)
         /\ \A v \in Uris : v # u => /\ x.documents[v] = c.documents[v]
                                     /\ x.deferredTokens[v] = c.deferredTokens[v]
    <3>1. /\ c.documents \in [Uris -> Documents]
          /\ c.deferredTokens \in [Uris -> Seq(TokenWaiters)]
      BY <1>2 DEF Good, MainTypes
    <3> QED
      BY <1>0, <1>2, <2>9, <3>1 DEF ProjectionInstalled, Keeps, Fields
  <2>12. /\ x.documents[u].revision = s.documents[u].revision
         /\ x.documents[u].analysis = s.documents[u].analysis
         /\ x.documents[u].rejected = s.documents[u].rejected
         /\ x.documents[u].foreground = s.documents[u].foreground
         /\ x.documents[u].overlay = overlay
         /\ x.documents[u].pending = NoPending
    <3>1. s.documents[u] \in Documents
      BY <1>0 DEF Good, MainTypes
    <3> QED
      BY <2>2, <2>11, <3>1, ProjectionMarked
  <2>13. Moves(c, x, u)
    BY <1>2, <2>10, <2>11, <2>12, DocumentMoves
  <2>14. Fine(x, u)
    <3>1. ~ Has(x, "rich", u) /\ Otherwise(s, x, u, "rich")
      BY <1>2, <1>5, <2>11 DEF Otherwise, Has
    <3>2. TokensCurrent(s, u)
      BY <1>0 DEF Consistent, QueuesCurrent
    <3>3. \A w \in Members(x.deferredTokens[u]) :
            /\ w \in Members(s.deferredTokens[u])
            /\ ~ (w.revision = s.documents[u].revision /\ w.generation = generation)
      BY <2>11, <2>17
    <3>4. s.documents[u].revision \in Nat /\ s.documents[u].revision # 0
      BY <1>0, <2>0
    <3> QED
      <4>1. Fine(s, u) /\ Has(s, "rich", u)
        BY <1>0, <1>2, <1>5
      <4>2. x.lastGeneration = s.lastGeneration
        BY <1>2, <2>11
      <4>3. x.documents[u].overlay.revision = s.documents[u].revision
        BY <2>2, <2>12
      <4> HIDE DEF u
      <4> QED
        BY <2>12, <3>1, <3>2, <3>3, <3>4, <4>1, <4>2, <4>3, ProjectionFine
  <2>18. t = RequestRefresh(x) \/ t = x
    OBVIOUS
  <2> HIDE DEF t
  <2>19. Still(x, t)
    <3>1. Still(x, x)
      BY <2>10 DEF Still, Follows, Good, MainTypes, Idle, IsTable
    <3> QED
      BY <2>10, <2>18, <3>1, RefreshStill
  <2>20. Fine(t, u) /\ Moves(x, t, u)
    BY <1>0, <2>10, <2>14, <2>19, StillFine, StillMoves
  <2>21. Ends(c, o, u) /\ o.s = t
    <3>1. Moves(c, t, u)
      BY <1>2, <2>13, <2>20, MovesTrans
    <3> QED
      BY <2>1, <3>1, MovedEnds, OutcomeParts
  <2>22. Advances(s, c, o)
    BY <1>0, <1>2, <2>20, <2>21, EndsAdvances
  <2> QED
    BY <2>22 DEF c, o
<1> QED
  BY <1>1, <1>4, <1>5

(* The projections a skipped job rejects are those its document waits for. *)
LEMMA SkippedFine ==
  ASSUME NEW s, NEW x, NEW u, Fine(s, u), TokensCurrent(s, u),
         \A class \in {"foreground", "semantic"} : Has(x, class, u) <=> Has(s, class, u),
         Has(x, "rich", u) => Has(s, "rich", u),
         x.lastGeneration = s.lastGeneration,
         x.documents[u] = WithPending(s.documents[u], NoPending),
         s.documents[u] \in Documents, NEW g,
         s.documents[u].pending # NoPending, s.documents[u].pending.generation = g,
         \A w \in Members(x.deferredTokens[u]) :
           /\ w \in Members(s.deferredTokens[u])
           /\ ~ (w.revision = s.documents[u].revision /\ w.generation = g)
  PROVE  Fine(x, u)
<1>0. NoPending \in [revision : Nat, generation : Nat, sequence : Nat]
  BY DEF NoPending
<1>1. /\ x.documents[u].revision = s.documents[u].revision
      /\ x.documents[u].analysis = s.documents[u].analysis
      /\ x.documents[u].rejected = s.documents[u].rejected
      /\ x.documents[u].foreground = s.documents[u].foreground
      /\ x.documents[u].overlay = s.documents[u].overlay
      /\ x.documents[u].pending = NoPending
  <2>1. s.documents[u] = DocumentParts(s.documents[u])
    BY DocumentIs
  <2> HIDE DEF NoPending
  <2> QED
    BY <2>1 DEF WithPending, DocumentParts
<1>2. Staffed(x, u)
  BY <1>1 DEF Fine, Staffed
<1>3. Projected(x, u)
  BY <1>1 DEF Fine, Projected
<1>4. s.lastGeneration = generation => Members(x.deferredTokens[u]) = {}
  BY DEF Fine, Served, TokensCurrent
<1>5. Served(x, u)
  BY <1>1, <1>4 DEF Served
<1> QED
  BY <1>2, <1>3, <1>5 DEF Fine

LEMMA RichSkippedWorks ==
  ASSUME NEW s, Consistent(s), NEW job, GoodJob(s, job), job.kind = "rich",
         Fits(s, job), \A v \in Uris : Fine(s, v)
  PROVE  Advances(s, Completed(s, job), RichSkipped(s, job))
<1> DEFINE u == job.task.uri
           c == Completed(s, job)
           o == RichSkipped(s, job)
           pending == s.documents[u].pending
           match == pending.revision = job.task.revision /\ pending.generation = job.generation
           idle == IF match THEN CancelPending(c, u) ELSE c
           t == RejectDeferredTokens(idle, u, {job.task.revision}, {job.generation})
<1>0. /\ Good(s) /\ u \in Uris /\ job.task.class = "rich"
      /\ job.task.revision \in Nat \ {0} /\ s.documents[u] \in Documents
  BY JobType DEF Consistent, GoodJob, Good, MainTypes
<1>1. o = Outcome(t, jobs)
  BY DEF RichSkipped, Document
<1>2. /\ Moves(s, c, u) /\ Good(c) /\ Follows(s, c)
      /\ c.documents = s.documents /\ c.deferredTokens = s.deferredTokens
      /\ c.lastGeneration = s.lastGeneration
      /\ Accepts(s, job) =>
           /\ Has(s, "rich", u) /\ s.table.retained[<<"rich", u>>].task = job.task
           /\ ~ Has(c, "rich", u) /\ Otherwise(s, c, u, "rich")
      /\ ~ Accepts(s, job) => Still(s, c)
  BY <1>0, CompletedRich
<1>3. Uncaptured(c) => Uncaptured(s)
  BY <1>2, FollowsUncaptured
<1>4. Still(c, c)
  BY <1>2 DEF Still, Follows, Good, MainTypes, Idle, IsTable
<1>5. idle = IF match THEN CancelPending(c, u) ELSE c
  OBVIOUS
<1> HIDE DEF c, o, idle
<1>6. Stops(c, CancelPending(c, u), u)
  BY <1>0, <1>2, CancelGood
<1>7. Good(idle) /\ Moves(c, idle, u)
  <2>1. CASE match
    <3>1. idle = CancelPending(c, u)
      BY <1>5, <2>1
    <3>2. Evolves(c, idle) /\ Fewer(c, idle) /\ Beside(c, idle, u)
      BY <1>0, <1>2, <1>6, <3>1, StopsEvolves
    <3>3. Good(idle) /\ Follows(c, idle)
      BY <1>2, <1>6, <3>1, CancelRejecting DEF Stops, Rejecting
    <3> QED
      BY <3>2, <3>3 DEF Moves
  <2>2. CASE ~ match
    BY <1>2, <1>4, <1>5, <2>2, StillMoves
  <2> QED
    BY <2>1, <2>2
<1> DEFINE r == {job.task.revision}
           h == {job.generation}
<1>8. /\ \A w \in TokenWaiters :
           w.revision = job.task.revision /\ w.generation = job.generation
                                   => w \in Rejects(r, h)
      /\ t = RejectDeferredTokens(idle, u, r, h)
  BY DEF TokenWaiters, Rejects
<1> HIDE DEF r, h, t
<1>9. /\ Still(idle, t)
      /\ Members(t.deferredTokens[u]) = Members(idle.deferredTokens[u]) \ Rejects(r, h)
  BY <1>0, <1>7, <1>8, DropsStill
<1>10. Moves(c, t, u)
  BY <1>2, <1>7, <1>9, StillMoves, MovesTrans
<1>11. Fine(t, u)
  <2>1. CASE match
    <3>1. idle = CancelPending(c, u)
      BY <1>5, <2>1
    <3>2. /\ idle.documents = [c.documents EXCEPT
                                ![u] = WithPending(c.documents[u], NoPending)]
          /\ idle.table.retained = c.table.retained
          /\ idle.lastGeneration = c.lastGeneration
          /\ idle.deferredTokens = c.deferredTokens
      BY <1>6, <3>1 DEF Stops, Flags, Keeps, Fields
    <3>3. /\ t.documents[u] = WithPending(s.documents[u], NoPending)
          /\ t.lastGeneration = s.lastGeneration
          /\ \A class : Has(t, class, u) <=> Has(c, class, u)
      <4>1. c.documents \in [Uris -> Documents]
        BY <1>2 DEF Good, MainTypes
      <4> QED
        BY <1>0, <1>2, <1>9, <3>2, <4>1 DEF Still, Has
    <3>4. /\ \A class \in {"foreground", "semantic"} : Has(t, class, u) <=> Has(s, class, u)
          /\ Has(t, "rich", u) => Has(s, "rich", u)
      <4>1. CASE Accepts(s, job)
        BY <1>2, <3>3, <4>1 DEF Otherwise, Classes
      <4>2. CASE ~ Accepts(s, job)
        BY <1>2, <3>3, <4>2 DEF Still, Has
      <4> QED
        BY <4>1, <4>2
    <3>5. pending # NoPending /\ pending.generation = job.generation
      BY <1>0, <2>1 DEF NoPending
    <3>6. job.task.revision = s.documents[u].revision
      BY <1>0, <2>1, <3>5 DEF Fine, Projected
    <3>7. \A w \in Members(t.deferredTokens[u]) :
            /\ w \in Members(s.deferredTokens[u])
            /\ ~ (w.revision = s.documents[u].revision /\ w.generation = job.generation)
      <4>1. Members(s.deferredTokens[u]) \subseteq TokenWaiters
        BY <1>0, WaiterTypes
      <4> QED
        BY <1>2, <1>8, <1>9, <3>2, <3>6, <4>1
    <3>8. Fine(s, u) /\ TokensCurrent(s, u)
      BY <1>0 DEF Consistent, QueuesCurrent
    <3> DEFINE g == job.generation
    <3> HIDE DEF u, g
    <3> QED
      BY <1>0, <3>3, <3>4, <3>5, <3>7, <3>8, SkippedFine DEF g
  <2>2. CASE ~ match
    <3>1. idle = c
      BY <1>5, <2>2
    <3>2. Fine(c, u)
      <4>1. CASE Accepts(s, job)
        <5>1. \/ ~ Uncaptured(s) \/ s.documents[u].pending = NoPending
              \/ s.documents[u].pending.generation # generation
          BY <1>0, <1>2, <2>2, <4>1, RichAccepted
        <5> QED
          BY <1>0, <1>2, <1>3, <4>1, <5>1, RichGoneFine
      <4>2. CASE ~ Accepts(s, job)
        BY <1>0, <1>2, <4>2, StillFine
      <4> QED
        BY <4>1, <4>2
    <3> QED
      BY <1>0, <1>2, <1>9, <3>1, <3>2, StillFine
  <2> QED
    BY <2>1, <2>2
<1>12. Ends(c, o, u) /\ o.s = t
  BY <1>1, <1>10, MovedEnds, OutcomeParts
<1>13. Advances(s, c, o)
  BY <1>0, <1>2, <1>11, <1>12, EndsAdvances
<1> QED
  BY <1>13 DEF c, o

(* A document that has become analysed is ready for its projection.        *)
LEMMA AnalysedPrepared ==
  ASSUME NEW s, NEW x, NEW u, Projected(s, u), Served(s, u), TokensCurrent(x, u),
         x.documents[u].revision = s.documents[u].revision, x.documents[u].analysis,
         x.documents[u].overlay = s.documents[u].overlay,
         x.documents[u].pending = s.documents[u].pending,
         Members(x.deferredTokens[u]) \subseteq Members(s.deferredTokens[u]),
         x.lastGeneration = s.lastGeneration, Uncaptured(x) => Uncaptured(s),
         Has(x, "rich", u) <=> Has(s, "rich", u),
         Has(s, "rich", u) =>
           x.table.retained[<<"rich", u>>] = s.table.retained[<<"rich", u>>]
  PROVE  Projected(x, u) /\ Prepared(x, u)
<1>1. Projected(x, u)
  BY DEF Projected, Underway
<1>2. ASSUME s.lastGeneration = generation, ~ NeedsRich(x, u, generation),
             Members(x.deferredTokens[u]) # {}
      PROVE  x.documents[u].pending # NoPending
  <2>1. x.documents[u].revision # 0
    BY <1>2 DEF TokensCurrent
  <2>2. CASE x.documents[u].overlay =
               [revision |-> x.documents[u].revision, generation |-> generation]
    <3>1. s.documents[u].overlay.revision = s.documents[u].revision
      BY <2>2
    <3>2. s.documents[u].analysis /\ Members(s.deferredTokens[u]) # {}
      BY <1>2, <2>1, <3>1 DEF Projected
    <3> QED
      BY <1>2, <3>2 DEF Served
  <2>3. CASE x.documents[u].pending.revision = x.documents[u].revision
    BY <2>1, <2>3 DEF NoPending
  <2> QED
    BY <1>2, <2>2, <2>3 DEF NeedsRich, Document
<1>3. Prepared(x, u)
  BY <1>2 DEF Prepared, Served
<1> QED
  BY <1>1, <1>3

LEMMA AnalysisReadyWorks ==
  ASSUME NEW s, Consistent(s), NEW job, GoodJob(s, job), job.kind = "semantic",
         generation \in Nat, \A v \in Uris : Fine(s, v)
  PROVE  Advances(s, Completed(s, job), AnalysisReady(s, job))
<1> DEFINE u == job.task.uri
           c == Completed(s, job)
           o == AnalysisReady(s, job)
           same == [request : Requests, revision : {job.task.revision}]
           queue == Kept(s.deferredRequests[u], same)
           others == Kept(s.deferredRequests[u], Waiters \ same)
           a == Answer(c, RequestsIn(others), "error")
           x == [a EXCEPT !.documents[u].analysis = TRUE,
                          !.documents[u].rejected = FALSE,
                          !.deferredRequests[u] = << >>,
                          !.replays = Replayed(queue)]
<1>0. /\ Good(s) /\ job.task \in Identities /\ u \in Uris
      /\ s.deferredRequests[u] \in Seq(Waiters)
  BY JobType DEF Consistent, Good, MainTypes
<1>1. CASE ~ Accepts(s, job)
  <2>1. o = Outcome(c, jobs)
    BY <1>1 DEF AnalysisReady
  <2> QED
    BY <1>1, <2>1, RefusedAdvances
<1>2. CASE Accepts(s, job)
  <2>1. o = AdmitRich(x, u, generation)
    <3>1. Matches(s, job)
      BY <1>2, AcceptsMatches
    <3> QED
      BY <1>2, <3>1 DEF AnalysisReady, Replayed
  <2>2. /\ Moves(s, c, u) /\ Kin(s, c, u) /\ Quiet(s, c) /\ Keeps(s, c, {"table"})
    BY <1>0, CompletedMoves, CompletedKin, CompletedQuiet, CompletedKeeps
  <2> HIDE DEF c, o
  <2>3. /\ Members(queue) \subseteq Members(s.deferredRequests[u])
        /\ Members(others) \subseteq Members(s.deferredRequests[u])
        /\ queue \in Seq(Waiters) /\ others \in Seq(Waiters)
    BY <1>0, KeptProperties
  <2> HIDE DEF queue, others, same
  <2>4. /\ RequestsIn(queue) \subseteq RequestsIn(s.deferredRequests[u])
        /\ RequestsIn(others) \subseteq RequestsIn(s.deferredRequests[u])
    BY <2>3, RequestsAreMembers
  <2>5. RequestsIn(others) \cap Requests \subseteq Asked(c)
    BY <1>0, <2>2, <2>4 DEF Good, Held, Keeps, Fields, Asked
  <2>6. Good(c)
    BY <2>2 DEF Moves
  <2>7. Answers(c, a, RequestsIn(others), "error") /\ Quiet(c, a) /\ Still(c, a)
    BY <2>5, <2>6, AnswerGood, AnswerCalm, AnswerStill
  <2> HIDE DEF a
  <2>8. Quiet(s, a) /\ Consistent(a) /\ Good(a) /\ Shape(a)
        /\ a.documents \in [Uris -> Documents]
    <3>1. Quiet(s, a)
      BY <1>0, <2>2, <2>7, QuietTrans
    <3>2. Consistent(a)
      BY <3>1, CalmSound DEF Quiet
    <3> QED
      BY <3>1, <3>2 DEF Consistent, Good, MainTypes
  <2>9. a.deferredRequests = s.deferredRequests
    BY <2>2, <2>7 DEF Answers, Keeps, Fields
  <2>10. /\ Replayed(queue) \in Seq(Requests)
         /\ Members(Replayed(queue)) \subseteq Replayable(a, u)
    <3>1. \A w \in Waiters : w.request \in Requests
      BY DEF Waiters
    <3>2. /\ Replayed(queue) \in Seq(Requests)
          /\ Members(Replayed(queue)) = RequestsIn(queue)
      BY <2>3, <3>1, ReplayedType
    <3>3. RequestsIn(a.deferredRequests[u]) \subseteq Replayable(a, u)
      BY <1>0, <2>8, QueueReplayable
    <3> QED
      BY <2>4, <2>9, <3>2, <3>3
  <2> DEFINE p == Replayed(queue)
  <2> HIDE DEF p
  <2>11. AnalysisInstalled(a, x, u, p)
    BY <1>0, <2>8, AnalysisParts DEF p
  <2> HIDE DEF x
  <2>12. Consistent(x) /\ Good(x) /\ Follows(a, x)
    BY <1>0, <2>8, <2>10, <2>11, AnalysisSound DEF p, Consistent, Rejecting
  <2>13. /\ x.table = a.table /\ x.lastGeneration = a.lastGeneration
         /\ x.deferredTokens = a.deferredTokens
         /\ x.documents[u] = WithAnalysis(a.documents[u])
         /\ \A v \in Uris : v # u => x.documents[v] = a.documents[v]
    BY <1>0, <2>8, <2>11 DEF AnalysisInstalled, Keeps, Fields
  <2>14. /\ x.documents[u].revision = a.documents[u].revision
         /\ x.documents[u].overlay = a.documents[u].overlay
         /\ x.documents[u].pending = a.documents[u].pending
         /\ x.documents[u].analysis
    <3>1. a.documents[u] \in Documents
      BY <1>0, <2>8
    <3> QED
      BY <2>13, <3>1, MarkedFields
  <2>15. Moves(a, x, u)
    BY <2>8, <2>12, <2>13, <2>14, DocumentMoves
  <2>16. Moves(c, a, u) /\ SameAt(c, a, u) /\ Kin(s, a, u)
    <3>1. Moves(c, a, u) /\ SameAt(c, a, u)
      BY <1>0, <2>6, <2>7, StillMoves
    <3> QED
      BY <2>2, <3>1, SameAtKin, KinTrans
  <2>17. Moves(c, x, u)
    BY <2>6, <2>15, <2>16, MovesTrans
  <2>18. Projected(a, u) /\ Served(a, u)
    BY <1>0, <2>16 DEF Kin, Fine, Projected, Underway, Served
  <2>19. Projected(x, u) /\ Prepared(x, u) /\ TokensCurrent(x, u)
    <3>1. TokensCurrent(x, u)
      BY <1>0, <2>12 DEF Consistent, QueuesCurrent
    <3>2. Uncaptured(x) => Uncaptured(a)
      BY <2>12, FollowsUncaptured
    <3>3. /\ Has(x, "rich", u) <=> Has(a, "rich", u)
          /\ Has(a, "rich", u) =>
               x.table.retained[<<"rich", u>>] = a.table.retained[<<"rich", u>>]
      BY <2>13 DEF Has
    <3>4. Members(x.deferredTokens[u]) \subseteq Members(a.deferredTokens[u])
      BY <2>13
    <3> QED
      BY <2>13, <2>14, <2>18, <3>1, <3>2, <3>3, <3>4, AnalysedPrepared
  <2>20. Ends(x, o, u) /\ Fine(o.s, u)
    BY <1>0, <2>1, <2>12, <2>14, <2>19, RichFine
  <2>21. Ends(c, o, u)
    BY <2>6, <2>17, <2>20, MovesEnds
  <2>22. Advances(s, c, o)
    BY <1>0, <2>2, <2>20, <2>21, EndsAdvances
  <2> QED
    BY <2>22 DEF c, o
<1> QED
  BY <1>1, <1>2

-----------------------------------------------------------------------------
(* A new generation rejects every deferred token request and drops what    *)
(* the token caches show or wait for of another generation.                *)
LEMMA ObservesEvolves ==
  ASSUME NEW s, Good(s), NEW g \in Nat, NEW x, Observes(s, x, g)
  PROVE  Good(x) /\ Follows(s, x) /\ Evolves(s, x) /\ Fewer(s, x)
<1>1. /\ Good(x) /\ Follows(s, x)
      /\ x.table.retained = s.table.retained
      /\ x.table.sequence = s.table.sequence
      /\ x.table.cancelled = s.table.cancelled \union OutdatedSequences(s, g)
      /\ \A u \in Uris : x.documents[u] = Settled(s, u, g)
  BY DEF Observes, Rejecting
<1>2. Reuses(s, x)
  <2>1. \A u \in Uris : Settled(s, u, g).pending \in {NoPending, s.documents[u].pending}
    BY SettledType
  <2> QED
    BY <1>1, <2>1 DEF Reuses, FreshPending
<1>3. Fewer(s, x)
  BY <1>1 DEF Fewer, Old
<1>4. \A n \in x.table.cancelled : Raised(s, x, n)
  BY <1>1 DEF Raised, OutdatedSequences, Outdated, Document
<1>5. \A k \in DOMAIN x.table.retained : Old(s, x, k)
  BY <1>3 DEF Fewer
<1>6. s.table.cancelled \subseteq x.table.cancelled
  BY <1>1
<1>7. Evolves(s, x)
  BY <1>1, <1>2, <1>4, <1>5, <1>6, EvolvesParts
<1> QED
  BY <1>1, <1>3, <1>7

LEMMA SettledFine ==
  ASSUME NEW s, Good(s), NEW u \in Uris, Fine(s, u), generation \in Nat,
         NEW x, Observes(s, x, generation)
  PROVE  Fine(x, u)
<1> DEFINE g == generation
           d == s.documents[u]
           e == x.documents[u]
<1>1. /\ e = Settled(s, u, g) /\ x.lastGeneration = g
      /\ x.table.retained = s.table.retained
      /\ x.deferredTokens[u] = << >> /\ Follows(s, x)
  BY DEF Observes, Rejecting
<1>2. /\ e.revision = d.revision /\ e.analysis = d.analysis /\ e.rejected = d.rejected
      /\ e.foreground = d.foreground
      /\ e.overlay = IF d.overlay.generation # g THEN NoOverlay ELSE d.overlay
      /\ e.pending = IF u \in Outdated(s, g) THEN NoPending ELSE d.pending
  <2>1. /\ SameStatus(d, Settled(s, u, g))
        /\ Settled(s, u, g).foreground = s.documents[u].foreground
        /\ Settled(s, u, g).overlay = IF s.documents[u].overlay.generation # g
                                      THEN NoOverlay ELSE s.documents[u].overlay
        /\ Settled(s, u, g).pending = IF u \in Outdated(s, g)
                                      THEN NoPending ELSE s.documents[u].pending
    BY SettledType
  <2> QED
    BY <1>1, <2>1 DEF SameStatus
<1>3. e.pending # NoPending => e.pending = d.pending /\ d.pending.generation = g
  BY <1>2 DEF Outdated, Document
<1>4. e.overlay = d.overlay \/ e.overlay.revision = 0
  BY <1>2 DEF NoOverlay
<1>5. Members(x.deferredTokens[u]) = {}
  BY <1>1 DEF Members
<1>6. Uncaptured(x) => Uncaptured(s)
  BY <1>1, FollowsUncaptured
<1>7. \A class : Has(x, class, u) <=> Has(s, class, u)
  BY <1>1 DEF Has
<1>8. d.revision \in Nat
  BY NatDiagnostics
<1>9. Projected(s, u) /\ Staffed(s, u)
  BY DEF Fine
<1>10. Staffed(x, u)
  BY <1>2, <1>7, <1>9 DEF Staffed
<1>11. Projected(x, u)
  <2>1. e.pending # NoPending =>
          /\ e.pending.revision = e.revision /\ e.revision # 0
          /\ e.pending.generation <= generation
          /\ Underway(x, u)
    BY <1>1, <1>2, <1>3, <1>6, <1>7, <1>9 DEF Projected, Underway
  <2>2. /\ Has(x, "rich", u) => e.analysis
        /\ e.overlay.revision <= e.revision
        /\ e.overlay.revision = e.revision /\ e.revision # 0 => e.analysis
    BY <1>2, <1>4, <1>7, <1>8, <1>9 DEF Projected
  <2> QED
    BY <2>1, <2>2 DEF Projected
<1>12. Served(x, u)
  BY <1>3, <1>5 DEF Served
<1> QED
  BY <1>10, <1>11, <1>12 DEF Fine

LEMMA AdvancesFrom ==
  ASSUME NEW s, Good(s), NEW t, NEW u, Moves(s, t, u), NEW o, Advances(t, t, o)
  PROVE  Advances(s, s, o)
<1>1. Good(t) /\ Evolves(s, t) /\ Fewer(s, t)
  BY DEF Moves
<1>2. Evolves(s, o.s)
  BY <1>1, EvolvesTrans DEF Advances
<1>3. Hires(s, o.s, o.jobs)
  BY <1>1, FewerHires DEF Advances
<1> QED
  BY <1>2, <1>3 DEF Advances

LEMMA ObserveWorks ==
  ASSUME NEW s, Good(s), QueuesCurrent(s), generation \in Nat, \A u \in Uris : Fine(s, u)
  PROVE  Advances(s, s, Outcome(Observe(s, generation), jobs))
<1> DEFINE g == generation
           t == Observe(s, g)
           o == Outcome(t, jobs)
           x == [Answer(s, Waiting(s), "error") EXCEPT
                !.lastGeneration = g,
                !.deferredTokens = [u \in Uris |-> << >>],
                !.table.cancelled = @ \union OutdatedSequences(s, g),
                !.documents = [u \in Uris |-> Settled(s, u, g)]]
<1>0. /\ Shape(s) /\ s.documents \in [Uris -> Documents] /\ Good(t) /\ Follows(s, t)
      /\ o.s = t /\ o.jobs = jobs
  BY ObserveQuiet, OutcomeParts DEF Good, MainTypes, Observed, Quiet, Calm
<1>1. ASSUME Evolves(s, t), Fewer(s, t), \A u \in Uris : Fine(t, u)
      PROVE  Advances(s, s, o)
  BY <1>0, <1>1 DEF Advances, Hires
<1>2. CASE g = s.lastGeneration
  <2>1. t = s
    BY <1>2 DEF Observe
  <2>2. Still(s, s)
    BY <1>0, <2>1 DEF Still
  <2>3. Evolves(s, t) /\ Fewer(s, t)
    BY <2>1, <2>2, StillMoves DEF Moves
  <2> QED
    BY <1>1, <2>1, <2>3
<1>3. CASE g # s.lastGeneration /\ \A u \in Uris : ~ IsOpen(s, u)
  <2>1. t = [s EXCEPT !.lastGeneration = g]
    BY <1>3 DEF Observe
  <2> HIDE DEF t
  <2>2. /\ t.documents = s.documents /\ t.table = s.table
        /\ t.deferredTokens = s.deferredTokens
    BY <1>0, <2>1 DEF Shape, Fields
  <2>3. Evolves(s, t) /\ Fewer(s, t)
    BY <1>0, <2>2, KeepsEvolves
  <2>4. ASSUME NEW u \in Uris PROVE Fine(t, u)
    <3>1. s.documents[u].revision = 0
      BY <1>3 DEF IsOpen, Document
    <3>2. Fine(s, u) /\ TokensCurrent(s, u) /\ (Uncaptured(t) => Uncaptured(s))
      BY <1>0, FollowsUncaptured DEF QueuesCurrent
    <3>3. s.documents[u].pending = NoPending /\ Members(s.deferredTokens[u]) = {}
      BY <3>1, <3>2 DEF Fine, Projected, TokensCurrent
    <3>4. Staffed(t, u)
      BY <2>2, <3>1 DEF Staffed
    <3>5. Projected(t, u)
      BY <2>2, <3>2, <3>3 DEF Fine, Projected, Has
    <3>6. Served(t, u)
      BY <2>2, <3>3 DEF Served
    <3> QED
      BY <3>4, <3>5, <3>6 DEF Fine
  <2> QED
    BY <1>1, <2>3, <2>4 DEF t
<1>4. CASE g # s.lastGeneration /\ ~ \A u \in Uris : ~ IsOpen(s, u)
  <2>1. t = RequestRefresh(x)
    BY <1>4 DEF Observe, Waiting, OutdatedSequences, Outdated, Settled
  <2>2. Observes(s, x, g)
    BY ObserveGood
  <2> HIDE DEF x, t
  <2>3. Good(x) /\ Follows(s, x) /\ Evolves(s, x) /\ Fewer(s, x)
    BY <2>2, ObservesEvolves
  <2>4. \A u \in Uris : Fine(x, u)
    BY <2>2, SettledFine
  <2>5. Still(x, t)
    BY <2>1, <2>3, RefreshStill
  <2>6. /\ Evolves(x, t) /\ Fewer(x, t)
        /\ \A u \in Uris : Fine(t, u)
    BY <2>3, <2>4, <2>5, StillMoves, StillFine DEF Moves
  <2>7. Evolves(s, t) /\ Fewer(s, t)
    BY <1>0, <2>3, <2>6, EvolvesTrans, FewerTrans
  <2> QED
    BY <1>1, <2>6, <2>7 DEF t
<1> QED
  BY <1>2, <1>3, <1>4

-----------------------------------------------------------------------------
(* Requests.                                                               *)
LEMMA StillSelf ==
  ASSUME NEW s, Good(s)
  PROVE  Still(s, s) /\ \A u : Moves(s, s, u)
<1>1. Still(s, s)
  BY NothingRejected DEF Still, Rejecting
<1> QED
  BY <1>1, StillMoves

LEMMA EndsAlone ==
  ASSUME NEW s, Good(s), NEW u \in Uris, NEW o, Ends(s, o, u),
         \A v \in Uris : Fine(s, v), Fine(o.s, u)
  PROVE  Advances(s, s, o)
BY StillSelf, EndsAdvances

LEMMA StillAlone ==
  ASSUME NEW s, Good(s), NEW t, Still(s, t), \A v \in Uris : Fine(s, v)
  PROVE  Advances(s, s, Outcome(t, jobs))
BY StillAdvances

LEMMA DeferRequestStill ==
  ASSUME NEW s, Good(s), NEW r, Awaits(s, r), ~ s.documents[UriOf(s, r)].analysis
  PROVE  Still(s, DeferRequest(s, r))
<1> DEFINE u == UriOf(s, r)
           d == s.documents[u]
           t == DeferRequest(s, r)
           w == [request |-> r, revision |-> d.revision]
           q == Append(s.deferredRequests[u], w)
           R == {r}
           error == "error"
<1>1. Good(t) /\ Follows(s, t)
  BY DeferRequestQuiet DEF Quiet, Calm
<1>2. t = Answer(s, R, error) \/ t = [s EXCEPT !.deferredRequests[u] = q]
  BY DEF DeferRequest, Document
<1>3. R \cap Requests \subseteq Asked(s) /\ error \in {"result", "error"} /\ Shape(s)
  BY DEF Awaits, Good, MainTypes
<1> HIDE DEF t, R, error, q, w, u
<1>4. CASE t = Answer(s, R, error)
  <2>1. Still(s, Answer(s, R, error))
    BY <1>3, AnswerStill
  <2> QED
    BY <1>4, <2>1 DEF t
<1>5. CASE t = [s EXCEPT !.deferredRequests[u] = q]
  <2>1. /\ t.documents = s.documents /\ t.table = s.table
        /\ t.lastGeneration = s.lastGeneration /\ t.deferredTokens = s.deferredTokens
    BY <1>3, <1>5 DEF Shape, Fields
  <2> QED
    BY <1>1, <2>1 DEF Still, t
<1> QED
  BY <1>2, <1>4, <1>5

LEMMA ResultWorks ==
  ASSUME NEW s, Good(s), QueuesCurrent(s), NEW r, Asks(s, r), generation \in Nat,
         \A v \in Uris : Fine(s, v)
  PROVE  Advances(s, s, Outcome(Observe(Answer(s, {r}, "result"), generation), jobs))
<1> DEFINE R == {r}
           result == "result"
           a == Answer(s, R, result)
           o == Outcome(Observe(a, generation), jobs)
<1>1. Calm(s, a)
  BY AnswerResult
<1>2. R \cap Requests \subseteq Asked(s) /\ result \in {"result", "error"}
  BY DEF Asks
<1> HIDE DEF R, result
<1>3. Still(s, a)
  BY <1>2, AnswerStill
<1> HIDE DEF a
<1>4. QueuesCurrent(a) /\ Good(a)
  BY <1>1 DEF Calm, Stays, QueuesCurrent
<1>5. /\ \A v \in Uris : Fine(a, v)
      /\ \A u : Moves(s, a, u)
  BY <1>3, StillFine, StillMoves
<1>6. Advances(a, a, o)
  BY <1>4, <1>5, ObserveWorks
<1> HIDE DEF o
<1>7. Advances(s, s, o)
  BY <1>5, <1>6, AdvancesFrom
<1> QED
  BY <1>7 DEF o, a, R, result

LEMMA CompletionWorks ==
  ASSUME NEW s, Good(s), QueuesCurrent(s), NEW r, Asks(s, r), generation \in Nat,
         \A v \in Uris : Fine(s, v)
  PROVE  Advances(s, s, DispatchCompletion(s, r))
<1>1. CASE AwaitsAnalysis(s, UriOf(s, r))
  <2>1. Awaits(s, r) /\ ~ s.documents[UriOf(s, r)].analysis
    BY <1>1 DEF AwaitsAnalysis, IsOpen, Document, Asks, Awaits
  <2>2. Still(s, DeferRequest(s, r))
    BY <2>1, DeferRequestStill
  <2>3. DispatchCompletion(s, r) = Outcome(DeferRequest(s, r), jobs)
    BY <1>1 DEF DispatchCompletion
  <2> QED
    BY <2>2, <2>3, StillAlone
<1>2. CASE ~ AwaitsAnalysis(s, UriOf(s, r))
  <2>1. DispatchCompletion(s, r) = Outcome(Observe(Answer(s, {r}, "result"), generation), jobs)
    BY <1>2 DEF DispatchCompletion
  <2> QED
    BY <2>1, ResultWorks
<1> QED
  BY <1>1, <1>2

LEMMA DebugWorks ==
  ASSUME NEW s, Good(s), QueuesCurrent(s), NEW r, Asks(s, r), s.requests[r].kind = "debug",
         generation \in Nat, \A v \in Uris : Fine(s, v)
  PROVE  Advances(s, s, DispatchDebug(s, r))
<1> DEFINE u == UriOf(s, r)
           o == DispatchDebug(s, r)
           class == "rich"
           kind == "debug"
<1>1. u \in Uris /\ r \in Requests /\ class \in Classes /\ ~ Uncaptured(s)
  BY DEF Asks, Asked, UriOf, Classes, Uncaptured
<1>2. CASE AwaitsAnalysis(s, u)
  <2>1. Awaits(s, r) /\ ~ s.documents[UriOf(s, r)].analysis
    BY <1>2 DEF AwaitsAnalysis, IsOpen, Document, Asks, Awaits
  <2>2. Still(s, DeferRequest(s, r))
    BY <2>1, DeferRequestStill
  <2>3. o = Outcome(DeferRequest(s, r), jobs)
    BY <1>2 DEF DispatchDebug
  <2> QED
    BY <2>2, <2>3, StillAlone
<1>3. CASE ~ AwaitsAnalysis(s, u) /\ ~ IsOpen(s, u)
  <2>1. o = Outcome(Observe(Answer(s, {r}, "result"), generation), jobs)
    BY <1>3 DEF DispatchDebug
  <2> QED
    BY <2>1, ResultWorks
<1>4. CASE ~ AwaitsAnalysis(s, u) /\ IsOpen(s, u) /\ CanAdmit(s, class, u)
  <2> DEFINE w == Start(s, class, u, kind, 0, r)
  <2>1. o = w
    BY <1>4 DEF DispatchDebug
  <2>2. s.documents[u].revision # 0 /\ s.documents[u].analysis /\ kind # "rich"
    BY <1>4 DEF IsOpen, Document, AwaitsAnalysis
  <2> HIDE DEF u, class, kind
  <2>3. /\ Good(w.s) /\ Rejecting(s, w.s)
        /\ StartsTask(s, w, class, u, kind, 0, r)
    BY <1>1, <1>4, <2>2, StartGood
  <2> HIDE DEF w, o
  <2>4. Follows(s, w.s)
    BY <2>3 DEF Rejecting
  <2>5. /\ Evolves(s, w.s) /\ Hires(s, w.s, w.jobs) /\ Beside(s, w.s, u)
        /\ Has(w.s, class, u) /\ Otherwise(s, w.s, u, class)
        /\ w.s.documents = s.documents /\ w.s.deferredTokens = s.deferredTokens
    BY <1>1, <2>2, <2>3, <2>4, StartsHires
  <2>6. ~ Uncaptured(w.s) /\ w.s.lastGeneration = s.lastGeneration
    BY <1>1, <2>3, <2>4, FollowsUncaptured DEF StartsTask, Keeps, Fields
  <2>7. Fine(w.s, u)
    <3>1. Fine(s, u)
      BY <1>1
    <3>2. Staffed(w.s, u)
      BY <2>2, <2>5 DEF Staffed
    <3>3. Projected(w.s, u)
      <4>1. s.documents[u].pending # NoPending => Underway(w.s, u)
        BY <2>6 DEF Underway
      <4> QED
        BY <2>2, <2>5, <3>1, <4>1 DEF Fine, Projected
    <3>4. Served(w.s, u)
      BY <2>5, <2>6, <3>1 DEF Fine, Served
    <3> QED
      BY <3>2, <3>3, <3>4 DEF Fine
  <2>8. Ends(s, w, u)
    BY <2>3, <2>4, <2>5 DEF Ends
  <2> QED
    BY <1>1, <2>1, <2>7, <2>8, EndsAlone DEF o
<1>5. CASE ~ AwaitsAnalysis(s, u) /\ IsOpen(s, u) /\ ~ CanAdmit(s, class, u)
  <2> DEFINE x == AdmitAndTake(s, class, u)
             R == {r}
             error == "error"
             t == Answer(x, R, error)
  <2>1. o = Outcome(t, jobs)
    BY <1>5 DEF DispatchDebug
  <2>2. s.documents[u].revision # 0
    BY <1>5 DEF IsOpen, Document
  <2> HIDE DEF u, class, o
  <2>3. AdmitsTask(s, x, class, u)
    BY <1>1, <2>2, TakeGood
  <2> HIDE DEF x
  <2> DEFINE K == {<<class, u>>}
  <2>4. /\ Good(x) /\ Keeps(s, x, {"table"}) /\ Cancels(s.table, x.table, K)
        /\ \A k \in K : k[2] = u
        /\ Follows(s, x)
    <3>1. Good(x) /\ Keeps(s, x, {"table"}) /\ Cancels(s.table, x.table, K)
      BY <1>5, <2>3 DEF AdmitsTask
    <3>2. Rejecting(s, x)
      BY <2>3, TakeRejecting
    <3>3. \A k \in K : k[2] = u
      OBVIOUS
    <3> QED
      BY <3>1, <3>2, <3>3 DEF Rejecting
  <2>5. /\ x.documents = s.documents /\ x.deferredTokens = s.deferredTokens
        /\ x.lastGeneration = s.lastGeneration
    BY <2>4 DEF Keeps, Fields
  <2>6. ~ Has(x, class, u) /\ Otherwise(s, x, u, class)
    BY <2>4, CancelsOtherwise
  <2> HIDE DEF K
  <2>7. Evolves(s, x) /\ Fewer(s, x)
    BY <2>4, <2>5, CancelsEvolves
  <2>8. Beside(s, x, u)
    BY <2>4, <2>5, CancelsBeside
  <2>9. Moves(s, x, u)
    BY <2>4, <2>7, <2>8 DEF Moves
  <2>10. Fine(x, u)
    <3>1. class = "rich"
      BY DEF class
    <3>2. Uncaptured(x) => Uncaptured(s)
      BY <2>4, FollowsUncaptured
    <3> QED
      BY <1>1, <2>5, <2>6, <3>1, <3>2, RichGoneFine
  <2>11. R \cap Requests \subseteq Asked(x) /\ error \in {"result", "error"}
    BY <2>4, FollowsAsked DEF Asks
  <2> HIDE DEF R, error
  <2>12. Still(x, t)
    BY <2>4, <2>11, AnswerStill
  <2> HIDE DEF t
  <2>13. Fine(t, u) /\ Moves(x, t, u)
    BY <1>1, <2>4, <2>10, <2>12, StillFine, StillMoves
  <2>14. Ends(s, o, u) /\ o.s = t
    BY <2>1, <2>9, <2>13, MovesTrans, MovedEnds, OutcomeParts
  <2> QED
    BY <1>1, <2>13, <2>14, EndsAlone DEF o
<1> QED
  BY <1>2, <1>3, <1>4, <1>5

(* A deferred token request waits for this generation's projection.        *)
LEMMA DeferTokensWorks ==
  ASSUME NEW s, Good(s), NEW r, Awaits(s, r), generation \in Nat,
         NEW u, u = UriOf(s, r), Fine(s, u),
         s.documents[u].analysis => s.documents[u].pending # NoPending
  PROVE  LET t == DeferTokens(s, r, generation)
         IN  /\ Moves(s, t, u) /\ Fine(t, u)
             /\ t.table = s.table /\ t.documents = s.documents
<1> DEFINE d == s.documents[u]
           t == DeferTokens(s, r, generation)
           w == [request |-> r, revision |-> d.revision, generation |-> generation]
           q == s.deferredTokens[u]
           p == Append(q, w)
           R == {r}
           error == "error"
<1>1. Good(t) /\ Follows(s, t)
  BY DeferTokensQuiet DEF Quiet, Calm
<1>2. t = Answer(s, R, error) \/ t = [s EXCEPT !.deferredTokens[u] = p]
  BY DEF DeferTokens, Document
<1>3. R \cap Requests \subseteq Asked(s) /\ error \in {"result", "error"} /\ Shape(s)
  BY DEF Awaits, Good, MainTypes
<1>4. /\ u \in Uris /\ r \in Requests /\ d.revision \in Nat /\ q \in Seq(TokenWaiters)
      /\ s.deferredTokens \in [Uris -> Seq(TokenWaiters)]
  BY DEF Awaits, Asked, UriOf, Good, MainTypes, Documents
<1>5. w \in TokenWaiters /\ w.generation = generation
  BY <1>4 DEF TokenWaiters
<1>6. Members(p) = Members(q) \union {w}
  BY <1>4, <1>5, AppendMembers
<1> HIDE DEF t, R, error, p, w
<1>7. CASE t = Answer(s, R, error)
  <2>1. Still(s, Answer(s, R, error))
    BY <1>3, AnswerStill
  <2>2. Still(s, t)
    BY <1>7, <2>1
  <2> QED
    BY <1>4, <2>2, StillFine, StillMoves DEF t, Still
<1>8. CASE t = [s EXCEPT !.deferredTokens[u] = p]
  <2>1. /\ t.documents = s.documents /\ t.table = s.table
        /\ t.lastGeneration = s.lastGeneration
        /\ t.deferredTokens = [s.deferredTokens EXCEPT ![u] = p]
    BY <1>3, <1>8 DEF Shape, Fields
  <2>2. \A v \in Uris : v # u => t.deferredTokens[v] = s.deferredTokens[v]
    BY <1>4, <2>1
  <2>3. Moves(s, t, u)
    BY <1>1, <2>1, <2>2, DocumentMoves
  <2>4. Uncaptured(t) => Uncaptured(s)
    BY <1>1, FollowsUncaptured
  <2>5. Staffed(t, u) /\ Projected(t, u)
    BY <2>1, <2>4 DEF Fine, Staffed, Projected, Underway, Has
  <2>6. Members(t.deferredTokens[u]) = Members(q) \union {w}
    BY <1>4, <1>6, <2>1
  <2>7. Served(t, u)
    BY <1>5, <2>1, <2>6 DEF Fine, Served
  <2> QED
    BY <2>1, <2>3, <2>5, <2>7 DEF Fine, t
<1> QED
  BY <1>2, <1>7, <1>8

(* Admitting a projection changes no more of the document than what it     *)
(* calls pending.                                                          *)
LEMMA RichKeeps ==
  ASSUME NEW s, Good(s), NEW u \in Uris, NEW g \in Nat
  PROVE  LET d == s.documents[u]
             e == AdmitRich(s, u, g).s.documents[u]
         IN  /\ e.revision = d.revision /\ e.analysis = d.analysis
             /\ e.overlay = d.overlay
<1> DEFINE o == AdmitRich(s, u, g)
           p == Projection(s, u, g)
<1>1. RichAdmitted(s, o, u, g)
  BY AdmitRichGood
<1> HIDE DEF o, p
<1>2. CASE RichStarted(s, o, u, g)
  <2>1. o.s.documents = [s.documents EXCEPT ![u] = WithPending(s.documents[u], p)]
    BY <1>2 DEF RichStarted, p
  <2>2. s.documents \in [Uris -> Documents]
    BY DEF Good, MainTypes
  <2>3. o.s.documents[u] = WithPending(s.documents[u], p) /\ s.documents[u] \in Documents
    BY <2>1, <2>2
  <2>4. s.documents[u] = DocumentParts(s.documents[u])
    BY <2>3, DocumentIs
  <2> QED
    BY <2>3, <2>4 DEF WithPending, DocumentParts, o
<1>3. CASE RichRefused(s, o, u, g)
  <2>1. o.s.documents = s.documents
    BY <1>3 DEF RichRefused, Keeps, Fields
  <2> QED
    BY <2>1 DEF o
<1>4. CASE o.s = s
  BY <1>4 DEF o
<1> QED
  BY <1>1, <1>2, <1>3, <1>4 DEF RichAdmitted

LEMMA SelectedWorks ==
  ASSUME NEW s, Good(s), NEW u \in Uris, Fine(s, u), generation \in Nat
  PROVE  LET x == Selected(s, u)
         IN  \/ x = s
             \/ /\ Good(x) /\ Follows(s, x) /\ Moves(s, x, u) /\ Fine(x, u)
                /\ x.documents[u].overlay = NoOverlay
                /\ x.documents[u].revision = s.documents[u].revision
                /\ x.documents[u].analysis = s.documents[u].analysis
<1> DEFINE x == Selected(s, u)
           d == s.documents[u]
           e == WithOverlay(d, NoOverlay)
<1>1. Shape(s) /\ s.documents \in [Uris -> Documents] /\ d \in Documents
      /\ d.revision \in Nat
  BY DEF Good, MainTypes, Documents
<1>2. Good(x) /\ Follows(s, x)
  BY SelectedQuiet DEF Quiet, Calm
<1>3. CASE x # s
  <2>1. x = [s EXCEPT !.documents[u] = e]
    BY <1>3 DEF Selected, Document, WithOverlay
  <2>2. /\ e.overlay = NoOverlay /\ e.pending = d.pending
        /\ SameStatus(d, e) /\ e.foreground = d.foreground
    <3>1. NoOverlay \in [revision : Nat, generation : Nat]
      BY DEF NoOverlay
    <3> QED
      BY <1>1, <3>1, OverlayType
  <2> HIDE DEF x, e
  <2>3. /\ x.documents = [s.documents EXCEPT ![u] = e] /\ x.table = s.table
        /\ x.lastGeneration = s.lastGeneration /\ x.deferredTokens = s.deferredTokens
    BY <1>1, <2>1 DEF Shape, Fields
  <2>4. x.documents[u] = e /\ \A v \in Uris : v # u => x.documents[v] = s.documents[v]
    BY <1>1, <2>3
  <2>5. Moves(s, x, u)
    BY <1>2, <2>2, <2>3, <2>4, DocumentMoves
  <2>6. Uncaptured(x) => Uncaptured(s)
    BY <1>2, FollowsUncaptured
  <2>7. e.overlay.revision = 0
    BY <2>2 DEF NoOverlay
  <2>8. Staffed(x, u)
    BY <2>2, <2>3, <2>4 DEF Fine, Staffed, SameStatus, Has
  <2>9. Projected(x, u)
    BY <1>1, <2>2, <2>3, <2>4, <2>6, <2>7 DEF Fine, Projected, Underway, SameStatus, Has
  <2>10. Served(x, u)
    BY <2>2, <2>3, <2>4 DEF Fine, Served, SameStatus
  <2> QED
    BY <1>2, <2>2, <2>4, <2>5, <2>8, <2>9, <2>10 DEF Fine, SameStatus, x
<1> QED
  BY <1>3

(* A token request that no overlay answers.                                *)
LEMMA WaitingTokensWork ==
  ASSUME NEW s, Good(s), QueuesCurrent(s), NEW r, Asks(s, r), generation \in Nat,
         NEW u, u = UriOf(s, r), \A v \in Uris : Fine(s, v),
         s.documents[u].revision # 0, s.documents[u].overlay = NoOverlay,
         NEW work, work = (IF s.documents[u].analysis THEN AdmitRich(s, u, generation)
                           ELSE Outcome(s, jobs)),
         NEW f, f \in {Answer(work.s, {r}, "error"), DeferTokens(work.s, r, generation)},
         s.documents[u].analysis /\ NeedsRich(work.s, u, generation)
           => f = Answer(work.s, {r}, "error")
  PROVE  Advances(s, s, Outcome(f, work.jobs))
<1> DEFINE d == s.documents[u]
           w == work.s
           R == {r}
           error == "error"
           o == Outcome(f, work.jobs)
<1>1. u \in Uris /\ r \in Requests /\ d.revision \in Nat
  BY DEF Asks, Asked, UriOf, Good, MainTypes, Documents
<1>2. /\ Quiet(s, w) /\ Ends(s, work, u) /\ Fine(w, u)
      /\ w.documents[u].overlay = NoOverlay
      /\ w.documents[u].revision = d.revision
      /\ w.documents[u].analysis = d.analysis
  <2>1. CASE d.analysis
    <3>1. work = AdmitRich(s, u, generation)
      BY <2>1
    <3>2. Projected(s, u) /\ TokensCurrent(s, u)
      BY <1>1 DEF Fine, QueuesCurrent
    <3>3. NoOverlay # [revision |-> d.revision, generation |-> generation]
      BY DEF NoOverlay
    <3>4. Prepared(s, u)
      <4>1. ~ NeedsRich(s, u, generation) => d.pending.revision = d.revision
        BY <3>3 DEF NeedsRich, Document
      <4>2. ~ NeedsRich(s, u, generation) => d.pending # NoPending
        BY <4>1 DEF NoPending
      <4>3. Served(s, u)
        BY <1>1 DEF Fine
      <4> QED
        BY <4>2, <4>3 DEF Prepared, Served
    <3>5. Ends(s, work, u) /\ Fine(w, u)
      BY <1>1, <2>1, <3>1, <3>2, <3>4, RichFine
    <3>6. /\ w.documents[u].overlay = NoOverlay
          /\ w.documents[u].revision = d.revision
          /\ w.documents[u].analysis = d.analysis
      <4>1. LET e == AdmitRich(s, u, generation).s.documents[u]
            IN  e.revision = d.revision /\ e.analysis = d.analysis /\ e.overlay = d.overlay
        BY <1>1, RichKeeps
      <4> QED
        BY <3>1, <4>1
    <3>7. Quiet(s, w)
      BY <1>1, <3>1, AdmitRichQuiet
    <3> QED
      BY <3>5, <3>6, <3>7
  <2>2. CASE ~ d.analysis
    <3>1. work = Outcome(s, jobs) /\ w = s
      BY <2>2, OutcomeParts
    <3>2. Ends(s, Outcome(s, jobs), u)
      BY StillSelf, MovedEnds
    <3> QED
      BY <1>1, <3>1, <3>2, QuietSelf
  <2> QED
    BY <2>1, <2>2
<1>3. /\ Good(w) /\ Asks(w, r) /\ UriOf(w, r) = u
  BY <1>2, AsksKept DEF Quiet, Calm
<1>4. R \cap Requests \subseteq Asked(w) /\ error \in {"result", "error"}
  BY <1>3 DEF Asks
<1>5. f \in {Answer(w, R, error), DeferTokens(w, r, generation)}
  OBVIOUS
<1> HIDE DEF w, R, error
<1>6. /\ Moves(w, f, u) /\ Fine(f, u) /\ f.table = w.table /\ f.documents = w.documents
  <2>1. CASE f = Answer(w, R, error)
    <3>1. Still(w, Answer(w, R, error))
      BY <1>3, <1>4, AnswerStill
    <3>2. Still(w, f)
      BY <2>1, <3>1
    <3> QED
      BY <1>1, <1>2, <1>3, <3>2, StillFine, StillMoves DEF Still
  <2>2. CASE f # Answer(w, R, error)
    <3>1. f = DeferTokens(w, r, generation)
      BY <1>5, <2>2
    <3>2. d.analysis => ~ NeedsRich(w, u, generation)
      BY <2>2 DEF w, R, error
    <3>3. NoOverlay # [revision |-> d.revision, generation |-> generation]
      BY DEF NoOverlay
    <3>4. d.analysis => w.documents[u].pending.revision = d.revision
      BY <1>2, <3>2, <3>3 DEF NeedsRich, Document
    <3>5. w.documents[u].analysis => w.documents[u].pending # NoPending
      BY <1>2, <3>4 DEF NoPending
    <3>6. Awaits(w, r)
      BY <1>2, <1>3 DEF Awaits, Asks
    <3> QED
      BY <1>2, <1>3, <3>1, <3>5, <3>6, DeferTokensWorks
  <2> QED
    BY <2>1, <2>2
<1>7. Ends(s, o, u)
  BY <1>2, <1>6, EndsMoved DEF w
<1>8. Fine(o.s, u)
  BY <1>6, OutcomeParts
<1> HIDE DEF o
<1>9. Advances(s, s, o)
  BY <1>1, <1>7, <1>8, EndsAlone
<1> QED
  BY <1>9 DEF o

LEMMA TokensWork ==
  ASSUME NEW s, Good(s), QueuesCurrent(s), NEW r, Asks(s, r), generation \in Nat,
         \A v \in Uris : Fine(s, v)
  PROVE  Advances(s, s, DispatchTokens(s, r))
<1> DEFINE u == UriOf(s, r)
           d == s.documents[u]
           x == Selected(s, u)
           shows == [revision |-> d.revision, generation |-> generation,
                     told |-> FALSE]
           work == IF d.analysis THEN AdmitRich(x, u, generation)
                   ELSE Outcome(x, jobs)
           o == DispatchTokens(s, r)
<1>1. u \in Uris /\ r \in Requests /\ d.revision \in Nat
  BY DEF Asks, Asked, UriOf, Good, MainTypes, Documents
<1>2. /\ Quiet(s, x) /\ Good(x) /\ Follows(s, x) /\ Asks(x, r) /\ UriOf(x, r) = u
  <2>1. Quiet(s, x)
    BY <1>1, SelectedQuiet
  <2>2. Calm(s, x)
    BY <2>1 DEF Quiet
  <2> HIDE DEF x
  <2> QED
    BY <2>1, <2>2, AsksKept DEF Calm
<1>3. CASE ~ IsOpen(s, u)
  <2>1. o = Outcome(Observe(Answer(s, {r}, "result"), generation), jobs)
    BY <1>3 DEF DispatchTokens
  <2> QED
    BY <2>1, ResultWorks
<1>4. CASE IsOpen(s, u) /\ x.documents[u].overlay # NoOverlay
  <2> DEFINE R == {r}
             result == "result"
             a == Answer(s, R, result)
             b == [a EXCEPT !.shown[u] = shows]
             t == Observe(b, generation)
  <2>1. x = s
    BY <1>1, <1>4, SelectedWorks
  <2>2. o = Outcome(t, jobs)
    BY <1>4, <2>1 DEF DispatchTokens, Document
  <2>3. d.revision # 0
    BY <1>4 DEF IsOpen, Document
  <2>4. shows \in Tokens /\ shows.generation = generation
    BY <1>1 DEF Tokens
  <2>5. Calm(s, a) /\ Replied(s, a, {r}, "result") /\ a.documents = s.documents
    BY AnswerResult
  <2>6. R \cap Requests \subseteq Asked(s) /\ result \in {"result", "error"}
    BY DEF Asks
  <2> HIDE DEF x, shows, o, R, result
  <2>7. Still(s, a)
    BY <2>6, AnswerStill
  <2> HIDE DEF a
  <2>8. Good(a) /\ Shape(a)
    BY <2>5 DEF Calm, Good, MainTypes
  <2>9. /\ Shape(b) /\ Keeps(a, b, {"shown"})
        /\ b.shown = [a.shown EXCEPT ![u] = shows]
    BY <2>8 DEF Shape, Keeps, Fields
  <2> HIDE DEF b
  <2>10. Quiet(a, b)
    BY <1>1, <2>3, <2>4, <2>5, <2>8, <2>9, ShownQuiet
  <2>11. Calm(s, b)
    BY <2>5, <2>10, CalmTrans DEF Quiet
  <2> DEFINE F == {"shown"}
  <2>12. /\ Keeps(a, b, F)
         /\ F \cap {"documents", "table", "lastGeneration", "deferredTokens"} = {}
    BY <2>9
  <2> HIDE DEF F
  <2>13. Still(a, b)
    BY <2>10, <2>12, FrameStill DEF Quiet, Calm
  <2>14. Still(s, b)
    BY <2>7, <2>13, StillTrans
  <2>15. QueuesCurrent(b) /\ Good(b)
    BY <2>11 DEF Calm, Stays, QueuesCurrent
  <2>16. /\ \A v \in Uris : Fine(b, v)
         /\ Moves(s, b, u)
    BY <2>14, StillFine, StillMoves
  <2>17. Advances(b, b, o)
    BY <2>2, <2>15, <2>16, ObserveWorks
  <2>18. Advances(s, s, o)
    BY <2>16, <2>17, AdvancesFrom
  <2> QED
    BY <2>18 DEF o
<1>5. CASE IsOpen(s, u) /\ x.documents[u].overlay = NoOverlay
  <2> DEFINE e == Answer(work.s, {r}, "error")
             f == DeferTokens(work.s, r, generation)
             over == d.analysis /\ NeedsRich(work.s, u, generation)
             g == IF over THEN e ELSE f
  <2>1. o = Outcome(g, work.jobs)
    BY <1>5 DEF DispatchTokens, Document
  <2>2. d.revision # 0
    BY <1>5 DEF IsOpen, Document
  <2>3. /\ Moves(s, x, u) /\ Fine(x, u)
        /\ x.documents[u].revision = d.revision
        /\ x.documents[u].analysis = d.analysis
    BY <1>1, SelectedWorks, StillSelf
  <2>4. g \in {e, f} /\ (over => g = e)
    OBVIOUS
  <2>5. \A v \in Uris : Fine(x, v)
    <3>1. Beside(s, x, u)
      BY <2>3 DEF Moves
    <3> QED
      BY <2>3, <3>1, BesideFine
  <2>6. QueuesCurrent(x)
    BY <1>2 DEF Quiet, Calm, Stays, QueuesCurrent
  <2> HIDE DEF x, g, o
  <2>7. Advances(x, x, Outcome(g, work.jobs))
    <3> DEFINE y == work
    <3>1. y = IF x.documents[u].analysis THEN AdmitRich(x, u, generation)
              ELSE Outcome(x, jobs)
      BY <2>3
    <3>2. /\ g \in {Answer(y.s, {r}, "error"), DeferTokens(y.s, r, generation)}
          /\ x.documents[u].analysis /\ NeedsRich(y.s, u, generation)
               => g = Answer(y.s, {r}, "error")
      BY <2>3, <2>4
    <3>3. x.documents[u].revision # 0 /\ x.documents[u].overlay = NoOverlay /\ u = UriOf(x, r)
      BY <1>2, <1>5, <2>2, <2>3
    <3> HIDE DEF y, u
    <3>4. Advances(x, x, Outcome(g, y.jobs))
      BY <1>2, <2>5, <2>6, <3>1, <3>2, <3>3, WaitingTokensWork
    <3> QED
      BY <3>4 DEF y
  <2>8. Advances(x, x, o)
    BY <2>1, <2>7
  <2>9. Advances(s, s, o)
    BY <2>3, <2>8, AdvancesFrom
  <2> QED
    BY <2>9 DEF o
<1> QED
  BY <1>3, <1>4, <1>5

LEMMA DispatchWorks ==
  ASSUME NEW s, Good(s), QueuesCurrent(s), NEW r, Asks(s, r), generation \in Nat,
         \A v \in Uris : Fine(s, v)
  PROVE  Advances(s, s, Dispatch(s, r))
<1>1. s.requests[r].kind \in {"completion", "tokens", "debug"}
  BY DEF Asks, Asked, Classifications
<1>2. CASE s.requests[r].kind = "completion"
  <2>1. Dispatch(s, r) = DispatchCompletion(s, r)
    BY <1>2 DEF Dispatch
  <2> QED
    BY <2>1, CompletionWorks
<1>3. CASE s.requests[r].kind = "debug"
  <2>1. Dispatch(s, r) = DispatchDebug(s, r)
    BY <1>3 DEF Dispatch
  <2> QED
    BY <1>3, <2>1, DebugWorks
<1>4. CASE s.requests[r].kind = "tokens"
  <2>1. Dispatch(s, r) = DispatchTokens(s, r)
    BY <1>4 DEF Dispatch
  <2> QED
    BY <2>1, TokensWork
<1> QED
  BY <1>1, <1>2, <1>3, <1>4

-----------------------------------------------------------------------------
(* A request that arrives, and one that is replayed.                       *)
LEMMA AdvancesOn ==
  ASSUME NEW s, Good(s), NEW t, Good(t), Evolves(s, t), Fewer(s, t), NEW o, Advances(t, t, o)
  PROVE  Advances(s, s, o)
<1>1. Good(o.s) /\ Evolves(t, o.s) /\ Hires(t, o.s, o.jobs) /\ \A u \in Uris : Fine(o.s, u)
  BY DEF Advances
<1>2. Evolves(s, o.s)
  BY <1>1, EvolvesTrans
<1>3. Hires(s, o.s, o.jobs)
  BY <1>1, FewerHires
<1> QED
  BY <1>1, <1>2, <1>3 DEF Advances

LEMMA SameWork ==
  ASSUME NEW s, NEW t, t.documents = s.documents, t.table = s.table,
         t.deferredTokens = s.deferredTokens, t.lastGeneration = s.lastGeneration,
         Uncaptured(t) => Uncaptured(s), Unasked(s) => Unasked(t), Good(s),
         \A v \in Uris : Fine(s, v)
  PROVE  Evolves(s, t) /\ Fewer(s, t) /\ \A v \in Uris : Fine(t, v)
<1>1. s.table.sequence \in Nat
  BY SequencesNat
<1>2. Reuses(s, t)
  BY DEF Reuses, FreshPending
<1>3. Evolves(s, t)
  BY <1>1, <1>2 DEF Evolves, Unflagged
<1>4. Fewer(s, t)
  BY DEF Fewer, Old
<1>5. \A v \in Uris : SameAt(s, t, v)
  BY DEF SameAt, Has
<1>6. \A v \in Uris : Fine(t, v)
  BY <1>5, SameFine
<1> QED
  BY <1>3, <1>4, <1>6

LEMMA SendWorks ==
  ASSUME NEW s, Consistent(s), s.replays = << >>, Unasked(s), NEW r \in Requests,
         s.requests[r].state = "unsent", NEW kind \in Classifications, NEW u \in Uris,
         NEW x, Asking(s, x, r, NewExchange(s, kind, u)), generation \in Nat,
         \A v \in Uris : Fine(s, v)
  PROVE  Advances(s, s, Dispatch(x, r))
<1>1. Consistent(x) /\ Asks(x, r)
  BY AskingConsistent
<1>2. Good(s) /\ Good(x) /\ QueuesCurrent(x)
  BY <1>1 DEF Consistent
<1> DEFINE e == NewExchange(s, kind, u)
<1>3. e.state = "waiting"
  BY DEF NewExchange
<1> HIDE DEF e
<1>4. Shape(x) /\ Keeps(s, x, {"requests"}) /\ x.requests = [s.requests EXCEPT ![r] = e]
  BY DEF Asking, e
<1>5. s.requests \in [Requests -> Exchanges]
  BY <1>2 DEF Good, MainTypes
<1>6. /\ x.requests[r] = e
      /\ \A q \in Requests : q # r => x.requests[q] = s.requests[q]
  BY <1>4, <1>5
<1>7. /\ x.documents = s.documents /\ x.table = s.table
      /\ x.deferredTokens = s.deferredTokens /\ x.lastGeneration = s.lastGeneration
  BY <1>4 DEF Keeps, Fields
<1>8. s.requests[r].kind # "debug"
  BY DEF Unasked
<1>9. Uncaptured(x) => Uncaptured(s)
  BY <1>6, <1>8 DEF Uncaptured
<1>10. Unasked(x)
  BY <1>3, <1>6 DEF Unasked
<1>11. Evolves(s, x) /\ Fewer(s, x) /\ \A v \in Uris : Fine(x, v)
  BY <1>2, <1>7, <1>9, <1>10, SameWork
<1> DEFINE o == Dispatch(x, r)
<1>12. Advances(x, x, o)
  BY <1>1, <1>2, <1>11, DispatchWorks
<1> HIDE DEF o
<1>13. Advances(s, s, o)
  BY <1>2, <1>11, <1>12, AdvancesOn
<1> QED
  BY <1>13 DEF o

LEMMA ReplayWorks ==
  ASSUME NEW s, Consistent(s), s.replays # << >>, generation \in Nat,
         \A v \in Uris : Fine(s, v)
  PROVE  Advances(s, s, Dispatch([s EXCEPT !.replays = Tail(@)], Head(s.replays)))
<1> DEFINE p == Tail(s.replays)
           r == Head(s.replays)
           x == [s EXCEPT !.replays = p]
           o == Dispatch(x, r)
<1>1. Good(s) /\ Shape(s) /\ s.replays \in Seq(Requests)
  BY DEF Consistent, Good, MainTypes
<1>2. /\ p \in Seq(Requests) /\ r \in Members(s.replays)
      /\ Members(p) \subseteq Members(s.replays)
  <2>1. /\ Len(s.replays) \in Nat /\ Len(s.replays) # 0
        /\ p \in Seq(Requests) /\ r = s.replays[1]
        /\ Len(p) = Len(s.replays) - 1
        /\ \A i \in 1 .. Len(p) : p[i] = s.replays[i + 1]
    BY <1>1, LenProperties, EmptySeq, HeadTailProperties
  <2> QED
    BY <2>1 DEF Members
<1> HIDE DEF p, r
<1>3. Shape(x) /\ Keeps(s, x, {"replays"}) /\ x.replays = p
  BY <1>1 DEF Shape, Keeps, Fields
<1> HIDE DEF x
<1>4. /\ x.documents = s.documents /\ x.table = s.table /\ x.requests = s.requests
      /\ x.deferredRequests = s.deferredRequests
      /\ x.deferredTokens = s.deferredTokens
      /\ x.lastGeneration = s.lastGeneration
  BY <1>3 DEF Keeps, Fields
<1>5. Good(x)
  <2>1. MainTypes(x)
    BY <1>1, <1>2, <1>3 DEF Good, MainTypes, Keeps, Fields
  <2>2. Held(x) /\ PendingIssued(x)
    BY <1>1, <1>2, <1>3, <1>4 DEF Good, Held, PendingIssued, Asked
  <2> QED
    BY <2>1, <2>2 DEF Good
<1>6. QueuesCurrent(x)
  BY <1>4 DEF Consistent, QueuesCurrent, RequestsCurrent, TokensCurrent
<1>7. Asks(x, r)
  BY <1>2, <1>4 DEF Consistent, ReplaysCurrent, Asks, Asked, UriOf
<1>8. (Uncaptured(x) => Uncaptured(s)) /\ (Unasked(s) => Unasked(x))
  BY <1>4 DEF Uncaptured, Unasked
<1>9. Evolves(s, x) /\ Fewer(s, x) /\ \A v \in Uris : Fine(x, v)
  BY <1>1, <1>4, <1>8, SameWork
<1>10. Advances(x, x, o)
  BY <1>5, <1>6, <1>7, <1>9, DispatchWorks
<1> HIDE DEF o
<1>11. Advances(s, s, o)
  BY <1>1, <1>5, <1>9, <1>10, AdvancesOn
<1> QED
  BY <1>11 DEF o, x, p, r

LEMMA AcknowledgeWorks ==
  ASSUME NEW s, Consistent(s), \A v \in Uris : Fine(s, v)
  PROVE  LET idle == [s EXCEPT !.refreshInFlight = FALSE, !.refreshDirty = FALSE]
         IN  Advances(s, s, Outcome(IF s.refreshDirty THEN RequestRefresh(idle)
                                    ELSE idle, jobs))
<1> DEFINE idle == [s EXCEPT !.refreshInFlight = FALSE, !.refreshDirty = FALSE]
           t == IF s.refreshDirty THEN RequestRefresh(idle) ELSE idle
           three == {"refreshInFlight", "refreshDirty", "shown"}
<1>1. Good(s) /\ Shape(s)
  BY DEF Consistent, Good, MainTypes
<1>2. /\ Shape(idle) /\ Keeps(s, idle, {"refreshInFlight", "refreshDirty"})
      /\ idle.refreshInFlight = FALSE /\ idle.refreshDirty = FALSE
  BY <1>1 DEF Shape, Keeps, Fields
<1> HIDE DEF idle
<1>4. Good(idle)
  <2>1. MainTypes(idle)
    BY <1>1, <1>2 DEF Good, MainTypes, Keeps, Fields
  <2>2. Held(idle) /\ PendingIssued(idle)
    BY <1>1, <1>2 DEF Good, Held, PendingIssued, Asked, Keeps, Fields
  <2> QED
    BY <2>1, <2>2 DEF Good
<1>5. ASSUME s.refreshDirty PROVE Good(t) /\ Keeps(s, t, three)
  <2>1. t = RequestRefresh(idle)
    BY <1>5
  <2>2. Refreshes(idle, t)
    BY <1>4, <2>1, RefreshGood
  <2> HIDE DEF t
  <2>4. Good(t) /\ Keeps(s, t, three)
    BY <1>2, <2>2 DEF Refreshes, Keeps
  <2> QED
    BY <2>4 DEF t
<1>6. ASSUME ~ s.refreshDirty PROVE Good(t) /\ Keeps(s, t, three)
  <2>1. t = idle
    BY <1>6
  <2> HIDE DEF t
  <2>3. Good(t) /\ Keeps(s, t, three)
    BY <1>2, <1>4, <2>1 DEF Keeps
  <2> QED
    BY <2>3 DEF t
<1>7. Good(t) /\ Keeps(s, t, three)
  BY <1>5, <1>6
<1> HIDE DEF t
<1>8. /\ t.documents = s.documents /\ t.table = s.table /\ t.requests = s.requests
      /\ t.deferredTokens = s.deferredTokens /\ t.lastGeneration = s.lastGeneration
  BY <1>7 DEF Keeps, Fields, three
<1>9. (Uncaptured(t) => Uncaptured(s)) /\ (Unasked(s) => Unasked(t))
  BY <1>8 DEF Uncaptured, Unasked
<1>10. Evolves(s, t) /\ Fewer(s, t) /\ \A v \in Uris : Fine(t, v)
  BY <1>1, <1>8, <1>9, SameWork
<1> DEFINE o == Outcome(t, jobs)
<1>11. o.s = t /\ o.jobs = jobs
  BY DEF Outcome
<1> HIDE DEF o
<1>12. Advances(s, s, o)
  BY <1>7, <1>10, <1>11 DEF Advances, Hires
<1> QED
  BY <1>12 DEF o, t, idle

-----------------------------------------------------------------------------
(* A document that is opened, changed or closed.                           *)
LEMMA ReplacedMoves ==
  ASSUME NEW s, Good(s), NEW u \in Uris, NEW e \in Documents, e.pending = NoPending,
         NEW y, Replaces(s, y, u, e)
  PROVE  /\ Moves(s, y, u) /\ y.documents[u] = e
         /\ \A class \in Classes : ~ Has(y, class, u)
<1> DEFINE K == UriKeys(u)
<1>1. Good(y) /\ Rejecting(s, y) /\ Cancels(s.table, y.table, K)
  BY ReplacesGood
<1>2. \A k \in K : k[2] = u
  BY DEF UriKeys
<1>3. \A class \in Classes : <<class, u>> \in K
  BY DEF UriKeys, Keys
<1> HIDE DEF K
<1>4. s.documents \in [Uris -> Documents]
  BY DEF Good, MainTypes
<1>5. \A v \in Uris : y.documents[v] = IF v = u THEN e ELSE s.documents[v]
  BY <1>4 DEF Replaces
<1>6. y.deferredTokens = s.deferredTokens /\ y.lastGeneration = s.lastGeneration
  BY DEF Replaces, Keeps, Fields
<1>7. Follows(s, y)
  BY <1>1 DEF Rejecting
<1>8. Evolves(s, y) /\ Fewer(s, y)
  <2>1. \A v \in Uris : y.documents[v].pending \in {NoPending, s.documents[v].pending}
    BY <1>5
  <2> QED
    BY <1>1, <1>7, <2>1, CancelsEvolves
<1>9. Beside(s, y, u)
  BY <1>1, <1>2, <1>5, <1>6, <1>7, CancelsBeside
<1>10. \A class \in Classes : ~ Has(y, class, u)
  BY <1>1, <1>3 DEF Cancels, Has
<1> QED
  BY <1>1, <1>5, <1>7, <1>8, <1>9, <1>10 DEF Moves

LEMMA ClearedStill ==
  ASSUME NEW y, Good(y), NEW u \in Uris, NEW z, Cleared(y, z, u)
  PROVE  Still(y, z) /\ Members(z.deferredTokens[u]) = {}
<1>1. y.deferredTokens \in [Uris -> Seq(TokenWaiters)] /\ Members(<< >>) = {}
  BY EmptySeq DEF Good, MainTypes, Members
<1>2. /\ Good(z) /\ Follows(y, z)
      /\ z.documents = y.documents /\ z.table = y.table
      /\ z.lastGeneration = y.lastGeneration
  BY DEF Cleared, Rejecting, Keeps, Fields
<1>3. z.deferredTokens[u] = << >>
  BY <1>1 DEF Cleared
<1>4. \A v \in Uris : v # u => z.deferredTokens[v] = y.deferredTokens[v]
  BY <1>1 DEF Cleared
<1>5. \A v \in Uris : Members(z.deferredTokens[v]) \subseteq Members(y.deferredTokens[v])
  BY <1>1, <1>3, <1>4
<1> QED
  BY <1>1, <1>2, <1>3, <1>5 DEF Still

LEMMA VacantFine ==
  ASSUME NEW z, NEW u, Staffed(z, u), ~ Has(z, "rich", u),
         Members(z.deferredTokens[u]) = {}, z.documents[u].pending = NoPending,
         z.documents[u].overlay.revision <= z.documents[u].revision,
         z.documents[u].overlay.revision = z.documents[u].revision
           => z.documents[u].revision = 0
  PROVE  Fine(z, u)
<1>1. Projected(z, u)
  BY DEF Projected
<1>2. Served(z, u)
  BY DEF Served
<1> QED
  BY <1>1, <1>2 DEF Fine

LEMMA BlankDocuments ==
  ASSUME NEW n \in Nat, NEW bytes \in Nat, NEW o \in [revision : Nat, generation : Nat]
  PROVE  /\ LET e == Revision(n, bytes, o)
            IN  /\ e.revision = n /\ ~ e.foreground /\ ~ e.analysis /\ e.overlay = o
         /\ LET e == Pending(n, bytes)
            IN  /\ e.revision = n /\ ~ e.foreground /\ ~ e.analysis
                /\ e.overlay.revision = 0
<1> DEFINE c == Closed
           d == Pending(n, bytes)
           e == Revision(n, bytes, o)
           no == FALSE
           p == NoPending
           v == NoOverlay
<1>1. v.revision = 0
  BY DEF NoOverlay
<1>2. c = [revision |-> 0, bytes |-> 0, foreground |-> no, analysis |-> no,
           rejected |-> no, overlay |-> v, pending |-> p]
  BY DEF Closed
<1>3. ~ no
  OBVIOUS
<1>4. d = [c EXCEPT !.revision = n, !.bytes = bytes]
  BY DEF Pending
<1>5. e = [d EXCEPT !.overlay = o]
  BY DEF Revision
<1> HIDE DEF c, d, e, no, p, v
<1>6. /\ c.revision = 0 /\ c.foreground = no /\ c.analysis = no /\ c.overlay = v
      /\ c = [revision |-> c.revision, bytes |-> c.bytes, foreground |-> c.foreground,
              analysis |-> c.analysis, rejected |-> c.rejected, overlay |-> c.overlay,
              pending |-> c.pending]
  BY <1>2
<1>7. d = [revision |-> n, bytes |-> bytes, foreground |-> no, analysis |-> no,
           rejected |-> c.rejected, overlay |-> v, pending |-> c.pending]
  BY <1>4, <1>6
<1>8. e.revision = n /\ e.foreground = no /\ e.analysis = no /\ e.overlay = o
  BY <1>5, <1>7
<1>9. d.revision = n /\ d.foreground = no /\ d.analysis = no /\ d.overlay = v
  BY <1>7
<1> QED
  BY <1>1, <1>3, <1>6, <1>8, <1>9 DEF c, d, e

LEMMA RevisionWorks ==
  ASSUME NEW s, Good(s), \A v \in Uris : Fine(s, v), NEW u \in Uris, NEW c, Moves(s, c, u),
         NEW e \in Documents, e.pending = NoPending, ~ e.foreground, ~ e.analysis,
         e.overlay.revision < e.revision,
         NEW z, Cleared(Replaced(c, u, e), z, u)
  PROVE  Advances(s, s, AdmitForeground(z, u))
<1> DEFINE y == Replaced(c, u, e)
           o == AdmitForeground(z, u)
<1>1. Good(c)
  BY DEF Moves
<1>2. Replaces(c, y, u, e)
  BY <1>1, ReplacedParts
<1> HIDE DEF y
<1>3. /\ Moves(c, y, u) /\ y.documents[u] = e
      /\ \A class \in Classes : ~ Has(y, class, u)
  BY <1>1, <1>2, ReplacedMoves
<1>4. Good(y)
  BY <1>3 DEF Moves
<1>5. Still(y, z) /\ Members(z.deferredTokens[u]) = {}
  BY <1>4, ClearedStill DEF y
<1>6. Moves(y, z, u)
  BY <1>4, <1>5, StillMoves
<1>7. Moves(s, z, u)
  BY <1>1, <1>3, <1>4, <1>6, MovesTrans
<1>8. Good(z) /\ z.documents[u] = e /\ \A class \in Classes : ~ Has(z, class, u)
  BY <1>3, <1>5, <1>7 DEF Moves, Still, Has
<1>9. /\ z.documents[u].revision # 0
      /\ z.deferredRequests[u] = << >> /\ z.deferredTokens[u] = << >>
  <2>1. e.revision \in Nat /\ e.overlay.revision \in Nat
    BY DEF Documents
  <2>2. /\ y.deferredRequests \in [Uris -> Seq(Waiters)]
        /\ y.deferredTokens \in [Uris -> Seq(TokenWaiters)]
    BY <1>4 DEF Good, MainTypes
  <2>3. Cleared(y, z, u)
    BY DEF y
  <2> QED
    BY <1>8, <2>1, <2>2, <2>3 DEF Cleared
<1>10. ForegroundAdmitted(z, o, u)
  BY <1>8, <1>9, AdmitForegroundGood
<1>11. Quiet(z, o.s)
  BY <1>8, <1>9, AdmitForegroundQuiet
<1> HIDE DEF o
<1>12. /\ Evolves(z, o.s) /\ Hires(z, o.s, o.jobs) /\ Beside(z, o.s, u)
       /\ Otherwise(z, o.s, u, "foreground")
       /\ \/ Has(o.s, "foreground", u) /\ o.s.documents[u] = z.documents[u]
          \/ o.s.documents[u] = WithRejected(z.documents[u])
       /\ o.s.deferredTokens = z.deferredTokens
  BY <1>8, <1>10, ForegroundWorks
<1>13. Good(o.s) /\ Follows(z, o.s)
  BY <1>11 DEF Quiet, Calm
<1>14. Ends(s, o, u)
  <2>1. Ends(z, o, u)
    BY <1>12, <1>13 DEF Ends
  <2> QED
    BY <1>7, <2>1, MovesEnds
<1>15. ~ Has(o.s, "rich", u)
  BY <1>8, <1>12 DEF Otherwise, Classes
<1>16. /\ o.s.documents[u].revision = e.revision /\ o.s.documents[u].overlay = e.overlay
       /\ o.s.documents[u].pending = NoPending /\ Staffed(o.s, u)
  <2>1. CASE Has(o.s, "foreground", u) /\ o.s.documents[u] = e
    BY <2>1 DEF Staffed
  <2>2. CASE o.s.documents[u] = WithRejected(e)
    <3> DEFINE f == WithRejected(e)
    <3>1. /\ f.revision = e.revision /\ f.overlay = e.overlay
          /\ f.pending = e.pending /\ f.rejected
      BY MarkedFields
    <3> HIDE DEF f
    <3>2. o.s.documents[u] = f
      BY <2>2 DEF f
    <3> QED
      BY <3>1, <3>2 DEF Staffed
  <2> QED
    BY <1>8, <1>12, <2>1, <2>2
<1>17. Fine(o.s, u)
  <2>1. e.revision \in Nat /\ e.overlay.revision \in Nat
    BY DEF Documents
  <2>2. e.overlay.revision <= e.revision /\ e.overlay.revision # e.revision
    BY <2>1
  <2> QED
    BY <1>5, <1>12, <1>15, <1>16, <2>2, VacantFine
<1>18. Advances(s, s, o)
  BY <1>14, <1>17, EndsAlone
<1> QED
  BY <1>18 DEF o

LEMMA OpenWorks ==
  ASSUME NEW s, Consistent(s), NEW u \in Uris, s.documents[u].revision = 0,
         NEW bytes \in Nat, \A v \in Uris : Fine(s, v)
  PROVE  Advances(s, s, AdmitForeground(DiscardDeferredRequests(
           Replaced(s, u, Pending(s.nextRevision + 1, bytes)), u), u))
<1> DEFINE n == s.nextRevision + 1
           e == Pending(n, bytes)
           y == Replaced(s, u, e)
           z == DiscardDeferredRequests(y, u)
<1>1. Good(s) /\ n \in Nat \ {0} /\ s.deferredTokens \in [Uris -> Seq(TokenWaiters)]
      /\ \A w : Moves(s, s, w)
  BY StillSelf DEF Consistent, Good, MainTypes
<1> HIDE DEF n
<1>2. NoOverlay \in [revision : Nat, generation : Nat]
  BY DEF NoOverlay
<1> DEFINE v == NoOverlay
<1> HIDE DEF v
<1>3. e \in Documents /\ e.pending = NoPending /\ e.revision = n
  BY <1>1, <1>2, NextDocument
<1>4. ~ e.foreground /\ ~ e.analysis /\ e.overlay.revision = 0
  BY <1>1, <1>2, BlankDocuments
<1> HIDE DEF e
<1>5. e.overlay.revision < e.revision
  BY <1>1, <1>3, <1>4
<1>6. Replaces(s, y, u, e)
  BY <1>1, ReplacedParts
<1> HIDE DEF y
<1>7. Good(y) /\ y.deferredTokens = s.deferredTokens
  BY <1>1, <1>3, <1>6, ReplacesGood DEF Replaces, Keeps, Fields
<1>8. Discards(y, z, u) /\ Rejecting(y, z)
  BY <1>7, DiscardGood, DiscardRejecting
<1> HIDE DEF z
<1>9. Cleared(y, z, u)
  <2>1. /\ Good(z) /\ Keeps(y, z, {"requests", "deferredRequests", "deferredTokens"})
        /\ z.deferredRequests = [y.deferredRequests EXCEPT ![u] = << >>]
    BY <1>8 DEF Discards, Keeps
  <2>2. z.deferredTokens = s.deferredTokens /\ s.deferredTokens[u] = << >>
    BY <1>7, <1>8, ClosedQueues DEF Discards, Keeps, Fields
  <2>3. z.deferredTokens = [y.deferredTokens EXCEPT ![u] = << >>]
    BY <1>1, <1>7, <2>2
  <2> QED
    BY <1>8, <2>1, <2>3 DEF Cleared
<1>10. Advances(s, s, AdmitForeground(z, u))
  BY <1>1, <1>3, <1>4, <1>5, <1>9, RevisionWorks DEF y
<1> QED
  BY <1>10 DEF z, y, e, n

LEMMA StopsMoves ==
  ASSUME NEW s, Good(s), NEW u \in Uris
  PROVE  Moves(s, CancelPending(s, u), u)
<1> DEFINE c == CancelPending(s, u)
<1>1. Quiet(s, c) /\ Stops(s, c, u)
  BY CancelQuiet, CancelGood
<1> HIDE DEF c
<1>2. Good(c) /\ Follows(s, c)
  BY <1>1 DEF Quiet, Calm
<1>3. Evolves(s, c) /\ Fewer(s, c) /\ Beside(s, c, u)
  BY <1>1, StopsEvolves
<1>4. Moves(s, c, u)
  BY <1>2, <1>3 DEF Moves
<1> QED
  BY <1>4 DEF c

LEMMA ChangeWorks ==
  ASSUME NEW s, Consistent(s), NEW u \in Uris, NEW bytes \in Nat,
         \A v \in Uris : Fine(s, v)
  PROVE  Advances(s, s, AdmitForeground(RejectDeferredTokens(DiscardDeferredRequests(
           Replaced(CancelPending(s, u), u,
                    Revision(s.nextRevision + 1, bytes, s.documents[u].overlay)), u),
           u, Nat, Nat), u))
<1> DEFINE c == CancelPending(s, u)
           n == s.nextRevision + 1
           l == s.documents[u].overlay
           e == Revision(n, bytes, l)
           y == Replaced(c, u, e)
           z == RejectDeferredTokens(DiscardDeferredRequests(y, u), u, Nat, Nat)
<1>1. /\ Good(s) /\ s.nextRevision \in Nat /\ n \in Nat \ {0} /\ n > s.nextRevision
      /\ s.documents[u] \in Documents
  BY DEF Consistent, Good, MainTypes
<1>2. l \in [revision : Nat, generation : Nat] /\ l.revision < n
  <2>1. /\ s.documents[u].revision \in Nat /\ l \in [revision : Nat, generation : Nat]
    BY <1>1 DEF Documents
  <2>2. /\ s.documents[u].revision <= s.nextRevision
        /\ l.revision <= s.documents[u].revision
    BY DEF Consistent, Diagnosed, Fine, Projected
  <2> QED
    BY <1>1, <2>1, <2>2
<1> HIDE DEF n, l
<1>3. e \in Documents /\ e.pending = NoPending /\ e.revision = n
  BY <1>1, <1>2, NextDocument
<1>4. ~ e.foreground /\ ~ e.analysis /\ e.overlay = l
  BY <1>1, <1>2, BlankDocuments
<1> HIDE DEF e
<1>5. e.overlay.revision < e.revision
  BY <1>2, <1>3, <1>4
<1>6. Moves(s, c, u)
  BY <1>1, StopsMoves
<1> HIDE DEF c
<1>7. Good(c)
  BY <1>6 DEF Moves
<1>8. Good(y)
  BY <1>3, <1>7, ReplacedParts, ReplacesGood
<1> HIDE DEF y
<1>9. Cleared(y, z, u)
  BY <1>8, ClearedGood
<1> HIDE DEF z
<1>10. Advances(s, s, AdmitForeground(z, u))
  BY <1>1, <1>3, <1>4, <1>5, <1>6, <1>9, RevisionWorks DEF y
<1> QED
  BY <1>10 DEF z, y, e, c, n, l

LEMMA ReleaseMoves ==
  ASSUME NEW s, Good(s), NEW u \in Uris, IsOpen(s, u)
  PROVE  LET y == Release(s, u)
         IN  /\ Moves(s, y, u) /\ y.documents[u] = Closed
             /\ \A class \in Classes : ~ Has(y, class, u)
<1> DEFINE y == Release(s, u)
           c == CancelPending(s, u)
           m == CancelUri(c.table, u)
           docs == [c.documents EXCEPT ![u] = Closed]
<1>1. y = [c EXCEPT !.table = m, !.documents = docs]
  BY DEF Release
<1>2. Moves(s, c, u)
  BY StopsMoves
<1> HIDE DEF c, y
<1>3. Good(c) /\ Shape(c)
  BY <1>2 DEF Moves, Good, MainTypes
<1>4. Closed \in Documents /\ Closed.pending = NoPending
  <2>1. NoPending \in [revision : Nat, generation : Nat, sequence : Nat]
        /\ NoOverlay \in [revision : Nat, generation : Nat]
    BY DEF NoPending, NoOverlay
  <2> HIDE DEF NoPending, NoOverlay
  <2> QED
    BY <2>1 DEF Closed, Documents
<1> DEFINE e == Closed
<1> HIDE DEF Closed
<1>5. Replaces(c, y, u, e)
  <2> HIDE DEF m, docs
  <2>1. /\ Shape(y) /\ Keeps(c, y, {"table", "documents"})
        /\ y.table = m /\ y.documents = docs
    BY <1>1, <1>3 DEF Shape, Keeps, Fields
  <2>2. y.nextRevision = c.nextRevision
        /\ Keeps(c, y, {"nextRevision", "table", "documents"})
    BY <2>1 DEF Keeps, Fields
  <2> QED
    BY <2>1, <2>2 DEF Replaces, m, docs
<1>6. /\ Moves(c, y, u) /\ y.documents[u] = e
      /\ \A class \in Classes : ~ Has(y, class, u)
  <2>1. e \in Documents /\ e.pending = NoPending
    BY <1>4
  <2> HIDE DEF e
  <2> QED
    BY <1>3, <1>5, <2>1, ReplacedMoves
<1>7. Moves(s, y, u)
  BY <1>2, <1>6, MovesTrans
<1> QED
  BY <1>6, <1>7 DEF y

LEMMA ClosedFields ==
  Closed.revision = 0 /\ Closed.overlay.revision = 0 /\ Closed.pending = NoPending
<1> DEFINE v == NoOverlay
           p == NoPending
           no == FALSE
           c == Closed
<1>1. v.revision = 0
  BY DEF NoOverlay
<1>2. c = [revision |-> 0, bytes |-> 0, foreground |-> no, analysis |-> no,
           rejected |-> no, overlay |-> v, pending |-> p]
  BY DEF Closed
<1> HIDE DEF c, no, p, v
<1>3. c.revision = 0 /\ c.overlay = v /\ c.pending = p
  BY <1>2
<1> QED
  BY <1>1, <1>3 DEF c, p

LEMMA CloseWorks ==
  ASSUME NEW s, Consistent(s), NEW u \in Uris, \A v \in Uris : Fine(s, v),
         NEW c, c = RejectDeferredTokens(
                      DiscardDeferredRequests(Release(s, u), u), u, Nat, Nat),
         NEW z, Blanks(c, z, u)
  PROVE  Advances(s, s, Outcome(z, jobs))
<1> DEFINE y == Release(s, u)
<1>1. Good(s)
  BY DEF Consistent
<1>2. /\ Moves(s, y, u)
      /\ \/ y = s
         \/ /\ y.documents[u] = Closed
            /\ \A class \in Classes : ~ Has(y, class, u)
  <2>1. CASE ~ IsOpen(s, u)
    <3>1. y = s
      BY <2>1 DEF Release
    <3> HIDE DEF y
    <3> QED
      BY <1>1, <3>1, StillSelf
  <2>2. CASE IsOpen(s, u)
    BY <1>1, <2>2, ReleaseMoves
  <2> QED
    BY <2>1, <2>2
<1> HIDE DEF y
<1>3. Good(y)
  BY <1>2 DEF Moves
<1>4. Cleared(y, c, u)
  BY <1>3, ClearedGood DEF y
<1>5. Still(y, c) /\ Members(c.deferredTokens[u]) = {}
  BY <1>3, <1>4, ClearedStill
<1>6. Good(c)
  BY <1>5 DEF Still
<1>7. Still(c, z) /\ z.deferredTokens = c.deferredTokens
  <2> DEFINE F == {"diagnostics", "shown"}
  <2>1. Good(z) /\ Rejecting(c, z) /\ Keeps(c, z, F)
    BY <1>6, BlanksGood DEF Blanks
  <2>2. F \cap {"documents", "table", "lastGeneration", "deferredTokens"} = {}
    OBVIOUS
  <2>3. z.deferredTokens = c.deferredTokens
    BY <2>1 DEF Keeps, Fields
  <2> HIDE DEF F
  <2> QED
    BY <2>1, <2>2, <2>3, FrameStill DEF Rejecting
<1>8. Still(y, z)
  BY <1>3, <1>5, <1>7, StillTrans
<1>9. Moves(s, z, u)
  BY <1>1, <1>2, <1>3, <1>8, StillMoves, MovesTrans
<1>10. Fine(z, u)
  <2>1. CASE y = s
    BY <1>1, <1>8, <2>1, StillFine
  <2>2. CASE /\ y.documents[u] = Closed
             /\ \A class \in Classes : ~ Has(y, class, u)
    <3>1. /\ Closed.revision = 0 /\ Closed.overlay.revision = 0
          /\ Closed.pending = NoPending
      BY ClosedFields
    <3> HIDE DEF Closed
    <3>3. z.documents[u] = Closed /\ ~ Has(z, "rich", u)
      BY <1>8, <2>2 DEF Still, Has, Classes
    <3>4. Staffed(z, u)
      BY <3>1, <3>3 DEF Staffed
    <3>5. Members(z.deferredTokens[u]) = {}
      BY <1>5, <1>7
    <3> QED
      BY <3>1, <3>3, <3>4, <3>5, VacantFine
  <2> QED
    BY <1>2, <2>1, <2>2
<1> DEFINE o == Outcome(z, jobs)
<1>11. Ends(s, o, u) /\ o.s = z
  BY <1>9, MovedEnds DEF Outcome
<1> HIDE DEF o
<1>12. Advances(s, s, o)
  BY <1>1, <1>10, <1>11, EndsAlone
<1> QED
  BY <1>12 DEF o

-----------------------------------------------------------------------------
(* An event of the channel.  A job that is skipped has a raised flag.      *)
Losing(s, o, job) ==
  \E c : /\ Advances(s, c, o) /\ Fewer(s, c) /\ Gone(c, job)

LEMMA CompletedLosing ==
  ASSUME NEW s, Good(s), NEW job, GoodJob(s, job), NEW o, Advances(s, Completed(s, job), o)
  PROVE  Losing(s, o, job)
<1>1. Fewer(s, Completed(s, job)) /\ Gone(Completed(s, job), job)
  BY CompletedMoves DEF Moves
<1> QED
  BY <1>1 DEF Losing

LEMMA ChangedLosing ==
  ASSUME NEW s, Good(s), NEW o, Advances(s, s, o)
  PROVE  Losing(s, o, IndexChanged)
<1>1. IndexChanged.task.sequence = 0
  BY DEF IndexChanged, Job
<1> DEFINE job == IndexChanged
<1> HIDE DEF IndexChanged
<1>2. Gone(s, job)
  <2>1. \A k \in DOMAIN s.table.retained :
          s.table.retained[k].task.sequence \in 1 .. s.table.sequence
    BY SequencesNat
  <2>2. 0 \notin 1 .. s.table.sequence
    OBVIOUS
  <2> QED
    BY <1>1, <2>1, <2>2 DEF Gone
<1>3. Fewer(s, s)
  BY DEF Fewer, Old
<1> QED
  BY <1>2, <1>3 DEF Losing

LEMMA InterpretWorks ==
  ASSUME NEW s, Consistent(s), NEW e, GoodEvent(s, e), generation \in Nat,
         Unflagged(s), \A v \in Uris : Fine(s, v), Fits(s, e.job),
         e.outcome = "skipped" => e.job.task.sequence \in s.table.cancelled
  PROVE  Losing(s, Interpret(s, e), e.job)
<1> DEFINE job == e.job
           ready == e.outcome = "ready"
           o == Interpret(s, e)
<1>0. Good(s) /\ QueuesCurrent(s)
  BY DEF Consistent
<1>1. CASE job = IndexChanged
  <2>1. job.kind = "indexChanged"
    BY <1>1 DEF IndexChanged, Job
  <2>2. o = Outcome(Observe(s, generation), jobs)
    BY <2>1 DEF Interpret
  <2> HIDE DEF o
  <2>3. Advances(s, s, o)
    BY <1>0, <2>2, ObserveWorks
  <2>4. Losing(s, o, IndexChanged)
    BY <1>0, <2>3, ChangedLosing
  <2> QED
    BY <1>1, <2>4 DEF o
<1>2. CASE job # IndexChanged /\ GoodJob(s, job)
  <2>1. job.kind \in {"foreground", "semantic", "rich", "debug"}
    BY <1>2, JobType
  <2>2. Advances(s, Completed(s, job), o)
    <3>1. CASE job.kind = "foreground"
      <4>1. o = IF ready THEN ForegroundReady(s, job) ELSE ForegroundSkipped(s, job)
        BY <3>1 DEF Interpret
      <4> QED
        BY <1>2, <3>1, <4>1, ForegroundReadyWorks, ForegroundSkippedWorks
    <3>2. CASE job.kind = "semantic"
      <4>1. o = IF ready THEN AnalysisReady(s, job) ELSE Outcome(Completed(s, job), jobs)
        BY <3>2 DEF Interpret
      <4>2. CASE ready
        BY <1>2, <3>2, <4>1, <4>2, AnalysisReadyWorks
      <4>3. CASE ~ ready
        <5>1. job.task.sequence \in s.table.cancelled
          BY <4>3 DEF GoodEvent
        <5> QED
          BY <1>2, <3>2, <4>1, <4>3, <5>1, SemanticSkippedWorks
      <4> QED
        BY <4>2, <4>3
    <3>3. CASE job.kind = "rich"
      <4>1. o = IF ready THEN RichReady(s, job) ELSE RichSkipped(s, job)
        BY <3>3 DEF Interpret
      <4> QED
        BY <1>2, <3>3, <4>1, RichReadyWorks, RichSkippedWorks
    <3>4. CASE job.kind = "debug"
      <4>1. o = DebugReady(s, job)
        BY <3>4 DEF Interpret
      <4> QED
        BY <1>2, <3>4, <4>1, DebugReadyWorks
    <3> QED
      BY <2>1, <3>1, <3>2, <3>3, <3>4
  <2> HIDE DEF o, job
  <2>3. Losing(s, o, job)
    BY <1>0, <1>2, <2>2, CompletedLosing
  <2> QED
    BY <2>3 DEF o, job
<1> QED
  BY <1>1, <1>2 DEF GoodEvent

-----------------------------------------------------------------------------
(* Every task that the table retains has a job, which is queued under its  *)
(* key, runs, or waits in the channel.                                     *)
Carried ==
  \A k \in DOMAIN main.table.retained :
    \E j \in LiveJobs : j.task = main.table.retained[k].task
Keyed == \A k \in DOMAIN jobs : KeyOf(jobs[k].task) = k
Fitting == \A j \in LiveJobs : Fits(main, j)
SkippedIsFlagged ==
  /\ \A l \in DOMAIN workers : workers[l].skip => Flagged(workers[l].job)
  /\ \A i \in 1 .. Len(events) :
       events[i].outcome = "skipped" => Flagged(events[i].job)

WorkInv ==
  Working(main) /\ Unasked(main) /\ Carried /\ Keyed /\ Fitting /\ SkippedIsFlagged

(* A step of the loop that makes the state and the jobs those of o.        *)
Looping(o) ==
  /\ main' = o.s /\ jobs' = o.jobs
  /\ UNCHANGED <<workers, generation>>
  /\ \/ Advances(main, main, o) /\ events' = events
     \/ /\ events # << >> /\ events' = Tail(events)
        /\ Losing(main, o, Head(events).job)

LEMMA EmptyFields ==
  ASSUME Init
  PROVE  /\ main.documents = [u \in Uris |-> Closed]
         /\ main.table = EmptyTable /\ DOMAIN main.table.retained = {}
         /\ main.deferredTokens = [u \in Uris |-> << >>]
         /\ \A r \in Requests : main.requests[r].kind = NoRequest
<1> DEFINE idle == [state |-> "unsent", kind |-> NoRequest, uri |-> NoRequest,
                    revision |-> 0, answers |-> 0]
           s == main
           t == EmptyTable
<1>1. /\ s.documents = [u \in Uris |-> Closed] /\ s.table = t
      /\ s.deferredTokens = [u \in Uris |-> << >>]
      /\ s.requests = [r \in Requests |-> idle]
  BY DEF Init
<1>2. idle.kind = NoRequest
  OBVIOUS
<1>3. DOMAIN t.retained = {}
  BY DEF EmptyTable
<1> HIDE DEF idle, s, t
<1>4. /\ \A r \in Requests : s.requests[r].kind = NoRequest
      /\ DOMAIN s.table.retained = {}
  BY <1>1, <1>2, <1>3
<1> QED
  BY <1>1, <1>4 DEF s, t

LEMMA InitWorks == Init => WorkInv
<1> SUFFICES ASSUME Init PROVE WorkInv
  OBVIOUS
<1>1. /\ main.documents = [u \in Uris |-> Closed]
      /\ DOMAIN main.table.retained = {}
      /\ main.deferredTokens = [u \in Uris |-> << >>]
      /\ \A r \in Requests : main.requests[r].kind = NoRequest
  BY EmptyFields
<1>2. jobs = [k \in {} |-> {}] /\ workers = [l \in {} |-> {}] /\ events = << >>
  BY DEF Init
<1>3. Len(<< >>) = 0 /\ Members(<< >>) = {}
  BY EmptySeq DEF Members
<1>4. \A u \in Uris : Fine(main, u)
  <2> SUFFICES ASSUME NEW u \in Uris PROVE Fine(main, u)
    OBVIOUS
  <2>1. Closed.revision = 0 /\ Closed.overlay.revision = 0 /\ Closed.pending = NoPending
    BY ClosedFields
  <2> DEFINE e == Closed
             s == main
  <2>2. e.revision = 0 /\ e.overlay.revision = 0 /\ e.pending = NoPending
    BY <2>1
  <2> HIDE DEF e, s
  <2>3. s.documents[u] = e /\ s.deferredTokens[u] = << >> /\ ~ Has(s, "rich", u)
    BY <1>1 DEF Has, e, s
  <2>4. Staffed(s, u)
    BY <2>2, <2>3 DEF Staffed
  <2>5. Fine(s, u)
    BY <1>3, <2>2, <2>3, <2>4, VacantFine
  <2> QED
    BY <2>5 DEF s
<1>5. Working(main)
  BY <1>1, <1>4 DEF Working, Unflagged
<1>6. Unasked(main)
  BY <1>1 DEF Unasked, NoRequest
<1>7. Carried /\ Keyed
  BY <1>1, <1>2 DEF Carried, Keyed
<1>8. LiveJobs = {}
  BY <1>2, <1>3 DEF LiveJobs
<1>9. Fitting
  BY <1>8 DEF Fitting
<1>10. SkippedIsFlagged
  BY <1>2, <1>3 DEF SkippedIsFlagged
<1> QED
  BY <1>5, <1>6, <1>7, <1>9, <1>10 DEF WorkInv

(* Where a job is.                                                         *)
LEMMA LiveIs ==
  \A j : j \in LiveJobs <=>
    \/ \E k \in DOMAIN jobs : j = jobs[k]
    \/ \E l \in DOMAIN workers : j = workers[l].job
    \/ \E i \in 1 .. Len(events) : j = events[i].job
BY DEF LiveJobs

LEMMA LiveGood ==
  ASSUME Inv, NEW j \in LiveJobs
  PROVE  GoodJob(main, j) \/ j = IndexChanged
BY LiveIs DEF Inv, JobsGood, WorkersGood, EventsGood, GoodEvent

LEMMA ChangedFits ==
  ASSUME NEW s
  PROVE  Fits(s, IndexChanged)
<1>1. IndexChanged.kind = "indexChanged"
  BY DEF IndexChanged, Job
<1> HIDE DEF IndexChanged
<1> QED
  BY <1>1 DEF Fits

LEMMA LiveNext ==
  \A j : j \in LiveJobs' <=>
    \/ \E k \in DOMAIN jobs' : j = jobs'[k]
    \/ \E l \in DOMAIN workers' : j = workers'[l].job
    \/ \E i \in 1 .. Len(events') : j = events'[i].job
BY DEF LiveJobs

(* What the loop takes from the channel, and what it leaves there.         *)
LEMMA LoopingEvents ==
  ASSUME Inv, NEW o, Looping(o)
  PROVE  \E c :
    /\ Advances(main, c, o) /\ Fewer(main, c)
    /\ \A i \in 1 .. Len(events') : \E m \in 1 .. Len(events) : events'[i] = events[m]
    /\ \A m \in 1 .. Len(events) :
         \/ \E i \in 1 .. Len(events') : events'[i] = events[m]
         \/ Gone(c, events[m].job)
<1>1. CASE Advances(main, main, o) /\ events' = events
  <2>1. Fewer(main, main)
    BY DEF Fewer, Old
  <2> QED
    BY <1>1, <2>1
<1>2. CASE /\ events # << >> /\ events' = Tail(events)
           /\ Losing(main, o, Head(events).job)
  <2>1. PICK c : Advances(main, c, o) /\ Fewer(main, c) /\ Gone(c, Head(events).job)
    BY <1>2 DEF Losing
  <2>2. /\ Len(events) \in Nat \ {0} /\ Len(events') = Len(events) - 1
        /\ Head(events) = events[1]
        /\ \A i \in 1 .. Len(events') : events'[i] = events[i + 1]
    BY <1>2, EmptySeq, HeadTailProperties DEF Inv, EventsGood
  <2>3. \A i \in 1 .. Len(events') : i + 1 \in 1 .. Len(events)
    BY <2>2
  <2>4. \A m \in 1 .. Len(events) :
          m # 1 => m - 1 \in 1 .. Len(events') /\ (m - 1) + 1 = m
    BY <2>2
  <2>5. \A m \in 1 .. Len(events) :
          \/ \E i \in 1 .. Len(events') : events'[i] = events[m]
          \/ Gone(c, events[m].job)
    <3> SUFFICES ASSUME NEW m \in 1 .. Len(events), m # 1
                 PROVE  \E i \in 1 .. Len(events') : events'[i] = events[m]
      BY <2>1, <2>2
    <3>1. m - 1 \in 1 .. Len(events') /\ (m - 1) + 1 = m
      BY <2>4
    <3>2. events'[m - 1] = events[m]
      BY <2>2, <3>1
    <3> QED
      BY <3>1, <3>2
  <2>6. \A i \in 1 .. Len(events') : \E m \in 1 .. Len(events) : events'[i] = events[m]
    BY <2>2, <2>3
  <2> QED
    BY <2>1, <2>5, <2>6
<1> QED
  BY <1>1, <1>2 DEF Looping

LEMMA ScheduleFields ==
  ASSUME NEW n, NEW J, J = Schedule(jobs, n)
  PROVE  /\ DOMAIN J = (DOMAIN jobs) \union {KeyOf(n.task)}
         /\ J[KeyOf(n.task)] = n
         /\ \A k \in DOMAIN jobs : k # KeyOf(n.task) => J[k] = jobs[k]
BY DEF Schedule

LEMMA LoopKeepsWork ==
  ASSUME Inv, WorkInv, NEW o, Looping(o)
  PROVE  WorkInv'
<1>1. PICK c :
        /\ Advances(main, c, o) /\ Fewer(main, c)
        /\ \A i \in 1 .. Len(events') : \E m \in 1 .. Len(events) : events'[i] = events[m]
        /\ \A m \in 1 .. Len(events) :
             \/ \E i \in 1 .. Len(events') : events'[i] = events[m]
             \/ Gone(c, events[m].job)
  BY LoopingEvents
<1>2. /\ main' = o.s /\ jobs' = o.jobs /\ workers' = workers /\ generation' = generation
  BY DEF Looping
<1>3. /\ Good(main) /\ Good(main') /\ Evolves(main, main') /\ Hires(c, main', jobs')
      /\ \A u \in Uris : Fine(o.s, u)
  BY <1>1, <1>2 DEF Advances, Inv, Consistent
<1>4. \/ jobs' = jobs /\ Fewer(c, main')
      \/ \E n : /\ Fits(main', n) /\ jobs' = Schedule(jobs, n)
                /\ \A k \in DOMAIN main'.table.retained :
                     IF k = KeyOf(n.task) THEN main'.table.retained[k].task = n.task
                     ELSE Old(c, main', k)
  BY <1>3 DEF Hires
<1>5. Working(main)'
  <2>1. Unflagged(main')
    BY <1>3 DEF Evolves, WorkInv, Working
  <2>2. \A u \in Uris : Fine(main, u)'
    BY <1>2, <1>3 DEF Fine, Staffed, Projected, Underway, Served, Has, Uncaptured
  <2> QED
    BY <2>1, <2>2 DEF Working, Unflagged
<1>6. Unasked(main)'
  BY <1>3 DEF Evolves, WorkInv, Unasked
<1>7. ASSUME NEW k \in DOMAIN main'.table.retained, Old(c, main', k),
             \A m \in DOMAIN jobs : m = k => m \in DOMAIN jobs' /\ jobs'[m] = jobs[m]
      PROVE  \E j \in LiveJobs' : j.task = main'.table.retained[k].task
  <2> DEFINE task == main'.table.retained[k].task
  <2>1. /\ k \in DOMAIN c.table.retained /\ c.table.retained[k].task = task
        /\ k \in DOMAIN main.table.retained /\ main.table.retained[k].task = task
    BY <1>1, <1>7 DEF Fewer, Old
  <2>2. KeyOf(task) = k
    BY <1>3, <2>1, SequencesNat
  <2>3. PICK j \in LiveJobs : j.task = task
    BY <2>1 DEF WorkInv, Carried
  <2> HIDE DEF task
  <2>4. j \in LiveJobs'
    <3>1. ASSUME NEW m \in DOMAIN jobs, j = jobs[m] PROVE j \in LiveJobs'
      <4>1. m = k
        BY <2>2, <2>3, <3>1 DEF WorkInv, Keyed
      <4> QED
        BY <1>7, <3>1, <4>1, LiveNext
    <3>2. ASSUME NEW l \in DOMAIN workers, j = workers[l].job PROVE j \in LiveJobs'
      BY <1>2, <3>2, LiveNext
    <3>3. ASSUME NEW m \in 1 .. Len(events), j = events[m].job PROVE j \in LiveJobs'
      <4>1. ~ Gone(c, events[m].job)
        BY <2>1, <2>3, <3>3 DEF Gone
      <4>2. PICK i \in 1 .. Len(events') : events'[i] = events[m]
        BY <1>1, <4>1
      <4> QED
        BY <3>3, <4>2, LiveNext
    <3> QED
      BY <3>1, <3>2, <3>3, LiveIs
  <2> QED
    BY <2>3, <2>4 DEF task
<1>8. ASSUME NEW j \in LiveJobs', j \in LiveJobs
      PROVE  Fits(main', j)
  <2>1. Fits(main, j)
    BY <1>8 DEF WorkInv, Fitting
  <2>2. CASE j = IndexChanged
    BY <2>2, ChangedFits
  <2>3. CASE GoodJob(main, j)
    BY <1>3, <2>1, <2>3, EvolvesFits
  <2> QED
    BY <1>8, <2>2, <2>3, LiveGood
<1>9. \A i \in 1 .. Len(events') : events'[i].job \in LiveJobs
  BY <1>1, LiveIs
<1>10. \A l \in DOMAIN workers' : workers'[l].job \in LiveJobs
  BY <1>2, LiveIs
<1>11. Carried' /\ Keyed' /\ Fitting'
  <2>1. CASE jobs' = jobs /\ Fewer(c, main')
    <3>1. Carried'
      BY <1>7, <2>1 DEF Carried, Fewer
    <3>2. Keyed'
      BY <2>1 DEF WorkInv, Keyed
    <3>3. \A j \in LiveJobs' : j \in LiveJobs
      BY <1>9, <1>10, <2>1, LiveIs, LiveNext
    <3>4. Fitting'
      BY <1>8, <3>3 DEF Fitting, Fits
    <3> QED
      BY <3>1, <3>2, <3>4
  <2>2. ASSUME NEW n, Fits(main', n), jobs' = Schedule(jobs, n),
               \A k \in DOMAIN main'.table.retained :
                 IF k = KeyOf(n.task) THEN main'.table.retained[k].task = n.task
                 ELSE Old(c, main', k)
        PROVE  Carried' /\ Keyed' /\ Fitting'
    <3>1. /\ DOMAIN jobs' = (DOMAIN jobs) \union {KeyOf(n.task)}
          /\ jobs'[KeyOf(n.task)] = n
          /\ \A k \in DOMAIN jobs : k # KeyOf(n.task) => jobs'[k] = jobs[k]
      BY <2>2, ScheduleFields
    <3>2. n \in LiveJobs'
      BY <3>1, LiveNext
    <3>3. Carried'
      <4>1. ASSUME NEW k \in DOMAIN main'.table.retained
            PROVE  \E j \in LiveJobs' : j.task = main'.table.retained[k].task
        <5>1. CASE k = KeyOf(n.task)
          BY <2>2, <3>2, <5>1
        <5>2. CASE k # KeyOf(n.task)
          BY <1>7, <2>2, <3>1, <5>2
        <5> QED
          BY <5>1, <5>2
      <4> QED
        BY <4>1 DEF Carried
    <3>4. Keyed'
      BY <3>1 DEF WorkInv, Keyed
    <3>5. \A j \in LiveJobs' : j \in LiveJobs \/ j = n
      BY <1>9, <1>10, <3>1, LiveIs, LiveNext
    <3>6. Fitting'
      BY <1>8, <2>2, <3>5 DEF Fitting, Fits
    <3> QED
      BY <3>3, <3>4, <3>6
  <2> QED
    BY <1>4, <2>1, <2>2
<1>12. SkippedIsFlagged'
  <2>1. main.table.cancelled \subseteq main'.table.cancelled
    BY <1>3 DEF Evolves
  <2>2. \A l \in DOMAIN workers' : workers'[l].skip =>
          workers'[l].job.task.sequence \in main'.table.cancelled
    BY <1>2, <2>1 DEF WorkInv, SkippedIsFlagged, Flagged
  <2>3. \A i \in 1 .. Len(events') :
          events'[i].outcome = "skipped" =>
            events'[i].job.task.sequence \in main'.table.cancelled
    BY <1>1, <2>1 DEF WorkInv, SkippedIsFlagged, Flagged
  <2> QED
    BY <2>2, <2>3 DEF SkippedIsFlagged, Flagged
<1> QED
  BY <1>5, <1>6, <1>11, <1>12 DEF WorkInv

(* The client's messages, and what the loop does of its own.               *)
LEMMA ClientLoops ==
  ASSUME Inv, WorkInv, ClientStep
  PROVE  \E o : Looping(o)
<1> DEFINE s == main
<1>0. /\ Consistent(s) /\ generation \in Nat /\ Unasked(s) /\ \A v \in Uris : Fine(s, v)
  BY DEF Inv, Coming, WorkInv, Working
<1>1. ASSUME NEW o, Handled(o), Advances(s, s, o)
      PROVE  Looping(o)
  BY <1>1 DEF Handled, Looping
<1>2. ASSUME NEW u \in Uris, NEW b \in Sizes, ~ IsOpen(main, u), OpenDocument(u, b)
      PROVE  \E o : Looping(o)
  <2> DEFINE o == AdmitForeground(DiscardDeferredRequests(
                    Replaced(s, u, Pending(s.nextRevision + 1, b)), u), u)
  <2>1. Release(main, u) = main
    BY <1>2 DEF Release
  <2>2. Handled(o)
    BY <1>2, <2>1 DEF OpenDocument, Replaced
  <2>3. b \in Nat /\ s.documents[u].revision = 0
    BY <1>2, RuntimeAssumption DEF IsOpen, Document
  <2> HIDE DEF s
  <2>4. Advances(s, s, o)
    BY <1>0, <2>3, OpenWorks
  <2> HIDE DEF o
  <2> QED
    BY <1>1, <2>2, <2>4
<1>3. ASSUME NEW u \in Uris, NEW b \in Sizes, ChangeDocument(u, b)
      PROVE  \E o : Looping(o)
  <2> DEFINE e == Revision(s.nextRevision + 1, b, s.documents[u].overlay)
             y == Replaced(CancelPending(s, u), u, e)
             o == AdmitForeground(RejectDeferredTokens(
                    DiscardDeferredRequests(y, u), u, Nat, Nat), u)
  <2>1. Handled(o)
    BY <1>3 DEF ChangeDocument, Replaced, Revision, Document
  <2>2. b \in Nat
    BY RuntimeAssumption
  <2> HIDE DEF s
  <2>3. Advances(s, s, o)
    BY <1>0, <2>2, ChangeWorks
  <2> HIDE DEF o
  <2> QED
    BY <1>1, <2>1, <2>3
<1>4. ASSUME NEW u \in Uris, CloseDocument(u)
      PROVE  \E o : Looping(o)
  <2> DEFINE c == RejectDeferredTokens(
                    DiscardDeferredRequests(Release(s, u), u), u, Nat, Nat)
             z == [c EXCEPT !.diagnostics[u] = 0, !.shown[u] = NoTokens]
             o == Outcome(z, jobs)
  <2>1. Handled(o)
    BY <1>4 DEF CloseDocument
  <2> HIDE DEF s
  <2>2. Shape(c)
    <3>1. Good(Release(s, u))
      BY <1>0, ReleaseGood DEF Releases
    <3>2. Good(c)
      BY <3>1, ClearedGood DEF Cleared
    <3> QED
      BY <3>2 DEF Good, MainTypes
  <2>3. Advances(s, s, o)
    <3> HIDE DEF c
    <3>1. Blanks(c, z, u)
      BY <2>2, BlankParts
    <3> HIDE DEF z
    <3> QED
      BY <1>0, <3>1, CloseWorks DEF c
  <2> HIDE DEF o
  <2> QED
    BY <1>1, <2>1, <2>3
<1>5. ASSUME NEW r \in Requests, NEW kind \in Kinds, NEW u \in Uris,
             SendRequest(r, kind, u)
      PROVE  \E o : Looping(o)
  <2> DEFINE x == [s EXCEPT !.requests[r] = NewExchange(s, kind, u)]
             o == Dispatch(x, r)
  <2>1. Handled(o)
    BY <1>5 DEF SendRequest, NewExchange, Document
  <2>2. /\ s.replays = << >> /\ s.requests[r].state = "unsent"
        /\ kind \in Classifications
    BY <1>5, RuntimeAssumption DEF SendRequest, LoopIsFree
  <2> HIDE DEF s
  <2>3. Shape(s)
    BY <1>0 DEF Consistent, Good, MainTypes
  <2>4. Asking(s, x, r, NewExchange(s, kind, u))
    BY <2>3, AskingParts
  <2> HIDE DEF x
  <2>5. Advances(s, s, o)
    BY <1>0, <2>2, <2>4, SendWorks
  <2> HIDE DEF o
  <2> QED
    BY <1>1, <2>1, <2>5
<1>6. CASE AcknowledgeRefresh
  <2> DEFINE idle == [s EXCEPT !.refreshInFlight = FALSE, !.refreshDirty = FALSE]
             o == Outcome(IF s.refreshDirty THEN RequestRefresh(idle) ELSE idle, jobs)
  <2>1. Handled(o)
    BY <1>6 DEF AcknowledgeRefresh
  <2> HIDE DEF s
  <2>2. Advances(s, s, o)
    BY <1>0, AcknowledgeWorks
  <2> HIDE DEF o
  <2> QED
    BY <1>1, <2>1, <2>2
<1> QED
  BY <1>2, <1>3, <1>4, <1>5, <1>6 DEF ClientStep

LEMMA LoopLoops ==
  ASSUME Inv, WorkInv, LoopStep
  PROVE  \E o : Looping(o)
<1> DEFINE s == main
<1>0. /\ Consistent(s) /\ generation \in Nat /\ Unflagged(s)
      /\ \A v \in Uris : Fine(s, v)
  BY DEF Inv, Coming, WorkInv, Working
<1>1. CASE ReplayRequest
  <2> DEFINE o == Dispatch([s EXCEPT !.replays = Tail(@)], Head(s.replays))
  <2>1. Handled(o) /\ s.replays # << >>
    BY <1>1 DEF ReplayRequest
  <2> HIDE DEF s
  <2>2. Advances(s, s, o)
    BY <1>0, <2>1, ReplayWorks
  <2> HIDE DEF o
  <2>3. Looping(o)
    BY <2>1, <2>2 DEF Handled, Looping, s
  <2> QED
    BY <2>3
<1>2. CASE HandleEvent
  <2> DEFINE e == Head(events)
             o == Interpret(s, e)
  <2>1. /\ events # << >> /\ events' = Tail(events)
        /\ main' = o.s /\ jobs' = o.jobs
        /\ UNCHANGED <<workers, generation>>
    BY <1>2 DEF HandleEvent
  <2>2. /\ GoodEvent(s, e) /\ Fits(s, e.job)
        /\ e.outcome = "skipped" => e.job.task.sequence \in s.table.cancelled
    <3>1. events \in Seq(Events) /\ Len(events) \in Nat \ {0} /\ e = events[1]
      BY <2>1, EmptySeq, HeadTailProperties DEF Inv, EventsGood
    <3>2. 1 \in 1 .. Len(events) /\ e.job \in LiveJobs
      BY <3>1, LiveIs
    <3> QED
      BY <3>1, <3>2 DEF Inv, EventsGood, WorkInv, Fitting, SkippedIsFlagged, Flagged
  <2> HIDE DEF s, e
  <2>3. Losing(s, o, e.job)
    BY <1>0, <2>2, InterpretWorks
  <2> HIDE DEF o
  <2>4. Looping(o)
    BY <2>1, <2>3 DEF Looping, s, e
  <2> QED
    BY <2>4
<1> QED
  BY <1>1, <1>2 DEF LoopStep

(* The workers move a job on, and raise no flag.                           *)
LEMMA MovedKeepsWork ==
  ASSUME Inv, WorkInv, main' = main, generation' = generation, Keyed', SkippedIsFlagged',
         \A j : j \in LiveJobs => j \in LiveJobs',
         \A j : j \in LiveJobs' => j \in LiveJobs \/ j = IndexChanged
  PROVE  WorkInv'
<1>1. Working(main)' /\ Unasked(main)'
  BY DEF WorkInv, Working, Unasked, Unflagged, Fine, Staffed, Projected, Underway, Served,
         Has, Uncaptured
<1>2. Carried'
  BY DEF WorkInv, Carried
<1>3. Fitting'
  <2>1. \A j \in LiveJobs' : Fits(main, j)
    BY ChangedFits DEF WorkInv, Fitting
  <2> QED
    BY <2>1 DEF Fitting, Fits
<1> QED
  BY <1>1, <1>2, <1>3 DEF WorkInv

LEMMA TakeKeepsWork ==
  ASSUME Inv, WorkInv, NEW lane \in Lanes, TakeJob(lane)
  PROVE  WorkInv'
<1>1. PICK k \in NextKeys(lane) :
        /\ jobs' = Unretain(jobs, k)
        /\ workers' = [l \in (DOMAIN workers) \union {lane} |->
             IF l = lane THEN [job |-> jobs[k], skip |-> Flagged(jobs[k])]
             ELSE workers[l]]
  BY DEF TakeJob
<1>2. UNCHANGED <<main, events, generation>> /\ lane \notin DOMAIN workers
  BY DEF TakeJob
<1>3. k \in DOMAIN jobs
  BY DEF NextKeys
<1> DEFINE w == [job |-> jobs[k], skip |-> Flagged(jobs[k])]
<1>4. w.job = jobs[k] /\ (w.skip => Flagged(jobs[k]))
  OBVIOUS
<1>5. /\ DOMAIN workers' = (DOMAIN workers) \union {lane} /\ workers'[lane] = w
      /\ \A l \in DOMAIN workers : workers'[l] = workers[l]
  BY <1>1, <1>2
<1> HIDE DEF w
<1>6. DOMAIN jobs' = (DOMAIN jobs) \ {k} /\ \A m \in DOMAIN jobs' : jobs'[m] = jobs[m]
  BY <1>1 DEF Unretain
<1>7. Keyed'
  BY <1>6 DEF WorkInv, Keyed
<1>8. SkippedIsFlagged'
  <2>1. \A l \in DOMAIN workers' : workers'[l].skip => Flagged(workers'[l].job)
    BY <1>4, <1>5 DEF WorkInv, SkippedIsFlagged
  <2> QED
    BY <1>2, <2>1 DEF WorkInv, SkippedIsFlagged, Flagged
<1>9. ASSUME NEW j, j \in LiveJobs PROVE j \in LiveJobs'
  BY <1>2, <1>3, <1>4, <1>5, <1>6, <1>9, LiveIs, LiveNext
<1>10. ASSUME NEW j, j \in LiveJobs' PROVE j \in LiveJobs
  BY <1>2, <1>3, <1>4, <1>5, <1>6, <1>10, LiveIs, LiveNext
<1> QED
  BY <1>2, <1>7, <1>8, <1>9, <1>10, MovedKeepsWork

LEMMA SendKeepsWork ==
  ASSUME Inv, NEW e \in Events, Send(e)
  PROVE  /\ \A i \in 1 .. Len(events') : events'[i] = e \/ \E m \in 1 .. Len(events) :
                                                            events'[i] = events[m]
         /\ \E i \in 1 .. Len(events') : events'[i] = e
         /\ \A m \in 1 .. Len(events) : m \in 1 .. Len(events') /\ events'[m] = events[m]
<1>1. events \in Seq(Events) /\ Len(events) \in Nat /\ events' = Append(events, e)
  BY LenProperties DEF Send, Inv, EventsGood
<1>2. /\ Len(events') = Len(events) + 1
      /\ \A i \in 1 .. Len(events) : events'[i] = events[i]
      /\ events'[Len(events) + 1] = e
  BY <1>1, AppendProperties
<1>3. \A i \in 1 .. Len(events') : i \in 1 .. Len(events) \/ i = Len(events) + 1
  BY <1>1, <1>2
<1>4. /\ Len(events) + 1 \in 1 .. Len(events')
      /\ \A i \in 1 .. Len(events) : i \in 1 .. Len(events')
  BY <1>1, <1>2
<1> QED
  BY <1>2, <1>3, <1>4

LEMMA FinishKeepsWork ==
  ASSUME Inv, WorkInv, NEW lane \in Lanes, FinishJob(lane)
  PROVE  WorkInv'
<1> DEFINE job == workers[lane].job
<1>1. PICK outcome \in {"ready", "skipped"} :
        /\ outcome = "skipped" => Flagged(job)
        /\ Send([job |-> job, outcome |-> outcome])
  BY DEF FinishJob
<1>2. /\ lane \in DOMAIN workers /\ workers' = Unretain(workers, lane)
      /\ UNCHANGED <<main, jobs, generation>>
  BY DEF FinishJob
<1> DEFINE e == [job |-> job, outcome |-> outcome]
<1>3. e.job = job /\ e.outcome = outcome
  OBVIOUS
<1>4. Send(e) /\ e \in Events
  BY <1>1, <1>2 DEF Inv, WorkersGood, GoodJob, Events
<1> HIDE DEF job, e
<1>5. /\ \A i \in 1 .. Len(events') : events'[i] = e \/ \E m \in 1 .. Len(events) :
                                                         events'[i] = events[m]
      /\ \E i \in 1 .. Len(events') : events'[i] = e
      /\ \A m \in 1 .. Len(events) : m \in 1 .. Len(events') /\ events'[m] = events[m]
  BY <1>4, SendKeepsWork
<1>6. /\ DOMAIN workers' = (DOMAIN workers) \ {lane}
      /\ \A l \in DOMAIN workers' : workers'[l] = workers[l]
  BY <1>2 DEF Unretain
<1>7. Keyed'
  BY <1>2 DEF WorkInv, Keyed
<1>8. SkippedIsFlagged'
  <2>1. \A l \in DOMAIN workers' : workers'[l].skip => Flagged(workers'[l].job)
    BY <1>6 DEF WorkInv, SkippedIsFlagged
  <2>2. \A i \in 1 .. Len(events') :
          events'[i].outcome = "skipped" => Flagged(events'[i].job)
    BY <1>1, <1>3, <1>5 DEF WorkInv, SkippedIsFlagged
  <2> QED
    BY <1>2, <2>1, <2>2 DEF SkippedIsFlagged, Flagged
<1>9. ASSUME NEW j, j \in LiveJobs PROVE j \in LiveJobs'
  <2>1. ASSUME NEW l \in DOMAIN workers, j = workers[l].job PROVE j \in LiveJobs'
    <3>1. CASE l = lane
      BY <1>3, <1>5, <2>1, <3>1, LiveNext DEF job
    <3>2. CASE l # lane
      BY <1>6, <2>1, <3>2, LiveNext
    <3> QED
      BY <3>1, <3>2
  <2>2. ASSUME NEW m \in 1 .. Len(events), j = events[m].job PROVE j \in LiveJobs'
    BY <1>5, <2>2, LiveNext
  <2>3. ASSUME NEW m \in DOMAIN jobs, j = jobs[m] PROVE j \in LiveJobs'
    BY <1>2, <2>3, LiveNext
  <2> QED
    BY <1>9, <2>1, <2>2, <2>3, LiveIs
<1>10. ASSUME NEW j, j \in LiveJobs' PROVE j \in LiveJobs
  <2>1. job \in LiveJobs
    BY <1>2, LiveIs DEF job
  <2> QED
    BY <1>2, <1>3, <1>5, <1>6, <1>10, <2>1, LiveIs, LiveNext
<1> QED
  BY <1>2, <1>7, <1>8, <1>9, <1>10, MovedKeepsWork

(* A new generation outdates every pending projection, and what the loop   *)
(* has not observed of it yet obliges nobody.                              *)
LEMMA PublishKeepsWork ==
  ASSUME Inv, WorkInv, PublishGeneration
  PROVE  WorkInv'
<1>1. generation' = generation + 1 /\ UNCHANGED <<main, jobs, workers, events>>
  BY DEF PublishGeneration
<1>2. /\ generation \in Nat /\ Good(main)
      /\ main.lastGeneration \in Nat /\ main.lastGeneration <= generation
  BY DEF Inv, Coming, Consistent, Good, MainTypes, Announced
<1>3. ASSUME NEW u \in Uris PROVE Fine(main, u)'
  <2> DEFINE s == main
             p == s.documents[u].pending
  <2>1. /\ Staffed(s, u) /\ Projected(s, u) /\ p.generation \in Nat
    BY <1>2 DEF WorkInv, Working, Fine, Good, MainTypes, Documents
  <2>2. s.lastGeneration # generation'
    BY <1>1, <1>2
  <2>3. p # NoPending => p.generation <= generation' /\ p.generation # generation'
    BY <1>1, <1>2, <2>1 DEF Projected
  <2>4. Staffed(main, u)'
    BY <1>1, <2>1 DEF Staffed, Has
  <2>5. Projected(main, u)'
    BY <1>1, <2>1, <2>3 DEF Projected, Underway, Has
  <2>6. Served(main, u)'
    BY <1>1, <2>2 DEF Served
  <2> QED
    BY <2>4, <2>5, <2>6 DEF Fine
<1>4. Working(main)' /\ Unasked(main)'
  BY <1>1, <1>3 DEF WorkInv, Working, Unflagged, Unasked
<1>5. \A j : j \in LiveJobs' <=> j \in LiveJobs
  BY <1>1, LiveIs, LiveNext
<1>6. Carried' /\ Keyed' /\ Fitting' /\ SkippedIsFlagged'
  BY <1>1, <1>5 DEF WorkInv, Carried, Keyed, Fitting, Fits, SkippedIsFlagged, Flagged
<1> QED
  BY <1>4, <1>6 DEF WorkInv

LEMMA AnnounceKeepsWork ==
  ASSUME Inv, WorkInv, AnnounceGeneration
  PROVE  WorkInv'
<1> DEFINE e == [job |-> IndexChanged, outcome |-> "ready"]
<1>1. Send(e) /\ UNCHANGED <<main, jobs, workers, generation>>
  BY DEF AnnounceGeneration
<1>2. e.job = IndexChanged /\ e.outcome # "skipped" /\ e \in Events
  BY DEF Events
<1> HIDE DEF e
<1>3. /\ \A i \in 1 .. Len(events') : events'[i] = e \/ \E m \in 1 .. Len(events) :
                                                         events'[i] = events[m]
      /\ \E i \in 1 .. Len(events') : events'[i] = e
      /\ \A m \in 1 .. Len(events) : m \in 1 .. Len(events') /\ events'[m] = events[m]
  BY <1>1, <1>2, SendKeepsWork
<1>4. Keyed'
  BY <1>1 DEF WorkInv, Keyed
<1>5. SkippedIsFlagged'
  <2>1. \A i \in 1 .. Len(events') :
          events'[i].outcome = "skipped" => Flagged(events'[i].job)
    BY <1>2, <1>3 DEF WorkInv, SkippedIsFlagged
  <2> QED
    BY <1>1, <2>1 DEF WorkInv, SkippedIsFlagged, Flagged
<1>6. ASSUME NEW j, j \in LiveJobs PROVE j \in LiveJobs'
  BY <1>1, <1>3, <1>6, LiveIs, LiveNext
<1>7. ASSUME NEW j, j \in LiveJobs' PROVE j \in LiveJobs \/ j = IndexChanged
  BY <1>1, <1>2, <1>3, <1>7, LiveIs, LiveNext
<1> QED
  BY <1>1, <1>4, <1>5, <1>6, <1>7, MovedKeepsWork

LEMMA WorkAlways == Spec => [](Inv /\ WorkInv)
<1>1. Inv /\ WorkInv /\ [Next]_vars => WorkInv'
  <2> SUFFICES ASSUME Inv, WorkInv, [Next]_vars PROVE WorkInv'
    OBVIOUS
  <2>1. CASE ClientStep \/ LoopStep
    BY <2>1, ClientLoops, LoopLoops, LoopKeepsWork
  <2>2. ASSUME NEW lane \in Lanes, TakeJob(lane) \/ FinishJob(lane) PROVE WorkInv'
    BY <2>2, TakeKeepsWork, FinishKeepsWork
  <2>3. CASE PublishGeneration
    BY <2>3, PublishKeepsWork
  <2>4. CASE AnnounceGeneration
    BY <2>4, AnnounceKeepsWork
  <2>5. CASE UNCHANGED vars
    <3>1. /\ main' = main /\ jobs' = jobs /\ workers' = workers /\ events' = events
          /\ generation' = generation
      BY <2>5 DEF vars
    <3>2. Keyed' /\ SkippedIsFlagged'
      BY <3>1 DEF WorkInv, Keyed, SkippedIsFlagged, Flagged
    <3>3. \A j : j \in LiveJobs' <=> j \in LiveJobs
      BY <3>1, LiveIs, LiveNext
    <3> QED
      BY <3>1, <3>2, <3>3, MovedKeepsWork
  <2> QED
    BY <2>1, <2>2, <2>3, <2>4, <2>5 DEF Next
<1> QED
  BY <1>1, InitWorks, InvAlways, PTL DEF Spec

(* Nothing waits for work that nobody will do: an open document that is    *)
(* neither analysed nor rejected, a projection a token cache calls pending *)
(* and a deferred token request each have a job on its way, under every    *)
(* order of edits, skipped jobs, evictions and new generations.            *)
THEOREM WorkKeepsComing == Spec => []WorkIsComing
<1>1. Inv /\ WorkInv => UnreadyHasWork
  <2> SUFFICES ASSUME Inv, WorkInv, NEW u \in Uris, main.documents[u].revision # 0,
                      ~ main.documents[u].analysis, ~ main.documents[u].rejected
               PROVE  \E k \in DOMAIN main.table.retained :
                        /\ k = <<IF main.documents[u].foreground
                                 THEN "semantic" ELSE "foreground", u>>
                        /\ main.table.retained[k].task.revision = main.documents[u].revision
                        /\ main.table.retained[k].task \in {j.task : j \in LiveJobs}
    BY DEF UnreadyHasWork, Document
  <2> DEFINE k == <<IF main.documents[u].foreground THEN "semantic" ELSE "foreground", u>>
  <2>1. k \in DOMAIN main.table.retained /\ k[2] = u
    BY DEF WorkInv, Working, Fine, Staffed, Has
  <2>2. main.table.retained[k].task.revision = main.documents[k[2]].revision
    BY <2>1 DEF Inv, Consistent, Matched
  <2>3. main.table.retained[k].task \in {j.task : j \in LiveJobs}
    BY <2>1 DEF WorkInv, Carried
  <2> QED
    BY <2>1, <2>2, <2>3
<1>2. Inv /\ WorkInv /\ NoCaptures => PendingHasWork
  <2> SUFFICES ASSUME Inv, WorkInv, NoCaptures, NEW u \in Uris,
                      main.documents[u].pending # NoPending,
                      main.documents[u].pending.generation = generation
               PROVE  \E j \in LiveJobs : /\ j.kind = "rich"
                        /\ j.task.sequence = main.documents[u].pending.sequence
    BY DEF PendingHasWork, Document
  <2> DEFINE k == <<"rich", u>>
             task == main.table.retained[k].task
  <2>1. /\ k \in DOMAIN main.table.retained
        /\ task.sequence = main.documents[u].pending.sequence
    BY DEF WorkInv, Working, Fine, Projected, Underway, Has, Uncaptured, NoCaptures
  <2>2. PICK j \in LiveJobs : j.task = task
    BY <2>1 DEF WorkInv, Carried
  <2>3. task.class = "rich" /\ task.sequence \in 1 .. main.table.sequence
    <3>1. KeyOf(task) = k /\ task.sequence \in 1 .. main.table.sequence
      BY <2>1, SequencesNat DEF Inv, Consistent
    <3> QED
      BY <3>1 DEF KeyOf
  <2> HIDE DEF task, k
  <2>4. j # IndexChanged
    <3>1. IndexChanged.task.sequence = 0 /\ 0 \notin 1 .. main.table.sequence
      BY DEF IndexChanged, Job
    <3> QED
      BY <2>2, <2>3, <3>1
  <2>5. GoodJob(main, j)
    BY <2>4, LiveGood
  <2>6. j.kind = "rich"
    <3>1. j.kind \in {"foreground", "semantic", "rich", "debug"}
      BY <2>5, JobType
    <3>2. j.kind # "debug"
      BY <2>5 DEF GoodJob, Asked, NoCaptures
    <3> QED
      BY <2>2, <2>3, <2>5, <3>1, <3>2 DEF GoodJob
  <2> QED
    BY <2>1, <2>2, <2>6
<1>3. Inv /\ WorkInv => DeferredTokensHaveWork
  <2> SUFFICES ASSUME WorkInv, NEW u \in Uris,
                      NEW i \in 1 .. Len(main.deferredTokens[u]),
                      main.documents[u].analysis, main.lastGeneration = generation
               PROVE  main.documents[u].pending # NoPending
    BY DEF DeferredTokensHaveWork, Document
  <2>1. Members(main.deferredTokens[u]) # {}
    BY DEF Members
  <2> QED
    BY <2>1 DEF WorkInv, Working, Fine, Served
<1> QED
  BY <1>1, <1>2, <1>3, WorkAlways, NothingStaysQueued, PTL DEF WorkIsComing
=============================================================================
