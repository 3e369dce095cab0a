-------------------------- MODULE PublicationGate --------------------------
(***************************************************************************)
(* What the analysis runtime promises its callers, with no queues, no      *)
(* capacities and no documents: every admitted task holds a ticket, a key  *)
(* (class, uri) has at most one live ticket, a live ticket is the newest   *)
(* one issued for its key, and only a live ticket may be published, once.  *)
(* server/src/analysis_runtime.rs:355-356, "A task may publish only while  *)
(* this identity remains current for its URI and lane".                    *)
(***************************************************************************)
EXTENDS Naturals

CONSTANT Keys

VARIABLES
  issued,      \* the number of tickets handed out so far
  live,        \* the live ticket of every key, 0 when it has none
  published    \* the last ticket published for every key, 0 when none was

vars == <<issued, live, published>>

Init ==
  /\ issued = 0
  /\ live = [k \in Keys |-> 0]
  /\ published = [k \in Keys |-> 0]

(* A new ticket supersedes the live one of its key. *)
Issue(k) ==
  /\ issued' = issued + 1
  /\ live' = [live EXCEPT ![k] = issued + 1]
  /\ UNCHANGED published

(* A close, a newer revision or an overload makes tickets ineligible. *)
Withdraw(K) ==
  /\ live' = [k \in Keys |-> IF k \in K THEN 0 ELSE live[k]]
  /\ UNCHANGED <<issued, published>>

Publish(k) ==
  /\ live[k] # 0
  /\ published' = [published EXCEPT ![k] = live[k]]
  /\ live' = [live EXCEPT ![k] = 0]
  /\ UNCHANGED issued

Next ==
  \/ \E k \in Keys : Issue(k) \/ Publish(k)
  \/ \E K \in SUBSET Keys : Withdraw(K)

Spec == Init /\ [][Next]_vars

-----------------------------------------------------------------------------
TypeOK ==
  /\ issued \in Nat
  /\ live \in [Keys -> 0 .. issued]
  /\ published \in [Keys -> 0 .. issued]

(* A live ticket is newer than everything published for its key and no two *)
(* keys share a ticket: publishing can only move a key forward.            *)
LiveIsNewest ==
  /\ \A k \in Keys : live[k] # 0 => live[k] > published[k]
  /\ \A k1, k2 \in Keys : live[k1] # 0 /\ live[k1] = live[k2] => k1 = k2

(* No key ever publishes an older ticket after a newer one. *)
PublishesForward == [][\A k \in Keys : published'[k] >= published[k]]_vars
=============================================================================
