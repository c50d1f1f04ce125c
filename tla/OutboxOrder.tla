---------------------------- MODULE OutboxOrder -----------------------------
(***************************************************************************)
(* `partition` (SyncOrdering) against what it is for, over every queue of  *)
(* a bounded length.  A queue is built one item at a time.  The i-th item  *)
(* is about the i-th record, no other item is, and it may depend on any    *)
(* record, on its own (an edit behind its order) or one queued later, and  *)
(* on records that are not in the queue.  Of those, some have landed, some *)
(* are dead, and some are neither, held up elsewhere.  A queued record may *)
(* be dead already, when its item is an edit, and has not landed.          *)
(***************************************************************************)
EXTENDS SyncOrdering, FiniteSetsExt, Integers

CONSTANTS
  Records,    \* a sequence: the i-th item of a queue is about the i-th
  Elsewhere,  \* records with no item due
  Limits,     \* sizes of a batch
  MaxDeps,    \* bound: dependencies an item has
  MaxDead     \* bound: records dead to begin with

ASSUME QueueAssumption ==
  /\ Records \in Seq(ToSet(Records))
  /\ \A i, j \in DOMAIN Records : Records[i] = Records[j] => i = j
  /\ ToSet(Records) \intersect Elsewhere = {}
  /\ Limits \subseteq Nat

VARIABLES queue, synced, dead, limit

queueVars == <<queue, synced, dead, limit>>

AllRecords == ToSet(Records) \union Elsewhere

QueueInit ==
  /\ queue = <<>>
  /\ synced \in SUBSET Elsewhere
  /\ dead \in UNION {kSubset(n, AllRecords \ synced) : n \in 0 .. MaxDead}
  /\ limit \in Limits

Add(deps, due) ==
  /\ Len(queue) < Len(Records)
  /\ LET i == Len(queue) + 1
     IN queue' = Append(queue, [id |-> i, entity |-> Records[i],
                                deps |-> deps, due |-> due])
  /\ UNCHANGED <<synced, dead, limit>>

QueueNext ==
  \E n \in 0 .. MaxDeps : \E deps \in kSubset(n, AllRecords), due \in BOOLEAN : Add(deps, due)

QueueSpec == QueueInit /\ [][QueueNext]_queueVars
-----------------------------------------------------------------------------
Verdict == Partition(queue, synced, dead, limit)

Queued == ToSet(queue)

EntitiesIn(S) == {item.entity : item \in S}

(* One type invariant: what comes back is made of what was put in.         *)
QueueTypeOK ==
  LET v == Verdict
  IN /\ Decided(v) \subseteq Queued
     /\ v.satisfied \subseteq synced \union EntitiesIn(Queued)
     /\ v.dead \subseteq dead \union EntitiesIn(Queued)
     /\ Len(v.ready) <= limit

(* What is behind something dead, or behind one of S.                      *)
BehindTheDead(S) ==
  {i \in Queued : i.deps \intersect (dead \union EntitiesIn(S)) # {}}

(* The least of a set of sets.                                             *)
Least(F) == CHOOSE S \in F : \A T \in F : S \subseteq T

(* What must be blocked: the least set with all that is behind it.         *)
Doomed == Least({S \in SUBSET Queued : BehindTheDead(S) \subseteq S})

(* Who is due, is not behind the dead, and has what it needs landed or     *)
(* in S.                                                                   *)
Eligible(doomed, S) ==
  {i \in Queued \ doomed : i.due /\ i.deps \subseteq synced \union EntitiesIn(S)}

(* What may be sent, with no limit on the batch.                           *)
Sendable ==
  LET doomed == Doomed
  IN  Least({S \in SUBSET Queued : Eligible(doomed, S) \subseteq S})

(* Everything behind a dead record is blocked, however many records lie    *)
(* between and whichever was queued first, and nothing else is             *)
(* (ordering.ts: blocking is transitive and order-free, `partition`).      *)
BlocksTheDoomed == ToSet(Verdict.blocked) = Doomed

(* Nothing goes ahead of a record it depends on, in the batch either: the  *)
(* office judges the items of a batch in the order they lie in it.         *)
NothingAheadOfItsParents ==
  LET ready == Verdict.ready
  IN \A i \in DOMAIN ready :
       ready[i].deps \subseteq synced \union EntitiesIn({ready[j] : j \in 1 .. i - 1})

(* The batch is as full as it can be: what may go does, until the batch is *)
(* full, although a child may be queued before its parent.                 *)
SendsAllItMay ==
  LET ready == Verdict.ready
      sendable == Sendable
      most == Cardinality(sendable)
  IN /\ ToSet(ready) \subseteq sendable
     /\ Len(ready) = IF most < limit THEN most ELSE limit

(* What partition (ordering.ts) says of a queue is what it is meant to: a  *)
(* refusal reaches everything behind it, nothing goes ahead of a parent,   *)
(* and all that may go does.                                               *)
PartitionMeansIt == BlocksTheDoomed /\ NothingAheadOfItsParents /\ SendsAllItMay
=============================================================================
