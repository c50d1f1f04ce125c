---------------------------- MODULE SyncOrdering ----------------------------
(***************************************************************************)
(* Which rows of the handset's outbox may go out now, and in what order.   *)
(*                                                                         *)
(* The pure half of the outbox: `partition` in                             *)
(* mbos-app/src/sync/ordering.ts.  A queue is a sequence of items, oldest  *)
(* first (the caller reads them ORDER BY createdAt), each item a record    *)
(*                                                                         *)
(*    [id, entity, deps, due]                                              *)
(*                                                                         *)
(* where `deps` is the set of record ids the item depends on and `due`     *)
(* stands for nextAttemptAt <= now.                                        *)
(***************************************************************************)
EXTENDS Naturals, Sequences, SequencesExt

(* Where one sweep over the queue has got to: what it has decided to send  *)
(* and to block, in the order decided, and the two sets of record ids that *)
(* the decisions feed back into.                                           *)
Undecided(synced, dead) ==
  [ready |-> <<>>, blocked |-> <<>>, satisfied |-> synced, dead |-> dead]

Decided(v) == ToSet(v.ready) \union ToSet(v.blocked)

(* What it is to block an item: its own record is dead from then on.       *)
(* Mutant: it is not.                                                      *)
BlockAlone(v, item) == [v EXCEPT !.blocked = Append(@, item)]

Block(v, item) == [v EXCEPT !.blocked = Append(@, item),
                            !.dead = @ \union {item.entity}]

(* An item that is due may go once everything it needs has landed or goes  *)
(* before it in the batch, while the batch has room.                       *)
(* Mutants: its needs are not looked at; a full batch takes one more.      *)
MayGoAhead(v, item, limit) == item.due /\ Len(v.ready) < limit
MayGoOver(v, item, limit) ==
  item.due /\ item.deps \subseteq v.satisfied /\ Len(v.ready) <= limit

MayGo(v, item, limit) ==
  item.due /\ item.deps \subseteq v.satisfied /\ Len(v.ready) < limit

(* What a sweep does with one item it has not decided yet.  One that needs *)
(* a dead record is blocked, due or not; one that goes satisfies what      *)
(* needs it in the same batch.                                             *)
Visit(v, item, limit) ==
  CASE item \in Decided(v) -> v
    [] item \notin Decided(v) /\ item.deps \intersect v.dead # {} -> Block(v, item)
    [] OTHER -> IF MayGo(v, item, limit)
                THEN [v EXCEPT !.ready = Append(@, item),
                               !.satisfied = @ \union {item.entity}]
                ELSE v

Sweep(v, queue, limit) ==
  LET seen[i \in 0 .. Len(queue)] ==
        IF i = 0 THEN v ELSE Visit(seen[i - 1], queue[i], limit)
  IN  seen[Len(queue)]

(* Mutant: one sweep is taken to be enough.                                *)
PartitionInOneSweep(queue, synced, dead, limit) ==
  Sweep(Undecided(synced, dead), queue, limit)

(* Sweeps are repeated until one decides nothing.  Every sweep but the     *)
(* last decides at least one item, so Len(queue) of them are enough.       *)
Partition(queue, synced, dead, limit) ==
  LET sweeps[n \in 0 .. Len(queue)] ==
        IF n = 0 THEN Undecided(synced, dead)
                 ELSE Sweep(sweeps[n - 1], queue, limit)
  IN  sweeps[Len(queue)]
=============================================================================
