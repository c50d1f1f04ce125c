------------------------------- MODULE Outbox -------------------------------
(***************************************************************************)
(* The handset's outbox: the SQLite tables behind                          *)
(* mbos-app/src/sync/queue.ts and mbos-app/src/data/write.ts, and every    *)
(* operation that changes them.  What moves the rows, the pass of          *)
(* sync/engine.ts and the network, is in FieldSync.                        *)
(*                                                                         *)
(* A row is named by its position in `sqlite.rows`, which is creation      *)
(* order (createdAt).  A deleted row keeps its position under a state of   *)
(* its own, "pruned" or "discarded", so that the history can be told; no   *)
(* operation reads such a row.  `due` stands for nextAttemptAt <= now.     *)
(***************************************************************************)
EXTENDS Wire, SyncOrdering, FiniteSets

CONSTANTS
  Acts,         \* what the salesman may do, see Act
  MaxRows,      \* bound: rows the outbox ever has
  MaxAttempts,  \* MAX_ATTEMPTS, 6 in the code
  BatchLimit    \* the smaller of 50 and mbos.sync.maxItemsPerRequest

(* One call of insertAndQueue or updateAndQueue.  `waits` says that the    *)
(* call site names the record itself as a dependency while it is unsynced  *)
(* (waitBehindOrder); `together` that it puts the local write and the      *)
(* outbox row in one transaction, as saving a visit does.                  *)
Act == [entity : Entities, op : Ops, body : Bodies, deps : SUBSET Entities,
        waits : BOOLEAN, together : BOOLEAN]

ASSUME ActsAssumption == Acts \subseteq Act /\ None \notin Act
ASSUME BoundsAssumption == MaxRows \in Nat /\ MaxAttempts \in Nat \ {0}
                                           /\ BatchLimit \in Nat \ {0}

VARIABLES
  sqlite,     \* the store that survives the app being killed
  saving      \* the act written locally and not yet queued, or None

Deleted == {"pruned", "discarded"}
States == {"queued", "syncing", "synced", "rejected", "failed", "blocked"}

ASSUME NullAssumption == None \notin States

Row == [entity : Entities, op : Ops, body : Bodies, n : Nat,
        deps : SUBSET Entities, state : States \union Deleted,
        attempts : 0 .. MaxAttempts, due : BOOLEAN]

KeyOf(r) == [entity |-> r.entity, op |-> r.op, body |-> r.body, n |-> r.n]

(* The positions of the rows of a store that are in one of the states S.   *)
RowsIn(db, S) == {q \in DOMAIN db.rows : db.rows[q].state \in S}
Live(db) == RowsIn(db, States)
Unsent(db) == RowsIn(db, States \ {"synced"})

EmptyStore == [rows |-> <<>>,
               body |-> [e \in Entities |-> None],
               sync |-> [e \in Entities |-> None]]
-----------------------------------------------------------------------------
(* Writing rows.  Each takes a store and gives the next one.               *)

(* Rows Q take state s, and so do the records they are about               *)
(* (setEntityState).                                                       *)
Mark(db, Q, s) ==
  [db EXCEPT
    !.rows = [q \in DOMAIN @ |-> IF q \in Q THEN [@[q] EXCEPT !.state = s] ELSE @[q]],
    !.sync = [e \in Entities |->
                IF \E q \in Q : db.rows[q].entity = e THEN s ELSE @[e]]]

(* The rows in states S that depend on record e, or on the record of one   *)
(* that does: no row but these need be in a set that is closed so.         *)
Behind(db, e, S) ==
  LET candidates == RowsIn(db, S)
      next(Q) == {q \in candidates :
                   db.rows[q].deps \intersect
                     ({e} \union {db.rows[p].entity : p \in Q}) # {}}
  IN  {q \in candidates : \A Q \in SUBSET candidates : next(Q) \subseteq Q => q \in Q}

(* Mutant: rows that have gone are blocked too.                            *)
BlockAllDependents(db, e) ==
  Mark(db, Behind(db, e, {"queued", "syncing", "synced"}), "blocked")

BlockDependents(db, e) == Mark(db, Behind(db, e, {"queued", "syncing"}), "blocked")

Requeue(db, Q) ==
  LET marked == Mark(db, Q, "queued")
  IN [marked EXCEPT !.rows = [q \in DOMAIN @ |->
                       IF q \in Q THEN [@[q] EXCEPT !.due = TRUE] ELSE @[q]]]

(* Mutant: what is blocked behind a retried row stays blocked.             *)
RetriedAlone(db, Q) ==
  LET again == Requeue(db, Q)
  IN [again EXCEPT !.rows = [q \in DOMAIN @ |->
                      IF q \in Q THEN [@[q] EXCEPT !.attempts = 0] ELSE @[q]]]

(* Rows Q go back in the queue from nothing (retryItem), and everything    *)
(* blocked behind their records comes back with them (unblockDependents).  *)
(* The code takes the rows one at a time; the order makes no difference.   *)
Retried(db, Q) ==
  LET behind == UNION {Behind(db, db.rows[q].entity, {"blocked"}) : q \in Q}
      again == Requeue(db, Q \union behind)
  IN [again EXCEPT !.rows = [q \in DOMAIN @ |->
                      IF q \in Q THEN [@[q] EXCEPT !.attempts = 0] ELSE @[q]]]

MarkSynced(db, q) == Mark(db, {q}, "synced")

(* Only a create that will never land leaves its dependents nothing to     *)
(* attach to.                                                              *)
MarkDead(db, q, s) ==
  LET r == db.rows[q]
      marked == Mark(db, {q}, s)
  IN IF r.op = "create" THEN BlockDependents(marked, r.entity) ELSE marked

MarkRejected(db, q) == MarkDead(db, q, "rejected")

(* Mutant: a row is tried once more than it may be.                        *)
MarkFailureLate(db, q, attempts) ==
  LET counted == [db EXCEPT !.rows[q].attempts = attempts + 1]
  IN IF attempts + 1 > MaxAttempts
     THEN MarkDead(counted, q, "failed")
     ELSE [counted EXCEPT !.rows[q].state = "queued", !.rows[q].due = FALSE]

(* `attempts` is the count the pass read before it sent the row.           *)
MarkFailure(db, q, attempts) ==
  LET counted == [db EXCEPT !.rows[q].attempts = attempts + 1]
  IN IF attempts + 1 >= MaxAttempts
     THEN MarkDead(counted, q, "failed")
     ELSE [counted EXCEPT !.rows[q].state = "queued", !.rows[q].due = FALSE]

MarkUnsent(db, q) == [db EXCEPT !.rows[q].state = "queued"]

(* markSyncing does not touch the records.                                 *)
MarkSyncing(db, Q) ==
  [db EXCEPT !.rows = [q \in DOMAIN @ |->
     IF q \in Q THEN [@[q] EXCEPT !.state = "syncing"] ELSE @[q]]]

(* Mutant: rows a killed pass left behind are not taken up again.          *)
RecoverNothing(db) == db

RecoverInterrupted(db) ==
  [db EXCEPT !.rows = [q \in DOMAIN @ |->
     IF @[q].state = "syncing" THEN [@[q] EXCEPT !.state = "queued", !.due = TRUE]
                               ELSE @[q]]]

(* Synced rows created before the cutoff are deleted.                      *)
PruneSynced(db, cutoff) ==
  [db EXCEPT !.rows = [q \in DOMAIN @ |->
     IF @[q].state = "synced" /\ q < cutoff THEN [@[q] EXCEPT !.state = "pruned"]
                                            ELSE @[q]]]

Stuck(db) == RowsIn(db, {"rejected", "failed"})

AutoRetryStuck(db) == Retried(db, Stuck(db))
-----------------------------------------------------------------------------
(* What may go out (readyItems).                                           *)

DueRows(db) == {q \in RowsIn(db, {"queued"}) : db.rows[q].due}

EntitiesOf(db, Q) == {db.rows[q].entity : q \in Q}

(* Mutant: only an exhausted or blocked create counts as dead.             *)
DeadIdsFailed(db) ==
  EntitiesOf(db, {q \in RowsIn(db, {"failed", "blocked"}) : db.rows[q].op = "create"})

DeadIds(db) ==
  EntitiesOf(db, {q \in RowsIn(db, {"rejected", "failed", "blocked"}) :
                    db.rows[q].op = "create"})

(* A dependency with no row waiting is taken to have landed; the rows      *)
(* waiting are the ones due now and the ones in flight.                    *)
SyncedIds(db) ==
  LET waiting == EntitiesOf(db, DueRows(db) \union RowsIn(db, {"syncing"}))
      wanted == UNION {db.rows[q].deps : q \in DueRows(db)}
  IN EntitiesOf(db, RowsIn(db, {"synced"})) \union (wanted \ (waiting \union DeadIds(db)))

(* They are read ORDER BY createdAt.                                       *)
DueInOrder(db) ==
  LET upto[n \in 0 .. Len(db.rows)] ==
        IF n = 0 THEN <<>>
        ELSE IF n \in DueRows(db) THEN Append(upto[n - 1], n) ELSE upto[n - 1]
  IN  upto[Len(db.rows)]

ReadyItems(db) ==
  LET due == DueInOrder(db)
  IN Partition([i \in DOMAIN due |-> [id |-> due[i],
                                      entity |-> db.rows[due[i]].entity,
                                      deps |-> db.rows[due[i]].deps,
                                      due |-> TRUE]],
               SyncedIds(db), DeadIds(db), BatchLimit)
-----------------------------------------------------------------------------
(* Saving.                                                                 *)

Base(db, a) == {q \in Live(db) : /\ db.rows[q].entity = a.entity
                                 /\ db.rows[q].op = a.op
                                 /\ db.rows[q].body = a.body}

(* waitBehindOrder reads the record's own state before the edit is written.*)
DepsOf(db, a) ==
  IF a.waits /\ db.sync[a.entity] # "synced" THEN a.deps \union {a.entity} ELSE a.deps

WriteLocal(db, a) ==
  [db EXCEPT !.body[a.entity] = a.body, !.sync[a.entity] = "queued"]

(* enqueue.  The same edit still waiting under the bare key is the same    *)
(* item.  Otherwise an update is numbered by how many rows carry its key   *)
(* already, and a create keeps the bare key.                               *)
Waiting(db, a) ==
  \E q \in Base(db, a) : db.rows[q].n = 0 /\ db.rows[q].state # "synced"

Number(db, a) == IF a.op = "update" THEN Cardinality(Base(db, a)) ELSE 0

(* The key is unique in the table; a row already under it refuses another. *)
KeyTaken(db, a) ==
  ~Waiting(db, a) /\ \E q \in Base(db, a) : db.rows[q].n = Number(db, a)

Enqueue(db, a, deps) ==
  LET row == [entity |-> a.entity, op |-> a.op, body |-> a.body,
              n |-> Number(db, a), deps |-> deps,
              state |-> "queued", attempts |-> 0, due |-> TRUE]
  IN IF Waiting(db, a) \/ KeyTaken(db, a)
     THEN db
     ELSE [db EXCEPT !.rows = Append(@, row)]

(* A record is created once, under an id minted for it; it may be edited,  *)
(* and named as a dependency, while the phone has it.                      *)
CanAct(db, a) ==
  /\ Len(db.rows) < MaxRows
  /\ IF a.op = "create"
     THEN /\ db.body[a.entity] = None
          /\ \A q \in DOMAIN db.rows : db.rows[q].entity # a.entity
     ELSE db.body[a.entity] # None
  /\ \A d \in a.deps : db.body[d] # None

(* Mutant: the record and its row are saved one after the other.           *)
SaveApart(a) ==
  /\ saving = None
  /\ CanAct(sqlite, a)
  /\ sqlite' = WriteLocal(sqlite, a)
  /\ saving' = [a EXCEPT !.deps = DepsOf(sqlite, a)]

(* The local row is written; where the call site does not put the two in   *)
(* one transaction, the outbox row is a step of its own, and a key that is *)
(* taken leaves the local row as it is.                                    *)
Save(a) ==
  /\ saving = None
  /\ CanAct(sqlite, a)
  /\ a.together => ~KeyTaken(sqlite, a)
  /\ LET written == WriteLocal(sqlite, a)
         deps == DepsOf(sqlite, a)
     IN IF a.together
        THEN sqlite' = Enqueue(written, a, deps) /\ UNCHANGED saving
        ELSE sqlite' = written /\ saving' = [a EXCEPT !.deps = deps]

QueueSaved ==
  /\ saving # None
  /\ sqlite' = Enqueue(sqlite, saving, saving.deps)
  /\ saving' = None
-----------------------------------------------------------------------------
(* What else the salesman and the clock do to rows at rest.                *)

(* The backoff of a row runs out.                                          *)
BackoffEnds(q) ==
  /\ q \in RowsIn(sqlite, {"queued"}) /\ ~sqlite.rows[q].due
  /\ sqlite' = [sqlite EXCEPT !.rows[q].due = TRUE]
  /\ UNCHANGED saving

(* A blocked row offers no Retry of its own while the row that holds it    *)
(* back is on the screen beside it.                                        *)
HeldBehind(db, q) ==
  \E p \in Unsent(db) : /\ db.rows[p].entity \in db.rows[q].deps
                        /\ db.rows[p].state # "blocked"

(* "Send again" on the Not accepted screen, "Try again" on the Sync screen.*)
Retry(q) ==
  /\ \/ q \in RowsIn(sqlite, {"rejected", "failed"})
     \/ q \in RowsIn(sqlite, {"blocked"}) /\ ~HeldBehind(sqlite, q)
  /\ sqlite' = Retried(sqlite, {q})
  /\ UNCHANGED saving

(* Mutant: a refused edit takes the record with it too.                    *)
DiscardEither(q) ==
  /\ q \in Stuck(sqlite)
  /\ LET r == sqlite.rows[q]
     IN sqlite' = [sqlite EXCEPT !.rows[q].state = "discarded",
                                 !.body[r.entity] = None, !.sync[r.entity] = None]
  /\ UNCHANGED saving

(* "Remove" on the Not accepted screen.  It lists refusals, but a row may  *)
(* have been sent again and failed since the list was read.  A refused     *)
(* create takes the local record with it.                                  *)
Discard(q) ==
  /\ q \in Stuck(sqlite)
  /\ LET r == sqlite.rows[q]
         gone == [sqlite EXCEPT !.rows[q].state = "discarded"]
     IN sqlite' = IF r.op = "create"
                  THEN [gone EXCEPT !.body[r.entity] = None, !.sync[r.entity] = None]
                  ELSE gone
  /\ UNCHANGED saving
=============================================================================
