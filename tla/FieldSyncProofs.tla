---------------------------- MODULE FieldSyncProofs ----------------------------
(***************************************************************************)
(* The handset and the office together, for any records, payloads and      *)
(* connections, any acts of the salesman, any number of rows and attempts  *)
(* and any size of batch.                                                  *)
(*                                                                         *)
(* The inductive invariant is Inv: what the office keeps by itself,        *)
(* whatever handset it serves (OpenIngestProofs, of which this handset is  *)
(* shown to be one), and PhoneInv, which ties the phone's rows to what is  *)
(* at the office through everything that may be on its way between them:   *)
(* a request, the receipt about to be stored, the answer, the pass that    *)
(* waits and what it has yet to settle.                                    *)
(*                                                                         *)
(* First what each operation of the outbox does to a store, then the steps *)
(* that keep the store but for the states of rows, then those that save    *)
(* and remove, then the office's, then what follows from the invariant,    *)
(* the steps of FieldDelivery last.                                        *)
(***************************************************************************)
EXTENDS FieldSync, SyncOrderingProofs

(***************************************************************************)
(* What each operation of the outbox (queue.ts, write.ts) does to a store, *)
(* stated of any store: the steps below use these facts action by action.  *)
(*                                                                         *)
(* All but two operations, saving and removing, are Kept: they change the  *)
(* states, counts and dates of rows and nothing else of them, in ways that *)
(* Kept bounds.  X are the rows an operation may settle, Y those it may    *)
(* settle as synced; for most both are empty.  Kept composes (KeptTrans).  *)
(***************************************************************************)

(* Stores as the handset has them: typed, and with attempts left for every *)
(* row that may still be sent.                                             *)
Open == {"queued", "syncing", "blocked"}

Stores ==
  [rows : Seq(Row), body : [Entities -> Bodies \cup {None}], sync : [Entities -> States \cup {None}]]

StoreOK(db) ==
  /\ db \in Stores
  /\ \A q \in DOMAIN db.rows : db.rows[q].state \in Open => db.rows[q].attempts < MaxAttempts

LEMMA TypedRows ==
  ASSUME NEW db \in Stores
  PROVE  /\ db.rows \in Seq(Row) /\ Len(db.rows) \in Nat /\ DOMAIN db.rows = 1 .. Len(db.rows)
         /\ db.rows \in [DOMAIN db.rows -> Row]
         /\ \A q \in DOMAIN db.rows :
              /\ q \in Nat
              /\ db.rows[q] \in Row /\ db.rows[q].entity \in Entities /\ db.rows[q].deps \in SUBSET Entities
              /\ db.rows[q].op \in Ops /\ db.rows[q].body \in Bodies /\ db.rows[q].n \in Nat
              /\ db.rows[q].state \in States \cup Deleted /\ db.rows[q].attempts \in 0 .. MaxAttempts
              /\ db.rows[q].due \in BOOLEAN
         /\ db.body \in [Entities -> Bodies \cup {None}]
         /\ db.sync \in [Entities -> States \cup {None}]
<1>1. /\ db.rows \in Seq(Row) /\ db.body \in [Entities -> Bodies \cup {None}]
      /\ db.sync \in [Entities -> States \cup {None}]
  BY DEF Stores
<1>2. Len(db.rows) \in Nat /\ DOMAIN db.rows = 1 .. Len(db.rows) /\ db.rows \in [DOMAIN db.rows -> Row]
  BY <1>1
<1>3. \A q \in DOMAIN db.rows : q \in Nat /\ db.rows[q] \in Row
  BY <1>2
<1>4. QED
  BY <1>1, <1>2, <1>3 DEF Row

LEMMA RowsOf ==
  ASSUME NEW db, StoreOK(db)
  PROVE  /\ db.rows \in Seq(Row) /\ Len(db.rows) \in Nat /\ DOMAIN db.rows = 1 .. Len(db.rows)
         /\ db.rows \in [DOMAIN db.rows -> Row]
         /\ \A q \in DOMAIN db.rows :
              /\ q \in Nat
              /\ db.rows[q] \in Row /\ db.rows[q].entity \in Entities /\ db.rows[q].deps \in SUBSET Entities
              /\ db.rows[q].op \in Ops /\ db.rows[q].body \in Bodies /\ db.rows[q].n \in Nat
              /\ db.rows[q].state \in States \cup Deleted /\ db.rows[q].attempts \in 0 .. MaxAttempts
              /\ db.rows[q].due \in BOOLEAN
         /\ db.body \in [Entities -> Bodies \cup {None}]
         /\ db.sync \in [Entities -> States \cup {None}]
<1>1. QED
  BY TypedRows DEF StoreOK

LEMMA DueInOrderType ==
  ASSUME NEW db, StoreOK(db)
  PROVE  DueInOrder(db) \in Seq(DueRows(db))
<1> DEFINE N == Len(db.rows)
           S == Seq(DueRows(db))
           F == [n \in 1 .. N |-> [w \in S |-> IF n \in DueRows(db) THEN Append(w, n) ELSE w]]
           UpToNow(g) == g = [n \in 0 .. N |->
             IF n = 0 THEN <<>> ELSE IF n \in DueRows(db) THEN Append(g[n - 1], n) ELSE g[n - 1]]
           upto == CHOOSE g : UpToNow(g)
<1>1. N \in Nat
  BY RowsOf
<1>2. \A w \in S, n \in 1 .. N : (IF n \in DueRows(db) THEN Append(w, n) ELSE w) \in S
  OBVIOUS
<1>0. <<>> \in S
  OBVIOUS
<1> HIDE DEF S
<1>3. \E g : UpToNow(g)
  <2>1. F \in [1 .. N -> [S -> S]]
    BY <1>2
  <2>2. PICK g : Iterated(N, S, <<>>, F, g)
    <3> HIDE DEF F, N
    <3>1. QED
      BY <1>0, <1>1, <2>1, Iterates
  <2>3. g \in [0 .. N -> S] /\ g[0] = <<>> /\ \A i \in 1 .. N : g[i] = F[i][g[i - 1]]
    <3> HIDE DEF F, N
    <3>1. QED
      BY <2>2 DEF Iterated
  <2>4. ASSUME NEW n \in 0 .. N
        PROVE  g[n] = IF n = 0 THEN <<>> ELSE IF n \in DueRows(db) THEN Append(g[n - 1], n) ELSE g[n - 1]
    <3>1. CASE n # 0
      <4>1. n \in 1 .. N /\ n - 1 \in 0 .. N
        BY <1>1, <3>1
      <4>2. g[n - 1] \in S
        BY <2>3, <4>1
      <4>3. QED
        BY <2>3, <3>1, <4>1, <4>2
    <3>2. QED
      BY <2>3, <3>1
  <2>5. UpToNow(g)
    <3> HIDE DEF F
    <3>1. QED
      BY <2>3, <2>4
  <2> HIDE DEF UpToNow
  <2>6. QED
    BY <2>5
<1>4. UpToNow(upto)
  <2> HIDE DEF UpToNow
  <2>1. QED
    BY <1>3
<1>5. DueInOrder(db) = upto[N]
  BY DEF DueInOrder
<1> HIDE DEF upto, N, F
<1>6. \A n \in 0 .. N : upto[n] \in S
  <2> DEFINE G == {n \in 0 .. N : upto[n] \in S}
  <2>1. 0 \in G
    BY <1>0, <1>1, <1>4
  <2>2. ASSUME NEW n \in 1 .. N, n - 1 \in G PROVE n \in G
    <3>1. n \in 0 .. N /\ n # 0
      BY <1>1
    <3>2. upto[n] = IF n \in DueRows(db) THEN Append(upto[n - 1], n) ELSE upto[n - 1]
      BY <1>4, <3>1
    <3>3. upto[n - 1] \in S
      BY <2>2
    <3>4. QED
      BY <1>2, <3>1, <3>2, <3>3
  <2> HIDE DEF G
  <2>3. \A n \in 0 .. N : n \in G
    BY <1>1, <2>1, <2>2, UpTo
  <2>4. QED
    BY <2>3 DEF G
<1>7. QED
  BY <1>1, <1>5, <1>6 DEF S

(* Rows that may go out are rows that are due, each once, and with nothing *)
(* dead among what they depend on.                                         *)
LEMMA ReadyItemsAre ==
  ASSUME NEW db, StoreOK(db), NEW v, v = ReadyItems(db)
  PROVE  /\ Len(v.ready) \in Nat /\ DOMAIN v.ready = 1 .. Len(v.ready)
         /\ \A i \in DOMAIN v.ready :
              v.ready[i].id \in DueRows(db) /\ db.rows[v.ready[i].id].deps \cap DeadIds(db) = {}
         /\ \A i, j \in DOMAIN v.ready : v.ready[i].id = v.ready[j].id => i = j
         /\ \A w \in ToSet(v.blocked) : w.id \in DueRows(db)
<1> DEFINE ItemAt(q) == [id |-> q, entity |-> db.rows[q].entity, deps |-> db.rows[q].deps, due |-> TRUE]
           due == DueInOrder(db)
           queue == [i \in DOMAIN due |-> ItemAt(due[i])]
           Q == ToSet(queue)
<1>1. due \in Seq(DueRows(db))
  BY DueInOrderType
<1>2. Len(due) \in Nat /\ DOMAIN due = 1 .. Len(due) /\ \A i \in DOMAIN due : due[i] \in DueRows(db)
  <2> HIDE DEF due
  <2>1. QED
    BY <1>1
<1>3. v = Partition(queue, SyncedIds(db), DeadIds(db), BatchLimit)
  BY DEF ReadyItems
<1>4. queue \in Seq(Q)
  <2> HIDE DEF due, ItemAt
  <2>1. \A i \in 1 .. Len(due) : queue[i] \in Q
    BY <1>2 DEF ToSet
  <2>2. queue \in [1 .. Len(due) -> Q]
    BY <1>2, <2>1
  <2> HIDE DEF queue, Q
  <2>3. QED
    BY <1>2, <2>2, SeqDef
<1>5. \A w \in Q : w.id \in DueRows(db) /\ w = ItemAt(w.id) /\ w.deps = db.rows[w.id].deps
  <2> HIDE DEF due
  <2>1. \A i \in DOMAIN queue : /\ queue[i].id \in DueRows(db)
                                /\ queue[i] = ItemAt(queue[i].id)
                                /\ queue[i].deps = db.rows[queue[i].id].deps
    BY <1>2
  <2> HIDE DEF queue
  <2>2. QED
    BY <2>1 DEF ToSet
<1>6. v \in Reached(Q, SyncedIds(db), DeadIds(db), BatchLimit)
  <2> HIDE DEF queue
  <2>1. BatchLimit \in Nat
    BY BoundsAssumption
  <2>2. QED
    BY <1>3, <1>4, <2>1, PartitionDoes
<1> HIDE DEF queue, Q, ItemAt
<1>7. /\ v.ready \in Seq(Q) /\ v.blocked \in Seq(Q)
      /\ \A i \in DOMAIN v.ready : v.ready[i].deps \cap DeadIds(db) = {}
      /\ \A i, j \in DOMAIN v.ready : v.ready[i] = v.ready[j] => i = j
  BY <1>6 DEF Reached, Sorting, Rightly
<1>8. /\ Len(v.ready) \in Nat /\ DOMAIN v.ready = 1 .. Len(v.ready)
      /\ \A i \in DOMAIN v.ready : v.ready[i] \in Q
      /\ \A w \in ToSet(v.blocked) : w \in Q
  BY <1>7 DEF ToSet
<1>9. QED
  BY <1>5, <1>7, <1>8
-----------------------------------------------------------------------------
(* What no operation but saving and removing changes of a store: which     *)
(* rows there are, what each says, and what the records say.               *)
SameRow(r, t) ==
  /\ t.entity = r.entity /\ t.op = r.op /\ t.body = r.body
  /\ t.n = r.n /\ t.deps = r.deps

Same(db, to) ==
  /\ to \in Stores
  /\ DOMAIN to.rows = DOMAIN db.rows
  /\ \A q \in DOMAIN db.rows : SameRow(db.rows[q], to.rows[q])
  /\ to.body = db.body

LEMMA StateTo ==
  ASSUME NEW r \in Row, NEW s \in States \cup Deleted, NEW t, t = [r EXCEPT !.state = s]
  PROVE  t \in Row /\ SameRow(r, t) /\ t.state = s /\ t.attempts = r.attempts /\ t.due = r.due
BY DEF Row, SameRow

LEMMA AttemptsTo ==
  ASSUME NEW r \in Row, NEW a \in 0 .. MaxAttempts, NEW t, t = [r EXCEPT !.attempts = a]
  PROVE  t \in Row /\ SameRow(r, t) /\ t.state = r.state /\ t.attempts = a /\ t.due = r.due
BY DEF Row, SameRow

LEMMA DueTo ==
  ASSUME NEW r \in Row, NEW b \in BOOLEAN, NEW t, t = [r EXCEPT !.due = b]
  PROVE  t \in Row /\ SameRow(r, t) /\ t.state = r.state /\ t.attempts = r.attempts /\ t.due = b
BY DEF Row, SameRow

(* The rows are replaced by f, each by one that says the same, and the     *)
(* states of the records by g, or not at all.                              *)
Rework(db, f, g, to) ==
  /\ DOMAIN f = DOMAIN db.rows /\ f = [q \in DOMAIN f |-> f[q]]
  /\ \A q \in DOMAIN db.rows : f[q] \in Row /\ SameRow(db.rows[q], f[q])
  /\ g \in [Entities -> States \cup {None}]
  /\ \/ to = [db EXCEPT !.rows = f, !.sync = g]
     \/ to = [db EXCEPT !.rows = f] /\ g = db.sync

LEMMA Reworked ==
  ASSUME NEW db \in Stores, NEW f, NEW g, NEW to, Rework(db, f, g, to)
  PROVE  Same(db, to) /\ to.rows = f /\ to.sync = g
<1>1. /\ db.body \in [Entities -> Bodies \cup {None}] /\ Len(db.rows) \in Nat
      /\ DOMAIN db.rows = 1 .. Len(db.rows)
  BY TypedRows
<1>2. f \in Seq(Row) /\ DOMAIN f = DOMAIN db.rows
  <2>1. f \in [1 .. Len(db.rows) -> Row]
    BY <1>1 DEF Rework
  <2>2. QED
    BY <1>1, <2>1, SeqDef
<1>3. to \in Stores /\ to.rows = f /\ to.sync = g /\ to.body = db.body
  <2>1. CASE to = [db EXCEPT !.rows = f, !.sync = g]
    BY <1>1, <1>2, <2>1 DEF Stores, Rework
  <2>2. CASE to = [db EXCEPT !.rows = f] /\ g = db.sync
    BY <1>1, <1>2, <2>2 DEF Stores, Rework
  <2>3. QED
    BY <2>1, <2>2 DEF Rework
<1>4. QED
  BY <1>2, <1>3 DEF Same, Rework

LEMMA SameTrans ==
  ASSUME NEW db, NEW via, NEW to, Same(db, via), Same(via, to)
  PROVE  Same(db, to)
BY DEF Same, SameRow

Marked(db, to, Q, s) ==
  /\ Same(db, to)
  /\ \A q \in DOMAIN db.rows :
       /\ to.rows[q].state = IF q \in Q THEN s ELSE db.rows[q].state
       /\ to.rows[q].attempts = db.rows[q].attempts /\ to.rows[q].due = db.rows[q].due
  /\ \A e \in Entities :
       to.sync[e] = IF \E q \in Q : db.rows[q].entity = e THEN s ELSE db.sync[e]

LEMMA MarkDoes ==
  ASSUME NEW db \in Stores, NEW Q \in SUBSET DOMAIN db.rows, NEW s \in States, NEW to, to = Mark(db, Q, s)
  PROVE  Marked(db, to, Q, s)
<1> DEFINE f == [q \in DOMAIN db.rows |-> IF q \in Q THEN [db.rows[q] EXCEPT !.state = s] ELSE db.rows[q]]
           g == [e \in Entities |-> IF \E q \in Q : db.rows[q].entity = e THEN s ELSE db.sync[e]]
<1>1. to = [db EXCEPT !.rows = f, !.sync = g]
  BY DEF Mark
<1>2. ASSUME NEW q \in DOMAIN db.rows
      PROVE  /\ f[q] \in Row /\ SameRow(db.rows[q], f[q])
             /\ f[q].state = IF q \in Q THEN s ELSE db.rows[q].state
             /\ f[q].attempts = db.rows[q].attempts /\ f[q].due = db.rows[q].due
  <2>1. db.rows[q] \in Row
    BY TypedRows
  <2>3. CASE q \in Q
    <3>1. f[q] = [db.rows[q] EXCEPT !.state = s]
      BY <2>3
    <3> HIDE DEF f
    <3>2. QED
      BY <2>1, <2>3, <3>1, StateTo
  <2>4. CASE q \notin Q
    <3>1. f[q] = db.rows[q]
      BY <2>4
    <3> HIDE DEF f
    <3>2. QED
      BY <2>1, <2>4, <3>1 DEF SameRow
  <2>5. QED
    BY <2>3, <2>4
<1>3. g \in [Entities -> States \cup {None}]
  BY TypedRows
<1>4. \A e \in Entities : g[e] = IF \E q \in Q : db.rows[q].entity = e THEN s ELSE db.sync[e]
  OBVIOUS
<1>5. DOMAIN f = DOMAIN db.rows /\ f = [q \in DOMAIN f |-> f[q]]
  OBVIOUS
<1> HIDE DEF f, g
<1>6. Rework(db, f, g, to)
  BY <1>1, <1>2, <1>3, <1>5 DEF Rework
<1>7. Same(db, to) /\ to.rows = f /\ to.sync = g
  BY <1>6, Reworked
<1>8. QED
  BY <1>2, <1>4, <1>7 DEF Marked

(* The three ways an operation touches the rows of a set.                  *)
StateSet(db, Q, s) ==
  [db EXCEPT !.rows = [q \in DOMAIN @ |-> IF q \in Q THEN [@[q] EXCEPT !.state = s] ELSE @[q]]]

DueSet(db, Q, b) ==
  [db EXCEPT !.rows = [q \in DOMAIN @ |-> IF q \in Q THEN [@[q] EXCEPT !.due = b] ELSE @[q]]]

AttemptsSet(db, Q, a) ==
  [db EXCEPT !.rows = [q \in DOMAIN @ |-> IF q \in Q THEN [@[q] EXCEPT !.attempts = a] ELSE @[q]]]

StateTaken(db, to, Q, s) ==
  /\ Same(db, to) /\ to.sync = db.sync
  /\ \A q \in DOMAIN db.rows :
       /\ to.rows[q].state = IF q \in Q THEN s ELSE db.rows[q].state
       /\ to.rows[q].attempts = db.rows[q].attempts /\ to.rows[q].due = db.rows[q].due

LEMMA StateSetDoes ==
  ASSUME NEW db \in Stores, NEW Q, NEW s \in States \cup Deleted, NEW to, to = StateSet(db, Q, s)
  PROVE  StateTaken(db, to, Q, s)
<1> DEFINE f == [q \in DOMAIN db.rows |-> IF q \in Q THEN [db.rows[q] EXCEPT !.state = s] ELSE db.rows[q]]
<1>1. to = [db EXCEPT !.rows = f]
  BY DEF StateSet
<1>2. ASSUME NEW q \in DOMAIN db.rows
      PROVE  /\ f[q] \in Row /\ SameRow(db.rows[q], f[q])
             /\ f[q].state = IF q \in Q THEN s ELSE db.rows[q].state
             /\ f[q].attempts = db.rows[q].attempts /\ f[q].due = db.rows[q].due
  <2>1. db.rows[q] \in Row
    BY TypedRows
  <2>2. CASE q \in Q
    <3>1. f[q] = [db.rows[q] EXCEPT !.state = s]
      BY <2>2
    <3> HIDE DEF f
    <3>2. QED
      BY <2>1, <2>2, <3>1, StateTo
  <2>3. CASE ~(q \in Q)
    <3>1. f[q] = db.rows[q]
      BY <2>3
    <3> HIDE DEF f
    <3>2. QED
      BY <2>1, <2>3, <3>1 DEF SameRow
  <2>4. QED
    BY <2>2, <2>3
<1>3. DOMAIN f = DOMAIN db.rows /\ f = [q \in DOMAIN f |-> f[q]]
  OBVIOUS
<1> HIDE DEF f
<1>4. Rework(db, f, db.sync, to)
  BY <1>1, <1>2, <1>3, TypedRows DEF Rework
<1>5. Same(db, to) /\ to.rows = f /\ to.sync = db.sync
  BY <1>4, Reworked
<1>6. QED
  BY <1>2, <1>5 DEF StateTaken

DueTaken(db, to) ==
  /\ Same(db, to) /\ to.sync = db.sync
  /\ \A q \in DOMAIN db.rows :
       /\ to.rows[q].state = db.rows[q].state /\ to.rows[q].attempts = db.rows[q].attempts

LEMMA DueSetDoes ==
  ASSUME NEW db \in Stores, NEW Q, NEW b \in BOOLEAN, NEW to, to = DueSet(db, Q, b)
  PROVE  DueTaken(db, to)
<1> DEFINE f == [q \in DOMAIN db.rows |-> IF q \in Q THEN [db.rows[q] EXCEPT !.due = b] ELSE db.rows[q]]
<1>1. to = [db EXCEPT !.rows = f]
  BY DEF DueSet
<1>2. ASSUME NEW q \in DOMAIN db.rows
      PROVE  /\ f[q] \in Row /\ SameRow(db.rows[q], f[q])
             /\ f[q].state = db.rows[q].state /\ f[q].attempts = db.rows[q].attempts
  <2>1. db.rows[q] \in Row
    BY TypedRows
  <2>2. CASE q \in Q
    <3>1. f[q] = [db.rows[q] EXCEPT !.due = b]
      BY <2>2
    <3> HIDE DEF f
    <3>2. QED
      BY <2>1, <2>2, <3>1, DueTo
  <2>3. CASE ~(q \in Q)
    <3>1. f[q] = db.rows[q]
      BY <2>3
    <3> HIDE DEF f
    <3>2. QED
      BY <2>1, <2>3, <3>1 DEF SameRow
  <2>4. QED
    BY <2>2, <2>3
<1>3. DOMAIN f = DOMAIN db.rows /\ f = [q \in DOMAIN f |-> f[q]]
  OBVIOUS
<1> HIDE DEF f
<1>4. Rework(db, f, db.sync, to)
  BY <1>1, <1>2, <1>3, TypedRows DEF Rework
<1>5. Same(db, to) /\ to.rows = f /\ to.sync = db.sync
  BY <1>4, Reworked
<1>6. QED
  BY <1>2, <1>5 DEF DueTaken

AttemptsTaken(db, to, Q, a) ==
  /\ Same(db, to) /\ to.sync = db.sync
  /\ \A q \in DOMAIN db.rows :
       /\ to.rows[q].state = db.rows[q].state
       /\ to.rows[q].attempts = IF q \in Q THEN a ELSE db.rows[q].attempts

LEMMA AttemptsSetDoes ==
  ASSUME NEW db \in Stores, NEW Q, NEW a \in 0 .. MaxAttempts, NEW to, to = AttemptsSet(db, Q, a)
  PROVE  AttemptsTaken(db, to, Q, a)
<1> DEFINE f == [q \in DOMAIN db.rows |-> IF q \in Q THEN [db.rows[q] EXCEPT !.attempts = a] ELSE db.rows[q]]
<1>1. to = [db EXCEPT !.rows = f]
  BY DEF AttemptsSet
<1>2. ASSUME NEW q \in DOMAIN db.rows
      PROVE  /\ f[q] \in Row /\ SameRow(db.rows[q], f[q])
             /\ f[q].state = db.rows[q].state
             /\ f[q].attempts = IF q \in Q THEN a ELSE db.rows[q].attempts
  <2>1. db.rows[q] \in Row
    BY TypedRows
  <2>2. CASE q \in Q
    <3>1. f[q] = [db.rows[q] EXCEPT !.attempts = a]
      BY <2>2
    <3> HIDE DEF f
    <3>2. QED
      BY <2>1, <2>2, <3>1, AttemptsTo
  <2>3. CASE ~(q \in Q)
    <3>1. f[q] = db.rows[q]
      BY <2>3
    <3> HIDE DEF f
    <3>2. QED
      BY <2>1, <2>3, <3>1 DEF SameRow
  <2>4. QED
    BY <2>2, <2>3
<1>3. DOMAIN f = DOMAIN db.rows /\ f = [q \in DOMAIN f |-> f[q]]
  OBVIOUS
<1> HIDE DEF f
<1>4. Rework(db, f, db.sync, to)
  BY <1>1, <1>2, <1>3, TypedRows DEF Rework
<1>5. Same(db, to) /\ to.rows = f /\ to.sync = db.sync
  BY <1>4, Reworked
<1>6. QED
  BY <1>2, <1>5 DEF AttemptsTaken

LEMMA OneIsASet ==
  ASSUME NEW db \in Stores, NEW q \in DOMAIN db.rows, NEW s, NEW a
  PROVE  /\ [db EXCEPT !.rows[q].state = s] = StateSet(db, {q}, s)
         /\ [db EXCEPT !.rows[q].attempts = a] = AttemptsSet(db, {q}, a)
<1>1. db.rows = [p \in DOMAIN db.rows |-> db.rows[p]]
  BY TypedRows
<1>2. [db.rows EXCEPT ![q].state = s] = [p \in DOMAIN db.rows |-> IF p \in {q} THEN [db.rows[p] EXCEPT !.state = s] ELSE db.rows[p]]
  BY <1>1
<1>3. [db.rows EXCEPT ![q].attempts = a] = [p \in DOMAIN db.rows |-> IF p \in {q} THEN [db.rows[p] EXCEPT !.attempts = a] ELSE db.rows[p]]
  BY <1>1
<1>4. QED
  BY <1>2, <1>3 DEF StateSet, AttemptsSet

LEMMA OneCounted ==
  ASSUME NEW db \in Stores, NEW q \in DOMAIN db.rows, NEW a, NEW to, to = [db EXCEPT !.rows[q].attempts = a]
  PROVE  to = AttemptsSet(db, {q}, a)
<1>1. db.rows = [p \in DOMAIN db.rows |-> db.rows[p]]
  BY TypedRows
<1>2. [db.rows EXCEPT ![q].attempts = a] = [p \in DOMAIN db.rows |-> IF p \in {q} THEN [db.rows[p] EXCEPT !.attempts = a] ELSE db.rows[p]]
  BY <1>1
<1>3. QED
  BY <1>2 DEF AttemptsSet

LEMMA OneDue ==
  ASSUME NEW db \in Stores, NEW q \in DOMAIN db.rows, NEW b \in BOOLEAN,
         NEW to, to = [db EXCEPT !.rows[q].due = b]
  PROVE  to = DueSet(db, {q}, b)
<1>1. db.rows = [p \in DOMAIN db.rows |-> db.rows[p]]
  BY TypedRows
<1>2. [db.rows EXCEPT ![q].due = b] = [p \in DOMAIN db.rows |-> IF p \in {q} THEN [db.rows[p] EXCEPT !.due = b] ELSE db.rows[p]]
  BY <1>1
<1>3. QED
  BY <1>2 DEF DueSet

(* What an operation may do to the state of a row: `ends` says that it may *)
(* settle the row, `syncs` that it may settle it as synced.                *)
StateKept(s, t, ends, syncs) ==
  /\ s \in Open => t \in Open \/ ends
  /\ s \in Deleted => t = s
  /\ s = "synced" => t \in {"synced", "pruned"}
  /\ t \in {"synced", "pruned"} => s \in {"synced", "pruned"} \/ syncs
  /\ t = "discarded" => s = "discarded"
  /\ t \in {"rejected", "failed"} => s \in {"rejected", "failed"} \/ ends

(* Row q of a store is one of record e that a pass may still send.         *)
OpenRow(db, q, e) ==
  q \in DOMAIN db.rows /\ db.rows[q].entity = e /\ db.rows[q].state \in Open

(* A record that is drawn as queued has such a row, or was so drawn before *)
(* and has lost none.                                                      *)
DrawnKept(db, to) ==
  \A e \in Entities :
    to.sync[e] = "queued" =>
      \/ \E q : OpenRow(to, q, e)
      \/ db.sync[e] = "queued" /\ \A q : OpenRow(db, q, e) => OpenRow(to, q, e)

(* And to a store: rows X may be settled, rows Y as synced.                *)
Kept(db, to, X, Y) ==
  /\ Same(db, to)
  /\ \A q \in DOMAIN db.rows : StateKept(db.rows[q].state, to.rows[q].state, q \in X, q \in Y)
  /\ \A e \in Entities :
       to.sync[e] = "synced" => db.sync[e] = "synced" \/ \E q \in Y : db.rows[q].entity = e
  /\ DrawnKept(db, to)

LEMMA DrawnTrans ==
  ASSUME NEW db, NEW via, NEW to, DrawnKept(db, via), DrawnKept(via, to)
  PROVE  DrawnKept(db, to)
BY DEF DrawnKept

(* A step that draws no record anew and settles no row.                    *)
LEMMA OpenDrawnKept ==
  ASSUME NEW db, NEW to, Same(db, to), to.sync = db.sync,
         \A q \in DOMAIN db.rows : db.rows[q].state \in Open => to.rows[q].state \in Open
  PROVE  DrawnKept(db, to)
BY DEF DrawnKept, OpenRow, Same, SameRow

LEMMA KeptTrans ==
  ASSUME NEW db, NEW via, NEW to, NEW X, NEW Y, Y \subseteq DOMAIN db.rows,
         Kept(db, via, X, Y), Kept(via, to, X, Y)
  PROVE  Kept(db, to, X, Y)
<1>1. Same(db, to)
  BY SameTrans DEF Kept
<1>2. DOMAIN via.rows = DOMAIN db.rows
  BY DEF Kept, Same
<1>3. ASSUME NEW q \in DOMAIN db.rows
      PROVE  StateKept(db.rows[q].state, to.rows[q].state, q \in X, q \in Y)
  <2>1. /\ StateKept(db.rows[q].state, via.rows[q].state, q \in X, q \in Y)
        /\ StateKept(via.rows[q].state, to.rows[q].state, q \in X, q \in Y)
    BY <1>2 DEF Kept
  <2>2. QED
    BY <2>1 DEF StateKept, Open, Deleted
<1>4. \A q \in Y : via.rows[q].entity = db.rows[q].entity
  BY DEF Kept, Same, SameRow
<1>5. ASSUME NEW e \in Entities, to.sync[e] = "synced"
      PROVE  db.sync[e] = "synced" \/ \E q \in Y : db.rows[q].entity = e
  BY <1>4, <1>5 DEF Kept
<1>6. DrawnKept(db, to)
  BY DrawnTrans DEF Kept
<1>7. QED
  BY <1>1, <1>3, <1>5, <1>6 DEF Kept

LEMMA KeptMore ==
  ASSUME NEW db, NEW to, NEW X, NEW Y, Kept(db, to, {}, {})
  PROVE  Kept(db, to, X, Y)
BY DEF Kept, StateKept

(* A store whose open rows all had attempts left keeps them so, when a row *)
(* is opened only with its attempts counted from nothing.                  *)
Spared(db, to) ==
  \A q \in DOMAIN db.rows :
    to.rows[q].state \in Open =>
      \/ to.rows[q].attempts < MaxAttempts
      \/ db.rows[q].state \in Open /\ to.rows[q].attempts = db.rows[q].attempts

LEMMA StaysOK ==
  ASSUME NEW db, StoreOK(db), NEW to, Same(db, to), Spared(db, to)
  PROVE  StoreOK(to)
BY DEF StoreOK, Same, Spared

LEMMA MarkKept ==
  ASSUME NEW db \in Stores, NEW s \in States, NEW Q \in SUBSET DOMAIN db.rows, NEW X, NEW Y,
         \A q \in Q : StateKept(db.rows[q].state, s, q \in X, q \in Y),
         s = "synced" => Q \subseteq Y,
         \A q \in RowsIn(db, Open) : q \in Q \/ db.rows[q].attempts < MaxAttempts,
         s \in Open => \A q \in Q : db.rows[q].attempts < MaxAttempts,
         NEW to, to = Mark(db, Q, s)
  PROVE  StoreOK(to) /\ Kept(db, to, X, Y)
<1>2. Marked(db, to, Q, s)
  BY MarkDoes
<1>3. StoreOK(to)
  BY <1>2 DEF StoreOK, Marked, Same, RowsIn
<1>4. \A q \in DOMAIN db.rows : StateKept(db.rows[q].state, to.rows[q].state, q \in X, q \in Y)
  <2>1. ASSUME NEW q \in DOMAIN db.rows, q \notin Q
        PROVE  StateKept(db.rows[q].state, to.rows[q].state, q \in X, q \in Y)
    BY <1>2, <2>1 DEF Marked, StateKept, Deleted, Open
  <2>2. QED
    BY <1>2, <2>1 DEF Marked
<1>5. \A e \in Entities :
        to.sync[e] = "synced" => db.sync[e] = "synced" \/ \E q \in Y : db.rows[q].entity = e
  BY <1>2 DEF Marked
<1>6. DrawnKept(db, to)
  <2>1. ASSUME NEW e \in Entities, to.sync[e] = "queued",
               NEW q \in Q, db.rows[q].entity = e
        PROVE  OpenRow(to, q, e)
    BY <1>2, <2>1 DEF Marked, Same, SameRow, OpenRow, Open
  <2>2. ASSUME NEW e \in Entities, \A q \in Q : db.rows[q].entity # e
        PROVE  to.sync[e] = db.sync[e] /\ \A q : OpenRow(db, q, e) => OpenRow(to, q, e)
    BY <1>2, <2>2 DEF Marked, Same, SameRow, OpenRow
  <2>3. QED
    BY <2>1, <2>2 DEF DrawnKept
<1>7. QED
  BY <1>2, <1>3, <1>4, <1>5, <1>6 DEF Kept, Marked

LEMMA BlockDependentsKept ==
  ASSUME NEW db, StoreOK(db), NEW e, NEW to, to = BlockDependents(db, e)
  PROVE  StoreOK(to) /\ Kept(db, to, {}, {})
<1> DEFINE Q == Behind(db, e, {"queued", "syncing"})
<1>1. Q \in SUBSET DOMAIN db.rows /\ \A q \in Q : db.rows[q].state \in {"queued", "syncing"}
  BY DEF Behind, RowsIn
<1>2. to = Mark(db, Q, "blocked")
  BY DEF BlockDependents
<1> HIDE DEF Q
<1>3. \A q \in Q : db.rows[q].attempts < MaxAttempts /\ StateKept(db.rows[q].state, "blocked", q \in {}, q \in {})
  BY <1>1 DEF StateKept, Open, Deleted, StoreOK
<1>6. db \in Stores /\ \A q \in RowsIn(db, Open) : q \in Q \/ db.rows[q].attempts < MaxAttempts
  BY DEF StoreOK, RowsIn
<1>4. "blocked" \in States /\ "blocked" # "synced"
  BY DEF States
<1>5. QED
  BY <1>1, <1>2, <1>3, <1>4, <1>6, MarkKept

LEMMA MarkDeadKept ==
  ASSUME NEW db \in Stores, NEW q \in RowsIn(db, Open), NEW s \in {"rejected", "failed"},
         \A p \in RowsIn(db, Open) : p \in {q} \/ db.rows[p].attempts < MaxAttempts,
         NEW to, to = MarkDead(db, q, s)
  PROVE  StoreOK(to) /\ Kept(db, to, {q}, {})
<1> DEFINE marked == Mark(db, {q}, s)
<1>1. {q} \in SUBSET DOMAIN db.rows /\ db.rows[q].state \in Open
  BY DEF RowsIn
<1>2. s \in States /\ s # "synced" /\ s \notin Open
  BY DEF States, Open
<1>3. \A p \in {q} : StateKept(db.rows[p].state, s, p \in {q}, p \in {})
  BY <1>1 DEF StateKept, Open, Deleted
<1>4. StoreOK(marked) /\ Kept(db, marked, {q}, {})
  <2> HIDE DEF marked
  <2>1. marked = Mark(db, {q}, s)
    BY DEF marked
  <2>2. QED
    BY <1>1, <1>2, <1>3, <2>1, MarkKept
<1>5. to = IF db.rows[q].op = "create" THEN BlockDependents(marked, db.rows[q].entity) ELSE marked
  BY DEF MarkDead
<1> HIDE DEF marked
<1>6. CASE db.rows[q].op = "create"
  <2>1. StoreOK(to) /\ Kept(marked, to, {q}, {})
    BY <1>4, <1>5, <1>6, BlockDependentsKept, KeptMore
  <2>2. QED
    BY <1>4, <2>1, KeptTrans
<1>7. QED
  BY <1>4, <1>5, <1>6

LEMMA MarkSyncedKept ==
  ASSUME NEW db, StoreOK(db), NEW q \in RowsIn(db, Open), NEW to, to = MarkSynced(db, q)
  PROVE  StoreOK(to) /\ Kept(db, to, {q}, {q})
<1>1. {q} \in SUBSET DOMAIN db.rows /\ db.rows[q].state \in Open
  BY DEF RowsIn
<1>2. "synced" \in States /\ "synced" \notin Open
  BY DEF States, Open
<1>3. \A p \in {q} : StateKept(db.rows[p].state, "synced", p \in {q}, p \in {q})
  BY <1>1 DEF StateKept, Open, Deleted
<1>4. to = Mark(db, {q}, "synced")
  BY DEF MarkSynced
<1>6. db \in Stores /\ \A p \in RowsIn(db, Open) : p \in {q} \/ db.rows[p].attempts < MaxAttempts
  BY DEF StoreOK, RowsIn
<1>5. QED
  BY <1>1, <1>2, <1>3, <1>4, <1>6, MarkKept

LEMMA StateSetKept ==
  ASSUME NEW db, StoreOK(db), NEW s \in States \cup Deleted, NEW Q,
         \A q \in DOMAIN db.rows :
           q \in Q => /\ StateKept(db.rows[q].state, s, FALSE, FALSE)
                      /\ s \in Open => db.rows[q].state \in Open,
         NEW to, to = StateSet(db, Q, s)
  PROVE  StoreOK(to) /\ Kept(db, to, {}, {})
<1>1. StateTaken(db, to, Q, s)
  BY StateSetDoes DEF StoreOK
<1>2. Spared(db, to)
  BY <1>1 DEF Spared, StateTaken
<1>3. ASSUME NEW q \in DOMAIN db.rows
      PROVE  StateKept(db.rows[q].state, to.rows[q].state, q \in {}, q \in {})
  <2>1. CASE q \in Q
    BY <1>1, <2>1 DEF StateTaken, StateKept
  <2>2. CASE q \notin Q
    BY <1>1, <2>2 DEF StateTaken, StateKept, Deleted
  <2>3. QED
    BY <2>1, <2>2
<1>4. DrawnKept(db, to)
  BY <1>1, <1>3, OpenDrawnKept DEF StateTaken, StateKept
<1>5. QED
  BY <1>1, <1>2, <1>3, <1>4, StaysOK DEF Kept, StateTaken

LEMMA DueSetKept ==
  ASSUME NEW db, StoreOK(db), NEW Q, NEW b \in BOOLEAN, NEW to, to = DueSet(db, Q, b)
  PROVE  StoreOK(to) /\ Kept(db, to, {}, {})
<1>1. DueTaken(db, to)
  BY DueSetDoes DEF StoreOK
<1>2. Spared(db, to)
  BY <1>1 DEF Spared, DueTaken
<1>3. ASSUME NEW q \in DOMAIN db.rows
      PROVE  StateKept(db.rows[q].state, to.rows[q].state, q \in {}, q \in {})
  BY <1>1 DEF DueTaken, StateKept, Deleted
<1>4. DrawnKept(db, to)
  BY <1>1, OpenDrawnKept DEF DueTaken
<1>5. QED
  BY <1>1, <1>2, <1>3, <1>4, StaysOK DEF Kept, DueTaken

LEMMA MarkUnsentKept ==
  ASSUME NEW db, StoreOK(db), NEW q \in RowsIn(db, Open), NEW to, to = MarkUnsent(db, q)
  PROVE  StoreOK(to) /\ Kept(db, to, {}, {})
<1>1. q \in DOMAIN db.rows /\ db.rows[q].state \in Open
  BY DEF RowsIn
<1>2. to = StateSet(db, {q}, "queued")
  BY <1>1, OneIsASet DEF MarkUnsent, StoreOK
<1>3. "queued" \in States \cup Deleted
  BY DEF States
<1>4. \A p \in DOMAIN db.rows :
        p \in {q} => /\ StateKept(db.rows[p].state, "queued", FALSE, FALSE)
                     /\ "queued" \in Open => db.rows[p].state \in Open
  BY <1>1 DEF StateKept, Open, Deleted
<1>5. QED
  BY <1>2, <1>3, <1>4, StateSetKept

LEMMA MarkSyncingKept ==
  ASSUME NEW db, StoreOK(db), NEW Q, Q \subseteq RowsIn(db, Open), NEW to, to = MarkSyncing(db, Q)
  PROVE  StoreOK(to) /\ Kept(db, to, {}, {})
<1>1. to = StateSet(db, Q, "syncing")
  BY DEF MarkSyncing, StateSet
<1>2. "syncing" \in States \cup Deleted
  BY DEF States
<1>3. \A p \in DOMAIN db.rows :
        p \in Q => /\ StateKept(db.rows[p].state, "syncing", FALSE, FALSE)
                   /\ "syncing" \in Open => db.rows[p].state \in Open
  BY DEF StateKept, Open, Deleted, RowsIn
<1>4. QED
  BY <1>1, <1>2, <1>3, StateSetKept

LEMMA PruneSyncedKept ==
  ASSUME NEW db, StoreOK(db), NEW cutoff, NEW to, to = PruneSynced(db, cutoff)
  PROVE  StoreOK(to) /\ Kept(db, to, {}, {})
<1> DEFINE Q == {q \in DOMAIN db.rows : db.rows[q].state = "synced" /\ q < cutoff}
<1>1. to = StateSet(db, Q, "pruned")
  BY DEF PruneSynced, StateSet
<1>2. "pruned" \in States \cup Deleted
  BY DEF Deleted
<1>3. \A p \in DOMAIN db.rows :
        p \in Q => /\ StateKept(db.rows[p].state, "pruned", FALSE, FALSE)
                   /\ "pruned" \in Open => db.rows[p].state \in Open
  BY DEF StateKept, Open, Deleted
<1> HIDE DEF Q
<1>4. QED
  BY <1>1, <1>2, <1>3, StateSetKept

LEMMA RecoverInterruptedKept ==
  ASSUME NEW db, StoreOK(db), NEW to, to = RecoverInterrupted(db)
  PROVE  StoreOK(to) /\ Kept(db, to, {}, {})
<1> DEFINE f == [q \in DOMAIN db.rows |->
                   IF db.rows[q].state = "syncing"
                   THEN [db.rows[q] EXCEPT !.state = "queued", !.due = TRUE] ELSE db.rows[q]]
<1>1. to = [db EXCEPT !.rows = f]
  BY DEF RecoverInterrupted
<1>2. ASSUME NEW q \in DOMAIN db.rows
      PROVE  /\ f[q] \in Row /\ SameRow(db.rows[q], f[q]) /\ f[q].attempts = db.rows[q].attempts
             /\ f[q].state = IF db.rows[q].state = "syncing" THEN "queued" ELSE db.rows[q].state
  <2>1. db.rows[q] \in Row
    BY RowsOf
  <2>2. CASE db.rows[q].state = "syncing"
    <3>1. PICK t : t = [db.rows[q] EXCEPT !.state = "queued"]
      OBVIOUS
    <3>2. f[q] = [t EXCEPT !.due = TRUE]
      BY <2>2, <3>1
    <3> HIDE DEF f
    <3>3. "queued" \in States \cup Deleted /\ TRUE \in BOOLEAN
      BY DEF States
    <3>4. t \in Row /\ SameRow(db.rows[q], t) /\ t.state = "queued" /\ t.attempts = db.rows[q].attempts
      BY <2>1, <3>1, <3>3, StateTo
    <3>5. f[q] \in Row /\ SameRow(t, f[q]) /\ f[q].state = t.state /\ f[q].attempts = t.attempts
      BY <3>2, <3>3, <3>4, DueTo
    <3>6. QED
      BY <2>2, <3>4, <3>5 DEF SameRow
  <2>3. CASE db.rows[q].state # "syncing"
    <3>1. f[q] = db.rows[q]
      BY <2>3
    <3> HIDE DEF f
    <3>2. QED
      BY <2>1, <2>3, <3>1 DEF SameRow
  <2>4. QED
    BY <2>2, <2>3
<1>3. DOMAIN f = DOMAIN db.rows /\ f = [q \in DOMAIN f |-> f[q]]
  OBVIOUS
<1> HIDE DEF f
<1>4. Rework(db, f, db.sync, to)
  BY <1>1, <1>2, <1>3, RowsOf DEF Rework
<1>5. Same(db, to) /\ to.rows = f /\ to.sync = db.sync
  BY <1>4, Reworked DEF StoreOK
<1>6. Spared(db, to)
  BY <1>2, <1>5 DEF Spared, Open
<1>7. ASSUME NEW q \in DOMAIN db.rows
      PROVE  StateKept(db.rows[q].state, to.rows[q].state, q \in {}, q \in {})
  BY <1>2, <1>5 DEF StateKept, Deleted, Open
<1>8. DrawnKept(db, to)
  BY <1>5, <1>7, OpenDrawnKept DEF StateKept
<1>9. QED
  BY <1>5, <1>6, <1>7, <1>8, StaysOK DEF Kept

LEMMA RetriedKept ==
  ASSUME NEW db, StoreOK(db), NEW Q, Q \subseteq RowsIn(db, {"rejected", "failed", "blocked"}),
         NEW to, to = Retried(db, Q)
  PROVE  StoreOK(to) /\ Kept(db, to, {}, {})
<1> DEFINE B == UNION {Behind(db, db.rows[q].entity, {"blocked"}) : q \in Q}
           marked == Mark(db, Q \cup B, "queued")
           again == DueSet(marked, Q \cup B, TRUE)
<1>1. /\ Q \cup B \in SUBSET DOMAIN db.rows
      /\ \A q \in Q : db.rows[q].state \in {"rejected", "failed", "blocked"}
      /\ \A q \in B : db.rows[q].state = "blocked"
  BY DEF Behind, RowsIn
<1>2. to = AttemptsSet(again, Q, 0)
  BY DEF Retried, Requeue, AttemptsSet, DueSet
<1> HIDE DEF B
<1>3. Marked(db, marked, Q \cup B, "queued")
  <2>1. "queued" \in States /\ db \in Stores
    BY DEF States, StoreOK
  <2> HIDE DEF marked
  <2>2. marked = Mark(db, Q \cup B, "queued")
    BY DEF marked
  <2>3. QED
    BY <1>1, <2>1, <2>2, MarkDoes
<1>4. DueTaken(marked, again)
  <2>1. marked \in Stores
    BY <1>3 DEF Marked, Same
  <2> HIDE DEF marked
  <2>2. QED
    BY <2>1, DueSetDoes
<1>5. AttemptsTaken(again, to, Q, 0)
  <2> HIDE DEF again, marked
  <2>1. again \in Stores /\ 0 \in 0 .. MaxAttempts
    BY <1>4, BoundsAssumption DEF DueTaken, Same
  <2>2. QED
    BY <1>2, <2>1, AttemptsSetDoes
<1> HIDE DEF marked, again
<1>6. Same(db, to)
  <2>1. Same(db, marked) /\ Same(marked, again) /\ Same(again, to)
    BY <1>3, <1>4, <1>5 DEF Marked, DueTaken, AttemptsTaken
  <2>2. QED
    BY <2>1, SameTrans
<1>7. ASSUME NEW q \in DOMAIN db.rows
      PROVE  /\ to.rows[q].state = IF q \in Q \cup B THEN "queued" ELSE db.rows[q].state
             /\ to.rows[q].attempts = IF q \in Q THEN 0 ELSE db.rows[q].attempts
  <2>1. q \in DOMAIN marked.rows /\ q \in DOMAIN again.rows
    BY <1>3, <1>4 DEF Marked, DueTaken, Same
  <2>2. QED
    BY <1>3, <1>4, <1>5, <2>1 DEF Marked, DueTaken, AttemptsTaken
<1>8. Spared(db, to)
  <2>1. 0 < MaxAttempts
    BY BoundsAssumption
  <2>2. QED
    BY <1>1, <1>7, <2>1 DEF Spared, Open
<1>9. \A q \in DOMAIN db.rows : StateKept(db.rows[q].state, to.rows[q].state, q \in {}, q \in {})
  BY <1>1, <1>7 DEF StateKept, Deleted, Open
<1>10. \A e \in Entities : to.sync[e] = "synced" => db.sync[e] = "synced"
  BY <1>3, <1>4, <1>5 DEF Marked, DueTaken, AttemptsTaken
<1>11. DrawnKept(db, to)
  <2>1. to.sync = marked.sync
    BY <1>4, <1>5 DEF DueTaken, AttemptsTaken
  <2>2. ASSUME NEW e \in Entities, NEW q \in Q \cup B, db.rows[q].entity = e
        PROVE  OpenRow(to, q, e)
    BY <1>1, <1>6, <1>7, <2>2 DEF Same, SameRow, OpenRow, Open
  <2>3. ASSUME NEW e \in Entities, \A q \in Q \cup B : db.rows[q].entity # e
        PROVE  to.sync[e] = db.sync[e] /\ \A q : OpenRow(db, q, e) => OpenRow(to, q, e)
    BY <1>3, <1>6, <1>7, <2>1, <2>3 DEF Marked, Same, SameRow, OpenRow
  <2>4. QED
    BY <2>2, <2>3 DEF DrawnKept
<1>12. QED
  BY <1>6, <1>8, <1>9, <1>10, <1>11, StaysOK DEF Kept

LEMMA AutoRetryStuckKept ==
  ASSUME NEW db, StoreOK(db), NEW to, to = AutoRetryStuck(db)
  PROVE  StoreOK(to) /\ Kept(db, to, {}, {})
<1>1. to = Retried(db, Stuck(db)) /\ Stuck(db) \subseteq RowsIn(db, {"rejected", "failed", "blocked"})
  BY DEF AutoRetryStuck, Stuck, RowsIn
<1>2. QED
  BY <1>1, RetriedKept

LEMMA MarkRejectedKept ==
  ASSUME NEW db, StoreOK(db), NEW q \in RowsIn(db, Open), NEW to, to = MarkRejected(db, q)
  PROVE  StoreOK(to) /\ Kept(db, to, {q}, {})
<1>1. db \in Stores /\ \A p \in RowsIn(db, Open) : p \in {q} \/ db.rows[p].attempts < MaxAttempts
  BY DEF StoreOK, RowsIn
<1>2. to = MarkDead(db, q, "rejected")
  BY DEF MarkRejected
<1>3. QED
  BY <1>1, <1>2, MarkDeadKept

LEMMA MarkFailureKept ==
  ASSUME NEW db, StoreOK(db), NEW q \in RowsIn(db, Open), NEW a \in 0 .. MaxAttempts - 1,
         NEW to, to = MarkFailure(db, q, a)
  PROVE  StoreOK(to) /\ Kept(db, to, {q}, {})
<1> DEFINE counted == [db EXCEPT !.rows[q].attempts = a + 1]
<1>1. q \in DOMAIN db.rows /\ db.rows[q].state \in Open /\ db \in Stores
  BY DEF RowsIn, StoreOK
<1>2. a + 1 \in 0 .. MaxAttempts
  BY BoundsAssumption
<1>3. AttemptsTaken(db, counted, {q}, a + 1)
  <2>1. counted = AttemptsSet(db, {q}, a + 1)
    <3>1. PICK n : n = a + 1
      OBVIOUS
    <3>2. PICK x : x = [db EXCEPT !.rows[q].attempts = n]
      OBVIOUS
    <3>3. x = AttemptsSet(db, {q}, n)
      BY <1>1, <3>2, OneCounted
    <3>4. QED
      BY <3>1, <3>2, <3>3
  <2> HIDE DEF counted
  <2>2. QED
    BY <1>1, <1>2, <2>1, AttemptsSetDoes
<1>4. /\ counted \in Stores /\ q \in DOMAIN counted.rows
      /\ \A p \in DOMAIN db.rows : counted.rows[p].state = db.rows[p].state
  BY <1>1, <1>3 DEF AttemptsTaken, Same
<1>5. Kept(db, counted, {q}, {})
  <2>1. DrawnKept(db, counted)
    <3> HIDE DEF counted
    <3>1. QED
      BY <1>3, OpenDrawnKept DEF AttemptsTaken
  <2>2. QED
    BY <1>3, <2>1 DEF AttemptsTaken, Kept, StateKept, Deleted
<1>6. CASE a + 1 >= MaxAttempts
  <2>1. to = MarkDead(counted, q, "failed")
    BY <1>6 DEF MarkFailure
  <2>2. q \in RowsIn(counted, Open)
    BY <1>1, <1>4 DEF RowsIn
  <2>3. \A p \in RowsIn(counted, Open) : p \in {q} \/ counted.rows[p].attempts < MaxAttempts
    BY <1>3 DEF AttemptsTaken, Same, RowsIn, StoreOK
  <2> HIDE DEF counted
  <2>4. StoreOK(to) /\ Kept(counted, to, {q}, {})
    BY <1>4, <2>1, <2>2, <2>3, MarkDeadKept
  <2>5. QED
    BY <1>5, <2>4, KeptTrans
<1>7. CASE ~(a + 1 >= MaxAttempts)
  <2> DEFINE open == [counted EXCEPT !.rows[q].state = "queued"]
  <2>1. to = [open EXCEPT !.rows[q].due = FALSE]
    BY <1>7 DEF MarkFailure
  <2>2. a + 1 < MaxAttempts
    BY <1>2, <1>7, BoundsAssumption
  <2>3. StoreOK(counted)
    BY <1>3, <2>2 DEF AttemptsTaken, StoreOK, Same
  <2> HIDE DEF counted
  <2>4. StoreOK(open) /\ Kept(counted, open, {}, {})
    <3>1. q \in RowsIn(counted, Open) /\ open = MarkUnsent(counted, q)
      BY <1>1, <1>4 DEF RowsIn, MarkUnsent
    <3> HIDE DEF open
    <3>2. QED
      BY <2>3, <3>1, MarkUnsentKept
  <2> HIDE DEF open
  <2>5. q \in DOMAIN open.rows /\ open \in Stores
    BY <1>4, <2>4 DEF Kept, Same
  <2>6. StoreOK(to) /\ Kept(open, to, {}, {})
    <3>1. to = DueSet(open, {q}, FALSE)
      BY <2>1, <2>5, OneDue
    <3>2. QED
      BY <2>4, <3>1, DueSetKept
  <2>7. Kept(counted, open, {q}, {}) /\ Kept(open, to, {q}, {})
    BY <2>4, <2>6, KeptMore
  <2>8. Kept(db, open, {q}, {})
    BY <1>5, <2>7, KeptTrans
  <2>9. QED
    BY <2>6, <2>7, <2>8, KeptTrans
<1>8. QED
  BY <1>6, <1>7
-----------------------------------------------------------------------------
(* Saving and removing.                                                    *)
Written(db, to, a) ==
  /\ StoreOK(to) /\ to.rows = db.rows
  /\ \A e \in Entities : to.body[e] = IF e = a.entity THEN a.body ELSE db.body[e]
  /\ \A e \in Entities : to.sync[e] = IF e = a.entity THEN "queued" ELSE db.sync[e]

LEMMA WriteLocalDoes ==
  ASSUME NEW db, StoreOK(db), NEW a \in Act, NEW to, to = WriteLocal(db, a)
  PROVE  Written(db, to, a)
<1>1. a.entity \in Entities /\ a.body \in Bodies /\ "queued" \in States
  BY DEF Act, States
<1>2. /\ db.rows \in Seq(Row) /\ db.body \in [Entities -> Bodies \cup {None}]
      /\ db.sync \in [Entities -> States \cup {None}]
  BY RowsOf
<1> DEFINE b == [db.body EXCEPT ![a.entity] = a.body]
           s == [db.sync EXCEPT ![a.entity] = "queued"]
<1>3. to = [db EXCEPT !.body = b, !.sync = s]
  BY DEF WriteLocal, StoreOK, Stores
<1>4. b \in [Entities -> Bodies \cup {None}] /\ s \in [Entities -> States \cup {None}]
  BY <1>1, <1>2
<1>5. /\ \A e \in Entities : b[e] = IF e = a.entity THEN a.body ELSE db.body[e]
      /\ \A e \in Entities : s[e] = IF e = a.entity THEN "queued" ELSE db.sync[e]
  BY <1>2
<1> HIDE DEF b, s
<1>6. to \in Stores /\ to.rows = db.rows /\ to.body = b /\ to.sync = s
  BY <1>2, <1>3, <1>4 DEF StoreOK, Stores
<1>7. QED
  BY <1>5, <1>6 DEF Written, StoreOK

(* Queueing an act leaves what is there and adds one row of its own, or    *)
(* nothing.                                                                *)
Queued(db, to, a) ==
  /\ StoreOK(to) /\ to.body = db.body /\ to.sync = db.sync
  /\ Len(db.rows) \in Nat /\ DOMAIN db.rows = 1 .. Len(db.rows)
  /\ \A q \in DOMAIN db.rows : to.rows[q] = db.rows[q]
  /\ \/ DOMAIN to.rows = DOMAIN db.rows /\ Len(to.rows) = Len(db.rows)
     \/ /\ Len(to.rows) = Len(db.rows) + 1
        /\ DOMAIN to.rows = 1 .. Len(db.rows) + 1
        /\ to.rows[Len(db.rows) + 1].entity = a.entity
        /\ to.rows[Len(db.rows) + 1].op = a.op
        /\ to.rows[Len(db.rows) + 1].state = "queued"

LEMMA EnqueueDoes ==
  ASSUME NEW db, StoreOK(db), NEW a \in Act, NEW deps \in SUBSET Entities,
         NEW to, to = Enqueue(db, a, deps)
  PROVE  Queued(db, to, a)
<1> DEFINE row == [entity |-> a.entity, op |-> a.op, body |-> a.body, n |-> Number(db, a), deps |-> deps,
                   state |-> "queued", attempts |-> 0, due |-> TRUE]
           rows == Append(db.rows, row)
<1>1. /\ db.rows \in Seq(Row) /\ Len(db.rows) \in Nat /\ DOMAIN db.rows = 1 .. Len(db.rows)
      /\ db.body \in [Entities -> Bodies \cup {None}]
      /\ db.sync \in [Entities -> States \cup {None}]
  BY RowsOf
<1>2. Number(db, a) \in Nat
  <2>1. Base(db, a) \subseteq 1 .. Len(db.rows)
    BY <1>1 DEF Base, Live, RowsIn
  <2>2. IsFiniteSet(1 .. Len(db.rows))
    BY <1>1, FS_Interval
  <2>3. Cardinality(Base(db, a)) \in Nat
    BY <2>1, <2>2, FS_Subset, FS_CardinalityType
  <2>4. QED
    BY <2>3 DEF Number
<1>3. row \in Row /\ row.entity = a.entity /\ row.op = a.op /\ row.state = "queued" /\ row.attempts = 0
  BY <1>2, BoundsAssumption DEF Row, Act, States
<1>4. CASE to = db
  BY <1>1, <1>4 DEF Queued
<1>5. CASE to = [db EXCEPT !.rows = rows]
  <2> HIDE DEF row
  <2>1. /\ rows \in Seq(Row) /\ Len(rows) = Len(db.rows) + 1 /\ DOMAIN rows = 1 .. Len(db.rows) + 1
        /\ \A q \in DOMAIN db.rows : rows[q] = db.rows[q]
        /\ rows[Len(db.rows) + 1] = row
    BY <1>1, <1>3
  <2> HIDE DEF rows
  <2>2. to \in Stores /\ to.rows = rows /\ to.body = db.body /\ to.sync = db.sync
    BY <1>1, <1>5, <2>1 DEF StoreOK, Stores
  <2>3. \A q \in DOMAIN rows : q \in DOMAIN db.rows \/ q = Len(db.rows) + 1
    BY <1>1, <2>1
  <2>4. 0 < MaxAttempts
    BY BoundsAssumption
  <2>5. \A q \in DOMAIN rows : rows[q].state \in Open => rows[q].attempts < MaxAttempts
    BY <1>3, <2>1, <2>3, <2>4 DEF StoreOK
  <2>6. QED
    BY <1>1, <1>3, <2>1, <2>2, <2>5 DEF Queued, StoreOK
<1>6. QED
  BY <1>4, <1>5 DEF Enqueue

LEMMA SetOneRow ==
  ASSUME NEW db, StoreOK(db), NEW q \in DOMAIN db.rows, NEW gone,
         gone = [db EXCEPT !.rows[q].state = "discarded"]
  PROVE  StateTaken(db, gone, {q}, "discarded")
<1>1. db \in Stores /\ "discarded" \in States \cup Deleted
  BY DEF StoreOK, Deleted
<1>2. gone = StateSet(db, {q}, "discarded")
  BY <1>1, OneIsASet
<1>3. QED
  BY <1>1, <1>2, StateSetDoes

(* Removing row q: its state, and where it is a create its record.         *)
Removed(db, to, q) ==
  /\ StoreOK(to)
  /\ DOMAIN to.rows = DOMAIN db.rows
  /\ \A p \in DOMAIN db.rows :
       /\ SameRow(db.rows[p], to.rows[p])
       /\ to.rows[p].state = IF p = q THEN "discarded" ELSE db.rows[p].state
  /\ \A e \in Entities :
       \/ to.body[e] = db.body[e] /\ to.sync[e] = db.sync[e]
          /\ (e = db.rows[q].entity => db.rows[q].op # "create")
       \/ /\ e = db.rows[q].entity /\ db.rows[q].op = "create"
          /\ to.body[e] = None /\ to.sync[e] = None

LEMMA DiscardDoes ==
  ASSUME NEW db, StoreOK(db), NEW q \in DOMAIN db.rows, NEW to,
         to = LET r == db.rows[q]
                  gone == [db EXCEPT !.rows[q].state = "discarded"]
              IN IF r.op = "create"
                 THEN [gone EXCEPT !.body[r.entity] = None, !.sync[r.entity] = None]
                 ELSE gone
  PROVE  Removed(db, to, q)
<1>1. PICK gone : gone = [db EXCEPT !.rows[q].state = "discarded"]
  OBVIOUS
<1>2. StateTaken(db, gone, {q}, "discarded")
  BY <1>1, SetOneRow
<1>3. /\ gone \in Stores /\ DOMAIN gone.rows = DOMAIN db.rows
      /\ gone.body = db.body /\ gone.sync = db.sync
      /\ \A p \in DOMAIN db.rows :
           /\ SameRow(db.rows[p], gone.rows[p])
           /\ gone.rows[p].state = IF p = q THEN "discarded" ELSE db.rows[p].state
           /\ gone.rows[p].attempts = db.rows[p].attempts
  BY <1>2 DEF StateTaken, Same
<1>4. StoreOK(gone)
  BY <1>3 DEF StoreOK, Open
<1>5. CASE db.rows[q].op # "create"
  <2>1. to = gone
    BY <1>1, <1>5
  <2>2. QED
    BY <1>3, <1>4, <1>5, <2>1 DEF Removed
<1>6. CASE db.rows[q].op = "create"
  <2> DEFINE e == db.rows[q].entity
             b == [db.body EXCEPT ![e] = None]
             s == [db.sync EXCEPT ![e] = None]
  <2>1. /\ db.body \in [Entities -> Bodies \cup {None}]
        /\ db.sync \in [Entities -> States \cup {None}] /\ e \in Entities
    BY RowsOf
  <2>2. to = [gone EXCEPT !.body[e] = None, !.sync[e] = None]
    BY <1>1, <1>6
  <2>3. to = [gone EXCEPT !.body = b, !.sync = s]
    BY <1>3, <2>2 DEF Stores
  <2>4. b \in [Entities -> Bodies \cup {None}] /\ s \in [Entities -> States \cup {None}]
    BY <2>1
  <2>5. \A f \in Entities : IF f = e THEN b[f] = None /\ s[f] = None
                                     ELSE b[f] = db.body[f] /\ s[f] = db.sync[f]
    BY <2>1
  <2> HIDE DEF b, s
  <2>6. to \in Stores /\ to.rows = gone.rows /\ to.body = b /\ to.sync = s
    BY <1>3, <2>3, <2>4 DEF Stores
  <2>7. StoreOK(to)
    BY <1>4, <2>6 DEF StoreOK
  <2>8. /\ DOMAIN to.rows = DOMAIN db.rows
        /\ \A p \in DOMAIN db.rows :
             /\ SameRow(db.rows[p], to.rows[p])
             /\ to.rows[p].state = IF p = q THEN "discarded" ELSE db.rows[p].state
    BY <1>3, <2>6
  <2>9. \A f \in Entities : IF f = e THEN to.body[f] = None /\ to.sync[f] = None
                                     ELSE to.body[f] = db.body[f] /\ to.sync[f] = db.sync[f]
    BY <2>5, <2>6
  <2> HIDE DEF e
  <2>10. QED
    BY <1>6, <2>7, <2>8, <2>9 DEF Removed, e
<1>7. QED
  BY <1>5, <1>6

(***************************************************************************)
(* The invariant of the handset and the office, and the steps.             *)
(***************************************************************************)

(* The office's half of every step, whatever a handset sends.              *)
Ingest == INSTANCE OpenIngestProofs WITH Requests <- Seq(Item)

(* Of a store db and the rows `done` that the office has written: the row  *)
(* that a key names is one of them.                                        *)
Landed(db, done, key) == \E p \in done : KeyOf(db.rows[p]) = key

StoreInv ==
  /\ StoreOK(sqlite)
  /\ Len(sqlite.rows) <= MaxRows
  /\ saving \in Act \cup {None}
  /\ saving # None => Len(sqlite.rows) < MaxRows

(* A record has one row that creates it, and it is on the phone until that *)
(* row is removed.                                                         *)
CreatesInv ==
  /\ \A p, q \in DOMAIN sqlite.rows :
       /\ sqlite.rows[p].op = "create" /\ sqlite.rows[q].op = "create"
       /\ sqlite.rows[p].entity = sqlite.rows[q].entity
       => p = q
  /\ \A q \in DOMAIN sqlite.rows :
       sqlite.rows[q].op = "create" /\ sqlite.rows[q].state # "discarded"
         => sqlite.body[sqlite.rows[q].entity] # None
  /\ saving # None /\ saving.op = "create"
       => /\ sqlite.body[saving.entity] # None
          /\ \A q \in DOMAIN sqlite.rows : sqlite.rows[q].entity # saving.entity

(* What the phone and the receipts say has landed has.                     *)
LandedInv ==
  /\ landed \subseteq DOMAIN sqlite.rows
  /\ \A q \in DOMAIN sqlite.rows :
       sqlite.rows[q].state \in {"synced", "pruned"}
         => sqlite.rows[q].entity \in held /\ Landed(sqlite, landed, KeyOf(sqlite.rows[q]))
  /\ \A e \in held :
       \E p \in landed : sqlite.rows[p].op = "create" /\ sqlite.rows[p].entity = e
  /\ \A key \in accepted : Landed(sqlite, landed, key)
  /\ \A e \in Entities : sqlite.sync[e] = "synced" => e \in held

(* An item on its way is a row's.                                          *)
ItemOK(db, item) ==
  /\ item.row \in DOMAIN db.rows
  /\ item.key = KeyOf(db.rows[item.row]) /\ item.deps = db.rows[item.row].deps

(* A connection carries such items, has written the row whose acceptance   *)
(* it is about to store, and is about the batch of the pass that waits.    *)
Carries(db, done, k) ==
  /\ \A i \in DOMAIN k.items : ItemOK(db, k.items[i])
  /\ k.phase = "storing" /\ k.verdict = "accepted" => Landed(db, done, k.items[k.at].key)

Matches(k, sent) ==
  k.phase # "idle" =>
    /\ Len(k.items) = Len(sent)
    /\ \A i \in DOMAIN sent : k.items[i].row = sent[i].row

ConnOK(c) == Carries(sqlite, landed, conns[c]) /\ (waitingOn = c => Matches(conns[c], batch))

(* A row the pass has in hand is one no answer has settled yet.            *)
InHand(db, t) ==
  t.row \in DOMAIN db.rows /\ db.rows[t.row].state \in Open /\ t.attempts \in 0 .. MaxAttempts - 1

Settles(db, done, there, t) ==
  t.outcome = "accepted"
    => db.rows[t.row].entity \in there /\ Landed(db, done, KeyOf(db.rows[t.row]))

Outcomes == Verdicts \cup {"lost", "unauthorised"}
Sendings == [row : Nat, attempts : Nat]
Settlings == [row : Nat, attempts : Nat, outcome : Outcomes]

PassInv ==
  /\ signedIn \in BOOLEAN /\ waitingOn \in Conns \cup {None}
  /\ batch \in Seq(Sendings) /\ todo \in Seq(Settlings)
  /\ \A i \in DOMAIN batch : InHand(sqlite, batch[i])
  /\ \A i, j \in DOMAIN batch : batch[i].row = batch[j].row => i = j
  /\ \A i \in DOMAIN todo : InHand(sqlite, todo[i]) /\ Settles(sqlite, landed, held, todo[i])
  /\ \A i, j \in DOMAIN todo : todo[i].row = todo[j].row => i = j
  /\ waitingOn = None => batch = <<>>
  /\ waitingOn # None => todo = <<>>

PhoneInv == StoreInv /\ CreatesInv /\ LandedInv /\ PassInv /\ \A c \in Conns : ConnOK(c)

Inv == PhoneInv /\ Ingest!Inv
-----------------------------------------------------------------------------
LEMMA IngestAssumptions ==
  Ingest!NoneAssumption /\ Ingest!UpsertsAssumption /\ Ingest!RequestsAssumption
<1>1. Ingest!NoneAssumption
  BY NoneAssumption DEF Ingest!NoneAssumption
<1>2. Ingest!UpsertsAssumption
  BY UpsertsAssumption DEF Ingest!UpsertsAssumption
<1>3. Ingest!RequestsAssumption
  BY DEF Ingest!RequestsAssumption, Item, Ingest!Item, Key, Ingest!Key, Ops, Ingest!Ops
<1>4. QED
  BY <1>1, <1>2, <1>3

LEMMA IngestStep == Ingest!Inv /\ [Ingest!Next]_(Ingest!officeVars) => Ingest!Inv'
BY Ingest!StepInv, IngestAssumptions

LEMMA IngestSays ==
  ASSUME Ingest!Inv
  PROVE  /\ \A c \in Conns :
              /\ conns[c].phase \in Phases
              /\ conns[c].items \in Seq(Item) /\ conns[c].results \in Seq(Verdicts)
              /\ conns[c].phase \in {"judging", "writing", "storing"}
                   => conns[c].at \in DOMAIN conns[c].items
              /\ conns[c].phase = "answered" => Len(conns[c].results) = Len(conns[c].items)
              /\ \A i \in DOMAIN conns[c].results :
                   conns[c].results[i] = "accepted" => conns[c].items[i].key \in accepted
         /\ conns \in [Conns -> Ingest!Conn]
         /\ accepted \subseteq Key /\ refused \subseteq Key /\ held \subseteq Entities
         /\ value \in [Entities -> Bodies \cup {None}]
         /\ parents \in [Entities -> SUBSET Entities]
         /\ \A key \in accepted : key.entity \in held
         /\ NoOrphans
<1>1. Ingest!TypeOK /\ Ingest!ReceiptMeansHeld /\ Ingest!NoOrphans /\ Ingest!AnswersAreOnRecord
  BY DEF Ingest!Inv
<1>2. ASSUME NEW c \in Conns
      PROVE  /\ conns[c].phase \in Phases
             /\ conns[c].items \in Seq(Item) /\ conns[c].results \in Seq(Verdicts)
             /\ conns[c].phase \in {"judging", "writing", "storing"}
                  => conns[c].at \in DOMAIN conns[c].items
             /\ conns[c].phase = "answered" => Len(conns[c].results) = Len(conns[c].items)
  <2>1. conns[c] \in Ingest!Conn
    BY <1>1 DEF Ingest!TypeOK
  <2>2. /\ conns[c].phase \in Phases
        /\ conns[c].items \in Seq(Item) /\ conns[c].results \in Seq(Verdicts)
    BY <2>1 DEF Ingest!Conn, Phases, Ingest!Phases, Item, Ingest!Item, Key, Ingest!Key,
                Ops, Ingest!Ops, Verdicts, Ingest!Verdicts
  <2>3. Ingest!ConnInv(c)
    BY DEF Ingest!Inv
  <2>4. QED
    BY <2>2, <2>3 DEF Ingest!ConnInv, Ingest!Underway
<1>3. QED
  BY <1>1, <1>2 DEF Ingest!TypeOK, Ingest!ReceiptMeansHeld, Ingest!NoOrphans, NoOrphans,
                    Ingest!AnswersAreOnRecord, Key, Ingest!Key, Ops, Ingest!Ops
-----------------------------------------------------------------------------
(* What survives a step: rows are never renamed, and what has landed has.  *)
Stays(db, to) ==
  /\ DOMAIN db.rows \subseteq DOMAIN to.rows
  /\ \A q \in DOMAIN db.rows : SameRow(db.rows[q], to.rows[q])

LEMMA LandedStays ==
  ASSUME NEW db, NEW to, Stays(db, to), NEW done, done \subseteq DOMAIN db.rows,
         NEW more, done \subseteq more, NEW key, Landed(db, done, key)
  PROVE  Landed(to, more, key)
<1>1. PICK p \in done : KeyOf(db.rows[p]) = key
  BY DEF Landed
<1>2. KeyOf(to.rows[p]) = KeyOf(db.rows[p])
  BY DEF Stays, SameRow, KeyOf
<1>3. QED
  BY <1>1, <1>2 DEF Landed

LEMMA CarriesStays ==
  ASSUME NEW db, NEW to, Stays(db, to), NEW done, done \subseteq DOMAIN db.rows,
         NEW more, done \subseteq more, NEW k, Carries(db, done, k)
  PROVE  Carries(to, more, k)
<1>1. ASSUME NEW item, ItemOK(db, item) PROVE ItemOK(to, item)
  BY <1>1 DEF ItemOK, Stays, SameRow, KeyOf
<1>2. QED
  BY <1>1, LandedStays DEF Carries

LEMMA SettlesStays ==
  ASSUME NEW db, NEW to, Stays(db, to), NEW done, done \subseteq DOMAIN db.rows,
         NEW more, done \subseteq more, NEW there, NEW moreThere, there \subseteq moreThere,
         NEW t, t.row \in DOMAIN db.rows, Settles(db, done, there, t)
  PROVE  Settles(to, more, moreThere, t)
<1>1. /\ KeyOf(to.rows[t.row]) = KeyOf(db.rows[t.row])
      /\ to.rows[t.row].entity = db.rows[t.row].entity
  BY DEF Stays, SameRow, KeyOf
<1>2. QED
  BY <1>1, LandedStays DEF Settles

LEMMA InHandStays ==
  ASSUME NEW db, NEW to, NEW X, NEW Y, Kept(db, to, X, Y), NEW t, InHand(db, t), t.row \notin X
  PROVE  InHand(to, t)
BY DEF InHand, Kept, Same, StateKept

(* A step that keeps the store, but for the rows X it settles, those of Y  *)
(* as synced.                                                              *)
LEMMA StoreStep ==
  ASSUME StoreInv, CreatesInv, LandedInv,
         NEW X, NEW Y, Y \subseteq DOMAIN sqlite.rows,
         StoreOK(sqlite'), Kept(sqlite, sqlite', X, Y),
         \A q \in Y : sqlite.rows[q].entity \in held /\ Landed(sqlite, landed, KeyOf(sqlite.rows[q])),
         saving' = saving, held' = held, landed' = landed, accepted' = accepted
  PROVE  StoreInv' /\ CreatesInv' /\ LandedInv' /\ Stays(sqlite, sqlite')
<1>1. /\ DOMAIN sqlite'.rows = DOMAIN sqlite.rows /\ sqlite'.body = sqlite.body
      /\ \A q \in DOMAIN sqlite.rows : SameRow(sqlite.rows[q], sqlite'.rows[q])
  BY DEF Kept, Same
<1>2. Stays(sqlite, sqlite')
  BY <1>1 DEF Stays
<1>3. StoreInv'
  <2>1. /\ DOMAIN sqlite.rows = 1 .. Len(sqlite.rows) /\ DOMAIN sqlite'.rows = 1 .. Len(sqlite'.rows)
        /\ Len(sqlite.rows) \in Nat /\ Len(sqlite'.rows) \in Nat
    BY RowsOf DEF StoreInv
  <2>2. Len(sqlite'.rows) = Len(sqlite.rows)
    BY <1>1, <2>1
  <2>3. QED
    BY <2>2 DEF StoreInv
<1>4. CreatesInv'
  <2>1. \A q \in DOMAIN sqlite.rows :
          sqlite'.rows[q].state # "discarded" => sqlite.rows[q].state # "discarded"
    BY DEF Kept, StateKept, Deleted
  <2>2. QED
    BY <1>1, <2>1 DEF CreatesInv, SameRow
<1>5. LandedInv'
  <2>1. landed \subseteq DOMAIN sqlite.rows /\ landed' \subseteq DOMAIN sqlite'.rows
    BY <1>1 DEF LandedInv
  <2>0. \A key : Landed(sqlite, landed, key) => Landed(sqlite', landed', key)
    BY <1>2, <2>1, LandedStays
  <2>2. ASSUME NEW q \in DOMAIN sqlite'.rows, sqlite'.rows[q].state \in {"synced", "pruned"}
        PROVE  sqlite'.rows[q].entity \in held' /\ Landed(sqlite', landed', KeyOf(sqlite'.rows[q]))
    <3>1. q \in DOMAIN sqlite.rows
      BY <1>1
    <3>2. sqlite.rows[q].state \in {"synced", "pruned"} \/ q \in Y
      BY <2>2, <3>1 DEF Kept, StateKept
    <3>3. sqlite.rows[q].entity \in held /\ Landed(sqlite, landed, KeyOf(sqlite.rows[q]))
      BY <3>1, <3>2 DEF LandedInv
    <3>4. sqlite'.rows[q].entity = sqlite.rows[q].entity /\ KeyOf(sqlite'.rows[q]) = KeyOf(sqlite.rows[q])
      BY <1>1, <3>1 DEF SameRow, KeyOf
    <3>5. QED
      BY <2>0, <3>3, <3>4
  <2>3. ASSUME NEW e \in held'
        PROVE  \E p \in landed' : sqlite'.rows[p].op = "create" /\ sqlite'.rows[p].entity = e
    <3>1. PICK p \in landed : sqlite.rows[p].op = "create" /\ sqlite.rows[p].entity = e
      BY DEF LandedInv
    <3>2. p \in DOMAIN sqlite.rows
      BY DEF LandedInv
    <3>3. QED
      BY <1>1, <3>1, <3>2 DEF SameRow
  <2>4. \A key \in accepted' : Landed(sqlite', landed', key)
    BY <2>0 DEF LandedInv
  <2>5. ASSUME NEW e \in Entities, sqlite'.sync[e] = "synced"
        PROVE  e \in held'
    BY <2>5 DEF Kept, LandedInv
  <2>6. QED
    BY <2>1, <2>2, <2>3, <2>4, <2>5 DEF LandedInv
<1>6. QED
  BY <1>2, <1>3, <1>4, <1>5

(* The connections of a step that leaves them, and the batch, as they are. *)
LEMMA ConnsStay ==
  ASSUME LandedInv, Stays(sqlite, sqlite'), landed \subseteq landed',
         \A c \in Conns : ConnOK(c), conns' = conns,
         \/ waitingOn' = waitingOn /\ batch' = batch
         \/ waitingOn' = None
  PROVE  \A c \in Conns : ConnOK(c)'
<1> SUFFICES ASSUME NEW c \in Conns PROVE ConnOK(c)'
  OBVIOUS
<1>1. landed \subseteq DOMAIN sqlite.rows /\ Carries(sqlite, landed, conns[c])
  BY DEF LandedInv, ConnOK
<1>2. Carries(sqlite', landed', conns[c])
  BY <1>1, CarriesStays
<1>3. waitingOn' = c => waitingOn = c /\ batch' = batch
  BY ConnsAssumption
<1>4. waitingOn' = c => Matches(conns[c], batch')
  BY <1>3 DEF ConnOK
<1>5. QED
  BY <1>2, <1>4 DEF ConnOK

(* A step of the store alone, that settles nothing.                        *)
LEMMA QuietStep ==
  ASSUME PhoneInv, StoreOK(sqlite'), Kept(sqlite, sqlite', {}, {}), signedIn' \in BOOLEAN,
         UNCHANGED <<saving, waitingOn, batch, todo, officeVars>>
  PROVE  PhoneInv'
<1>1. StoreInv /\ CreatesInv /\ LandedInv /\ PassInv /\ \A c \in Conns : ConnOK(c)
  BY DEF PhoneInv
<1>2. /\ saving' = saving /\ waitingOn' = waitingOn /\ batch' = batch /\ todo' = todo
      /\ conns' = conns /\ held' = held /\ landed' = landed /\ accepted' = accepted
  BY DEF officeVars, ledger, tables, history
<1>3. StoreInv' /\ CreatesInv' /\ LandedInv' /\ Stays(sqlite, sqlite')
  BY <1>1, <1>2, StoreStep
<1>4. PassInv'
  <2>1. ASSUME NEW i \in DOMAIN batch PROVE InHand(sqlite', batch[i])
    BY <1>1, InHandStays DEF PassInv
  <2>2. ASSUME NEW i \in DOMAIN todo PROVE InHand(sqlite', todo[i]) /\ Settles(sqlite', landed, held, todo[i])
    <3>1. /\ InHand(sqlite, todo[i]) /\ Settles(sqlite, landed, held, todo[i])
          /\ landed \subseteq DOMAIN sqlite.rows
      BY <1>1 DEF PassInv, LandedInv
    <3>2. todo[i].row \in DOMAIN sqlite.rows
      BY <3>1 DEF InHand
    <3>3. QED
      BY <1>3, <3>1, <3>2, InHandStays, SettlesStays
  <2>3. QED
    BY <1>1, <1>2, <2>1, <2>2 DEF PassInv
<1>5. \A c \in Conns : ConnOK(c)'
  BY <1>1, <1>2, <1>3, ConnsStay
<1>6. QED
  BY <1>3, <1>4, <1>5 DEF PhoneInv

LEMMA ClockKeeps ==
  ASSUME PhoneInv, NEW q \in DOMAIN sqlite.rows, AtRest(BackoffEnds(q))
  PROVE  PhoneInv' /\ Kept(sqlite, sqlite', {}, {})
<1>1. StoreOK(sqlite) /\ sqlite \in Stores /\ signedIn \in BOOLEAN
  BY DEF PhoneInv, StoreInv, PassInv, StoreOK
<1>2. sqlite' = [sqlite EXCEPT !.rows[q].due = TRUE]
  BY DEF AtRest, BackoffEnds
<1>3. sqlite' = DueSet(sqlite, {q}, TRUE)
  BY <1>1, <1>2, OneDue
<1>4. StoreOK(sqlite') /\ Kept(sqlite, sqlite', {}, {})
  BY <1>1, <1>3, DueSetKept
<1>5. QED
  BY <1>1, <1>4, QuietStep DEF AtRest, BackoffEnds

LEMMA RetryKeeps ==
  ASSUME PhoneInv, NEW q \in DOMAIN sqlite.rows, AtRest(Retry(q))
  PROVE  PhoneInv' /\ Kept(sqlite, sqlite', {}, {})
<1>1. StoreOK(sqlite) /\ signedIn \in BOOLEAN
  BY DEF PhoneInv, StoreInv, PassInv
<1>2. sqlite' = Retried(sqlite, {q}) /\ {q} \subseteq RowsIn(sqlite, {"rejected", "failed", "blocked"})
  BY DEF AtRest, Retry, RowsIn
<1>3. StoreOK(sqlite') /\ Kept(sqlite, sqlite', {}, {})
  BY <1>1, <1>2, RetriedKept
<1>4. QED
  BY <1>1, <1>3, QuietStep DEF AtRest, Retry

LEMMA SignInKeeps ==
  ASSUME PhoneInv, SignIn
  PROVE  PhoneInv' /\ Kept(sqlite, sqlite', {}, {})
<1>1. StoreOK(sqlite)
  BY DEF PhoneInv, StoreInv
<1> DEFINE Q == RowsIn(sqlite, {"failed", "blocked"})
<1>2. sqlite' = Retried(sqlite, Q) /\ Q \subseteq RowsIn(sqlite, {"rejected", "failed", "blocked"})
  BY DEF SignIn, RowsIn
<1>3. StoreOK(sqlite') /\ Kept(sqlite, sqlite', {}, {})
  <2> HIDE DEF Q
  <2>1. QED
    BY <1>1, <1>2, RetriedKept
<1>4. QED
  BY <1>3, QuietStep DEF SignIn

(* What settling the first row of the answer does to the store: that row   *)
(* may end, and as synced only when the office took it.                    *)
LEMMA SettleDoes ==
  ASSUME PhoneInv, Settle
  PROVE  \E Y \in SUBSET {Head(todo).row} :
           /\ StoreOK(sqlite') /\ Kept(sqlite, sqlite', {Head(todo).row}, Y)
           /\ Y # {} => Head(todo).outcome = "accepted"
<1> DEFINE t == Head(todo)
<1>1. StoreOK(sqlite) /\ InHand(sqlite, t)
  <2>1. todo \in Seq(Settlings) /\ todo # <<>>
    BY DEF PhoneInv, PassInv, Settle
  <2>2. 1 \in DOMAIN todo /\ t = todo[1]
    BY <2>1
  <2>3. QED
    BY <2>2 DEF PhoneInv, PassInv, StoreInv
<1>2. t.row \in RowsIn(sqlite, Open) /\ t.attempts \in 0 .. MaxAttempts - 1
  BY <1>1 DEF InHand, RowsIn
<1>3. sqlite' = CASE t.outcome = "accepted" -> MarkSynced(sqlite, t.row)
                  [] t.outcome = "rejected" -> MarkRejected(sqlite, t.row)
                  [] t.outcome = "unauthorised" -> MarkUnsent(sqlite, t.row)
                  [] OTHER -> MarkFailure(sqlite, t.row, t.attempts)
  BY DEF Settle
<1> HIDE DEF t
<1>4. CASE t.outcome = "accepted"
  <2>1. sqlite' = MarkSynced(sqlite, t.row)
    BY <1>3, <1>4
  <2>2. StoreOK(sqlite') /\ Kept(sqlite, sqlite', {t.row}, {t.row})
    BY <1>1, <1>2, <2>1, MarkSyncedKept
  <2>3. QED
    BY <1>4, <2>2 DEF t
<1>5. CASE t.outcome = "rejected"
  <2>1. sqlite' = MarkRejected(sqlite, t.row)
    BY <1>3, <1>5
  <2>2. StoreOK(sqlite') /\ Kept(sqlite, sqlite', {t.row}, {})
    BY <1>1, <1>2, <2>1, MarkRejectedKept
  <2>3. QED
    BY <2>2 DEF t
<1>6. CASE t.outcome = "unauthorised"
  <2>1. sqlite' = MarkUnsent(sqlite, t.row)
    BY <1>3, <1>6
  <2>2. StoreOK(sqlite') /\ Kept(sqlite, sqlite', {t.row}, {})
    BY <1>1, <1>2, <2>1, MarkUnsentKept, KeptMore
  <2>3. QED
    BY <2>2 DEF t
<1>7. CASE t.outcome \notin {"accepted", "rejected", "unauthorised"}
  <2>1. sqlite' = MarkFailure(sqlite, t.row, t.attempts)
    BY <1>3, <1>7
  <2>2. StoreOK(sqlite') /\ Kept(sqlite, sqlite', {t.row}, {})
    BY <1>1, <1>2, <2>1, MarkFailureKept
  <2>3. QED
    BY <2>2 DEF t
<1>8. QED
  BY <1>4, <1>5, <1>6, <1>7

LEMMA SettleKeeps ==
  ASSUME PhoneInv, Settle
  PROVE  PhoneInv'
<1> DEFINE t == Head(todo)
<1>1. StoreInv /\ CreatesInv /\ LandedInv /\ PassInv /\ \A c \in Conns : ConnOK(c)
  BY DEF PhoneInv
<1>2. PICK Y \in SUBSET {t.row} :
        /\ StoreOK(sqlite') /\ Kept(sqlite, sqlite', {t.row}, Y)
        /\ Y # {} => t.outcome = "accepted"
  BY SettleDoes
<1>3. /\ saving' = saving /\ signedIn' = signedIn /\ waitingOn' = waitingOn /\ batch' = batch
      /\ todo' = Tail(todo) /\ todo # <<>>
      /\ conns' = conns /\ held' = held /\ landed' = landed /\ accepted' = accepted
  BY DEF Settle, officeVars, ledger, tables, history
<1>4. /\ todo \in Seq(Settlings) /\ t = todo[1] /\ 1 \in DOMAIN todo /\ todo' \in Seq(Settlings)
      /\ \A i \in DOMAIN todo' : i + 1 \in DOMAIN todo /\ i + 1 # 1 /\ todo'[i] = todo[i + 1]
      /\ \A i \in DOMAIN todo' : i \in Nat
  <2>1. todo \in Seq(Settlings) /\ todo # <<>>
    BY <1>1, <1>3 DEF PassInv
  <2>2. QED
    BY <1>3, <2>1
<1>5. Settles(sqlite, landed, held, t) /\ InHand(sqlite, t)
  BY <1>1, <1>4 DEF PassInv
<1>6. StoreInv' /\ CreatesInv' /\ LandedInv' /\ Stays(sqlite, sqlite')
  <2>1. Y \subseteq DOMAIN sqlite.rows
    BY <1>5 DEF InHand
  <2>2. \A q \in Y : sqlite.rows[q].entity \in held /\ Landed(sqlite, landed, KeyOf(sqlite.rows[q]))
    BY <1>2, <1>5 DEF Settles
  <2> HIDE DEF t
  <2>3. QED
    BY <1>1, <1>2, <1>3, <2>1, <2>2, StoreStep
<1>7. waitingOn = None /\ batch = <<>>
  BY <1>1, <1>3 DEF PassInv
<1>8. PassInv'
  <2>1. ASSUME NEW i \in DOMAIN todo'
        PROVE  InHand(sqlite', todo'[i]) /\ Settles(sqlite', landed', held', todo'[i])
    <3>1. PICK u : u = todo[i + 1]
      OBVIOUS
    <3>2. /\ InHand(sqlite, u) /\ Settles(sqlite, landed, held, u)
          /\ landed \subseteq DOMAIN sqlite.rows
      BY <1>1, <1>4, <3>1 DEF PassInv, LandedInv
    <3>3. u.row # t.row
      BY <1>1, <1>4, <3>1 DEF PassInv
    <3>4. u.row \in DOMAIN sqlite.rows /\ u.row \notin {t.row}
      BY <3>2, <3>3 DEF InHand
    <3> HIDE DEF t
    <3>5. InHand(sqlite', u) /\ Settles(sqlite', landed, held, u)
      BY <1>2, <1>6, <3>2, <3>4, InHandStays, SettlesStays
    <3>6. QED
      BY <1>3, <1>4, <3>1, <3>5
  <2>2. \A i, j \in DOMAIN todo' : todo'[i].row = todo'[j].row => i = j
    <3>1. \A i, j \in DOMAIN todo : todo[i].row = todo[j].row => i = j
      BY <1>1 DEF PassInv
    <3>2. SUFFICES ASSUME NEW i \in DOMAIN todo', NEW j \in DOMAIN todo', todo'[i].row = todo'[j].row
                   PROVE  i = j
      OBVIOUS
    <3>3. /\ i \in Nat /\ j \in Nat /\ i + 1 \in DOMAIN todo /\ j + 1 \in DOMAIN todo
          /\ todo[i + 1].row = todo[j + 1].row
      BY <1>4, <3>2
    <3>4. i + 1 = j + 1
      BY <3>1, <3>3
    <3>5. QED
      BY <3>3, <3>4
  <2>3. DOMAIN batch' = {}
    BY <1>3, <1>7
  <2>4. QED
    BY <1>1, <1>3, <1>4, <1>7, <2>1, <2>2, <2>3 DEF PassInv
<1>9. \A c \in Conns : ConnOK(c)'
  BY <1>1, <1>3, <1>6, ConnsStay
<1>10. QED
  BY <1>6, <1>8, <1>9 DEF PhoneInv

LEMMA TidiedKept ==
  ASSUME StoreOK(sqlite), NEW auto \in BOOLEAN, NEW cutoff
  PROVE  StoreOK(Tidied(auto, cutoff)) /\ Kept(sqlite, Tidied(auto, cutoff), {}, {})
<1> DEFINE recovered == RecoverInterrupted(sqlite)
           again == IF auto THEN AutoRetryStuck(recovered) ELSE recovered
<1>1. StoreOK(recovered) /\ Kept(sqlite, recovered, {}, {})
  BY RecoverInterruptedKept
<1> HIDE DEF recovered
<1>2. StoreOK(again) /\ Kept(sqlite, again, {}, {})
  <2>1. CASE auto
    <3>1. StoreOK(again) /\ Kept(recovered, again, {}, {})
      BY <1>1, <2>1, AutoRetryStuckKept
    <3> HIDE DEF again
    <3>2. QED
      BY <1>1, <3>1, KeptTrans
  <2>2. CASE ~auto
    BY <1>1, <2>2
  <2>3. QED
    BY <2>1, <2>2
<1>3. Tidied(auto, cutoff) = PruneSynced(again, cutoff)
  BY DEF Tidied, recovered
<1> HIDE DEF again
<1>4. StoreOK(Tidied(auto, cutoff)) /\ Kept(again, Tidied(auto, cutoff), {}, {})
  BY <1>2, <1>3, PruneSyncedKept
<1>5. QED
  BY <1>2, <1>4, KeptTrans

(* What a pass that has something to send has in its request and in its    *)
(* batch, row by row.                                                      *)
Posts(c, items) ==
  /\ conns' = [conns EXCEPT ![c] = Carrying("travelling", items, 1)]
  /\ waitingOn' = c
  /\ items \in Seq(Item) /\ items # <<>>
  /\ batch' \in Seq(Sendings) /\ Len(items) = Len(batch')
  /\ \A i \in DOMAIN items : ItemOK(sqlite, items[i])
  /\ \A i \in DOMAIN batch' :
       /\ i \in DOMAIN items /\ items[i].row = batch'[i].row
       /\ InHand(sqlite', batch'[i])
       /\ sqlite'.rows[batch'[i].row].deps \cap DeadCreates(sqlite') = {}
  /\ \A i, j \in DOMAIN batch' : batch'[i].row = batch'[j].row => i = j

StoreTidied == StoreOK(sqlite') /\ Kept(sqlite, sqlite', {}, {})

LEMMA StartPassDoes ==
  ASSUME StoreOK(sqlite), NEW c \in Conns, NEW auto \in BOOLEAN, NEW cutoff, StartPass(c, auto, cutoff)
  PROVE  /\ StoreTidied
         /\ \/ UNCHANGED <<waitingOn, batch, conns>>
            \/ \E items : Posts(c, items)
<1> DEFINE tidy == Tidied(auto, cutoff)
           verdict == ReadyItems(tidy)
           blocked == {v.id : v \in ToSet(verdict.blocked)}
           ready == [i \in DOMAIN verdict.ready |-> verdict.ready[i].id]
           mid == Mark(tidy, blocked, "blocked")
           items == [i \in DOMAIN ready |-> ItemOf(ready[i])]
<1>1. StoreOK(tidy) /\ Kept(sqlite, tidy, {}, {})
  BY TidiedKept
<1>2. /\ sqlite' = MarkSyncing(mid, ToSet(ready))
      /\ \/ UNCHANGED <<waitingOn, batch, conns>>
         \/ /\ ready # <<>>
            /\ Submit(c, items)
            /\ batch' = [i \in DOMAIN ready |->
                           [row |-> ready[i], attempts |-> tidy.rows[ready[i]].attempts]]
            /\ waitingOn' = c
  BY DEF StartPass
<1> HIDE DEF tidy
<1>3. /\ Len(verdict.ready) \in Nat /\ DOMAIN verdict.ready = 1 .. Len(verdict.ready)
      /\ \A i \in DOMAIN verdict.ready :
           verdict.ready[i].id \in DueRows(tidy) /\ tidy.rows[verdict.ready[i].id].deps \cap DeadIds(tidy) = {}
      /\ \A i, j \in DOMAIN verdict.ready : verdict.ready[i].id = verdict.ready[j].id => i = j
      /\ \A w \in ToSet(verdict.blocked) : w.id \in DueRows(tidy)
  <2> HIDE DEF verdict
  <2>1. verdict = ReadyItems(tidy)
    BY DEF verdict
  <2>2. QED
    BY <1>1, <2>1, ReadyItemsAre
<1> DEFINE n == Len(verdict.ready)
<1>4. /\ n \in Nat /\ DOMAIN ready = 1 .. n
      /\ \A i \in 1 .. n : ready[i] \in DueRows(tidy) /\ tidy.rows[ready[i]].deps \cap DeadIds(tidy) = {}
      /\ \A i, j \in 1 .. n : ready[i] = ready[j] => i = j
      /\ blocked \subseteq DueRows(tidy)
  BY <1>3
<1> HIDE DEF verdict, n, ready, blocked
<1>5. \A q \in DueRows(tidy) :
        /\ q \in DOMAIN tidy.rows /\ q \in DOMAIN sqlite.rows /\ q \in Nat
        /\ tidy.rows[q].state = "queued" /\ tidy.rows[q].attempts \in 0 .. MaxAttempts - 1
  <2>1. DOMAIN tidy.rows = DOMAIN sqlite.rows
    BY <1>1 DEF Kept, Same
  <2>2. ASSUME NEW q \in DueRows(tidy)
        PROVE  q \in DOMAIN tidy.rows /\ tidy.rows[q].state = "queued"
    BY DEF DueRows, RowsIn
  <2>3. ASSUME NEW q \in DueRows(tidy)
        PROVE  tidy.rows[q].attempts \in 0 .. MaxAttempts /\ tidy.rows[q].attempts < MaxAttempts /\ q \in Nat
    BY <1>1, <2>2, RowsOf DEF StoreOK, Open
  <2>4. ASSUME NEW q \in DueRows(tidy)
        PROVE  tidy.rows[q].attempts \in 0 .. MaxAttempts - 1
    BY <2>3, BoundsAssumption
  <2>5. QED
    BY <2>1, <2>2, <2>3, <2>4
<1>6. StoreOK(mid) /\ Kept(tidy, mid, {}, {})
  <2>1. tidy \in Stores /\ "blocked" \in States /\ "blocked" # "synced"
    BY <1>1 DEF StoreOK, States
  <2>2. blocked \in SUBSET DOMAIN tidy.rows
    BY <1>4, <1>5
  <2>3. \A q \in blocked : StateKept(tidy.rows[q].state, "blocked", q \in {}, q \in {})
    BY <1>4, <1>5 DEF StateKept, Open, Deleted
  <2>4. /\ \A q \in RowsIn(tidy, Open) : q \in blocked \/ tidy.rows[q].attempts < MaxAttempts
        /\ \A q \in blocked : tidy.rows[q].attempts < MaxAttempts
    BY <1>1, <1>4, <1>5 DEF StoreOK, RowsIn, Open
  <2>5. QED
    BY <2>1, <2>2, <2>3, <2>4, MarkKept
<1> HIDE DEF mid
<1>7. StoreOK(sqlite') /\ Kept(mid, sqlite', {}, {})
  <2>1. ToSet(ready) \subseteq RowsIn(mid, Open)
    <3>1. ASSUME NEW i \in 1 .. n PROVE ready[i] \in DOMAIN mid.rows /\ mid.rows[ready[i]].state \in Open
      BY <1>4, <1>5, <1>6 DEF Kept, Same, StateKept, Open
    <3>2. QED
      BY <1>4, <3>1 DEF ToSet, RowsIn
  <2>2. QED
    BY <1>2, <1>6, <2>1, MarkSyncingKept
<1>8. Kept(tidy, sqlite', {}, {})
  BY <1>6, <1>7, KeptTrans
<1>9. StoreTidied
  BY <1>1, <1>7, <1>8, KeptTrans DEF StoreTidied
<1>10. ASSUME ready # <<>>, Submit(c, items), waitingOn' = c,
              batch' = [i \in DOMAIN ready |->
                          [row |-> ready[i], attempts |-> tidy.rows[ready[i]].attempts]]
       PROVE  Posts(c, items)
  <2>1. ASSUME NEW i \in 1 .. n
        PROVE  /\ items[i] \in Item /\ items[i].row = ready[i] /\ ItemOK(sqlite, items[i])
               /\ batch'[i] \in Sendings /\ batch'[i].row = ready[i]
               /\ InHand(sqlite', batch'[i])
               /\ sqlite'.rows[ready[i]].deps \cap DeadCreates(sqlite') = {}
    <3>1. PICK q : q = ready[i]
      OBVIOUS
    <3>2. /\ q \in DueRows(tidy) /\ tidy.rows[q].deps \cap DeadIds(tidy) = {}
      BY <1>4, <3>1
    <3>3. items[i] = ItemOf(q) /\ batch'[i] = [row |-> q, attempts |-> tidy.rows[q].attempts]
      BY <1>4, <1>10, <3>1
    <3>4. ItemOf(q) \in Item /\ ItemOf(q).row = q /\ ItemOK(sqlite, ItemOf(q))
      <4>1. q \in DOMAIN sqlite.rows /\ q \in Nat
        BY <1>5, <3>2
      <4>2. sqlite.rows[q].deps \in SUBSET Entities /\ KeyOf(sqlite.rows[q]) \in Key
        BY <4>1, RowsOf DEF KeyOf, Key
      <4>3. QED
        BY <4>1, <4>2 DEF ItemOf, Item, ItemOK
    <3>5. /\ q \in DOMAIN sqlite'.rows /\ sqlite'.rows[q].state \in Open
          /\ sqlite'.rows[q].deps = tidy.rows[q].deps
      BY <1>5, <1>8, <3>2 DEF Kept, Same, SameRow, StateKept, Open
    <3>6. DeadCreates(sqlite') \subseteq DeadIds(tidy)
      <4>1. ASSUME NEW p \in Stuck(sqlite'), sqlite'.rows[p].op = "create"
            PROVE  /\ p \in RowsIn(tidy, {"rejected", "failed", "blocked"}) /\ tidy.rows[p].op = "create"
                   /\ tidy.rows[p].entity = sqlite'.rows[p].entity
        BY <1>8, <4>1 DEF Kept, Same, SameRow, StateKept, Stuck, RowsIn
      <4>2. QED
        BY <4>1 DEF DeadCreates, DeadIds, EntitiesOf
    <3>7. /\ tidy.rows[q].attempts \in 0 .. MaxAttempts - 1 /\ tidy.rows[q].attempts \in Nat /\ q \in Nat
      BY <1>5, <3>2, BoundsAssumption
    <3>8. batch'[i] \in Sendings /\ batch'[i].row = q /\ InHand(sqlite', batch'[i])
      BY <3>3, <3>5, <3>7 DEF Sendings, InHand
    <3>9. QED
      BY <3>1, <3>2, <3>3, <3>4, <3>5, <3>6, <3>8
  <2>2. /\ DOMAIN items = 1 .. n /\ DOMAIN batch' = 1 .. n
        /\ items = [i \in 1 .. n |-> items[i]] /\ batch' = [i \in 1 .. n |-> batch'[i]]
    BY <1>4, <1>10
  <2>3. conns' = [conns EXCEPT ![c] = Carrying("travelling", items, 1)] /\ items # <<>>
    BY <1>10 DEF Submit
  <2> HIDE DEF items
  <2>4. items \in [1 .. n -> Item] /\ batch' \in [1 .. n -> Sendings]
    BY <2>1, <2>2
  <2>5. items \in Seq(Item) /\ batch' \in Seq(Sendings) /\ Len(items) = n /\ Len(batch') = n
    BY <1>4, <2>2, <2>4, SeqDef
  <2>6. \A i, j \in DOMAIN batch' : batch'[i].row = batch'[j].row => i = j
    BY <1>4, <2>1, <2>2
  <2>7. QED
    BY <1>10, <2>1, <2>2, <2>3, <2>5, <2>6 DEF Posts
<1>11. QED
  <2> HIDE DEF items
  <2>1. QED
    BY <1>2, <1>9, <1>10

LEMMA StartPassKeeps ==
  ASSUME PhoneInv, Ingest!Inv, NEW c \in Conns, NEW auto \in BOOLEAN, NEW cutoff, StartPass(c, auto, cutoff)
  PROVE  PhoneInv'
<1>1. StoreInv /\ CreatesInv /\ LandedInv /\ PassInv /\ \A d \in Conns : ConnOK(d)
  BY DEF PhoneInv
<1>2. StoreOK(sqlite') /\ Kept(sqlite, sqlite', {}, {})
  BY <1>1, StartPassDoes DEF StoreInv, StoreTidied
<1>3. /\ saving' = saving /\ signedIn' = signedIn /\ todo' = todo
      /\ held' = held /\ landed' = landed /\ accepted' = accepted
      /\ waitingOn = None /\ todo = <<>>
  BY DEF StartPass, Running, ledger, tables, history
<1>4. StoreInv' /\ CreatesInv' /\ LandedInv' /\ Stays(sqlite, sqlite')
  BY <1>1, <1>2, <1>3, StoreStep
<1>5. batch = <<>> /\ DOMAIN todo' = {}
  BY <1>1, <1>3 DEF PassInv
<1>6. CASE UNCHANGED <<waitingOn, batch, conns>>
  <2>1. waitingOn' = waitingOn /\ batch' = batch /\ conns' = conns /\ DOMAIN batch' = {}
    BY <1>5, <1>6
  <2>2. PassInv'
    BY <1>1, <1>3, <1>5, <2>1 DEF PassInv
  <2>3. \A d \in Conns : ConnOK(d)'
    BY <1>1, <1>3, <1>4, <2>1, ConnsStay
  <2>4. QED
    BY <1>4, <2>2, <2>3 DEF PhoneInv
<1>7. ASSUME NEW items, Posts(c, items)
      PROVE  PhoneInv'
  <2>1. PassInv'
    BY <1>1, <1>3, <1>5, <1>7, ConnsAssumption DEF PassInv, Posts
  <2> DEFINE k == Carrying("travelling", items, 1)
  <2>2. \A d \in Conns : conns'[d] = IF d = c THEN k ELSE conns[d]
    <3>1. conns \in [Conns -> Ingest!Conn]
      BY IngestSays
    <3>2. QED
      BY <1>7, <3>1 DEF Posts
  <2>3. k.items = items /\ k.phase = "travelling"
    BY DEF Carrying
  <2> HIDE DEF k
  <2>4. ASSUME NEW d \in Conns PROVE ConnOK(d)'
    <3>1. landed \subseteq DOMAIN sqlite.rows
      BY <1>1 DEF LandedInv
    <3>2. CASE d = c
      <4>1. Carries(sqlite, landed, k)
        BY <1>7, <2>3 DEF Carries, Posts
      <4>2. Carries(sqlite', landed', k)
        BY <1>3, <1>4, <3>1, <4>1, CarriesStays
      <4>3. Matches(k, batch')
        BY <1>7, <2>3 DEF Matches, Posts
      <4>4. QED
        BY <2>2, <3>2, <4>2, <4>3 DEF ConnOK
    <3>3. CASE d # c
      <4>1. conns'[d] = conns[d] /\ waitingOn' # d
        BY <1>7, <2>2, <3>3 DEF Posts
      <4>2. Carries(sqlite', landed', conns[d])
        BY <1>1, <1>3, <1>4, <3>1, CarriesStays DEF ConnOK
      <4>3. QED
        BY <4>1, <4>2 DEF ConnOK
    <3>4. QED
      BY <3>2, <3>3
  <2>5. QED
    BY <1>4, <2>1, <2>4 DEF PhoneInv
<1>8. QED
  BY <1>1, <1>6, <1>7, StartPassDoes DEF StoreInv

(* What a step that leaves the stores of both ends alone has to say of the *)
(* pass and the wire for the invariant to hold on.                         *)
LEMMA HandStep ==
  ASSUME PhoneInv, sqlite' = sqlite, held' = held, landed' = landed, accepted' = accepted,
         saving' = saving \/ saving' = None,
         \A c \in Conns : conns'[c] = conns[c] \/ conns'[c] = NoConn,
         waitingOn' = None, batch' = <<>>, signedIn' \in BOOLEAN,
         todo' \in Seq(Settlings),
         \A i \in DOMAIN todo' : InHand(sqlite, todo'[i]) /\ Settles(sqlite, landed, held, todo'[i]),
         \A i, j \in DOMAIN todo' : todo'[i].row = todo'[j].row => i = j
  PROVE  PhoneInv'
<1>1. StoreInv /\ CreatesInv /\ LandedInv /\ PassInv /\ \A c \in Conns : ConnOK(c)
  BY DEF PhoneInv
<1>2. StoreInv' /\ CreatesInv' /\ LandedInv'
  BY <1>1 DEF StoreInv, CreatesInv, LandedInv
<1>3. PassInv'
  <2>1. <<>> \in Seq(Sendings) /\ DOMAIN batch' = {}
    OBVIOUS
  <2>2. QED
    BY <2>1 DEF PassInv
<1>4. ASSUME NEW c \in Conns PROVE ConnOK(c)'
  <2>1. waitingOn' # c
    BY ConnsAssumption
  <2>2. Carries(sqlite, landed, conns[c])
    BY <1>1 DEF ConnOK
  <2>3. Carries(sqlite, landed, NoConn)
    BY DEF Carries, NoConn, Carrying
  <2>4. Carries(sqlite', landed', conns'[c])
    BY <2>2, <2>3
  <2>5. QED
    BY <2>1, <2>4 DEF ConnOK
<1>5. QED
  BY <1>2, <1>3, <1>4 DEF PhoneInv

LEMMA SettlingDoes ==
  ASSUME PassInv, NEW outcomes, Settling(outcomes),
         \A i \in DOMAIN batch :
           /\ outcomes[i] \in Outcomes
           /\ outcomes[i] = "accepted" =>
                /\ sqlite.rows[batch[i].row].entity \in held
                /\ Landed(sqlite, landed, KeyOf(sqlite.rows[batch[i].row]))
  PROVE  /\ waitingOn' = None /\ batch' = <<>> /\ todo' \in Seq(Settlings)
         /\ \A i \in DOMAIN todo' : InHand(sqlite, todo'[i]) /\ Settles(sqlite, landed, held, todo'[i])
         /\ \A i, j \in DOMAIN todo' : todo'[i].row = todo'[j].row => i = j
<1>1. /\ todo' = [i \in DOMAIN batch |->
                    [row |-> batch[i].row, attempts |-> batch[i].attempts, outcome |-> outcomes[i]]]
      /\ waitingOn' = None /\ batch' = <<>>
  BY DEF Settling
<1>2. batch \in Seq(Sendings) /\ Len(batch) \in Nat /\ DOMAIN batch = 1 .. Len(batch)
  BY DEF PassInv
<1>3. ASSUME NEW i \in DOMAIN batch
      PROVE  /\ todo'[i] \in Settlings /\ todo'[i].row = batch[i].row
             /\ InHand(sqlite, todo'[i]) /\ Settles(sqlite, landed, held, todo'[i])
  <2>1. batch[i] \in Sendings /\ InHand(sqlite, batch[i]) /\ outcomes[i] \in Outcomes
    BY <1>2 DEF PassInv
  <2>2. PICK t : t = [row |-> batch[i].row, attempts |-> batch[i].attempts, outcome |-> outcomes[i]]
    OBVIOUS
  <2>3. t \in Settlings /\ t.row = batch[i].row /\ InHand(sqlite, t) /\ Settles(sqlite, landed, held, t)
    BY <2>1, <2>2 DEF Sendings, Settlings, InHand, Settles
  <2>4. todo'[i] = t
    BY <1>1, <2>2
  <2>5. QED
    BY <2>3, <2>4
<1>4. DOMAIN todo' = DOMAIN batch /\ todo' = [i \in DOMAIN batch |-> todo'[i]]
  BY <1>1
<1>5. todo' \in Seq(Settlings)
  <2>1. todo' \in [1 .. Len(batch) -> Settlings]
    BY <1>2, <1>3, <1>4
  <2>2. QED
    BY <1>2, <2>1, SeqDef
<1>6. QED
  BY <1>1, <1>3, <1>4, <1>5 DEF PassInv

LEMMA ReceiveKeeps ==
  ASSUME PhoneInv, Ingest!Inv, NEW c \in Conns, Receive(c)
  PROVE  PhoneInv'
<1>1. PassInv /\ ConnOK(c)
  BY DEF PhoneInv
<1>2. ASSUME NEW i \in DOMAIN batch
      PROVE  /\ conns[c].results[i] \in Outcomes
             /\ conns[c].results[i] = "accepted" =>
                  /\ sqlite.rows[batch[i].row].entity \in held
                  /\ Landed(sqlite, landed, KeyOf(sqlite.rows[batch[i].row]))
  <2>1. /\ Len(conns[c].items) = Len(batch) /\ conns[c].items[i].row = batch[i].row
        /\ \A j \in DOMAIN conns[c].items : ItemOK(sqlite, conns[c].items[j])
    BY <1>1 DEF ConnOK, Carries, Matches, Receive
  <2>2. /\ conns[c].items \in Seq(Item) /\ conns[c].results \in Seq(Verdicts)
        /\ Len(conns[c].results) = Len(conns[c].items)
        /\ \A j \in DOMAIN conns[c].results :
             conns[c].results[j] = "accepted" => conns[c].items[j].key \in accepted
        /\ \A key \in accepted : key.entity \in held
    BY IngestSays DEF Receive
  <2>3. i \in DOMAIN conns[c].items /\ i \in DOMAIN conns[c].results /\ conns[c].results[i] \in Verdicts
    BY <1>1, <2>1, <2>2 DEF PassInv
  <2>4. conns[c].items[i].key = KeyOf(sqlite.rows[batch[i].row])
    BY <2>1, <2>3 DEF ItemOK
  <2>5. KeyOf(sqlite.rows[batch[i].row]).entity = sqlite.rows[batch[i].row].entity
    BY DEF KeyOf
  <2>6. QED
    BY <2>2, <2>3, <2>4, <2>5 DEF Outcomes, PhoneInv, LandedInv
<1>3. Settling(conns[c].results)
  BY DEF Receive
<1>4. PICK outcomes : outcomes = conns[c].results
  OBVIOUS
<1>5. /\ waitingOn' = None /\ batch' = <<>> /\ todo' \in Seq(Settlings)
      /\ \A i \in DOMAIN todo' : InHand(sqlite, todo'[i]) /\ Settles(sqlite, landed, held, todo'[i])
      /\ \A i, j \in DOMAIN todo' : todo'[i].row = todo'[j].row => i = j
  BY <1>1, <1>2, <1>3, SettlingDoes
<1>6. \A d \in Conns : conns'[d] = conns[d] \/ conns'[d] = NoConn
  <2>1. conns \in [Conns -> Ingest!Conn]
    BY IngestSays
  <2>2. QED
    BY <2>1 DEF Receive
<1>7. /\ sqlite' = sqlite /\ held' = held /\ landed' = landed /\ accepted' = accepted
      /\ saving' = saving /\ signedIn' = signedIn
  BY DEF Receive, ledger, tables, history
<1>8. QED
  BY <1>1, <1>5, <1>6, <1>7, HandStep DEF PassInv

LEMMA GiveUpKeeps ==
  ASSUME PhoneInv, GiveUp
  PROVE  PhoneInv'
<1>1. PassInv /\ Settling([i \in DOMAIN batch |-> "lost"])
  BY DEF PhoneInv, GiveUp
<1>2. PICK outcomes : outcomes = [i \in DOMAIN batch |-> "lost"]
  OBVIOUS
<1>3. Settling(outcomes) /\ \A i \in DOMAIN batch : outcomes[i] \in Outcomes /\ outcomes[i] # "accepted"
  BY <1>1, <1>2 DEF Outcomes
<1>4. /\ waitingOn' = None /\ batch' = <<>> /\ todo' \in Seq(Settlings)
      /\ \A i \in DOMAIN todo' : InHand(sqlite, todo'[i]) /\ Settles(sqlite, landed, held, todo'[i])
      /\ \A i, j \in DOMAIN todo' : todo'[i].row = todo'[j].row => i = j
  BY <1>1, <1>3, SettlingDoes
<1>5. /\ sqlite' = sqlite /\ held' = held /\ landed' = landed /\ accepted' = accepted
      /\ saving' = saving /\ signedIn' = signedIn /\ conns' = conns
  BY DEF GiveUp, officeVars, ledger, tables, history
<1>6. QED
  BY <1>1, <1>4, <1>5, HandStep DEF PassInv

LEMMA UnauthorisedKeeps ==
  ASSUME PhoneInv, Ingest!Inv, NEW c \in Conns, Unauthorised(c)
  PROVE  PhoneInv'
<1>1. PassInv /\ Settling([i \in DOMAIN batch |-> "unauthorised"])
  BY DEF PhoneInv, Unauthorised
<1>2. PICK outcomes : outcomes = [i \in DOMAIN batch |-> "unauthorised"]
  OBVIOUS
<1>3. Settling(outcomes) /\ \A i \in DOMAIN batch : outcomes[i] \in Outcomes /\ outcomes[i] # "accepted"
  BY <1>1, <1>2 DEF Outcomes
<1>4. /\ waitingOn' = None /\ batch' = <<>> /\ todo' \in Seq(Settlings)
      /\ \A i \in DOMAIN todo' : InHand(sqlite, todo'[i]) /\ Settles(sqlite, landed, held, todo'[i])
      /\ \A i, j \in DOMAIN todo' : todo'[i].row = todo'[j].row => i = j
  BY <1>1, <1>3, SettlingDoes
<1>5. \A d \in Conns : conns'[d] = conns[d] \/ conns'[d] = NoConn
  <2>1. conns \in [Conns -> Ingest!Conn]
    BY IngestSays
  <2>2. QED
    BY <2>1 DEF Unauthorised
<1>6. /\ sqlite' = sqlite /\ held' = held /\ landed' = landed /\ accepted' = accepted
      /\ saving' = saving /\ signedIn' = FALSE
  BY DEF Unauthorised, ledger, tables, history
<1>7. QED
  BY <1>4, <1>5, <1>6, HandStep

LEMMA KillKeeps ==
  ASSUME PhoneInv, Kill
  PROVE  PhoneInv'
<1>1. /\ sqlite' = sqlite /\ held' = held /\ landed' = landed /\ accepted' = accepted
      /\ saving' = None /\ signedIn' = signedIn /\ conns' = conns
      /\ waitingOn' = None /\ batch' = <<>> /\ todo' = <<>>
  BY DEF Kill, officeVars, ledger, tables, history
<1>2. <<>> \in Seq(Settlings) /\ DOMAIN todo' = {} /\ signedIn \in BOOLEAN
  BY <1>1 DEF PhoneInv, PassInv
<1>3. QED
  BY <1>1, <1>2, HandStep

(* What the salesman's hand does to the outbox: rows that were open stay   *)
(* so, no row becomes synced, and there may be new ones.                   *)
Edited(db, to) ==
  /\ Stays(db, to)
  /\ \A q \in DOMAIN db.rows : db.rows[q].state \in Open => to.rows[q].state \in Open
  /\ \A q \in DOMAIN to.rows :
       to.rows[q].state \in {"synced", "pruned"}
         => q \in DOMAIN db.rows /\ to.rows[q].state = db.rows[q].state
  /\ \A q \in DOMAIN db.rows :
       db.rows[q].state \in {"synced", "pruned"} => to.rows[q].state = db.rows[q].state
  /\ \A e \in Entities : to.sync[e] = "synced" => db.sync[e] = "synced"

LEMMA EditStep ==
  ASSUME PhoneInv, StoreInv', CreatesInv', Edited(sqlite, sqlite'),
         UNCHANGED <<signedIn, waitingOn, batch, todo, officeVars>>
  PROVE  PhoneInv'
<1>1. StoreInv /\ CreatesInv /\ LandedInv /\ PassInv /\ \A c \in Conns : ConnOK(c)
  BY DEF PhoneInv
<1>2. /\ signedIn' = signedIn /\ waitingOn' = waitingOn /\ batch' = batch /\ todo' = todo
      /\ conns' = conns /\ held' = held /\ landed' = landed /\ accepted' = accepted
  BY DEF officeVars, ledger, tables, history
<1>3. Stays(sqlite, sqlite') /\ landed \subseteq DOMAIN sqlite.rows
  BY <1>1 DEF Edited, LandedInv
<1>4. \A key : Landed(sqlite, landed, key) => Landed(sqlite', landed', key)
  BY <1>2, <1>3, LandedStays
<1>5. LandedInv'
  <2>1. landed' \subseteq DOMAIN sqlite'.rows
    BY <1>2, <1>3 DEF Stays
  <2>2. ASSUME NEW q \in DOMAIN sqlite'.rows, sqlite'.rows[q].state \in {"synced", "pruned"}
        PROVE  sqlite'.rows[q].entity \in held' /\ Landed(sqlite', landed', KeyOf(sqlite'.rows[q]))
    <3>1. q \in DOMAIN sqlite.rows /\ sqlite.rows[q].state \in {"synced", "pruned"}
      BY <2>2 DEF Edited
    <3>2. sqlite.rows[q].entity \in held /\ Landed(sqlite, landed, KeyOf(sqlite.rows[q]))
      BY <1>1, <3>1 DEF LandedInv
    <3>3. sqlite'.rows[q].entity = sqlite.rows[q].entity /\ KeyOf(sqlite'.rows[q]) = KeyOf(sqlite.rows[q])
      BY <1>3, <3>1 DEF Stays, SameRow, KeyOf
    <3>4. QED
      BY <1>2, <1>4, <3>2, <3>3
  <2>3. ASSUME NEW e \in held'
        PROVE  \E p \in landed' : sqlite'.rows[p].op = "create" /\ sqlite'.rows[p].entity = e
    <3>1. PICK p \in landed : sqlite.rows[p].op = "create" /\ sqlite.rows[p].entity = e
      BY <1>1, <1>2 DEF LandedInv
    <3>2. QED
      BY <1>2, <1>3, <3>1 DEF Stays, SameRow
  <2>4. \A key \in accepted' : Landed(sqlite', landed', key)
    BY <1>1, <1>2, <1>4 DEF LandedInv
  <2>5. ASSUME NEW e \in Entities, sqlite'.sync[e] = "synced"
        PROVE  e \in held'
    BY <1>1, <1>2, <2>5 DEF LandedInv, Edited
  <2>6. QED
    BY <2>1, <2>2, <2>3, <2>4, <2>5 DEF LandedInv
<1>6. PassInv'
  <2>0. \A t : InHand(sqlite, t) => InHand(sqlite', t)
    BY <1>3 DEF InHand, Edited, Stays
  <2>1. ASSUME NEW i \in DOMAIN batch PROVE InHand(sqlite', batch[i])
    BY <1>1, <2>0 DEF PassInv
  <2>2. ASSUME NEW i \in DOMAIN todo PROVE InHand(sqlite', todo[i]) /\ Settles(sqlite', landed, held, todo[i])
    <3>1. InHand(sqlite, todo[i]) /\ Settles(sqlite, landed, held, todo[i])
      BY <1>1 DEF PassInv
    <3>2. todo[i].row \in DOMAIN sqlite.rows
      BY <3>1 DEF InHand
    <3>3. QED
      BY <1>3, <2>0, <3>1, <3>2, SettlesStays
  <2>3. QED
    BY <1>1, <1>2, <2>1, <2>2 DEF PassInv
<1>7. \A c \in Conns : ConnOK(c)'
  BY <1>1, <1>2, <1>3, ConnsStay
<1>8. QED
  BY <1>5, <1>6, <1>7 DEF PhoneInv

LEMMA WrittenEdits ==
  ASSUME NEW db, NEW to, NEW a, Written(db, to, a)
  PROVE  Edited(db, to)
BY DEF Written, Edited, Stays, SameRow

LEMMA QueuedEdits ==
  ASSUME NEW db, NEW to, NEW a, Queued(db, to, a)
  PROVE  Edited(db, to)
<1>1. CASE DOMAIN to.rows = DOMAIN db.rows
  BY <1>1 DEF Queued, Edited, Stays, SameRow
<1>2. ASSUME DOMAIN to.rows = 1 .. Len(db.rows) + 1, to.rows[Len(db.rows) + 1].state = "queued"
      PROVE  Edited(db, to)
  <2>1. /\ Len(db.rows) \in Nat /\ DOMAIN db.rows = 1 .. Len(db.rows)
        /\ \A q \in DOMAIN db.rows : to.rows[q] = db.rows[q]
        /\ to.sync = db.sync
    BY DEF Queued
  <2>2. \A q \in DOMAIN to.rows : q \in DOMAIN db.rows \/ q = Len(db.rows) + 1
    BY <1>2, <2>1
  <2>3. Stays(db, to)
    BY <1>2, <2>1 DEF Stays, SameRow
  <2>4. QED
    BY <1>2, <2>1, <2>2, <2>3 DEF Edited
<1>3. QED
  BY <1>1, <1>2 DEF Queued

LEMMA EditedTrans ==
  ASSUME NEW db, NEW via, NEW to, Edited(db, via), Edited(via, to)
  PROVE  Edited(db, to)
<1>1. Stays(db, via) /\ Stays(via, to)
  BY DEF Edited
<1>2. Stays(db, to)
  <2>1. DOMAIN db.rows \subseteq DOMAIN to.rows
    BY <1>1 DEF Stays
  <2>2. ASSUME NEW q \in DOMAIN db.rows PROVE SameRow(db.rows[q], to.rows[q])
    <3>1. SameRow(db.rows[q], via.rows[q]) /\ SameRow(via.rows[q], to.rows[q])
      BY <1>1 DEF Stays
    <3>2. QED
      BY <3>1 DEF SameRow
  <2>3. QED
    BY <2>1, <2>2 DEF Stays
<1>3. DOMAIN db.rows \subseteq DOMAIN via.rows /\ DOMAIN via.rows \subseteq DOMAIN to.rows
  BY <1>1 DEF Stays
<1>4. \A q \in DOMAIN db.rows : db.rows[q].state \in Open => to.rows[q].state \in Open
  BY <1>3 DEF Edited
<1>5. \A q \in DOMAIN to.rows :
        to.rows[q].state \in {"synced", "pruned"}
          => q \in DOMAIN db.rows /\ to.rows[q].state = db.rows[q].state
  BY <1>3 DEF Edited
<1>6. \A q \in DOMAIN db.rows :
        db.rows[q].state \in {"synced", "pruned"} => to.rows[q].state = db.rows[q].state
  BY <1>3 DEF Edited
<1>7. QED
  BY <1>2, <1>4, <1>5, <1>6 DEF Edited

(* Saving writes the record, and either queues its row at once or leaves   *)
(* the act to be queued.                                                   *)
SavedTogether(a) ==
  saving' = None /\ \E written : Written(sqlite, written, a) /\ Queued(written, sqlite', a)

SavedApart(a) ==
  /\ Written(sqlite, sqlite', a)
  /\ saving' \in Act /\ saving'.entity = a.entity /\ saving'.op = a.op

LEMMA SaveDoes ==
  ASSUME StoreOK(sqlite), NEW a \in Acts, Save(a)
  PROVE  SavedTogether(a) \/ SavedApart(a)
<1>1. a \in Act /\ a.deps \in SUBSET Entities /\ a.entity \in Entities
  BY ActsAssumption DEF Act
<1>2. PICK written : written = WriteLocal(sqlite, a)
  OBVIOUS
<1>3. PICK deps : deps = DepsOf(sqlite, a)
  OBVIOUS
<1>4. deps \in SUBSET Entities
  BY <1>1, <1>3 DEF DepsOf
<1>5. Written(sqlite, written, a) /\ StoreOK(written)
  BY <1>1, <1>2, WriteLocalDoes DEF Written
<1>6. saving = None
  BY DEF Save
<1>7. CASE a.together
  <2>1. sqlite' = Enqueue(written, a, deps) /\ saving' = saving
    BY <1>2, <1>3, <1>7 DEF Save
  <2>2. Queued(written, sqlite', a)
    BY <1>1, <1>4, <1>5, <2>1, EnqueueDoes
  <2>3. QED
    BY <1>5, <1>6, <2>1, <2>2 DEF SavedTogether
<1>8. CASE ~a.together
  <2>1. sqlite' = written /\ saving' = [a EXCEPT !.deps = deps]
    BY <1>2, <1>3, <1>8 DEF Save
  <2>2. saving' \in Act /\ saving'.entity = a.entity /\ saving'.op = a.op
    BY <1>1, <1>4, <2>1 DEF Act
  <2>3. QED
    BY <1>5, <2>1, <2>2 DEF SavedApart
<1>9. QED
  BY <1>7, <1>8

(* A store with one row more, and that not a second create of its record.  *)
LEMMA NewRowCreates ==
  ASSUME CreatesInv, NEW n, NEW a, saving' = None,
         \A q \in DOMAIN sqlite'.rows : q \in DOMAIN sqlite.rows \/ q = n,
         \A q \in DOMAIN sqlite.rows :
           sqlite'.rows[q] = sqlite.rows[q] /\ sqlite.rows[q].entity \in Entities,
         sqlite'.rows[n].entity = a.entity, sqlite'.rows[n].op = a.op,
         a.op = "create" =>
           /\ sqlite'.body[a.entity] # None
           /\ \A q \in DOMAIN sqlite.rows : sqlite.rows[q].entity # a.entity,
         \A e \in Entities : sqlite.body[e] # None => sqlite'.body[e] # None
  PROVE  CreatesInv'
<1>1. ASSUME NEW p \in DOMAIN sqlite'.rows, NEW q \in DOMAIN sqlite'.rows,
             sqlite'.rows[p].op = "create", sqlite'.rows[q].op = "create",
             sqlite'.rows[p].entity = sqlite'.rows[q].entity
      PROVE  p = q
  <2>1. CASE p \in DOMAIN sqlite.rows /\ q \in DOMAIN sqlite.rows
    BY <1>1, <2>1 DEF CreatesInv
  <2>2. CASE p = n /\ q \in DOMAIN sqlite.rows
    BY <1>1, <2>2
  <2>3. CASE q = n /\ p \in DOMAIN sqlite.rows
    BY <1>1, <2>3
  <2>4. QED
    BY <2>1, <2>2, <2>3
<1>2. ASSUME NEW q \in DOMAIN sqlite'.rows,
             sqlite'.rows[q].op = "create", sqlite'.rows[q].state # "discarded"
      PROVE  sqlite'.body[sqlite'.rows[q].entity] # None
  <2>1. CASE q \in DOMAIN sqlite.rows
    BY <1>2, <2>1 DEF CreatesInv
  <2>2. CASE q = n
    BY <1>2, <2>2
  <2>3. QED
    BY <2>1, <2>2
<1>3. QED
  BY <1>1, <1>2 DEF CreatesInv

LEMMA SaveKeeps ==
  ASSUME PhoneInv, NEW a \in Acts, AtRest(Save(a))
  PROVE  PhoneInv' /\ Edited(sqlite, sqlite')
<1>1. /\ StoreOK(sqlite) /\ Len(sqlite.rows) <= MaxRows /\ CreatesInv
      /\ DOMAIN sqlite.rows = 1 .. Len(sqlite.rows) /\ Len(sqlite.rows) \in Nat
      /\ \A q \in DOMAIN sqlite.rows : sqlite.rows[q].entity \in Entities
  BY RowsOf DEF PhoneInv, StoreInv
<1>2. a \in Act /\ a.entity \in Entities /\ a.body # None /\ None \notin Act /\ MaxRows \in Nat
  BY ActsAssumption, NoneAssumption, BoundsAssumption DEF Act
<1>3. /\ Save(a) /\ saving = None /\ Len(sqlite.rows) < MaxRows
      /\ UNCHANGED <<signedIn, waitingOn, batch, todo, officeVars>>
      /\ a.op = "create" =>
           \A q \in DOMAIN sqlite.rows : sqlite.rows[q].entity # a.entity
  BY DEF AtRest, Save, CanAct
<1>4. ASSUME SavedApart(a)
      PROVE  PhoneInv' /\ Edited(sqlite, sqlite')
  <2>1. Edited(sqlite, sqlite')
    BY <1>4, WrittenEdits DEF SavedApart
  <2>2. sqlite'.rows = sqlite.rows /\ StoreOK(sqlite') /\ saving' \in Act
    BY <1>4 DEF SavedApart, Written
  <2>3. StoreInv'
    BY <1>1, <1>3, <2>2 DEF StoreInv
  <2>4. CreatesInv'
    <3>1. \A e \in Entities : sqlite'.body[e] = IF e = a.entity THEN a.body ELSE sqlite.body[e]
      BY <1>4 DEF SavedApart, Written
    <3>2. saving'.entity = a.entity /\ saving'.op = a.op
      BY <1>4 DEF SavedApart
    <3>3. QED
      BY <1>1, <1>2, <1>3, <2>2, <3>1, <3>2 DEF CreatesInv
  <2>5. QED
    BY <1>3, <2>1, <2>3, <2>4, EditStep
<1>5. ASSUME SavedTogether(a)
      PROVE  PhoneInv' /\ Edited(sqlite, sqlite')
  <2>1. PICK written : Written(sqlite, written, a) /\ Queued(written, sqlite', a)
    BY <1>5 DEF SavedTogether
  <2>2. Edited(sqlite, sqlite')
    BY <2>1, WrittenEdits, QueuedEdits, EditedTrans
  <2>3. /\ written.rows = sqlite.rows /\ StoreOK(sqlite') /\ saving' = None
        /\ \A e \in Entities : sqlite'.body[e] = IF e = a.entity THEN a.body ELSE sqlite.body[e]
        /\ \A q \in DOMAIN sqlite.rows : sqlite'.rows[q] = sqlite.rows[q]
        /\ \/ DOMAIN sqlite'.rows = DOMAIN sqlite.rows /\ Len(sqlite'.rows) = Len(sqlite.rows)
           \/ /\ Len(sqlite'.rows) = Len(sqlite.rows) + 1
              /\ DOMAIN sqlite'.rows = 1 .. Len(sqlite.rows) + 1
              /\ sqlite'.rows[Len(sqlite.rows) + 1].entity = a.entity
              /\ sqlite'.rows[Len(sqlite.rows) + 1].op = a.op
    BY <1>5, <2>1 DEF SavedTogether, Written, Queued
  <2>4. StoreInv'
    BY <1>1, <1>2, <1>3, <2>3 DEF StoreInv
  <2>5. CreatesInv'
    <3>1. CASE DOMAIN sqlite'.rows = DOMAIN sqlite.rows
      BY <1>1, <1>2, <2>3, <3>1, SMTT(40) DEF CreatesInv
    <3>2. ASSUME DOMAIN sqlite'.rows = 1 .. Len(sqlite.rows) + 1,
                 sqlite'.rows[Len(sqlite.rows) + 1].entity = a.entity,
                 sqlite'.rows[Len(sqlite.rows) + 1].op = a.op
          PROVE  CreatesInv'
      <4>1. PICK n : n = Len(sqlite.rows) + 1
        OBVIOUS
      <4>2. \A q \in DOMAIN sqlite'.rows : q \in DOMAIN sqlite.rows \/ q = n
        BY <1>1, <3>2, <4>1
      <4>3. sqlite'.rows[n].entity = a.entity /\ sqlite'.rows[n].op = a.op
        BY <3>2, <4>1
      <4>4. a.op = "create" => sqlite'.body[a.entity] # None
        BY <1>2, <2>3
      <4>5. \A e \in Entities : sqlite.body[e] # None => sqlite'.body[e] # None
        BY <1>2, <2>3
      <4>6. QED
        BY <1>1, <1>3, <2>3, <4>2, <4>3, <4>4, <4>5, NewRowCreates
    <3>3. QED
      BY <2>3, <3>1, <3>2
  <2>6. QED
    BY <1>3, <2>2, <2>4, <2>5, EditStep
<1>6. QED
  BY <1>1, <1>3, <1>4, <1>5, SaveDoes

LEMMA QueueSavedKeeps ==
  ASSUME PhoneInv, AtRest(QueueSaved)
  PROVE  PhoneInv' /\ Edited(sqlite, sqlite') /\ Queued(sqlite, sqlite', saving)
<1>1. /\ StoreOK(sqlite) /\ Len(sqlite.rows) <= MaxRows /\ CreatesInv
      /\ DOMAIN sqlite.rows = 1 .. Len(sqlite.rows) /\ Len(sqlite.rows) \in Nat
      /\ saving \in Act /\ saving.deps \in SUBSET Entities
      /\ saving # None /\ Len(sqlite.rows) < MaxRows
      /\ MaxRows \in Nat
  <2>1. saving \in Act /\ saving # None
    BY DEF PhoneInv, StoreInv, AtRest, QueueSaved
  <2>2. QED
    BY <2>1, RowsOf, BoundsAssumption DEF PhoneInv, StoreInv, Act
<1>2. /\ sqlite' = Enqueue(sqlite, saving, saving.deps) /\ saving' = None
      /\ UNCHANGED <<signedIn, waitingOn, batch, todo, officeVars>>
  BY DEF AtRest, QueueSaved
<1>3. Queued(sqlite, sqlite', saving)
  BY <1>1, <1>2, EnqueueDoes
<1>4. Edited(sqlite, sqlite')
  BY <1>3, QueuedEdits
<1>5. /\ StoreOK(sqlite') /\ sqlite'.body = sqlite.body
      /\ \A q \in DOMAIN sqlite.rows : sqlite'.rows[q] = sqlite.rows[q]
      /\ \/ DOMAIN sqlite'.rows = DOMAIN sqlite.rows /\ Len(sqlite'.rows) = Len(sqlite.rows)
         \/ /\ Len(sqlite'.rows) = Len(sqlite.rows) + 1
            /\ DOMAIN sqlite'.rows = 1 .. Len(sqlite.rows) + 1
            /\ sqlite'.rows[Len(sqlite.rows) + 1].entity = saving.entity
            /\ sqlite'.rows[Len(sqlite.rows) + 1].op = saving.op
  BY <1>3 DEF Queued
<1>6. StoreInv'
  BY <1>1, <1>2, <1>5 DEF StoreInv
<1>7. CreatesInv'
  <2>1. CASE DOMAIN sqlite'.rows = DOMAIN sqlite.rows
    BY <1>1, <1>2, <1>5, <2>1 DEF CreatesInv
  <2>2. ASSUME DOMAIN sqlite'.rows = 1 .. Len(sqlite.rows) + 1,
               sqlite'.rows[Len(sqlite.rows) + 1].entity = saving.entity,
               sqlite'.rows[Len(sqlite.rows) + 1].op = saving.op
        PROVE  CreatesInv'
    <3>1. PICK n : n = Len(sqlite.rows) + 1
      OBVIOUS
    <3>2. \A q \in DOMAIN sqlite'.rows : q \in DOMAIN sqlite.rows \/ q = n
      BY <1>1, <2>2, <3>1
    <3>3. sqlite'.rows[n].entity = saving.entity /\ sqlite'.rows[n].op = saving.op
      BY <2>2, <3>1
    <3>4. saving.op = "create" =>
            /\ sqlite'.body[saving.entity] # None
            /\ \A q \in DOMAIN sqlite.rows : sqlite.rows[q].entity # saving.entity
      BY <1>1, <1>5 DEF CreatesInv
    <3>5. \A q \in DOMAIN sqlite.rows : sqlite.rows[q].entity \in Entities
      BY RowsOf DEF PhoneInv, StoreInv
    <3>6. QED
      BY <1>1, <1>2, <1>5, <3>2, <3>3, <3>4, <3>5, NewRowCreates
  <2>3. QED
    BY <1>5, <2>1, <2>2
<1>8. QED
  BY <1>2, <1>3, <1>4, <1>6, <1>7, EditStep

LEMMA DiscardStep ==
  ASSUME PhoneInv, NEW q \in DOMAIN sqlite.rows, AtRest(Discard(q))
  PROVE  /\ Removed(sqlite, sqlite', q) /\ sqlite.rows[q].state \in {"rejected", "failed"}
         /\ saving' = saving /\ UNCHANGED <<signedIn, waitingOn, batch, todo, officeVars>>
<1>1. StoreOK(sqlite)
  BY DEF PhoneInv, StoreInv
<1>2. PICK to :
        /\ to = LET r == sqlite.rows[q]
                    gone == [sqlite EXCEPT !.rows[q].state = "discarded"]
                IN IF r.op = "create"
                   THEN [gone EXCEPT !.body[r.entity] = None, !.sync[r.entity] = None]
                   ELSE gone
        /\ sqlite' = to
  BY DEF AtRest, Discard
<1>3. Removed(sqlite, to, q)
  BY <1>1, <1>2, DiscardDoes
<1>4. QED
  BY <1>2, <1>3 DEF AtRest, Discard, Stuck, RowsIn

LEMMA DiscardKeeps ==
  ASSUME PhoneInv, NEW q \in DOMAIN sqlite.rows, AtRest(Discard(q))
  PROVE  PhoneInv' /\ Edited(sqlite, sqlite')
<1>1. /\ StoreOK(sqlite) /\ Len(sqlite.rows) <= MaxRows /\ CreatesInv
      /\ saving \in Act \cup {None} /\ (saving # None => Len(sqlite.rows) < MaxRows)
      /\ DOMAIN sqlite.rows = 1 .. Len(sqlite.rows) /\ Len(sqlite.rows) \in Nat
      /\ \A p \in DOMAIN sqlite.rows : sqlite.rows[p].entity \in Entities
  BY RowsOf DEF PhoneInv, StoreInv
<1>2. /\ sqlite.rows[q].state \in {"rejected", "failed"} /\ saving' = saving
      /\ UNCHANGED <<signedIn, waitingOn, batch, todo, officeVars>>
      /\ Removed(sqlite, sqlite', q)
  BY DiscardStep
<1>3. /\ StoreOK(sqlite') /\ DOMAIN sqlite'.rows = DOMAIN sqlite.rows
      /\ \A p \in DOMAIN sqlite.rows :
           /\ SameRow(sqlite.rows[p], sqlite'.rows[p])
           /\ sqlite'.rows[p].state = IF p = q THEN "discarded" ELSE sqlite.rows[p].state
      /\ \A e \in Entities :
           \/ sqlite'.body[e] = sqlite.body[e] /\ sqlite'.sync[e] = sqlite.sync[e]
           \/ /\ e = sqlite.rows[q].entity /\ sqlite.rows[q].op = "create"
              /\ sqlite'.sync[e] = None
  BY <1>2 DEF Removed
<1>4. Edited(sqlite, sqlite')
  <2>1. None # "synced"
    BY NullAssumption DEF States
  <2>2. QED
    BY <1>2, <1>3, <2>1 DEF Edited, Stays, Open
<1>5. StoreInv'
  <2>1. DOMAIN sqlite'.rows = 1 .. Len(sqlite'.rows) /\ Len(sqlite'.rows) \in Nat
    BY <1>3, RowsOf
  <2>2. Len(sqlite'.rows) = Len(sqlite.rows)
    BY <1>1, <1>3, <2>1
  <2>3. QED
    BY <1>1, <1>2, <1>3, <2>2 DEF StoreInv
<1>6. CreatesInv'
  <2>1. ASSUME NEW p \in DOMAIN sqlite'.rows
        PROVE  /\ p \in DOMAIN sqlite.rows /\ sqlite'.rows[p].op = sqlite.rows[p].op
               /\ sqlite'.rows[p].entity = sqlite.rows[p].entity
               /\ sqlite'.rows[p].state # "discarded" => sqlite.rows[p].state # "discarded" /\ p # q
    BY <1>3 DEF SameRow
  <2>2. ASSUME NEW p \in DOMAIN sqlite'.rows, NEW r \in DOMAIN sqlite'.rows,
               sqlite'.rows[p].op = "create", sqlite'.rows[r].op = "create",
               sqlite'.rows[p].entity = sqlite'.rows[r].entity
        PROVE  p = r
    BY <1>1, <2>1, <2>2 DEF CreatesInv
  <2>3. ASSUME NEW p \in DOMAIN sqlite'.rows,
               sqlite'.rows[p].op = "create", sqlite'.rows[p].state # "discarded"
        PROVE  sqlite'.body[sqlite'.rows[p].entity] # None
    <3>1. PICK e : e = sqlite.rows[p].entity
      OBVIOUS
    <3>2. /\ p # q /\ p \in DOMAIN sqlite.rows /\ sqlite.rows[p].op = "create"
          /\ e \in Entities /\ sqlite.body[e] # None /\ sqlite'.rows[p].entity = e
      BY <1>1, <2>1, <2>3, <3>1 DEF CreatesInv
    <3>3. ~(e = sqlite.rows[q].entity /\ sqlite.rows[q].op = "create")
      BY <1>1, <3>1, <3>2 DEF CreatesInv
    <3>4. QED
      BY <1>3, <3>2, <3>3
  <2>4. ASSUME saving' # None, saving'.op = "create"
        PROVE  /\ sqlite'.body[saving'.entity] # None
               /\ \A p \in DOMAIN sqlite'.rows : sqlite'.rows[p].entity # saving'.entity
    <3>1. PICK e : e = saving.entity
      OBVIOUS
    <3>2. /\ saving' = saving /\ saving \in Act /\ e \in Entities /\ sqlite.body[e] # None
          /\ \A p \in DOMAIN sqlite.rows : sqlite.rows[p].entity # e
      BY <1>1, <1>2, <2>4, <3>1 DEF CreatesInv, Act
    <3>3. sqlite'.body[e] # None
      BY <1>3, <3>2
    <3>4. QED
      BY <2>1, <3>1, <3>2, <3>3
  <2>5. QED
    BY <2>2, <2>3, <2>4 DEF CreatesInv
<1>7. QED
  BY <1>2, <1>4, <1>5, <1>6, EditStep

(* What a step of the office on connection c may do to what the phone      *)
(* relies on: it keeps the items, or drops them, and says `accepted` only  *)
(* of a row whose write it holds.                                          *)
Served(c) ==
  /\ \A d \in Conns : d # c => conns'[d] = conns[d]
  /\ held \subseteq held' /\ landed \subseteq landed' /\ landed' \subseteq DOMAIN sqlite.rows
  /\ \A e \in held' \ held :
       \E p \in landed' : sqlite.rows[p].op = "create" /\ sqlite.rows[p].entity = e
  /\ \A key \in accepted' \ accepted : Landed(sqlite, landed', key)
  /\ \/ conns'[c] = NoConn
     \/ /\ conns[c].phase # "idle" /\ conns'[c].items = conns[c].items
        /\ conns'[c].phase = "storing" /\ conns'[c].verdict = "accepted"
             => Landed(sqlite, landed', conns'[c].items[conns'[c].at].key)

LEMMA ServedKeeps ==
  ASSUME PhoneInv, NEW c \in Conns, UNCHANGED phoneVars, Served(c)
  PROVE  PhoneInv'
<1>1. StoreInv /\ CreatesInv /\ LandedInv /\ PassInv /\ \A d \in Conns : ConnOK(d)
  BY DEF PhoneInv
<1>2. /\ sqlite' = sqlite /\ saving' = saving /\ signedIn' = signedIn
      /\ waitingOn' = waitingOn /\ batch' = batch /\ todo' = todo
  BY DEF phoneVars
<1>3. StoreInv' /\ CreatesInv'
  BY <1>1, <1>2 DEF StoreInv, CreatesInv
<1>4. Stays(sqlite, sqlite) /\ landed \subseteq DOMAIN sqlite.rows /\ landed \subseteq landed' /\ held \subseteq held'
  BY <1>1 DEF Stays, SameRow, LandedInv, Served
<1>5. \A key : Landed(sqlite, landed, key) => Landed(sqlite, landed', key)
  BY <1>4, LandedStays
<1>6. LandedInv'
  <2>1. landed' \subseteq DOMAIN sqlite.rows
    BY DEF Served
  <2>2. ASSUME NEW e \in held'
        PROVE  \E p \in landed' : sqlite.rows[p].op = "create" /\ sqlite.rows[p].entity = e
    BY <1>1, <1>4 DEF LandedInv, Served
  <2>3. ASSUME NEW key \in accepted' PROVE Landed(sqlite, landed', key)
    BY <1>1, <1>5 DEF LandedInv, Served
  <2>4. \A q \in DOMAIN sqlite.rows :
          sqlite.rows[q].state \in {"synced", "pruned"}
            => sqlite.rows[q].entity \in held' /\ Landed(sqlite, landed', KeyOf(sqlite.rows[q]))
    BY <1>1, <1>4, <1>5 DEF LandedInv
  <2>5. \A e \in Entities : sqlite.sync[e] = "synced" => e \in held'
    BY <1>1, <1>4 DEF LandedInv
  <2>6. QED
    BY <1>2, <2>1, <2>2, <2>3, <2>4, <2>5 DEF LandedInv
<1>7. PassInv'
  <2>1. ASSUME NEW i \in DOMAIN todo PROVE Settles(sqlite, landed', held', todo[i])
    <3>1. Settles(sqlite, landed, held, todo[i]) /\ todo[i].row \in DOMAIN sqlite.rows
      BY <1>1 DEF PassInv, InHand
    <3>2. QED
      BY <1>4, <3>1, SettlesStays
  <2>2. QED
    BY <1>1, <1>2, <2>1 DEF PassInv
<1>8. ASSUME NEW d \in Conns PROVE ConnOK(d)'
  <2>1. Carries(sqlite, landed, conns[d]) /\ (waitingOn = d => Matches(conns[d], batch))
    BY <1>1 DEF ConnOK
  <2>2. CASE d # c
    <3>1. conns'[d] = conns[d]
      BY <2>2 DEF Served
    <3>2. Carries(sqlite, landed', conns[d])
      BY <1>4, <2>1, CarriesStays
    <3>3. QED
      BY <1>2, <2>1, <3>1, <3>2 DEF ConnOK
  <2>3. CASE conns'[d] = NoConn
    <3>1. Carries(sqlite, landed', NoConn) /\ Matches(NoConn, batch)
      BY DEF Carries, Matches, NoConn, Carrying
    <3>2. QED
      BY <1>2, <2>3, <3>1 DEF ConnOK
  <2>4. ASSUME conns[d].phase # "idle", conns'[d].items = conns[d].items,
               conns'[d].phase = "storing" /\ conns'[d].verdict = "accepted"
                 => Landed(sqlite, landed', conns'[d].items[conns'[d].at].key)
        PROVE  ConnOK(d)'
    <3>1. Carries(sqlite, landed', conns'[d])
      BY <2>1, <2>4 DEF Carries
    <3>2. waitingOn = d => Matches(conns'[d], batch)
      BY <2>1, <2>4 DEF Matches
    <3>3. QED
      BY <1>2, <3>1, <3>2 DEF ConnOK
  <2>5. QED
    BY <2>2, <2>3, <2>4 DEF Served
<1>9. QED
  BY <1>3, <1>6, <1>7, <1>8 DEF PhoneInv

(* Steps that write no receipt and no table.                               *)
LEMMA ServedQuietly ==
  ASSUME PhoneInv, Ingest!Inv, NEW c \in Conns, UNCHANGED <<ledger, tables, history>>,
         NEW k, conns' = [conns EXCEPT ![c] = k],
         \/ k = NoConn
         \/ /\ conns[c].phase # "idle" /\ k.items = conns[c].items
            /\ k.phase # "storing" \/ k.verdict # "accepted"
  PROVE  Served(c)
<1>1. conns \in [Conns -> Ingest!Conn]
  BY IngestSays
<1>2. conns'[c] = k /\ \A d \in Conns : d # c => conns'[d] = conns[d]
  BY <1>1
<1>3. held' = held /\ landed' = landed /\ accepted' = accepted /\ landed \subseteq DOMAIN sqlite.rows
  BY DEF ledger, tables, history, PhoneInv, LandedInv
<1>4. QED
  BY <1>2, <1>3 DEF Served

Answered(k, v) ==
  [phase |-> IF k.at = Len(k.items) THEN "answered" ELSE "judging",
   items |-> k.items,
   at |-> k.at + 1,
   acceptedHere |-> IF v = "accepted" THEN k.acceptedHere \union {k.items[k.at].key.entity}
                                      ELSE k.acceptedHere,
   refusedHere |-> IF v = "rejected" THEN k.refusedHere \union {k.items[k.at].key.entity}
                                     ELSE k.refusedHere,
   verdict |-> "retry",
   results |-> Append(k.results, v)]

LEMMA AnswerDoes ==
  ASSUME NEW c \in Conns, NEW v, Answer(c, v)
  PROVE  \E k : /\ conns' = [conns EXCEPT ![c] = k]
                /\ k.items = conns[c].items /\ k.phase # "storing"
<1>1. conns' = [conns EXCEPT ![c] = Answered(conns[c], v)]
  BY DEF Answer, Current, Answered
<1>2. Answered(conns[c], v).items = conns[c].items /\ Answered(conns[c], v).phase # "storing"
  BY DEF Answered
<1>3. QED
  BY <1>1, <1>2

LEMMA DecideDoes ==
  ASSUME Ingest!Inv, NEW c \in Conns, NEW v, Decide(c, v)
  PROVE  \E k : /\ conns' = [conns EXCEPT ![c] = k]
                /\ k.items = conns[c].items /\ k.at = conns[c].at
                /\ k.phase = "storing" /\ k.verdict = v
<1>1. conns[c] \in Ingest!Conn
  BY IngestSays
<1>2. PICK k : k = [conns[c] EXCEPT !.phase = "storing", !.verdict = v]
  OBVIOUS
<1>3. k.items = conns[c].items /\ k.at = conns[c].at /\ k.phase = "storing" /\ k.verdict = v
  BY <1>1, <1>2 DEF Ingest!Conn
<1>4. conns' = [conns EXCEPT ![c] = k]
  BY <1>2 DEF Decide
<1>5. QED
  BY <1>3, <1>4

Turned(c, phase) ==
  \E k : conns' = [conns EXCEPT ![c] = k] /\ k.items = conns[c].items /\ k.phase = phase

LEMMA TurnDoes ==
  ASSUME Ingest!Inv, NEW c \in Conns, NEW phase, conns' = [conns EXCEPT ![c].phase = phase]
  PROVE  Turned(c, phase)
<1>1. conns[c] \in Ingest!Conn
  BY IngestSays
<1>2. PICK k : k = [conns[c] EXCEPT !.phase = phase]
  OBVIOUS
<1>3. k.items = conns[c].items /\ k.phase = phase
  BY <1>1, <1>2 DEF Ingest!Conn
<1>4. conns' = [conns EXCEPT ![c] = k]
  BY <1>2
<1>5. QED
  BY <1>3, <1>4 DEF Turned

(* The item in hand is one the connection carries.                         *)
LEMMA CurrentIs ==
  ASSUME PhoneInv, Ingest!Inv, NEW c \in Conns, conns[c].phase \in Serving
  PROVE  /\ ItemOK(sqlite, Current(c))
         /\ Current(c).key = KeyOf(sqlite.rows[Current(c).row])
         /\ Current(c).key.entity = sqlite.rows[Current(c).row].entity
         /\ Current(c).key.op = sqlite.rows[Current(c).row].op
         /\ Current(c).row \in DOMAIN sqlite.rows
<1>1. conns[c].at \in DOMAIN conns[c].items
  BY IngestSays DEF Serving
<1>2. ItemOK(sqlite, Current(c))
  BY <1>1 DEF PhoneInv, ConnOK, Carries, Current
<1>3. QED
  BY <1>2 DEF ItemOK, KeyOf

LEMMA ServeIsServed ==
  ASSUME PhoneInv, Ingest!Inv, NEW c \in Conns, Serve(c) \/ Lose(c) \/ Abandon(c)
  PROVE  Served(c)
<1>1. CASE Lose(c) \/ Abandon(c)
  BY <1>1, ServedQuietly DEF Lose, Abandon
<1>2. CASE Arrive(c)
  <2>1. PICK k : conns' = [conns EXCEPT ![c] = k] /\ k.items = conns[c].items /\ k.phase = "judging"
    <3>1. conns' = [conns EXCEPT ![c].phase = "judging"]
      BY <1>2 DEF Arrive
    <3>2. Turned(c, "judging")
      BY <3>1, TurnDoes
    <3>3. QED
      BY <3>2 DEF Turned
  <2>2. conns[c].phase # "idle" /\ UNCHANGED <<ledger, tables, history>>
    BY <1>2 DEF Arrive
  <2>3. QED
    BY <2>1, <2>2, ServedQuietly
<1>3. CASE PassToHandler(c)
  <2>1. PICK k : conns' = [conns EXCEPT ![c] = k] /\ k.items = conns[c].items /\ k.phase = "writing"
    <3>1. conns' = [conns EXCEPT ![c].phase = "writing"]
      BY <1>3 DEF PassToHandler
    <3>2. Turned(c, "writing")
      BY <3>1, TurnDoes
    <3>3. QED
      BY <3>2 DEF Turned
  <2>2. conns[c].phase # "idle" /\ UNCHANGED <<ledger, tables, history>>
    BY <1>3 DEF PassToHandler
  <2>3. QED
    BY <2>1, <2>2, ServedQuietly
<1>4. CASE Replay(c) \/ DeferMissing(c) \/ HandlerPostpones(c)
  <2>1. PICK k : conns' = [conns EXCEPT ![c] = k] /\ k.items = conns[c].items /\ k.phase # "storing"
    BY <1>4, AnswerDoes DEF Replay, DeferMissing, HandlerPostpones
  <2>2. conns[c].phase # "idle" /\ UNCHANGED <<ledger, tables, history>>
    BY <1>4 DEF Replay, DeferMissing, HandlerPostpones
  <2>3. QED
    BY <2>1, <2>2, ServedQuietly
<1>5. CASE RefuseDependent(c) \/ HandlerRefuses(c)
  <2>1. PICK k : conns' = [conns EXCEPT ![c] = k] /\ k.items = conns[c].items /\ k.verdict = "rejected"
    BY <1>5, DecideDoes DEF RefuseDependent, HandlerRefuses
  <2>2. conns[c].phase # "idle" /\ UNCHANGED <<ledger, tables, history>>
    BY <1>5 DEF RefuseDependent, HandlerRefuses
  <2>3. QED
    BY <2>1, <2>2, ServedQuietly
<1> DEFINE item == Current(c)
<1>6. CASE HandlerWrites(c)
  <2>1. PICK k : /\ conns' = [conns EXCEPT ![c] = k]
                 /\ k.items = conns[c].items /\ k.at = conns[c].at /\ k.phase = "storing" /\ k.verdict = "accepted"
    BY <1>6, DecideDoes DEF HandlerWrites
  <2>2. /\ conns[c].phase = "writing" /\ held' = held \cup {item.key.entity}
        /\ item.key.op = "create" <=> item.key.entity \notin held
        /\ landed' = landed \cup {item.row} /\ accepted' = accepted
    BY <1>6 DEF HandlerWrites, Applies, ledger
  <2>3. /\ item.key = KeyOf(sqlite.rows[item.row]) /\ item.row \in DOMAIN sqlite.rows
        /\ item.key.entity = sqlite.rows[item.row].entity /\ item.key.op = sqlite.rows[item.row].op
    BY <2>2, CurrentIs DEF Serving
  <2>4. k.items[k.at] = item
    BY <2>1 DEF Current
  <2> HIDE DEF item
  <2>5. Landed(sqlite, landed', item.key)
    BY <2>2, <2>3 DEF Landed
  <2>6. landed' \subseteq DOMAIN sqlite.rows
    BY <2>2, <2>3 DEF PhoneInv, LandedInv
  <2>7. \A e \in held' \ held : \E p \in landed' : sqlite.rows[p].op = "create" /\ sqlite.rows[p].entity = e
    BY <2>2, <2>3
  <2>8. conns \in [Conns -> Ingest!Conn]
    BY IngestSays
  <2>9. conns'[c] = k /\ \A d \in Conns : d # c => conns'[d] = conns[d]
    BY <2>1, <2>8
  <2>10. QED
    BY <2>1, <2>2, <2>4, <2>5, <2>6, <2>7, <2>9 DEF Served
<1>7. CASE HandlerFindsOwn(c)
  <2>1. PICK k : /\ conns' = [conns EXCEPT ![c] = k]
                 /\ k.items = conns[c].items /\ k.at = conns[c].at /\ k.phase = "storing" /\ k.verdict = "accepted"
    BY <1>7, DecideDoes DEF HandlerFindsOwn
  <2>2. /\ conns[c].phase = "writing" /\ held' = held
        /\ item.key.op = "create" /\ item.key.entity \in held
        /\ landed' = landed /\ accepted' = accepted
    BY <1>7 DEF HandlerFindsOwn, ledger
  <2>3. /\ item.key = KeyOf(sqlite.rows[item.row]) /\ item.row \in DOMAIN sqlite.rows
        /\ item.key.entity = sqlite.rows[item.row].entity /\ item.key.op = sqlite.rows[item.row].op
    BY <2>2, CurrentIs DEF Serving
  <2>4. k.items[k.at] = item
    BY <2>1 DEF Current
  <2> HIDE DEF item
  <2>5. PICK p \in landed : sqlite.rows[p].op = "create" /\ sqlite.rows[p].entity = item.key.entity
    BY <2>2 DEF PhoneInv, LandedInv
  <2>6. landed \subseteq DOMAIN sqlite.rows
    BY DEF PhoneInv, LandedInv
  <2>7. p = item.row
    BY <2>2, <2>3, <2>5, <2>6 DEF PhoneInv, CreatesInv
  <2>8. Landed(sqlite, landed', item.key)
    BY <2>2, <2>3, <2>5, <2>7 DEF Landed
  <2>9. conns \in [Conns -> Ingest!Conn]
    BY IngestSays
  <2>10. conns'[c] = k /\ \A d \in Conns : d # c => conns'[d] = conns[d]
    BY <2>1, <2>9
  <2>11. QED
    BY <2>1, <2>2, <2>4, <2>6, <2>8, <2>10 DEF Served
<1>8. CASE StoreReceipt(c)
  <2>1. PICK k : conns' = [conns EXCEPT ![c] = k] /\ k.items = conns[c].items /\ k.phase # "storing"
    BY <1>8, AnswerDoes DEF StoreReceipt
  <2>2. /\ conns[c].phase = "storing" /\ held' = held /\ landed' = landed
        /\ accepted' \ accepted \subseteq {item.key}
        /\ conns[c].verdict # "accepted" => accepted' = accepted
    BY <1>8 DEF StoreReceipt, tables, history
  <2>3. conns[c].verdict = "accepted" => Landed(sqlite, landed, item.key)
    BY <2>2 DEF PhoneInv, ConnOK, Carries, Current
  <2> HIDE DEF item
  <2>4. \A key \in accepted' \ accepted : Landed(sqlite, landed', key)
    BY <2>2, <2>3
  <2>5. conns \in [Conns -> Ingest!Conn]
    BY IngestSays
  <2>6. conns'[c] = k /\ \A d \in Conns : d # c => conns'[d] = conns[d]
    BY <2>1, <2>5
  <2>7. landed \subseteq DOMAIN sqlite.rows
    BY DEF PhoneInv, LandedInv
  <2>8. QED
    BY <2>1, <2>2, <2>4, <2>6, <2>7 DEF Served
<1>9. QED
  BY <1>1, <1>2, <1>3, <1>4, <1>5, <1>6, <1>7, <1>8 DEF Serve, Judge, Handle

LEMMA OfficeKeeps ==
  ASSUME PhoneInv, Ingest!Inv, Office
  PROVE  PhoneInv'
<1>1. PICK c \in Conns : (Serve(c) \/ Lose(c) \/ Abandon(c)) /\ UNCHANGED phoneVars
  BY DEF Office
<1>2. QED
  BY <1>1, ServeIsServed, ServedKeeps

(* The office's half of a step is a step of the ingest that serves         *)
(* handsets it knows nothing about.                                        *)
LEMMA OfficeServes ==
  ASSUME NEW c \in Conns, Serve(c) \/ Lose(c) \/ Abandon(c)
  PROVE  Ingest!Serve(c) \/ Ingest!Lose(c) \/ Ingest!Abandon(c)
<1>1. CASE Lose(c) \/ Abandon(c)
  BY <1>1 DEF Lose, Abandon, Ingest!Lose, Ingest!Abandon, Serving, Ingest!Serving,
              NoConn, Ingest!NoConn, Carrying, Ingest!Carrying,
              ledger, tables, history, Ingest!ledger, Ingest!tables, Ingest!history
<1>2. ASSUME NEW v, Answer(c, v) PROVE Ingest!Answer(c, v)
  BY <1>2 DEF Answer, Ingest!Answer, Current, Ingest!Current
<1>3. ASSUME NEW v, Decide(c, v) PROVE Ingest!Decide(c, v)
  BY <1>3 DEF Decide, Ingest!Decide
<1>4. CASE Arrive(c) \/ Judge(c)
  BY <1>2, <1>3, <1>4
     DEF Arrive, Ingest!Arrive, Judge, Ingest!Judge, Ingest!Serve,
         Replay, Ingest!Replay, RefuseDependent, Ingest!RefuseDependent,
         DeferMissing, Ingest!DeferMissing, PassToHandler, Ingest!PassToHandler,
         Missing, Ingest!Missing, Current, Ingest!Current,
         ledger, tables, history, Ingest!ledger, Ingest!tables, Ingest!history
<1>5. CASE Handle(c)
  BY <1>2, <1>3, <1>5
     DEF Handle, Ingest!Handle, Ingest!Serve, HandlerWrites, Ingest!HandlerWrites,
         HandlerFindsOwn, Ingest!HandlerFindsOwn, HandlerRefuses, Ingest!HandlerRefuses,
         HandlerPostpones, Ingest!HandlerPostpones, Applies, Ingest!Applies,
         Current, Ingest!Current,
         ledger, tables, history, Ingest!ledger, Ingest!tables, Ingest!history
<1>6. CASE StoreReceipt(c)
  BY <1>2, <1>6
     DEF StoreReceipt, Ingest!StoreReceipt, Ingest!Serve, Current, Ingest!Current,
         ledger, tables, history, Ingest!ledger, Ingest!tables, Ingest!history
<1>7. QED
  BY <1>1, <1>4, <1>5, <1>6 DEF Serve

LEMMA SameOffice ==
  ASSUME UNCHANGED officeVars
  PROVE  UNCHANGED Ingest!officeVars
BY DEF officeVars, ledger, tables, history,
       Ingest!officeVars, Ingest!ledger, Ingest!tables, Ingest!history

LEMMA DropIsLoss ==
  ASSUME NEW c \in Conns, conns[c].phase \in {"travelling", "answered"},
         conns' = [conns EXCEPT ![c] = NoConn], UNCHANGED <<ledger, tables, history>>
  PROVE  Ingest!Lose(c)
BY DEF Ingest!Lose, NoConn, Ingest!NoConn, Carrying, Ingest!Carrying,
       ledger, tables, history, Ingest!ledger, Ingest!tables, Ingest!history

LEMMA PostIsSend ==
  ASSUME PhoneInv, NEW c \in Conns, NEW auto \in BOOLEAN, NEW cutoff, StartPass(c, auto, cutoff)
  PROVE  Ingest!Send(c) \/ UNCHANGED Ingest!officeVars
<1>1. UNCHANGED <<ledger, tables, history>> /\ conns[c].phase = "idle"
  BY DEF StartPass
<1>2. CASE UNCHANGED <<waitingOn, batch, conns>>
  <2>1. UNCHANGED officeVars
    BY <1>1, <1>2 DEF officeVars
  <2>2. QED
    BY <2>1, SameOffice
<1>3. ASSUME NEW items, Posts(c, items)
      PROVE  Ingest!Send(c)
  <2>1. /\ items \in Seq(Item) /\ items # <<>>
        /\ conns' = [conns EXCEPT ![c] = Carrying("travelling", items, 1)]
    BY <1>3 DEF Posts
  <2>2. Ingest!Submit(c, items)
    BY <1>1, <2>1 DEF Ingest!Submit, Carrying, Ingest!Carrying
  <2>3. QED
    BY <1>1, <2>1, <2>2 DEF Ingest!Send, ledger, tables, history,
                            Ingest!ledger, Ingest!tables, Ingest!history
<1>4. QED
  BY <1>2, <1>3, StartPassDoes DEF PhoneInv, StoreInv

LEMMA StepIsIngests ==
  ASSUME PhoneInv, [Next]_vars
  PROVE  [Ingest!Next]_(Ingest!officeVars)
<1>1. CASE User
  <2>1. UNCHANGED officeVars
    BY <1>1 DEF User, AtRest, SignIn
  <2>2. QED
    BY <2>1, SameOffice
<1>2. CASE Clock
  <2>1. UNCHANGED officeVars
    BY <1>2 DEF Clock, AtRest
  <2>2. QED
    BY <2>1, SameOffice
<1>3. CASE Phone
  <2>1. ASSUME NEW c \in Conns, NEW auto \in BOOLEAN, NEW cutoff, StartPass(c, auto, cutoff)
        PROVE  [Ingest!Next]_(Ingest!officeVars)
    BY <2>1, PostIsSend DEF Ingest!Next
  <2>2. ASSUME NEW c \in Conns, Receive(c) \/ Unauthorised(c)
        PROVE  [Ingest!Next]_(Ingest!officeVars)
    <3>1. /\ conns[c].phase \in {"travelling", "answered"}
          /\ conns' = [conns EXCEPT ![c] = NoConn] /\ UNCHANGED <<ledger, tables, history>>
      BY <2>2 DEF Receive, Unauthorised
    <3>2. Ingest!Lose(c)
      BY <3>1, DropIsLoss
    <3>3. QED
      BY <3>2 DEF Ingest!Next
  <2>3. CASE GiveUp \/ Settle \/ Kill
    <3>1. UNCHANGED officeVars
      BY <2>3 DEF GiveUp, Settle, Kill
    <3>2. QED
      BY <3>1, SameOffice
  <2>4. QED
    BY <1>3, <2>1, <2>2, <2>3 DEF Phone
<1>4. CASE Office
  <2>1. PICK c \in Conns : Serve(c) \/ Lose(c) \/ Abandon(c)
    BY <1>4 DEF Office
  <2>2. QED
    BY <2>1, OfficeServes DEF Ingest!Next
<1>5. CASE UNCHANGED vars
  <2>1. UNCHANGED officeVars
    BY <1>5 DEF vars
  <2>2. QED
    BY <2>1, SameOffice
<1>6. QED
  BY <1>1, <1>2, <1>3, <1>4, <1>5 DEF Next

LEMMA InitInv == Init => Inv
<1> SUFFICES ASSUME Init PROVE Inv
  OBVIOUS
<1>1. Ingest!Inv
  <2>1. Ingest!IngestInit
    BY DEF Init, IngestInit, Ingest!IngestInit, NoConn, Ingest!NoConn, Carrying, Ingest!Carrying
  <2>2. QED
    BY <2>1, Ingest!InitInv, IngestAssumptions
<1>2. /\ sqlite.rows = <<>> /\ DOMAIN sqlite.rows = {} /\ Len(sqlite.rows) = 0
      /\ sqlite.body = [e \in Entities |-> None] /\ sqlite.sync = [e \in Entities |-> None]
      /\ sqlite \in Stores
  BY DEF Init, EmptyStore, Stores
<1>3. /\ saving = None /\ signedIn = TRUE /\ waitingOn = None /\ batch = <<>> /\ todo = <<>>
      /\ conns = [c \in Conns |-> NoConn] /\ accepted = {} /\ held = {} /\ landed = {}
  BY DEF Init, IngestInit
<1>4. StoreInv
  BY <1>2, <1>3, BoundsAssumption DEF StoreInv, StoreOK
<1>5. CreatesInv
  BY <1>2, <1>3 DEF CreatesInv
<1>6. LandedInv
  <2>1. \A e \in Entities : sqlite.sync[e] # "synced"
    BY <1>2, NullAssumption DEF States
  <2>2. QED
    BY <1>2, <1>3, <2>1 DEF LandedInv
<1>7. PassInv
  BY <1>3 DEF PassInv
<1>8. \A c \in Conns : ConnOK(c)
  <2>1. NoConn.items = <<>> /\ NoConn.phase = "idle"
    BY DEF NoConn, Carrying
  <2>2. QED
    BY <1>3, <2>1, ConnsAssumption DEF ConnOK, Carries, Matches
<1>9. QED
  BY <1>1, <1>4, <1>5, <1>6, <1>7, <1>8 DEF Inv, PhoneInv

LEMMA PhoneKeeps ==
  ASSUME Inv, Next
  PROVE  PhoneInv'
<1>1. PhoneInv /\ Ingest!Inv
  BY DEF Inv
<1>2. CASE User
  <2>1. ASSUME NEW a \in Acts, AtRest(Save(a)) PROVE PhoneInv'
    BY <1>1, <2>1, SaveKeeps
  <2>2. CASE AtRest(QueueSaved)
    BY <1>1, <2>2, QueueSavedKeeps
  <2>3. ASSUME NEW q \in DOMAIN sqlite.rows, AtRest(Retry(q)) \/ AtRest(Discard(q)) PROVE PhoneInv'
    BY <1>1, <2>3, RetryKeeps, DiscardKeeps
  <2>4. CASE SignIn
    BY <1>1, <2>4, SignInKeeps
  <2>5. QED
    BY <1>2, <2>1, <2>2, <2>3, <2>4 DEF User
<1>3. CASE Clock
  BY <1>1, <1>3, ClockKeeps DEF Clock
<1>4. CASE Phone
  <2>1. ASSUME NEW c \in Conns, NEW auto \in BOOLEAN, NEW cutoff, StartPass(c, auto, cutoff)
        PROVE  PhoneInv'
    BY <1>1, <2>1, StartPassKeeps
  <2>2. ASSUME NEW c \in Conns, Receive(c) \/ Unauthorised(c) PROVE PhoneInv'
    BY <1>1, <2>2, ReceiveKeeps, UnauthorisedKeeps
  <2>3. CASE GiveUp \/ Settle \/ Kill
    BY <1>1, <2>3, GiveUpKeeps, SettleKeeps, KillKeeps
  <2>4. QED
    BY <1>4, <2>1, <2>2, <2>3 DEF Phone
<1>5. CASE Office
  BY <1>1, <1>5, OfficeKeeps
<1>6. QED
  BY <1>2, <1>3, <1>4, <1>5 DEF Next

LEMMA StepInv == Inv /\ [Next]_vars => Inv'
<1> SUFFICES ASSUME Inv, [Next]_vars PROVE Inv'
  OBVIOUS
<1>1. PhoneInv /\ Ingest!Inv
  BY DEF Inv
<1>2. Ingest!Inv'
  BY <1>1, StepIsIngests, IngestStep
<1>3. PhoneInv'
  <2>1. CASE Next
    BY <2>1, PhoneKeeps
  <2>2. CASE UNCHANGED vars
    BY <1>1, <2>2
       DEF vars, phoneVars, officeVars, ledger, tables, history, PhoneInv, StoreInv, CreatesInv,
           LandedInv, PassInv, ConnOK
  <2>3. QED
    BY <2>1, <2>2
<1>4. QED
  BY <1>2, <1>3 DEF Inv

(* The inductive invariant holds throughout.                               *)
THEOREM Invariance == Spec => []Inv
<1>1. QED
  BY InitInv, StepInv, PTL DEF Spec

(* Every variable keeps its type.                                          *)
THEOREM TypeCorrect == Spec => []TypeOK
<1>1. Inv => TypeOK
  <2> SUFFICES ASSUME Inv PROVE TypeOK
    OBVIOUS
  <2>1. StoreOK(sqlite) /\ Ingest!Inv /\ StoreInv /\ PassInv
    BY DEF Inv, PhoneInv, StoreInv
  <2>2. /\ sqlite.rows \in Seq(Row)
        /\ sqlite.body \in [Entities -> Bodies \cup {None}]
        /\ sqlite.sync \in [Entities -> States \cup {None}]
    BY <2>1, RowsOf
  <2>3. \A i \in DOMAIN todo : todo[i].outcome \in Verdicts \cup {"lost", "unauthorised"}
    <3>1. \A i \in DOMAIN todo : todo[i] \in Settlings
      BY <2>1 DEF PassInv
    <3>2. QED
      BY <3>1 DEF Settlings, Outcomes
  <2>4. QED
    BY <2>1, <2>2, <2>3, IngestSays DEF TypeOK, StoreInv, PassInv
<1>2. QED
  BY <1>1, Invariance, PTL

(* A record the phone draws as sent is one the office holds, whatever was  *)
(* lost, resent, retried or killed on the way.                             *)
THEOREM SyncedIsHeld == Spec => []SyncedMeansHeld
<1>1. Inv => SyncedMeansHeld
  BY DEF Inv, PhoneInv, LandedInv, SyncedMeansHeld
<1>2. QED
  BY <1>1, Invariance, PTL

(* A row marked synced whose key is its own was applied at the office by   *)
(* its own item.                                                           *)
THEOREM SyncedRowLanded == Spec => []SyncedRowsLanded
<1>1. Inv => SyncedRowsLanded
  <2> SUFFICES ASSUME Inv, NEW q \in RowsIn(sqlite, {"synced"}), KeyIsOwn(q)
               PROVE  q \in landed
    BY DEF SyncedRowsLanded
  <2>1. q \in DOMAIN sqlite.rows /\ sqlite.rows[q].state \in {"synced", "pruned"}
    BY DEF RowsIn
  <2>2. Landed(sqlite, landed, KeyOf(sqlite.rows[q])) /\ landed \subseteq DOMAIN sqlite.rows
    BY <2>1 DEF Inv, PhoneInv, LandedInv
  <2>3. QED
    BY <2>2 DEF Landed, KeyIsOwn
<1>2. QED
  BY <1>1, Invariance, PTL

(* No record reaches the office ahead of the records it was filed with,    *)
(* now that the requests are the ones this outbox makes.                   *)
THEOREM NothingIsOrphaned == Spec => []NoOrphans
<1>1. Inv => NoOrphans
  BY IngestSays DEF Inv
<1>2. QED
  BY <1>1, Invariance, PTL

(* The handset is one of the handsets the open ingest serves: whatever is  *)
(* proved of the office facing unknown handsets holds of it here.          *)
THEOREM FeedsTheIngest == Spec => Ingest!Spec
<1>1. Init => Ingest!IngestInit
  BY DEF Init, IngestInit, Ingest!IngestInit, NoConn, Ingest!NoConn, Carrying, Ingest!Carrying
<1>2. Inv /\ [Next]_vars => [Ingest!Next]_(Ingest!officeVars)
  BY StepIsIngests DEF Inv
<1>3. QED
  BY <1>1, <1>2, Invariance, PTL DEF Spec, Ingest!Spec
-----------------------------------------------------------------------------
(* What any step does to the rows there are.                               *)
Moves == \/ sqlite' = sqlite
         \/ Edited(sqlite, sqlite')
         \/ \E X, Y : Kept(sqlite, sqlite', X, Y)

LEMMA StepMoves == Inv /\ [Next]_vars => Moves
<1> SUFFICES ASSUME Inv, [Next]_vars PROVE Moves
  OBVIOUS
<1>1. PhoneInv /\ Ingest!Inv /\ StoreOK(sqlite)
  BY DEF Inv, PhoneInv, StoreInv
<1>2. CASE User
  <2>1. ASSUME NEW a \in Acts, AtRest(Save(a)) PROVE Moves
    BY <1>1, <2>1, SaveKeeps DEF Moves
  <2>2. CASE AtRest(QueueSaved)
    BY <1>1, <2>2, QueueSavedKeeps DEF Moves
  <2>3. ASSUME NEW q \in DOMAIN sqlite.rows, AtRest(Retry(q)) PROVE Moves
    BY <1>1, <2>3, RetryKeeps DEF Moves
  <2>4. ASSUME NEW q \in DOMAIN sqlite.rows, AtRest(Discard(q)) PROVE Moves
    BY <1>1, <2>4, DiscardKeeps DEF Moves
  <2>5. CASE SignIn
    BY <1>1, <2>5, SignInKeeps DEF Moves
  <2>6. QED
    BY <1>2, <2>1, <2>2, <2>3, <2>4, <2>5 DEF User
<1>3. CASE Clock
  BY <1>1, <1>3, ClockKeeps DEF Clock, Moves
<1>4. CASE Phone
  <2>1. ASSUME NEW c \in Conns, NEW auto \in BOOLEAN, NEW cutoff, StartPass(c, auto, cutoff)
        PROVE  Moves
    BY <1>1, <2>1, StartPassDoes DEF Moves, StoreTidied
  <2>2. CASE Settle
    <3>1. PICK Y : Kept(sqlite, sqlite', {Head(todo).row}, Y)
      BY <1>1, <2>2, SettleDoes
    <3>2. QED
      BY <3>1 DEF Moves
  <2>3. ASSUME NEW c \in Conns, Receive(c) \/ Unauthorised(c) PROVE Moves
    BY <2>3 DEF Receive, Unauthorised, Moves
  <2>4. CASE GiveUp \/ Kill
    BY <2>4 DEF GiveUp, Kill, Moves
  <2>5. QED
    BY <1>4, <2>1, <2>2, <2>3, <2>4 DEF Phone
<1>5. CASE Office
  BY <1>5 DEF Office, phoneVars, Moves
<1>6. CASE UNCHANGED vars
  BY <1>6 DEF vars, phoneVars, Moves
<1>7. QED
  BY <1>2, <1>3, <1>4, <1>5, <1>6 DEF Next

(* What has been acknowledged is never taken back by a late failure, a     *)
(* refused parent, a retry or a recovery.                                  *)
THEOREM AcknowledgedForGood == Spec => SyncedIsFinal
<1>1. Inv /\ [Next]_vars =>
        [\A q \in RowsIn(sqlite, {"synced"}) : sqlite'.rows[q].state \in {"synced", "pruned"}]_vars
  <2> SUFFICES ASSUME Inv, [Next]_vars, NEW q \in RowsIn(sqlite, {"synced"})
               PROVE  sqlite'.rows[q].state \in {"synced", "pruned"}
    OBVIOUS
  <2>1. q \in DOMAIN sqlite.rows /\ sqlite.rows[q].state = "synced"
    BY DEF RowsIn
  <2>2. CASE sqlite' = sqlite
    BY <2>1, <2>2
  <2>3. CASE Edited(sqlite, sqlite')
    BY <2>1, <2>3 DEF Edited
  <2>4. ASSUME NEW X, NEW Y, Kept(sqlite, sqlite', X, Y)
        PROVE  sqlite'.rows[q].state \in {"synced", "pruned"}
    BY <2>1, <2>4 DEF Kept, StateKept
  <2>5. QED
    BY <2>2, <2>3, <2>4, StepMoves DEF Moves
<1>2. QED
  BY <1>1, Invariance, PTL DEF Spec, SyncedIsFinal

(* No request goes out with an item that depends on a record which lies    *)
(* refused, or given up on, on the phone.                                  *)
THEOREM NothingBehindTheDead == Spec => NothingSentBehindTheDead
<1> DEFINE P == \A i \in DOMAIN batch' : batch = <<>> =>
                  sqlite'.rows[batch'[i].row].deps \intersect DeadCreates(sqlite') = {}
<1>1. Inv /\ [Next]_vars => [P]_vars
  <2> SUFFICES ASSUME Inv, [Next]_vars, NEW i \in DOMAIN batch', batch = <<>>
               PROVE  sqlite'.rows[batch'[i].row].deps \intersect DeadCreates(sqlite') = {}
    BY DEF P
  <2>1. StoreOK(sqlite)
    BY DEF Inv, PhoneInv, StoreInv
  <2>2. batch' # <<>> /\ batch' # batch
    OBVIOUS
  <2>3. ASSUME NEW c \in Conns, NEW auto \in BOOLEAN, NEW cutoff, StartPass(c, auto, cutoff)
        PROVE  sqlite'.rows[batch'[i].row].deps \intersect DeadCreates(sqlite') = {}
    <3>1. PICK items : Posts(c, items)
      BY <2>1, <2>2, <2>3, StartPassDoes
    <3>2. QED
      BY <3>1 DEF Posts
  <2>4. \E c \in Conns, auto \in BOOLEAN : \E cutoff \in Cutoffs : StartPass(c, auto, cutoff)
    BY <2>2 DEF Next, User, Clock, Phone, Office, AtRest, SignIn, Receive, Unauthorised, GiveUp,
                Settling, Settle, Kill, vars, phoneVars
  <2>5. QED
    BY <2>3, <2>4
<1>2. QED
  BY <1>1, Invariance, PTL DEF Spec, NothingSentBehindTheDead, P

(* The records of the phone, as FieldDelivery sees them: those it shows,   *)
(* those it let go of, those it was told about.                            *)
Gone == EntitiesWith("create", {"discarded"})
Told == EntitiesWith("create", {"synced", "pruned"})

CreatedIn(db, S) ==
  {e \in Entities : \E q \in DOMAIN db.rows :
     db.rows[q].state \in S /\ db.rows[q].op = "create" /\ db.rows[q].entity = e}

LEMMA TheyAre ==
  ASSUME StoreOK(sqlite)
  PROVE  Gone = CreatedIn(sqlite, {"discarded"}) /\ Told = CreatedIn(sqlite, {"synced", "pruned"})
<1>1. \A q \in DOMAIN sqlite.rows : sqlite.rows[q].entity \in Entities
  BY RowsOf
<1>2. QED
  BY <1>1 DEF Gone, Told, EntitiesWith, EntitiesOf, RowsIn, CreatedIn

LEMMA TheyWillBe ==
  ASSUME StoreOK(sqlite')
  PROVE  Gone' = CreatedIn(sqlite', {"discarded"}) /\ Told' = CreatedIn(sqlite', {"synced", "pruned"})
<1>1. \A q \in DOMAIN sqlite'.rows : sqlite'.rows[q].entity \in Entities
  BY RowsOf
<1>2. QED
  BY <1>1 DEF Gone, Told, EntitiesWith, EntitiesOf, RowsIn, CreatedIn

Still == /\ OnPhone' = OnPhone /\ Gone' = Gone
         /\ Told' = Told /\ held' = held

LEMMA StillStutters ==
  ASSUME Still
  PROVE  [Delivery!Next]_(Delivery!vars)
BY DEF Still, Gone, Told, Delivery!vars

LEMMA Authors ==
  ASSUME NEW r \in Entities, r \notin OnPhone, r \notin Gone,
         OnPhone' = OnPhone \cup {r}, Gone' = Gone, Told' = Told, held' = held
  PROVE  [Delivery!Next]_(Delivery!vars)
<1>1. Delivery!Author(r)
  BY DEF Gone, Told, Delivery!Author
<1>2. QED
  BY <1>1 DEF Delivery!Next

LEMMA Lands ==
  ASSUME NEW r \in Entities, r \in OnPhone \/ r \in Gone, r \notin held,
         OnPhone' = OnPhone, Gone' = Gone, Told' = Told, held' = held \cup {r}
  PROVE  [Delivery!Next]_(Delivery!vars)
<1>1. Delivery!Land(r)
  BY DEF Gone, Told, Delivery!Land
<1>2. QED
  BY <1>1 DEF Delivery!Next

LEMMA Acknowledges ==
  ASSUME NEW r \in Entities, r \in held, r \notin Told,
         OnPhone' = OnPhone, Gone' = Gone, Told' = Told \cup {r}, held' = held
  PROVE  [Delivery!Next]_(Delivery!vars)
<1>1. Delivery!Acknowledge(r)
  BY DEF Gone, Told, Delivery!Acknowledge
<1>2. QED
  BY <1>1 DEF Delivery!Next

LEMMA LetsGo ==
  ASSUME NEW r \in Entities, r \in OnPhone, r \notin Told,
         OnPhone' = OnPhone \ {r}, Gone' = Gone \cup {r}, Told' = Told, held' = held
  PROVE  [Delivery!Next]_(Delivery!vars)
<1>1. Delivery!LetGo(r)
  BY DEF Gone, Told, Delivery!LetGo
<1>2. QED
  BY <1>1 DEF Delivery!Next
-----------------------------------------------------------------------------
LEMMA SettledIsTold ==
  ASSUME StoreOK(sqlite), StoreOK(sqlite'), NEW X, NEW Y, Kept(sqlite, sqlite', X, Y)
  PROVE  /\ OnPhone' = OnPhone /\ Gone' = Gone /\ Told \subseteq Told'
         /\ \A e \in Told' \ Told : \E q \in Y : sqlite.rows[q].entity = e
<1>1. /\ DOMAIN sqlite'.rows = DOMAIN sqlite.rows /\ sqlite'.body = sqlite.body
      /\ \A q \in DOMAIN sqlite.rows :
           /\ sqlite'.rows[q].entity = sqlite.rows[q].entity /\ sqlite'.rows[q].op = sqlite.rows[q].op
           /\ sqlite.rows[q].state = "discarded" <=> sqlite'.rows[q].state = "discarded"
           /\ sqlite.rows[q].state \in {"synced", "pruned"} => sqlite'.rows[q].state \in {"synced", "pruned"}
           /\ sqlite'.rows[q].state \in {"synced", "pruned"} =>
                sqlite.rows[q].state \in {"synced", "pruned"} \/ q \in Y
  BY DEF Kept, Same, SameRow, StateKept, Deleted
<1>2. OnPhone' = OnPhone
  BY <1>1 DEF OnPhone
<1>3. Gone' = Gone
  <2>1. CreatedIn(sqlite', {"discarded"}) = CreatedIn(sqlite, {"discarded"})
    <3>1. ASSUME NEW e \in Entities
          PROVE  e \in CreatedIn(sqlite', {"discarded"}) <=> e \in CreatedIn(sqlite, {"discarded"})
      BY <1>1 DEF CreatedIn
    <3>2. QED
      BY <3>1 DEF CreatedIn
  <2>2. QED
    BY <2>1, TheyAre, TheyWillBe
<1>4. Told \subseteq Told'
  BY <1>1, TheyAre, TheyWillBe DEF CreatedIn
<1>5. ASSUME NEW e \in Told', e \notin Told PROVE \E q \in Y : sqlite.rows[q].entity = e
  <2>1. PICK q \in DOMAIN sqlite'.rows :
          /\ sqlite'.rows[q].state \in {"synced", "pruned"} /\ sqlite'.rows[q].op = "create"
          /\ sqlite'.rows[q].entity = e /\ e \in Entities
    BY <1>5, TheyWillBe DEF CreatedIn
  <2>2. sqlite.rows[q].state \notin {"synced", "pruned"}
    BY <1>1, <1>5, <2>1, TheyAre DEF CreatedIn
  <2>3. QED
    BY <1>1, <2>1, <2>2
<1>6. QED
  BY <1>2, <1>3, <1>4, <1>5

LEMMA QuietDelivers ==
  ASSUME StoreOK(sqlite), StoreOK(sqlite'), Kept(sqlite, sqlite', {}, {}), held' = held
  PROVE  [Delivery!Next]_(Delivery!vars)
<1>1. OnPhone' = OnPhone /\ Gone' = Gone /\ Told' = Told
  BY SettledIsTold
<1>2. QED
  BY <1>1, StillStutters DEF Still

LEMMA SettleDelivers ==
  ASSUME PhoneInv, Settle
  PROVE  [Delivery!Next]_(Delivery!vars)
<1> DEFINE t == Head(todo)
<1>1. PICK Y \in SUBSET {t.row} :
        /\ StoreOK(sqlite') /\ Kept(sqlite, sqlite', {t.row}, Y)
        /\ Y # {} => t.outcome = "accepted"
  BY SettleDoes
<1>2. StoreOK(sqlite) /\ held' = held
  BY DEF PhoneInv, StoreInv, Settle, officeVars, tables
<1>3. Settles(sqlite, landed, held, t) /\ t.row \in DOMAIN sqlite.rows
  <2>1. todo \in Seq(Settlings) /\ todo # <<>>
    BY DEF PhoneInv, PassInv, Settle
  <2>2. 1 \in DOMAIN todo /\ t = todo[1]
    BY <2>1
  <2>3. QED
    BY <2>2 DEF PhoneInv, PassInv, InHand
<1> HIDE DEF t
<1>4. /\ OnPhone' = OnPhone /\ Gone' = Gone /\ Told \subseteq Told'
      /\ \A e \in Told' \ Told : \E q \in Y : sqlite.rows[q].entity = e
  BY <1>1, <1>2, SettledIsTold
<1>5. PICK r : r = sqlite.rows[t.row].entity
  OBVIOUS
<1>6. CASE Told' = Told
  BY <1>2, <1>4, <1>6, StillStutters DEF Still
<1>7. CASE Told' # Told
  <2>1. Told' = Told \cup {r} /\ r \notin Told /\ Y # {}
    BY <1>1, <1>4, <1>5, <1>7
  <2>2. r \in held
    BY <1>1, <1>3, <1>5, <2>1 DEF Settles
  <2>3. r \in Entities
    BY <1>2, <1>3, <1>5, RowsOf
  <2>4. QED
    BY <1>2, <1>4, <2>1, <2>2, <2>3, Acknowledges
<1>8. QED
  BY <1>6, <1>7

(* A row more that is neither settled nor gone tells the phone nothing.    *)
LEMMA QueuedTells ==
  ASSUME StoreOK(sqlite), StoreOK(sqlite'), NEW db, db.rows = sqlite.rows, NEW a, Queued(db, sqlite', a)
  PROVE  Gone' = Gone /\ Told' = Told
<1>1. /\ DOMAIN sqlite.rows \subseteq DOMAIN sqlite'.rows
      /\ \A q \in DOMAIN sqlite.rows : sqlite'.rows[q] = sqlite.rows[q]
      /\ \A q \in DOMAIN sqlite'.rows : q \in DOMAIN sqlite.rows \/ sqlite'.rows[q].state = "queued"
  <2>1. CASE DOMAIN sqlite'.rows = DOMAIN sqlite.rows
    BY <2>1 DEF Queued
  <2>2. ASSUME DOMAIN sqlite'.rows = 1 .. Len(sqlite.rows) + 1,
               sqlite'.rows[Len(sqlite.rows) + 1].state = "queued"
        PROVE  /\ DOMAIN sqlite.rows \subseteq DOMAIN sqlite'.rows
               /\ \A q \in DOMAIN sqlite.rows : sqlite'.rows[q] = sqlite.rows[q]
               /\ \A q \in DOMAIN sqlite'.rows : q \in DOMAIN sqlite.rows \/ sqlite'.rows[q].state = "queued"
    <3>1. /\ Len(sqlite.rows) \in Nat /\ DOMAIN sqlite.rows = 1 .. Len(sqlite.rows)
          /\ \A q \in DOMAIN sqlite.rows : sqlite'.rows[q] = sqlite.rows[q]
      BY DEF Queued
    <3>2. \A q \in DOMAIN sqlite'.rows : q \in DOMAIN sqlite.rows \/ q = Len(sqlite.rows) + 1
      BY <2>2, <3>1
    <3>3. QED
      BY <2>2, <3>1, <3>2
  <2>3. QED
    BY <2>1, <2>2 DEF Queued
<1>2. ASSUME NEW S, "queued" \notin S
      PROVE  CreatedIn(sqlite', S) = CreatedIn(sqlite, S)
  <2>1. ASSUME NEW e \in Entities
        PROVE  e \in CreatedIn(sqlite', S) <=> e \in CreatedIn(sqlite, S)
    BY <1>1, <1>2 DEF CreatedIn
  <2>2. QED
    BY <2>1 DEF CreatedIn
<1>3. /\ CreatedIn(sqlite', {"discarded"}) = CreatedIn(sqlite, {"discarded"})
      /\ CreatedIn(sqlite', {"synced", "pruned"}) = CreatedIn(sqlite, {"synced", "pruned"})
  BY <1>2
<1>4. QED
  BY <1>3, TheyAre, TheyWillBe

LEMMA SaveDelivers ==
  ASSUME PhoneInv, NEW a \in Acts, AtRest(Save(a))
  PROVE  [Delivery!Next]_(Delivery!vars)
<1>1. StoreOK(sqlite) /\ StoreOK(sqlite') /\ held' = held
  <2>1. PhoneInv'
    BY SaveKeeps
  <2>2. QED
    BY <2>1 DEF PhoneInv, StoreInv, AtRest, officeVars, tables
<1>2. PICK r : r = a.entity
  OBVIOUS
<1>3. r \in Entities /\ a.body # None
  BY <1>2, ActsAssumption, NoneAssumption DEF Act
<1>4. \E written : Written(sqlite, written, a) /\ (sqlite' = written \/ Queued(written, sqlite', a))
  BY <1>1, SaveDoes DEF AtRest, SavedTogether, SavedApart
<1>5. PICK written : Written(sqlite, written, a) /\ (sqlite' = written \/ Queued(written, sqlite', a))
  BY <1>4
<1>6. /\ written.rows = sqlite.rows
      /\ \A e \in Entities : written.body[e] = IF e = r THEN a.body ELSE sqlite.body[e]
      /\ sqlite'.body = written.body
  BY <1>2, <1>5 DEF Written, Queued
<1>7. OnPhone' = OnPhone \cup {r}
  BY <1>3, <1>6 DEF OnPhone
<1>8. Gone' = Gone /\ Told' = Told
  <2>1. CASE sqlite' = written
    <3>1. sqlite'.rows = sqlite.rows
      BY <1>6, <2>1
    <3>2. QED
      BY <3>1 DEF Gone, Told, EntitiesWith, EntitiesOf, RowsIn
  <2>2. CASE Queued(written, sqlite', a)
    BY <1>1, <1>6, <2>2, QueuedTells
  <2>3. QED
    BY <1>5, <2>1, <2>2
<1>9. CASE r \in OnPhone
  <2>1. OnPhone' = OnPhone
    BY <1>7, <1>9
  <2>2. QED
    BY <1>1, <1>8, <2>1, StillStutters DEF Still
<1>10. CASE r \notin OnPhone
  <2>1. \A q \in DOMAIN sqlite.rows : sqlite.rows[q].entity # r
    BY <1>2, <1>3, <1>10 DEF AtRest, Save, CanAct, OnPhone
  <2>2. r \notin Gone
    BY <1>1, <2>1, TheyAre DEF CreatedIn
  <2>3. QED
    BY <1>1, <1>3, <1>7, <1>8, <1>10, <2>2, Authors
<1>11. QED
  BY <1>9, <1>10

LEMMA QueueSavedDelivers ==
  ASSUME PhoneInv, AtRest(QueueSaved)
  PROVE  [Delivery!Next]_(Delivery!vars)
<1>1. PhoneInv' /\ Queued(sqlite, sqlite', saving)
  BY QueueSavedKeeps
<1>2. StoreOK(sqlite) /\ StoreOK(sqlite') /\ held' = held
  BY <1>1 DEF PhoneInv, StoreInv, AtRest, officeVars, tables
<1>3. Gone' = Gone /\ Told' = Told
  BY <1>1, <1>2, QueuedTells
<1>4. OnPhone' = OnPhone
  BY <1>1 DEF Queued, OnPhone
<1>5. QED
  BY <1>2, <1>3, <1>4, StillStutters DEF Still

LEMMA DiscardDelivers ==
  ASSUME PhoneInv, NEW q \in DOMAIN sqlite.rows, AtRest(Discard(q))
  PROVE  [Delivery!Next]_(Delivery!vars)
<1>1. /\ Removed(sqlite, sqlite', q) /\ sqlite.rows[q].state \in {"rejected", "failed"}
      /\ held' = held
  BY DiscardStep DEF officeVars, tables
<1>2. StoreOK(sqlite) /\ StoreOK(sqlite') /\ CreatesInv
  BY <1>1 DEF PhoneInv, StoreInv, Removed
<1>3. PICK r : r = sqlite.rows[q].entity
  OBVIOUS
<1>4. r \in Entities
  BY <1>2, <1>3, RowsOf
<1>5. /\ DOMAIN sqlite'.rows = DOMAIN sqlite.rows
      /\ \A p \in DOMAIN sqlite.rows :
           /\ sqlite'.rows[p].entity = sqlite.rows[p].entity /\ sqlite'.rows[p].op = sqlite.rows[p].op
           /\ p # q => sqlite'.rows[p].state = sqlite.rows[p].state
      /\ sqlite'.rows[q].state = "discarded"
  BY <1>1 DEF Removed, SameRow
<1>6. CreatedIn(sqlite', {"synced", "pruned"}) = CreatedIn(sqlite, {"synced", "pruned"})
  <2>1. ASSUME NEW e \in Entities
        PROVE  e \in CreatedIn(sqlite', {"synced", "pruned"}) <=> e \in CreatedIn(sqlite, {"synced", "pruned"})
    BY <1>1, <1>5 DEF CreatedIn
  <2>2. QED
    BY <2>1 DEF CreatedIn
<1>7. Told' = Told
  BY <1>2, <1>6, TheyAre, TheyWillBe
<1>8. CASE sqlite.rows[q].op = "create"
  <2>1. CreatedIn(sqlite', {"discarded"}) = CreatedIn(sqlite, {"discarded"}) \cup {r}
    <3>1. ASSUME NEW e \in Entities
          PROVE  e \in CreatedIn(sqlite', {"discarded"}) <=> e \in CreatedIn(sqlite, {"discarded"}) \cup {r}
      <4>1. CASE e = r
        BY <1>3, <1>5, <1>8, <4>1 DEF CreatedIn
      <4>2. CASE e # r
        BY <1>1, <1>3, <1>5, <4>2 DEF CreatedIn
      <4>3. QED
        BY <4>1, <4>2
    <3>2. QED
      BY <1>4, <3>1 DEF CreatedIn
  <2>2. Gone' = Gone \cup {r}
    BY <1>2, <2>1, TheyAre, TheyWillBe
  <2>3. \A e \in Entities : sqlite'.body[e] = IF e = r THEN None ELSE sqlite.body[e]
    BY <1>1, <1>3, <1>8 DEF Removed
  <2>4. OnPhone' = OnPhone \ {r}
    BY <2>3 DEF OnPhone
  <2>5. r \in OnPhone
    BY <1>1, <1>2, <1>3, <1>4, <1>8 DEF OnPhone, CreatesInv
  <2>6. r \notin CreatedIn(sqlite, {"synced", "pruned"})
    BY <1>1, <1>2, <1>3, <1>8 DEF CreatedIn, CreatesInv
  <2>7. r \notin Told
    BY <1>2, <2>6, TheyAre
  <2>8. QED
    BY <1>1, <1>4, <1>7, <2>2, <2>4, <2>5, <2>7, LetsGo
<1>9. CASE sqlite.rows[q].op # "create"
  <2>1. \A e \in Entities : sqlite'.body[e] = sqlite.body[e]
    BY <1>1, <1>9 DEF Removed
  <2>2. OnPhone' = OnPhone
    BY <2>1 DEF OnPhone
  <2>3. CreatedIn(sqlite', {"discarded"}) = CreatedIn(sqlite, {"discarded"})
    <3>1. ASSUME NEW e \in Entities
          PROVE  e \in CreatedIn(sqlite', {"discarded"}) <=> e \in CreatedIn(sqlite, {"discarded"})
      BY <1>5, <1>9 DEF CreatedIn
    <3>2. QED
      BY <3>1 DEF CreatedIn
  <2>4. Gone' = Gone
    BY <1>2, <2>3, TheyAre, TheyWillBe
  <2>5. QED
    BY <1>1, <1>7, <2>2, <2>4, StillStutters DEF Still
<1>10. QED
  BY <1>8, <1>9

(* Where the outbox stands still, only the tables can move.                *)
LEMMA SameStoreIsStill ==
  ASSUME sqlite' = sqlite
  PROVE  OnPhone' = OnPhone /\ Gone' = Gone /\ Told' = Told
BY DEF OnPhone, Gone, Told, EntitiesWith, EntitiesOf, RowsIn

LEMMA OfficeDelivers ==
  ASSUME PhoneInv, Ingest!Inv, Office
  PROVE  [Delivery!Next]_(Delivery!vars)
<1>1. PICK c \in Conns : (Serve(c) \/ Lose(c) \/ Abandon(c)) /\ sqlite' = sqlite
  BY DEF Office, phoneVars
<1>2. OnPhone' = OnPhone /\ Gone' = Gone /\ Told' = Told
  BY <1>1, SameStoreIsStill
<1>3. held' = held \/ HandlerWrites(c)
  BY <1>1 DEF Serve, Lose, Abandon, Arrive, Judge, Replay, RefuseDependent, DeferMissing, PassToHandler,
              Handle, HandlerFindsOwn, HandlerRefuses, HandlerPostpones, StoreReceipt, tables
<1>4. CASE held' = held
  BY <1>2, <1>4, StillStutters DEF Still
<1>5. CASE HandlerWrites(c) /\ held' # held
  <2>1. PICK r : r = Current(c).key.entity
    OBVIOUS
  <2>2. /\ held' = held \cup {r} /\ conns[c].phase \in Serving
        /\ Current(c).key.op = "create" <=> r \notin held
    BY <1>5, <2>1 DEF HandlerWrites, Applies, Serving
  <2>3. r \notin held
    BY <1>5, <2>2
  <2>4. PICK q : q = Current(c).row
    OBVIOUS
  <2>5. q \in DOMAIN sqlite.rows /\ sqlite.rows[q].op = "create" /\ sqlite.rows[q].entity = r
    BY <2>1, <2>2, <2>3, <2>4, CurrentIs
  <2>6. StoreOK(sqlite) /\ CreatesInv /\ r \in Entities
    BY <2>5, RowsOf DEF PhoneInv, StoreInv
  <2>7. r \in OnPhone \/ r \in Gone
    <3>1. CASE sqlite.rows[q].state = "discarded"
      BY <2>5, <2>6, <3>1, TheyAre DEF CreatedIn
    <3>2. CASE sqlite.rows[q].state # "discarded"
      BY <2>5, <2>6, <3>2 DEF CreatesInv, OnPhone
    <3>3. QED
      BY <3>1, <3>2
  <2>8. QED
    BY <1>2, <2>2, <2>3, <2>6, <2>7, Lands
<1>6. QED
  BY <1>3, <1>4, <1>5

LEMMA StepDelivers == Inv /\ [Next]_vars => [Delivery!Next]_(Delivery!vars)
<1> SUFFICES ASSUME Inv, [Next]_vars PROVE [Delivery!Next]_(Delivery!vars)
  OBVIOUS
<1>1. PhoneInv /\ Ingest!Inv /\ StoreOK(sqlite)
  BY DEF Inv, PhoneInv, StoreInv
<1>2. StoreOK(sqlite')
  BY StepInv DEF Inv, PhoneInv, StoreInv
<1>3. ASSUME Kept(sqlite, sqlite', {}, {}), held' = held
      PROVE  [Delivery!Next]_(Delivery!vars)
  BY <1>1, <1>2, <1>3, QuietDelivers
<1>4. ASSUME sqlite' = sqlite, held' = held
      PROVE  [Delivery!Next]_(Delivery!vars)
  BY <1>4, SameStoreIsStill, StillStutters DEF Still
<1>5. CASE User
  <2>1. ASSUME NEW a \in Acts, AtRest(Save(a)) PROVE [Delivery!Next]_(Delivery!vars)
    BY <1>1, <2>1, SaveDelivers
  <2>2. CASE AtRest(QueueSaved)
    BY <1>1, <2>2, QueueSavedDelivers
  <2>3. ASSUME NEW q \in DOMAIN sqlite.rows, AtRest(Retry(q)) PROVE [Delivery!Next]_(Delivery!vars)
    <3>1. Kept(sqlite, sqlite', {}, {}) /\ held' = held
      BY <1>1, <2>3, RetryKeeps DEF AtRest, officeVars, tables
    <3>2. QED
      BY <1>3, <3>1
  <2>4. ASSUME NEW q \in DOMAIN sqlite.rows, AtRest(Discard(q)) PROVE [Delivery!Next]_(Delivery!vars)
    BY <1>1, <2>4, DiscardDelivers
  <2>5. CASE SignIn
    <3>1. Kept(sqlite, sqlite', {}, {}) /\ held' = held
      BY <1>1, <2>5, SignInKeeps DEF SignIn, officeVars, tables
    <3>2. QED
      BY <1>3, <3>1
  <2>6. QED
    BY <1>5, <2>1, <2>2, <2>3, <2>4, <2>5 DEF User
<1>6. CASE Clock
  <2>1. Kept(sqlite, sqlite', {}, {}) /\ held' = held
    BY <1>1, <1>6, ClockKeeps DEF Clock, AtRest, officeVars, tables
  <2>2. QED
    BY <1>3, <2>1
<1>7. CASE Phone
  <2>1. ASSUME NEW c \in Conns, NEW auto \in BOOLEAN, NEW cutoff, StartPass(c, auto, cutoff)
        PROVE  [Delivery!Next]_(Delivery!vars)
    <3>1. Kept(sqlite, sqlite', {}, {})
      BY <1>1, <2>1, StartPassDoes DEF StoreTidied
    <3>2. held' = held
      BY <2>1 DEF StartPass, tables
    <3>3. QED
      BY <1>3, <3>1, <3>2
  <2>2. CASE Settle
    BY <1>1, <2>2, SettleDelivers
  <2>3. ASSUME NEW c \in Conns, Receive(c) \/ Unauthorised(c) PROVE [Delivery!Next]_(Delivery!vars)
    BY <1>4, <2>3 DEF Receive, Unauthorised, tables
  <2>4. CASE GiveUp \/ Kill
    BY <1>4, <2>4 DEF GiveUp, Kill, officeVars, tables
  <2>5. QED
    BY <1>7, <2>1, <2>2, <2>3, <2>4 DEF Phone
<1>8. CASE Office
  BY <1>1, <1>8, OfficeDelivers
<1>9. CASE UNCHANGED vars
  BY <1>4, <1>9 DEF vars, phoneVars, officeVars, tables
<1>10. QED
  BY <1>5, <1>6, <1>7, <1>8, <1>9 DEF Next

(* The outbox, the wire and the ingest together deliver records as         *)
(* FieldDelivery says: each lands at most once, after the phone made it,   *)
(* is acknowledged only once it has landed, for good, and is let go of     *)
(* only while it is not acknowledged.                                      *)
THEOREM Delivers == Spec => DeliversRecords
<1>1. Init => Delivery!Init
  <2> SUFFICES ASSUME Init PROVE Delivery!Init
    OBVIOUS
  <2>1. /\ DOMAIN sqlite.rows = {} /\ sqlite.body = [e \in Entities |-> None] /\ held = {}
    BY DEF Init, EmptyStore, IngestInit
  <2>2. OnPhone = {} /\ Gone = {} /\ Told = {}
    BY <2>1 DEF OnPhone, Gone, Told, EntitiesWith, EntitiesOf, RowsIn
  <2>3. QED
    BY <2>1, <2>2 DEF Delivery!Init, Gone, Told
<1>2. QED
  BY <1>1, Invariance, StepDelivers, PTL DEF Spec, DeliversRecords, Delivery!Spec

(* The records that are made in one transaction with their outbox row, and *)
(* not edited afterwards, as visits are.                                   *)
SavedWhole == {e \in Entities : \A a \in Acts : a.entity = e => a.together /\ a.op = "create"}

Drawn(db) == \A e \in SavedWhole : db.sync[e] = "queued" => \E q : OpenRow(db, q, e)

LEMMA KeptDraws ==
  ASSUME NEW db, NEW to, NEW X, NEW Y, Kept(db, to, X, Y), Drawn(db)
  PROVE  Drawn(to)
BY DEF Kept, DrawnKept, Drawn, SavedWhole

(* An act whose key no row carries is given a row.                         *)
LEMMA EnqueueAdds ==
  ASSUME NEW db, StoreOK(db), NEW a \in Act, NEW deps, Base(db, a) = {},
         NEW to, to = Enqueue(db, a, deps)
  PROVE  \E q : OpenRow(to, q, a.entity)
<1> DEFINE row == [entity |-> a.entity, op |-> a.op, body |-> a.body, n |-> Number(db, a), deps |-> deps,
                   state |-> "queued", attempts |-> 0, due |-> TRUE]
           rows == Append(db.rows, row)
<1>1. db.rows \in Seq(Row) /\ Len(db.rows) \in Nat
  BY RowsOf
<1>2. ~Waiting(db, a) /\ ~KeyTaken(db, a)
  BY DEF Waiting, KeyTaken
<1>3. to = [db EXCEPT !.rows = rows]
  BY <1>2 DEF Enqueue
<1>4. row.entity = a.entity /\ row.state = "queued"
  OBVIOUS
<1> HIDE DEF row
<1>5. Len(db.rows) + 1 \in DOMAIN rows /\ rows[Len(db.rows) + 1] = row
  BY <1>1
<1> HIDE DEF rows
<1>6. to.rows = rows
  BY <1>3 DEF StoreOK, Stores
<1>7. OpenRow(to, Len(db.rows) + 1, a.entity)
  BY <1>4, <1>5, <1>6 DEF OpenRow, Open
<1>8. QED
  BY <1>7

(* Rows that stay as they are stay open.                                   *)
LEMMA QueuedOpen ==
  ASSUME NEW db, NEW to, NEW a, Queued(db, to, a), NEW e
  PROVE  (\E q : OpenRow(db, q, e)) => (\E q : OpenRow(to, q, e))
<1>1. ASSUME NEW q, OpenRow(db, q, e) PROVE OpenRow(to, q, e)
  <2>1. DOMAIN db.rows \subseteq DOMAIN to.rows
    BY DEF Queued
  <2>2. QED
    BY <1>1, <2>1 DEF Queued, OpenRow
<1>2. QED
  BY <1>1

LEMMA SaveDraws ==
  ASSUME PhoneInv, NEW a \in Acts, Save(a), Drawn(sqlite)
  PROVE  Drawn(sqlite')
<1>1. StoreOK(sqlite) /\ a \in Act /\ a.deps \in SUBSET Entities
  BY ActsAssumption DEF PhoneInv, StoreInv, Act
<1>2. PICK written : written = WriteLocal(sqlite, a)
  OBVIOUS
<1>3. PICK deps : deps = DepsOf(sqlite, a)
  OBVIOUS
<1>4. Written(sqlite, written, a)
  BY <1>1, <1>2, WriteLocalDoes
<1>5. StoreOK(written) /\ written.rows = sqlite.rows
  BY <1>4 DEF Written
<1>6. a.together => sqlite' = Enqueue(written, a, deps)
  BY <1>2, <1>3 DEF Save
<1>7. ~a.together => sqlite' = written
  BY <1>2, <1>3 DEF Save
<1>8. a.together => Queued(written, sqlite', a)
  <2>1. deps \in SUBSET Entities
    BY <1>1, <1>3 DEF DepsOf, Act
  <2>2. QED
    BY <1>1, <1>5, <1>6, <2>1, EnqueueDoes
<1> SUFFICES ASSUME NEW e \in SavedWhole, sqlite'.sync[e] = "queued"
             PROVE  \E q : OpenRow(sqlite', q, e)
  BY DEF Drawn
<1>9. CASE e = a.entity
  <2>1. a.together /\ a.op = "create"
    BY <1>9 DEF SavedWhole
  <2>2. \A q \in DOMAIN sqlite.rows : sqlite.rows[q].entity # a.entity
    BY <2>1 DEF Save, CanAct
  <2>3. Base(written, a) = {}
    BY <1>5, <2>2 DEF Base, Live, RowsIn
  <2>4. QED
    BY <1>1, <1>5, <1>6, <1>9, <2>1, <2>3, EnqueueAdds
<1>10. CASE e # a.entity
  <2>1. e \in Entities /\ sqlite'.sync = written.sync
    BY <1>7, <1>8 DEF SavedWhole, Queued
  <2>2. sqlite.sync[e] = "queued"
    BY <1>4, <1>10, <2>1 DEF Written
  <2>3. PICK q : OpenRow(sqlite, q, e)
    BY <2>2 DEF Drawn
  <2>4. OpenRow(written, q, e)
    BY <1>5, <2>3 DEF OpenRow
  <2>5. CASE a.together
    BY <1>8, <2>4, <2>5, QueuedOpen
  <2>6. CASE ~a.together
    BY <1>7, <2>4, <2>6
  <2>7. QED
    BY <2>5, <2>6
<1>11. QED
  BY <1>9, <1>10

LEMMA StepDraws == Inv /\ Drawn(sqlite) /\ [Next]_vars => Drawn(sqlite')
<1> SUFFICES ASSUME Inv, Drawn(sqlite), [Next]_vars PROVE Drawn(sqlite')
  OBVIOUS
<1>1. PhoneInv /\ Ingest!Inv /\ StoreOK(sqlite)
  BY DEF Inv, PhoneInv, StoreInv
<1>2. ASSUME NEW X, NEW Y, Kept(sqlite, sqlite', X, Y) PROVE Drawn(sqlite')
  BY <1>2, KeptDraws
<1>3. ASSUME sqlite' = sqlite PROVE Drawn(sqlite')
  BY <1>3
<1>4. CASE User
  <2>1. ASSUME NEW a \in Acts, AtRest(Save(a)) PROVE Drawn(sqlite')
    BY <1>1, <2>1, SaveDraws DEF AtRest
  <2>2. CASE AtRest(QueueSaved)
    <3>1. Queued(sqlite, sqlite', saving) /\ sqlite'.sync = sqlite.sync
      BY <1>1, <2>2, QueueSavedKeeps DEF Queued
    <3>2. QED
      BY <3>1, QueuedOpen DEF Drawn
  <2>3. ASSUME NEW q \in DOMAIN sqlite.rows, AtRest(Retry(q)) PROVE Drawn(sqlite')
    BY <1>1, <1>2, <2>3, RetryKeeps
  <2>4. ASSUME NEW q \in DOMAIN sqlite.rows, AtRest(Discard(q)) PROVE Drawn(sqlite')
    <3>1. Removed(sqlite, sqlite', q) /\ sqlite.rows[q].state \in {"rejected", "failed"}
      BY <1>1, <2>4, DiscardStep
    <3>2. ASSUME NEW e \in SavedWhole, sqlite'.sync[e] = "queued" PROVE sqlite.sync[e] = "queued"
      BY <3>1, <3>2, NullAssumption DEF Removed, SavedWhole, States
    <3>3. ASSUME NEW e, NEW p, OpenRow(sqlite, p, e) PROVE OpenRow(sqlite', p, e)
      BY <3>1, <3>3 DEF Removed, OpenRow, Open, SameRow
    <3>4. QED
      BY <3>2, <3>3 DEF Drawn
  <2>5. CASE SignIn
    BY <1>1, <1>2, <2>5, SignInKeeps
  <2>6. QED
    BY <1>4, <2>1, <2>2, <2>3, <2>4, <2>5 DEF User
<1>5. CASE Clock
  BY <1>1, <1>2, <1>5, ClockKeeps DEF Clock
<1>6. CASE Phone
  <2>1. ASSUME NEW c \in Conns, NEW auto \in BOOLEAN, NEW cutoff, StartPass(c, auto, cutoff)
        PROVE  Drawn(sqlite')
    BY <1>1, <1>2, <2>1, StartPassDoes DEF StoreTidied
  <2>2. CASE Settle
    BY <1>1, <1>2, <2>2, SettleDoes
  <2>3. ASSUME NEW c \in Conns, Receive(c) \/ Unauthorised(c) PROVE Drawn(sqlite')
    BY <1>3, <2>3 DEF Receive, Unauthorised
  <2>4. CASE GiveUp \/ Kill
    BY <1>3, <2>4 DEF GiveUp, Kill
  <2>5. QED
    BY <1>6, <2>1, <2>2, <2>3, <2>4 DEF Phone
<1>7. CASE Office
  BY <1>3, <1>7 DEF Office, phoneVars
<1>8. CASE UNCHANGED vars
  BY <1>3, <1>8 DEF vars, phoneVars
<1>9. QED
  BY <1>4, <1>5, <1>6, <1>7, <1>8 DEF Next

(* A record that is saved in one transaction with its outbox row is not    *)
(* drawn as queued without one, whenever the app was killed and whatever   *)
(* else the salesman's other records went through.                         *)
THEOREM WholeIsQueued ==
  Spec => [](\A e \in SavedWhole :
               sqlite.sync[e] = "queued" => e \in EntitiesOf(sqlite, Unsent(sqlite)))
<1>1. Init => Drawn(sqlite)
  BY NullAssumption DEF Init, EmptyStore, Drawn, SavedWhole, States
<1>2. Inv /\ Drawn(sqlite) /\ [Next]_vars => Drawn(sqlite)'
  BY StepDraws
<1>3. Drawn(sqlite) => \A e \in SavedWhole :
        sqlite.sync[e] = "queued" => e \in EntitiesOf(sqlite, Unsent(sqlite))
  BY DEF Drawn, OpenRow, EntitiesOf, Unsent, RowsIn, Open, States
<1>4. QED
  BY <1>1, <1>2, <1>3, Invariance, PTL DEF Spec

(* So, where every record is saved so, each one that is drawn as queued    *)
(* has a row that will take it.                                            *)
THEOREM SavedIsQueued ==
  ASSUME \A a \in Acts : a.together /\ a.op = "create"
  PROVE  Spec => []EverySavedRecordIsQueued
<1>1. (\A e \in SavedWhole : sqlite.sync[e] = "queued" => e \in EntitiesOf(sqlite, Unsent(sqlite)))
        => EverySavedRecordIsQueued
  BY DEF SavedWhole, EverySavedRecordIsQueued
<1>2. QED
  BY <1>1, WholeIsQueued, PTL
-----------------------------------------------------------------------------
(***************************************************************************)
(* The two ends together. The open ingest makes a create land once if a    *)
(* row always goes out as the same operation on the same record; of this   *)
(* outbox that need not be assumed, for an item on its way says what its   *)
(* row says (ItemOK) and no step renames a row (Stays). So a row whose     *)
(* write has been applied is one of a record the tables hold (FiledInv),   *)
(* and a second create under it finds the record there.                    *)
(***************************************************************************)
FiledInv == \A p \in landed : sqlite.rows[p].entity \in held

(* No step renames a row.                                                  *)
LEMMA StepStays == Inv /\ [Next]_vars => Stays(sqlite, sqlite')
BY StepMoves DEF Moves, Edited, Kept, Same, Stays, SameRow

(* Apart from the office's handler, what has landed and is held stays as   *)
(* it is; and only the handler applies a row again.                        *)
LEMMA NothingLands ==
  ASSUME Next, landed' # landed \/ held' # held \/ rewritten' # rewritten
  PROVE  \E c \in Conns : sqlite' = sqlite /\ (HandlerWrites(c) \/ HandlerFindsOwn(c))
<1> DEFINE Untouched == UNCHANGED <<landed, held, rewritten>>
<1>1. CASE User
  <2>1. Untouched
    BY <1>1 DEF User, AtRest, SignIn, officeVars, tables, history
  <2>2. QED
    BY <2>1
<1>2. CASE Clock
  <2>1. Untouched
    BY <1>2 DEF Clock, AtRest, officeVars, tables, history
  <2>2. QED
    BY <2>1
<1>3. CASE Phone
  <2>1. ASSUME NEW c \in Conns, NEW auto \in BOOLEAN, NEW cutoff \in Cutoffs, StartPass(c, auto, cutoff)
        PROVE  Untouched
    BY <2>1 DEF StartPass, tables, history
  <2>2. ASSUME NEW c \in Conns, Receive(c)  PROVE Untouched
    BY <2>2 DEF Receive, tables, history
  <2>3. ASSUME NEW c \in Conns, Unauthorised(c)  PROVE Untouched
    BY <2>3 DEF Unauthorised, tables, history
  <2>4. ASSUME GiveUp \/ Settle \/ Kill  PROVE Untouched
    BY <2>4 DEF GiveUp, Settle, Kill, officeVars, tables, history
  <2>5. Untouched
    BY <1>3, <2>1, <2>2, <2>3, <2>4 DEF Phone
  <2>6. QED
    BY <2>5
<1>4. CASE Office
  <2>1. PICK c \in Conns : (Serve(c) \/ Lose(c) \/ Abandon(c)) /\ sqlite' = sqlite
    BY <1>4 DEF Office, phoneVars
  <2>2. QED
    BY <2>1 DEF Serve, Lose, Abandon, Arrive, Judge, Replay, RefuseDependent, DeferMissing, PassToHandler,
                Handle, HandlerRefuses, HandlerPostpones, StoreReceipt, tables, history
<1>5. QED
  BY <1>1, <1>2, <1>3, <1>4 DEF Next

LEMMA FiledStep == Inv /\ FiledInv /\ [Next]_vars => FiledInv'
<1> SUFFICES ASSUME Inv, FiledInv, [Next]_vars, NEW p \in landed'
             PROVE  sqlite'.rows[p].entity \in held'
  BY DEF FiledInv
<1>1. Stays(sqlite, sqlite') /\ landed \subseteq DOMAIN sqlite.rows
  BY StepStays DEF Inv, PhoneInv, LandedInv
<1>2. CASE landed' = landed /\ held' = held
  <2>1. sqlite'.rows[p].entity = sqlite.rows[p].entity
    BY <1>1, <1>2 DEF Stays, SameRow
  <2>2. QED
    BY <1>2, <2>1 DEF FiledInv
<1>3. CASE ~(landed' = landed /\ held' = held)
  <2>1. Next
    BY <1>3 DEF vars, officeVars, tables, history
  <2>2. PICK c \in Conns : sqlite' = sqlite /\ (HandlerWrites(c) \/ HandlerFindsOwn(c))
    BY <1>3, <2>1, NothingLands
  <2>3. PICK q, e : q = Current(c).row /\ e = Current(c).key.entity
    OBVIOUS
  <2>4. HandlerWrites(c) /\ held' = held \union {e} /\ landed' = landed \union {q}
    BY <1>3, <2>2, <2>3 DEF HandlerWrites, HandlerFindsOwn
  <2>5. sqlite.rows[q].entity = e
    BY <2>3, <2>4, CurrentIs DEF Inv, HandlerWrites, Serving
  <2>6. QED
    BY <2>2, <2>4, <2>5 DEF FiledInv
<1>4. QED
  BY <1>2, <1>3

LEMMA AgainIsNoCreate ==
  ASSUME Inv, FiledInv, Next, NEW d \in Conns, conns[d].phase = "writing",
         Current(d).row \in rewritten' \ rewritten
  PROVE  Current(d).key.op = "update" \/ Current(d).key.entity \in Upserts
<1>1. PICK c \in Conns : HandlerWrites(c) \/ HandlerFindsOwn(c)
  BY NothingLands
<1>2. conns[c].phase \in Serving /\ conns[d].phase \in Serving
  BY <1>1 DEF HandlerWrites, HandlerFindsOwn, Serving
<1>3. PICK q, e, o : q = Current(c).row /\ e = Current(c).key.entity /\ o = Current(c).key.op
  OBVIOUS
<1>4. Current(d).row = q
  BY <1>1, <1>3 DEF HandlerWrites, HandlerFindsOwn
<1>5. /\ q \in DOMAIN sqlite.rows /\ e = sqlite.rows[q].entity /\ o = sqlite.rows[q].op
      /\ Current(d).key.entity = e /\ Current(d).key.op = o
  BY <1>2, <1>3, <1>4, CurrentIs DEF Inv
<1>6. o \in Ops
  BY <1>5, RowsOf DEF Inv, PhoneInv, StoreInv
<1>7. CASE HandlerWrites(c)
  <2>1. q \in landed /\ (o = "create" <=> e \notin held)
    BY <1>3, <1>4, <1>7 DEF HandlerWrites, Applies
  <2>2. e \in held
    BY <1>5, <2>1 DEF FiledInv
  <2>3. QED
    BY <1>5, <1>6, <2>1, <2>2 DEF Ops
<1>8. CASE HandlerFindsOwn(c)
  <2>1. e \in Upserts
    BY <1>3, <1>4, <1>8 DEF HandlerFindsOwn
  <2>2. QED
    BY <1>5, <2>1
<1>9. QED
  BY <1>1, <1>7, <1>8

(* A record this handset made once is not made again at the office,        *)
(* however often it was lost, resent, retried or sent over two connections *)
(* at once: no create but an upsert's is applied a second time.            *)
THEOREM CreatesAreMadeOnce == Spec => Ingest!CreatesLandOnce
<1> DEFINE Once == \A c \in Conns :
                     /\ conns[c].phase = "writing"
                     /\ Ingest!Current(c).row \in rewritten' \ rewritten
                     => Ingest!Current(c).key.op = "update" \/ Ingest!Current(c).key.entity \in Upserts
<1>1. Init => FiledInv
  BY DEF Init, IngestInit, FiledInv
<1>2. Inv /\ FiledInv /\ [Next]_vars => [Once]_(Ingest!officeVars)
  <2> SUFFICES ASSUME Inv, FiledInv, [Next]_vars PROVE [Once]_(Ingest!officeVars)
    OBVIOUS
  <2>1. CASE Next
    BY <2>1, AgainIsNoCreate DEF Ingest!Current, Current
  <2>2. CASE UNCHANGED vars
    BY <2>2, SameOffice DEF vars
  <2>3. QED
    BY <2>1, <2>2
<1>3. Spec => [][Once]_(Ingest!officeVars)
  BY <1>1, <1>2, FiledStep, Invariance, PTL DEF Spec
<1>4. [][Once]_(Ingest!officeVars) => Ingest!CreatesLandOnce
  BY DEF Ingest!CreatesLandOnce
<1>5. QED
  BY <1>3, <1>4, PTL

(* What the office owes any handset it owes this one: a receipt for what   *)
(* is held, an answer that a receipt backs, and no acceptance withdrawn.   *)
THEOREM OfficeOwesThisHandset ==
  Spec => [](Ingest!ReceiptMeansHeld /\ Ingest!AnswersAreOnRecord) /\ Ingest!AcceptedStands
BY FeedsTheIngest, IngestAssumptions, Ingest!ReceiptsAreHonest, Ingest!AnswersAreBacked,
   Ingest!AcceptanceIsForever, PTL
=============================================================================
