----------------------------- MODULE FieldSync ------------------------------
(***************************************************************************)
(* The handset and the office over a bad connection: the sync pass of      *)
(* mbos-app/src/sync/engine.ts between the outbox and the ingest.          *)
(*                                                                         *)
(* One pass runs at a time (`running`).  It tidies the outbox, picks what  *)
(* may go, sends it in one request, and then settles the rows one by one   *)
(* from the answer; when there is no answer it counts a failure against    *)
(* each.  The request may be lost before or after the office has acted on  *)
(* it; the handset may stop waiting while the office is still at work; and *)
(* the app may be killed between any two steps.                            *)
(*                                                                         *)
(* The statements a pass runs on its own store before it sends are one     *)
(* step: the handset is single-threaded, and the only other writers of the *)
(* store, saving and the buttons, touch rows the pass has no interest in.  *)
(***************************************************************************)
EXTENDS Outbox, SyncIngest

CONSTANTS
  MayPrune    \* whether fourteen days may go by in a behaviour

ASSUME MayPruneAssumption == MayPrune \in BOOLEAN
ASSUME ConnsAssumption == None \notin Conns

VARIABLES
  signedIn,   \* somebody holds a session
  waitingOn,  \* the connection the running pass waits on, or None
  batch,      \* the rows it sent, each with the attempts it had read
  todo        \* what is left to settle of the pass, row by row

phoneVars == <<sqlite, saving, signedIn, waitingOn, batch, todo>>
vars == <<phoneVars, officeVars>>

Init ==
  /\ sqlite = EmptyStore
  /\ saving = None
  /\ signedIn = TRUE
  /\ waitingOn = None
  /\ batch = <<>>
  /\ todo = <<>>
  /\ IngestInit

Running == waitingOn # None \/ todo # <<>>
-----------------------------------------------------------------------------
(* The pass.                                                               *)

(* A row sent in the last fortnight is kept, and no request lives that     *)
(* long, so a row some request still carries is not old enough to go.      *)
InFlight == UNION {{conns[c].items[i].row : i \in DOMAIN conns[c].items} : c \in Conns}

Cutoffs ==
  IF MayPrune
  THEN {1} \union {q + 1 : q \in {p \in RowsIn(sqlite, {"synced"}) :
                                  \A i \in InFlight : p < i}}
  ELSE {1}

Tidied(auto, cutoff) ==
  LET recovered == RecoverInterrupted(sqlite)
  IN PruneSynced(IF auto THEN AutoRetryStuck(recovered) ELSE recovered, cutoff)

ItemOf(q) ==
  [row |-> q, key |-> KeyOf(sqlite.rows[q]), deps |-> sqlite.rows[q].deps]

(* onePass, up to and including the post.  `auto` says that three hours    *)
(* have gone by since refused rows were last sent again on their own.      *)
StartPass(c, auto, cutoff) ==
  LET tidy == Tidied(auto, cutoff)
      verdict == ReadyItems(tidy)
      blocked == {v.id : v \in ToSet(verdict.blocked)}
      ready == [i \in DOMAIN verdict.ready |-> verdict.ready[i].id]
  IN /\ signedIn /\ ~Running /\ conns[c].phase = "idle"
     /\ auto => Stuck(sqlite) # {}
     /\ sqlite' = MarkSyncing(Mark(tidy, blocked, "blocked"), ToSet(ready))
     /\ IF ready = <<>>
        THEN UNCHANGED <<waitingOn, batch, conns>>
        ELSE /\ Submit(c, [i \in DOMAIN ready |-> ItemOf(ready[i])])
             /\ batch' = [i \in DOMAIN ready |->
                            [row |-> ready[i], attempts |-> tidy.rows[ready[i]].attempts]]
             /\ waitingOn' = c
     /\ UNCHANGED <<saving, signedIn, todo, ledger, tables, history>>

(* What the pass has to settle once it knows, or stops hoping to know.     *)
Settling(outcomes) ==
  /\ todo' = [i \in DOMAIN batch |->
               [row |-> batch[i].row, attempts |-> batch[i].attempts,
                outcome |-> outcomes[i]]]
  /\ waitingOn' = None
  /\ batch' = <<>>

(* Mutant: answers are matched with the rows the wrong way round.          *)
ReceiveBackwards(c) ==
  /\ waitingOn = c /\ conns[c].phase = "answered"
  /\ Settling(Reverse(conns[c].results))
  /\ conns' = [conns EXCEPT ![c] = NoConn]
  /\ UNCHANGED <<sqlite, saving, signedIn, ledger, tables, history>>

(* The answer arrives.                                                     *)
Receive(c) ==
  /\ waitingOn = c /\ conns[c].phase = "answered"
  /\ Settling(conns[c].results)
  /\ conns' = [conns EXCEPT ![c] = NoConn]
  /\ UNCHANGED <<sqlite, saving, signedIn, ledger, tables, history>>

(* No answer in 120 s, or no connection.  The request may be anywhere.     *)
GiveUp ==
  /\ waitingOn # None
  /\ Settling([i \in DOMAIN batch |-> "lost"])
  /\ UNCHANGED <<sqlite, saving, signedIn, officeVars>>

(* The office no longer knows the session, so it reads none of the items.  *)
Unauthorised(c) ==
  /\ waitingOn = c /\ conns[c].phase = "travelling"
  /\ Settling([i \in DOMAIN batch |-> "unauthorised"])
  /\ conns' = [conns EXCEPT ![c] = NoConn]
  /\ signedIn' = FALSE
  /\ UNCHANGED <<sqlite, saving, ledger, tables, history>>

(* Mutant: a request that was never answered is taken to have landed.      *)
SettleHopefully ==
  /\ todo # <<>>
  /\ LET t == Head(todo)
     IN sqlite' = CASE t.outcome = "rejected" -> MarkRejected(sqlite, t.row)
                    [] t.outcome = "unauthorised" -> MarkUnsent(sqlite, t.row)
                    [] t.outcome = "retry" -> MarkFailure(sqlite, t.row, t.attempts)
                    [] OTHER -> MarkSynced(sqlite, t.row)
  /\ todo' = Tail(todo)
  /\ UNCHANGED <<saving, signedIn, waitingOn, batch, officeVars>>

(* One row of the answer.                                                  *)
Settle ==
  /\ todo # <<>>
  /\ LET t == Head(todo)
     IN sqlite' = CASE t.outcome = "accepted" -> MarkSynced(sqlite, t.row)
                    [] t.outcome = "rejected" -> MarkRejected(sqlite, t.row)
                    [] t.outcome = "unauthorised" -> MarkUnsent(sqlite, t.row)
                    [] OTHER -> MarkFailure(sqlite, t.row, t.attempts)
  /\ todo' = Tail(todo)
  /\ UNCHANGED <<saving, signedIn, waitingOn, batch, officeVars>>
-----------------------------------------------------------------------------
(* The app and its user.                                                   *)

(* The app is killed: everything not in SQLite goes.                       *)
Kill ==
  /\ Running \/ saving # None
  /\ saving' = None /\ waitingOn' = None /\ batch' = <<>> /\ todo' = <<>>
  /\ UNCHANGED <<sqlite, signedIn, officeVars>>

(* Signing in again requeues what failed while nobody was.                 *)
SignIn ==
  /\ ~signedIn
  /\ signedIn' = TRUE
  /\ sqlite' = Retried(sqlite, RowsIn(sqlite, {"failed", "blocked"}))
  /\ UNCHANGED <<saving, waitingOn, batch, todo, officeVars>>

AtRest(A) == A /\ UNCHANGED <<signedIn, waitingOn, batch, todo, officeVars>>

User ==
  \/ \E a \in Acts : AtRest(Save(a))
  \/ AtRest(QueueSaved)
  \/ \E q \in DOMAIN sqlite.rows : AtRest(Retry(q)) \/ AtRest(Discard(q))
  \/ SignIn

Clock == \E q \in DOMAIN sqlite.rows : AtRest(BackoffEnds(q))

Phone ==
  \/ \E c \in Conns, auto \in BOOLEAN : \E cutoff \in Cutoffs : StartPass(c, auto, cutoff)
  \/ \E c \in Conns : Receive(c) \/ Unauthorised(c)
  \/ GiveUp
  \/ Settle
  \/ Kill

Office == \E c \in Conns : (Serve(c) \/ Lose(c) \/ Abandon(c)) /\ UNCHANGED phoneVars

Next == User \/ Clock \/ Phone \/ Office

Spec == Init /\ [][Next]_vars

(* A pass would change something if it started now.                        *)
PassDue ==
  /\ signedIn /\ ~Running
  /\ \E c \in Conns : conns[c].phase = "idle"
  /\ LET verdict == ReadyItems(Tidied(FALSE, 1))
     IN verdict.ready # <<>> \/ verdict.blocked # <<>>

(* Refused or exhausted rows lie on the phone and a pass could take them   *)
(* up again: three hours on, one does (autoRetryStuck).                    *)
AutoRetryDue ==
  /\ signedIn /\ ~Running
  /\ \E c \in Conns : conns[c].phase = "idle"
  /\ Stuck(sqlite) # {}

(* What the code keeps doing.  The minute's tick and the hook on a save    *)
(* start a pass whenever something is due; a pass settles every row it     *)
(* sent; the transport answers or gives up after 120 s; the backoff gate   *)
(* is a clock; the office works through a request or is cut off at 300 s.  *)
(* The salesman owes nothing, nor does the network.  (That a pass which is *)
(* due does not stay due is weak fairness of StartPass, with its ENABLED   *)
(* written out.)                                                           *)
Fairness ==
  /\ []<>~PassDue
  /\ []<>~AutoRetryDue
  /\ WF_vars(GiveUp \/ \E c \in Conns : Receive(c) \/ Unauthorised(c))
  /\ WF_vars(Settle)
  /\ WF_vars(AtRest(QueueSaved))
  /\ \A q \in 1 .. MaxRows :
       WF_vars(q \in DOMAIN sqlite.rows /\ AtRest(BackoffEnds(q)))
  /\ \A c \in Conns :
       WF_vars((Serve(c) \/ Lose(c) \/ Abandon(c)) /\ UNCHANGED phoneVars)

FairSpec == Spec /\ Fairness
-----------------------------------------------------------------------------
(* What is promised.                                                       *)

TypeOK ==
  /\ sqlite.rows \in Seq(Row) /\ Len(sqlite.rows) <= MaxRows
  /\ sqlite.body \in [Entities -> Bodies \union {None}]
  /\ sqlite.sync \in [Entities -> States \union {None}]
  /\ saving \in Act \union {None}
  /\ signedIn \in BOOLEAN
  /\ waitingOn \in Conns \union {None}
  /\ \A i \in DOMAIN todo : todo[i].outcome \in Verdicts \union {"lost", "unauthorised"}
  /\ \A c \in Conns : /\ conns[c].phase \in Phases
                       /\ conns[c].items \in Seq(Item)
                       /\ conns[c].results \in Seq(Verdicts)
  /\ accepted \subseteq Key /\ refused \subseteq Key
  /\ held \subseteq Entities
  /\ value \in [Entities -> Bodies \union {None}]
  /\ parents \in [Entities -> SUBSET Entities]

(* `synced` is the only state that means the office can see a record       *)
(* (mbos-app/PROTOCOL.md, section 2): whatever was lost, resent, retried   *)
(* or killed on the way, a record the phone draws as sent is one the       *)
(* office holds.                                                           *)
SyncedMeansHeld == \A e \in Entities : sqlite.sync[e] = "synced" => e \in held

(* A record never reaches the office ahead of the records it was filed     *)
(* with, although requests overlap, batches are cut off half way and the   *)
(* phone's own idea of what has landed is a guess.                         *)
NoOrphans == \A e \in held : parents[e] \subseteq held

(* A row's key is its own: no other row was ever sent under it.            *)
KeyIsOwn(q) ==
  \A p \in DOMAIN sqlite.rows : p # q => KeyOf(sqlite.rows[p]) # KeyOf(sqlite.rows[q])

(* A row marked synced was applied at the office by its own item.  The     *)
(* exception the code leaves is a key that came round again after its      *)
(* first row was pruned or discarded; see EverySyncedEditLanded.           *)
SyncedRowsLanded ==
  \A q \in RowsIn(sqlite, {"synced"}) : KeyIsOwn(q) => q \in landed

(* A record drawn as queued has a row in the outbox that will take it,     *)
(* whenever the app was killed: saving, sending, retrying and removing     *)
(* keep the two together where they are saved in one transaction, as a     *)
(* visit's are.  A record saved by insertAndQueue, in two, may be left     *)
(* without.                                                                *)
EverySavedRecordIsQueued ==
  saving = None =>
    \A e \in Entities :
      sqlite.sync[e] = "queued" => e \in EntitiesOf(sqlite, Unsent(sqlite))

(* What has been acknowledged is never taken back: once a row is synced no *)
(* late failure, refused parent, retry or recovery moves it again, until   *)
(* it is old enough to be pruned.                                          *)
SyncedIsFinal ==
  [][\A q \in RowsIn(sqlite, {"synced"}) :
       sqlite'.rows[q].state \in {"synced", "pruned"}]_vars

(* While a record the office refused, or never took, lies dead on the      *)
(* phone, nothing that depends on it goes out: a payment for an order the  *)
(* server refused must not arrive looking like a payment against nothing   *)
(* (readyItems, partition, blockDependents).                               *)
DeadCreates(db) ==
  EntitiesOf(db, {q \in Stuck(db) : db.rows[q].op = "create"})

NothingSentBehindTheDead ==
  [][\A i \in DOMAIN batch' : batch = <<>> =>
       sqlite'.rows[batch'[i].row].deps \intersect DeadCreates(sqlite') = {}]_vars

(* The records of a phone and of the office, as FieldDelivery sees them.   *)
EntitiesWith(op, S) == EntitiesOf(sqlite, {q \in RowsIn(sqlite, S) : sqlite.rows[q].op = op})

OnPhone == {e \in Entities : sqlite.body[e] # None}

Delivery == INSTANCE FieldDelivery WITH
  Records <- Entities,
  authored <- OnPhone \union EntitiesWith("create", {"discarded"}),
  onPhone <- OnPhone,
  atOffice <- held,
  acknowledged <- EntitiesWith("create", {"synced", "pruned"})

(* The whole of it, through every loss, overlap, kill, retry and pruning,  *)
(* delivers records as FieldDelivery says.                                 *)
DeliversRecords == Delivery!Spec

(* Nothing waits for ever unseen.  Once the app is no longer being killed  *)
(* and somebody stays signed in, a row in the outbox is sent, or is shown  *)
(* on the Sync screen as refused, failed or blocked (queue.ts: "a queue    *)
(* that never gives up is a queue nobody looks at").                       *)
Calm == <>[][~Kill]_vars /\ <>[]signedIn

EveryRowIsSettledOrShown ==
  Calm => \A q \in 1 .. MaxRows :
            q \in RowsIn(sqlite, {"queued", "syncing"}) ~>
              q \in RowsIn(sqlite, {"synced", "pruned", "rejected", "failed",
                                    "blocked", "discarded"})

(* From some point on the link holds, the office is up and refuses nothing *)
(* any more, and nobody is signed out.                                     *)
Recovered ==
  /\ <>[][~(\/ Kill \/ GiveUp
            \/ \E c \in Conns : \/ HandlerRefuses(c) \/ HandlerPostpones(c)
                                \/ waitingOn = c /\ (Lose(c) \/ Abandon(c)))]_vars
  /\ <>[]signedIn

(* Then everything the salesman saved reaches the office without anybody   *)
(* pressing Retry, however often it failed, was refused or was blocked     *)
(* behind something else before (autoRetryStuck, unblockDependents),       *)
(* unless he removed a refused record with others behind it.               *)
EverythingArrives ==
  Recovered /\ []<>(EntitiesWith("create", {"discarded"}) = {})
    => \A q \in 1 .. MaxRows :
         q \in Live(sqlite) ~> q \in RowsIn(sqlite, {"synced", "pruned"})
-----------------------------------------------------------------------------
(* What a comment of the code says, and the code does not do: a run        *)
(* refutes it; see the README.                                             *)

(* queue.ts, on a repeated edit: "an update repeated after the original    *)
(* landed gets a key of its own", so that the receipts ledger does not     *)
(* "replay the first answer without applying anything".                    *)
EverySyncedEditLanded ==
  \A q \in RowsIn(sqlite, {"synced"}) : sqlite.rows[q].op = "update" => q \in landed
=============================================================================
