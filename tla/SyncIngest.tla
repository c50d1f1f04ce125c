----------------------------- MODULE SyncIngest -----------------------------
(***************************************************************************)
(* The office's end of the sync protocol: ingestSyncBatch in               *)
(* src/lib/actions/mbos.ts, behind POST /api/mbos/sync.                    *)
(*                                                                         *)
(* A request is a sequence of items.  Several may be in hand at once, one  *)
(* per connection: a request the handset gave up on after its 120 s goes   *)
(* on being served for up to 300 s, beside the resend of the same items.   *)
(* Each connection takes its items one at a time, in the order sent, and   *)
(* each item passes through up to three database round trips: the ledger   *)
(* and the dependencies are read (the Judge actions), the handler writes   *)
(* (the Handler actions), and the receipt is stored (StoreReceipt).  The   *)
(* three are not one transaction, so other connections, and the death of   *)
(* the process, fall between them.                                         *)
(*                                                                         *)
(* What a handler decides about a payload, credit limits and prices and    *)
(* the salesman's scope, is not modelled: it may refuse, or throw, on any  *)
(* attempt.  What it does with a record that is already there, or not yet  *)
(* there, is.                                                              *)
(***************************************************************************)
EXTENDS Wire, Sequences, FiniteSets

CONSTANTS
  Conns,      \* requests the office may have in hand at once
  Upserts     \* records whose create handler is an upsert: tasks, leads, legs

ASSUME UpsertsAssumption == Upserts \subseteq Entities

VARIABLES
  conns,      \* each connection's progress through its request
  accepted,   \* keys whose stored receipt says accepted
  refused,    \* keys whose stored receipt says rejected
  held,       \* records the office's tables hold
  value,      \* what each held record says
  parents,    \* the dependencies each held record was filed with
  landed,     \* history: rows whose own write has been applied
  rewritten   \* history: rows whose write has been applied more than once

ledger == <<accepted, refused>>
tables == <<held, value, parents>>
history == <<landed, rewritten>>
officeVars == <<conns, ledger, tables, history>>

Phases == {"idle", "travelling", "judging", "writing", "storing", "answered"}
Serving == {"judging", "writing", "storing"}

(* A connection at item `at` of its request, with nothing answered yet.    *)
Carrying(phase, items, at) ==
  [phase |-> phase, items |-> items, at |-> at,
   acceptedHere |-> {}, refusedHere |-> {}, verdict |-> "retry", results |-> <<>>]

NoConn == Carrying("idle", <<>>, 0)

IngestInit ==
  /\ conns = [c \in Conns |-> NoConn]
  /\ accepted = {} /\ refused = {}
  /\ held = {}
  /\ value = [e \in Entities |-> None]
  /\ parents = [e \in Entities |-> {}]
  /\ landed = {} /\ rewritten = {}

Current(c) == conns[c].items[conns[c].at]

(* Record the answer to the current item and go on to the next one.        *)
Answer(c, v) ==
  LET k == conns[c]
      e == Current(c).key.entity
  IN conns' = [conns EXCEPT ![c] =
       [phase |-> IF k.at = Len(k.items) THEN "answered" ELSE "judging",
        items |-> k.items,
        at |-> k.at + 1,
        acceptedHere |-> IF v = "accepted" THEN k.acceptedHere \union {e}
                                           ELSE k.acceptedHere,
        refusedHere |-> IF v = "rejected" THEN k.refusedHere \union {e}
                                          ELSE k.refusedHere,
        verdict |-> "retry",
        results |-> Append(k.results, v)]]

Decide(c, v) ==
  LET k == conns[c]
  IN conns' = [conns EXCEPT ![c] = [k EXCEPT !.phase = "storing", !.verdict = v]]
-----------------------------------------------------------------------------
(* The wire.                                                               *)

Submit(c, items) ==
  /\ conns[c].phase = "idle"
  /\ items # <<>>
  /\ conns' = [conns EXCEPT ![c] = Carrying("travelling", items, 1)]

(* The request reaches the office.                                         *)
Arrive(c) ==
  /\ conns[c].phase = "travelling"
  /\ conns' = [conns EXCEPT ![c].phase = "judging"]
  /\ UNCHANGED <<ledger, tables, history>>

(* The request, or the answer, is lost on the way.                         *)
Lose(c) ==
  /\ conns[c].phase \in {"travelling", "answered"}
  /\ conns' = [conns EXCEPT ![c] = NoConn]
  /\ UNCHANGED <<ledger, tables, history>>

(* The process serving a request dies: a deploy, a crash, or the platform  *)
(* ending a request that has run for 300 s.  A handler's transaction is    *)
(* rolled back with it; what it has committed stays.                       *)
Abandon(c) ==
  /\ conns[c].phase \in Serving
  /\ conns' = [conns EXCEPT ![c] = NoConn]
  /\ UNCHANGED <<ledger, tables, history>>
-----------------------------------------------------------------------------
(* Step 1 and step 2 of the batch loop: the ledger, then the dependencies. *)

Missing(c) == Current(c).deps \ conns[c].acceptedHere

(* Mutant: whatever the receipt says, a replay is told it was accepted.    *)
ReplayAnything(c) ==
  /\ conns[c].phase = "judging"
  /\ Current(c).key \in accepted \union refused
  /\ Answer(c, "accepted")
  /\ UNCHANGED <<ledger, tables, history>>

(* An accepted receipt is replayed and nothing is written.                 *)
Replay(c) ==
  /\ conns[c].phase = "judging"
  /\ Current(c).key \in accepted
  /\ Answer(c, "accepted")
  /\ UNCHANGED <<ledger, tables, history>>

(* Mutant: the item is answered with a verdict the wire does not have.     *)
RefuseAsBlocked(c) ==
  /\ conns[c].phase = "judging"
  /\ Current(c).key \notin accepted
  /\ Missing(c) \intersect conns[c].refusedHere # {}
  /\ Decide(c, "blocked")
  /\ UNCHANGED <<ledger, tables, history>>

(* A dependency refused earlier in this very batch refuses the item too.   *)
RefuseDependent(c) ==
  /\ conns[c].phase = "judging"
  /\ Current(c).key \notin accepted
  /\ Missing(c) \intersect conns[c].refusedHere # {}
  /\ Decide(c, "rejected")
  /\ UNCHANGED <<ledger, tables, history>>

(* A dependency the tables do not hold: come back later, nothing stored.   *)
DeferMissing(c) ==
  /\ conns[c].phase = "judging"
  /\ Current(c).key \notin accepted
  /\ Missing(c) \ (conns[c].refusedHere \union held) # {}
  /\ Answer(c, "retry")
  /\ UNCHANGED <<ledger, tables, history>>

(* Mutant: dependencies are not looked up.                                 *)
PassUnchecked(c) ==
  /\ conns[c].phase = "judging"
  /\ Current(c).key \notin accepted
  /\ conns' = [conns EXCEPT ![c].phase = "writing"]
  /\ UNCHANGED <<ledger, tables, history>>

PassToHandler(c) ==
  /\ conns[c].phase = "judging"
  /\ Current(c).key \notin accepted
  /\ Missing(c) \subseteq held \ conns[c].refusedHere
  /\ conns' = [conns EXCEPT ![c].phase = "writing"]
  /\ UNCHANGED <<ledger, tables, history>>
-----------------------------------------------------------------------------
(* Step 3: the handler.  Its check and its write are one step, because the *)
(* primary key on the client's id makes a racing insert fail and be        *)
(* answered as a throw.                                                    *)

(* Mutant: a create does not ask whether the record is already held.       *)
AppliesAgain(key) == key.op = "update" => key.entity \in held

(* A create of a record not held, or an update of one that is.             *)
Applies(key) == key.op = "create" <=> key.entity \notin held

HandlerWrites(c) ==
  LET item == Current(c)
      e == item.key.entity
  IN /\ conns[c].phase = "writing"
     /\ Applies(item.key)
     /\ held' = held \union {e}
     /\ value' = [value EXCEPT ![e] = item.key.body]
     /\ parents' = IF item.key.op = "create"
                   THEN [parents EXCEPT ![e] = item.deps]
                   ELSE parents
     /\ landed' = landed \union {item.row}
     /\ rewritten' = IF item.row \in landed
                     THEN rewritten \union {item.row} ELSE rewritten
     /\ Decide(c, "accepted")
     /\ UNCHANGED ledger

(* Mutant: an update that found no row to change is accepted all the same. *)
HandlerFindsNothing(c) ==
  LET item == Current(c)
      e == item.key.entity
  IN /\ conns[c].phase = "writing"
     /\ item.key.op = "create" => e \in held
     /\ Decide(c, "accepted")
     /\ UNCHANGED <<ledger, tables, history>>

(* A create of a record already held is this record's own first attempt:   *)
(* accepted.  Most handlers leave the row as it is; an upsert writes the   *)
(* create's payload over it.                                               *)
HandlerFindsOwn(c) ==
  LET item == Current(c)
      e == item.key.entity
  IN /\ conns[c].phase = "writing"
     /\ item.key.op = "create" /\ e \in held
     /\ IF e \in Upserts
        THEN /\ value' = [value EXCEPT ![e] = item.key.body]
             /\ rewritten' = rewritten \union {item.row}
        ELSE UNCHANGED <<value, rewritten>>
     /\ Decide(c, "accepted")
     /\ UNCHANGED <<ledger, held, parents, landed>>

(* A business rule says no.  A handler asks whether the customer is still  *)
(* in the salesman's book before it asks whether the record is held, so a  *)
(* create can be refused although it landed before; an update of a record  *)
(* not held is never refused.                                              *)
HandlerRefuses(c) ==
  LET key == Current(c).key
  IN /\ conns[c].phase = "writing"
     /\ key.op = "update" => key.entity \in held
     /\ Decide(c, "rejected")
     /\ UNCHANGED <<ledger, tables, history>>

(* The handler throws, or an update finds its record not here yet: `retry`,*)
(* which is never stored.                                                  *)
HandlerPostpones(c) ==
  /\ conns[c].phase = "writing"
  /\ Answer(c, "retry")
  /\ UNCHANGED <<ledger, tables, history>>
-----------------------------------------------------------------------------
(* Mutants of StoreReceipt: the first answer stands, a rejection too; the  *)
(* last answer stands, over an acceptance too.                             *)
StoreFirstReceipt(c) ==
  LET key == Current(c).key
      fresh == key \notin accepted \union refused
  IN /\ conns[c].phase = "storing"
     /\ accepted' = IF fresh /\ conns[c].verdict = "accepted"
                    THEN accepted \union {key} ELSE accepted
     /\ refused' = IF fresh /\ conns[c].verdict = "rejected"
                   THEN refused \union {key} ELSE refused
     /\ Answer(c, conns[c].verdict)
     /\ UNCHANGED <<tables, history>>

StoreLastReceipt(c) ==
  LET key == Current(c).key
  IN /\ conns[c].phase = "storing"
     /\ IF conns[c].verdict = "accepted"
        THEN /\ accepted' = accepted \union {key}
             /\ refused' = refused \ {key}
        ELSE /\ accepted' = accepted \ {key}
             /\ refused' = refused \union {key}
     /\ Answer(c, conns[c].verdict)
     /\ UNCHANGED <<tables, history>>

(* Step 4: the receipt.  The upsert overwrites a stored rejection and      *)
(* nothing else, so the first accepted answer stands for ever.             *)
StoreReceipt(c) ==
  LET key == Current(c).key
  IN /\ conns[c].phase = "storing"
     /\ IF conns[c].verdict = "accepted"
        THEN /\ accepted' = accepted \union {key}
             /\ refused' = refused \ {key}
        ELSE /\ refused' = IF key \in accepted
                           THEN refused ELSE refused \union {key}
             /\ UNCHANGED accepted
     /\ Answer(c, conns[c].verdict)
     /\ UNCHANGED <<tables, history>>

Judge(c) == Replay(c) \/ RefuseDependent(c) \/ DeferMissing(c) \/ PassToHandler(c)

Handle(c) ==
  \/ HandlerWrites(c) \/ HandlerFindsOwn(c)
  \/ HandlerRefuses(c) \/ HandlerPostpones(c)

Serve(c) == Arrive(c) \/ Judge(c) \/ Handle(c) \/ StoreReceipt(c)
=============================================================================
