----------------------------- MODULE OpenIngest -----------------------------
(***************************************************************************)
(* The office's ingest facing handsets it knows nothing about: any of a    *)
(* set of requests may be sent at any time, any number of times, over any  *)
(* connection, whatever was answered before.  What holds here the office   *)
(* owes to itself and not to the outbox at the other end; FieldSync puts   *)
(* the two together.                                                       *)
(***************************************************************************)
EXTENDS SyncIngest

CONSTANT Requests   \* the requests handsets may send

ASSUME RequestsAssumption == Requests \subseteq Seq(Item)

Send(c) ==
  /\ \E items \in Requests : Submit(c, items)
  /\ UNCHANGED <<ledger, tables, history>>

Next == \E c \in Conns : Send(c) \/ Serve(c) \/ Lose(c) \/ Abandon(c)

Spec == IngestInit /\ [][Next]_officeVars
-----------------------------------------------------------------------------
Conn == [phase : Phases, items : Seq(Item), at : Nat,
         acceptedHere : SUBSET Entities, refusedHere : SUBSET Entities,
         verdict : Verdicts, results : Seq(Verdicts)]

TypeOK ==
  /\ conns \in [Conns -> Conn]
  /\ accepted \subseteq Key /\ refused \subseteq Key
  /\ held \subseteq Entities
  /\ value \in [Entities -> Bodies \union {None}]
  /\ parents \in [Entities -> SUBSET Entities]
  /\ landed \subseteq Nat /\ rewritten \subseteq Nat

(* A stored acceptance is about a record the office holds.  Storing it is  *)
(* a round trip of its own after the handler's, and a replay answers from  *)
(* it alone, so nothing would notice if it were not.                       *)
ReceiptMeansHeld == \A key \in accepted : key.entity \in held

(* A record is never filed ahead of the records it names, although the     *)
(* check is made before the handler runs, and partly from what this batch  *)
(* remembers of itself (acceptedHere) instead of from the tables.          *)
NoOrphans == \A e \in held : parents[e] \subseteq held

(* Every acceptance in an answer is backed by a receipt that accepts, so   *)
(* a resend after a lost answer is told the same.                          *)
AnswersAreOnRecord ==
  \A c \in Conns : \A i \in DOMAIN conns[c].results :
    conns[c].results[i] = "accepted" => conns[c].items[i].key \in accepted

(* The first accepted answer stands for ever (storeReceipt), whatever two  *)
(* copies of one request make of the item between them.                    *)
AcceptedStands == [][accepted \subseteq accepted']_officeVars

(* A record made once is not made again: only an update, or a create whose *)
(* handler is an upsert, is ever applied a second time.                    *)
CreatesLandOnce ==
  [][\A c \in Conns :
       /\ conns[c].phase = "writing"
       /\ Current(c).row \in rewritten' \ rewritten
       => Current(c).key.op = "update" \/ Current(c).key.entity \in Upserts]_officeVars
=============================================================================
