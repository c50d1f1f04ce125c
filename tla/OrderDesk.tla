----------------------------- MODULE OrderDesk ------------------------------
(***************************************************************************)
(* One order from the field, between the accounts desk that decides it and *)
(* the handset updates that reach it through the ingest: approveOrder and  *)
(* declineOrder (order-approval-service.ts), decideOrderChange             *)
(* (order-change-service.ts), and handleOrderEdit,                         *)
(* handleOrderChangeRequest and handleOrderProgress (actions/mbos.ts).     *)
(*                                                                         *)
(* Each of them reads the order, decides what to do, and then writes in a  *)
(* transaction of its own.  Clerks and requests run side by side, so every *)
(* write lands on whatever the order has become since the read: some of    *)
(* the writes repeat their condition in the statement, and some do not.    *)
(* What a handler checks besides the order (prices, credit, scope) may     *)
(* refuse at any time.  Cancelling is left out: only the orders of the ERP *)
(* are cancelled, and an order from the field is not one of them.          *)
(***************************************************************************)
EXTENDS Naturals, FiniteSets

CONSTANTS
  Clerks,     \* people with order.approve
  Handlers,   \* connections whose batch has reached an item about the order
  Changes,    \* change requests the salesman may send
  Marks,      \* what a handset may mark an order as (orderProgressSchema)
  Lines,      \* what may be on the order
  FirstLines  \* what it was taken with

ASSUME LinesAssumption == FirstLines \in Lines
ASSUME MarksAssumption == Marks \subseteq {"dispatched", "in_transit", "delivered"}

VARIABLES
  order,      \* its row in `orders`: status and lines
  changes,    \* each change request's row: status and lines
  clerk,      \* what each clerk is in the middle of
  handler,    \* what each handler is in the middle of
  audit,      \* history: the decisions audit_log records
  answered    \* history: change requests a handset was told are accepted

deskVars == <<order, changes, clerk, handler, audit, answered>>

Statuses == {"pending_approval", "confirmed", "declined"} \union
            {"dispatched", "in_transit", "delivered"}

Nothing == [doing |-> "nothing"]

DeskInit ==
  /\ order = [status |-> "pending_approval", lines |-> FirstLines]
  /\ changes = [r \in Changes |-> [status |-> "unsent", lines |-> FirstLines]]
  /\ clerk = [k \in Clerks |-> Nothing]
  /\ handler = [h \in Handlers |-> Nothing]
  /\ audit = {}
  /\ answered = {}

Pending == {r \in Changes : changes[r].status = "pending"}
-----------------------------------------------------------------------------
(* Accounts decide the order.  The status is read, and refused unless it   *)
(* is pending; the transaction that follows does not look again.           *)
OpenOrder(k, decision) ==
  /\ clerk[k] = Nothing
  /\ order.status = "pending_approval"
  /\ clerk' = [clerk EXCEPT ![k] = [doing |-> decision, lines |-> order.lines]]
  /\ UNCHANGED <<order, changes, handler, audit, answered>>

(* Mutant: the status is one orders do not have.                           *)
CommitApproved(k) ==
  /\ clerk[k].doing \in {"approve", "decline"}
  /\ order' = [order EXCEPT !.status =
                 IF clerk[k].doing = "approve" THEN "approved" ELSE "declined"]
  /\ audit' = audit \union {[act |-> clerk[k].doing, lines |-> clerk[k].lines]}
  /\ clerk' = [clerk EXCEPT ![k] = Nothing]
  /\ UNCHANGED <<changes, handler, answered>>

CommitDecision(k) ==
  /\ clerk[k].doing \in {"approve", "decline"}
  /\ order' = [order EXCEPT !.status =
                 IF clerk[k].doing = "approve" THEN "confirmed" ELSE "declined"]
  /\ audit' = audit \union {[act |-> clerk[k].doing, lines |-> clerk[k].lines]}
  /\ clerk' = [clerk EXCEPT ![k] = Nothing]
  /\ UNCHANGED <<changes, handler, answered>>

(* Accounts decide a change request.  Both rows are read first, and both   *)
(* are guarded again in the statements; when the order turns out to have   *)
(* moved the whole transaction is rolled back.                             *)
OpenChange(k, r, decision) ==
  /\ clerk[k] = Nothing
  /\ r \in Pending
  /\ decision = "accept" => order.status = "confirmed"
  /\ clerk' = [clerk EXCEPT ![k] = [doing |-> decision, change |-> r]]
  /\ UNCHANGED <<order, changes, handler, audit, answered>>

(* What the two statements ask again.  Mutants: they do not.               *)
RequestStandsAnyway(k) == TRUE
RequestStands(k) == clerk[k].change \in Pending

OrderStandsAnyway(k) == TRUE
OrderStands(k) == clerk[k].doing = "accept" => order.status = "confirmed"

CommitChange(k) ==
  /\ clerk[k].doing \in {"accept", "turn_down"}
  /\ LET r == clerk[k].change
         accepting == clerk[k].doing = "accept"
     IN IF ~(RequestStands(k) /\ OrderStands(k))
        THEN UNCHANGED <<order, changes>>
        ELSE /\ changes' = [changes EXCEPT ![r].status =
                              IF accepting THEN "accepted" ELSE "declined"]
             /\ order' = IF accepting
                         THEN [order EXCEPT !.lines = changes[r].lines] ELSE order
  /\ clerk' = [clerk EXCEPT ![k] = Nothing]
  /\ UNCHANGED <<handler, audit, answered>>
-----------------------------------------------------------------------------
(* The handset's updates.  Each is read and checked, and is then refused,  *)
(* or goes on to its write.                                                *)

TakeUp(h, task) ==
  /\ handler[h] = Nothing
  /\ handler' = [handler EXCEPT ![h] = task]
  /\ UNCHANGED <<order, changes, clerk, audit, answered>>

PutDown(h) == handler' = [handler EXCEPT ![h] = Nothing]

Refuse(h) ==
  /\ handler[h] # Nothing
  /\ PutDown(h)
  /\ UNCHANGED <<order, changes, clerk, audit, answered>>

(* An edit, while accounts have not decided; the write asks again.         *)
ReadForEdit(h, lines) ==
  /\ order.status = "pending_approval"
  /\ TakeUp(h, [doing |-> "edit", lines |-> lines])

(* Mutant: the write does not ask again.                                   *)
WriteEditBlindly(h) ==
  /\ handler[h].doing = "edit"
  /\ order' = [order EXCEPT !.lines = handler[h].lines]
  /\ PutDown(h)
  /\ UNCHANGED <<changes, clerk, audit, answered>>

WriteEdit(h) ==
  /\ handler[h].doing = "edit"
  /\ order' = IF order.status = "pending_approval"
              THEN [order EXCEPT !.lines = handler[h].lines] ELSE order
  /\ PutDown(h)
  /\ UNCHANGED <<changes, clerk, audit, answered>>

(* A change request, once they have.  It is refused while another waits;   *)
(* the insert does nothing when the row is there, or when the index that   *)
(* allows one pending request an order is in its way.                      *)
ReadForChange(h, r, lines) ==
  /\ order.status = "confirmed"
  /\ Pending \subseteq {r}
  /\ changes[r].status # "unsent" => lines = changes[r].lines
  /\ TakeUp(h, [doing |-> "change", change |-> r, lines |-> lines])

(* Mutant: no index allows one pending request only.                       *)
WriteChangeBeside(h) ==
  /\ handler[h].doing = "change"
  /\ LET r == handler[h].change
     IN /\ changes' = IF changes[r].status = "unsent"
                      THEN [changes EXCEPT ![r] =
                              [status |-> "pending", lines |-> handler[h].lines]]
                      ELSE changes
        /\ answered' = answered \union {r}
  /\ PutDown(h)
  /\ UNCHANGED <<order, clerk, audit>>

WriteChange(h) ==
  /\ handler[h].doing = "change"
  /\ LET r == handler[h].change
     IN /\ changes' = IF changes[r].status = "unsent" /\ Pending = {}
                      THEN [changes EXCEPT ![r] =
                              [status |-> "pending", lines |-> handler[h].lines]]
                      ELSE changes
        /\ answered' = answered \union {r}
  /\ PutDown(h)
  /\ UNCHANGED <<order, clerk, audit>>

(* The goods moved.  Refused once the order is declined; the write does    *)
(* not ask again.                                                          *)
ReadForProgress(h, mark) ==
  /\ order.status # "declined"
  /\ TakeUp(h, [doing |-> "progress", mark |-> mark])

WriteProgress(h) ==
  /\ handler[h].doing = "progress"
  /\ order' = [order EXCEPT !.status = handler[h].mark]
  /\ PutDown(h)
  /\ UNCHANGED <<changes, clerk, audit, answered>>
-----------------------------------------------------------------------------
Accounts(k) ==
  \/ \E decision \in {"approve", "decline"} : OpenOrder(k, decision)
  \/ CommitDecision(k)
  \/ \E r \in Changes, decision \in {"accept", "turn_down"} : OpenChange(k, r, decision)
  \/ CommitChange(k)

Field(h) ==
  \/ \E lines \in Lines : ReadForEdit(h, lines)
  \/ \E lines \in Lines, r \in Changes : ReadForChange(h, r, lines)
  \/ \E mark \in Marks : ReadForProgress(h, mark)
  \/ WriteEdit(h) \/ WriteChange(h) \/ WriteProgress(h)
  \/ Refuse(h)

DeskNext == (\E k \in Clerks : Accounts(k)) \/ (\E h \in Handlers : Field(h))

DeskSpec == DeskInit /\ [][DeskNext]_deskVars
-----------------------------------------------------------------------------
ClerkTask ==
  {Nothing} \union [doing : {"approve", "decline"}, lines : Lines]
            \union [doing : {"accept", "turn_down"}, change : Changes]

HandlerTask ==
  {Nothing} \union [doing : {"edit"}, lines : Lines]
            \union [doing : {"change"}, change : Changes, lines : Lines]
            \union [doing : {"progress"}, mark : Marks]

DeskTypeOK ==
  /\ order \in [status : Statuses, lines : Lines]
  /\ changes \in [Changes -> [status : {"unsent", "pending", "accepted", "declined"},
                              lines : Lines]]
  /\ clerk \in [Clerks -> ClerkTask]
  /\ handler \in [Handlers -> HandlerTask]
  /\ audit \subseteq [act : {"approve", "decline"}, lines : Lines]
  /\ answered \subseteq Changes

(* Once accounts have decided, what is on the order changes in one way     *)
(* only: by a change request they accept, while it stands approved and not *)
(* yet sent.  An edit that was read before the decision and lands after it *)
(* changes nothing.                                                        *)
LinesFrozenOnceDecided ==
  [][order.status # "pending_approval" /\ order'.lines # order.lines =>
       /\ order.status = "confirmed"
       /\ \E r \in Pending : /\ changes'[r].status = "accepted"
                             /\ order'.lines = changes[r].lines]_deskVars

(* A change request is decided once, whichever clerks have it open, and    *)
(* stays what it was decided on.                                           *)
ChangeDecidedOnce ==
  [][\A r \in Changes : changes[r].status \in {"accepted", "declined"} =>
       changes'[r] = changes[r]]_deskVars

(* The request says accepted exactly when its lines went on the order: the *)
(* two rows move together, or neither does.                                *)
AcceptedIsOnTheOrder ==
  [][\A r \in Pending : changes'[r].status = "accepted" =>
       /\ order.status = "confirmed"
       /\ order'.lines = changes[r].lines]_deskVars

(* Accounts never decide between two versions of one change, although two  *)
(* handlers may both have found none waiting.                              *)
OneChangeWaits == \A p, q \in Pending : p = q
-----------------------------------------------------------------------------
(* What a comment of the code says, and the code does not do: it is        *)
(* refuted by a run; see the README.                                       *)

(* approveOrder: "Two people opened the same queue. Say which way it went  *)
(* rather than silently overwriting somebody else's decision."             *)
OneDecision == \A a, b \in audit : a.act = b.act
=============================================================================
