--------------------------- MODULE DecisionProofs ---------------------------
(***************************************************************************)
(* What is decided: OrderDesk, for any number of clerks, handlers and      *)
(* change requests, WebsiteReview, for any rows, people and requests, and  *)
(* then both beside the office's ingest and the outbox's order, as         *)
(* MCDecisions puts them. Up to the last section a section is of one of    *)
(* them: they share no state.                                              *)
(***************************************************************************)
EXTENDS MCDecisions, OpenIngestProofs, OutboxOrderProofs, TLAPS

(***************************************************************************)
(* DeskTypeOK and OneChangeWaits are inductive together; the three action  *)
(* properties need only that a step starts from a well typed state, and    *)
(* are proved action by action: most actions touch neither the lines nor   *)
(* the change requests, and the two that do ask in the write what they     *)
(* asked in the read.                                                      *)
(***************************************************************************)

(* What every state of the desk satisfies.                                 *)
DeskInv == DeskTypeOK /\ OneChangeWaits

LEMMA DeskInitInv == DeskInit => DeskInv
  BY LinesAssumption DEF DeskInit, DeskInv, DeskTypeOK, OneChangeWaits, Pending, Statuses,
     Nothing, ClerkTask, HandlerTask

(* What a clerk's decision on a change request is made of.                 *)
LEMMA ClerkOnChange ==
  ASSUME DeskTypeOK, NEW k \in Clerks, clerk[k].doing \in {"accept", "turn_down"}
  PROVE  clerk[k].change \in Changes
  BY DEF DeskTypeOK, ClerkTask, Nothing

LEMMA HandlerOnEdit ==
  ASSUME DeskTypeOK, NEW h \in Handlers, handler[h].doing = "edit"
  PROVE  handler[h].lines \in Lines
  BY DEF DeskTypeOK, HandlerTask, Nothing

LEMMA HandlerOnChange ==
  ASSUME DeskTypeOK, NEW h \in Handlers, handler[h].doing = "change"
  PROVE  handler[h].change \in Changes /\ handler[h].lines \in Lines
  BY DEF DeskTypeOK, HandlerTask, Nothing

LEMMA HandlerOnProgress ==
  ASSUME DeskTypeOK, NEW h \in Handlers, handler[h].doing = "progress"
  PROVE  handler[h].mark \in Marks
  BY DEF DeskTypeOK, HandlerTask, Nothing

LEMMA ClerkOnOrder ==
  ASSUME DeskTypeOK, NEW k \in Clerks, clerk[k].doing \in {"approve", "decline"}
  PROVE  clerk[k].lines \in Lines
  BY DEF DeskTypeOK, ClerkTask, Nothing
-----------------------------------------------------------------------------
LEMMA DeskStepTypeOK == DeskTypeOK /\ [DeskNext]_deskVars => DeskTypeOK'
<1> SUFFICES ASSUME DeskTypeOK, [DeskNext]_deskVars PROVE DeskTypeOK'
  OBVIOUS
<1>1. ASSUME NEW k \in Clerks, Accounts(k) PROVE DeskTypeOK'
  <2>1. ASSUME NEW decision \in {"approve", "decline"}, OpenOrder(k, decision)
        PROVE  DeskTypeOK'
    <3>1. [doing |-> decision, lines |-> order.lines] \in ClerkTask
      BY <2>1 DEF DeskTypeOK, ClerkTask
    <3> QED
      BY <2>1, <3>1 DEF DeskTypeOK, OpenOrder
  <2>2. CASE CommitDecision(k)
    <3>1. [act |-> clerk[k].doing, lines |-> clerk[k].lines]
            \in [act : {"approve", "decline"}, lines : Lines]
      BY <2>2, ClerkOnOrder DEF CommitDecision
    <3>2. Nothing \in ClerkTask
      BY DEF ClerkTask
    <3> QED
      BY <2>2, <3>1, <3>2 DEF DeskTypeOK, CommitDecision, Statuses
  <2>3. ASSUME NEW r \in Changes, NEW decision \in {"accept", "turn_down"},
               OpenChange(k, r, decision)
        PROVE  DeskTypeOK'
    <3>1. [doing |-> decision, change |-> r] \in ClerkTask
      BY <2>3 DEF ClerkTask
    <3> QED
      BY <2>3, <3>1 DEF DeskTypeOK, OpenChange
  <2>4. CASE CommitChange(k)
    <3>1. clerk[k].change \in Changes
      BY <2>4, ClerkOnChange DEF CommitChange
    <3>2. Nothing \in ClerkTask
      BY DEF ClerkTask
    <3>3. order' \in [status : Statuses, lines : Lines]
      BY <2>4, <3>1 DEF CommitChange, DeskTypeOK
    <3>4. changes' \in [Changes -> [status : {"unsent", "pending", "accepted", "declined"},
                                    lines : Lines]]
      BY <2>4, <3>1 DEF CommitChange, DeskTypeOK
    <3> QED
      BY <2>4, <3>2, <3>3, <3>4 DEF CommitChange, DeskTypeOK
  <2> QED
    BY <1>1, <2>1, <2>2, <2>3, <2>4 DEF Accounts
<1>2. ASSUME NEW h \in Handlers, Field(h) PROVE DeskTypeOK'
  <2>0. Nothing \in HandlerTask
    BY DEF HandlerTask
  <2>1. ASSUME NEW lines \in Lines, ReadForEdit(h, lines) PROVE DeskTypeOK'
    <3>1. [doing |-> "edit", lines |-> lines] \in HandlerTask
      BY DEF HandlerTask
    <3> QED
      BY <2>1, <3>1 DEF DeskTypeOK, ReadForEdit, TakeUp
  <2>2. ASSUME NEW lines \in Lines, NEW r \in Changes, ReadForChange(h, r, lines)
        PROVE  DeskTypeOK'
    <3>1. [doing |-> "change", change |-> r, lines |-> lines] \in HandlerTask
      BY DEF HandlerTask
    <3> QED
      BY <2>2, <3>1 DEF DeskTypeOK, ReadForChange, TakeUp
  <2>3. ASSUME NEW mark \in Marks, ReadForProgress(h, mark) PROVE DeskTypeOK'
    <3>1. [doing |-> "progress", mark |-> mark] \in HandlerTask
      BY DEF HandlerTask
    <3> QED
      BY <2>3, <3>1 DEF DeskTypeOK, ReadForProgress, TakeUp
  <2>4. CASE WriteEdit(h)
    <3>1. handler[h].lines \in Lines
      BY <2>4, HandlerOnEdit DEF WriteEdit
    <3> QED
      BY <2>0, <2>4, <3>1 DEF DeskTypeOK, WriteEdit, PutDown
  <2>5. CASE WriteChange(h)
    <3>1. handler[h].change \in Changes /\ handler[h].lines \in Lines
      BY <2>5, HandlerOnChange DEF WriteChange
    <3> QED
      BY <2>0, <2>5, <3>1 DEF DeskTypeOK, WriteChange, PutDown
  <2>6. CASE WriteProgress(h)
    <3>1. handler[h].mark \in Statuses
      BY <2>6, HandlerOnProgress, MarksAssumption DEF WriteProgress, Statuses
    <3> QED
      BY <2>0, <2>6, <3>1 DEF DeskTypeOK, WriteProgress, PutDown
  <2>7. CASE Refuse(h)
    BY <2>0, <2>7 DEF DeskTypeOK, Refuse, PutDown
  <2> QED
    BY <1>2, <2>1, <2>2, <2>3, <2>4, <2>5, <2>6, <2>7 DEF Field
<1>3. CASE UNCHANGED deskVars
  BY <1>3 DEF deskVars, DeskTypeOK
<1> QED
  BY <1>1, <1>2, <1>3 DEF DeskNext
-----------------------------------------------------------------------------
(* Only two actions touch the change requests, and only three the order.   *)
LEMMA WhoMoves ==
  ASSUME [DeskNext]_deskVars
  PROVE  /\ \/ changes' = changes
            \/ \E k \in Clerks : CommitChange(k)
            \/ \E h \in Handlers : WriteChange(h)
         /\ \/ order'.lines = order.lines
            \/ \E k \in Clerks : CommitDecision(k)
            \/ \E k \in Clerks : CommitChange(k)
            \/ \E h \in Handlers : WriteEdit(h)
            \/ \E h \in Handlers : WriteProgress(h)
<1>1. CASE UNCHANGED deskVars
  BY <1>1 DEF deskVars
<1>2. ASSUME NEW k \in Clerks, Accounts(k)
      PROVE  \/ UNCHANGED <<order, changes>>
             \/ UNCHANGED changes /\ CommitDecision(k)
             \/ CommitChange(k)
  BY <1>2 DEF Accounts, OpenOrder, OpenChange, CommitDecision
<1>3. ASSUME NEW h \in Handlers, Field(h)
      PROVE  \/ UNCHANGED <<order, changes>>
             \/ UNCHANGED changes /\ (WriteEdit(h) \/ WriteProgress(h))
             \/ UNCHANGED order /\ WriteChange(h)
  BY <1>3 DEF Field, ReadForEdit, ReadForChange, ReadForProgress, TakeUp, Refuse,
     WriteEdit, WriteChange, WriteProgress
<1> QED
  BY <1>1, <1>2, <1>3 DEF DeskNext

(* What deciding a change request comes to: nothing, or that one request   *)
(* moves and, accepted, takes its lines to the order.                      *)
LEMMA CommitMoves ==
  ASSUME DeskTypeOK, NEW k \in Clerks, CommitChange(k)
  PROVE  \/ UNCHANGED <<order, changes>>
         \/ /\ clerk[k].change \in Pending
            /\ \A r \in Changes : r # clerk[k].change => changes'[r] = changes[r]
            /\ \/ /\ changes'[clerk[k].change].status = "accepted"
                  /\ order.status = "confirmed"
                  /\ order'.lines = changes[clerk[k].change].lines
               \/ /\ changes'[clerk[k].change].status = "declined"
                  /\ order' = order
<1>1. CASE ~(RequestStands(k) /\ OrderStands(k))
  BY <1>1 DEF CommitChange
<1>2. CASE RequestStands(k) /\ OrderStands(k)
  <2> DEFINE c == clerk[k].change
  <2>1. c \in Pending /\ c \in Changes
    BY <1>2 DEF RequestStands, Pending
  <2>2. CASE clerk[k].doing = "accept"
    <3>1. changes' = [changes EXCEPT ![c].status = "accepted"]
      BY <1>2, <2>2 DEF CommitChange
    <3>2. order.status = "confirmed" /\ order'.lines = changes[c].lines
      BY <1>2, <2>2 DEF CommitChange, OrderStands, DeskTypeOK
    <3>3. changes'[c].status = "accepted"
      BY <2>1, <3>1 DEF DeskTypeOK
    <3> QED
      BY <2>1, <3>1, <3>2, <3>3 DEF DeskTypeOK
  <2>3. CASE clerk[k].doing = "turn_down"
    <3>1. changes' = [changes EXCEPT ![c].status = "declined"] /\ order' = order
      BY <1>2, <2>3 DEF CommitChange
    <3>2. changes'[c].status = "declined"
      BY <2>1, <3>1 DEF DeskTypeOK
    <3> QED
      BY <2>1, <3>1, <3>2 DEF DeskTypeOK
  <2> QED
    BY <2>2, <2>3 DEF CommitChange
<1> QED
  BY <1>1, <1>2

LEMMA StepOneChange == DeskInv /\ [DeskNext]_deskVars => OneChangeWaits'
<1> SUFFICES ASSUME DeskInv, [DeskNext]_deskVars PROVE OneChangeWaits'
  OBVIOUS
<1> USE DEF DeskInv
<1>1. CASE changes' = changes
  BY <1>1 DEF OneChangeWaits, Pending
<1>2. ASSUME NEW k \in Clerks, CommitChange(k) PROVE OneChangeWaits'
  <2>1. Pending' \subseteq Pending
    BY <1>2, CommitMoves DEF Pending, DeskTypeOK
  <2> QED
    BY <2>1 DEF OneChangeWaits
<1>3. ASSUME NEW h \in Handlers, WriteChange(h) PROVE OneChangeWaits'
  <2>1. CASE changes' = changes
    BY <2>1 DEF OneChangeWaits, Pending
  <2>2. CASE Pending = {} /\ changes' = [changes EXCEPT ![handler[h].change] =
                               [status |-> "pending", lines |-> handler[h].lines]]
    <3>1. Pending' \subseteq {handler[h].change}
      BY <2>2 DEF Pending, DeskTypeOK
    <3> QED
      BY <3>1 DEF OneChangeWaits
  <2> QED
    BY <1>3, <2>1, <2>2 DEF WriteChange
<1> QED
  BY <1>1, <1>2, <1>3, WhoMoves

(* Whatever the clerks and the handlers have open, every reachable state   *)
(* is well typed and at most one change request waits.                     *)
THEOREM DeskInvariance == DeskSpec => []DeskInv
<1>1. DeskInit => DeskInv
  BY DeskInitInv
<1>2. DeskInv /\ [DeskNext]_deskVars => DeskInv'
  BY DeskStepTypeOK, StepOneChange DEF DeskInv
<1> QED
  BY <1>1, <1>2, PTL DEF DeskSpec

(* The order, its change requests and what each hand holds keep types.    *)
THEOREM DeskTypeCorrect == DeskSpec => []DeskTypeOK
  BY DeskInvariance, PTL DEF DeskInv

(* Accounts are never asked to decide between two versions of one change,  *)
(* however many handlers found none waiting when they looked.              *)
THEOREM NeverTwoVersions == DeskSpec => []OneChangeWaits
  BY DeskInvariance, PTL DEF DeskInv
-----------------------------------------------------------------------------
(* A change request stays what it was decided on, however many clerks have *)
(* it open.                                                                *)
THEOREM DecidedForGood == DeskSpec => ChangeDecidedOnce
<1> DEFINE Keeps == \A r \in Changes : changes[r].status \in {"accepted", "declined"} =>
                      changes'[r] = changes[r]
<1>1. DeskInv /\ [DeskNext]_deskVars => Keeps
  <2> SUFFICES ASSUME DeskInv, [DeskNext]_deskVars,
                      NEW r \in Changes, changes[r].status \in {"accepted", "declined"}
               PROVE  changes'[r] = changes[r]
    OBVIOUS
  <2> USE DEF DeskInv
  <2>1. ASSUME NEW k \in Clerks, CommitChange(k) PROVE changes'[r] = changes[r]
    BY <2>1, CommitMoves DEF Pending, DeskTypeOK
  <2>2. ASSUME NEW h \in Handlers, WriteChange(h) PROVE changes'[r] = changes[r]
    BY <2>2, HandlerOnChange DEF WriteChange, DeskTypeOK
  <2> QED
    BY <2>1, <2>2, WhoMoves
<1> QED
  BY <1>1, DeskInvariance, PTL DEF DeskSpec, ChangeDecidedOnce

(* The order and the request that was accepted move in one step.           *)
THEOREM AcceptedTogether == DeskSpec => AcceptedIsOnTheOrder
<1> DEFINE Together == \A r \in Pending : changes'[r].status = "accepted" =>
                         /\ order.status = "confirmed"
                         /\ order'.lines = changes[r].lines
<1>1. DeskInv /\ [DeskNext]_deskVars => Together
  <2> SUFFICES ASSUME DeskInv, [DeskNext]_deskVars,
                      NEW r \in Pending, changes'[r].status = "accepted"
               PROVE  /\ order.status = "confirmed"
                      /\ order'.lines = changes[r].lines
    OBVIOUS
  <2> USE DEF DeskInv
  <2>1. r \in Changes /\ changes[r].status = "pending"
    BY DEF Pending
  <2>2. ASSUME NEW h \in Handlers, WriteChange(h) PROVE FALSE
    BY <2>1, <2>2, HandlerOnChange DEF WriteChange, DeskTypeOK, Pending
  <2>3. PICK k \in Clerks : CommitChange(k)
    BY <2>1, <2>2, WhoMoves
  <2>4. clerk[k].change = r
    BY <2>1, <2>3, CommitMoves
  <2> QED
    BY <2>1, <2>3, <2>4, CommitMoves
<1> QED
  BY <1>1, DeskInvariance, PTL DEF DeskSpec, AcceptedIsOnTheOrder

(* Once accounts have decided, only an accepted change request changes     *)
(* what is on the order.                                                   *)
THEOREM FrozenOnceDecided == DeskSpec => LinesFrozenOnceDecided
<1> DEFINE LinesFrozen == order.status # "pending_approval" /\ order'.lines # order.lines =>
                       /\ order.status = "confirmed"
                       /\ \E r \in Pending : /\ changes'[r].status = "accepted"
                                             /\ order'.lines = changes[r].lines
<1>1. DeskInv /\ [DeskNext]_deskVars => LinesFrozen
  <2> SUFFICES ASSUME DeskInv, [DeskNext]_deskVars,
                      order.status # "pending_approval", order'.lines # order.lines
               PROVE  /\ order.status = "confirmed"
                      /\ \E r \in Pending : /\ changes'[r].status = "accepted"
                                            /\ order'.lines = changes[r].lines
    OBVIOUS
  <2> USE DEF DeskInv
  <2>1. ASSUME NEW k \in Clerks, CommitDecision(k) PROVE FALSE
    BY <2>1 DEF CommitDecision, DeskTypeOK
  <2>2. ASSUME NEW h \in Handlers, WriteEdit(h) \/ WriteProgress(h) PROVE FALSE
    BY <2>2 DEF WriteEdit, WriteProgress, DeskTypeOK
  <2>3. PICK k \in Clerks : CommitChange(k)
    BY <2>1, <2>2, WhoMoves
  <2>4. /\ clerk[k].change \in Pending
        /\ changes'[clerk[k].change].status = "accepted"
        /\ order.status = "confirmed"
        /\ order'.lines = changes[clerk[k].change].lines
    BY <2>3, CommitMoves
  <2> QED
    BY <2>4
<1> QED
  BY <1>1, DeskInvariance, PTL DEF DeskSpec, LinesFrozenOnceDecided
-----------------------------------------------------------------------------
(***************************************************************************)
(* A page of the website. That a row, a request and the site agree is a    *)
(* matter of what somebody in the middle of an edit may still rely on      *)
(* (RelyOn): whoever publishes writes back what he read and its version,   *)
(* so what he read must still be what that version says; a discard writes  *)
(* back what was live, so nobody else may have put anything else live; a   *)
(* delete must find a draft that was never live. EditingInv says it of     *)
(* everyone at once, and that a discard or a delete has the row to itself, *)
(* saves apart, which is what ~CleanupsOverlap provides: without it a      *)
(* discard writes back what is no longer live, and calls it so. RequestInv *)
(* and HoldsInv need nobody in the middle of anything, since a review      *)
(* operation is one transaction.                                           *)
(***************************************************************************)
ContentRow == [state : {"absent", "draft", "published", "archived", "gone"},
               data : Contents, live : Contents \union {NoContent},
               version : Nat, liveVersion : Nat, everLive : BOOLEAN]

Whole(x) == x = [state |-> x.state, data |-> x.data, live |-> x.live, version |-> x.version,
                 liveVersion |-> x.liveVersion, everLive |-> x.everLive]

(* A row alone: it is live only while published, and its versions agree    *)
(* only when what is live is what it says.                                 *)
RowIsSound(x) ==
  /\ x.liveVersion <= x.version
  /\ x.state # "published" => x.live = NoContent
  /\ x.state = "published" => x.live \in Contents
  /\ x.state = "published" /\ x.version = x.liveVersion => x.live = x.data
  /\ x.state = "gone" => ~x.everLive

RowInv == \A i \in Items : row[i] \in ContentRow /\ RowIsSound(row[i])

(* What somebody in the middle of something may still rely on: a row as he *)
(* read it says the same while its version is the same, and what he throws *)
(* away or deletes nobody else has in hand.                                *)
RelyOn(e, p, i) ==
  /\ e.at \in Transitions =>
       /\ p \in MayPublish
       /\ Exists(i) => e.seen.version <= row[i].version
       /\ Exists(i) /\ e.seen.version = row[i].version => e.seen.data = row[i].data
  /\ e.at = "discarding" => row[i].state = "published" /\ row[i].live = e.seen.live
  /\ e.at = "deleting" => ~row[i].everLive
  /\ row[i].state # "absent"

EditingInv ==
  \A p \in People :
    /\ editing[p].seen \in ContentRow
    /\ editing[p] = [at |-> editing[p].at, item |-> editing[p].item, seen |-> editing[p].seen]
    /\ editing[p] = AtRest \/ \E i \in Items : editing[p].item = {i}
    /\ \A i \in Items : editing[p].item = {i} =>
         /\ editing[p].at \in Transitions \union Cleanups \union {"saving"}
         /\ RelyOn(editing[p], p, i)
         /\ editing[p].at \in Cleanups =>
              \A q \in People : q # p /\ editing[q].item = {i} => editing[q].at = "saving"

(* A request is a record of these fields, and what it froze are rows.      *)
Asked(x) ==
  /\ x = [status |-> x.status, by |-> x.by, reviewer |-> x.reviewer, frozen |-> x.frozen, expires |-> x.expires]
  /\ DOMAIN x.frozen \subseteq Items

RequestInv ==
  /\ request = [r \in ChangeRequests |-> request[r]]
  /\ \A r \in ChangeRequests :
       /\ Asked(request[r])
       /\ request[r].status = "approved" => request[r].reviewer # {} /\ request[r].reviewer # request[r].by

HoldsInv == holds \subseteq ChangeRequests \X Items /\ HeldByOneOpenRequest

ReviewInv ==
  /\ row \in [Items -> ContentRow] /\ RowInv
  /\ editing = [p \in People |-> editing[p]] /\ EditingInv
  /\ RequestInv /\ HoldsInv
-----------------------------------------------------------------------------
(* Nobody but p, who has row i in hand, minds that it becomes x.           *)
Stands(p, i, x) ==
  \A q \in People :
    q # p /\ editing[q].item = {i} =>
      \/ editing[q].at = "saving"
      \/ x = row[i]
      \/ editing[q].at \in Cleanups /\ x.state = row[i].state /\ x.live = row[i].live /\ x.everLive = row[i].everLive
      \/ /\ editing[q].at \in Transitions
         /\ Exists(i) /\ row[i].version <= x.version
         /\ row[i].version = x.version => row[i].data = x.data

LEMMA BlankIs == Blank \in Contents /\ NoRow(Blank) \in ContentRow /\ NoContent \notin Contents
BY ReviewAssumption DEF Blank, NoRow, Row, ContentRow

LEMMA ReviewInitInv == ReviewInit => ReviewInv
<1> SUFFICES ASSUME ReviewInit PROVE ReviewInv
  OBVIOUS
<1>1. PICK b : b = Blank
  OBVIOUS
<1>2. b \in Contents /\ NoContent \notin Contents
  BY <1>1, BlankIs
<1>3. /\ Row("published", b, b, 1, 1, TRUE) \in ContentRow /\ RowIsSound(Row("published", b, b, 1, 1, TRUE))
      /\ NoRow(b) \in ContentRow /\ RowIsSound(NoRow(b))
  BY <1>2 DEF Row, NoRow, ContentRow, RowIsSound
<1>4. row \in [Items -> ContentRow] /\ RowInv
  BY <1>1, <1>3 DEF ReviewInit, RowInv
<1>5. AtRest.item = {} /\ AtRest.seen \in ContentRow /\ AtRest = [at |-> AtRest.at, item |-> AtRest.item, seen |-> AtRest.seen]
  BY <1>1, <1>3 DEF AtRest
<1>6. editing = [p \in People |-> editing[p]] /\ EditingInv
  BY <1>5 DEF ReviewInit, EditingInv
<1>7. RequestInv /\ HoldsInv
  BY DEF ReviewInit, RequestInv, HoldsInv, NoRequest, HeldByOneOpenRequest, OpenStatuses, Asked
<1>8. QED
  BY <1>4, <1>6, <1>7 DEF ReviewInv

LEMMA OneRow ==
  ASSUME ReviewInv, NEW i \in Items, NEW x \in ContentRow, row' = [row EXCEPT ![i] = x], RowIsSound(x)
  PROVE  row' \in [Items -> ContentRow] /\ RowInv' /\ row'[i] = x /\ \A j \in Items : j # i => row'[j] = row[j]
<1>1. row' \in [Items -> ContentRow] /\ row'[i] = x /\ \A j \in Items : j # i => row'[j] = row[j]
  BY DEF ReviewInv
<1>2. \A j \in Items : row'[j] \in ContentRow /\ RowIsSound(row'[j])
  BY <1>1 DEF ReviewInv, RowInv
<1>3. QED
  BY <1>1, <1>2 DEF RowInv

LEMMA OneHand ==
  ASSUME ReviewInv, NEW p \in People, NEW e, editing' = [editing EXCEPT ![p] = e]
  PROVE  /\ editing' = [q \in People |-> editing'[q]] /\ editing'[p] = e
         /\ \A q \in People : q # p => editing'[q] = editing[q]
BY DEF ReviewInv

(* Requests and what they hold are left alone.                             *)
LEMMA RequestsRest ==
  ASSUME ReviewInv, UNCHANGED <<request, holds>>
  PROVE  RequestInv' /\ HoldsInv'
BY DEF ReviewInv, RequestInv, HoldsInv, HeldByOneOpenRequest

(* What somebody read of row i stands by what becomes of it.               *)
LEMMA Finishes ==
  ASSUME ReviewInv, NEW p \in People, NEW i \in Items, NEW x \in ContentRow, RowIsSound(x), x.state # "absent",
         editing[p].item = {i}, editing' = [editing EXCEPT ![p] = AtRest], row' = [row EXCEPT ![i] = x],
         UNCHANGED <<request, holds>>,
         Stands(p, i, x)
  PROVE  ReviewInv'
<1>1. /\ row' \in [Items -> ContentRow] /\ RowInv' /\ row'[i] = x /\ \A j \in Items : j # i => row'[j] = row[j]
  BY OneRow
<1>2. /\ editing' = [q \in People |-> editing'[q]] /\ editing'[p] = AtRest
      /\ \A q \in People : q # p => editing'[q] = editing[q]
  BY OneHand
<1>3. RequestInv' /\ HoldsInv'
  BY RequestsRest
<1>4. EditingInv
  BY DEF ReviewInv
<1>5. AtRest.item = {} /\ AtRest.seen \in ContentRow /\ AtRest = [at |-> AtRest.at, item |-> AtRest.item, seen |-> AtRest.seen]
  BY BlankIs DEF AtRest
<1>5a. \A q \in People : q # p /\ editing[q].item = {i} =>
        \/ editing[q].at = "saving"
        \/ x = row[i]
        \/ editing[q].at \in Cleanups /\ x.state = row[i].state /\ x.live = row[i].live /\ x.everLive = row[i].everLive
        \/ /\ editing[q].at \in Transitions
           /\ Exists(i) /\ row[i].version <= x.version
           /\ row[i].version = x.version => row[i].data = x.data
  BY DEF Stands
<1>6. ASSUME NEW q \in People, q # p, editing[q].item = {i} PROVE RelyOn(editing[q], q, i)'
  <2>1. RelyOn(editing[q], q, i) /\ editing[q].seen \in ContentRow /\ row[i] \in ContentRow /\ editing'[q] = editing[q]
    BY <1>2, <1>4, <1>6 DEF EditingInv, ReviewInv, RowInv
  <2>2. CASE editing[q].at = "saving"
    BY <1>1, <2>1, <2>2 DEF RelyOn, Transitions
  <2>3. CASE editing[q].at \in Cleanups /\ x.state = row[i].state /\ x.live = row[i].live /\ x.everLive = row[i].everLive
    BY <1>1, <2>1, <2>3 DEF RelyOn, Transitions, Cleanups
  <2>4. CASE /\ editing[q].at \in Transitions
             /\ Exists(i) /\ row[i].version <= x.version
             /\ row[i].version = x.version => row[i].data = x.data
    <3>1. editing[q].seen.version \in Nat /\ row[i].version \in Nat /\ x.version \in Nat
      BY <2>1 DEF ContentRow
    <3>2. QED
      BY <1>1, <2>1, <2>4, <3>1 DEF RelyOn, Transitions
  <2>5. CASE x = row[i]
    BY <1>1, <2>1, <2>5 DEF RelyOn, Exists
  <2>6. QED
    BY <1>5a, <1>6, <2>2, <2>3, <2>4, <2>5
<1>7. ASSUME NEW q \in People, q # p, NEW j \in Items, j # i, editing[q].item = {j} PROVE RelyOn(editing[q], q, j)'
  <2>1. RelyOn(editing[q], q, j) /\ editing'[q] = editing[q] /\ row'[j] = row[j]
    BY <1>1, <1>2, <1>4, <1>7 DEF EditingInv
  <2>2. QED
    BY <2>1 DEF RelyOn, Exists
<1>8. EditingInv'
  <2>1. ASSUME NEW q \in People, NEW j \in Items, editing'[q].item = {j}
        PROVE  /\ editing'[q].at \in Transitions \union Cleanups \union {"saving"}
               /\ RelyOn(editing[q], q, j)'
               /\ editing'[q].at \in Cleanups =>
                    \A t \in People : t # q /\ editing'[t].item = {j} => editing'[t].at = "saving"
    <3>1. q # p /\ editing'[q] = editing[q]
      BY <1>2, <1>5, <2>1
    <3>2. ASSUME NEW t \in People, editing'[t].item = {j} PROVE editing'[t] = editing[t]
      <4>1. {j} # {}
        OBVIOUS
      <4>2. t # p
        BY <1>2, <1>5, <3>2, <4>1
      <4>3. QED
        BY <1>2, <4>2
    <3>3. RelyOn(editing[q], q, j)'
      BY <1>6, <1>7, <2>1, <3>1
    <3>4. editing[q].item = {j} /\ editing[q].at \in Transitions \union Cleanups \union {"saving"}
      BY <1>4, <2>1, <3>1 DEF EditingInv
    <3>5. ASSUME editing[q].at \in Cleanups, NEW t \in People, t # q, editing'[t].item = {j}
          PROVE  editing'[t].at = "saving"
      <4>1. editing'[t] = editing[t]
        BY <3>2, <3>5
      <4>2. editing[t].item = {j}
        BY <3>5, <4>1
      <4>3. \A z \in People : z # q /\ editing[z].item = {j} => editing[z].at = "saving"
        BY <1>4, <3>4, <3>5 DEF EditingInv
      <4>4. QED
        BY <3>5, <4>1, <4>2, <4>3
    <3>6. QED
      BY <3>1, <3>3, <3>4, <3>5
  <2>2. ASSUME NEW q \in People
        PROVE  /\ editing'[q].seen \in ContentRow
               /\ editing'[q] = [at |-> editing'[q].at, item |-> editing'[q].item, seen |-> editing'[q].seen]
               /\ editing'[q] = AtRest \/ \E j \in Items : editing'[q].item = {j}
    <3>1. CASE q = p
      BY <1>2, <1>5, <3>1
    <3>2. CASE q # p
      BY <1>2, <1>4, <3>2 DEF EditingInv
    <3>3. QED
      BY <3>1, <3>2
  <2>3. QED
    BY <2>1, <2>2 DEF EditingInv
<1>9. QED
  BY <1>1, <1>2, <1>3, <1>8 DEF ReviewInv
-----------------------------------------------------------------------------
(* Somebody begins: nothing that is cleaned up is in another hand.         *)
LEMMA Begun ==
  ASSUME ReviewInv, ~CleanupsOverlap, NEW p \in People, NEW i \in Items,
         NEW what \in Transitions \union Cleanups \union {"saving"}, Begins(p, i, what),
         what \in Transitions => p \in MayPublish,
         what = "discarding" => row[i].state = "published",
         what = "deleting" => ~row[i].everLive
  PROVE  ReviewInv'
<1>. DEFINE e == [at |-> what, item |-> {i}, seen |-> IF what = "saving" THEN AtRest.seen ELSE row[i]]
<1>1. editing' = [editing EXCEPT ![p] = e] /\ UNCHANGED <<row, request, holds>> /\ Exists(i) /\ editing[p] = AtRest
  BY DEF Begins
<1>2. row[i] \in ContentRow /\ AtRest.seen \in ContentRow
  BY BlankIs DEF AtRest, ReviewInv, RowInv
<1>3. /\ e = [at |-> e.at, item |-> e.item, seen |-> e.seen] /\ e.at = what /\ e.item = {i} /\ e.seen \in ContentRow
      /\ what # "saving" => e.seen = row[i]
  BY <1>2
<1>4. RelyOn(e, p, i)
  BY <1>1, <1>3 DEF RelyOn, Exists, Transitions, Cleanups, ContentRow
<1>5. ASSUME NEW q \in People, q # p, editing[q].item = {i}
      PROVE  /\ what \in Cleanups => editing[q].at = "saving"
             /\ editing[q].at \in Cleanups => what = "saving"
  BY <1>5, ~CleanupsOverlap DEF Begins, Busy, Cleaning, Cleanups
<1>6. PICK k : k = e
  OBVIOUS
<1>. HIDE DEF e
<1>7. /\ editing' = [q \in People |-> editing'[q]] /\ editing'[p] = k
      /\ \A q \in People : q # p => editing'[q] = editing[q]
  BY <1>1, <1>6, OneHand
<1>8. EditingInv
  BY DEF ReviewInv
<1>9. ASSUME NEW q \in People, NEW j \in Items, editing'[q].item = {j}
      PROVE  /\ editing'[q].at \in Transitions \union Cleanups \union {"saving"}
             /\ RelyOn(editing[q], q, j)'
             /\ editing'[q].at \in Cleanups =>
                  \A t \in People : t # q /\ editing'[t].item = {j} => editing'[t].at = "saving"
  <2>1. CASE q = p
    <3>1. j = i /\ editing'[q] = e
      BY <1>3, <1>6, <1>7, <1>9, <2>1
    <3>2. RelyOn(editing[q], q, j)'
      BY <1>1, <1>4, <2>1, <3>1 DEF RelyOn, Exists
    <3>3. ASSUME e.at \in Cleanups, NEW t \in People, t # q, editing'[t].item = {j} PROVE editing'[t].at = "saving"
      BY <1>3, <1>5, <1>7, <2>1, <3>1, <3>3
    <3>4. QED
      BY <1>3, <3>1, <3>2, <3>3
  <2>2. CASE q # p
    <3>1. /\ editing'[q] = editing[q] /\ RelyOn(editing[q], q, j) /\ editing[q].item = {j}
          /\ editing[q].at \in Transitions \union Cleanups \union {"saving"}
      BY <1>7, <1>8, <1>9, <2>2 DEF EditingInv
    <3>2. RelyOn(editing[q], q, j)'
      BY <1>1, <3>1 DEF RelyOn, Exists
    <3>3. ASSUME editing[q].at \in Cleanups, NEW t \in People, t # q, editing'[t].item = {j}
          PROVE  editing'[t].at = "saving"
      <4>1. CASE t = p
        BY <1>3, <1>5, <1>6, <1>7, <2>2, <3>1, <3>3, <4>1
      <4>2. CASE t # p
        <5>1. editing'[t] = editing[t] /\ editing[t].item = {j}
          BY <1>7, <3>3, <4>2
        <5>2. \A z \in People : z # q /\ editing[z].item = {j} => editing[z].at = "saving"
          BY <1>8, <3>1, <3>3 DEF EditingInv
        <5>3. QED
          BY <3>3, <5>1, <5>2
      <4>3. QED
        BY <4>1, <4>2
    <3>4. QED
      BY <3>1, <3>2, <3>3
  <2>3. QED
    BY <2>1, <2>2
<1>10. ASSUME NEW q \in People
       PROVE  /\ editing'[q].seen \in ContentRow
              /\ editing'[q] = [at |-> editing'[q].at, item |-> editing'[q].item, seen |-> editing'[q].seen]
              /\ editing'[q] = AtRest \/ \E j \in Items : editing'[q].item = {j}
  <2>1. CASE q = p
    BY <1>3, <1>6, <1>7, <2>1
  <2>2. CASE q # p
    BY <1>7, <1>8, <2>2 DEF EditingInv
  <2>3. QED
    BY <2>1, <2>2
<1>11. EditingInv'
  BY <1>9, <1>10 DEF EditingInv
<1>12. row' \in [Items -> ContentRow] /\ RowInv'
  BY <1>1 DEF ReviewInv, RowInv
<1>13. RequestInv' /\ HoldsInv'
  BY <1>1, RequestsRest
<1>14. QED
  BY <1>7, <1>11, <1>12, <1>13 DEF ReviewInv
-----------------------------------------------------------------------------
LEMMA RowOf ==
  ASSUME NEW x
  PROVE  x \in ContentRow <=>
         /\ Whole(x) /\ x.state \in {"absent", "draft", "published", "archived", "gone"} /\ x.data \in Contents
         /\ x.live \in Contents \union {NoContent} /\ x.version \in Nat /\ x.liveVersion \in Nat
         /\ x.everLive \in BOOLEAN
BY DEF ContentRow, Whole

LEMMA SavedRow ==
  ASSUME NEW x, Whole(x), NEW c, NEW y, y = [x EXCEPT !.data = c, !.version = @ + 1]
  PROVE  /\ Whole(y) /\ y.state = x.state /\ y.data = c /\ y.live = x.live /\ y.version = x.version + 1
         /\ y.liveVersion = x.liveVersion /\ y.everLive = x.everLive
BY DEF Whole

LEMMA DiscardedRow ==
  ASSUME NEW x, Whole(x), NEW c, NEW v, NEW y, y = [x EXCEPT !.data = c, !.version = @ + 1, !.liveVersion = v]
  PROVE  /\ Whole(y) /\ y.state = x.state /\ y.data = c /\ y.live = x.live /\ y.version = x.version + 1
         /\ y.liveVersion = v /\ y.everLive = x.everLive
BY DEF Whole

LEMMA DeletedRow ==
  ASSUME NEW b, NEW e, NEW y, y = [NoRow(b) EXCEPT !.state = "gone", !.everLive = e]
  PROVE  Whole(y) /\ y.state = "gone" /\ y.data = b /\ y.live = NoContent /\ y.version = 0
         /\ y.liveVersion = 0 /\ y.everLive = e
BY DEF Whole, NoRow, Row

LEMMA ShownRow ==
  ASSUME NEW x, Whole(x), NEW seen, NEW y, y = Shown(x, seen)
  PROVE  Whole(y) /\ y.state = "published" /\ y.data = x.data /\ y.live = seen.data /\ y.version = x.version
         /\ y.liveVersion = seen.version /\ y.everLive = TRUE
BY DEF Whole, Shown

LEMMA DownRow ==
  ASSUME NEW x, Whole(x), NEW to, NEW y, y = TakenDown(x, to)
  PROVE  Whole(y) /\ y.state = to /\ y.data = x.data /\ y.live = NoContent /\ y.version = x.version
         /\ y.liveVersion = 0 /\ y.everLive = x.everLive
BY DEF Whole, TakenDown

LEMMA InHand ==
  ASSUME ReviewInv, NEW p \in People, NEW i \in Items, editing[p].item = {i}
  PROVE  /\ row[i] \in ContentRow /\ RowIsSound(row[i]) /\ row[i].state # "absent"
         /\ editing[p].seen \in ContentRow /\ RelyOn(editing[p], p, i)
         /\ \A q \in People : q # p /\ editing[q].item = {i} =>
              /\ editing[q].at \in Transitions \union Cleanups \union {"saving"}
              /\ editing[p].at \in Cleanups => editing[q].at = "saving"
              /\ editing[q].at \in Cleanups => editing[p].at = "saving"
<1>1. EditingInv /\ RowInv
  BY DEF ReviewInv
<1>2. /\ row[i] \in ContentRow /\ RowIsSound(row[i]) /\ RelyOn(editing[p], p, i)
      /\ editing[p].seen \in ContentRow /\ row[i].state # "absent"
  BY <1>1 DEF RowInv, EditingInv, RelyOn
<1>3. ASSUME NEW q \in People, q # p, editing[q].item = {i}
      PROVE  /\ editing[q].at \in Transitions \union Cleanups \union {"saving"}
             /\ editing[p].at \in Cleanups => editing[q].at = "saving"
             /\ editing[q].at \in Cleanups => editing[p].at = "saving"
  <2>1. editing[q].at \in Transitions \union Cleanups \union {"saving"}
    BY <1>1, <1>3 DEF EditingInv
  <2>2. editing[p].at \in Cleanups => editing[q].at = "saving"
    <3>1. editing[p].at \in Cleanups => \A t \in People : t # p /\ editing[t].item = {i} => editing[t].at = "saving"
      BY <1>1 DEF EditingInv
    <3>2. QED
      BY <1>3, <3>1
  <2>3. editing[q].at \in Cleanups => editing[p].at = "saving"
    <3>1. editing[q].at \in Cleanups => \A t \in People : t # q /\ editing[t].item = {i} => editing[t].at = "saving"
      BY <1>1, <1>3 DEF EditingInv
    <3>2. QED
      BY <1>3, <3>1
  <2>4. QED
    BY <2>1, <2>2, <2>3
<1>4. QED
  BY <1>2, <1>3

LEMMA Saves ==
  ASSUME ReviewInv, NEW p \in People, NEW i \in Items, NEW c \in Contents, WriteSave(p, i, c)
  PROVE  ReviewInv'
<1>1. /\ editing[p].item = {i} /\ editing[p].at = "saving" /\ editing' = [editing EXCEPT ![p] = AtRest]
      /\ UNCHANGED <<request, holds>>
  BY DEF WriteSave, Writes
<1>2. PICK k, y : k = row[i] /\ y = IF Exists(i) THEN [k EXCEPT !.data = c, !.version = @ + 1] ELSE k
  OBVIOUS
<1>3. row' = [row EXCEPT ![i] = y]
  BY <1>2 DEF WriteSave, SetRow, ReviewInv
<1>4. k \in ContentRow /\ RowIsSound(k) /\ k.state # "absent"
  BY <1>1, <1>2, InHand
<1>5. Whole(k) /\ k.data \in Contents /\ k.version \in Nat /\ k.liveVersion \in Nat
  BY <1>4, RowOf
<1>6. y = k \/ /\ Exists(i) /\ Whole(y) /\ y.state = k.state /\ y.data = c /\ y.live = k.live
                /\ y.version = k.version + 1 /\ y.liveVersion = k.liveVersion /\ y.everLive = k.everLive
  BY <1>2, <1>5 DEF Whole
<1>7. y \in ContentRow
  BY <1>4, <1>5, <1>6, RowOf
<1>8. RowIsSound(y) /\ y.state # "absent"
  BY <1>4, <1>5, <1>6 DEF RowIsSound
<1>9. Stands(p, i, y)
  <2>1. ASSUME NEW q \in People, q # p, editing[q].item = {i}
        PROVE  editing[q].at \in Transitions \union Cleanups \union {"saving"}
    BY <1>1, <2>1, InHand
  <2>2. QED
    BY <1>2, <1>5, <1>6, <2>1 DEF Stands
<1>10. QED
  BY <1>1, <1>3, <1>7, <1>8, <1>9, Finishes

LEMMA SavesLost ==
  ASSUME ReviewInv, NEW p \in People, NEW i \in Items, LoseSave(p, i)
  PROVE  ReviewInv'
<1>1. editing[p].item = {i} /\ editing' = [editing EXCEPT ![p] = AtRest] /\ UNCHANGED <<request, holds>>
  BY DEF LoseSave, Writes
<1>2. PICK x : x = row[i]
  OBVIOUS
<1>3. x \in ContentRow /\ RowIsSound(x) /\ x.state # "absent"
  BY <1>1, <1>2, InHand
<1>4. row' = [row EXCEPT ![i] = x] /\ Stands(p, i, x)
  BY <1>2 DEF LoseSave, ReviewInv, Stands
<1>5. QED
  BY <1>1, <1>3, <1>4, Finishes

LEMMA Discards ==
  ASSUME ReviewInv, NEW p \in People, NEW i \in Items, WriteDiscard(p, i)
  PROVE  ReviewInv'
<1>1. PICK k, y, n : /\ k = row[i] /\ n = editing[p].seen.live
                     /\ y = [k EXCEPT !.data = n, !.version = @ + 1, !.liveVersion = k.version + 1]
  OBVIOUS
<1>2. /\ editing[p].item = {i} /\ editing[p].at = "discarding" /\ editing' = [editing EXCEPT ![p] = AtRest]
      /\ UNCHANGED <<request, holds>> /\ row' = [row EXCEPT ![i] = y]
  BY <1>1 DEF WriteDiscard, Writes, SetRow
<1>3. k \in ContentRow /\ RowIsSound(k) /\ RelyOn(editing[p], p, i)
  BY <1>1, <1>2, InHand
<1>4. k.state = "published" /\ k.live = n /\ n \in Contents
  BY <1>1, <1>2, <1>3 DEF RelyOn, RowIsSound
<1>5. Whole(k) /\ k.version \in Nat /\ k.everLive \in BOOLEAN
  BY <1>3, RowOf
<1>6. /\ Whole(y) /\ y.state = k.state /\ y.data = n /\ y.live = k.live
      /\ y.version = k.version + 1 /\ y.liveVersion = k.version + 1 /\ y.everLive = k.everLive
  BY <1>1, <1>5 DEF Whole
<1>7. y \in ContentRow
  BY <1>4, <1>5, <1>6, RowOf
<1>8. RowIsSound(y) /\ y.state # "absent"
  BY <1>4, <1>5, <1>6 DEF RowIsSound
<1>9. Stands(p, i, y)
  <2>1. ASSUME NEW q \in People, q # p, editing[q].item = {i} PROVE editing[q].at = "saving"
    BY <1>2, <2>1, InHand DEF Cleanups
  <2>2. QED
    BY <2>1 DEF Stands
<1>10. QED
  BY <1>2, <1>7, <1>8, <1>9, Finishes

LEMMA Deletes ==
  ASSUME ReviewInv, NEW p \in People, NEW i \in Items, WriteDelete(p, i)
  PROVE  ReviewInv'
<1>1. PICK b, k, e, y : /\ b = Blank /\ k = row[i] /\ e = k.everLive
         /\ y = IF k.state = "draft" THEN [NoRow(b) EXCEPT !.state = "gone", !.everLive = e] ELSE k
  OBVIOUS
<1>2. /\ editing[p].item = {i} /\ editing[p].at = "deleting" /\ editing' = [editing EXCEPT ![p] = AtRest]
      /\ UNCHANGED <<request, holds>>
  BY DEF WriteDelete, Writes
<1>3. row' = [row EXCEPT ![i] = y]
  BY <1>1 DEF WriteDelete, SetRow, ReviewInv
<1>4. k \in ContentRow /\ RowIsSound(k) /\ k.state # "absent" /\ RelyOn(editing[p], p, i)
  BY <1>1, <1>2, InHand
<1>5. ~e /\ e \in BOOLEAN /\ b \in Contents
  BY <1>1, <1>2, <1>4, RowOf, BlankIs DEF RelyOn
<1>6. y = k \/ /\ Whole(y) /\ y.state = "gone" /\ y.data = b /\ y.live = NoContent
                /\ y.version = 0 /\ y.liveVersion = 0 /\ y.everLive = e
  BY <1>1 DEF Whole, NoRow, Row
<1>7. y \in ContentRow
  BY <1>4, <1>5, <1>6, RowOf
<1>8. RowIsSound(y) /\ y.state # "absent"
  BY <1>4, <1>5, <1>6 DEF RowIsSound
<1>9. Stands(p, i, y)
  <2>1. ASSUME NEW q \in People, q # p, editing[q].item = {i} PROVE editing[q].at = "saving"
    BY <1>2, <2>1, InHand DEF Cleanups
  <2>2. QED
    BY <2>1 DEF Stands
<1>10. QED
  BY <1>2, <1>3, <1>7, <1>8, <1>9, Finishes

LEMMA TransitionKeeps ==
  ASSUME NEW t \in Transitions, NEW x \in ContentRow, NEW seen \in ContentRow, RowIsSound(x),
         x.state \notin {"absent", "gone"}, seen.version <= x.version,
         seen.version = x.version => seen.data = x.data,
         NEW y, y = Transitioned(t, x, seen)
  PROVE  /\ y \in ContentRow /\ RowIsSound(y) /\ y.state \notin {"absent", "gone"}
         /\ y.version = x.version /\ y.data = x.data
<1>1. /\ Whole(x) /\ x.data \in Contents /\ x.live \in Contents \union {NoContent}
      /\ x.version \in Nat /\ x.liveVersion \in Nat /\ x.everLive \in BOOLEAN
      /\ seen.data \in Contents /\ seen.version \in Nat
  BY RowOf
<1>2. \/ y = x
      \/ y = Shown(x, seen)
      \/ \E to \in {"draft", "archived"} : y = TakenDown(x, to)
      \/ x.state # "published" /\ y = [x EXCEPT !.state = "draft"]
  <2>1. CASE t = "publish"
    BY <2>1 DEF Transitioned
  <2>2. CASE t = "unpublish"
    BY <2>2 DEF Transitioned
  <2>3. CASE t = "archive"
    BY <2>3 DEF Transitioned
  <2>4. CASE t = "restore"
    BY <2>4 DEF Transitioned
  <2>5. QED
    BY <2>1, <2>2, <2>3, <2>4 DEF Transitions
<1>3. CASE y = Shown(x, seen)
  <2>1. /\ Whole(y) /\ y.state = "published" /\ y.data = x.data /\ y.live = seen.data /\ y.version = x.version
        /\ y.liveVersion = seen.version /\ y.everLive = TRUE
    BY <1>1, <1>3 DEF Whole, Shown
  <2>2. y \in ContentRow
    BY <1>1, <2>1, RowOf
  <2>3. RowIsSound(y)
    BY <1>1, <2>1 DEF RowIsSound
  <2>4. QED
    BY <2>1, <2>2, <2>3
<1>4. ASSUME NEW to \in {"draft", "archived"}, y = TakenDown(x, to)
      PROVE  /\ y \in ContentRow /\ RowIsSound(y) /\ y.state \notin {"absent", "gone"}
             /\ y.version = x.version /\ y.data = x.data
  <2>1. /\ Whole(y) /\ y.state = to /\ y.data = x.data /\ y.live = NoContent /\ y.version = x.version
        /\ y.liveVersion = 0 /\ y.everLive = x.everLive
    BY <1>1, <1>4, DownRow
  <2>2. y \in ContentRow
    BY <1>1, <2>1, RowOf
  <2>3. RowIsSound(y)
    BY <1>1, <2>1 DEF RowIsSound
  <2>4. QED
    BY <2>1, <2>2, <2>3
<1>5. CASE x.state # "published" /\ y = [x EXCEPT !.state = "draft"]
  <2>1. /\ Whole(y) /\ y.state = "draft" /\ y.data = x.data /\ y.live = x.live /\ y.version = x.version
        /\ y.liveVersion = x.liveVersion /\ y.everLive = x.everLive
    BY <1>1, <1>5 DEF Whole
  <2>2. y \in ContentRow
    BY <1>1, <2>1, RowOf
  <2>3. RowIsSound(y)
    BY <1>5, <2>1 DEF RowIsSound
  <2>4. QED
    BY <2>1, <2>2, <2>3
<1>6. QED
  BY <1>2, <1>3, <1>4, <1>5

LEMMA TransitionsMade ==
  ASSUME ReviewInv, NEW p \in People, NEW i \in Items, NEW t \in Transitions, WriteTransition(p, i, t)
  PROVE  ReviewInv'
<1>1. PICK k, s, y : k = row[i] /\ s = editing[p].seen /\ y = IF Exists(i) THEN Transitioned(t, k, s) ELSE k
  OBVIOUS
<1>2. /\ editing[p].item = {i} /\ editing[p].at = t /\ editing' = [editing EXCEPT ![p] = AtRest]
      /\ UNCHANGED <<request, holds>> /\ row' = [row EXCEPT ![i] = y]
  BY <1>1 DEF WriteTransition, Writes, SetRow
<1>3. /\ k \in ContentRow /\ RowIsSound(k) /\ k.state # "absent"
      /\ s \in ContentRow /\ RelyOn(editing[p], p, i)
  BY <1>1, <1>2, InHand
<1>4. Exists(i) => s.version <= k.version /\ (s.version = k.version => s.data = k.data)
  BY <1>1, <1>2, <1>3 DEF RelyOn
<1>5. y = k \/ /\ Exists(i) /\ y \in ContentRow /\ RowIsSound(y) /\ y.state # "absent"
                /\ y.version = k.version /\ y.data = k.data
  BY <1>1, <1>3, <1>4, TransitionKeeps DEF Exists
<1>6. y \in ContentRow /\ RowIsSound(y) /\ y.state # "absent" /\ k.version \in Nat
  BY <1>3, <1>5, RowOf
<1>7. Stands(p, i, y)
  <2>1. ASSUME NEW q \in People, q # p, editing[q].item = {i}
        PROVE  editing[q].at \in Transitions \union {"saving"}
    <3>1. editing[p].at # "saving"
      BY <1>2 DEF Transitions
    <3>2. QED
      BY <1>2, <2>1, <3>1, InHand
  <2>2. y = row[i] \/ (Exists(i) /\ row[i].version <= y.version /\ row[i].data = y.data)
    BY <1>1, <1>5, <1>6
  <2>3. QED
    BY <2>1, <2>2 DEF Stands
<1>8. QED
  BY <1>2, <1>6, <1>7, Finishes

LEMMA Creates ==
  ASSUME ReviewInv, NEW p \in People, NEW i \in Items, NEW c \in Contents, CreateItem(p, i, c)
  PROVE  ReviewInv'
<1>. DEFINE x == Row("draft", c, NoContent, 1, 0, FALSE)
<1>1. row' = [row EXCEPT ![i] = x] /\ UNCHANGED <<request, holds, editing>> /\ row[i].state = "absent"
  BY DEF CreateItem, SetRow
<1>2. x \in ContentRow /\ RowIsSound(x)
  BY DEF Row, ContentRow, RowIsSound
<1>. HIDE DEF x
<1>3. row' \in [Items -> ContentRow] /\ RowInv' /\ \A j \in Items : j # i => row'[j] = row[j]
  BY <1>1, <1>2, OneRow
<1>4. ASSUME NEW q \in People, NEW j \in Items, editing[q].item = {j} PROVE RelyOn(editing[q], q, j)'
  <2>1. RelyOn(editing[q], q, j) /\ editing' = editing
    BY <1>1, <1>4 DEF ReviewInv, EditingInv
  <2>2. row'[j] = row[j]
    BY <1>1, <1>3, <2>1 DEF RelyOn
  <2>3. QED
    BY <2>1, <2>2 DEF RelyOn, Exists
<1>5. editing' = [q \in People |-> editing'[q]] /\ EditingInv'
  BY <1>1, <1>4 DEF ReviewInv, EditingInv
<1>6. QED
  BY <1>1, <1>3, <1>5, RequestsRest DEF ReviewInv
-----------------------------------------------------------------------------
LEMMA RequestGoes ==
  ASSUME ReviewInv, NEW r \in ChangeRequests, NEW x, Asked(x), request' = [request EXCEPT ![r] = x],
         x.frozen = request[r].frozen, x.status = "approved" => x.reviewer # {} /\ x.reviewer # x.by,
         \/ x.status \in OpenStatuses /\ request[r].status \in OpenStatuses /\ holds' = holds
         \/ x.status \notin OpenStatuses /\ Release(r)
  PROVE  RequestInv' /\ HoldsInv'
<1>1. RequestInv /\ holds \subseteq ChangeRequests \X Items /\ HeldByOneOpenRequest
  BY DEF ReviewInv, HoldsInv
<1>2. /\ request' = [q \in ChangeRequests |-> request'[q]] /\ request'[r] = x
      /\ \A q \in ChangeRequests : q # r => request'[q] = request[q]
  BY <1>1 DEF RequestInv
<1>3. RequestInv'
  <2>1. ASSUME NEW q \in ChangeRequests
        PROVE  /\ Asked(request'[q])
               /\ request'[q].status = "approved" => request'[q].reviewer # {} /\ request'[q].reviewer # request'[q].by
    <3>1. CASE q = r
      BY <1>2, <3>1
    <3>2. CASE q # r
      BY <1>1, <1>2, <3>2 DEF RequestInv
    <3>3. QED
      BY <3>1, <3>2
  <2>2. QED
    BY <1>2, <2>1 DEF RequestInv, Asked
<1>4. holds' \subseteq holds /\ \A q \in ChangeRequests, i \in Items :
         <<q, i>> \in holds' <=> <<q, i>> \in holds /\ (q = r => x.status \in OpenStatuses)
  <2>1. CASE x.status \in OpenStatuses /\ request[r].status \in OpenStatuses /\ holds' = holds
    BY <2>1
  <2>2. CASE x.status \notin OpenStatuses /\ Release(r)
    BY <2>2 DEF Release
  <2>3. QED
    BY <2>1, <2>2
<1>5. ASSUME NEW q \in ChangeRequests, NEW i \in Items
      PROVE  <<q, i>> \in holds' <=> i \in DOMAIN request'[q].frozen /\ request'[q].status \in OpenStatuses
  <2>1. <<q, i>> \in holds <=> i \in DOMAIN request[q].frozen /\ request[q].status \in OpenStatuses
    BY <1>1 DEF HeldByOneOpenRequest
  <2>2. CASE q = r
    BY <1>2, <1>4, <2>1, <2>2
  <2>3. CASE q # r
    BY <1>2, <1>4, <2>1, <2>3
  <2>4. QED
    BY <2>2, <2>3
<1>6. \A h, k \in holds' : h[2] = k[2] => h = k
  BY <1>1, <1>4 DEF HeldByOneOpenRequest
<1>7. QED
  BY <1>1, <1>3, <1>4, <1>5, <1>6 DEF HoldsInv, HeldByOneOpenRequest

LEMMA RowsRest ==
  ASSUME ReviewInv, UNCHANGED <<row, editing>>, RequestInv', HoldsInv'
  PROVE  ReviewInv'
BY DEF ReviewInv, RowInv, EditingInv, RelyOn, Exists

LEMMA Closes ==
  ASSUME ReviewInv, NEW r \in ChangeRequests, NEW to \in Closed \union {"published"}, Release(r),
         Moves(r, [request[r] EXCEPT !.status = to])
  PROVE  RequestInv' /\ HoldsInv'
<1>1. PICK k, x : k = request[r] /\ x = [k EXCEPT !.status = to]
  OBVIOUS
<1>2. request' = [request EXCEPT ![r] = x] /\ Asked(k)
  BY <1>1 DEF Moves, ReviewInv, RequestInv
<1>3. Asked(x) /\ x.status = to /\ x.frozen = request[r].frozen
  BY <1>1, <1>2 DEF Asked
<1>4. x.status \notin OpenStatuses /\ x.status # "approved"
  BY <1>3 DEF OpenStatuses, Closed
<1>5. QED
  BY <1>2, <1>3, <1>4, RequestGoes

LEMMA Approves ==
  ASSUME ReviewInv, NEW v \in People, NEW r \in ChangeRequests, Approve(v, r)
  PROVE  ReviewInv'
<1>1. PICK k, d, x : /\ k = request[r] /\ d = today + ApprovalLife
                      /\ x = [k EXCEPT !.status = "approved", !.reviewer = {v}, !.expires = d]
  OBVIOUS
<1>1a. Asked(k)
  BY <1>1 DEF ReviewInv, RequestInv
<1>2. /\ Asked(x) /\ x.status = "approved" /\ x.frozen = request[r].frozen
      /\ x.by = request[r].by /\ x.reviewer = {v}
  BY <1>1, <1>1a DEF Asked
<1>3. CASE Fresh(r)
  <2>1. request' = [request EXCEPT ![r] = x] /\ holds' = holds /\ request[r].by # {v} /\ request[r].status = "submitted"
    BY <1>1, <1>3 DEF Approve, Moves
  <2>2. x.status \in OpenStatuses /\ request[r].status \in OpenStatuses /\ x.reviewer # {} /\ x.reviewer # x.by
    BY <1>2, <2>1 DEF OpenStatuses
  <2>3. RequestInv' /\ HoldsInv'
    BY <1>2, <2>1, <2>2, RequestGoes
  <2>4. QED
    BY <2>3, RowsRest DEF Approve
<1>4. CASE ~Fresh(r)
  <2>1. Moves(r, [request[r] EXCEPT !.status = "stale"]) /\ Release(r)
    BY <1>4 DEF Approve, Close
  <2>2. RequestInv' /\ HoldsInv'
    BY <2>1, Closes DEF Closed
  <2>3. QED
    BY <2>2, RowsRest DEF Approve
<1>5. QED
  BY <1>3, <1>4

LEMMA Rejects ==
  ASSUME ReviewInv, NEW v \in People, NEW r \in ChangeRequests, Reject(v, r)
  PROVE  ReviewInv'
<1>1. PICK k, x : k = request[r] /\ x = [k EXCEPT !.status = "rejected", !.reviewer = {v}]
  OBVIOUS
<1>1a. Asked(k)
  BY <1>1 DEF ReviewInv, RequestInv
<1>2. Asked(x) /\ x.status = "rejected" /\ x.frozen = request[r].frozen
  BY <1>1, <1>1a DEF Asked
<1>3. request' = [request EXCEPT ![r] = x] /\ Release(r) /\ UNCHANGED <<row, editing>>
  BY <1>1 DEF Reject, Moves
<1>4. x.status \notin OpenStatuses /\ x.status # "approved"
  BY <1>2 DEF OpenStatuses
<1>5. QED
  BY <1>2, <1>3, <1>4, RequestGoes, RowsRest

LEMMA TakenBack ==
  ASSUME ReviewInv, NEW v \in People, NEW r \in ChangeRequests, Revoke(v, r) \/ Withdraw(v, r)
  PROVE  ReviewInv'
<1>1. /\ UNCHANGED <<row, editing>>
      /\ \E to \in {"revoked", "withdrawn"} : Moves(r, [request[r] EXCEPT !.status = to]) /\ Release(r)
  BY DEF Revoke, Withdraw, Close
<1>2. RequestInv' /\ HoldsInv'
  BY <1>1, Closes DEF Closed
<1>3. QED
  BY <1>1, <1>2, RowsRest

LEMMA Submits ==
  ASSUME ReviewInv, NEW p \in People, NEW r \in ChangeRequests, NEW S \in SUBSET Items, SubmitChange(p, r, S)
  PROVE  ReviewInv'
<1>1. PICK f : f = [i \in S |-> Frozen(i)]
  OBVIOUS
<1>2. PICK x : x = [NoRequest EXCEPT !.status = "submitted", !.by = {p}, !.frozen = f]
  OBVIOUS
<1>3. Asked(x) /\ x.status = "submitted" /\ x.frozen = f /\ DOMAIN f = S
  BY <1>1, <1>2 DEF Asked, NoRequest
<1>4. /\ request[r] = NoRequest /\ request' = [request EXCEPT ![r] = x] /\ holds' = holds \union ({r} \X S)
      /\ \A i \in S : ~Held(i)
      /\ UNCHANGED <<row, editing>>
  BY <1>1, <1>2 DEF SubmitChange
<1>5. RequestInv /\ holds \subseteq ChangeRequests \X Items /\ HeldByOneOpenRequest
  BY DEF ReviewInv, HoldsInv
<1>6. /\ request' = [q \in ChangeRequests |-> request'[q]] /\ request'[r] = x
      /\ \A q \in ChangeRequests : q # r => request'[q] = request[q]
  BY <1>4, <1>5 DEF RequestInv
<1>7. RequestInv'
  <2>1. ASSUME NEW q \in ChangeRequests
        PROVE  /\ Asked(request'[q])
               /\ request'[q].status = "approved" => request'[q].reviewer # {} /\ request'[q].reviewer # request'[q].by
    <3>1. CASE q = r
      BY <1>3, <1>6, <3>1
    <3>2. CASE q # r
      BY <1>5, <1>6, <3>2 DEF RequestInv
    <3>3. QED
      BY <3>1, <3>2
  <2>2. QED
    BY <1>6, <2>1 DEF RequestInv, Asked
<1>8. ASSUME NEW i \in Items PROVE <<r, i>> \notin holds
  <2>1. request[r].status \notin OpenStatuses
    BY <1>4 DEF NoRequest, OpenStatuses
  <2>2. QED
    BY <1>5, <2>1 DEF HeldByOneOpenRequest
<1>9. ASSUME NEW q \in ChangeRequests, NEW i \in Items
      PROVE  <<q, i>> \in holds' <=> i \in DOMAIN request'[q].frozen /\ request'[q].status \in OpenStatuses
  <2>1. <<q, i>> \in holds <=> i \in DOMAIN request[q].frozen /\ request[q].status \in OpenStatuses
    BY <1>5 DEF HeldByOneOpenRequest
  <2>2. CASE q = r
    <3>1. <<q, i>> \in holds' <=> i \in S
      BY <1>4, <1>8, <2>2
    <3>2. QED
      BY <1>3, <1>6, <2>2, <3>1 DEF OpenStatuses
  <2>3. CASE q # r
    <3>1. <<q, i>> \in holds' <=> <<q, i>> \in holds
      BY <1>4, <2>3
    <3>2. QED
      BY <1>6, <2>1, <2>3, <3>1
  <2>4. QED
    BY <2>2, <2>3
<1>10. ASSUME NEW h \in holds', NEW k \in holds', h[2] = k[2] PROVE h = k
  <2>1. CASE h \in holds /\ k \in holds
    BY <1>5, <1>10, <2>1 DEF HeldByOneOpenRequest
  <2>2. ASSUME NEW a \in holds, NEW b \in {r} \X S, a[2] = b[2] PROVE FALSE
    <3>1. a[1] \in ChangeRequests /\ a = <<a[1], a[2]>> /\ b[2] \in S
      BY <1>5, <2>2
    <3>2. Held(b[2])
      BY <2>2, <3>1 DEF Held
    <3>3. QED
      BY <1>4, <3>1, <3>2
  <2>3. CASE h \in {r} \X S /\ k \in {r} \X S
    BY <1>10, <2>3
  <2>4. QED
    BY <1>4, <1>10, <2>1, <2>2, <2>3
<1>11. holds' \subseteq ChangeRequests \X Items
  BY <1>4, <1>5
<1>12. HoldsInv'
  BY <1>9, <1>10, <1>11 DEF HoldsInv, HeldByOneOpenRequest
<1>13. QED
  BY <1>4, <1>7, <1>12, RowsRest

LEMMA Sweeps ==
  ASSUME ReviewInv, SweepExpired
  PROVE  ReviewInv'
<1>1. RequestInv /\ holds \subseteq ChangeRequests \X Items /\ HeldByOneOpenRequest
  BY DEF ReviewInv, HoldsInv
<1>2. /\ request' = [q \in ChangeRequests |-> request'[q]] /\ UNCHANGED <<row, editing>>
      /\ holds' = {h \in holds : ~Lapsed(h[1])}
      /\ \A q \in ChangeRequests : request'[q] = IF Lapsed(q) THEN [request[q] EXCEPT !.status = "expired"] ELSE request[q]
  BY DEF SweepExpired
<1>3. ASSUME NEW q \in ChangeRequests, Lapsed(q)
      PROVE  /\ Asked(request'[q]) /\ request'[q].status = "expired" /\ request'[q].frozen = request[q].frozen
  <2>1. PICK k, x : k = request[q] /\ x = [k EXCEPT !.status = "expired"]
    OBVIOUS
  <2>2. Asked(k)
    BY <1>1, <2>1 DEF RequestInv
  <2>3. Asked(x) /\ x.status = "expired" /\ x.frozen = request[q].frozen
    BY <2>1, <2>2 DEF Asked
  <2>4. QED
    BY <1>2, <1>3, <2>1, <2>3
<1>4. ASSUME NEW q \in ChangeRequests, ~Lapsed(q) PROVE request'[q] = request[q]
  BY <1>2, <1>4
<1>5. RequestInv'
  <2>1. ASSUME NEW q \in ChangeRequests
        PROVE  /\ Asked(request'[q])
               /\ request'[q].status = "approved" => request'[q].reviewer # {} /\ request'[q].reviewer # request'[q].by
    <3>1. CASE Lapsed(q)
      BY <1>3, <3>1
    <3>2. CASE ~Lapsed(q)
      BY <1>1, <1>4, <3>2 DEF RequestInv
    <3>3. QED
      BY <3>1, <3>2
  <2>2. QED
    BY <1>2, <2>1 DEF RequestInv, Asked
<1>6. ASSUME NEW q \in ChangeRequests, NEW i \in Items
      PROVE  <<q, i>> \in holds' <=> i \in DOMAIN request'[q].frozen /\ request'[q].status \in OpenStatuses
  <2>1. <<q, i>> \in holds <=> i \in DOMAIN request[q].frozen /\ request[q].status \in OpenStatuses
    BY <1>1 DEF HeldByOneOpenRequest
  <2>2. <<q, i>> \in holds' <=> <<q, i>> \in holds /\ ~Lapsed(q)
    BY <1>2
  <2>3. CASE Lapsed(q)
    BY <1>3, <2>2, <2>3 DEF OpenStatuses
  <2>4. CASE ~Lapsed(q)
    BY <1>4, <2>1, <2>2, <2>4
  <2>5. QED
    BY <2>3, <2>4
<1>7. HoldsInv'
  BY <1>1, <1>2, <1>6 DEF HoldsInv, HeldByOneOpenRequest
<1>8. QED
  BY <1>2, <1>5, <1>7, RowsRest
-----------------------------------------------------------------------------
(* A request is published: what it froze is what it puts live.             *)
LEMMA PutLiveRows ==
  ASSUME ReviewInv, NEW r \in ChangeRequests, request[r].status = "approved", Fresh(r), PutLive(r), NEW i \in Items
  PROVE  /\ row'[i] \in ContentRow /\ RowIsSound(row'[i])
         /\ row'[i].version = row[i].version /\ row'[i].data = row[i].data
         /\ row[i].state = "absent" <=> row'[i].state = "absent"
         /\ row[i].state = "gone" <=> row'[i].state = "gone"
         /\ i \notin DOMAIN request[r].frozen => row'[i] = row[i]
         /\ i \in DOMAIN request[r].frozen =>
              row'[i].state = "published" /\ row'[i].live = request[r].frozen[i].data
<1>1. PICK k, y : k = row[i] /\ y = row'[i]
  OBVIOUS
<1>2. k \in ContentRow /\ RowIsSound(k)
  BY <1>1 DEF ReviewInv, RowInv
<1>3. y = IF i \in DOMAIN request[r].frozen /\ ~(k.state = "published" /\ ~HasChanges(k)) THEN Shown(k, k) ELSE k
  BY <1>1 DEF PutLive
<1>4. ASSUME i \in DOMAIN request[r].frozen
      PROVE  k.state \notin {"absent", "gone"} /\ request[r].frozen[i].data = k.data
  <2>1. Exists(i) /\ Frozen(i) = request[r].frozen[i]
    BY <1>4 DEF Fresh
  <2>2. Frozen(i).data = row[i].data
    BY DEF Frozen
  <2>3. QED
    BY <1>1, <2>1, <2>2 DEF Exists
<1>5. /\ Whole(k) /\ k.data \in Contents /\ k.version \in Nat
  BY <1>2, RowOf
<1>6. CASE y = Shown(k, k) /\ i \in DOMAIN request[r].frozen
  <2>1. /\ Whole(y) /\ y.state = "published" /\ y.data = k.data /\ y.live = k.data /\ y.version = k.version
        /\ y.liveVersion = k.version /\ y.everLive = TRUE
    BY <1>5, <1>6 DEF Whole, Shown
  <2>2. y \in ContentRow
    BY <1>5, <2>1, RowOf
  <2>3. RowIsSound(y)
    BY <1>5, <2>1 DEF RowIsSound
  <2>4. QED
    BY <1>1, <1>4, <1>6, <2>1, <2>2, <2>3
<1>7. CASE y = k /\ i \notin DOMAIN request[r].frozen
  BY <1>1, <1>2, <1>7
<1>8. CASE y = k /\ i \in DOMAIN request[r].frozen /\ k.state = "published" /\ ~HasChanges(k)
  BY <1>1, <1>2, <1>4, <1>8 DEF RowIsSound, HasChanges
<1>9. QED
  BY <1>3, <1>6, <1>7, <1>8

LEMMA Publishes ==
  ASSUME ReviewInv, ~CleanupsOverlap, NEW p \in People, NEW r \in ChangeRequests, PublishApproved(p, r)
  PROVE  ReviewInv'
<1>1. CASE UNCHANGED row
  <2>1. \E to \in Closed \union {"published"} : Moves(r, [request[r] EXCEPT !.status = to]) /\ Release(r)
    BY DEF PublishApproved, Close, Closed
  <2>2. RequestInv' /\ HoldsInv'
    BY <2>1, Closes
  <2>3. QED
    BY <1>1, <2>2, RowsRest DEF PublishApproved
<1>2. CASE Fresh(r) /\ PutLive(r) /\ Moves(r, [request[r] EXCEPT !.status = "published"]) /\ Release(r)
  <2>1. RequestInv' /\ HoldsInv'
    BY <1>2, Closes
  <2>2. /\ request[r].status = "approved" /\ editing' = editing
        /\ \A i \in DOMAIN request[r].frozen : ~Cleaning(i)
    BY DEF PublishApproved
  <2>3. row' \in [Items -> ContentRow] /\ RowInv'
    <3>1. \A i \in Items : row'[i] \in ContentRow /\ RowIsSound(row'[i])
      BY <1>2, <2>2, PutLiveRows
    <3>2. row' = [i \in Items |-> row'[i]]
      BY <1>2 DEF PutLive
    <3>3. QED
      BY <3>1, <3>2 DEF RowInv
  <2>4. ASSUME NEW q \in People, NEW i \in Items, editing[q].item = {i} PROVE RelyOn(editing[q], q, i)'
    <3>1. RelyOn(editing[q], q, i) /\ editing'[q] = editing[q]
      BY <2>2, <2>4 DEF ReviewInv, EditingInv
    <3>2. /\ row'[i].version = row[i].version /\ row'[i].data = row[i].data
          /\ row[i].state = "absent" <=> row'[i].state = "absent"
          /\ row[i].state = "gone" <=> row'[i].state = "gone"
          /\ i \notin DOMAIN request[r].frozen => row'[i] = row[i]
      BY <1>2, <2>2, PutLiveRows
    <3>3. editing[q].at \in Cleanups => row'[i] = row[i]
      BY <2>2, <2>4, <3>2 DEF Cleaning
    <3>4. QED
      BY <3>1, <3>2, <3>3 DEF RelyOn, Exists, Cleanups
  <2>5. editing' = [q \in People |-> editing'[q]] /\ EditingInv'
    BY <2>2, <2>4 DEF ReviewInv, EditingInv
  <2>6. QED
    BY <2>1, <2>3, <2>5 DEF ReviewInv
<1>3. QED
  BY <1>1, <1>2 DEF PublishApproved
-----------------------------------------------------------------------------
LEMMA Edits ==
  ASSUME ReviewInv, ~CleanupsOverlap, NEW p \in People, NEW i \in Items, EditItem(p, i)
  PROVE  ReviewInv'
<1>1. CASE \E c \in Contents : CreateItem(p, i, c) \/ WriteSave(p, i, c)
  BY <1>1, Creates, Saves
<1>2. CASE BeginSave(p, i)
  <2>1. Begins(p, i, "saving") /\ "saving" \notin Transitions
    BY <1>2 DEF BeginSave, Transitions
  <2>2. QED
    BY <2>1, Begun
<1>3. CASE LoseSave(p, i)
  BY <1>3, SavesLost
<1>4. CASE BeginDiscard(p, i)
  <2>1. Begins(p, i, "discarding") /\ "discarding" \notin Transitions /\ row[i].state = "published"
    BY <1>4 DEF BeginDiscard, Transitions, HasChanges
  <2>2. "discarding" \in Cleanups
    BY DEF Cleanups
  <2>3. QED
    BY <2>1, <2>2, Begun
<1>5. CASE WriteDiscard(p, i)
  BY <1>5, Discards
<1>6. CASE BeginDelete(p, i)
  <2>1. Begins(p, i, "deleting") /\ "deleting" \notin Transitions /\ ~row[i].everLive
    BY <1>6 DEF BeginDelete, Transitions
  <2>2. "deleting" \in Cleanups
    BY DEF Cleanups
  <2>3. QED
    BY <2>1, <2>2, Begun
<1>7. CASE WriteDelete(p, i)
  BY <1>7, Deletes
<1>8. ASSUME NEW t \in Transitions, BeginTransition(p, i, t) PROVE ReviewInv'
  <2>1. Begins(p, i, t) /\ p \in MayPublish /\ t \notin {"discarding", "deleting"}
    BY <1>8 DEF BeginTransition, Transitions
  <2>2. QED
    BY <2>1, Begun
<1>9. ASSUME NEW t \in Transitions, WriteTransition(p, i, t) PROVE ReviewInv'
  BY <1>9, TransitionsMade
<1>10. QED
  BY <1>1, <1>2, <1>3, <1>4, <1>5, <1>6, <1>7, <1>8, <1>9 DEF EditItem

LEMMA Reviews ==
  ASSUME ReviewInv, ~CleanupsOverlap, NEW p \in People, NEW r \in ChangeRequests, Review(p, r)
  PROVE  ReviewInv'
BY Submits, Approves, Rejects, TakenBack, Publishes DEF Review

LEMMA ReviewStep ==
  ASSUME ReviewInv, ~CleanupsOverlap, [ReviewNext]_reviewVars
  PROVE  ReviewInv'
<1>1. CASE \E p \in People, i \in Items : EditItem(p, i)
  BY <1>1, Edits
<1>2. CASE \E p \in People, r \in ChangeRequests : Review(p, r)
  BY <1>2, Reviews
<1>3. CASE SweepExpired
  BY <1>3, Sweeps
<1>4. CASE NextDay \/ UNCHANGED reviewVars
  <2>1. UNCHANGED <<row, request, holds, editing>>
    BY <1>4 DEF NextDay, reviewVars
  <2>2. QED
    BY <2>1, RequestsRest, RowsRest
<1>5. QED
  BY <1>1, <1>2, <1>3, <1>4 DEF ReviewNext

(* The row, the editor's screen and the requests agree, for any rows,      *)
(* people and requests, while no discard and no delete overlaps another    *)
(* write (service.ts reads a row, asks, and writes it by id).              *)
THEOREM RowsAgree ==
  ASSUME ~CleanupsOverlap
  PROVE  ReviewSpec => []RowsAreSound
<1>1. ReviewInv => RowsAreSound
  BY DEF ReviewInv, RowInv, RowIsSound, HoldsInv, RowsAreSound, UnchangedMeansLive, NothingSeenDisappears, HasChanges
<1>2. ReviewInv /\ [ReviewNext]_reviewVars => ReviewInv'
  BY ReviewStep
<1>3. QED
  BY <1>1, <1>2, ReviewInitInv, PTL DEF ReviewSpec

(* The lemmas below: what a request that was approved turns into, and what *)
(* a step does to what is live.                                            *)
LEMMA OtherRequests ==
  ASSUME ReviewInv, NEW p \in People, NEW q \in ChangeRequests, Review(p, q), NEW r \in ChangeRequests, r # q
  PROVE  request'[r] = request[r]
<1>1. request = [z \in ChangeRequests |-> request[z]]
  BY DEF ReviewInv, RequestInv
<1>2. \E x : request' = [request EXCEPT ![q] = x]
  BY DEF Review, SubmitChange, Approve, Reject, Revoke, Withdraw, PublishApproved, Close, Moves
<1>3. QED
  BY <1>1, <1>2

LEMMA Becomes ==
  ASSUME ReviewInv, NEW r \in ChangeRequests, NEW to, Moves(r, [request[r] EXCEPT !.status = to])
  PROVE  request'[r].status = to
<1>1. PICK k, x : k = request[r] /\ x = [k EXCEPT !.status = to]
  OBVIOUS
<1>2. Asked(k) /\ request'[r] = x
  BY <1>1 DEF ReviewInv, RequestInv, Moves
<1>3. QED
  BY <1>1, <1>2 DEF Asked

LEMMA OnlyPublished ==
  ASSUME ReviewInv, [ReviewNext]_reviewVars, NEW r \in ChangeRequests,
         request[r].status = "approved", request'[r].status = "published"
  PROVE  Usable(r) /\ Fresh(r) /\ PutLive(r)
<1>1. request' # request
  OBVIOUS
<1>2. PICK p \in People, q \in ChangeRequests : Review(p, q)
  <2>1. ASSUME NEW p \in People, NEW i \in Items, EditItem(p, i) PROVE request' = request
    BY <2>1 DEF EditItem, CreateItem, WriteSave, BeginSave, LoseSave, BeginDiscard, WriteDiscard, BeginDelete, WriteDelete,
             BeginTransition, WriteTransition, Begins, Writes
  <2>2. ASSUME SweepExpired PROVE request'[r].status # "published"
    <3>1. PICK k, x : k = request[r] /\ x = [k EXCEPT !.status = "expired"]
      OBVIOUS
    <3>2. Asked(k)
      BY <3>1 DEF ReviewInv, RequestInv
    <3>3. x.status = "expired"
      BY <3>1, <3>2 DEF Asked
    <3>4. request'[r] = x \/ request'[r] = request[r]
      BY <2>2, <3>1 DEF SweepExpired
    <3>5. QED
      BY <3>3, <3>4
  <2>3. QED
    BY <1>1, <2>1, <2>2 DEF ReviewNext, NextDay, reviewVars
<1>3. q = r
  BY <1>2, OtherRequests
<1>4. ASSUME NEW S \in SUBSET Items, SubmitChange(p, r, S) PROVE FALSE
  BY <1>4 DEF SubmitChange, NoRequest
<1>5. ~Approve(p, r) /\ ~Reject(p, r)
  BY DEF Approve, Reject
<1>6. ~Revoke(p, r) /\ ~Withdraw(p, r)
  BY Becomes DEF Revoke, Withdraw, Close
<1>7. PublishApproved(p, r)
  BY <1>2, <1>3, <1>4, <1>5, <1>6 DEF Review
<1>8. ~Close(r, "expired") /\ ~Close(r, "stale")
  BY Becomes DEF Close
<1>9. QED
  BY <1>7, <1>8 DEF PublishApproved

LEMMA PublishedStep ==
  ASSUME ReviewInv, [ReviewNext]_reviewVars, NEW r \in ChangeRequests,
         request[r].status = "approved", request'[r].status = "published"
  PROVE  \A i \in DOMAIN request[r].frozen :
           row'[i].state = "published" /\ row'[i].live = request[r].frozen[i].data
<1>1. Fresh(r) /\ PutLive(r)
  BY OnlyPublished
<1>2. DOMAIN request[r].frozen \subseteq Items
  BY DEF ReviewInv, RequestInv, Asked
<1>3. QED
  BY <1>1, <1>2, PutLiveRows

LEMMA LiveStep ==
  ASSUME ReviewInv, [ReviewNext]_reviewVars, NEW i \in Items, row'[i].live # row[i].live
  PROVE  \/ \E p \in MayPublish : editing[p].item = {i} /\ editing[p].at \in Transitions
         \/ \E r \in ChangeRequests :
              /\ i \in DOMAIN request[r].frozen
              /\ Usable(r) /\ request'[r].status = "published"
              /\ request[r].reviewer # {} /\ request[r].reviewer # request[r].by
<1>1. row'[i] # row[i]
  OBVIOUS
<1>2. row = [j \in Items |-> row[j]] /\ row[i] \in ContentRow /\ RowIsSound(row[i])
  BY DEF ReviewInv, RowInv
<1>3. ASSUME NEW p \in People, NEW j \in Items, EditItem(p, j)
      PROVE  \E q \in MayPublish : editing[q].item = {i} /\ editing[q].at \in Transitions
  <2>1. ASSUME NEW x, row' = [row EXCEPT ![j] = x] PROVE j = i /\ row'[i] = x
    BY <1>1, <1>2, <2>1
  <2>2. ASSUME NEW c \in Contents, CreateItem(p, j, c) PROVE FALSE
    <3>1. row' = [row EXCEPT ![j] = Row("draft", c, NoContent, 1, 0, FALSE)] /\ row[j].state = "absent"
      BY <2>2 DEF CreateItem, SetRow
    <3>2. j = i /\ row'[i] = Row("draft", c, NoContent, 1, 0, FALSE)
      BY <2>1, <3>1
    <3>3. row[i].live = NoContent
      BY <1>2, <3>1, <3>2 DEF RowIsSound
    <3>4. QED
      BY <3>2, <3>3 DEF Row
  <2>3. ASSUME NEW c \in Contents, WriteSave(p, j, c) PROVE FALSE
    <3>1. PICK k, y : k = row[j] /\ y = [k EXCEPT !.data = c, !.version = @ + 1]
      OBVIOUS
    <3>2. row' = [row EXCEPT ![j] = y]
      BY <1>1, <2>3, <3>1 DEF WriteSave, SetRow
    <3>3. row'[i] = y /\ k = row[i] /\ Whole(k)
      BY <1>2, <2>1, <3>1, <3>2, RowOf
    <3>4. y.live = k.live
      BY <3>1, <3>3 DEF Whole
    <3>5. QED
      BY <3>3, <3>4
  <2>4. ASSUME WriteDiscard(p, j) PROVE FALSE
    <3>1. PICK k, y, n : /\ k = row[j] /\ n = editing[p].seen.live
                         /\ y = [k EXCEPT !.data = n, !.version = @ + 1, !.liveVersion = k.version + 1]
      OBVIOUS
    <3>2. row' = [row EXCEPT ![j] = y]
      BY <2>4, <3>1 DEF WriteDiscard, SetRow
    <3>3. row'[i] = y /\ k = row[i] /\ Whole(k)
      BY <1>2, <2>1, <3>1, <3>2, RowOf
    <3>4. y.live = k.live
      BY <3>1, <3>3 DEF Whole
    <3>5. QED
      BY <3>3, <3>4
  <2>5. ASSUME WriteDelete(p, j) PROVE FALSE
    <3>1. PICK b, e, y : b = Blank /\ e = row[j].everLive /\ y = [NoRow(b) EXCEPT !.state = "gone", !.everLive = e]
      OBVIOUS
    <3>2. row' = [row EXCEPT ![j] = y] /\ row[j].state = "draft"
      BY <1>1, <2>5, <3>1 DEF WriteDelete, SetRow
    <3>3. j = i /\ row'[i] = y
      BY <2>1, <3>2
    <3>4. y.live = NoContent
      BY <3>1 DEF NoRow, Row
    <3>5. row[i].live = NoContent
      BY <1>2, <3>2, <3>3 DEF RowIsSound
    <3>6. QED
      BY <3>3, <3>4, <3>5
  <2>6. ASSUME NEW t \in Transitions, WriteTransition(p, j, t)
        PROVE  \E q \in MayPublish : editing[q].item = {i} /\ editing[q].at \in Transitions
    <3>1. editing[p].item = {j} /\ editing[p].at = t
      BY <2>6 DEF WriteTransition, Writes
    <3>2. j = i
      BY <2>1, <2>6 DEF WriteTransition, SetRow
    <3>3. p \in MayPublish
      BY <3>1, InHand DEF RelyOn
    <3>4. QED
      BY <3>1, <3>2, <3>3
  <2>7. UNCHANGED row => FALSE
    BY <1>1
  <2>8. ~BeginSave(p, j) /\ ~LoseSave(p, j) /\ ~BeginDiscard(p, j) /\ ~BeginDelete(p, j)
        /\ \A t \in Transitions : ~BeginTransition(p, j, t)
    BY <2>7 DEF BeginSave, LoseSave, BeginDiscard, BeginDelete, BeginTransition, Begins
  <2>9. QED
    BY <1>3, <2>2, <2>3, <2>4, <2>5, <2>6, <2>8 DEF EditItem
<1>4. ASSUME NEW p \in People, NEW r \in ChangeRequests, Review(p, r)
      PROVE  /\ i \in DOMAIN request[r].frozen /\ Usable(r) /\ request'[r].status = "published"
             /\ request[r].reviewer # {} /\ request[r].reviewer # request[r].by
  <2>1. PublishApproved(p, r)
    BY <1>1, <1>4 DEF Review, SubmitChange, Approve, Reject, Revoke, Withdraw
  <2>2. /\ Usable(r) /\ Fresh(r) /\ PutLive(r) /\ request[r].status = "approved"
        /\ Moves(r, [request[r] EXCEPT !.status = "published"])
    BY <1>1, <2>1 DEF PublishApproved
  <2>3. request'[r].status = "published"
    BY <2>2, Becomes
  <2>4. i \in DOMAIN request[r].frozen
    BY <1>1, <2>2 DEF PutLive
  <2>5. QED
    BY <2>2, <2>3, <2>4 DEF ReviewInv, RequestInv
<1>5. ~SweepExpired /\ ~NextDay /\ ~UNCHANGED reviewVars
  BY <1>1 DEF SweepExpired, NextDay, reviewVars
<1>6. QED
  BY <1>3, <1>4, <1>5 DEF ReviewNext

(* However a page goes live it goes live by somebody's right, and what a   *)
(* request puts live is what was reviewed (publishApproved).               *)
THEOREM OnlyReviewed ==
  ASSUME ~CleanupsOverlap
  PROVE  ReviewSpec => OnlyReviewedGoesLive
<1>1. ReviewInv /\ [ReviewNext]_reviewVars => ReviewInv'
  BY ReviewStep
<1>2. ReviewInv /\ [ReviewNext]_reviewVars =>
        [\A r \in ChangeRequests :
           request[r].status = "approved" /\ request'[r].status = "published"
             => \A i \in DOMAIN request[r].frozen :
                  row'[i].state = "published" /\ row'[i].live = request[r].frozen[i].data]_reviewVars
  BY PublishedStep
<1>3. ReviewInv /\ [ReviewNext]_reviewVars =>
        [\A i \in Items : row'[i].live # row[i].live =>
           \/ \E p \in MayPublish : editing[p].item = {i} /\ editing[p].at \in Transitions
           \/ \E r \in ChangeRequests :
                /\ i \in DOMAIN request[r].frozen
                /\ Usable(r) /\ request'[r].status = "published"
                /\ request[r].reviewer # {} /\ request[r].reviewer # request[r].by]_reviewVars
  BY LiveStep
<1>4. QED
  BY <1>1, <1>2, <1>3, ReviewInitInv, PTL DEF ReviewSpec, OnlyReviewedGoesLive, PublishedAsReviewed, LiveOnlyByRight
-----------------------------------------------------------------------------
(***************************************************************************)
(* The website's rows and requests are well formed whatever overlaps: no   *)
(* step writes anything but content over content. The one value that comes *)
(* from somewhere else is what a discard writes back, which is what was    *)
(* live when the row was read, and a discard begins on a published row,    *)
(* whose live copy is content and not the null of a draft.                 *)
(***************************************************************************)
RowShape == row \in [Items -> ContentRow] /\ \A i \in Items : row[i].state = "published" => row[i].live \in Contents

EditingShape ==
  /\ editing = [p \in People |-> editing[p]]
  /\ \A p \in People :
       /\ editing[p].item \in SUBSET Items /\ editing[p].seen \in ContentRow
       /\ editing[p].at = "discarding" => editing[p].seen.live \in Contents

RequestShape ==
  /\ request = [r \in ChangeRequests |-> request[r]]
  /\ \A r \in ChangeRequests :
       /\ Asked(request[r])
       /\ request[r].status \in OpenStatuses \union Closed \union {"none", "published"}
       /\ request[r].by \in SUBSET People /\ request[r].reviewer \in SUBSET People

HoldsShape == holds \subseteq ChangeRequests \X Items

ReviewShape == RowShape /\ EditingShape /\ RequestShape /\ HoldsShape /\ today \in Nat

LEMMA RestIs == AtRest.item = {} /\ AtRest.at = "rest" /\ AtRest.seen \in ContentRow
BY BlankIs DEF AtRest

LEMMA ReviewInitShape == ReviewInit => ReviewShape
<1> SUFFICES ASSUME ReviewInit PROVE ReviewShape
  OBVIOUS
<1>1. PICK b : b = Blank
  OBVIOUS
<1>2. b \in Contents
  BY <1>1, BlankIs
<1>3. /\ Row("published", b, b, 1, 1, TRUE) \in ContentRow /\ Row("published", b, b, 1, 1, TRUE).live = b
      /\ NoRow(b) \in ContentRow /\ NoRow(b).state = "absent"
  BY <1>2 DEF Row, NoRow, ContentRow
<1>4. RowShape
  BY <1>1, <1>2, <1>3 DEF ReviewInit, RowShape
<1>5. EditingShape
  BY RestIs DEF ReviewInit, EditingShape
<1>6. RequestShape /\ HoldsShape /\ today \in Nat
  BY DEF ReviewInit, RequestShape, HoldsShape, NoRequest, Asked
<1>7. QED
  BY <1>4, <1>5, <1>6 DEF ReviewShape

(* One row becomes x, one person takes up or lays down something, one      *)
(* request becomes x, and the rest stays.                                  *)
LEMMA RowShaped ==
  ASSUME RowShape, NEW i \in Items, NEW x \in ContentRow, x.state = "published" => x.live \in Contents,
         row' = [row EXCEPT ![i] = x]
  PROVE  RowShape'
<1>1. row' \in [Items -> ContentRow] /\ row'[i] = x /\ \A j \in Items : j # i => row'[j] = row[j]
  BY DEF RowShape
<1>2. \A j \in Items : row'[j].state = "published" => row'[j].live \in Contents
  BY <1>1 DEF RowShape
<1>3. QED
  BY <1>1, <1>2 DEF RowShape

LEMMA HandShaped ==
  ASSUME EditingShape, NEW p \in People, NEW e, editing' = [editing EXCEPT ![p] = e],
         e.item \in SUBSET Items, e.seen \in ContentRow, e.at = "discarding" => e.seen.live \in Contents
  PROVE  EditingShape'
<1>1. /\ editing' = [q \in People |-> editing'[q]] /\ editing'[p] = e
      /\ \A q \in People : q # p => editing'[q] = editing[q]
  BY DEF EditingShape
<1>2. ASSUME NEW q \in People
      PROVE  /\ editing'[q].item \in SUBSET Items /\ editing'[q].seen \in ContentRow
             /\ editing'[q].at = "discarding" => editing'[q].seen.live \in Contents
  BY <1>1 DEF EditingShape
<1>3. QED
  BY <1>1, <1>2 DEF EditingShape

LEMMA RequestShaped ==
  ASSUME RequestShape, NEW r \in ChangeRequests, NEW x, request' = [request EXCEPT ![r] = x],
         Asked(x), x.status \in OpenStatuses \union Closed \union {"none", "published"},
         x.by \in SUBSET People, x.reviewer \in SUBSET People
  PROVE  RequestShape'
<1>1. /\ request' = [q \in ChangeRequests |-> request'[q]] /\ request'[r] = x
      /\ \A q \in ChangeRequests : q # r => request'[q] = request[q]
  BY DEF RequestShape
<1>2. ASSUME NEW q \in ChangeRequests
      PROVE  /\ Asked(request'[q])
             /\ request'[q].status \in OpenStatuses \union Closed \union {"none", "published"}
             /\ request'[q].by \in SUBSET People /\ request'[q].reviewer \in SUBSET People
  BY <1>1 DEF RequestShape
<1>3. QED
  BY <1>1, <1>2 DEF RequestShape, Asked

LEMMA RowsStayShaped == RowShape /\ UNCHANGED row => RowShape'
BY DEF RowShape

LEMMA HandsStayShaped == EditingShape /\ UNCHANGED editing => EditingShape'
BY DEF EditingShape

LEMMA RequestsStayShaped == RequestShape /\ UNCHANGED request => RequestShape'
BY DEF RequestShape, Asked

LEMMA HoldsStayShaped == HoldsShape /\ holds' \subseteq holds => HoldsShape'
BY DEF HoldsShape
-----------------------------------------------------------------------------
LEMMA BegunShaped ==
  ASSUME ReviewShape, NEW p \in People, NEW i \in Items, NEW what, Begins(p, i, what),
         what = "discarding" => row[i].state = "published"
  PROVE  ReviewShape'
<1>. DEFINE e == [at |-> what, item |-> {i}, seen |-> IF what = "saving" THEN AtRest.seen ELSE row[i]]
<1>1. editing' = [editing EXCEPT ![p] = e] /\ UNCHANGED <<row, request, holds, today>>
  BY DEF Begins
<1>2. row[i] \in ContentRow /\ (row[i].state = "published" => row[i].live \in Contents)
  BY DEF ReviewShape, RowShape
<1>3. e.item \in SUBSET Items /\ e.seen \in ContentRow /\ (e.at = "discarding" => e.seen.live \in Contents)
  BY <1>2, RestIs
<1>. HIDE DEF e
<1>4. EditingShape'
  BY <1>1, <1>3, HandShaped DEF ReviewShape
<1>5. QED
  BY <1>1, <1>4, RowsStayShaped, RequestsStayShaped, HoldsStayShaped DEF ReviewShape

(* Whoever wrote is at rest, and the row he wrote is content.              *)
LEMMA WrittenShaped ==
  ASSUME ReviewShape, NEW p \in People, NEW i \in Items, NEW what, Writes(p, i, what),
         NEW x \in ContentRow, x.state = "published" => x.live \in Contents, SetRow(i, x)
  PROVE  ReviewShape'
<1>1. editing' = [editing EXCEPT ![p] = AtRest] /\ UNCHANGED <<request, holds, today>>
  BY DEF Writes
<1>2. EditingShape'
  BY <1>1, RestIs, HandShaped DEF ReviewShape
<1>3. RowShape'
  BY RowShaped DEF ReviewShape, SetRow
<1>4. QED
  BY <1>1, <1>2, <1>3, RequestsStayShaped, HoldsStayShaped DEF ReviewShape

LEMMA RowStands ==
  ASSUME RowShape, NEW i \in Items, UNCHANGED row
  PROVE  SetRow(i, row[i])
BY DEF RowShape, SetRow

LEMMA CreatedShaped ==
  ASSUME ReviewShape, NEW p \in People, NEW i \in Items, NEW c \in Contents, CreateItem(p, i, c)
  PROVE  ReviewShape'
<1>. DEFINE x == Row("draft", c, NoContent, 1, 0, FALSE)
<1>1. row' = [row EXCEPT ![i] = x] /\ UNCHANGED <<request, holds, editing, today>>
  BY DEF CreateItem, SetRow
<1>2. x \in ContentRow /\ x.state # "published"
  BY DEF Row, ContentRow
<1>. HIDE DEF x
<1>3. RowShape'
  BY <1>1, <1>2, RowShaped DEF ReviewShape
<1>4. QED
  BY <1>1, <1>3, HandsStayShaped, RequestsStayShaped, HoldsStayShaped DEF ReviewShape

LEMMA SavedShaped ==
  ASSUME ReviewShape, NEW p \in People, NEW i \in Items, NEW c \in Contents, WriteSave(p, i, c)
  PROVE  ReviewShape'
<1>1. PICK k, y : k = row[i] /\ y = IF Exists(i) THEN [k EXCEPT !.data = c, !.version = @ + 1] ELSE k
  OBVIOUS
<1>2. k \in ContentRow /\ (k.state = "published" => k.live \in Contents)
  BY <1>1 DEF ReviewShape, RowShape
<1>3. /\ Whole(k) /\ k.live \in Contents \union {NoContent} /\ k.version \in Nat /\ k.liveVersion \in Nat
      /\ k.everLive \in BOOLEAN /\ k.state \in {"absent", "draft", "published", "archived", "gone"}
  BY <1>2, RowOf
<1>4. y = k \/ /\ Whole(y) /\ y.state = k.state /\ y.data = c /\ y.live = k.live
                /\ y.version = k.version + 1 /\ y.liveVersion = k.liveVersion /\ y.everLive = k.everLive
  BY <1>1, <1>3 DEF Whole
<1>5. y \in ContentRow /\ (y.state = "published" => y.live \in Contents)
  BY <1>2, <1>3, <1>4, RowOf
<1>6. SetRow(i, y) /\ Writes(p, i, "saving")
  BY <1>1, RowStands DEF WriteSave, SetRow, ReviewShape
<1>7. QED
  BY <1>5, <1>6, WrittenShaped

LEMMA SaveLostShaped ==
  ASSUME ReviewShape, NEW p \in People, NEW i \in Items, LoseSave(p, i)
  PROVE  ReviewShape'
<1>1. row[i] \in ContentRow /\ (row[i].state = "published" => row[i].live \in Contents)
  BY DEF ReviewShape, RowShape
<1>2. SetRow(i, row[i]) /\ Writes(p, i, "saving")
  BY RowStands DEF LoseSave, ReviewShape
<1>3. QED
  BY <1>1, <1>2, WrittenShaped

LEMMA DiscardedShaped ==
  ASSUME ReviewShape, NEW p \in People, NEW i \in Items, WriteDiscard(p, i)
  PROVE  ReviewShape'
<1>1. PICK k, c, v, y : /\ k = row[i] /\ c = editing[p].seen.live /\ v = row[i].version + 1
                         /\ y = [k EXCEPT !.data = c, !.version = @ + 1, !.liveVersion = v]
  OBVIOUS
<1>2. k \in ContentRow /\ (k.state = "published" => k.live \in Contents)
  BY <1>1 DEF ReviewShape, RowShape
<1>3. c \in Contents
  BY <1>1 DEF WriteDiscard, Writes, ReviewShape, EditingShape
<1>4. /\ Whole(k) /\ k.live \in Contents \union {NoContent} /\ k.version \in Nat /\ v \in Nat
      /\ k.everLive \in BOOLEAN /\ k.state \in {"absent", "draft", "published", "archived", "gone"}
  BY <1>1, <1>2, RowOf
<1>5. /\ Whole(y) /\ y.state = k.state /\ y.data = c /\ y.live = k.live /\ y.version = k.version + 1
      /\ y.liveVersion = v /\ y.everLive = k.everLive
  BY <1>1, <1>4 DEF Whole
<1>6. y \in ContentRow /\ (y.state = "published" => y.live \in Contents)
  BY <1>2, <1>3, <1>4, <1>5, RowOf
<1>7. SetRow(i, y) /\ Writes(p, i, "discarding")
  BY <1>1 DEF WriteDiscard, SetRow
<1>8. QED
  BY <1>6, <1>7, WrittenShaped

LEMMA DeletedShaped ==
  ASSUME ReviewShape, NEW p \in People, NEW i \in Items, WriteDelete(p, i)
  PROVE  ReviewShape'
<1>1. PICK k, b, e, y : /\ k = row[i] /\ b = Blank /\ e = row[i].everLive
                         /\ y = IF k.state = "draft" THEN [NoRow(b) EXCEPT !.state = "gone", !.everLive = e] ELSE k
  OBVIOUS
<1>2. k \in ContentRow /\ (k.state = "published" => k.live \in Contents) /\ b \in Contents
  BY <1>1, BlankIs DEF ReviewShape, RowShape
<1>3. e \in BOOLEAN
  BY <1>1, <1>2, RowOf
<1>4. y = k \/ /\ Whole(y) /\ y.state = "gone" /\ y.data = b /\ y.live = NoContent /\ y.version = 0
                /\ y.liveVersion = 0 /\ y.everLive = e
  BY <1>1 DEF Whole, NoRow, Row
<1>5. y \in ContentRow /\ (y.state = "published" => y.live \in Contents)
  BY <1>2, <1>3, <1>4, RowOf
<1>6. SetRow(i, y) /\ Writes(p, i, "deleting")
  BY <1>1, RowStands DEF WriteDelete, SetRow, ReviewShape
<1>7. QED
  BY <1>5, <1>6, WrittenShaped

LEMMA TransitionedShaped ==
  ASSUME NEW t \in Transitions, NEW x \in ContentRow, NEW seen \in ContentRow,
         x.state = "published" => x.live \in Contents, NEW y, y = Transitioned(t, x, seen)
  PROVE  y \in ContentRow /\ (y.state = "published" => y.live \in Contents)
<1>1. /\ Whole(x) /\ x.data \in Contents /\ x.live \in Contents \union {NoContent}
      /\ x.version \in Nat /\ x.liveVersion \in Nat /\ x.everLive \in BOOLEAN
      /\ seen.data \in Contents /\ seen.version \in Nat
  BY RowOf
<1>2. \/ y = x
      \/ y = Shown(x, seen)
      \/ \E to \in {"draft", "archived"} : y = TakenDown(x, to)
      \/ y = [x EXCEPT !.state = "draft"]
  <2>1. CASE t = "publish"
    BY <2>1 DEF Transitioned
  <2>2. CASE t = "unpublish"
    BY <2>2 DEF Transitioned
  <2>3. CASE t = "archive"
    BY <2>3 DEF Transitioned
  <2>4. CASE t = "restore"
    BY <2>4 DEF Transitioned
  <2>5. QED
    BY <2>1, <2>2, <2>3, <2>4 DEF Transitions
<1>3. CASE y = Shown(x, seen)
  <2>1. /\ Whole(y) /\ y.state = "published" /\ y.data = x.data /\ y.live = seen.data /\ y.version = x.version
        /\ y.liveVersion = seen.version /\ y.everLive = TRUE
    BY <1>1, <1>3 DEF Whole, Shown
  <2>2. QED
    BY <1>1, <2>1, RowOf
<1>4. ASSUME NEW to \in {"draft", "archived"}, y = TakenDown(x, to)
      PROVE  y \in ContentRow /\ (y.state = "published" => y.live \in Contents)
  <2>1. /\ Whole(y) /\ y.state = to /\ y.data = x.data /\ y.live = NoContent /\ y.version = x.version
        /\ y.liveVersion = 0 /\ y.everLive = x.everLive
    BY <1>1, <1>4, DownRow
  <2>2. QED
    BY <1>1, <2>1, RowOf
<1>5. CASE y = [x EXCEPT !.state = "draft"]
  <2>1. /\ Whole(y) /\ y.state = "draft" /\ y.data = x.data /\ y.live = x.live /\ y.version = x.version
        /\ y.liveVersion = x.liveVersion /\ y.everLive = x.everLive
    BY <1>1, <1>5 DEF Whole
  <2>2. QED
    BY <1>1, <2>1, RowOf
<1>6. QED
  BY <1>2, <1>3, <1>4, <1>5

LEMMA TransitionsShaped ==
  ASSUME ReviewShape, NEW p \in People, NEW i \in Items, NEW t \in Transitions, WriteTransition(p, i, t)
  PROVE  ReviewShape'
<1>1. PICK k, s, y : k = row[i] /\ s = editing[p].seen /\ y = IF Exists(i) THEN Transitioned(t, k, s) ELSE k
  OBVIOUS
<1>2. k \in ContentRow /\ (k.state = "published" => k.live \in Contents) /\ s \in ContentRow
  BY <1>1 DEF ReviewShape, RowShape, EditingShape
<1>3. y \in ContentRow /\ (y.state = "published" => y.live \in Contents)
  BY <1>1, <1>2, TransitionedShaped
<1>4. SetRow(i, y) /\ Writes(p, i, t)
  BY <1>1 DEF WriteTransition
<1>5. QED
  BY <1>3, <1>4, WrittenShaped

LEMMA EditsShaped ==
  ASSUME ReviewShape, NEW p \in People, NEW i \in Items, EditItem(p, i)
  PROVE  ReviewShape'
<1>1. CASE \E c \in Contents : CreateItem(p, i, c) \/ WriteSave(p, i, c)
  BY <1>1, CreatedShaped, SavedShaped
<1>2. CASE BeginSave(p, i)
  <2>1. Begins(p, i, "saving")
    BY <1>2 DEF BeginSave
  <2>2. QED
    BY <2>1, BegunShaped
<1>3. CASE LoseSave(p, i)
  BY <1>3, SaveLostShaped
<1>4. CASE BeginDiscard(p, i)
  <2>1. Begins(p, i, "discarding") /\ row[i].state = "published"
    BY <1>4 DEF BeginDiscard, HasChanges
  <2>2. QED
    BY <2>1, BegunShaped
<1>5. CASE WriteDiscard(p, i)
  BY <1>5, DiscardedShaped
<1>6. CASE BeginDelete(p, i)
  <2>1. Begins(p, i, "deleting")
    BY <1>6 DEF BeginDelete
  <2>2. QED
    BY <2>1, BegunShaped
<1>7. CASE WriteDelete(p, i)
  BY <1>7, DeletedShaped
<1>8. ASSUME NEW t \in Transitions, BeginTransition(p, i, t) PROVE ReviewShape'
  <2>1. Begins(p, i, t) /\ t # "discarding"
    BY <1>8 DEF BeginTransition, Transitions
  <2>2. QED
    BY <2>1, BegunShaped
<1>9. ASSUME NEW t \in Transitions, WriteTransition(p, i, t) PROVE ReviewShape'
  BY <1>9, TransitionsShaped
<1>10. QED
  BY <1>1, <1>2, <1>3, <1>4, <1>5, <1>6, <1>7, <1>8, <1>9 DEF EditItem
-----------------------------------------------------------------------------
(* A request closes: a status, and the rows are let go.                    *)
LEMMA ClosedShaped ==
  ASSUME ReviewShape, NEW r \in ChangeRequests, NEW to \in Closed \union {"published"}, Release(r),
         Moves(r, [request[r] EXCEPT !.status = to])
  PROVE  RequestShape' /\ HoldsShape'
<1>1. PICK k, x : k = request[r] /\ x = [k EXCEPT !.status = to]
  OBVIOUS
<1>2. Asked(k) /\ k.by \in SUBSET People /\ k.reviewer \in SUBSET People /\ request' = [request EXCEPT ![r] = x]
  BY <1>1 DEF Moves, ReviewShape, RequestShape
<1>3. Asked(x) /\ x.status = to /\ x.by = k.by /\ x.reviewer = k.reviewer
  BY <1>1, <1>2 DEF Asked
<1>4. RequestShape'
  BY <1>2, <1>3, RequestShaped DEF ReviewShape
<1>5. HoldsShape'
  BY HoldsStayShaped DEF Release, ReviewShape
<1>6. QED
  BY <1>4, <1>5

LEMMA SubmittedShaped ==
  ASSUME ReviewShape, NEW p \in People, NEW r \in ChangeRequests, NEW S \in SUBSET Items, SubmitChange(p, r, S)
  PROVE  ReviewShape'
<1>1. PICK f : f = [i \in S |-> Frozen(i)]
  OBVIOUS
<1>2. PICK x : x = [NoRequest EXCEPT !.status = "submitted", !.by = {p}, !.frozen = f]
  OBVIOUS
<1>3. Asked(x) /\ x.status = "submitted" /\ x.by = {p} /\ x.reviewer = {}
  BY <1>1, <1>2 DEF Asked, NoRequest
<1>4. /\ request' = [request EXCEPT ![r] = x] /\ holds' = holds \union ({r} \X S)
      /\ UNCHANGED <<row, editing, today>>
  BY <1>1, <1>2 DEF SubmitChange
<1>5. RequestShape'
  BY <1>3, <1>4, RequestShaped DEF ReviewShape, OpenStatuses
<1>6. HoldsShape'
  BY <1>4 DEF ReviewShape, HoldsShape
<1>7. QED
  BY <1>4, <1>5, <1>6, RowsStayShaped, HandsStayShaped DEF ReviewShape

LEMMA ApprovedShaped ==
  ASSUME ReviewShape, NEW v \in People, NEW r \in ChangeRequests, Approve(v, r)
  PROVE  ReviewShape'
<1>1. PICK k, d, x : /\ k = request[r] /\ d = today + ApprovalLife
                      /\ x = [k EXCEPT !.status = "approved", !.reviewer = {v}, !.expires = d]
  OBVIOUS
<1>2. Asked(k) /\ k.by \in SUBSET People
  BY <1>1 DEF ReviewShape, RequestShape
<1>3. Asked(x) /\ x.status = "approved" /\ x.by = k.by /\ x.reviewer = {v}
  BY <1>1, <1>2 DEF Asked
<1>4. CASE Fresh(r)
  <2>1. request' = [request EXCEPT ![r] = x] /\ holds' = holds
    BY <1>1, <1>4 DEF Approve, Moves
  <2>2. RequestShape' /\ HoldsShape'
    BY <1>2, <1>3, <2>1, RequestShaped, HoldsStayShaped DEF ReviewShape, OpenStatuses
  <2>3. QED
    BY <2>2, RowsStayShaped, HandsStayShaped DEF Approve, ReviewShape
<1>5. CASE ~Fresh(r)
  <2>1. Moves(r, [request[r] EXCEPT !.status = "stale"]) /\ Release(r)
    BY <1>5 DEF Approve, Close
  <2>2. RequestShape' /\ HoldsShape'
    BY <2>1, ClosedShaped DEF Closed
  <2>3. QED
    BY <2>2, RowsStayShaped, HandsStayShaped DEF Approve, ReviewShape
<1>6. QED
  BY <1>4, <1>5

LEMMA RejectedShaped ==
  ASSUME ReviewShape, NEW v \in People, NEW r \in ChangeRequests, Reject(v, r)
  PROVE  ReviewShape'
<1>1. PICK k, x : k = request[r] /\ x = [k EXCEPT !.status = "rejected", !.reviewer = {v}]
  OBVIOUS
<1>2. Asked(k) /\ k.by \in SUBSET People
  BY <1>1 DEF ReviewShape, RequestShape
<1>3. Asked(x) /\ x.status = "rejected" /\ x.by = k.by /\ x.reviewer = {v}
  BY <1>1, <1>2 DEF Asked
<1>4. request' = [request EXCEPT ![r] = x] /\ Release(r) /\ UNCHANGED <<row, editing, today>>
  BY <1>1 DEF Reject, Moves
<1>5. RequestShape' /\ HoldsShape'
  BY <1>2, <1>3, <1>4, RequestShaped, HoldsStayShaped DEF ReviewShape, Closed, Release
<1>6. QED
  BY <1>4, <1>5, RowsStayShaped, HandsStayShaped DEF ReviewShape

LEMMA TakenBackShaped ==
  ASSUME ReviewShape, NEW v \in People, NEW r \in ChangeRequests, Revoke(v, r) \/ Withdraw(v, r)
  PROVE  ReviewShape'
<1>1. /\ UNCHANGED <<row, editing, today>>
      /\ \E to \in {"revoked", "withdrawn"} : Moves(r, [request[r] EXCEPT !.status = to]) /\ Release(r)
  BY DEF Revoke, Withdraw, Close
<1>2. RequestShape' /\ HoldsShape'
  BY <1>1, ClosedShaped DEF Closed
<1>3. QED
  BY <1>1, <1>2, RowsStayShaped, HandsStayShaped DEF ReviewShape

LEMMA SweptShaped ==
  ASSUME ReviewShape, SweepExpired
  PROVE  ReviewShape'
<1>1. /\ request' = [q \in ChangeRequests |-> request'[q]] /\ UNCHANGED <<row, editing, today>>
      /\ holds' \subseteq holds
      /\ \A q \in ChangeRequests : request'[q] = IF Lapsed(q) THEN [request[q] EXCEPT !.status = "expired"] ELSE request[q]
  BY DEF SweepExpired
<1>2. ASSUME NEW q \in ChangeRequests
      PROVE  /\ Asked(request'[q])
             /\ request'[q].status \in OpenStatuses \union Closed \union {"none", "published"}
             /\ request'[q].by \in SUBSET People /\ request'[q].reviewer \in SUBSET People
  <2>1. PICK k, x : k = request[q] /\ x = [k EXCEPT !.status = "expired"]
    OBVIOUS
  <2>2. /\ Asked(k) /\ k.status \in OpenStatuses \union Closed \union {"none", "published"}
        /\ k.by \in SUBSET People /\ k.reviewer \in SUBSET People
    BY <2>1 DEF ReviewShape, RequestShape
  <2>3. Asked(x) /\ x.status = "expired" /\ x.by = k.by /\ x.reviewer = k.reviewer
    BY <2>1, <2>2 DEF Asked
  <2>4. request'[q] = x \/ request'[q] = k
    BY <1>1, <2>1
  <2>5. QED
    BY <2>2, <2>3, <2>4 DEF Closed
<1>3. RequestShape'
  BY <1>1, <1>2 DEF RequestShape, Asked
<1>4. QED
  BY <1>1, <1>3, RowsStayShaped, HandsStayShaped, HoldsStayShaped DEF ReviewShape

LEMMA PublishedShaped ==
  ASSUME ReviewShape, NEW p \in People, NEW r \in ChangeRequests, PublishApproved(p, r)
  PROVE  ReviewShape'
<1>1. RequestShape' /\ HoldsShape'
  <2>1. \E to \in Closed \union {"published"} : Moves(r, [request[r] EXCEPT !.status = to]) /\ Release(r)
    BY DEF PublishApproved, Close, Closed
  <2>2. QED
    BY <2>1, ClosedShaped
<1>2. RowShape'
  <2>1. CASE UNCHANGED row
    BY <2>1, RowsStayShaped DEF ReviewShape
  <2>2. CASE PutLive(r)
    <3>1. ASSUME NEW i \in Items PROVE row'[i] \in ContentRow /\ (row'[i].state = "published" => row'[i].live \in Contents)
      <4>1. PICK k, y : k = row[i] /\ y = row'[i]
        OBVIOUS
      <4>2. k \in ContentRow /\ (k.state = "published" => k.live \in Contents)
        BY <4>1 DEF ReviewShape, RowShape
      <4>3. y = k \/ y = Shown(k, k)
        BY <2>2, <4>1 DEF PutLive
      <4>4. /\ Whole(k) /\ k.data \in Contents /\ k.version \in Nat
        BY <4>2, RowOf
      <4>5. CASE y = Shown(k, k)
        <5>1. /\ Whole(y) /\ y.state = "published" /\ y.data = k.data /\ y.live = k.data /\ y.version = k.version
              /\ y.liveVersion = k.version /\ y.everLive = TRUE
          BY <4>4, <4>5 DEF Whole, Shown
        <5>2. QED
          BY <4>1, <4>4, <5>1, RowOf
      <4>6. QED
        BY <4>1, <4>2, <4>3, <4>5
    <3>2. row' = [i \in Items |-> row'[i]]
      BY <2>2 DEF PutLive
    <3>3. QED
      BY <3>1, <3>2 DEF RowShape
  <2>3. QED
    BY <2>1, <2>2 DEF PublishApproved
<1>3. UNCHANGED <<editing, today>>
  BY DEF PublishApproved
<1>4. QED
  BY <1>1, <1>2, <1>3, HandsStayShaped DEF ReviewShape

LEMMA ReviewStepShape == ReviewShape /\ [ReviewNext]_reviewVars => ReviewShape'
<1>1. ASSUME ReviewShape, \E p \in People, i \in Items : EditItem(p, i) PROVE ReviewShape'
  BY <1>1, EditsShaped
<1>2. ASSUME ReviewShape, NEW p \in People, NEW r \in ChangeRequests, Review(p, r) PROVE ReviewShape'
  BY <1>2, SubmittedShaped, ApprovedShaped, RejectedShaped, TakenBackShaped, PublishedShaped DEF Review
<1>3. ASSUME ReviewShape, SweepExpired PROVE ReviewShape'
  BY <1>3, SweptShaped
<1>4. ASSUME ReviewShape, NextDay \/ UNCHANGED reviewVars PROVE ReviewShape'
  <2>1. UNCHANGED <<row, request, holds, editing>> /\ today' \in Nat
    BY <1>4 DEF NextDay, reviewVars, ReviewShape
  <2>2. QED
    BY <1>4, <2>1, RowsStayShaped, HandsStayShaped, RequestsStayShaped, HoldsStayShaped DEF ReviewShape
<1>5. QED
  BY <1>1, <1>2, <1>3, <1>4 DEF ReviewNext

(* The website's rows and requests stay well formed (service.ts,           *)
(* review-service.ts), even where a discard or a delete overlaps another   *)
(* write: no row is ever left saying the null of its own live copy.        *)
THEOREM ReviewTypeCorrect == ReviewSpec => []ReviewTypeOK
<1>1. ReviewShape => ReviewTypeOK
  BY DEF ReviewShape, RowShape, EditingShape, RequestShape, HoldsShape, ReviewTypeOK, ContentRow, Asked
<1>2. QED
  BY <1>1, ReviewInitShape, ReviewStepShape, PTL DEF ReviewSpec
-----------------------------------------------------------------------------
(***************************************************************************)
(* The four side by side. A step of one leaves the others' state alone, so *)
(* each part, seen alone, does only what its own specification allows, and *)
(* everything proved of a part holds of the whole.                         *)
(***************************************************************************)
LEMMA DecisionMoves ==
  [DecisionNext]_decisionVars =>
    [Next]_officeVars /\ [DeskNext]_deskVars /\ [ReviewNext]_reviewVars /\ [QueueNext]_queueVars
BY DEF DecisionNext, decisionVars

DecisionParts == Spec /\ DeskSpec /\ ReviewSpec /\ QueueSpec

(* Side by side every part does only what it does alone.                   *)
THEOREM PartsStayThemselves == DecisionSpec => DecisionParts
<1>1. DecisionInit => IngestInit /\ DeskInit /\ ReviewInit /\ QueueInit
  BY DEF DecisionInit
<1>2. QED
  BY <1>1, DecisionMoves, PTL DEF DecisionSpec, DecisionParts, Spec, DeskSpec, ReviewSpec, QueueSpec

(* The office's rows, the orders, the website's content and the outbox's   *)
(* verdict stay well formed, whichever is at work and whatever overlaps.   *)
THEOREM DecisionTypeCorrect == DecisionSpec => []DecisionTypeOK
<1>1. TypeOK /\ DeskTypeOK /\ ReviewTypeOK /\ QueueTypeOK => DecisionTypeOK
  BY DEF DecisionTypeOK
<1>2. QED
  BY <1>1, PartsStayThemselves, TypeCorrect, DeskTypeCorrect, ReviewTypeCorrect, QueueTypeCorrect, PTL DEF DecisionParts

(* What the four promise, side by side: a receipt for what is kept and     *)
(* never withdrawn, nothing made twice or without its parent, one version  *)
(* of an order at a time and none changed behind a decision, a site that   *)
(* says what was reviewed, and an outbox that sends what it may.           *)
THEOREM DecisionsKeepTheirPromises ==
  ASSUME ~CleanupsOverlap, RowsKeepTheirRecord
  PROVE  DecisionSpec =>
           /\ [](ReceiptMeansHeld /\ NoOrphans /\ AnswersAreOnRecord /\ OneChangeWaits)
           /\ [](RowsAreSound /\ PartitionMeansIt)
           /\ AcceptedStands /\ CreatesLandOnce
           /\ LinesFrozenOnceDecided /\ ChangeDecidedOnce /\ OnlyReviewedGoesLive
BY PartsStayThemselves, ReceiptsAreHonest, NothingIsOrphaned, AnswersAreBacked, NeverTwoVersions, RowsAgree,
   PartitionIsRight, AcceptanceIsForever, CreatesAreMadeOnce, FrozenOnceDecided, DecidedForGood, OnlyReviewed, PTL
   DEF DecisionParts
=============================================================================
