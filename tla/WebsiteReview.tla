--------------------------- MODULE WebsiteReview ----------------------------
(***************************************************************************)
(* The website's content and the review that lets an employee publish it   *)
(* (website-cms/service.ts, commands.ts, review-service.ts).  A row has a  *)
(* working copy and, when published, a live one.  An employee submits      *)
(* rows; the request freezes them; a reviewer approves it for a week; the  *)
(* employee then puts exactly those rows live.                             *)
(*                                                                         *)
(* Review operations are one transaction each, under locks on the request  *)
(* and on its rows: one step.  The editing operations lock nothing: they   *)
(* read, ask for a confirmation where one is due, and write by id: two.    *)
(***************************************************************************)
EXTENDS Naturals, FiniteSets

CONSTANTS
  Items,            \* rows of website_content, those not yet made included
  Contents,         \* what a row can say
  NoContent,        \* the null of published_data
  ChangeRequests,         \* change requests
  People,           \* everyone with a module of the Website app
  MayPublish,       \* those with website.publish
  MayReview,        \* those with website.review
  ApprovalLife,     \* APPROVAL_VALID_DAYS
  MaxVersion,       \* bound: saves of one row
  MaxDay,           \* bound: days that pass
  CleanupsOverlap   \* whether a discard or a delete may overlap other writes

ASSUME ReviewAssumption ==
  /\ NoContent \notin Contents /\ Contents # {}
  /\ MayPublish \subseteq People /\ MayReview \subseteq People
  /\ ApprovalLife \in Nat \ {0} /\ MaxVersion \in Nat /\ MaxDay \in Nat
  /\ CleanupsOverlap \in BOOLEAN

VARIABLES
  row,      \* website_content
  request,  \* website_change_request, with the items frozen in it
  holds,    \* which request holds which row: open_content_id of its items
  editing,  \* what each person is in the middle of
  today     \* the day

reviewVars == <<row, request, holds, editing, today>>

Row(state, data, live, version, liveVersion, seen) ==
  [state |-> state, data |-> data, live |-> live, version |-> version,
   liveVersion |-> liveVersion, everLive |-> seen]
NoRow(data) == Row("absent", data, NoContent, 0, 0, FALSE)
Blank == CHOOSE c \in Contents : TRUE

OpenStatuses == {"submitted", "approved"}
Closed == {"rejected", "revoked", "expired", "stale", "withdrawn"}
NoRequest == [status |-> "none", by |-> {}, reviewer |-> {}, frozen |-> << >>, expires |-> 0]
AtRest == [at |-> "rest", item |-> {}, seen |-> NoRow(Blank)]

ReviewInit ==
  /\ row \in [Items -> {Row("published", Blank, Blank, 1, 1, TRUE), NoRow(Blank)}]
  /\ request = [r \in ChangeRequests |-> NoRequest]
  /\ holds = {}
  /\ editing = [p \in People |-> AtRest]
  /\ today = 0
-----------------------------------------------------------------------------
(* Editing.                                                                *)
Held(i) == \E r \in ChangeRequests : <<r, i>> \in holds
Exists(i) == row[i].state \notin {"absent", "gone"}
HasChanges(x) == x.state = "published" /\ x.version # x.liveVersion

Cleanups == {"discarding", "deleting"}
Busy(i) == \E p \in People : editing[p].item = {i} /\ editing[p].at # "saving"
Cleaning(i) == \E p \in People : editing[p].item = {i} /\ editing[p].at \in Cleanups

Begins(p, i, what) ==
  /\ editing[p] = AtRest
  /\ Exists(i)
  /\ \/ CleanupsOverlap
     \/ what = "saving"
     \/ what \in Cleanups /\ ~Busy(i)
     \/ what \notin Cleanups /\ ~Cleaning(i)
  /\ editing' = [editing EXCEPT ![p] =
       [at |-> what, item |-> {i}, seen |-> IF what = "saving" THEN AtRest.seen ELSE row[i]]]
  /\ UNCHANGED <<row, request, holds, today>>

Writes(p, i, what) ==
  /\ editing[p].at = what /\ editing[p].item = {i}
  /\ editing' = [editing EXCEPT ![p] = AtRest]
  /\ UNCHANGED <<request, holds, today>>

SetRow(i, x) == row' = [row EXCEPT ![i] = x]

CreateItem(p, i, c) ==
  /\ editing[p] = AtRest
  /\ row[i].state = "absent"
  /\ SetRow(i, Row("draft", c, NoContent, 1, 0, FALSE))
  /\ UNCHANGED <<request, holds, editing, today>>

(* A save is refused on a row a request holds; then the row is read, and   *)
(* written only if its version is still the one that was read.             *)
BeginSave(p, i) == ~Held(i) /\ Begins(p, i, "saving")

(* Mutant: the save keeps the version.                                     *)
WriteSaveInPlace(p, i, c) ==
  /\ Writes(p, i, "saving")
  /\ IF Exists(i) THEN SetRow(i, [row[i] EXCEPT !.data = c]) ELSE UNCHANGED row

WriteSave(p, i, c) ==
  /\ Writes(p, i, "saving")
  /\ row[i].version < MaxVersion
  /\ IF Exists(i)
     THEN SetRow(i, [row[i] EXCEPT !.data = c, !.version = @ + 1])
     ELSE UNCHANGED row

(* The save came to nothing: another was quicker, or a field was refused.  *)
LoseSave(p, i) == Writes(p, i, "saving") /\ UNCHANGED row

BeginDiscard(p, i) ==
  /\ ~Held(i) /\ HasChanges(row[i])
  /\ Begins(p, i, "discarding")

(* Back to what was live when the row was read.                            *)
WriteDiscard(p, i) ==
  /\ Writes(p, i, "discarding")
  /\ row[i].version < MaxVersion
  /\ SetRow(i, [row[i] EXCEPT !.data = editing[p].seen.live,
                              !.version = @ + 1, !.liveVersion = row[i].version + 1])

(* Mutant: a draft is a draft, whatever it was before.                     *)
BeginDeleteDraft(p, i) ==
  /\ ~Held(i) /\ row[i].state = "draft"
  /\ Begins(p, i, "deleting")

(* Only a draft that was never live may be deleted.                        *)
BeginDelete(p, i) ==
  /\ ~Held(i) /\ row[i].state = "draft" /\ ~row[i].everLive
  /\ Begins(p, i, "deleting")

WriteDelete(p, i) ==
  /\ Writes(p, i, "deleting")
  /\ IF row[i].state = "draft"
     THEN SetRow(i, [NoRow(Blank) EXCEPT !.state = "gone", !.everLive = row[i].everLive])
     ELSE UNCHANGED row
-----------------------------------------------------------------------------
(* Publishing, by those who may: transitionItems, for one row.  It asks    *)
(* nothing about requests.                                                 *)
Transitions == {"publish", "unpublish", "archive", "restore"}

BeginTransition(p, i, t) ==
  /\ p \in MayPublish
  /\ t = "restore" => row[i].state = "archived"
  /\ Begins(p, i, t)

Shown(x, seen) == [x EXCEPT !.state = "published", !.live = seen.data,
                            !.liveVersion = seen.version, !.everLive = TRUE]
TakenDown(x, state) ==
  [x EXCEPT !.state = state, !.live = NoContent, !.liveVersion = 0]

(* What the transition makes of the row as it now is, having decided on    *)
(* the row as it was read.  A restore that meets a row published meanwhile *)
(* is refused by the database.                                             *)
Transitioned(t, x, seen) ==
  CASE t = "publish" -> IF seen.state = "published" /\ ~HasChanges(seen) THEN x ELSE Shown(x, seen)
    [] t = "unpublish" -> IF seen.state = "published" THEN TakenDown(x, "draft") ELSE x
    [] t = "archive" -> IF seen.state # "archived" THEN TakenDown(x, "archived") ELSE x
    [] t = "restore" -> IF x.state = "published" THEN x ELSE [x EXCEPT !.state = "draft"]

WriteTransition(p, i, t) ==
  /\ Writes(p, i, t)
  /\ SetRow(i, IF Exists(i) THEN Transitioned(t, row[i], editing[p].seen) ELSE row[i])
-----------------------------------------------------------------------------
(* Reviewing.                                                              *)
Frozen(i) == [data |-> row[i].data, version |-> row[i].version]
RealChange(i) == row[i].state = "published" => row[i].live # row[i].data

(* Mutant: rows in somebody's request are not looked for, and the index    *)
(* that would refuse them is gone.                                         *)
SubmitTwice(p, r, S) ==
  /\ request[r] = NoRequest
  /\ \A i \in S : Exists(i) /\ row[i].state # "archived" /\ RealChange(i)
  /\ request' = [request EXCEPT ![r] =
       [NoRequest EXCEPT !.status = "submitted", !.by = {p}, !.frozen = [i \in S |-> Frozen(i)]]]
  /\ holds' = holds \union ({r} \X S)
  /\ UNCHANGED <<row, editing, today>>

SubmitChange(p, r, S) ==
  /\ request[r] = NoRequest
  /\ \A i \in S : Exists(i) /\ row[i].state # "archived" /\ RealChange(i) /\ ~Held(i)
  /\ request' = [request EXCEPT ![r] =
       [NoRequest EXCEPT !.status = "submitted", !.by = {p}, !.frozen = [i \in S |-> Frozen(i)]]]
  /\ holds' = holds \union ({r} \X S)
  /\ UNCHANGED <<row, editing, today>>

(* Version and hash, against what was frozen.                              *)
Fresh(r) == \A i \in DOMAIN request[r].frozen :
              Exists(i) /\ Frozen(i) = request[r].frozen[i]

Moves(r, x) == request' = [request EXCEPT ![r] = x]
Release(r) == holds' = {h \in holds : h[1] # r}

(* Mutant: closing forgets to free the rows.                               *)
CloseHolding(r, to) == Moves(r, [request[r] EXCEPT !.status = to]) /\ UNCHANGED holds

(* closeRequest: the one place a request ends unpublished.                 *)
Close(r, to) == Moves(r, [request[r] EXCEPT !.status = to]) /\ Release(r)

(* Mutant: anyone who reviews may decide, the submitter included.          *)
ApproveOwn(v, r) ==
  /\ v \in MayReview
  /\ request[r].status = "submitted"
  /\ IF Fresh(r)
     THEN /\ Moves(r, [request[r] EXCEPT !.status = "approved", !.reviewer = {v},
                                         !.expires = today + ApprovalLife])
          /\ UNCHANGED holds
     ELSE Close(r, "stale")
  /\ UNCHANGED <<row, editing, today>>

Approve(v, r) ==
  /\ v \in MayReview
  /\ request[r].status = "submitted" /\ request[r].by # {v}
  /\ IF Fresh(r)
     THEN /\ Moves(r, [request[r] EXCEPT !.status = "approved", !.reviewer = {v},
                                         !.expires = today + ApprovalLife])
          /\ UNCHANGED holds
     ELSE Close(r, "stale")
  /\ UNCHANGED <<row, editing, today>>

Reject(v, r) ==
  /\ v \in MayReview
  /\ request[r].status = "submitted" /\ request[r].by # {v}
  /\ Moves(r, [request[r] EXCEPT !.status = "rejected", !.reviewer = {v}])
  /\ Release(r)
  /\ UNCHANGED <<row, editing, today>>

Revoke(v, r) ==
  /\ v \in MayReview
  /\ request[r].status = "approved" /\ request[r].by # {v}
  /\ Close(r, "revoked")
  /\ UNCHANGED <<row, editing, today>>

Withdraw(p, r) ==
  /\ request[r].by = {p} \/ p \in MayReview
  /\ request[r].status \in OpenStatuses
  /\ Close(r, "withdrawn")
  /\ UNCHANGED <<row, editing, today>>

(* Approved, and its days not yet gone: approvalIsLive.                    *)
Usable(r) == request[r].status = "approved" /\ today < request[r].expires
Lapsed(r) == request[r].status = "approved" /\ ~Usable(r)

(* The night's sweep closes every approval that has lapsed.                *)
SweepExpired ==
  /\ \E r \in ChangeRequests : Lapsed(r)
  /\ request' = [r \in ChangeRequests |-> IF Lapsed(r) THEN [request[r] EXCEPT !.status = "expired"]
                                                 ELSE request[r]]
  /\ holds' = {h \in holds : ~Lapsed(h[1])}
  /\ UNCHANGED <<row, editing, today>>

(* Put the request's rows live, those that are not already.                *)
PutLive(r) ==
  row' = [i \in Items |->
            IF i \in DOMAIN request[r].frozen /\ ~(row[i].state = "published" /\ ~HasChanges(row[i]))
            THEN Shown(row[i], row[i]) ELSE row[i]]

(* Mutant: what was approved is not compared with what is there.           *)
PublishUnread(p, r) ==
  /\ request[r].by = {p} \/ p \in MayReview
  /\ request[r].status = "approved"
  /\ CleanupsOverlap \/ \A i \in DOMAIN request[r].frozen : ~Cleaning(i)
  /\ \/ Lapsed(r) /\ Close(r, "expired") /\ UNCHANGED row
     \/ /\ Usable(r) /\ \A i \in DOMAIN request[r].frozen : Exists(i)
        /\ PutLive(r)
        /\ Moves(r, [request[r] EXCEPT !.status = "published"]) /\ Release(r)
  /\ UNCHANGED <<editing, today>>

(* Mutant: the approval's days are left to the night's sweep.              *)
PublishLapsed(p, r) ==
  /\ request[r].by = {p} \/ p \in MayReview
  /\ request[r].status = "approved"
  /\ CleanupsOverlap \/ \A i \in DOMAIN request[r].frozen : ~Cleaning(i)
  /\ \/ ~Fresh(r) /\ Close(r, "stale") /\ UNCHANGED row
     \/ /\ Fresh(r)
        /\ PutLive(r)
        /\ Moves(r, [request[r] EXCEPT !.status = "published"]) /\ Release(r)
  /\ UNCHANGED <<editing, today>>

PublishApproved(p, r) ==
  /\ request[r].by = {p} \/ p \in MayReview
  /\ request[r].status = "approved"
  /\ CleanupsOverlap \/ \A i \in DOMAIN request[r].frozen : ~Cleaning(i)
  /\ \/ Lapsed(r) /\ Close(r, "expired") /\ UNCHANGED row
     \/ Usable(r) /\ ~Fresh(r) /\ Close(r, "stale") /\ UNCHANGED row
     \/ /\ Usable(r) /\ Fresh(r)
        /\ PutLive(r)
        /\ Moves(r, [request[r] EXCEPT !.status = "published"]) /\ Release(r)
  /\ UNCHANGED <<editing, today>>

NextDay ==
  /\ today < MaxDay
  /\ today' = today + 1
  /\ UNCHANGED <<row, request, holds, editing>>

EditItem(p, i) ==
  \/ \E c \in Contents : CreateItem(p, i, c) \/ WriteSave(p, i, c)
  \/ BeginSave(p, i) \/ LoseSave(p, i)
  \/ BeginDiscard(p, i) \/ WriteDiscard(p, i)
  \/ BeginDelete(p, i) \/ WriteDelete(p, i)
  \/ \E t \in Transitions : BeginTransition(p, i, t) \/ WriteTransition(p, i, t)

Review(p, r) ==
  \/ \E S \in SUBSET Items \ {{}} : SubmitChange(p, r, S)
  \/ Approve(p, r) \/ Reject(p, r) \/ Revoke(p, r) \/ Withdraw(p, r)
  \/ PublishApproved(p, r)

ReviewNext ==
  \/ \E p \in People, i \in Items : EditItem(p, i)
  \/ \E p \in People, r \in ChangeRequests : Review(p, r)
  \/ SweepExpired \/ NextDay

ReviewSpec == ReviewInit /\ [][ReviewNext]_reviewVars
-----------------------------------------------------------------------------
ReviewTypeOK ==
  /\ row \in [Items -> [state : {"absent", "draft", "published", "archived", "gone"},
                        data : Contents, live : Contents \union {NoContent},
                        version : Nat, liveVersion : Nat, everLive : BOOLEAN]]
  /\ holds \subseteq ChangeRequests \X Items
  /\ \A r \in ChangeRequests :
       /\ request[r].status \in OpenStatuses \union Closed \union {"none", "published"}
       /\ request[r].by \in SUBSET People /\ request[r].reviewer \in SUBSET People
       /\ DOMAIN request[r].frozen \subseteq Items
  /\ \A p \in People : editing[p].item \in SUBSET Items
  /\ today \in Nat

(* A row is held by one request at most, and exactly while a request that  *)
(* names it is open: whatever closes a request frees all its rows.         *)
HeldByOneOpenRequest ==
  /\ \A r \in ChangeRequests, i \in Items :
       <<r, i>> \in holds <=> i \in DOMAIN request[r].frozen /\ request[r].status \in OpenStatuses
  /\ \A h, k \in holds : h[2] = k[2] => h = k

(* Equal versions mean that what is live is the working copy, which is     *)
(* what the editor's screen and the publishing of a request take it for.   *)
UnchangedMeansLive ==
  \A i \in Items : row[i].state = "published" /\ ~HasChanges(row[i]) => row[i].live = row[i].data

(* What has been live is never deleted, only archived.                     *)
NothingSeenDisappears == \A i \in Items : row[i].state = "gone" => ~row[i].everLive

(* A row, the editor's screen and the requests agree (service.ts): what is *)
(* called unchanged is live, what was live is still there, and a row is    *)
(* held by one request exactly while that is open.                         *)
RowsAreSound == UnchangedMeansLive /\ NothingSeenDisappears /\ HeldByOneOpenRequest

(* When a request is published, every row in it is live exactly as it was  *)
(* frozen for the reviewer, and stays so through that step.                *)
PublishedAsReviewed ==
  [][\A r \in ChangeRequests :
       request[r].status = "approved" /\ request'[r].status = "published"
         => \A i \in DOMAIN request[r].frozen :
              row'[i].state = "published" /\ row'[i].live = request[r].frozen[i].data]_reviewVars

(* The live site changes in two ways only: by someone who may publish, or  *)
(* by a request that another person approved and whose days have not gone. *)
LiveOnlyByRight ==
  [][\A i \in Items : row'[i].live # row[i].live =>
       \/ \E p \in MayPublish : editing[p].item = {i} /\ editing[p].at \in Transitions
       \/ \E r \in ChangeRequests :
            /\ i \in DOMAIN request[r].frozen
            /\ Usable(r) /\ request'[r].status = "published"
            /\ request[r].reviewer # {} /\ request[r].reviewer # request[r].by]_reviewVars

(* However a page goes live, it goes live by somebody's right, and what a  *)
(* request puts live is what was reviewed (publishApproved).               *)
OnlyReviewedGoesLive == PublishedAsReviewed /\ LiveOnlyByRight

(* A row taken down into the archive comes back only at the hands of       *)
(* someone who may publish ("restoring it is for whoever publishes").      *)
ArchivedStaysDown ==
  [][\A i \in Items : row[i].state = "archived" /\ row'[i].state # "archived" =>
       \E p \in MayPublish : editing[p].item = {i} /\ editing[p].at \in Transitions]_reviewVars
=============================================================================
