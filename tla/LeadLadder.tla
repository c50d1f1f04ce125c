----------------------------- MODULE LeadLadder -----------------------------
(***************************************************************************)
(* One lead on the direct ladder, and the doors its stage is written by:   *)
(* a move from the console or a handset (services/lead-service.ts), the    *)
(* two moves that name the rung they are made from, the reopening of a     *)
(* lost lead (services/lead-reopen-service.ts), an order that converts it  *)
(* (services/lead-conversion-service.ts), and the two a phone queues: what *)
(* a visit decided and what a verification call found (actions/mbos.ts).   *)
(* Only a move and a reopening leave a transition behind.                  *)
(***************************************************************************)
EXTENDS Naturals, Sequences

CONSTANTS
  Movers,    \* requests that may be at work on the lead at once
  MaxTicks   \* bound: transactions begun and calls queued

ASSUME LeadAssumption == MaxTicks \in Nat

VARIABLES
  lead,      \* the row in customers
  last,      \* the transition last written, and whether it is an odd one
  loss,      \* of the transitions into lost, the newest by its instant
  reopened,  \* the instant of the newest reopening
  asked,     \* what each request has read and is about to write
  queued,    \* what a phone has yet to send, one item
  ticks,     \* the clock of the transactions
  stood,     \* history: the stage the lead was lost from, while it is known
  crossed    \* history: a write was made over a row written since it was read

leadVars == <<lead, last, loss, reopened, asked, queued, ticks, stood, crossed>>

(* The rungs between are left out: what the code asks of a rung is whether *)
(* it is the foot, those two, or one that makes the lead a customer.       *)
Ladder == <<"suspect", "prospect", "qualification", "second_order", "customer">>
Rungs == {Ladder[i] : i \in DOMAIN Ladder}
Foot == Ladder[1]
Rung(s) == CHOOSE i \in DOMAIN Ladder : Ladder[i] = s
Stages == Rungs \cup {"on_hold", "lost", "won"}
Ended == {"lost", "won", "customer"}

NextStage(s) ==
  IF s \notin Rungs THEN Foot
  ELSE IF Rung(s) = Len(Ladder) THEN s ELSE Ladder[Rung(s) + 1]

PromotesAt == "second_order"
OnTheBook(s) == s = "won" \/ (s \in Rungs /\ Rung(s) >= Rung(PromotesAt))

NeverYet == 0
NoLoss == [at |-> NeverYet, from |-> "none"]
NoMove == [odd |-> FALSE, from |-> "none", how |-> "none"]
NotAsking ==
  [at |-> "idle", how |-> "none", from |-> "none", kind |-> "none", to |-> "none",
   why |-> "none", tick |-> NeverYet, stale |-> FALSE]
NotQueued == [says |-> "nothing", tick |-> NeverYet]

LeadInit ==
  /\ lead = [stage |-> Foot, kind |-> "lead", verified |-> FALSE, why |-> "none"]
  /\ last = NoMove /\ loss = NoLoss /\ reopened = NeverYet
  /\ asked = [p \in Movers |-> NotAsking]
  /\ queued = NotQueued /\ ticks = 0
  /\ stood = "unknown" /\ crossed = FALSE

Tick == ticks < MaxTicks /\ ticks' = ticks + 1
-----------------------------------------------------------------------------
(* Mutant: a lost lead is moved to a rung like any other.                  *)
MayMoveAnyLead(from, to) ==
  \/ to = "on_hold" /\ from \notin Ended \cup {"on_hold"}
  \/ to = "lost" /\ from # "lost"
  \/ to \in Rungs \ {from}

(* evaluateLeadStageMove, as far as it is about stages: a lead that has    *)
(* ended is not parked, a lost one is not lost again, and a move to a rung *)
(* is from a rung or from a park.  Its gates, and who may pass one that is *)
(* shut, are left out: any such move may be somebody's to make.            *)
MayMove(from, to) ==
  \/ to = "on_hold" /\ from \notin Ended \cup {"on_hold"}
  \/ to = "lost" /\ from # "lost"
  \/ to \in Rungs /\ from \in (Rungs \cup {"on_hold"}) \ {to}

Reads(p, how, to, why) ==
  /\ asked[p] = NotAsking
  /\ asked' = [asked EXCEPT ![p] =
       [NotAsking EXCEPT !.at = "read", !.how = how, !.from = lead.stage, !.kind = lead.kind,
                    !.to = to, !.why = why]]

ReadForMove(p, to, why) ==
  /\ MayMove(lead.stage, to) /\ (why # "none" <=> to = "lost")
  /\ Reads(p, "move", to, why)
  /\ UNCHANGED <<lead, last, loss, reopened, queued, ticks, stood, crossed>>

(* openQualificationAfterVerification, selectLeadStage, skipSampleTrial.   *)
MaySelect(to) ==
  \/ lead.stage = "prospect" /\ lead.verified /\ to = "qualification"
  \/ lead.stage = "qualification" /\ to \in Rungs /\ Rung(to) > Rung("qualification")

ReadToSelect(p, to) ==
  /\ MaySelect(to)
  /\ Reads(p, "guarded", to, "none")
  /\ UNCHANGED <<lead, last, loss, reopened, queued, ticks, stood, crossed>>

(* A transaction begins, and with it the instant its transition will bear. *)
BeginMove(p) ==
  /\ asked[p].at = "read" /\ asked[p].how \in {"move", "guarded"}
  /\ Tick
  /\ asked' = [asked EXCEPT ![p].at = "begun", ![p].tick = ticks']
  /\ UNCHANGED <<lead, last, loss, reopened, queued, stood, crossed>>

BeginReopen(p) ==
  /\ asked[p] = NotAsking /\ Tick
  /\ asked' = [asked EXCEPT ![p] = [NotAsking EXCEPT !.at = "begun", !.how = "reopen", !.tick = ticks']]
  /\ UNCHANGED <<lead, last, loss, reopened, queued, stood, crossed>>
-----------------------------------------------------------------------------
(* What every write of the row comes to: the others have read too early.   *)
Writes(p, row) ==
  /\ lead' = row
  /\ asked' = [q \in Movers |-> IF q = p THEN NotAsking ELSE [asked[q] EXCEPT !.stale = asked[q] # NotAsking]]
  /\ crossed' = (crossed \/ asked[p].stale)

(* The loss is known to history if it was recorded, and of the row as read.*)
Lose(row, known) ==
  stood' = IF row.stage # "lost" THEN "unknown" ELSE IF known THEN lead.stage ELSE "unknown"

Newer(entry, newest) == entry.at > newest.at
Record(p, from, to) ==
  /\ last' = [odd |-> ~last.odd, from |-> from, how |-> asked[p].how]
  /\ loss' = LET entry == [at |-> asked[p].tick, from |-> from]
             IN IF to = "lost" /\ Newer(entry, loss) THEN entry ELSE loss

(* Mutant: a lead that skips the promoting rung is not promoted.           *)
PromotedAtTheRung(kind, to) == kind = "lead" /\ to = PromotesAt

Promoted(kind, to) == kind = "lead" /\ OnTheBook(to)

(* Mutant: expectFrom is not looked at under the lock.                     *)
StillAnywhere(p) == TRUE

StillThere(p) == asked[p].how = "guarded" => lead.stage = asked[p].from

(* applyLeadStageMove: by id, from what was read.                          *)
CommitMove(p) ==
  /\ asked[p].at = "begun" /\ asked[p].how \in {"move", "guarded"} /\ StillThere(p)
  /\ LET a == asked[p]
         row == [lead EXCEPT !.stage = a.to,
                             !.kind = IF Promoted(a.kind, a.to) THEN "customer" ELSE @,
                             !.why = IF a.to = "lost" THEN a.why ELSE @]
     IN Writes(p, row) /\ Record(p, a.from, a.to) /\ Lose(row, ~a.stale)
  /\ UNCHANGED <<reopened, queued, ticks>>

StageAlreadyMoved(p) ==
  /\ asked[p].at = "begun" /\ asked[p].how = "guarded" /\ ~StillThere(p)
  /\ asked' = [asked EXCEPT ![p] = NotAsking]
  /\ UNCHANGED <<lead, last, loss, reopened, queued, ticks, stood, crossed>>

(* Mutant: whatever it was lost for, a lead comes back to where it was.    *)
TargetAlways(from, why) == IF from \notin Rungs THEN Foot ELSE from

ReopenTarget(from, why) ==
  IF why = "failed" THEN "prospect"
  ELSE IF from \notin Rungs THEN Foot
  ELSE IF OnTheBook(from) THEN Ladder[Rung(PromotesAt) - 1]
  ELSE from

(* reopenLostLead: the row is locked before it is read.                    *)
Reopen(p) ==
  /\ asked[p].at = "begun" /\ asked[p].how = "reopen" /\ lead.stage = "lost"
  /\ LET row == [lead EXCEPT !.stage = ReopenTarget(loss.from, lead.why), !.why = "none",
                             !.verified = lead.verified /\ lead.why # "failed"]
     IN Writes(p, row) /\ Record(p, "lost", row.stage)
  /\ reopened' = IF asked[p].tick > reopened THEN asked[p].tick ELSE reopened
  /\ stood' = "unknown"
  /\ UNCHANGED <<queued, ticks>>

NoLongerLost(p) ==
  /\ asked[p].at = "begun" /\ asked[p].how = "reopen" /\ lead.stage # "lost"
  /\ asked' = [asked EXCEPT ![p] = NotAsking]
  /\ UNCHANGED <<lead, last, loss, reopened, queued, ticks, stood, crossed>>
-----------------------------------------------------------------------------
(* convertLeadOnSecondOrder: what it asks of the orders is left out.       *)
ReadForOrder(p) ==
  /\ lead.kind = "lead" /\ Reads(p, "order", "won", "none")
  /\ UNCHANGED <<lead, last, loss, reopened, queued, ticks, stood, crossed>>

Convert(p) ==
  /\ asked[p].how = "order"
  /\ Writes(p, [lead EXCEPT !.stage = "won", !.kind = "customer"])
  /\ stood' = "unknown"
  /\ UNCHANGED <<last, loss, reopened, queued, ticks>>

(* A phone queues what was said at a visit to a Suspect, or on the call    *)
(* that verifies a Prospect; it is sent whenever there is signal.          *)
SaidOfASuspect == {"worth pursuing", "pause", "not a prospect"}
SaidOfAProspect == {"confirmed", "on hold", "not qualified"}

Queue(says) ==
  /\ queued = NotQueued /\ Tick
  /\ \/ says \in SaidOfASuspect /\ lead.stage = "suspect"
     \/ says \in SaidOfAProspect /\ lead.stage = "prospect"
  /\ queued' = [says |-> says, tick |-> ticks']
  /\ UNCHANGED <<lead, last, loss, reopened, asked, stood, crossed>>

(* handleVisit reads the customer, and later writes by id.                 *)
SuspectDecisionRung(says, from) ==
  CASE says = "pause" -> "on_hold" [] says = "not a prospect" -> "lost" [] OTHER -> NextStage(from)

ReadForVisit(p) ==
  /\ queued.says \in SaidOfASuspect
  /\ \A q \in Movers : asked[q].how # "visit"
  /\ Reads(p, "visit", SuspectDecisionRung(queued.says, lead.stage), "said")
  /\ UNCHANGED <<lead, last, loss, reopened, queued, ticks, stood, crossed>>

StaleLoss(p) == asked[p].to = "lost" /\ asked[p].from # "lost" /\ reopened > queued.tick

WriteVisit(p) ==
  /\ asked[p].how = "visit"
  /\ LET row == IF StaleLoss(p) THEN lead
                ELSE [lead EXCEPT !.stage = asked[p].to, !.why = IF asked[p].to = "lost" THEN "said" ELSE @]
     IN Writes(p, row) /\ IF StaleLoss(p) THEN UNCHANGED stood ELSE Lose(row, FALSE)
  /\ queued' = NotQueued
  /\ UNCHANGED <<last, loss, reopened, ticks>>

(* afterValidationVerdict: confirmed stamps the lead; a hold is written as *)
(* it is; a lead that was not qualified is lost by a move, or, where that  *)
(* is refused, by hand.                                                    *)
Stamp(p) ==
  /\ asked[p] = NotAsking /\ queued.says \in {"confirmed", "on hold"}
  /\ LET row == IF queued.says = "confirmed" THEN [lead EXCEPT !.verified = TRUE]
                ELSE [lead EXCEPT !.stage = "on_hold"]
     IN Writes(p, row) /\ IF queued.says = "confirmed" THEN UNCHANGED stood ELSE Lose(row, FALSE)
  /\ queued' = NotQueued
  /\ UNCHANGED <<last, loss, reopened, ticks>>

ReadToFail(p) ==
  /\ queued.says = "not qualified"
  /\ Reads(p, IF MayMove(lead.stage, "lost") THEN "move" ELSE "by hand", "lost", "failed")
  /\ queued' = NotQueued
  /\ UNCHANGED <<lead, last, loss, reopened, ticks, stood, crossed>>

FailByHand(p) ==
  /\ asked[p].how = "by hand"
  /\ LET row == [lead EXCEPT !.stage = "lost", !.why = "said"] IN Writes(p, row) /\ Lose(row, FALSE)
  /\ UNCHANGED <<last, loss, reopened, queued, ticks>>

LeadNext ==
  \/ \E p \in Movers :
       \/ \E to \in Stages, why \in {"none", "said"} : ReadForMove(p, to, why)
       \/ \E to \in Rungs : ReadToSelect(p, to)
       \/ BeginMove(p) \/ CommitMove(p) \/ StageAlreadyMoved(p)
       \/ BeginReopen(p) \/ Reopen(p) \/ NoLongerLost(p)
       \/ ReadForOrder(p) \/ Convert(p)
       \/ ReadForVisit(p) \/ WriteVisit(p)
       \/ Stamp(p) \/ ReadToFail(p) \/ FailByHand(p)
  \/ \E says \in SaidOfASuspect \cup SaidOfAProspect : Queue(says)

LeadSpec == LeadInit /\ [][LeadNext]_leadVars
-----------------------------------------------------------------------------
(* What a request may hold: which door it is at, and what it read there.  *)
Requests ==
  [at : {"idle", "read", "begun"},
   how : {"none", "move", "guarded", "reopen", "order", "visit", "by hand"},
   from : Stages \cup {"none"}, kind : {"none", "lead", "customer"}, to : Stages \cup {"none"},
   why : {"none", "said", "failed"}, tick : 0 .. MaxTicks, stale : BOOLEAN]

(* The row, its record and what each request has in hand keep their types. *)
LeadTypeOK ==
  /\ lead \in [stage : Stages, kind : {"lead", "customer"}, verified : BOOLEAN,
               why : {"none", "said", "failed"}]
  /\ last \in [odd : BOOLEAN, from : Stages \cup {"none"}, how : {"none", "move", "guarded", "reopen"}]
  /\ loss \in [at : 0 .. MaxTicks, from : Stages \cup {"none"}]
  /\ asked \in [Movers -> Requests]
  /\ queued \in [says : {"nothing"} \cup SaidOfASuspect \cup SaidOfAProspect, tick : 0 .. MaxTicks]
  /\ reopened \in 0 .. MaxTicks /\ ticks \in 0 .. MaxTicks
  /\ stood \in Stages \cup {"unknown"} /\ crossed \in BOOLEAN

(* What a reopening does: the lead comes back to where it had stood        *)
(* (lead-reopen.ts), on a failed verification to be verified anew.         *)
BroughtBack ==
  /\ lead.stage = "lost" /\ lead'.why = "none"
  /\ lead.why = "failed" => lead'.stage = "prospect" /\ ~lead'.verified
  /\ lead.why # "failed" =>
       /\ stood = "on_hold" => lead'.stage = Foot
       /\ stood \in Rungs /\ ~OnTheBook(stood) => lead'.stage = stood
       /\ stood # "unknown" => ~OnTheBook(lead'.stage)

(* The record of a lead's moves is what a later move, a reopening and the  *)
(* call desk reckon with, while the row is written by id.  However the     *)
(* doors cross: a move that names its rung is made from that rung; what is *)
(* recorded as leaving Lost did leave it, and was brought back; a recorded *)
(* move onto the book makes a customer.  And where no write went over one  *)
(* it had not seen, a lead that a move takes out of Lost was reopened      *)
(* (lead-reopen-service.ts:93).                                            *)
MovesAreSound ==
  [][last' # last =>
       /\ last'.how = "guarded" => last'.from = lead.stage
       /\ last'.from = "lost" => BroughtBack
       /\ lead.stage = "lost" /\ lead'.stage # "lost" /\ ~crossed' => last'.from = "lost"
       /\ OnTheBook(lead'.stage) => lead'.kind = "customer"]_leadVars

(* No lead gets past Prospect but by a move, which asks the gate: a visit  *)
(* to a Suspect lands on Prospect, on all three funnel ladders (the        *)
(* comment on suspectDecisionRung, mbos.ts:1185).                          *)
OnlyMovesClimb ==
  [][lead'.stage # lead.stage /\ lead'.stage \in Rungs \ {"suspect", "prospect"} => last' # last]_leadVars
=============================================================================
