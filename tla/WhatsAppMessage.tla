-------------------------- MODULE WhatsAppMessage --------------------------
(***************************************************************************)
(* One prepared WhatsApp message: the row of wa_messages, the requests     *)
(* that send it through Wati (sendAutomaticAs), Wati's events about it     *)
(* (applyWatiEvent), the pass that asks Wati for the ticks                 *)
(* (refreshReceipts) and what a person does with it (markCopied,           *)
(* confirmSent, cancelMessage).  Each of them reads the row and writes it  *)
(* in another statement; what became of each send is the world outside.    *)
(***************************************************************************)
EXTENDS Naturals, Sequences, FiniteSets

CONSTANTS
  Senders,     \* requests that send the message
  MaxSends,    \* bound: sends Wati accepts
  TicksOverlap \* a write by the row's id may land between another's read and
               \* write, and an event of an earlier send may come late

ASSUME MessageAssumption == MaxSends \in Nat /\ TicksOverlap \in BOOLEAN

VARIABLES
  status,   \* wa_messages.status
  sends,    \* what became of each send Wati accepted
  sending,  \* how far each sender is
  event,    \* the webhook call in hand: its event, and the status it read
  act,      \* what a person is doing, and the status that was read
  refresh   \* the row as the pass read it, and what Wati told it

messageVars == <<status, sends, sending, event, act, refresh>>

MessageStatuses == {"prepared", "copied", "queued", "sent", "delivered", "read",
             "failed", "cancelled", "sent_manually"}
Ticks == {"sent", "delivered", "read"}
Fates == Ticks \cup {"failed"}
Nobody == [kind |-> "none", seen |-> "prepared"]

Rank == [s \in MessageStatuses |-> CASE s = "queued" -> 1 [] s = "sent" -> 2
                              [] s = "delivered" -> 3 [] s = "read" -> 4 [] OTHER -> 0]

MessageInit ==
  /\ status = "prepared" /\ sends = <<>>
  /\ sending = [s \in Senders |-> "idle"]
  /\ event = Nobody /\ act = Nobody /\ refresh = Nobody

(* Mutant: an event that is ignored writes the null it comes to.           *)
AdvancedOrNone(current, what) ==
  IF what # "failed" /\ Rank[what] > Rank[current] THEN what ELSE "none"

(* advancedStatus: what an event makes of a status, the same where it is   *)
(* ignored.                                                                *)
Advanced(current, what) ==
  IF what = "failed" THEN IF current \in {"delivered", "read"} THEN current ELSE "failed"
  ELSE IF current \in {"failed", "cancelled", "sent_manually"} THEN current
  ELSE IF Rank[what] > Rank[current] THEN what ELSE current

(* Nobody is between his read of the row and a write by its id.            *)
Undisturbed ==
  \/ TicksOverlap
  \/ /\ \A s \in Senders : sending[s] \notin {"claimed", "accepted", "refused"}
     /\ event = Nobody /\ act = Nobody

(* What Wati has had to tell of send n.                                    *)
Told(n) ==
  CASE sends[n] = "failed" -> {"sent", "failed"}
    [] OTHER -> {t \in Ticks : Rank[t] <= Rank[sends[n]]}
-----------------------------------------------------------------------------
Reaches(n, to) ==
  /\ to \in Fates
  /\ \/ sends[n] = "sent" /\ to \in {"delivered", "failed"}
     \/ sends[n] = "delivered" /\ to = "read"
  /\ sends' = [sends EXCEPT ![n] = to]
  /\ UNCHANGED <<status, sending, event, act, refresh>>

(* sendAutomaticAs, as far as the checks before the claim.                 *)
BeginSend(s) ==
  /\ sending[s] = "idle" /\ status \in {"prepared", "copied", "failed"}
  /\ sending' = [sending EXCEPT ![s] = "checked"]
  /\ UNCHANGED <<status, sends, event, act, refresh>>

NotToBeSent(s) ==
  /\ sending[s] = "checked"
  /\ sending' = [sending EXCEPT ![s] = "idle"]
  /\ UNCHANGED <<status, sends, event, act, refresh>>

(* Mutant: the claim does not ask what the row says now.                   *)
ClaimAnyway(s) ==
  /\ sending[s] = "checked" /\ Undisturbed
  /\ status' = "queued"
  /\ sending' = [sending EXCEPT ![s] = "claimed"]
  /\ UNCHANGED <<sends, event, act, refresh>>

(* "CLAIM it before calling out": who finds it claimed goes no further.    *)
Claim(s) ==
  /\ sending[s] = "checked" /\ Undisturbed
  /\ IF status \in {"prepared", "copied", "failed"}
     THEN status' = "queued" /\ sending' = [sending EXCEPT ![s] = "claimed"]
     ELSE UNCHANGED status /\ sending' = [sending EXCEPT ![s] = "idle"]
  /\ UNCHANGED <<sends, event, act, refresh>>

WatiAccepts(s) ==
  /\ sending[s] = "claimed" /\ Len(sends) < MaxSends
  /\ sends' = Append(sends, "sent")
  /\ sending' = [sending EXCEPT ![s] = "accepted"]
  /\ UNCHANGED <<status, event, act, refresh>>

WatiRefuses(s) ==
  /\ sending[s] = "claimed"
  /\ sending' = [sending EXCEPT ![s] = "refused"]
  /\ UNCHANGED <<status, sends, event, act, refresh>>

(* By the row's id, whatever became of it meanwhile.                       *)
RecordSend(s) ==
  /\ sending[s] \in {"accepted", "refused"}
  /\ status' = IF sending[s] = "accepted" THEN "sent" ELSE "failed"
  /\ sending' = [sending EXCEPT ![s] = "idle"]
  /\ UNCHANGED <<sends, event, act, refresh>>

(* The process ends: the row stays as it is.                               *)
SenderDies(s) ==
  /\ sending[s] # "idle"
  /\ sending' = [sending EXCEPT ![s] = "idle"]
  /\ UNCHANGED <<status, sends, event, act, refresh>>

(* applyWatiEvent: the row is read, and then written by its id.            *)
EventRead(n, what) ==
  /\ event = Nobody /\ Undisturbed
  /\ TicksOverlap \/ n = Len(sends)
  /\ what \in Told(n)
  /\ event' = [kind |-> what, seen |-> status]
  /\ UNCHANGED <<status, sends, sending, act, refresh>>

EventWritten ==
  /\ event # Nobody
  /\ status' = IF Advanced(event.seen, event.kind) = event.seen THEN status
               ELSE Advanced(event.seen, event.kind)
  /\ event' = Nobody
  /\ UNCHANGED <<sends, sending, act, refresh>>

(* What a person may do with a row that stands so.                         *)
MayAct(kind, seen) ==
  \/ kind = "copied" /\ seen \in {"prepared", "copied"}
  \/ kind = "sent_manually" /\ seen # "cancelled"
  \/ kind = "cancelled" /\ seen \notin Ticks \cup {"sent_manually"}

ActRead(kind) ==
  /\ act = Nobody /\ Undisturbed /\ MayAct(kind, status)
  /\ act' = [kind |-> kind, seen |-> status]
  /\ UNCHANGED <<status, sends, sending, event, refresh>>

ActWritten ==
  /\ act # Nobody
  /\ status' = act.kind /\ act' = Nobody
  /\ UNCHANGED <<sends, sending, event, refresh>>

(* refreshReceipts: the rows are read, Wati is asked, and each tick is     *)
(* written only over the status it was read with.                          *)
RefreshRead ==
  /\ refresh = Nobody /\ status \in {"queued", "sent", "delivered"}
  /\ \E n \in DOMAIN sends :
       /\ n = Len(sends) /\ sends[n] # "failed"
       /\ refresh' = [kind |-> sends[n], seen |-> status]
  /\ UNCHANGED <<status, sends, sending, event, act>>

(* Mutant: the tick is written by the row's id.                            *)
TickBlindly == status' = Advanced(refresh.seen, refresh.kind)
TickIfUnchanged ==
  status' = IF status = refresh.seen THEN Advanced(refresh.seen, refresh.kind) ELSE status

RefreshWritten ==
  /\ refresh # Nobody /\ Undisturbed
  /\ TickIfUnchanged
  /\ refresh' = Nobody
  /\ UNCHANGED <<sends, sending, event, act>>

MessageNext ==
  \/ \E s \in Senders :
       \/ BeginSend(s) \/ NotToBeSent(s) \/ Claim(s) \/ WatiAccepts(s)
       \/ WatiRefuses(s) \/ RecordSend(s) \/ SenderDies(s)
  \/ \E n \in DOMAIN sends, what \in Fates : Reaches(n, what) \/ EventRead(n, what)
  \/ EventWritten \/ ActWritten \/ RefreshRead \/ RefreshWritten
  \/ \E kind \in {"copied", "sent_manually", "cancelled"} : ActRead(kind)

MessageSpec == MessageInit /\ [][MessageNext]_messageVars
-----------------------------------------------------------------------------
MessageTypeOK ==
  /\ status \in MessageStatuses /\ sends \in Seq(Fates)
  /\ sending \in [Senders -> {"idle", "checked", "claimed", "accepted", "refused"}]
  /\ {event, act, refresh} \subseteq
       [kind : MessageStatuses \cup {"none"}, seen : MessageStatuses]

(* Wati is never made to send a message again while an earlier send of it  *)
(* stands: two clicks, a click racing a bulk run, a sender that died and a *)
(* pass that comes late all end in one message at the customer's ("must    *)
(* not send one message twice").                                           *)
SentOnce == Cardinality({n \in DOMAIN sends : sends[n] # "failed"}) <= 1

(* A tick is never taken back, whatever comes late or twice: what was read *)
(* does not become delivered again, and only a message nobody has shown to *)
(* be delivered can fail ("Status only moves FORWARD").  What a person     *)
(* says of the message stands apart from the ticks.                        *)
TicksOnlyAdvance ==
  [][(status \in Ticks /\ status' \in Fates) =>
       (\/ Rank[status'] >= Rank[status]
        \/ status' = "failed" /\ status = "sent")]_messageVars

(* Both: one message goes out, and what is known of it only grows          *)
(* (whatsapp-service.ts, whatsapp-receipts-service.ts).                    *)
OneMessageOnward == []SentOnce /\ TicksOnlyAdvance
=============================================================================
