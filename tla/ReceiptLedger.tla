--------------------------- MODULE ReceiptLedger ----------------------------
(***************************************************************************)
(* One customer's money: receipts, the lines that say which bill each of   *)
(* them settles, and the paid figure cached on every bill                  *)
(* (receipt-service.ts, on-account-service.ts, handlePayment of            *)
(* actions/mbos.ts, recomputeBillPaid of recompute.ts).                    *)
(*                                                                         *)
(* Every operation is a few round trips: it reads, decides, writes in one  *)
(* or two transactions, and then rebuilds the paid figures in a statement  *)
(* of its own.  The writes name a row by its id and repeat none of what    *)
(* was read, so two people's operations may overlap at every point, and    *)
(* the server may stop an operation between two of them.  The reads an     *)
(* operation makes before its first write are one step, except where the   *)
(* code reads two tables whose disagreement matters (applyOnAccount).      *)
(***************************************************************************)
EXTENDS Allocation

CONSTANTS
  Receipts,        \* arrivals of money, by number in the order they came, each
                   \* with an idempotency key of its own
  Worth,           \* paise that arrived, by receipt
  BillWorth,       \* paise billed, by bill
  Orders,          \* the instructions people give
  Desks,           \* people working at once: clerks, callers, field requests
  From,            \* where each receipt may come from
  LineIds,         \* ids for the lines of a receipt, in the order they are given
  RewritesOverlap  \* whether operations that rewrite lines may overlap

ASSUME LedgerAssumption ==
  /\ Worth \in [Receipts -> Nat \ {0}]
  /\ BillWorth \in [Bills -> Nat]
  /\ Orders \subseteq Instructions
  /\ From \in [Receipts -> SUBSET {"accounts", "collections_call", "mbos"}]
  /\ Receipts \subseteq Nat \ {0} /\ LineIds \subseteq Nat
  /\ RewritesOverlap \in BOOLEAN

VARIABLES
  receipts,  \* payment_receipts: status and source, by idempotency key
  lines,     \* payments: this much of that receipt settles this bill
  paid,      \* bills.paid_amount
  desk,      \* what each desk is in the middle of
  owed       \* history: a paid figure is known to be out of date

ledgerVars == <<receipts, lines, paid, desk, owed>>

Undecided == {"reported", "held"}
Statuses == Undecided \union {"confirmed", "rejected", "reversed"}
Absent == [status |-> "absent", source |-> "none"]

(* A desk's place in its operation, and what it has read: the receipt in   *)
(* hand, the split it worked out, the lines it saw, the bill it chose.     *)
NoReceipt == 0
Idle == [at |-> "idle", r |-> NoReceipt, source |-> "none",
         parts |-> <<>>, seen |-> {}, bill |-> NoBill]
At(place, r) == [Idle EXCEPT !.at = place, !.r = r]

LedgerInit ==
  /\ receipts = [r \in Receipts |-> Absent]
  /\ lines = {}
  /\ paid = [b \in Bills |-> 0]
  /\ desk = [d \in Desks |-> Idle]
  /\ owed = FALSE
-----------------------------------------------------------------------------
LinesOf(r) == {l \in lines : l.receipt = r}
LineTotal(S) == Sum([l \in S |-> l.amt], S)

(* What confirmed money says is paid on a bill: recomputeBillPaid.         *)
Counted(b) ==
  LineTotal({l \in lines : l.bill = b /\ receipts[l.receipt].status = "confirmed"})

(* What openBillsFor offers: the cached figure, so what another operation  *)
(* has confirmed and not yet rebuilt is still open.                        *)
Balances ==
  [b \in Bills |-> IF paid[b] < BillWorth[b] THEN BillWorth[b] - paid[b] ELSE 0]

(* A line is known by its receipt and a number.                            *)
Same(l, m) == l.receipt = m.receipt /\ l.id = m.id

(* Numbers no line of the receipt has, and none a desk has in mind.        *)
FreeIds(r) == LineIds \ {l.id : l \in LinesOf(r) \union
  {s \in UNION {desk[d].seen : d \in Desks} : s.receipt = r}}
FreeId(r) == CHOOSE i \in FreeIds(r) : \A j \in FreeIds(r) : i <= j

(* Numbers for the parts of a receipt, one apiece.                         *)
Numberings(r, parts) ==
  {f \in [DOMAIN parts -> FreeIds(r)] : \A m, n \in DOMAIN parts : m < n => f[m] < f[n]}

(* Lines for the parts of a receipt, under numbers of their own.           *)
Written(r, parts) ==
  LET number == CHOOSE f \in Numberings(r, parts) : TRUE
  IN {[id |-> number[n], receipt |-> r, bill |-> parts[n].bill, amt |-> parts[n].amt] :
        n \in DOMAIN parts}

(* Whether the instance lets a desk start.  Where RewritesOverlap is       *)
(* FALSE, re-pointing has the customer to itself, and applying on account  *)
(* runs beside anything but itself and a re-pointing.                      *)
Repointing(e) == desk[e].at \in {"repointing", "replacing", "repointed"}
Applying(e) == desk[e].at \in {"crediting", "applying"}
Starts(d) ==
  /\ desk[d] = Idle
  /\ RewritesOverlap \/ \A e \in Desks : ~Repointing(e)
StartsRepointing(d) ==
  /\ desk[d] = Idle
  /\ RewritesOverlap \/ \A e \in Desks : desk[e] = Idle
StartsApplying(d) ==
  /\ Starts(d)
  /\ RewritesOverlap \/ \A e \in Desks : ~Applying(e)

Goes(d, next) == desk' = [desk EXCEPT ![d] = next]
SetStatus(r, s) == receipts' = [receipts EXCEPT ![r].status = s]
-----------------------------------------------------------------------------
(* recordReceipt, and a collections call that ends in money reported.  A   *)
(* key already on record is answered without a second receipt.             *)
ReadToRecord(d, r, source, ins) ==
  /\ Starts(d)
  /\ receipts[r] = Absent
  /\ source # "mbos"
  /\ LET split == Allocate(Balances, ins, Worth[r])
     IN /\ split.ok
        /\ Goes(d, [At("recording", r) EXCEPT !.source = source, !.parts = split.parts])
  /\ UNCHANGED <<receipts, lines, paid, owed>>

(* handlePayment: the bills the handset names must be open, and the rest   *)
(* is never refused.  What allocate already put on account is put there    *)
(* once more.                                                              *)
ReadFromField(d, r, ins) ==
  /\ Starts(d)
  /\ receipts[r] = Absent
  /\ "mbos" \in From[r]
  /\ \/ ins = [mode |-> "auto", order |-> "oldest"]
     \/ ins.mode = "settle" /\ ins.bills # {} /\ \A b \in ins.bills : Balances[b] > 0
  /\ LET split == Allocate(Balances, ins, Worth[r]).parts
         rest  == Remainder(Chosen(split, {p \in ToSet(split) : p.bill # NoBill}), Worth[r])
     IN Goes(d, [At("recording", r) EXCEPT !.source = "mbos",
                                           !.parts = split \o OnAccount(rest)])
  /\ UNCHANGED <<receipts, lines, paid, owed>>

(* Mutant: the key is not unique.                                          *)
CommitRecordAgain(d) ==
  /\ desk[d].at = "recording"
  /\ LET me == desk[d]
         believed == me.source = "accounts"
     IN /\ Numberings(me.r, me.parts) # {}
        /\ receipts' = [receipts EXCEPT ![me.r] =
             [status |-> IF believed THEN "confirmed" ELSE "reported",
              source |-> me.source]]
        /\ lines' = lines \union Written(me.r, me.parts)
        /\ Goes(d, IF believed THEN At("posting", NoReceipt) ELSE Idle)
  /\ UNCHANGED <<paid, owed>>

(* The receipt and its lines, in one transaction that the unique key       *)
(* refuses if somebody else's has gone in.  What accounts enter themselves *)
(* is confirmed as it is written.                                          *)
CommitRecord(d) ==
  /\ desk[d].at = "recording"
  /\ LET me == desk[d]
         believed == me.source = "accounts"
     IN \/ /\ receipts[me.r] # Absent
           /\ Goes(d, Idle)
           /\ UNCHANGED <<receipts, lines>>
        \/ /\ receipts[me.r] = Absent
           /\ Numberings(me.r, me.parts) # {}
           /\ receipts' = [receipts EXCEPT ![me.r] =
                [status |-> IF believed THEN "confirmed" ELSE "reported",
                 source |-> me.source]]
           /\ lines' = lines \union Written(me.r, me.parts)
           /\ Goes(d, IF believed THEN At("posting", NoReceipt) ELSE Idle)
  /\ UNCHANGED <<paid, owed>>
-----------------------------------------------------------------------------
(* confirmReceipt.  Without a new split, no line may be larger than what   *)
(* its bill has open.                                                      *)
StaleLines(r) ==
  {l \in LinesOf(r) : l.bill # NoBill /\ l.amt + paid[l.bill] > BillWorth[l.bill]}

ReadToConfirm(d, r) ==
  /\ Starts(d)
  /\ receipts[r].status \in Undecided
  /\ StaleLines(r) = {}
  /\ Goes(d, At("confirming", r))
  /\ UNCHANGED <<receipts, lines, paid, owed>>

ReadToRepoint(d, r, ins) ==
  /\ StartsRepointing(d)
  /\ receipts[r].status \in Undecided
  /\ LET split == Allocate(Balances, ins, Worth[r])
     IN split.ok /\ Goes(d, [At("repointing", r) EXCEPT !.parts = split.parts])
  /\ UNCHANGED <<receipts, lines, paid, owed>>

(* reallocate's transaction: the delete sees the lines committed when it   *)
(* starts, and waits if they are being deleted already; lines committed    *)
(* since are not among those it removes.                                   *)
DeleteLines(d) ==
  /\ desk[d].at = "repointing"
  /\ Goes(d, [desk[d] EXCEPT !.at = "replacing", !.seen = LinesOf(desk[d].r)])
  /\ UNCHANGED <<receipts, lines, paid, owed>>

(* Mutant: a re-pointed receipt keeps what it had on account.              *)
InsertLinesBeside(d) ==
  /\ desk[d].at = "replacing"
  /\ LET me == desk[d]
         gone == {s \in me.seen : s.bill # NoBill}
     IN /\ Numberings(me.r, me.parts) # {}
        /\ lines' = {l \in lines : ~\E s \in gone : Same(l, s)}
                       \union Written(me.r, me.parts)
        /\ Goes(d, At("repointed", me.r))
  /\ UNCHANGED <<receipts, paid, owed>>

InsertLines(d) ==
  /\ desk[d].at = "replacing"
  /\ LET me == desk[d]
     IN /\ Numberings(me.r, me.parts) # {}
        /\ lines' = {l \in lines : ~\E s \in me.seen : Same(l, s)}
                       \union Written(me.r, me.parts)
        /\ Goes(d, At("repointed", me.r))
  /\ UNCHANGED <<receipts, paid, owed>>

CommitConfirm(d) ==
  /\ desk[d].at \in {"confirming", "repointed"}
  /\ SetStatus(desk[d].r, "confirmed")
  /\ Goes(d, At("posting", NoReceipt))
  /\ UNCHANGED <<lines, paid, owed>>
-----------------------------------------------------------------------------
(* holdReceipt, which rebuilds no paid figure: a hold counts no more than  *)
(* a report did.  Written over a decision made since the read, it does.    *)
ReadToHold(d, r) ==
  /\ Starts(d)
  /\ receipts[r].status = "reported"
  /\ Goes(d, At("holding", r))
  /\ UNCHANGED <<receipts, lines, paid, owed>>

CommitHold(d) ==
  /\ desk[d].at = "holding"
  /\ SetStatus(desk[d].r, "held")
  /\ owed' = (owed \/ receipts[desk[d].r].status = "confirmed")
  /\ Goes(d, Idle)
  /\ UNCHANGED <<lines, paid>>

(* rejectReceipt and reverseReceipt.                                       *)
ReadToReject(d, r) ==
  /\ Starts(d)
  /\ receipts[r].status \in Statuses \ {"rejected"}
  /\ Goes(d, At("rejecting", r))
  /\ UNCHANGED <<receipts, lines, paid, owed>>

(* Mutant: a rejected receipt had not counted, so nothing is rebuilt.      *)
CommitRejectQuietly(d) ==
  /\ desk[d].at = "rejecting"
  /\ SetStatus(desk[d].r, "rejected")
  /\ Goes(d, Idle)
  /\ UNCHANGED <<lines, paid, owed>>

CommitReject(d) ==
  /\ desk[d].at = "rejecting"
  /\ SetStatus(desk[d].r, "rejected")
  /\ Goes(d, At("posting", NoReceipt))
  /\ UNCHANGED <<lines, paid, owed>>

ReadToReverse(d, r) ==
  /\ Starts(d)
  /\ receipts[r].status = "confirmed"
  /\ Goes(d, At("reversing", r))
  /\ UNCHANGED <<receipts, lines, paid, owed>>

CommitReverse(d) ==
  /\ desk[d].at = "reversing"
  /\ SetStatus(desk[d].r, "reversed")
  /\ Goes(d, At("posting", NoReceipt))
  /\ UNCHANGED <<lines, paid, owed>>
-----------------------------------------------------------------------------
(* applyOnAccount: the confirmed lines with no bill, then the oldest bill  *)
(* with anything open.                                                     *)
ReadCredit(d) ==
  /\ StartsApplying(d)
  /\ LET credit == {l \in lines : l.bill = NoBill
                                  /\ receipts[l.receipt].status = "confirmed"}
     IN /\ credit # {}
        /\ Goes(d, [At("crediting", NoReceipt) EXCEPT !.seen = credit])
  /\ UNCHANGED <<receipts, lines, paid, owed>>

ReadBill(d) ==
  /\ desk[d].at = "crediting"
  /\ LET seen == desk[d].seen
         open == Open(Balances)
         amt  == Least(LineTotal(seen), Balances[Head(open)])
     IN Goes(d, IF open = <<>> THEN Idle
                ELSE [At("applying", NoReceipt) EXCEPT !.seen = seen, !.bill = Head(open),
                        !.parts = <<[bill |-> Head(open), amt |-> amt]>>])
  /\ UNCHANGED <<receipts, lines, paid, owed>>

(* How much of a line the desk has decided to move: the lines are spent in *)
(* turn, until what it applies is used up.                                 *)
Moved(me, l) ==
  LET ahead == LineTotal({s \in me.seen :
                 s.receipt < l.receipt \/ (s.receipt = l.receipt /\ s.id < l.id)})
      left  == IF ahead < me.parts[1].amt THEN me.parts[1].amt - ahead ELSE 0
  IN Least(left, l.amt)

(* Mutant: the line that is split keeps its whole amount.                  *)
CommitApplyWhole(d) ==
  /\ desk[d].at = "applying"
  /\ LET me    == desk[d]
         taken == {l \in me.seen : Moved(me, l) > 0}
         split == {l \in taken : Moved(me, l) < l.amt}
         now(l) == IF \E t \in taken : Same(t, l) THEN [l EXCEPT !.bill = me.bill] ELSE l
         rest  == {[id |-> FreeId(l.receipt), receipt |-> l.receipt, bill |-> NoBill,
                    amt |-> l.amt - Moved(me, l)] : l \in split}
     IN /\ \A l \in split : FreeIds(l.receipt) # {}
        /\ lines' = {now(l) : l \in lines} \union rest
        /\ Goes(d, At("posting", NoReceipt))
  /\ UNCHANGED <<receipts, paid, owed>>

(* Each line is updated by its id: moved whole, or cut to what is moved    *)
(* with the rest inserted as a line of its own, whatever either has become *)
(* since it was read.                                                      *)
CommitApply(d) ==
  /\ desk[d].at = "applying"
  /\ LET me    == desk[d]
         taken == {l \in me.seen : Moved(me, l) > 0}
         split == {l \in taken : Moved(me, l) < l.amt}
         now(l) ==
           IF \E t \in split : Same(t, l)
           THEN LET t == CHOOSE t \in split : Same(t, l)
                IN [l EXCEPT !.bill = me.bill, !.amt = Moved(me, t)]
           ELSE IF \E t \in taken : Same(t, l) THEN [l EXCEPT !.bill = me.bill] ELSE l
         rest  == {[id |-> FreeId(l.receipt), receipt |-> l.receipt, bill |-> NoBill,
                    amt |-> l.amt - Moved(me, l)] : l \in split}
     IN /\ \A l \in split : FreeIds(l.receipt) # {}
        /\ lines' = {now(l) : l \in lines} \union rest
        /\ Goes(d, At("posting", NoReceipt))
  /\ UNCHANGED <<receipts, paid, owed>>
-----------------------------------------------------------------------------
(* recomputeBillPaid: a statement of its own after the transaction.        *)
Rebuild == paid' = [b \in Bills |-> Counted(b)] /\ owed' = FALSE

Post(d) ==
  /\ desk[d].at = "posting"
  /\ Rebuild
  /\ Goes(d, Idle)
  /\ UNCHANGED <<receipts, lines>>

(* recomputeAllBillPaid, in the nightly job.                               *)
Nightly == Rebuild /\ UNCHANGED <<receipts, lines, desk>>

(* The server stops, or a statement fails, between two round trips.        *)
Dies(d) ==
  /\ desk[d] # Idle
  /\ owed' = (owed \/ desk[d].at = "posting")
  /\ Goes(d, Idle)
  /\ UNCHANGED <<receipts, lines, paid>>

LedgerNext ==
  \/ \E d \in Desks :
       \/ CommitRecord(d) \/ DeleteLines(d) \/ InsertLines(d) \/ CommitConfirm(d)
       \/ CommitHold(d) \/ CommitReject(d) \/ CommitReverse(d)
       \/ ReadCredit(d) \/ ReadBill(d) \/ CommitApply(d) \/ Post(d) \/ Dies(d)
       \/ \E r \in Receipts :
            \/ ReadToConfirm(d, r) \/ ReadToHold(d, r)
            \/ ReadToReject(d, r) \/ ReadToReverse(d, r)
            \/ \E ins \in Orders :
                 \/ ReadFromField(d, r, ins) \/ ReadToRepoint(d, r, ins)
                 \/ \E s \in From[r] : ReadToRecord(d, r, s, ins)
  \/ Nightly

LedgerSpec == LedgerInit /\ [][LedgerNext]_ledgerVars
-----------------------------------------------------------------------------
Line == [id : LineIds, receipt : Receipts, bill : Bills \union {NoBill}, amt : Nat \ {0}]

(* Every row and every operation is well formed, and no two lines have one *)
(* id.                                                                     *)
LedgerTypeOK ==
  /\ receipts \in [Receipts -> [status : Statuses, source : UNION {From[r] : r \in Receipts}] \union {Absent}]
  /\ \A l \in lines : l \in Line
  /\ \A l, m \in lines : Same(l, m) => l = m
  /\ paid \in [Bills -> Nat]
  /\ owed \in BOOLEAN
  /\ \A d \in Desks : desk[d].parts \in Seq(Parts)

(* A receipt is worth what its lines are worth, whatever has been          *)
(* confirmed, re-pointed, held, reversed or applied on account meanwhile:  *)
(* no operation makes money or loses it.  Of receipts taken at a desk:     *)
(* handlePayment puts the remainder of a field receipt on account twice.   *)
DeskReceiptsAddUp ==
  \A r \in Receipts :
    receipts[r] # Absent /\ receipts[r].source # "mbos"
      => LineTotal(LinesOf(r)) = Worth[r]

(* The paid figure cached on a bill is the confirmed money against it, but *)
(* while an operation is about to rebuild it, and but for what the code    *)
(* leaves to the nightly rebuild: an operation cut off just before, and a  *)
(* hold written over a confirmation.                                       *)
PaidIsWhatIsConfirmed ==
  (\A d \in Desks : desk[d].at # "posting") /\ ~owed
    => \A b \in Bills : paid[b] = Counted(b)

(* No operation makes money or loses it, and every bill shows what it has  *)
(* been paid (recordReceipt to applyOnAccount, recomputeBillPaid).         *)
MoneyIsKept == DeskReceiptsAddUp /\ PaidIsWhatIsConfirmed

(* A receipt is worth what its lines are worth, wherever it was taken.     *)
ReceiptsAddUp ==
  \A r \in Receipts : receipts[r] # Absent => LineTotal(LinesOf(r)) = Worth[r]
=============================================================================
