--------------------------- MODULE VendorPayouts ----------------------------
(***************************************************************************)
(* What is owed to suppliers and the day it is to be paid on               *)
(* (services/vendor-payout-service.ts, engines/vendor-payouts.ts).  A      *)
(* purchase payout follows the ERP's purchase register: each time somebody *)
(* opens the screen, syncPurchasePayouts reads the register and the        *)
(* payouts and then writes, a statement for every row, what the register   *)
(* says over what it read.  A manual payout is typed.  People plan, hold,  *)
(* release, pay, reopen and cancel, each with a read and a write of its    *)
(* own.  All writes are by the row's id alone.                             *)
(***************************************************************************)
EXTENDS Integers, FiniteSets

CONSTANTS
  Purchases,   \* a supplier and a PR number: one payout for each
  Manuals,     \* payouts somebody types
  Openers,     \* openings of the screen that may be syncing at once
  Accounts,    \* people deciding at once
  Figures,     \* what the register, and a person, may say is owed, and when
  LastDay,     \* bound: days are 0 .. LastDay
  Calendars,   \* the payment days the configuration may name
  MaxChanges   \* bound: changes made by anything but a sync

ASSUME PayoutAssumption ==
  /\ Purchases \intersect Manuals = {}
  /\ LastDay \in Nat /\ Figures \subseteq [amount : Nat, due : 0 .. LastDay]
  /\ Calendars \subseteq SUBSET (0 .. LastDay) /\ MaxChanges \in Nat

VARIABLES
  businessDay,  \* today()
  payDays,      \* payments.vendorPayoutDays
  register,     \* what the purchase register comes to, by purchase
  payout,       \* vendor_payouts
  sync,         \* each sync's place, what it has read and has yet to do
  deciding,     \* the payout each person has read, and what they will set
  clean,        \* history: nothing but its own writes since a sync began
  settled,      \* history: nothing at all since a clean sync ended
  changes       \* how often anything but a sync has changed anything

payoutVars == <<businessDay, payDays, register, payout, sync, deciding, clean, settled, changes>>

Payouts == Purchases \union Manuals
CalendarDays == 0 .. LastDay
NotOwed == [amount |-> 0, due |-> 0]
Amounts == {f.amount : f \in Figures}
Unpaid == {"open", "on_hold"}
NotPaid == -1
NoPayout == [status |-> "absent", gone |-> FALSE, amount |-> 0, due |-> 0, payOn |-> 0,
           decided |-> FALSE, paid |-> NotPaid]
NotSyncing == [at |-> "idle", day |-> 0, days |-> {}, figures |-> <<>>, rows |-> <<>>, left |-> {}]
NotDeciding == [on |-> {}, set |-> <<>>]

PayoutInit ==
  /\ businessDay = 0
  /\ payDays \in Calendars
  /\ register = [p \in Purchases |-> NotOwed]
  /\ payout = [p \in Payouts |-> NoPayout]
  /\ sync = [s \in Openers |-> NotSyncing]
  /\ deciding = [a \in Accounts |-> NotDeciding]
  /\ clean = [s \in Openers |-> FALSE]
  /\ settled = FALSE
  /\ changes = 0
-----------------------------------------------------------------------------
(* paymentDayOnOrAfter: the day itself, where no payment day is to come.   *)
DayFrom(d, days) ==
  LET later == {e \in days : e >= d}
  IN IF later = {} THEN d ELSE CHOOSE e \in later : \A f \in later : e <= f

PlannedPayOn(due, day, days) == DayFrom(IF due < day THEN day ELSE due, days)

(* replannedPayOn: where a day nobody chose belongs, and whether it moves. *)
Replanned(row, days) == DayFrom(row.payOn, days)
Displaced(row, day, days) ==
  /\ row.status \in Unpaid /\ ~row.decided
  /\ row.payOn >= day /\ Replanned(row, days) # row.payOn

(* A row with some of its columns set.                                     *)
Onto(set, row) ==
  [x \in DOMAIN set \union DOMAIN row |-> IF x \in DOMAIN set THEN set[x] ELSE row[x]]

(* Only the sync's own writes leave it clean.                              *)
Disturbs ==
  /\ changes < MaxChanges /\ changes' = changes + 1
  /\ clean' = [s \in Openers |-> FALSE] /\ settled' = FALSE
-----------------------------------------------------------------------------
(* The world: lots are bought, rated, corrected and deleted in the ERP,    *)
(* and debit notes issued; the payment days are reconfigured; days pass.   *)
RegisterChanges(p) ==
  /\ \E f \in Figures \union {NotOwed} : f # register[p] /\ register' = [register EXCEPT ![p] = f]
  /\ Disturbs
  /\ UNCHANGED <<businessDay, payDays, payout, sync, deciding>>

Reconfigure ==
  /\ \E days \in Calendars \ {payDays} : payDays' = days
  /\ Disturbs
  /\ UNCHANGED <<businessDay, register, payout, sync, deciding>>

DayPasses ==
  /\ businessDay < LastDay
  /\ businessDay' = businessDay + 1
  /\ Disturbs
  /\ UNCHANGED <<payDays, register, payout, sync, deciding>>
-----------------------------------------------------------------------------
(* syncPurchasePayouts.  It reads the configuration, the day and the       *)
(* register,                                                               *)
SyncReadsRegister(s) ==
  /\ sync[s] = NotSyncing
  /\ sync' = [sync EXCEPT ![s] = [NotSyncing EXCEPT !.at = "reading", !.day = businessDay,
                                    !.days = payDays, !.figures = register]]
  /\ clean' = [clean EXCEPT ![s] = TRUE]
  /\ UNCHANGED <<businessDay, payDays, register, payout, deciding, settled, changes>>

(* then the payouts,                                                       *)
SyncReadsPayouts(s) ==
  /\ sync[s].at = "reading"
  /\ sync' = [sync EXCEPT ![s].at = "writing", ![s].left = Purchases,
                          ![s].rows = [p \in Purchases |-> payout[p]]]
  /\ UNCHANGED <<businessDay, payDays, register, payout, deciding, clean, settled, changes>>

(* One statement of the sync: the fields it sets, over the row as it is by *)
(* now, and the next row.                                                  *)
Sets(s, p, set) ==
  /\ payout' = [payout EXCEPT ![p] = Onto(set, @)]
  /\ sync' = [sync EXCEPT ![s].left = @ \ {p}]
  /\ clean' = [o \in Openers |-> clean[o] /\ (o = s \/ payout' = payout)]
  /\ settled' = (settled /\ payout' = payout)
  /\ UNCHANGED <<businessDay, payDays, register, deciding, changes>>

Owed(s) == {p \in Purchases : sync[s].figures[p] # NotOwed}

(* a row for every purchase that has none (an insert that does nothing     *)
(* where another sync's has gone in),                                      *)
SyncInserts(s, p) ==
  /\ sync[s].at = "writing" /\ p \in sync[s].left \intersect Owed(s)
  /\ sync[s].rows[p] = NoPayout
  /\ LET f == sync[s].figures[p]
     IN Sets(s, p, IF payout[p] # NoPayout THEN <<>> ELSE
          [amount |-> f.amount, due |-> f.due, status |-> "open",
           payOn |-> PlannedPayOn(f.due, sync[s].day, sync[s].days)])

(* Mutant: what had left the register and came back stays cancelled.       *)
SyncRewritesOpen(s, p) ==
  /\ sync[s].at = "writing" /\ p \in sync[s].left \intersect Owed(s)
  /\ sync[s].rows[p] # NoPayout
  /\ LET row == sync[s].rows[p]
         f   == sync[s].figures[p]
         moved == row.due # f.due
     IN Sets(s, p, IF row.status \notin Unpaid \/ (row.amount = f.amount /\ ~moved) THEN <<>> ELSE
          [amount |-> f.amount, due |-> f.due,
           payOn |-> IF row.decided \/ ~moved THEN row.payOn
                     ELSE PlannedPayOn(f.due, sync[s].day, sync[s].days)])

(* what the register says over every row that was unpaid, or cancelled for *)
(* having left the register, when it was read,                             *)
SyncRewrites(s, p) ==
  /\ sync[s].at = "writing" /\ p \in sync[s].left \intersect Owed(s)
  /\ sync[s].rows[p] # NoPayout
  /\ LET row == sync[s].rows[p]
         f   == sync[s].figures[p]
         reopen == row.status = "cancelled" /\ row.gone
         moved  == row.due # f.due
     IN Sets(s, p,
          IF ~(row.status \in Unpaid \/ reopen) \/ (row.amount = f.amount /\ ~moved /\ ~reopen)
          THEN <<>>
          ELSE Onto(IF reopen THEN [status |-> "open", gone |-> FALSE] ELSE <<>>,
                    [amount |-> f.amount, due |-> f.due,
                     payOn |-> IF row.decided \/ ~moved THEN row.payOn
                               ELSE PlannedPayOn(f.due, sync[s].day, sync[s].days)]))

(* Mutant: what was paid for goes too, where the register has lost it.     *)
SyncRemovesAny(s, p) ==
  /\ sync[s].at = "writing" /\ p \in sync[s].left
  /\ sync[s].left \intersect Owed(s) = {}
  /\ Sets(s, p, [status |-> "cancelled", gone |-> TRUE])

(* and then the end of every unpaid one the register no longer has.        *)
SyncRemoves(s, p) ==
  /\ sync[s].at = "writing" /\ p \in sync[s].left
  /\ sync[s].left \intersect Owed(s) = {}
  /\ Sets(s, p, IF sync[s].rows[p].status \notin Unpaid THEN <<>>
                ELSE [status |-> "cancelled", gone |-> TRUE])

(* It reads the payouts again, for what is not on a payment day,           *)
SyncReadsPlans(s) ==
  /\ sync[s].at = "writing" /\ sync[s].left = {}
  /\ sync' = [sync EXCEPT ![s].at = "planning", ![s].rows = payout,
       ![s].left = {p \in Payouts : Displaced(payout[p], sync[s].day, sync[s].days)}]
  /\ UNCHANGED <<businessDay, payDays, register, payout, deciding, clean, settled, changes>>

(* and moves that to the next.                                             *)
SyncReplans(s, p) ==
  /\ sync[s].at = "planning" /\ p \in sync[s].left
  /\ Sets(s, p, [payOn |-> Replanned(sync[s].rows[p], sync[s].days)])

SyncEnds(s) ==
  /\ sync[s].at = "planning" /\ sync[s].left = {}
  /\ sync' = [sync EXCEPT ![s] = NotSyncing]
  /\ clean' = [clean EXCEPT ![s] = FALSE]
  /\ settled' = (settled \/ clean[s])
  /\ UNCHANGED <<businessDay, payDays, register, payout, deciding, changes>>
-----------------------------------------------------------------------------
(* What a person does: the row is read and the operation refused or not,   *)
(* and then the fields are set by the row's id.                            *)
Decides(a, p, set) ==
  /\ deciding[a] = NotDeciding
  /\ deciding' = [deciding EXCEPT ![a] = [on |-> {p}, set |-> set]]
  /\ UNCHANGED <<businessDay, payDays, register, payout, sync, clean, settled, changes>>

(* reschedulePayout: to a payment day that is not gone.                    *)
Reschedule(a, p, day) ==
  /\ payout[p].status \in Unpaid
  /\ day >= businessDay /\ day \in payDays /\ day # payout[p].payOn
  /\ Decides(a, p, [payOn |-> day, decided |-> TRUE])

HoldPayout(a, p) == payout[p].status = "open" /\ Decides(a, p, [status |-> "on_hold"])
ReleasePayout(a, p) == payout[p].status = "on_hold" /\ Decides(a, p, [status |-> "open"])

MarkPayoutPaid(a, p) ==
  /\ payout[p].status \in Unpaid
  /\ Decides(a, p, [status |-> "paid", paid |-> payout[p].amount])

ReopenPayout(a, p) ==
  /\ payout[p].status = "paid"
  /\ Decides(a, p, [status |-> "open", paid |-> NotPaid,
       payOn |-> IF payout[p].payOn < businessDay
                 THEN PlannedPayOn(businessDay, businessDay, payDays) ELSE payout[p].payOn])

CancelPayout(a, p) ==
  /\ p \in Manuals /\ payout[p].status \in Unpaid
  /\ Decides(a, p, [status |-> "cancelled"])

CommitSet(a) ==
  /\ deciding[a] # NotDeciding
  /\ \E p \in deciding[a].on : payout' = [payout EXCEPT ![p] = Onto(deciding[a].set, @)]
  /\ deciding' = [deciding EXCEPT ![a] = NotDeciding]
  /\ Disturbs
  /\ UNCHANGED <<businessDay, payDays, register, sync>>

(* createManualPayout, on a day of its own or the planned one.             *)
CreateManual(p) ==
  /\ p \in Manuals /\ payout[p] = NoPayout
  /\ \E f \in Figures : \E day \in {d \in payDays : d >= businessDay} \union {NotPaid} :
       payout' = [payout EXCEPT ![p] = Onto(
         [amount |-> f.amount, due |-> f.due, status |-> "open", decided |-> day # NotPaid,
          payOn |-> IF day # NotPaid THEN day ELSE PlannedPayOn(f.due, businessDay, payDays)], @)]
  /\ Disturbs
  /\ UNCHANGED <<businessDay, payDays, register, sync, deciding>>
-----------------------------------------------------------------------------
SyncStep(s) ==
  \/ SyncReadsRegister(s) \/ SyncReadsPayouts(s) \/ SyncReadsPlans(s) \/ SyncEnds(s)
  \/ \E p \in Payouts : SyncInserts(s, p) \/ SyncRewrites(s, p) \/ SyncRemoves(s, p) \/ SyncReplans(s, p)

PayoutNext ==
  \/ \E p \in Purchases : RegisterChanges(p)
  \/ Reconfigure \/ DayPasses
  \/ \E s \in Openers : SyncStep(s)
  \/ \E a \in Accounts, p \in Payouts :
       \/ HoldPayout(a, p) \/ ReleasePayout(a, p) \/ MarkPayoutPaid(a, p)
       \/ ReopenPayout(a, p) \/ CancelPayout(a, p)
       \/ \E day \in CalendarDays : Reschedule(a, p, day)
  \/ \E a \in Accounts : CommitSet(a)
  \/ \E p \in Manuals : CreateManual(p)

PayoutSpec == PayoutInit /\ [][PayoutNext]_payoutVars
-----------------------------------------------------------------------------
PayoutTypeOK ==
  /\ \A p \in Payouts :
       /\ payout[p].status \in Unpaid \union {"absent", "paid", "cancelled"}
       /\ payout[p].payOn \in CalendarDays /\ payout[p].due \in CalendarDays
       /\ payout[p].amount \in Amounts \union {0} /\ payout[p].paid \in Amounts \union {0, NotPaid}
       /\ payout[p].gone => p \in Purchases
  /\ \A s \in Openers : sync[s].at = "idle" <=> sync[s] = NotSyncing

(* Whether the payouts say what the register says: what is owed has a      *)
(* payout, worth the register's figure unless it is paid; what is not, has *)
(* none to pay; and nothing still to come is planned off the payment days  *)
(* unless a person chose the day.                                          *)
Follows ==
  /\ \A p \in Purchases :
       IF register[p] = NotOwed THEN payout[p].status \notin Unpaid
       ELSE /\ payout[p] # NoPayout /\ ~(payout[p].status = "cancelled" /\ payout[p].gone)
            /\ payout[p].status \in Unpaid =>
                 payout[p].amount = register[p].amount /\ payout[p].due = register[p].due
  /\ \A p \in Payouts : ~Displaced(payout[p], businessDay, payDays)

(* A sync beside which nobody else wrote leaves the payouts as the         *)
(* register has them (vendor-payout-service.ts: "the register stays the    *)
(* only place a purchase is typed"),                                       *)
SyncFollowsRegister == settled => Follows

(* and another one after it, "of a register that has not changed writes    *)
(* nothing".                                                               *)
SyncAgainWritesNothing ==
  [][\A s \in Openers : settled /\ clean[s] /\ sync'[s] # sync[s] => payout' = payout]_payoutVars

(* Such a sync "never touches a payment day a person chose                 *)
(* (`pay_on_decided_at`) or a payout already paid"; one beside which a     *)
(* person decides does both, for it writes over what it read.              *)
SyncKeepsHandsOff ==
  [][\A s \in Openers, p \in Payouts : clean[s] /\ sync'[s] # sync[s] =>
       /\ payout[p].status = "paid" => payout'[p] = payout[p]
       /\ payout[p].decided => payout'[p].payOn = payout[p].payOn]_payoutVars

PayoutsFollowRegister == []SyncFollowsRegister /\ SyncAgainWritesNothing /\ SyncKeepsHandsOff
=============================================================================
