------------------------------ MODULE MCOffice ------------------------------
(* Eight parts of the office that share no state, each on an instance of   *)
(* its own, and the splits of Allocation.  subject says which of them a    *)
(* behaviour is of.  The dispatch desk is looked at two ways: "boxes" of   *)
(* one lot and the lots they come from, and "strays" that are not what was *)
(* ordered, with requests crossing on one line.                            *)
EXTENDS ReceiptLedger, AllocationCheck, ReferenceCache, SignInCode,
        OlaKeyPool, WhatsAppMessage, DispatchDesk, VendorPayouts, LeadLadder, TLC

CONSTANT Subjects   \* the parts to be checked

ASSUME SubjectsAssumption ==
  Subjects \subseteq {"ledger", "split", "cache", "code", "pool", "message", "boxes", "strays", "payouts", "lead"}

VARIABLE subject

CONSTANTS clerk1, clerk2, none

(* The splits are asked of three bills; the ledger has one to collect on.  *)
ThreeBills == <<1, 2, 3>>
OneToCollect == 1 :> 1 @@ 2 :> 0 @@ 3 :> 0
ReceiptWorth == 1 :> 2 @@ 2 :> 1
ReceiptFrom == 1 :> {"accounts", "collections_call"} @@ 2 :> {"mbos"}
Oldest == {[mode |-> "auto", order |-> "oldest"]}

(* A lot with two labelled boxes and one with none of what both lines ask  *)
(* for, and a box of something else; the first line takes two.             *)
Batch == 1 :> 1 @@ 2 :> 1 @@ 3 :> 3
BatchSku == 1 :> "asked" @@ 3 :> "stray" @@ 4 :> "asked"
BatchMade == 1 :> 2 @@ 3 :> 1 @@ 4 :> 1
Asked == 1 :> "asked" @@ 2 :> "asked"
Takes == 1 :> 2 @@ 2 :> 1
OwnOrder == 1 :> "first" @@ 2 :> "second"

EarlyOrLate == {[amount |-> 1, due |-> 0], [amount |-> 2, due |-> 1]}
-----------------------------------------------------------------------------
officeVars == <<subject, ledgerVars, question, cacheVars, codeVars, poolVars, messageVars, deskVars, payoutVars, leadVars>>

OfDispatch == subject \in {"boxes", "strays"}

OfficeInit ==
  /\ subject \in Subjects
  /\ LedgerInit /\ AskInit /\ CacheInit /\ CodeInit /\ PoolInit /\ MessageInit /\ DispatchInit /\ PayoutInit
  /\ LeadInit
  /\ crossing = (subject = "strays")
  /\ payDays = {0}

(* What is left out of an instance to keep it small.  The ledger's second  *)
(* receipt, from the field, is never held and never reversed: the first    *)
(* is.  Two people open the payouts at once only while the register has    *)
(* changed once; a typed payout is only ever cancelled.  Of two moves of a *)
(* lead at once one is a loss, and a customer is lost and reopened only.   *)
OneWay ==
  CASE subject = "ledger" -> receipts'[2].status \notin {"held", "reversed"}
    [] subject = "boxes" ->
         /\ billing'["second"] = "none" /\ unit'[3] = NotOn
         /\ \A b \in Boxes : unit'[b].status \notin {"hold", "rejected"}
    [] subject = "strays" ->
         /\ billing' = billing /\ unit'[2] = NotOn /\ unit'[1].status \in {"available", "scanned"}
         /\ \A l \in Lines : alloc'[l][4] = 0
         /\ alloc'[1][1] + alloc'[2][1] <= 1
         /\ \A p \in Packers : hand'[p].kind \in {"idle", "scan"}
    [] subject = "payouts" ->
         /\ (sync'[2] # NotSyncing =>
              changes' = 1 /\ sync'[2].day = 0 /\ \A a \in Accounts : deciding'[a] = NotDeciding)
         /\ \A m \in Manuals :
              /\ (payout'[m] # NoPayout /\ payout[m] = NoPayout => changes' <= 2)
              /\ \A a \in Accounts : m \in deciding'[a].on => deciding'[a].set = [status |-> "cancelled"]
    [] subject = "lead" ->
         /\ \A p, q \in Movers :
              p # q /\ asked'[p].how = "move" /\ asked'[q].how = "move" =>
                asked'[p].to = "lost" \/ asked'[q].to = "lost"
         /\ \A p \in Movers :
              lead.kind = "customer" /\ asked[p] = NotAsking =>
                asked'[p] = NotAsking \/ asked'[p].how = "reopen" \/ asked'[p].to = "lost"

OfficeNext ==
  \/ subject = "ledger" /\ LedgerNext /\ OneWay /\ UNCHANGED <<subject, question, cacheVars, codeVars, poolVars, messageVars, deskVars, payoutVars, leadVars>>
  \/ subject = "split" /\ Ask /\ UNCHANGED <<subject, ledgerVars, cacheVars, codeVars, poolVars, messageVars, deskVars, payoutVars, leadVars>>
  \/ subject = "cache" /\ CacheNext /\ UNCHANGED <<subject, ledgerVars, question, codeVars, poolVars, messageVars, deskVars, payoutVars, leadVars>>
  \/ subject = "code" /\ CodeNext /\ UNCHANGED <<subject, ledgerVars, question, cacheVars, poolVars, messageVars, deskVars, payoutVars, leadVars>>
  \/ subject = "pool" /\ PoolNext /\ UNCHANGED <<subject, ledgerVars, question, cacheVars, codeVars, messageVars, deskVars, payoutVars, leadVars>>
  \/ subject = "message" /\ MessageNext /\ UNCHANGED <<subject, ledgerVars, question, cacheVars, codeVars, poolVars, deskVars, payoutVars, leadVars>>
  \/ OfDispatch /\ DispatchNext /\ OneWay /\ UNCHANGED <<subject, ledgerVars, question, cacheVars, codeVars, poolVars, messageVars, payoutVars, leadVars>>
  \/ subject = "payouts" /\ PayoutNext /\ OneWay
     /\ UNCHANGED <<subject, ledgerVars, question, cacheVars, codeVars, poolVars, messageVars, deskVars, leadVars>>
  \/ subject = "lead" /\ LeadNext /\ OneWay
     /\ UNCHANGED <<subject, ledgerVars, question, cacheVars, codeVars, poolVars, messageVars, deskVars, payoutVars>>

OfficeSpec == OfficeInit /\ [][OfficeNext]_officeVars

OfficeTypeOK ==
  CASE subject = "ledger" -> LedgerTypeOK
    [] subject = "split" -> DOMAIN question \subseteq {"asked", "bal", "ins", "amount"}
    [] subject = "cache" -> CacheTypeOK
    [] subject = "code" -> CodeTypeOK
    [] subject = "pool" -> PoolTypeOK
    [] subject = "message" -> MessageTypeOK
    [] subject = "payouts" -> PayoutTypeOK
    [] subject = "lead" -> LeadTypeOK
    [] OfDispatch -> DispatchTypeOK
-----------------------------------------------------------------------------
(* Which of the clerks is doing what makes no difference.                  *)
ClerkSymmetry == Permutations(Desks)
=============================================================================
