---------------------------- MODULE DispatchDesk ----------------------------
(***************************************************************************)
(* The ERP's dispatch desk (erp/dispatch.ts, erp/engines/trace.ts and the  *)
(* allocation and dispatch screens of erp/screens/sales.ts): boxes scanned *)
(* onto the lines of orders, the stock of lots set aside for those lines,  *)
(* overrides for a box that is not what was ordered, and the lorry's       *)
(* leaving.  What one transaction does behind a lock is one step; what a   *)
(* request reads before it writes is a step of its own, and several        *)
(* requests may be in hand at once.  Every line is Ready, leaves in boxes  *)
(* and leaves from the one godown; stickers and transfers are left out.    *)
(* The allocation rows of one lot on a line are taken together.            *)
(***************************************************************************)
EXTENDS Integers, FiniteSets, FiniteSetsExt

CONSTANTS
  Boxes, LotOf,    \* erp_units, and the lot each was packed from
  Lots, LotSku,    \* packing batches, and what was packed
  Made,            \* boxes of the lot that were posted, labelled or not
  Lines, LineSku,  \* erp_orders, and what each asks for
  Target, OrderOf, \* how many boxes a line takes, and its order
  Packers, Nothing,
  Crossings        \* may a line be touched while another request has it in hand

ASSUME DispatchAssumption ==
  /\ IsFiniteSet(Boxes) /\ IsFiniteSet(Lots) /\ IsFiniteSet(Lines)
  /\ LotOf \in [Boxes -> Lots]
  /\ Made \in [Lots -> Nat] /\ Target \in [Lines -> Nat \ {0}]
  /\ Crossings \subseteq BOOLEAN
  /\ Nothing \notin Lines \cup Boxes \cup Lots \cup Packers

VARIABLES
  unit,       \* a box: its status, and the line it is on
  alloc,      \* erp_batch_codes: boxes of a lot set aside for a line
  billing,    \* erp_order_details of an order: its invoice check and verification
  override,   \* the latest override for a box on a line
  hand,       \* what each person's request has read and not yet written
  crossing    \* whether requests cross on one line in this behaviour

deskVars == <<unit, alloc, billing, override, hand, crossing>>

OrderNos == {OrderOf[l] : l \in Lines}
LinesOn(o) == {l \in Lines : OrderOf[l] = o}
SkuOf(b) == LotSku[LotOf[b]]

NotOn == [status |-> "available", line |-> Nothing]
NoOverride == [state |-> "none", by |-> Nothing, decider |-> Nothing]
EmptyHand == [kind |-> "idle"]

DispatchInit ==
  /\ unit = [b \in Boxes |-> NotOn]
  /\ alloc = [l \in Lines |-> [lot \in Lots |-> 0]]
  /\ billing = [o \in OrderNos |-> "none"]
  /\ override = [b \in Boxes |-> [l \in Lines |-> NoOverride]]
  /\ hand = [p \in Packers |-> EmptyHand]
  /\ crossing \in Crossings

(* What a line's boxes and allocations come to (scanLinesFor).  A box that *)
(* came back keeps its line, and is not counted on it.                     *)
On(l) == {b \in Boxes : unit[b].line = l /\ unit[b].status \in {"scanned", "dispatched"}}
OnOfLot(l, lot) == {b \in On(l) : LotOf[b] = lot}
Scanned(l) == Cardinality(On(l))
ScannedOfLot(l, lot) == Cardinality(OnOfLot(l, lot))
Allocated(l) == SumFunctionOnSet(alloc[l], Lots)
Dispatched(l) == billing[OrderOf[l]] = "Verified"

(* What the stock ledger has left of a lot (packLots): every allocation is *)
(* taken off it, whatever has become of the boxes.                         *)
Free(lot) == Made[lot] - SumFunctionOnSet([l \in Lines |-> alloc[l][lot]], Lines)

(* Mutant: the box's row is read without locking it.                       *)
LockedByNobody(b) == FALSE

(* The lines another request has in hand, and the box a scan has locked.   *)
InHand(l) == \E p \in Packers : hand[p].kind # "idle" /\ l \in hand[p].lines
MayTouch(S) == crossing \/ \A l \in S : ~InHand(l)
Locked(b) == \E p \in Packers : hand[p].kind = "scan" /\ hand[p].box = b

Take(p, what) == hand[p] = EmptyHand /\ MayTouch(what.lines) /\ hand' = [hand EXCEPT ![p] = what]
Done(p) == hand' = [hand EXCEPT ![p] = EmptyHand]
-----------------------------------------------------------------------------
(* scanVerdict: which line of the order a box goes on.  An approved        *)
(* override names the line, if that is still open; otherwise it is one of  *)
(* the box's own SKU that still wants a box.                               *)
OpenLines(o) == {l \in LinesOn(o) : ~Dispatched(l)}
ApprovedFor(b, o) == {l \in LinesOn(o) : override[b][l].state = "Approved"}

LinesFor(b, o) ==
  LET named == ApprovedFor(b, o) \cap OpenLines(o)
      same == {l \in OpenLines(o) : LineSku[l] = SkuOf(b)}
  IN {l \in (IF named # {} THEN named ELSE same) : Scanned(l) < Target[l]}

(* And what becomes of the allocation: the lot is the line's already, the  *)
(* line was short and takes one of it, or another lot gives one up.        *)
HasLeft(l, lot) == ScannedOfLot(l, lot) < alloc[l][lot]
Givers(l, lot) == {g \in Lots \ {lot} : HasLeft(l, g)}

AllocationFor(l, lot) ==
  IF HasLeft(l, lot) THEN {[way |-> "matched", from |-> Nothing]}
  ELSE IF Allocated(l) < Target[l] THEN {[way |-> "allocate", from |-> Nothing]}
  ELSE {[way |-> "swap", from |-> g] : g \in Givers(l, lot)}

(* scanOntoOrder up to the lot's lock: the box is locked, the lines and    *)
(* the override are read, and the box is judged by them.                   *)
ScanBox(p, b, o) ==
  /\ unit[b].status = "available" /\ ~Locked(b)
  /\ \E l \in LinesFor(b, o) : \E w \in AllocationFor(l, LotOf[b]) :
       Take(p, [kind |-> "scan", lines |-> {l}, line |-> l, box |-> b,
                way |-> w.way, from |-> w.from, into |-> alloc[l][LotOf[b]] > 0,
                substituted |-> l \in ApprovedFor(b, o) /\ LineSku[l] # SkuOf(b)])
  /\ UNCHANGED <<unit, alloc, billing, override, crossing>>

(* The row the lot was found on grows by one, if it is still there, or the *)
(* line gets a row of its own; the giver's row is one less, or goes.       *)
Given(s, lot) ==
  LET grows == IF s.into /\ alloc[s.line][lot] = 0 THEN 0 ELSE 1
  IN [alloc EXCEPT ![s.line] = [x \in Lots |->
        IF x = lot THEN @[x] + grows ELSE IF x = s.from THEN @[x] - 1 ELSE @[x]]]

PutOn(s) ==
  /\ unit' = [unit EXCEPT ![s.box] = [status |-> "scanned", line |-> s.line]]
  /\ override' = IF s.substituted THEN [override EXCEPT ![s.box][s.line] = [@ EXCEPT !.state = "Used"]] ELSE override

(* Mutant: whether the lot has one free is not asked.                      *)
FinishScanUnasked(p) ==
  /\ hand[p].kind = "scan"
  /\ alloc' = IF hand[p].way = "matched" THEN alloc ELSE Given(hand[p], LotOf[hand[p].box])
  /\ PutOn(hand[p]) /\ Done(p)
  /\ UNCHANGED <<billing, crossing>>

(* The rest of scanOntoOrder, behind the lot's lock: whether the lot has   *)
(* one free is asked again; how full the line is, is not.                  *)
FinishScan(p) ==
  LET s == hand[p]  lot == LotOf[s.box] IN
  /\ s.kind = "scan"
  /\ \/ s.way = "matched" /\ UNCHANGED alloc
     \/ s.way = "allocate" /\ Free(lot) >= 1 /\ alloc' = Given(s, lot)
     \/ s.way = "swap" /\ Free(lot) >= 1 /\ alloc[s.line][s.from] > 0 /\ alloc' = Given(s, lot)
  /\ PutOn(s) /\ Done(p)
  /\ UNCHANGED <<billing, crossing>>

(* The lot is all set aside, the giver is gone, or two scans wait for each *)
(* other's lots: the transaction comes to nothing.                         *)
DropScan(p) ==
  /\ hand[p].kind = "scan" /\ hand[p].way # "matched"
  /\ Done(p) /\ UNCHANGED <<unit, alloc, billing, override, crossing>>

(* scanLotOntoOrder, for a lot whose boxes carry no labels: the line short *)
(* of its allocation takes what it needs, of what is free by then.         *)
Labelled(lot) == \E b \in Boxes : LotOf[b] = lot

ScanLot(p, lot, o) ==
  /\ ~Labelled(lot)
  /\ \A l \in OpenLines(o) : alloc[l][lot] = 0
  /\ \E l \in OpenLines(o) :
       /\ LineSku[l] = LotSku[lot] /\ Allocated(l) < Target[l]
       /\ Take(p, [kind |-> "label", lines |-> {l}, line |-> l, lot |-> lot, need |-> Target[l] - Allocated(l)])
  /\ UNCHANGED <<unit, alloc, billing, override, crossing>>

FinishLot(p) ==
  LET s == hand[p] IN
  /\ s.kind = "label"
  /\ LET n == Min({s.need, Free(s.lot)}) IN
       alloc' = IF n < 1 THEN alloc ELSE [alloc EXCEPT ![s.line][s.lot] = @ + n]
  /\ Done(p) /\ UNCHANGED <<unit, billing, override, crossing>>

(* unscanUnit: the box is off, and what was set aside for it stays.        *)
Unscan(b) ==
  /\ unit[b].status = "scanned" /\ ~Locked(b) /\ MayTouch({unit[b].line})
  /\ unit' = [unit EXCEPT ![b] = NotOn]
  /\ UNCHANGED <<alloc, billing, override, hand, crossing>>

(* manualMove, by hand on the units screen.                                *)
Moves == {<<"available", "hold">>, <<"hold", "available">>, <<"returned", "available">>,
          <<"available", "rejected">>, <<"hold", "rejected">>, <<"returned", "rejected">>,
          <<"dispatched", "returned">>}

Move(b, to) ==
  /\ <<unit[b].status, to>> \in Moves /\ ~Locked(b) /\ MayTouch({unit[b].line})
  /\ unit' = [unit EXCEPT ![b] = IF to = "available" THEN NotOn ELSE [@ EXCEPT !.status = to]]
  /\ UNCHANGED <<alloc, billing, override, hand, crossing>>
-----------------------------------------------------------------------------
(* requestOverride: only a box that is no line's own may be asked about,   *)
(* for a line that still wants one, and once at a time.                    *)
RequestOverride(p, b, l) ==
  LET open == OpenLines(OrderOf[l]) IN
  /\ hand[p] = EmptyHand
  /\ unit[b].status = "available" /\ l \in open
  /\ \A x \in open : LineSku[x] # SkuOf(b)
  /\ Scanned(l) < Target[l] \/ \A x \in open : Scanned(x) >= Target[x]
  /\ override[b][l].state \notin {"Pending", "Approved"}
  /\ override' = [override EXCEPT ![b][l] = [state |-> "Pending", by |-> p, decider |-> Nothing]]
  /\ UNCHANGED <<unit, alloc, billing, hand, crossing>>

(* Mutant: whoever asked may decide as well.                               *)
DecideOwnOverride(p, b, l, how) ==
  /\ hand[p] = EmptyHand /\ override[b][l].state = "Pending"
  /\ override' = [override EXCEPT ![b][l] = [state |-> how, by |-> @.by, decider |-> p]]
  /\ UNCHANGED <<unit, alloc, billing, hand, crossing>>

DecideOverride(p, b, l, how) ==
  /\ hand[p] = EmptyHand
  /\ override[b][l].state = "Pending" /\ override[b][l].by # p
  /\ override' = [override EXCEPT ![b][l] = [state |-> how, by |-> @.by, decider |-> p]]
  /\ UNCHANGED <<unit, alloc, billing, hand, crossing>>
-----------------------------------------------------------------------------
(* saveAllocation, all behind the lot's lock.                              *)
AllocateByHand(l, lot, n) ==
  /\ LotSku[lot] = LineSku[l] /\ MayTouch({l})
  /\ n <= Target[l] - Allocated(l) /\ n <= Free(lot)
  /\ alloc' = [alloc EXCEPT ![l][lot] = @ + n]
  /\ UNCHANGED <<unit, billing, override, hand, crossing>>

(* batchCodes.qty: the row is read first, and its own quantity as read     *)
(* then is what the lot's stock is let off by, behind the lock.  An edit   *)
(* that changes nothing does something only if it was crossed.             *)
EditQuantity(p, l, lot, n) ==
  /\ alloc[l][lot] > 0 /\ ~Dispatched(l)
  /\ crossing \/ n # alloc[l][lot]
  /\ Take(p, [kind |-> "edit", lines |-> {l}, line |-> l, lot |-> lot, own |-> alloc[l][lot], qty |-> n])
  /\ UNCHANGED <<unit, alloc, billing, override, crossing>>

FinishEdit(p) ==
  LET s == hand[p]
      fits == /\ alloc[s.line][s.lot] > 0
              /\ s.qty >= ScannedOfLot(s.line, s.lot)
              /\ s.qty <= Target[s.line] - (Allocated(s.line) - alloc[s.line][s.lot])
              /\ s.qty <= Free(s.lot) + s.own
  IN /\ s.kind = "edit"
     /\ alloc' = IF fits THEN [alloc EXCEPT ![s.line][s.lot] = s.qty] ELSE alloc
     /\ Done(p) /\ UNCHANGED <<unit, billing, override, crossing>>

(* batchCodes.release: everything is asked first, and the row is deleted   *)
(* after, with no lock at all.                                             *)
ReleaseLot(p, l, lot) ==
  /\ alloc[l][lot] > 0 /\ billing[OrderOf[l]] = "none" /\ ScannedOfLot(l, lot) = 0
  /\ Take(p, [kind |-> "release", lines |-> {l}, line |-> l, lot |-> lot])
  /\ UNCHANGED <<unit, alloc, billing, override, crossing>>

FinishRelease(p) ==
  /\ hand[p].kind = "release"
  /\ alloc' = [alloc EXCEPT ![hand[p].line][hand[p].lot] = 0]
  /\ Done(p) /\ UNCHANGED <<unit, billing, override, crossing>>
-----------------------------------------------------------------------------
(* doBill, doApproveInvoice, doRejectInvoice: an order is billed whole.    *)
BillOrder(o) ==
  /\ billing[o] = "none" /\ MayTouch(LinesOn(o))
  /\ billing' = [billing EXCEPT ![o] = "Pending"]
  /\ UNCHANGED <<unit, alloc, override, hand, crossing>>

CheckInvoice(o, how) ==
  /\ billing[o] \in {"Pending", "Approved"} \ {how} /\ MayTouch(LinesOn(o))
  /\ billing' = [billing EXCEPT ![o] = how]
  /\ UNCHANGED <<unit, alloc, override, hand, crossing>>

(* doUnbill reads that nothing has left, and deletes after.                *)
Unbill(p, o) ==
  /\ billing[o] \in {"Pending", "Approved"}
  /\ Take(p, [kind |-> "unbill", lines |-> LinesOn(o), order |-> o])
  /\ UNCHANGED <<unit, alloc, billing, override, crossing>>

FinishUnbill(p) ==
  /\ hand[p].kind = "unbill"
  /\ billing' = [billing EXCEPT ![hand[p].order] = "none"]
  /\ Done(p) /\ UNCHANGED <<unit, alloc, override, crossing>>

(* scanGate: a line waits for its boxes, unless what was set aside for it  *)
(* carries no labels.                                                      *)
HasUnits(l) == On(l) # {} \/ \E lot \in Lots : alloc[l][lot] > 0 /\ Labelled(lot)
(* Mutant: the first box scanned lets the line go.                         *)
HeldForTheFirst(l) == (HasUnits(l) \/ Allocated(l) = 0) /\ Scanned(l) = 0

Held(l) == (HasUnits(l) \/ Allocated(l) = 0) /\ Scanned(l) < Target[l]

(* verify: the invoice and the gates are read first.  Then the order has   *)
(* left, if its bill is still there, and so has every box scanned onto its *)
(* lines by then (markDispatched).                                         *)
Verify(p, o) ==
  /\ billing[o] = "Approved" /\ \A l \in LinesOn(o) : ~Held(l)
  /\ Take(p, [kind |-> "verify", lines |-> LinesOn(o), order |-> o])
  /\ UNCHANGED <<unit, alloc, billing, override, crossing>>

FinishVerify(p) ==
  LET o == hand[p].order IN
  /\ hand[p].kind = "verify"
  /\ billing' = IF billing[o] = "none" THEN billing ELSE [billing EXCEPT ![o] = "Verified"]
  /\ unit' = [b \in Boxes |-> IF unit[b].status = "scanned" /\ unit[b].line \in LinesOn(o)
                              THEN [unit[b] EXCEPT !.status = "dispatched"] ELSE unit[b]]
  /\ Done(p) /\ UNCHANGED <<alloc, override, crossing>>
-----------------------------------------------------------------------------
DispatchNext ==
  \/ \E p \in Packers :
       \/ \E b \in Boxes, o \in OrderNos : ScanBox(p, b, o)
       \/ \E lot \in Lots, o \in OrderNos : ScanLot(p, lot, o)
       \/ FinishScan(p) \/ DropScan(p) \/ FinishLot(p)
       \/ \E b \in Boxes, l \in Lines :
            \/ RequestOverride(p, b, l)
            \/ \E how \in {"Approved", "Declined"} : DecideOverride(p, b, l, how)
       \/ \E l \in Lines, lot \in Lots :
            \/ \E n \in 1..Target[l] : EditQuantity(p, l, lot, n)
            \/ ReleaseLot(p, l, lot)
       \/ FinishEdit(p) \/ FinishRelease(p)
       \/ \E o \in OrderNos : Unbill(p, o) \/ Verify(p, o)
       \/ FinishUnbill(p) \/ FinishVerify(p)
  \/ \E b \in Boxes : Unscan(b) \/ \E to \in {"available", "hold", "rejected", "returned"} : Move(b, to)
  \/ \E l \in Lines, lot \in Lots : \E n \in 1..Target[l] : AllocateByHand(l, lot, n)
  \/ \E o \in OrderNos : BillOrder(o) \/ \E how \in {"Pending", "Approved"} : CheckInvoice(o, how)

DispatchSpec == DispatchInit /\ [][DispatchNext]_deskVars

OverrideRows ==
  [state : {"none", "Pending", "Approved", "Declined", "Used"},
   by : Packers \cup {Nothing}, decider : Packers \cup {Nothing}]

DispatchTypeOK ==
  /\ unit \in [Boxes -> [status : {"available", "scanned", "dispatched", "hold", "rejected", "returned"},
                         line : Lines \cup {Nothing}]]
  /\ alloc \in [Lines -> [Lots -> Nat]]
  /\ billing \in [OrderNos -> {"none", "Pending", "Approved", "Verified"}]
  /\ override \in [Boxes -> [Lines -> OverrideRows]]
  /\ \A p \in Packers : hand[p] = EmptyHand \/ hand[p].lines \subseteq Lines

(* Where requests do not cross on a line: no lot has more set aside than   *)
(* was packed, each box on a line is one set aside for it, and no line has *)
(* more boxes than it takes.  Lots are shared between the lines all the    *)
(* same, and boxes wanted by both (lockLot, lotFree, scanVerdict).         *)
LotsAreNotOverspent == \A lot \in Lots : Free(lot) >= 0
BoxesAreSetAside ==
  \A l \in Lines : \A lot \in Lots : ScannedOfLot(l, lot) <= alloc[l][lot]
LinesAreNotOverfilled == \A l \in Lines : Scanned(l) <= Target[l]

StockIsSetAside ==
  ~crossing => LotsAreNotOverspent /\ BoxesAreSetAside /\ LinesAreNotOverfilled

(* However requests cross: a box that is not what the line asks for is on  *)
(* it only by an override somebody else approved, used up by it; and a box *)
(* goes from one line to another only by being taken off, so two desks     *)
(* never both count it.                                                    *)
WrongBoxesAreAllowed ==
  \A b \in Boxes : \A l \in Lines :
    unit[b].line = l /\ LineSku[l] # SkuOf(b) =>
      /\ override[b][l].state = "Used"
      /\ override[b][l].decider \notin {Nothing, override[b][l].by}

CountedOnce ==
  \A b \in Boxes : unit[b].line # Nothing => unit'[b].line \in {unit[b].line, Nothing}

BoxesGoWhereTheyMay == [][WrongBoxesAreAllowed' /\ CountedOnce]_deskVars

(* Where requests do not cross on a line: an order leaves with every box   *)
(* of every line that has labelled boxes, and leaves none behind.          *)
LeavesWhole(o) ==
  \A l \in LinesOn(o) :
    /\ HasUnits(l) => Cardinality({b \in Boxes : unit'[b] = [status |-> "dispatched", line |-> l]}) = Target[l]
    /\ \A b \in Boxes : unit'[b] # [status |-> "scanned", line |-> l]

OrdersLeaveWhole ==
  [][\A o \in OrderNos :
       ~crossing /\ billing'[o] = "Verified" /\ billing[o] # "Verified" => LeavesWhole(o)]_deskVars

(* What the desk is for: the right boxes on the lorry, each counted once,  *)
(* and all of them (dispatch.ts, scanGate).                                *)
BoxesLeaveRight == BoxesGoWhereTheyMay /\ OrdersLeaveWhole
=============================================================================
