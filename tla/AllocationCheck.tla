--------------------------- MODULE AllocationCheck ---------------------------
(***************************************************************************)
(* The splits of Allocation on one customer's bills, every state of them,  *)
(* instruction and amount there is: what a saved split promises, said      *)
(* without the way it is worked out.                                       *)
(***************************************************************************)
EXTENDS Allocation

CONSTANTS
  MostOpen,   \* bound: what a bill has open
  MostPaid    \* bound: the amount received

VARIABLE question   \* the bills, the instruction and the amount; none yet

Ways ==
  [mode : {"auto"}, order : {"oldest", "newest"}]
    \union [mode : {"settle"}, bills : SUBSET Bills]
    \union [mode : {"custom"}, split : [Bills -> 0 .. MostOpen]]

Unasked == [asked |-> FALSE]

AskInit == question = Unasked

Ask ==
  /\ question = Unasked
  /\ \E bal \in [Bills -> 0 .. MostOpen], ins \in Ways, amount \in 1 .. MostPaid :
       question' = [asked |-> TRUE, bal |-> bal, ins |-> ins, amount |-> amount]
-----------------------------------------------------------------------------
Saved == Allocate(question.bal, question.ins, question.amount)

(* What a split lays against bill b, or, for no bill, on account.          *)
Against(ps, b) == Sum([i \in DOMAIN ps |-> IF ps[i].bill = b THEN ps[i].amt ELSE 0], DOMAIN ps)

Laid(b) == Against(Saved.parts, b)
StillOpen(b) == question.bal[b] - Laid(b)

(* a stands before b in the book, read from the end asked for.             *)
Older(a, b) ==
  \E i, j \in DOMAIN BillsByDate : i < j /\ BillsByDate[i] = a /\ BillsByDate[j] = b
InFront(a, b) == IF question.ins.order = "newest" THEN Older(b, a) ELSE Older(a, b)

(* What a split that may be saved comes to is what was received; it        *)
(* overfills no bill, and puts no bill and no remainder on two lines or on *)
(* a line of nothing ("Money left over is not an error").                  *)
SplitAddsUp ==
  (question.asked /\ Saved.ok) =>
    /\ Laid(NoBill) + Sum([b \in Bills |-> Laid(b)], Bills) = question.amount
    /\ \A b \in Bills : Laid(b) <= question.bal[b]
    /\ \A i, j \in DOMAIN Saved.parts :
         Saved.parts[i].amt > 0 /\ (Saved.parts[i].bill = Saved.parts[j].bill => i = j)

(* The money goes where the instruction says: down the book from the end   *)
(* asked for, no bill begun before those ahead of it are settled and       *)
(* nothing on account while one is open; to the ticked bills and their     *)
(* whole worth; or as typed.  Down the book is never refused.              *)
SplitAsInstructed ==
  question.asked =>
    LET ins == question.ins
    IN CASE ins.mode = "auto" ->
              /\ Saved.ok
              /\ \A a, b \in Bills : (InFront(a, b) /\ Laid(b) > 0) => StillOpen(a) = 0
              /\ Laid(NoBill) > 0 => \A b \in Bills : StillOpen(b) = 0
         [] ins.mode = "settle" ->
              Saved.ok => \A b \in Bills : IF b \in ins.bills THEN StillOpen(b) = 0 ELSE Laid(b) = 0
         [] ins.mode = "custom" ->
              Saved.ok => \A b \in Bills : Laid(b) = ins.split[b]

(* A split (allocate of allocation.ts) is worth what was received, bill by *)
(* bill, and goes where it was told to.                                    *)
SplitIsRight == SplitAddsUp /\ SplitAsInstructed
=============================================================================
