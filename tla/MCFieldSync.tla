---------------------------- MODULE MCFieldSync -----------------------------
(* Small instances of FieldSync.                                           *)
EXTENDS FieldSync, TLC

CONSTANTS order, payment, b1, b2, c1, c2

Create(e, deps) == [entity |-> e, op |-> "create", body |-> b1, deps |-> deps,
                    waits |-> FALSE, together |-> FALSE]
Edit(e, b) == [entity |-> e, op |-> "update", body |-> b, deps |-> {},
               waits |-> TRUE, together |-> FALSE]
InOneTransaction(a) == [a EXCEPT !.together = TRUE]

(* An order, and the money collected against it, as visits are saved.      *)
OrderAndPayment ==
  {InOneTransaction(Create(order, {})), InOneTransaction(Create(payment, {order}))}

(* An order as it is saved, and an edit to it.                             *)
OrderAndEdit == {Create(order, {}), Edit(order, b2)}

(* An order, and one edit to it made over and over.                        *)
SameEdit == {InOneTransaction(Create(order, {})), Edit(order, b2)}

ConnSymmetry == Permutations(Conns)
=============================================================================
