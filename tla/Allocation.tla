----------------------------- MODULE Allocation -----------------------------
(***************************************************************************)
(* allocate (engines/allocation.ts): which bills one arrival of money      *)
(* settles.  bal is what each bill still has open; the answer is the parts *)
(* the money is split into, a part with no bill being money on account,    *)
(* and whether the split may be saved.  Amounts are whole (paise).         *)
(***************************************************************************)
EXTENDS Naturals, Sequences, SequencesExt

CONSTANTS
  Bills,       \* one customer's bills
  BillsByDate, \* the same, oldest first
  NoBill       \* the null bill of money on account

ASSUME BillsAssumption ==
  /\ BillsByDate \in Seq(Bills)
  /\ \A b \in Bills : \E i \in DOMAIN BillsByDate : BillsByDate[i] = b
  /\ \A i, j \in DOMAIN BillsByDate : BillsByDate[i] = BillsByDate[j] => i = j
  /\ NoBill \notin Bills

(* How the money is to be laid down.                                       *)
Instructions ==
  [mode : {"auto"}, order : {"oldest", "newest"}]
    \union [mode : {"settle"}, bills : SUBSET Bills]
    \union [mode : {"custom"}, split : [Bills -> Nat]]

Least(m, n) == IF m < n THEN m ELSE n
Sum(f, S) == SumFunctionOnSet(f, S)

(* So much of the money, against a bill or on account.                     *)
Parts == [bill : Bills \union {NoBill}, amt : Nat \ {0}]
PartsTotal(ps) == Sum([i \in DOMAIN ps |-> ps[i].amt], DOMAIN ps)

(* What of a sequence is in a set.                                         *)
Chosen(s, T) ==
  LET kept[i \in 0 .. Len(s)] ==
        IF i = 0 THEN <<>>
        ELSE IF s[i] \in T THEN Append(kept[i - 1], s[i]) ELSE kept[i - 1]
  IN kept[Len(s)]

(* Bill by bill in the order given, until the money runs out: the last to  *)
(* be reached takes what is left.                                          *)
LayDown(bs, bal, amount) ==
  LET ahead(i) == Sum([j \in DOMAIN bs |-> bal[bs[j]]], 1 .. i - 1)
  IN [i \in {j \in DOMAIN bs : ahead(j) < amount} |->
        [bill |-> bs[i], amt |-> Least(amount - ahead(i), bal[bs[i]])]]

(* Mutant: the bills are taken as they come.                               *)
OpenUnsorted(bal) == Reverse(Chosen(BillsByDate, {b \in Bills : bal[b] > 0}))
Open(bal) == Chosen(BillsByDate, {b \in Bills : bal[b] > 0})

(* What the instruction lays against bills, and whether it is refused.     *)
AgainstBills(bal, ins, amount) ==
  CASE ins.mode = "auto" ->
         LET order == IF ins.order = "newest" THEN Reverse(Open(bal)) ELSE Open(bal)
         IN [parts |-> LayDown(order, bal, amount), ok |-> TRUE]
    [] ins.mode = "settle" ->
         [parts |-> LayDown(Chosen(Open(bal), ins.bills), bal, amount),
          ok |-> /\ ins.bills # {}
                 /\ \A b \in ins.bills : bal[b] > 0
                 /\ Sum(bal, ins.bills) <= amount]
    [] ins.mode = "custom" ->
         [parts |-> LET fits == Chosen(BillsByDate,
                          {b \in Bills : ins.split[b] > 0 /\ ins.split[b] <= bal[b]})
                    IN [i \in DOMAIN fits |-> [bill |-> fits[i], amt |-> ins.split[fits[i]]]],
          ok |-> /\ \E b \in Bills : ins.split[b] > 0
                 /\ \A b \in Bills : ins.split[b] <= bal[b]
                 /\ Sum(ins.split, Bills) <= amount]

OnAccount(amt) == IF amt > 0 THEN <<[bill |-> NoBill, amt |-> amt]>> ELSE <<>>

Remainder(parts, amount) ==
  IF PartsTotal(parts) < amount THEN amount - PartsTotal(parts) ELSE 0

(* Mutant: the automatic spread does not stop at what a bill has open.     *)
AllocateWhole(bal, ins, amount) ==
  IF ins.mode = "auto" /\ Open(bal) # <<>>
  THEN [parts |-> <<[bill |-> Head(Open(bal)), amt |-> amount]>>, ok |-> TRUE]
  ELSE AgainstBills(bal, ins, amount)

(* What is left over goes on account (payments.allowOnAccountRemainder is  *)
(* on, as it is by default).                                               *)
Allocate(bal, ins, amount) ==
  LET laid == AgainstBills(bal, ins, amount)
  IN [parts |-> laid.parts \o OnAccount(Remainder(laid.parts, amount)), ok |-> laid.ok]
=============================================================================
