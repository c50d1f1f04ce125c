---------------------------- MODULE FieldDelivery ---------------------------
(***************************************************************************)
(* What the sync between a handset and the office promises about records,  *)
(* with the outbox, the requests, the receipts and the retries left out.   *)
(*                                                                         *)
(* A record is authored on the phone.  It lands at the office at most once *)
(* and stays.  The phone may learn that it landed, and only that: what it  *)
(* has been told it is never told again to forget.  A record the phone has *)
(* not been told about may be let go of by the salesman.  (That a record   *)
(* lands after the records it was filed with is NoOrphans of SyncIngest.)  *)
(***************************************************************************)
CONSTANT Records

VARIABLES
  authored,      \* records the salesman has made
  onPhone,       \* records his phone still shows
  atOffice,      \* records the office holds
  acknowledged   \* records the phone has been told the office holds

vars == <<authored, onPhone, atOffice, acknowledged>>

Init ==
  /\ authored = {} /\ onPhone = {}
  /\ atOffice = {} /\ acknowledged = {}

Author(r) ==
  /\ r \notin authored
  /\ authored' = authored \union {r}
  /\ onPhone' = onPhone \union {r}
  /\ UNCHANGED <<atOffice, acknowledged>>

Land(r) ==
  /\ r \in authored \ atOffice
  /\ atOffice' = atOffice \union {r}
  /\ UNCHANGED <<authored, onPhone, acknowledged>>

Acknowledge(r) ==
  /\ r \in atOffice \ acknowledged
  /\ acknowledged' = acknowledged \union {r}
  /\ UNCHANGED <<authored, onPhone, atOffice>>

LetGo(r) ==
  /\ r \in onPhone \ acknowledged
  /\ onPhone' = onPhone \ {r}
  /\ UNCHANGED <<authored, atOffice, acknowledged>>

Next == \E r \in Records : Author(r) \/ Land(r) \/ Acknowledge(r) \/ LetGo(r)

Spec == Init /\ [][Next]_vars
=============================================================================
