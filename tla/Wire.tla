-------------------------------- MODULE Wire --------------------------------
(***************************************************************************)
(* The vocabulary the handset and the office share: records, the edits     *)
(* made to them, and the idempotency key an edit travels under.            *)
(***************************************************************************)
EXTENDS Naturals

CONSTANTS
  Entities,   \* client ids of records: visits, orders, payments, tasks ...
  Bodies,     \* payloads, told apart only by their hash
  None        \* NULL

ASSUME NoneAssumption == None \notin Bodies

Ops == {"create", "update"}

(* `${entityId}:${op}:${hash}`, or that followed by `#n` for an update     *)
(* that repeats an earlier one; n = 0 is the bare key.                     *)
Key == [entity : Entities, op : Ops, body : Bodies, n : Nat]

(* One item of POST /api/mbos/sync.  `row` is the queueId; the entity, the *)
(* operation and the payload are read off the key, which determines them.  *)
Item == [row : Nat, key : Key, deps : SUBSET Entities]

(* What the office can answer about one item.  `conflict` is an acceptance *)
(* on both sides of the wire and is not told apart from it.                *)
Verdicts == {"accepted", "rejected", "retry"}
=============================================================================
