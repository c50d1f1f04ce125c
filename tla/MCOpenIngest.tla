---------------------------- MODULE MCOpenIngest ----------------------------
(* A task that may be edited and something filed against it, sent in every *)
(* combination a confused handset could send them.                         *)
EXTENDS OpenIngest

CONSTANTS task, visit, b1, b2, c1, c2

KeyFor(e, o, b) == [entity |-> e, op |-> o, body |-> b, n |-> 0]
ItemFor(r, k, d) == [row |-> r, key |-> k, deps |-> d]

Make == ItemFor(1, KeyFor(task, "create", b1), {})
Edit == ItemFor(2, KeyFor(task, "update", b2), {})
File == ItemFor(3, KeyFor(visit, "create", b1), {task})

SomeRequests == {<<Make>>, <<Edit>>, <<Make, File>>, <<Edit, File>>}
=============================================================================
