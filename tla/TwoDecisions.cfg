SPECIFICATION DeskSpec
CONSTANTS
  l0 = l0
  l1 = l1
  r1 = r1
  r2 = r2
  k1 = k1
  k2 = k2
  h1 = h1
  h2 = h2
  Clerks = {k1, k2}
  Handlers = {h1, h2}
  Changes = {r1, r2}
  Marks = {"dispatched", "delivered"}
  Lines = {l0, l1}
  FirstLines = l0
SYMMETRY DeskSymmetry
\* A declined order is the end of it.
CHECK_DEADLOCK FALSE
INVARIANTS
  OneDecision
