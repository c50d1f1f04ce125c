SPECIFICATION Spec
CONSTANTS
  order = order
  payment = payment
  b1 = b1
  b2 = b2
  c1 = c1
  c2 = c2
  None = None
  Entities = {order}
  Bodies = {b1, b2}
  Conns = {c1}
  Upserts = {}
  Acts <- SameEdit
  MaxRows = 3
  MaxAttempts = 2
  BatchLimit = 2
  MayPrune = TRUE
INVARIANTS
  EverySyncedEditLanded
