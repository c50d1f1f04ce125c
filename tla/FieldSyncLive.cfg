SPECIFICATION FairSpec
CONSTANTS
  order = order
  payment = payment
  b1 = b1
  b2 = b2
  c1 = c1
  c2 = c2
  None = None
  Entities = {order, payment}
  Bodies = {b1}
  Conns = {c1}
  Upserts = {}
  Acts <- OrderAndPayment
  MaxRows = 2
  MaxAttempts = 2
  BatchLimit = 2
  MayPrune = FALSE
PROPERTIES
  EveryRowIsSettledOrShown
  
