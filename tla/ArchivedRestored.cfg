SPECIFICATION DecisionSpec
CONSTANTS
  Subjects = {"review"}
  task = task
  visit = visit
  b1 = b1
  b2 = b2
  c1 = c1
  c2 = c2
  None = None
  Entities = {task, visit}
  Bodies = {b1, b2}
  Conns = {c1, c2}
  Upserts = {task}
  Requests <- SomeRequests
  l0 = l0
  l1 = l1
  r1 = r1
  r2 = r2
  k1 = k1
  k2 = k2
  h1 = h1
  h2 = h2
  Clerks = {k1, k2}
  Handlers = {h1, h2}
  Changes = {r1, r2}
  Marks = {"dispatched", "delivered"}
  Lines = {l0, l1}
  FirstLines = l0
  page = page
  here = here
  there = there
  none = none
  editor = editor
  reviewer = reviewer
  Items = {page}
  Contents = {here, there}
  NoContent = none
  ChangeRequests = {1, 2}
  People = {editor, reviewer}
  MayPublish = {reviewer}
  MayReview = {editor, reviewer}
  ApprovalLife = 1
  MaxVersion = 3
  MaxDay = 1
  CleanupsOverlap = FALSE
  Records <- ThreeRecords
  Elsewhere = {"customer"}
  Limits = {1, 2}
  MaxDeps = 2
  MaxDead = 1
VIEW DecisionView
\* A page deleted is the end of it.
CHECK_DEADLOCK FALSE
PROPERTIES
  ArchivedStaysDown
