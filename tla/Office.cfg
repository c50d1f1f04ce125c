SPECIFICATION OfficeSpec
CONSTANTS
  Subjects = {"ledger", "split", "cache", "code", "pool", "message", "boxes", "strays", "payouts", "lead"}
  clerk1 = clerk1
  clerk2 = clerk2
  none = none
  Bills = {1, 2, 3}
  BillsByDate <- ThreeBills
  NoBill = none
  Receipts = {1, 2}
  Worth <- ReceiptWorth
  BillWorth <- OneToCollect
  Orders <- Oldest
  Desks = {clerk1, clerk2}
  From <- ReceiptFrom
  LineIds = {1, 2, 3, 4}
  RewritesOverlap = FALSE
  MostOpen = 2
  MostPaid = 4
  CacheLife = 2
  LoadLife = 1
  MaxSaves = 2
  MaxSeconds = 5
  Submissions = {1, 2}
  MaxAttempts = 2
  MaxCodes = 2
  MaxTries = 2
  KeyCount = 2
  MapRequests = {1, 2}
  Cooldown = 2
  MonthHours = 3
  MaxHours = 4
  RetiresOverlap = FALSE
  SpansMonths = FALSE
  Senders = {1, 2}
  MaxSends = 2
  TicksOverlap = FALSE
  Boxes = {1, 2, 3}
  Lots = {1, 3, 4}
  LotOf <- Batch
  LotSku <- BatchSku
  Made <- BatchMade
  Lines = {1, 2}
  LineSku <- Asked
  Target <- Takes
  OrderOf <- OwnOrder
  Packers = {clerk1, clerk2}
  Nothing = none
  Purchases = {"lot"}
  Manuals = {"advance"}
  Openers = {1, 2}
  Accounts = {"cashier"}
  Figures <- EarlyOrLate
  LastDay = 1
  Calendars = {{0}, {1}}
  MaxChanges = 3
  Movers = {clerk1, clerk2}
  MaxTicks = 3
  Crossings = {TRUE, FALSE}
SYMMETRY ClerkSymmetry
\* A question answered and a clock at its bound are the end.
CHECK_DEADLOCK FALSE
INVARIANTS
  OfficeTypeOK
  MoneyIsKept
  SplitIsRight
  AgeIsBounded
  CodesAreUsedUp
  
  StockIsSetAside
PROPERTIES
  
  
  PayoutsFollowRegister
  MovesAreSound
