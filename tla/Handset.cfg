SPECIFICATION HandsetSpec
CONSTANTS
  Subjects = {"media", "pages", "books", "leads", "session", "trail", "recorder"}
  Files = {1, 2}
  MediaAttempts = 2
  DrainSize = 5
  SavesOverlap = FALSE
  s1 = s1
  s2 = s2
  s3 = s3
  l1 = l1
  Shops = {s1, s2, s3}
  Leads = {l1}
  PageSize = 2
  Overlap = 2
  TxLife = 1
  SharedInstant = 1
  AnySnapshot = FALSE
  EditsWait = FALSE
  MayRefuse = FALSE
  MaxTime = 6
  People = {"one", "other"}
  Nobody = "nobody"
  Lingers = FALSE
  KilledSigningIn = FALSE
  LastFix = 4
  Days = {"first", "second"}
  DayOf <- TwoDays
  Batch = 2
  DrainBatch = 2
  BufferCap = 2
  MaxHeldSkips = 1
\* A full queue takes no more.
CHECK_DEADLOCK FALSE
INVARIANTS
  HandsetTypeOK
  NoFileLost
  
  NothingFallsBehind
  OnePersonAtATime
PROPERTIES
  NoFixLost
  HandsetSettles
