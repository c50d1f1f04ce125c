SPECIFICATION LeadSpec
CONSTANTS
  Movers = {"clerk", "phone"}
  MaxTicks = 4
CHECK_DEADLOCK FALSE
PROPERTY OnlyMovesClimb
