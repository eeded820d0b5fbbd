SPECIFICATION FairSpec
CONSTANTS
  A = A
  B = B
  Symbols <- TwoSymbols
  Size = 1
  Lot = 1
  Days = 3
  MonthOf <- TwoMonths
  Offset = 1
  Offsets = {1, 2}
  MaxLive = 2
  Envs <- Surroundings
CHECK_DEADLOCK FALSE
INVARIANTS
  MonthIsRebalanced
  BookIsKnown
PROPERTY
  HeldBackIsServed
