SPECIFICATION AllFairSpec
CONSTANTS
  MOM = MOM
  BCT = BCT
  Lanes <- TwoLanes
  MaxQty = 2
  MaxPending = 2
  Restarts = FALSE
  Stops = FALSE
  Refusals = FALSE
  Stalls = FALSE
  Levels <- FourLevels
  Absent = Absent
  Poisoned = Poisoned
  LossPct = 5
  Window = 3
  SlotsADay = 3
  Hooked = TRUE
INVARIANTS
  MeasuredAgainstNewest
  BreachStands
PROPERTIES
  RefusedHeals
  CanAlwaysGetOut
