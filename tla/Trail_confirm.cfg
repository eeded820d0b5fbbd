SPECIFICATION Spec
CONSTANTS
  R1 = R1
  R2 = R2
  Tasks <- OneRun
  Prices <- FourPrices
  Atr = 2
  Rules <- ConfirmedGiveBack
  MaxSlots = 5
  Unpriced = FALSE
  Dies = FALSE
  Stops = FALSE
  EmptyReads = FALSE
CHECK_DEADLOCK FALSE
INVARIANT
  ConfirmedIsSold
