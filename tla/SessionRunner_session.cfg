SPECIFICATION Spec
CONSTANTS
  A = A
  B = B
  C = C
  D = D
  p1 = p1
  p2 = p2
  Procs <- OneTask
  Symbols <- OneSymbol
  Slots <- OneSlot
  Attempts <- Twice
  MaxSubmitAttempts = 2
  BookSize = 2
  MaxPositions = 3
  Unattributed <- Nobody
  HeldLongEnough = FALSE
  Lot = 2
  Visited <- TradeOnly
  Blacklistable <- OnlyA
  MaxRows = 2
  DenialIsJournalled = FALSE
  MayLoseRows = TRUE
INVARIANTS
  NoRecordNoOrder
  NoSecondOrder
PROPERTIES
  SuppressedStaysOut
