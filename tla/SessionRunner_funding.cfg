SPECIFICATION Spec
CONSTANTS
  A = A
  B = B
  C = C
  D = D
  p1 = p1
  p2 = p2
  Procs <- OneTask
  Symbols <- TwoSymbols
  Slots <- OneSlot
  Attempts <- Twice
  MaxSubmitAttempts = 2
  BookSize = 2
  MaxPositions = 3
  Unattributed <- OnlyA
  HeldLongEnough = FALSE
  Lot = 1
  Visited <- TradeOnly
  Blacklistable <- Nobody
  MaxRows = 2
  DenialIsJournalled = FALSE
  MayLoseRows = FALSE
INVARIANTS
  EntriesFunded
