SPECIFICATION Spec
CONSTANTS
  A = A
  B = B
  C = C
  D = D
  p1 = p1
  p2 = p2
  Procs <- TwoTasks
  Symbols <- OneSymbol
  Slots <- OneSlot
  Attempts <- Once
  MaxSubmitAttempts = 2
  BookSize = 2
  MaxPositions = 3
  Unattributed <- Nobody
  HeldLongEnough = FALSE
  Lot = 1
  Visited <- TradeHaltOrFlatten
  Blacklistable <- Nobody
  MaxRows = 2
  DenialIsJournalled = FALSE
  MayLoseRows = FALSE
INVARIANTS
  BuysWereDecided
  EntriesConfirmed
