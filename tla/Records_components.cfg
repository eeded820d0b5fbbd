SPECIFICATION AllSpec
CONSTANTS
  A = A
  B = B
  C = C
  r1 = r1
  r2 = r2
  d = d
  o1 = o1
  o2 = o2
  Symbols <- ThreeSymbols
  Refreshers <- OneRefresher
  Removers <- OneRemover
  ShrinkPct = 50
  Refusals <- OneOrBoth
  MaxHeldSessions = 2
  MaxSession = 5
  MaxRows = 2
  Operators <- TwoOperators
  Runs <- TwoRuns
  Prices <- ThreePrices
  Atr = 2
  Rules <- SeveralRules
  MaxSlots = 4
  Unpriced = TRUE
  Dies = TRUE
  Stops = TRUE
  EmptyReads = FALSE
  Names <- TwoSymbols
  Parts = 2
  Levels <- OneMoves
  Window = 2
  Dwell = 1
  Action = "liquidate"
  Need = 1
  Slack = 0
  MinWindows = 2
  MaxSessions = 4
  Bridged = TRUE
CHECK_DEADLOCK FALSE
INVARIANTS
  WholeSet
  HeldOnTime
  ExcludeHolds
  TrailIsEarned
  MarketIsKnown
PROPERTY
  ShrinkIsDeliberate
