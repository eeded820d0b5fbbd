SPECIFICATION AllSpec
CONSTANTS
  A = A
  B = B
  p1 = p1
  p2 = p2
  Symbols <- OneSymbol
  Procs <- TwoTasks
  Lot = 2
  Visited <- TradeOrFlatten
  Envs <- LossyOnly
  ShortNames <- TwoSymbols
  NSlots = 1
  Before <- TwoBefore
  After <- OneAfter
  ShortLot = 2
  ShortDays = 2
  MaxLive = 2
  ShortEnvs <- ShortSurroundings
  Legs <- TwoSymbols
  Weight <- EqualWeights
  Band = 0
  SleeveLot = 1
  Size = 1
  Prices <- OneOrFour
  Moving <- OneSymbol
  Cash = 3
  SleeveNeed = 1
  MaxStale = 1
  PeriodOf <- EveryDay
  SleeveDays = 2
  SleeveEnvs <- SleeveSurroundings
  IntradayNames <- TwoSymbols
  NHold = 2
  Times = 3
  SlotTimes <- TwoSlots
  CloseTime = 3
  Need = 1
  WarmNames = 1
  Deployed = 4
  IntradayDays = 2
  IntradayEnvs <- IntradaySurroundings
  Names <- FiveNames
  Panels <- SomePanels
  Overlays <- TwoOverlays
  Correlations <- ThreeCorrelations
  Quiets <- OneQuiet
  RuleHold = 3
  Buffer = 1
  OverlayWeight = 1
  ClusterFloor <- OneFloor
  InverseVol <- FiveVols
  CapOver = 3
  CapUnder = 8
CHECK_DEADLOCK FALSE
INVARIANT
  DecisionFirst
