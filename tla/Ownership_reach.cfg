SPECIFICATION Spec
CONSTANTS
  MOM = MOM
  BCT = BCT
  Lanes <- TwoLanes
  MaxQty = 2
  MaxPending = 2
  Restarts = TRUE
  Stops = TRUE
  Refusals = TRUE
  Stalls = TRUE
SYMMETRY Interchangeable
PROPERTIES
  OwnSharesOnly
  ClaimKeptWhileAttributed
