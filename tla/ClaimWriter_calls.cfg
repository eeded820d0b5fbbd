SPECIFICATION LiveSpec
CONSTANTS
  p1 = p1
  p2 = p2
  None = None
  Loops <- MCLoops
  Writes = {1, 2}
  Quantities <- MCQuantities
  Ages <- MCAges
  Asks <- MCKinds
CHECK_DEADLOCK FALSE
INVARIANTS
  NeverOvertaken
  ReadIsCurrent
  AnswersAreTrue
PROPERTIES
  EveryCallIsAnswered
  RegisterSpec
