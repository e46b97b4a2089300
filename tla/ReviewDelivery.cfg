SPECIFICATION FairSpec
CONSTANTS
  c1 = c1
  c2 = c2
  Callers <- Threads
  Outcomes <- Escalations
  Surfaces <- ApiAndTool
  Bindings <- EveryBinding
  MaxCalls = 2
  MaxCrashes = 1
INVARIANTS
  RoutedIsHeld
  OneReviewPerOutcome
PROPERTY HandOffReturns
CHECK_DEADLOCK FALSE
