SPECIFICATION FairSpec
CONSTANTS
  r1 = r1
  r2 = r2
  case1 = case1
  i1 = i1
  i2 = i2
  NoRow = NoRow
  NoRef = NoRef
  Request = {r1}
  Case = {case1}
  ItemRef = {i1, i2}
  CaseOf <- LongCaseOf
  ItemsOf <- LongItemsOf
  BoardDurable = TRUE
  OutboxDurable = TRUE
  MaxCrashes = 1
INVARIANTS
  PackFollowsItsExceptions
  AnswerAccountsForEscalations
PROPERTIES
  ImplementsContract
  EscalationsSettle
