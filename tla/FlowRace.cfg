SPECIFICATION Spec
CONSTANTS
  r1 = r1
  r2 = r2
  case1 = case1
  i1 = i1
  i2 = i2
  NoRow = NoRow
  NoRef = NoRef
  Request = {r1, r2}
  Case = {case1}
  ItemRef = {i1}
  CaseOf <- RaceCaseOf
  ItemsOf <- RaceItemsOf
  BoardDurable = TRUE
  OutboxDurable = FALSE
  MaxCrashes = 1
INVARIANTS
  AuditPrecedesEffects
  RowIsOneAssessment
  RowShowsRouting
SYMMETRY RaceSymmetry
