SPECIFICATION Spec
CONSTANTS
  Doc <- MCDoc
  ItemRef <- MCItemRef
  Citable <- MCCitable
  Figures <- MCFigures
  Written <- MCWritten
  Key <- MCKey
  KnownKey <- MCKnownKey
  Value <- MCValue
  Fold <- MCFold
  Prior <- MCPrior
  MaxAccepted = 2
  MaxItems = 2
  MaxCited = 2
INVARIANTS
  CitationsResolve
  GroundedFlagIsTrue
  SameEvidenceSameAnnex
  ContradictionRaised
