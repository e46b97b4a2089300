SPECIFICATION Spec
CONSTANTS
  empty = empty
  masked = masked
  hostile = hostile
  MaxCalls = 3
  Text <- MCText
  Clean <- MCClean
INVARIANTS
  OnlyScreenedText
  RefusalsAudited
PROPERTY ImplementsModelText
