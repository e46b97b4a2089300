SPECIFICATION Spec
CONSTANTS
  Absent = Absent
  Malformed = Malformed
  Word = Word
  Refused = Refused
  None = None
  LastDay = 22
  Dates <- MCDates
  Requests <- MCRequests
  Blocks <- MCBlocks
INVARIANTS
  BufferKept
  BreachIsCritical
  OnlyARecordExtends
  ClockNamesItsCalendar
PROPERTY NeverEases
