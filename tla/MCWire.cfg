SPECIFICATION WireSpec
CONSTANTS
  Base = 10
  CompactAt = 20
  MaxRecords = 3
  MaxBytes = 40
  Values = {"low", "high", "wide", "negative"}
  Records <- MCRecords
INVARIANTS ParsedAsWritten NothingHeldBack MessagesSurvive
CHECK_DEADLOCK FALSE
