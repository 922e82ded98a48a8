SPECIFICATION Spec
CONSTANTS
  Names <- MCNames
  Keys <- MCKeys
  Values <- MCValues
  MAX_PROCESSES = 3
  MaxLines = 5
INVARIANTS
  TypeOK
  ParserAgrees
  BlanksDivide
  BlanksFillSlots
CHECK_DEADLOCK FALSE
