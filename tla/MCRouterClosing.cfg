SPECIFICATION LiveSpec
CONSTANTS
  a = a
  b = b
  c1 = c1
  c2 = c2
  Procs = {a, b}
  Points = {c1, c2}
  Busy = {c1}
  MaxMoves = 1
INVARIANTS
  TypeOK
  CloseAskedOnce
  ClosedHasEvidence
PROPERTIES
  RecordsAdvance
  CloseIsRecorded
