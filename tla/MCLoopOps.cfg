SPECIFICATION Spec
CONSTANTS
  a = a
  b = b
  l1 = l1
  l2 = l2
  x1 = x1
  x2 = x2
  Procs = {a, b}
  Labels = {l1, l2}
  Approvals = {x1, x2}
  None = None
  Reserve = 1
  Budget = 1
  MaxFee = 0
  Window = 0
  MaxTime = 0
SYMMETRY MCSymmetry
INVARIANTS
  TypeOK
  OneSwapPerApproval
PROPERTIES
  ImplementsSingleFlight
  DisarmWins
