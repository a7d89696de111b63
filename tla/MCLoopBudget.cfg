SPECIFICATION Spec
CONSTANTS
  a = a
  b = b
  l1 = l1
  l2 = l2
  x1 = x1
  x2 = x2
  Procs = {a}
  Labels = {l1, l2}
  Approvals = {}
  None = None
  Reserve = 2
  Budget = 3
  MaxFee = 3
  Window = 0
  MaxTime = 2
PROPERTIES
  BudgetAdmits
