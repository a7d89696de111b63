SPECIFICATION GatewaySpec
CONSTANTS
  c1 = c1
  c2 = c2
  c3 = c3
  Calls = {c1, c2, c3}
  Cooldown = 2
  MaxTime = 7
SYMMETRY MCSymmetry
CHECK_DEADLOCK FALSE
INVARIANTS
  CooldownHolds
