\* Expected to fail: the check may precede the change of address.
CONSTANTS
  MaxAge = 2
  MaxClock = 4
  MaxChanges = 2
  None = None
SPECIFICATION AddressSpec
INVARIANT CheckFollowsChange
CHECK_DEADLOCK FALSE
