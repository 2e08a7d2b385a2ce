SPECIFICATION LiveSpec
CONSTANTS
  None = None
  Mine <- Second
  PageSize = 1
  MaxRows = 2
  MaxChanges = 2
  MaxFaults = 1
PROPERTIES NothingGoesBack ScreenCatchesUp
CHECK_DEADLOCK FALSE
