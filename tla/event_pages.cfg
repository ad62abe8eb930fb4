SPECIFICATION PagesSpec
CONSTANTS
  e1 = e1  e2 = e2  None = None
  Events = {e1, e2}
  Changing = {e1}
  MaxSteps = 5
INVARIANTS SaveIsSeen PageIsCurrent
CHECK_DEADLOCK FALSE
