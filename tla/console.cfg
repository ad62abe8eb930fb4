SPECIFICATION Spec
CONSTANTS
  t1 = t1  t2 = t2  u1 = u1  u2 = u2  f1 = f1  f2 = f2
  None = None
  Tabs = {t1, t2}
  Users = {u1, u2}
  Admins = {u1}
  Tables <- MCTables
  Filters = {f1, f2}
  NoFilter = f1
  LastPage = 2
  WeeklyLimit = 1
  MaxSteps = 4
INVARIANTS ActsAsShown TableIsChosen FeedbackLimit
PROPERTIES StaysSignedIn
CHECK_DEADLOCK FALSE
