\* Three concurrent requests that the balance does not cover, a credit, two edits.
SPECIFICATION Spec
CONSTANTS
  u1 = u1  e1 = e1  q1 = q1  q2 = q2  q3 = q3  credit = credit  debit = debit
  Users = {u1}
  Events = {e1}
  Requests = {q1, q2, q3}
  ReqUser <- MCReqUser
  ReqEvent <- MCReqEvent
  ReqSelection <- MCReqSelection
  ReqAmount <- MCReqAmount
  Adjustments = {credit}
  AdjUser <- MCAdjUser
  AdjAmount <- MCAdjAmount
  InitBalance <- Poor
  InitEvent <- UpcomingCs2
  OddsValues = {0, 190, 210}
  MaxBets = {50, 80}
  MaxEdits = 2
INVARIANTS PricedWhileOpen BalanceNonNegative StakesAccounted
PROPERTY LimitHoldsUndisturbed
CHECK_DEADLOCK FALSE
