\* Two handlers, a fault.
SPECIFICATION FairSpec
CONSTANTS
  daily = daily  weekly = weekly  p1 = p1  p2 = p2  p3 = p3  w1 = w1  h1 = h1  h2 = h2
  Challenges = {daily, weekly}
  Kind <- MCKind
  Criteria <- MCCriteria
  Messages = {p1, p2, p3, w1}
  Content <- MCContent
  Handlers = {h1, h2}
  MaxFaults = 1
INVARIANTS EventsCountOnce RewardedOnce
PROPERTIES CompletedIsFinal NothingOverwritten AllHandled
CHECK_DEADLOCK FALSE
