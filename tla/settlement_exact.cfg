\* No fault but a lock that expires early, and cron runs that do not overlap; an
\* event may be ended again once its bets are settled.
SPECIFICATION FairSpec
CONSTANTS
  u1 = u1  u2 = u2  e1 = e1  e2 = e2  b1 = b1  b2 = b2  b3 = b3
  Users = {u1, u2}
  Events = {e1, e2}
  Bets = {b1, b2, b3}
  Rows <- MCRows
  RowEvent <- MCRowEvent
  BetUser <- MCBetUser
  BetEvent <- OnTwoEvents
  Selection <- MCSelection
  Amount <- MCAmount
  Odds <- MCOdds
  OddsUnit = 100
  Short = {b1}
  Late = {}
  Relays = {r1}
  BatchSize = 1
  Resolvers = {w1, w2}
  Updaters = {h1, h2}
  Faults = {"expiry"}
  MaxFaults = 1
INVARIANT BooksAgree
PROPERTY ImplementsLedger
CHECK_DEADLOCK FALSE
