\* A fault of any kind but an early expiry of a lock (an event ended again while its
\* bets are being settled is one of them), and overlapping cron runs.
SPECIFICATION FairSpec
CONSTANTS
  u1 = u1  u2 = u2  e1 = e1  e2 = e2  b1 = b1  b2 = b2  b3 = b3
  Users = {u1}
  Events = {e1}
  Bets = {b1, b2}
  Rows <- MCRows
  RowEvent <- MCRowEvent
  BetUser <- MCBetUser
  BetEvent <- OnOneEvent
  Selection <- MCSelection
  Amount <- MCAmount
  Odds <- MCOdds
  OddsUnit = 100
  Short = {b1}
  Late = {b1}
  Relays = {r1, r2}
  BatchSize = 1
  Resolvers = {w1}
  Updaters = {h1, h2}
  Faults = {"crash", "publish", "database", "again", "overlap"}
  MaxFaults = 1
INVARIANTS SettledByResult NeverStranded OneHandlerPerUser
PROPERTY EveryBetSettles
CHECK_DEADLOCK FALSE
