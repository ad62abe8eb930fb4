\* Two handlers, two failures, a refresh and a disconnection.
SPECIFICATION FairSpec
CONSTANTS
  h1 = h1  h2 = h2
  MaxChanges = 2
  Handlers = {h1, h2}
  MaxRefreshes = 1
  MaxDrops = 1
  MaxFaults = 2
INVARIANTS EveryChangeAudited SnapshotNotOlder PageIsCurrent
PROPERTY ChangeShows
CHECK_DEADLOCK FALSE
