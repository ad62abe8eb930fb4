SPECIFICATION ChatFairSpec
CONSTANTS
  u1 = u1  en = en  ru = ru
  Clients = {u1}
  Rooms = {en, ru}
  FirstRoom = en
  NoRoom = NoRoom
  HistoryLimit = 1
  MaxSteps = 4
INVARIANTS SentWhereShown ShowsTheRoom
PROPERTIES HistoryComes
CHECK_DEADLOCK FALSE
