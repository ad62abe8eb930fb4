\* One relay run at a time, two faults.
SPECIFICATION ReplenishFairSpec
CONSTANTS
  u1 = u1  u2 = u2  r1 = r1  r2 = r2  r3 = r3  x1 = x1  x2 = x2  h1 = h1  h2 = h2
  Members = {u1, u2}
  Interval = 2
  Rows = {r1, r2, r3}
  Relays = {x1}
  Handlers = {h1, h2}
  Prompt = TRUE
  MaxQueue = 1
  MaxFaults = 2
INVARIANT OncePerWeek
PROPERTIES TopUpComes
