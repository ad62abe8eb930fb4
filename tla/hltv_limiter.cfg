SPECIFICATION LimiterFairSpec
CONSTANTS
  mapping = mapping  odds = odds
  Callers = {mapping, odds}
  Proxies = 2
  RateLimit = 2
  RateWindow = 3
  Margin = 1
  Threshold = 2
  Cooldown = 3
  BadCooldown = 2
  MaxRetries = 2
INVARIANT RateLimited
PROPERTIES BreakerHolds EveryRequestAnswered
