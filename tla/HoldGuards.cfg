SPECIFICATION FairSpec
CONSTANTS
  Phones = {f1}
  Ips = {i1}
  Reqs = {r1, r2}
  DAILY_MAX = 1
  DAY = 1
  WEEKLY_MAX = 2
  WEEK = 2
  Blocks = {1}
  MaxCount = 4
INVARIANTS TypeOK RateBounded BlockedGetsNoHold
PROPERTIES LimitEnds
