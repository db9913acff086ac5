SPECIFICATION Spec
CONSTANTS
  Phones = {f1}
  Ips = {i1}
  Reqs = {r1, r2}
  DAILY_MAX = 2
  DAY = 1
  WEEKLY_MAX = 2
  WEEK = 2
  Blocks = {}
  MaxCount = 4
INVARIANTS RefusedOnlyAtLimit
