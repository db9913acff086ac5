SPECIFICATION FairHistorySpec
CONSTANTS
  Emails = {e1}
  Ips = {i1}
  Reqs = {r1, r2}
  EMAIL_MAX_FAILS = 2
  EMAIL_WINDOW = 2
  EMAIL_LOCK = 2
  IP_MAX_FAILS = 3
  IP_WINDOW = 2
  IP_LOCK = 4
  ACCESS_TTL = 1
  BLACKLIST_TTL = 1
  MaxFails = 3
INVARIANTS TypeOK LocksOutlastCounters LoggedOutRefused SessionsEarned
PROPERTIES LockoutEnds
