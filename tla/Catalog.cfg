SPECIFICATION FairSpec
CONSTANTS
  MaxServices = 1
  Durs = {0, 15}
  Combos = {c1}
  Reqs = {r1, r2}
  TTL = 2
  Nil = Nil
  Keep = Keep
INVARIANTS TypeOK FreshUnlessRaced ShownIsBooked
PROPERTIES CachesCatchUp
