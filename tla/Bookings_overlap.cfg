SPECIFICATION Spec
CONSTANTS
  Nil = Nil
  Barbers = {b1}
  Dates = {d1}
  Starts = {0, 15}
  Durs = {30}
  MaxCode = 1
  MaxBookings = 2
  Reqs = {r1, r2}
  Crons = {c1}
  Ops = {"hold"}
  AdminStatuses = {}
  LeaseHolds = TRUE
  Serial = TRUE
INVARIANTS SlotExclusive
