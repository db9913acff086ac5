SPECIFICATION Spec
CONSTANTS
  Nil = Nil
  Barbers = {b1}
  Dates = {d1}
  Starts = {0}
  Durs = {1}
  MaxCode = 1
  MaxBookings = 2
  Reqs = {r1, r2}
  Crons = {c1}
  Ops = {"hold", "verify", "cancel"}
  AdminStatuses = {}
  LeaseHolds = TRUE
  Serial = FALSE
INVARIANTS SlotExclusive
