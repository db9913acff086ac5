SPECIFICATION FairSaveSpec
CONSTANTS
  Nil = Nil
  Barbers = {b1}
  Dates = {d1}
  Starts = {0}
  Durs = {1}
  MaxCode = 1
  MaxBookings = 1
  Reqs = {r1, r2}
  Crons = {c1}
  Ops = {"hold", "verify", "confirm", "cancel", "move", "remove", "expire", "deadline", "noshow"}
  AdminStatuses = {}
  LeaseHolds = TRUE
  Serial = FALSE
VIEW Unread
INVARIANTS DeadlineExplained PhoneExplained
PROPERTIES HoldsEnd LocksFree
