SPECIFICATION Spec
CONSTANTS
  Nil = Nil
  Barbers = {b1}
  Dates = {d1}
  Starts = {0}
  Durs = {1}
  MaxCode = 1
  MaxBookings = 1
  Reqs = {r1, r2}
  Crons = {c1}
  Ops = {"hold", "verify", "confirm", "cancel", "move", "update", "guest", "remove", "admin_status", "bulk", "admin_move", "admin_remove", "archive", "crash", "noshow", "hold_ttl"}
  AdminStatuses = {"confirmed"}
  LeaseHolds = FALSE
  Serial = FALSE
SYMMETRY Symmetric
VIEW Unread
INVARIANTS TypeOK
PROPERTIES LockFreedByOwner
