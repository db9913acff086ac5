SPECIFICATION Spec
CONSTANTS
  Nil = Nil
  Barbers = {b1}
  Dates = {d1}
  Starts = {0, 1}
  Durs = {1}
  MaxCode = 2
  MaxBookings = 2
  Reqs = {r1, r2}
  Crons = {c1}
  Ops = {"hold", "verify", "confirm", "cancel", "move", "cron_fails", "expire", "deadline", "remove", "admin_status"}
  AdminStatuses = {"cancelled"}
  LeaseHolds = TRUE
  Serial = TRUE
SYMMETRY Symmetric
VIEW Unread
INVARIANTS SlotExclusive
PROPERTIES ImplementsLedger CodeIsFinal ConfirmedNeverExpires
