SPECIFICATION HistorySpec
CONSTANTS
  Nil = Nil
  Barbers = {b1}
  Dates = {d1}
  Starts = {0, 1}
  Durs = {2}
  MaxCode = 1
  MaxBookings = 2
  Reqs = {r1, r2}
  Crons = {c1}
  Ops = {"hold", "verify", "confirm", "move", "admin_move"}
  AdminStatuses = {}
  LeaseHolds = FALSE
  Serial = FALSE
SYMMETRY Symmetric
VIEW Unread
INVARIANTS EndFollowsStart OffersExplained HiddenExplained SharingExplained
PROPERTIES ImplementsProperLedger
