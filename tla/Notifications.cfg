SPECIFICATION FairSpec
CONSTANTS
  Bookings = {b1}
  Chats = {c1}
  Reqs = {r1}
  Starts = {1, 2}
  Lead = 1
  MaxTime = 2
  MaxEvents = 1
  Base = 10
  Width = 3
  Earlier = {8, 998}
  MaxOthers = 1
  Nil = Nil
INVARIANTS TypeOK NextCodeIsFree ConfirmedIsAnnounced MessagesBounded RemindedOnce RemindedIfInTime
PROPERTIES BroadcastEnds
