----------------------------- MODULE MCBookings -----------------------------
(***************************************************************************)
(* Instances of Bookings for TLC.                                          *)
(***************************************************************************)
EXTENDS RequestView, TLC

Symmetric == Permutations(Reqs)

Unread == <<rows, nextId, due, lock, Rests, sweep>>
=============================================================================
