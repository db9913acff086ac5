------------------------------ MODULE MCHistory ------------------------------
(***************************************************************************)
(* An instance of BookingHistory for TLC.                                  *)
(***************************************************************************)
EXTENDS Availability, BookingHistory, RequestView, TLC

Symmetric == Permutations(Reqs)

\* sweep does not change where the cron is not among Ops
Unread == <<rows, nextId, due, lock, Rests, strays>>
=============================================================================
