------------------------------- MODULE MCSaves -------------------------------
(***************************************************************************)
(* Instances of SaveHistory for TLC.                                       *)
(***************************************************************************)
EXTENDS SaveHistory, RequestView, TLC

Symmetric == Permutations(Reqs)

Unread == <<rows, nextId, due, lock, Rests, sweep, late, mixed>>
=============================================================================
