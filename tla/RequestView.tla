----------------------------- MODULE RequestView -----------------------------
(***************************************************************************)
(* For TLC's VIEW: what the future of a state of Bookings depends on.  No  *)
(* guard and no other variable reads holdKey or announced, and of a        *)
(* request only what its next steps still use counts.  Leaving the rest    *)
(* out of the fingerprint merges only states with the same future.         *)
(***************************************************************************)
EXTENDS Bookings

\* the row request r is about to save
NewOf(r) ==
  CASE r.at = "verify_write"  -> Verified(r.snap)
    [] r.at = "confirm_write" -> Confirmed(r.snap)
    [] r.at = "cancel_write"  -> Cancelled(r.snap)
    [] r.at = "move_write"    -> Moved(r.snap, r.key)
    [] r.at = "update_write"  -> Edited(r.snap, r.key)

\* the columns its UPDATE writes, with their values, and the new otpAt
PatchOf(r) ==
  LET new == NewOf(r)
      Differs(c) == new[c] # r.seen[c]
  IN IF r.seen = Nil THEN new
     ELSE <<{<<c, new[c]>> : c \in {d \in DOMAIN new : Differs(d)}}, new.otpAt>>

\* a save also keeps the place the row had when it was loaded: strays asks
Rest(r) ==
  CASE r.at \in Writes ->
         <<r.at, r.id, r.key, SlotOf(r.snap), r.snap.end, PatchOf(r)>>
    [] r.at \in {"hold_mark", "confirm_emit", "cancel_free", "move_mark",
                 "admin_update", "admin_delete"} -> <<r.at, r.id, r.key>>
    [] OTHER -> r

Rests == [p \in Reqs |-> Rest(req[p])]
=============================================================================
