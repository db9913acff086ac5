---------------------------- MODULE BookingHistory ----------------------------
(***************************************************************************)
(* Bookings with a record of how each booking came to its place.  Nothing  *)
(* is assumed of the environment here: requests on one booking overlap,    *)
(* leases run out inside critical sections, administrators set any status. *)
(* Then bookings do share slots, and the record says by whose doing.       *)
(* The variable strays only looks on: Record is never what stops a step of *)
(* Bookings, and no action of Bookings reads it.                           *)
(***************************************************************************)
EXTENDS Bookings

VARIABLE strays     \* bookings that are where they are by no save under the lock

historyVars == <<rows, nextId, due, lock, holdKey, req, sweep, announced, strays>>

Occupies(i) == rows[i] # Nil /\ rows[i].status \in Occupying

\* the part of a barber's day that row r takes
PlaceOf(r) == <<SlotOf(r), r.end>>

\* booking i takes the place r has
IsAt(i, r) == Occupies(i) /\ PlaceOf(rows[i]) = PlaceOf(r)

\* in this step booking i comes to a place where it was not
ComesTo(i) == Occupies(i)' /\ ~IsAt(i, rows'[i])
-----------------------------------------------------------------------------
(* The ways around the lock *)

\* PATCH /bookings/:id and the admin's reschedule do not take it
EditedBy(p, i) == req[p].id = i /\ (UpdateSave(p) \/ AdminMoveUpdate(p))

\* what was loaded is written back to a row that has left that place since
OvertakenBy(p, i) ==
  /\ req[p].id = i
  /\ VerifySave(p) \/ ConfirmSave(p) \/ CancelSave(p)
  /\ ~IsAt(i, req[p].snap)

\* a reschedule's UPDATE leaves a column to another write: the booking comes to
\* a place that neither of them checked
MixedBy(p, i) ==
  /\ req[p].id = i
  /\ MoveSave(p)
  /\ PlaceOf(rows'[i]) # PlaceOf(Moved(req[p].snap, req[p].key))

\* the key ran out, or passed to another request, before the save
TooLateBy(p, i) ==
  /\ \/ HoldSave(p) /\ nextId = i
     \/ MoveSave(p) /\ req[p].id = i
  /\ lock[req[p].key] # p

\* an administrator sets a status that occupies the slot
RevivedByHand(i) ==
  \/ \E st \in AdminStatuses : AdminUpdateStatus(i, st)
  \/ \E S \in SUBSET Ids, st \in {"confirmed", "cancelled"} \cap AdminStatuses :
       i \in S /\ BulkUpdateStatus(S, st)

Astray(i) ==
  \/ \E p \in Reqs : \/ EditedBy(p, i) \/ TooLateBy(p, i)
                     \/ OvertakenBy(p, i) \/ MixedBy(p, i)
  \/ GuestUpdate(i)
  \/ RevivedByHand(i)

\* the record: who comes to a place is a stray or is not, until it moves on
Record ==
  strays' = {i \in Ids : IF ComesTo(i) THEN Astray(i)
                                       ELSE i \in strays /\ Occupies(i)'}

HistoryInit == Init /\ strays = {}

HistoryNext == Next /\ Record

HistorySpec == HistoryInit /\ [][HistoryNext]_historyVars
-----------------------------------------------------------------------------
\* bookings i and j take the same time of the same barber
Share(i, j) ==
  /\ Occupies(i) /\ j \in Occupants(rows[i].barber, rows[i].date)
  /\ Overlaps(rows[i].start, rows[i].end, rows[j].start, rows[j].end)

\* However the steps of the handlers, the crashes and the TTLs interleave, two
\* bookings share a time only when one of them came there around the lock, or
\* when they start at different times, under different lock keys
\* (redis-lock.service.ts:15, slotLockKey)
SharingExplained ==
  \A i, j \in Ids : i # j /\ Share(i, j)
                    => \/ i \in strays \/ j \in strays
                       \/ rows[i].start # rows[j].start

\* The same where durations fit the grid of start times: then one of the two
\* is a stray
SharedHasStray ==
  \A i, j \in Ids : i # j /\ Share(i, j) => i \in strays \/ j \in strays

\* Where the lease holds and the operations without a lock are left out, a
\* booking goes astray only by a save of a row that changed under it
OnlyOvertaken ==
  [][\A i \in strays' \ strays :
       \E p \in Reqs : OvertakenBy(p, i) \/ MixedBy(p, i)]_historyVars

\* the slots of the bookings that are no strays
ProperSlot ==
  [i \in Ids |-> IF Occupies(i) /\ i \notin strays THEN SlotOf(rows[i]) ELSE Nil]

ProperLedger == INSTANCE SlotLedger
                  WITH Cells <- Slots, Holders <- Ids, held <- ProperSlot

\* But for the strays, the table keeps the promise of SlotLedger whatever else
\* runs: a booking comes to a slot under its lock only when nobody else has it
\* who came so
ImplementsProperLedger == ProperLedger!Spec
=============================================================================
