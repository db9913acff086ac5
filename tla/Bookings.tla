------------------------------- MODULE Bookings -------------------------------
(***************************************************************************)
(* Everything that writes the table `bookings`: BookingsService, the       *)
(* guest's update of BookingLookupService, AdminBookingsService and the    *)
(* cleanup cron, with the Redis lock and hold keys of RedisLockService.    *)
(*                                                                         *)
(* One Node process serves the requests, so handlers interleave at their   *)
(* awaits: a handler is a chain of steps, each ending at the next awaited  *)
(* call whose outcome other handlers can change or observe.  Postgres and  *)
(* Redis outlive the process.  TypeORM, as the code relies on it:          *)
(*   - save(entity) of a loaded booking is two calls: a SELECT of the row, *)
(*     then an UPDATE of the columns whose loaded or new value differs     *)
(*     from what that SELECT saw, or an INSERT when it saw no row.  Other  *)
(*     handlers run between the read and the SELECT, and between the two;  *)
(*   - save of a new booking is one INSERT;                                *)
(*   - update(id, patch) and the query builder write only the patched      *)
(*     columns, of the rows that exist;                                    *)
(*   - addLog fails when its booking is gone (foreign key), else changes   *)
(*     nothing modelled here.                                              *)
(***************************************************************************)
EXTENDS BookingEntity

CONSTANTS MaxBookings,    \* bound on the bookings ever created
          Reqs,           \* requests that can be in flight together
          Crons,          \* runs of expireStaleBookings that can overlap
          Ops,            \* the operations the environment asks for
          AdminStatuses,  \* the statuses an administrator may set
          LeaseHolds,     \* LOCK_TTL_MS outlasts every critical section
          Serial          \* requests on one booking come one after another,
                          \* and none of them straddles its hold deadline

Ids == 1..MaxBookings

ASSUME BoundAssumption == MaxBookings \in Nat

ASSUME NilAssumption == Nil \notin Reqs \cup Ids \cup Slots \cup Row

ASSUME SwitchAssumption ==
  /\ AdminStatuses \subseteq Status
  /\ LeaseHolds \in BOOLEAN
  /\ Serial \in BOOLEAN

VARIABLES rows,       \* table bookings
          nextId,     \* its serial: ids are never used twice
          due,        \* bookings whose 10 minutes (HOLD_TTL_SEC) are over
          lock,       \* Redis lock:... keys and who owns them
          holdKey,    \* Redis booking:hold:... keys and the booking they name
          req,        \* the requests in flight
          sweep,      \* the runs of expireStaleBookings in flight
          announced   \* bookings a booking.confirmed event was emitted for

vars == <<rows, nextId, due, lock, holdKey, req, sweep, announced>>
-----------------------------------------------------------------------------
\* where a request is: the awaited call it makes next
InSection == {"hold_check", "hold_save", "hold_mark",
              "move_check", "move_save", "move_write", "move_mark", "unlock"}

Points == InSection \cup
          {"idle", "verify_save", "verify_write", "confirm_code",
           "confirm_save", "confirm_write", "confirm_emit", "cancel_save",
           "cancel_write", "cancel_free", "move_lock", "update_save",
           "update_write", "admin_check", "admin_update", "admin_delete"}

\* the SELECT of a save has returned, its write is next
Writes == {"verify_write", "confirm_write", "cancel_write", "move_write",
           "update_write"}

\* snap is the entity a handler holds, seen what the SELECT of its save found
Request == [at : Points, id : Ids \cup {Nil}, snap : Row \cup {Nil},
            seen : Row \cup {Nil}, key : Slots \cup {Nil}]

Sweep == [at : {"idle", "update", "free"}, ids : SUBSET Ids,
          keys : SUBSET Slots]

Idle == [at |-> "idle", id |-> Nil, snap |-> Nil, seen |-> Nil, key |-> Nil]

NoSweep == [at |-> "idle", ids |-> {}, keys |-> {}]

Init ==
  /\ rows = [i \in Ids |-> Nil]
  /\ nextId = 1
  /\ due = {}
  /\ lock = [k \in Slots |-> Nil]
  /\ holdKey = [k \in Slots |-> Nil]
  /\ req = [p \in Reqs |-> Idle]
  /\ sweep = [c \in Crons |-> NoSweep]
  /\ announced = {}
-----------------------------------------------------------------------------
Live == {i \in Ids : rows[i] # Nil}

\* the bookings that take part of barber b's day d
Occupants(b, d) ==
  {i \in Live : rows[i].status \in Occupying /\ rows[i].barber = b
                                             /\ rows[i].date = d}

\* isSlotAvailable: [start, start + dur) of slot k meets none of the bookings S
FreeOf(S, k, dur) ==
  \A i \in S : ~Overlaps(k[3], k[3] + dur, rows[i].start, rows[i].end)

\* (mutant of IsSlotAvailable: CONFIRMED only, as getAvailableSlots asks)
IsSlotAvailableToConfirmed(k, dur) ==
  FreeOf({i \in Occupants(k[1], k[2]) : rows[i].status = "confirmed"}, k, dur)

\* (mutant of IsSlotAvailable: OTP_VERIFIED does not occupy its slot)
IsSlotAvailableToVerified(k, dur) ==
  FreeOf({i \in Occupants(k[1], k[2]) : rows[i].status # "otp_verified"}, k, dur)

IsSlotAvailable(k, dur) == FreeOf(Occupants(k[1], k[2]), k, dur)

\* (mutant of AssertTransition: every transition is let through)
AssertNoTransition(r, to) == TRUE

AssertTransition(r, to) == to \in ValidTransitions[r.status]

\* (mutant of AssertNotExpired: the deadline is not checked)
AssertNothingOnExpiry(i) == TRUE

AssertNotExpired(i) == rows[i].hold => i \notin due

\* the unique index on bookingCode
CodeIsFree(i, c) == c = 0 \/ \A j \in Live \ {i} : rows[j].code # c

\* generateBookingCode: c is one more than the last code (of one month), or
\* the first code
IsNextCode(c) ==
  /\ \A i \in Live : rows[i].code < c
  /\ c = 1 \/ \E i \in Live : rows[i].code = c - 1

WithStatus(S, st) ==
  [i \in Ids |-> IF i \in S \cap Live THEN [rows[i] EXCEPT !.status = st]
                                      ELSE rows[i]]

Without(S) == [i \in Ids |-> IF i \in S THEN Nil ELSE rows[i]]

Quiet(i) == \A p \in Reqs : req[p].id # i

\* the environment sends an operation op about booking i
Asked(op, i) == op \in Ops /\ i \in Live /\ (Serial => Quiet(i))
-----------------------------------------------------------------------------
\* moves of a request
Become(p, r) == req' = [req EXCEPT ![p] = r]

GoTo(p, point) == Become(p, [req[p] EXCEPT !.at = point, !.seen = Nil])

Respond(p) == Become(p, Idle)

\* the finally of withLock
LeaveSection(p) == Become(p, [Idle EXCEPT !.at = "unlock", !.key = req[p].key])

Start(p, point, i, key) ==
  /\ req[p].at = "idle"
  /\ Become(p, [at |-> point, id |-> i, snap |-> rows[i], seen |-> Nil,
                key |-> key])

OnlyReq == UNCHANGED <<rows, nextId, due, lock, holdKey, sweep, announced>>

OnlyRows == UNCHANGED <<nextId, due, lock, holdKey, req, sweep, announced>>

RowsAndReq == UNCHANGED <<nextId, due, lock, holdKey, sweep, announced>>

KeysAndReq == UNCHANGED <<rows, nextId, due, lock, sweep, announced>>

LocksAndReq == UNCHANGED <<rows, nextId, due, holdKey, sweep, announced>>
-----------------------------------------------------------------------------
(* repository.save of a booking that was loaded *)

\* its SELECT
SelectAt(p, point, next) ==
  /\ req[p].at = point
  /\ Become(p, [req[p] EXCEPT !.at = next, !.seen = rows[req[p].id]])

Select(p) ==
  /\ \/ SelectAt(p, "verify_save", "verify_write")
     \/ SelectAt(p, "confirm_save", "confirm_write")
     \/ SelectAt(p, "cancel_save", "cancel_write")
     \/ SelectAt(p, "move_save", "move_write")
     \/ SelectAt(p, "update_save", "update_write")
  /\ OnlyReq

\* the SELECT saw no row: INSERT under the id the entity has
Insert(p, r) ==
  /\ req[p].seen = Nil
  /\ rows[req[p].id] = Nil
  /\ CodeIsFree(req[p].id, r.code)
  /\ rows' = [rows EXCEPT ![req[p].id] = r]

\* the SELECT saw one: UPDATE of what differs, of no row when it is gone by now
Update(p, r) ==
  /\ req[p].seen # Nil
  /\ LET i == req[p].id IN
     IF rows[i] = Nil THEN rows' = rows
     ELSE \E otp \in OtpColumn(rows[i].otpAt, req[p].seen.otpAt, r.otpAt) :
            LET new == Updated(rows[i], req[p].seen, r, otp) IN
            /\ CodeIsFree(i, new.code)
            /\ rows' = [rows EXCEPT ![i] = new]

\* the write; where the unique index or the primary key refuses it, the call
\* rejects, which is Throw
Save(p, r) == Insert(p, r) \/ Update(p, r)
-----------------------------------------------------------------------------
(* RedisLockService *)

\* (mutant of Acquire: SET without NX)
AcquireAlways(p, k) == lock' = [lock EXCEPT ![k] = p]

\* acquire (SET NX PX); a request that finds the key set is answered 409
Acquire(p, k) ==
  /\ lock[k] = Nil
  /\ lock' = [lock EXCEPT ![k] = p]

\* (mutant of Release: DEL without comparing the token)
ReleaseAnyToken(p) ==
  /\ req[p].at = "unlock"
  /\ lock' = [lock EXCEPT ![req[p].key] = Nil]
  /\ Respond(p)
  /\ LocksAndReq

\* release deletes the key only under its own token; the token is p, which
\* takes a key at most once while it is in flight
Release(p) ==
  /\ req[p].at = "unlock"
  /\ lock' = [lock EXCEPT ![req[p].key] = IF @ = p THEN Nil ELSE @]
  /\ Respond(p)
  /\ LocksAndReq

\* (mutant of LockExpires: SET without PX)
LockNeverExpires(k) == FALSE

LockExpires(k) ==
  /\ lock[k] # Nil
  /\ LeaseHolds => ~(req[lock[k]].key = k /\ req[lock[k]].at \in InSection)
  /\ lock' = [lock EXCEPT ![k] = Nil]
  /\ UNCHANGED <<rows, nextId, due, holdKey, req, sweep, announced>>

HoldKeyExpires(k) ==
  /\ "hold_ttl" \in Ops
  /\ holdKey[k] # Nil
  /\ holdKey' = [holdKey EXCEPT ![k] = Nil]
  /\ UNCHANGED <<rows, nextId, due, lock, req, sweep, announced>>
-----------------------------------------------------------------------------
(* POST /bookings/hold *)

HoldLock(p) ==
  /\ "hold" \in Ops
  /\ req[p].at = "idle"
  /\ \E k \in Slots, d \in Durs :
       /\ Acquire(p, k)
       /\ Become(p, [at |-> "hold_check", id |-> Nil, snap |-> NewRow(k, d),
                     seen |-> Nil, key |-> k])
  /\ LocksAndReq

HoldCheck(p) ==
  /\ req[p].at = "hold_check"
  /\ IF IsSlotAvailable(req[p].key, req[p].snap.dur)
     THEN GoTo(p, "hold_save")
     ELSE LeaveSection(p)
  /\ OnlyReq

HoldSave(p) ==
  /\ req[p].at = "hold_save"
  /\ nextId \in Ids
  /\ rows' = [rows EXCEPT ![nextId] = req[p].snap]
  /\ nextId' = nextId + 1
  /\ Become(p, [req[p] EXCEPT !.at = "hold_mark", !.id = nextId])
  /\ UNCHANGED <<due, lock, holdKey, sweep, announced>>

\* addLog, then setSlotHold: no key when the booking is already gone.  Also
\* the end of a reschedule
Mark(p) ==
  /\ req[p].at \in {"hold_mark", "move_mark"}
  /\ holdKey' = IF req[p].id \in Live
                THEN [holdKey EXCEPT ![req[p].key] = req[p].id]
                ELSE holdKey
  /\ LeaveSection(p)
  /\ KeysAndReq
-----------------------------------------------------------------------------
(* POST /bookings/:id/verify-otp; whether the OTP is right is up to the     *)
(* customer, a wrong one ends the request as Throw does                     *)

VerifyRead(p, i) ==
  /\ Asked("verify", i)
  /\ AssertTransition(rows[i], "otp_verified")
  /\ AssertNotExpired(i)
  /\ Start(p, "verify_save", i, Nil)
  /\ OnlyReq

\* the timestamp is a new one: otpVerifiedAt is always among the columns written
VerifySave(p) ==
  /\ req[p].at = "verify_write"
  /\ Save(p, Verified(req[p].snap))
  /\ req[p].id \in Live => rows'[req[p].id].otpAt
  /\ Respond(p)
  /\ RowsAndReq
-----------------------------------------------------------------------------
(* POST /bookings/:id/confirm *)

ConfirmRead(p, i) ==
  /\ Asked("confirm", i)
  /\ AssertTransition(rows[i], "confirmed")
  /\ AssertNotExpired(i)
  /\ Start(p, IF rows[i].code = 0 THEN "confirm_code" ELSE "confirm_save",
           i, Nil)
  /\ OnlyReq

ConfirmCode(p) ==
  /\ req[p].at = "confirm_code"
  /\ \E c \in 1..MaxCode :
       /\ IsNextCode(c)
       /\ Become(p, [req[p] EXCEPT !.at = "confirm_save", !.snap.code = c])
  /\ OnlyReq

ConfirmSave(p) ==
  /\ req[p].at = "confirm_write"
  /\ Save(p, Confirmed(req[p].snap))
  /\ GoTo(p, "confirm_emit")
  /\ RowsAndReq

\* the second findOne must find the row, or the event is never emitted
ConfirmEmit(p) ==
  /\ req[p].at = "confirm_emit"
  /\ announced' = announced \cup ({req[p].id} \cap Live)
  /\ Respond(p)
  /\ UNCHANGED <<rows, nextId, due, lock, holdKey, sweep>>
-----------------------------------------------------------------------------
(* PATCH /bookings/:id/cancel *)

CancelRead(p, i) ==
  /\ Asked("cancel", i)
  /\ AssertTransition(rows[i], "cancelled")
  /\ Start(p, "cancel_save", i, Nil)
  /\ OnlyReq

CancelSave(p) ==
  /\ req[p].at = "cancel_write"
  /\ Save(p, Cancelled(req[p].snap))
  /\ GoTo(p, "cancel_free")
  /\ RowsAndReq

\* addLog, then releaseSlotHold, which deletes the key whatever booking it names
CancelFree(p) ==
  /\ req[p].at = "cancel_free"
  /\ holdKey' = IF req[p].id \in Live
                THEN [holdKey EXCEPT ![SlotOf(req[p].snap)] = Nil]
                ELSE holdKey
  /\ Respond(p)
  /\ KeysAndReq
-----------------------------------------------------------------------------
(* PUT /bookings/:id/reschedule: the lock is the one of the new slot, and   *)
(* neither the hold deadline nor appointmentTime is looked at               *)

MoveRead(p, i) ==
  /\ Asked("move", i)
  /\ rows[i].status \in {"confirmed", "otp_verified"}
  /\ \E d \in Dates, s \in Starts :
       Start(p, "move_lock", i, <<rows[i].barber, d, s>>)
  /\ OnlyReq

\* (mutant of MoveLock: the new slot is not locked)
MoveWithoutLock(p) ==
  /\ req[p].at = "move_lock"
  /\ GoTo(p, "move_check")
  /\ OnlyReq

MoveLock(p) ==
  /\ req[p].at = "move_lock"
  /\ IF lock[req[p].key] = Nil
     THEN Acquire(p, req[p].key) /\ GoTo(p, "move_check")
     ELSE lock' = lock /\ Respond(p)
  /\ LocksAndReq

\* the booking's own row counts as an occupant; the old slot's hold key goes
MoveCheck(p) ==
  /\ req[p].at = "move_check"
  /\ IF IsSlotAvailable(req[p].key, req[p].snap.dur)
     THEN /\ holdKey' = [holdKey EXCEPT ![SlotOf(req[p].snap)] = Nil]
          /\ GoTo(p, "move_save")
     ELSE /\ holdKey' = holdKey
          /\ LeaveSection(p)
  /\ KeysAndReq

MoveSave(p) ==
  /\ req[p].at = "move_write"
  /\ Save(p, Moved(req[p].snap, req[p].key))
  /\ GoTo(p, "move_mark")
  /\ RowsAndReq
-----------------------------------------------------------------------------
(* PATCH /bookings/:id, PATCH /bookings/gateway/update/:id,                 *)
(* DELETE /bookings/:id: none of them looks at the status or at the slots   *)

UpdateRead(p, i) ==
  /\ Asked("update", i)
  /\ \E d \in Dates, s \in Starts :
       Start(p, "update_save", i, <<rows[i].barber, d, s>>)
  /\ OnlyReq

UpdateSave(p) ==
  /\ req[p].at = "update_write"
  /\ Save(p, Edited(req[p].snap, req[p].key))
  /\ Respond(p)
  /\ RowsAndReq

\* the read before the update only checks the guest's token
GuestUpdate(i) ==
  /\ Asked("guest", i)
  /\ \E k \in Slots : rows' = [rows EXCEPT ![i] = GuestEdited(rows[i], k)]
  /\ OnlyRows

Remove(i) ==
  /\ Asked("remove", i)
  /\ rows' = Without({i})
  /\ OnlyRows
-----------------------------------------------------------------------------
(* AdminBookingsService.  Where what was read before the write only feeds   *)
(* the log, the handler is one step                                         *)

AdminUpdateStatus(i, st) ==
  /\ Asked("admin_status", i)
  /\ rows' = WithStatus({i}, st)
  /\ OnlyRows

\* eligible keeps every booking: the second disjunct holds of both statuses
\* the request can ask for
Eligible(S, st) ==
  {i \in S \cap Live : \/ AssertTransition(rows[i], st)
                       \/ st \in {"confirmed", "cancelled"}}

BulkUpdateStatus(S, st) ==
  /\ \A i \in S : Asked("bulk", i)
  /\ rows' = WithStatus(Eligible(S, st), st)
  /\ OnlyRows

AdminMoveRead(p, i) ==
  /\ Asked("admin_move", i)
  /\ rows[i].status \notin Closed
  /\ \E d \in Dates, s \in Starts :
       Start(p, "admin_check", i, <<rows[i].barber, d, s>>)
  /\ OnlyReq

AdminMoveCheck(p) ==
  /\ req[p].at = "admin_check"
  /\ IF FreeOf(Occupants(req[p].key[1], req[p].key[2]) \ {req[p].id},
               req[p].key, req[p].snap.dur)
     THEN GoTo(p, "admin_update")
     ELSE Respond(p)
  /\ OnlyReq

AdminMoveUpdate(p) ==
  /\ req[p].at = "admin_update"
  /\ rows' = [i \in Ids |-> IF i = req[p].id /\ i \in Live
                            THEN Moved(rows[i], req[p].key) ELSE rows[i]]
  /\ Respond(p)
  /\ RowsAndReq

AdminRemoveRead(p, i) ==
  /\ Asked("admin_remove", i)
  /\ rows[i].status \notin {"confirmed", "inprogress"}
  /\ Start(p, "admin_delete", i, Nil)
  /\ OnlyReq

AdminRemoveDelete(p) ==
  /\ req[p].at = "admin_delete"
  /\ rows' = Without({req[p].id})
  /\ Respond(p)
  /\ RowsAndReq
-----------------------------------------------------------------------------
(* BookingCleanupCron *)

\* (mutant of Stale: only PENDING is looked for, as README.md:160 has it)
StalePending == {i \in Live \cap due : rows[i].status = "pending" /\ rows[i].hold}

Stale == {i \in Live \cap due : rows[i].status \in Held /\ rows[i].hold}

ExpireFind(c) ==
  /\ "expire" \in Ops
  /\ sweep[c].at = "idle"
  /\ Stale # {}
  /\ sweep' = [sweep EXCEPT ![c] =
                 [at |-> "update", ids |-> Stale,
                  keys |-> {SlotOf(rows[i]) : i \in Stale}]]
  /\ UNCHANGED <<rows, nextId, due, lock, holdKey, req, announced>>

\* UPDATE ... whereInIds: the status is not looked at again
ExpireUpdate(c) ==
  /\ sweep[c].at = "update"
  /\ rows' = WithStatus(sweep[c].ids, "expired")
  /\ sweep' = [sweep EXCEPT ![c].at = "free"]
  /\ UNCHANGED <<nextId, due, lock, holdKey, req, announced>>

\* Promise.allSettled over the slots the rows had when they were read
ExpireFree(c) ==
  /\ sweep[c].at = "free"
  /\ holdKey' = [k \in Slots |-> IF k \in sweep[c].keys THEN Nil
                                                       ELSE holdKey[k]]
  /\ sweep' = [sweep EXCEPT ![c] = NoSweep]
  /\ UNCHANGED <<rows, nextId, due, lock, req, announced>>

\* one DELETE of the rows created before the cutoff: ids grow with createdAt
Archive(cutoff) ==
  /\ "archive" \in Ops
  /\ rows' = Without({i \in Live : i <= cutoff /\ rows[i].status
                                     \in {"expired", "cancelled"}})
  /\ OnlyRows

\* one UPDATE, at 22:00 of day d
MarkNoShows(d) ==
  /\ "noshow" \in Ops
  /\ rows' = [i \in Ids |->
                IF i \in Live /\ rows[i].status = "confirmed"
                   /\ rows[i].date = d /\ ~rows[i].noShow
                THEN NoShow(rows[i]) ELSE rows[i]]
  /\ OnlyRows
-----------------------------------------------------------------------------
(* Time and failures *)

\* holdExpiresAt is fixed when the booking is created
DeadlinePasses(i) ==
  /\ "deadline" \in Ops
  /\ i < nextId /\ i \notin due
  /\ Serial => Quiet(i)
  /\ due' = due \cup {i}
  /\ UNCHANGED <<rows, nextId, lock, holdKey, req, sweep, announced>>

\* an awaited call rejects: inside withLock the finally still runs; when
\* release itself rejects, the key stays until its TTL
Throw(p) ==
  /\ req[p].at # "idle"
  /\ IF req[p].at \in InSection \ {"unlock"} THEN LeaveSection(p)
                                             ELSE Respond(p)
  /\ OnlyReq

CronThrows(c) ==
  /\ "cron_fails" \in Ops
  /\ sweep[c].at # "idle"
  /\ sweep' = [sweep EXCEPT ![c] = NoSweep]
  /\ UNCHANGED <<rows, nextId, due, lock, holdKey, req, announced>>

\* the process dies and is started again; the tables and the keys stay
Crash ==
  /\ "crash" \in Ops
  /\ req' = [p \in Reqs |-> Idle]
  /\ sweep' = [c \in Crons |-> NoSweep]
  /\ UNCHANGED <<rows, nextId, due, lock, holdKey, announced>>
-----------------------------------------------------------------------------
\* a request arrives
Arrive(p) ==
  \/ HoldLock(p)
  \/ \E i \in Ids :
       \/ VerifyRead(p, i) \/ ConfirmRead(p, i) \/ CancelRead(p, i)
       \/ MoveRead(p, i) \/ UpdateRead(p, i)
       \/ AdminMoveRead(p, i) \/ AdminRemoveRead(p, i)

\* an awaited call of a request in flight returns
Continue(p) ==
  \/ HoldCheck(p) \/ HoldSave(p) \/ Mark(p) \/ Release(p)
  \/ Select(p)
  \/ VerifySave(p)
  \/ ConfirmCode(p) \/ ConfirmSave(p) \/ ConfirmEmit(p)
  \/ CancelSave(p) \/ CancelFree(p)
  \/ MoveLock(p) \/ MoveCheck(p) \/ MoveSave(p)
  \/ UpdateSave(p)
  \/ AdminMoveCheck(p) \/ AdminMoveUpdate(p) \/ AdminRemoveDelete(p)
  \/ Throw(p)

\* a handler that is one step
AtOnce ==
  \/ \E i \in Ids :
       \/ GuestUpdate(i) \/ Remove(i)
       \/ \E st \in AdminStatuses : AdminUpdateStatus(i, st)
  \/ \E S \in SUBSET Ids, st \in {"confirmed", "cancelled"} \cap AdminStatuses :
       S # {} /\ BulkUpdateStatus(S, st)

SweepStep(c) == ExpireFind(c) \/ ExpireUpdate(c) \/ ExpireFree(c)

Cron ==
  \/ \E c \in Crons : SweepStep(c) \/ CronThrows(c)
  \/ \E cutoff \in Ids : Archive(cutoff)
  \/ \E d \in Dates : MarkNoShows(d)

Passing == \/ \E k \in Slots : LockExpires(k) \/ HoldKeyExpires(k)
           \/ \E i \in Ids : DeadlinePasses(i)

Next == \/ \E p \in Reqs : Arrive(p) \/ Continue(p)
        \/ AtOnce \/ Cron \/ Passing \/ Crash

Spec == Init /\ [][Next]_vars

\* The cron fires every minute and its calls return, every awaited call of a
\* request returns or rejects, deadlines and TTLs run out.  Nothing forces a
\* request to arrive
Fairness ==
  /\ \A c \in Crons : WF_vars(SweepStep(c))
  /\ \A p \in Reqs : WF_vars(Continue(p))
  /\ \A i \in Ids : WF_vars(DeadlinePasses(i))
  /\ \A k \in Slots : WF_vars(LockExpires(k))
-----------------------------------------------------------------------------
TypeOK ==
  /\ rows \in [Ids -> Row \cup {Nil}]
  /\ nextId \in 1..(MaxBookings + 1)
  /\ due \subseteq Ids
  /\ lock \in [Slots -> Reqs \cup {Nil}]
  /\ holdKey \in [Slots -> Ids \cup {Nil}]
  /\ req \in [Reqs -> Request]
  /\ sweep \in [Crons -> Sweep]
  /\ announced \subseteq Ids

\* holdExpiresAt is null once the booking is CONFIRMED (booking.entity.ts:123)
\* and not before
WaitsWithDeadline(i) == rows[i].status \in Held => rows[i].hold

\* slotEndTime is slotStartTime + totalDuration (booking.entity.ts:66)
EndFollowsStart ==
  \A i \in Live : rows[i].end = CalcEndTime(rows[i].start, rows[i].dur)

\* A lock key never passes from one request to another, and only its owner,
\* on its way out of withLock, or the TTL deletes it
LockFreedByOwner ==
  [][\A k \in Slots :
       lock[k] # Nil /\ lock'[k] # lock[k] =>
         /\ lock'[k] = Nil
         /\ \/ req[lock[k]].at = "unlock" /\ req[lock[k]].key = k
            \/ LockExpires(k)]_vars

\* Two requests are never between acquire and release of the same lock key
SectionExclusive ==
  \A p, q \in Reqs :
    p # q /\ req[p].at \in InSection /\ req[q].at \in InSection
    => req[p].key # req[q].key

\* No two bookings occupy overlapping times of one barber
SlotExclusive ==
  \A i, j \in Live :
    i # j /\ j \in Occupants(rows[i].barber, rows[i].date)
          /\ rows[i].status \in Occupying
    => ~Overlaps(rows[i].start, rows[i].end, rows[j].start, rows[j].end)

\* in this step booking i comes to occupy a slot it did not occupy
Taking(i) ==
  /\ rows'[i] # Nil /\ rows'[i].status \in Occupying
  /\ i \in Live /\ rows[i].status \in Occupying
       => SlotOf(rows[i]) # SlotOf(rows'[i])

\* A booking comes to occupy a slot only by the save of the request that holds
\* the slot's lock: nothing else ever brings a booking back
SlotTakenUnderLock ==
  [][\A i \in Ids : Taking(i) =>
       \E p \in Reqs : /\ lock[SlotOf(rows'[i])] = p
                       /\ req[p].key = SlotOf(rows'[i])
                       /\ req[p].at \in {"hold_save", "move_write"}]_vars

\* A booking that has got its code keeps it (bookings.service.ts:218): the
\* customer has it, and the event carried it
CodeIsFinal ==
  [][\A i \in Live : rows[i].code # 0 /\ rows'[i] # Nil
                     => rows'[i].code = rows[i].code]_vars

\* A booking whose customer was told that it is confirmed is never expired
\* (booking-cleanup.cron.ts:19 speaks of holds only)
ConfirmedNeverExpires ==
  [][\A i \in Live :
       rows'[i] # Nil /\ rows[i].status \in Occupying \ Held
       => rows'[i].status # "expired"]_vars

HeldBooking(i) == i \in Live /\ rows[i].status \in Held

\* A slot is not blocked for ever by a customer who went away: whatever the
\* requests do, a hold is confirmed, cancelled, expired or deleted, or it loses the
\* deadline by which the cron finds it (booking-cleanup.cron.ts:26)
HoldsEnd ==
  \A i \in Ids :
    HeldBooking(i) ~> (~HeldBooking(i) \/ ~WaitsWithDeadline(i))

\* No lock key stays for ever, not even when release rejects
LocksFree == \A k \in Slots : lock[k] # Nil ~> lock[k] = Nil

\* The bookings in the table keep the promise of SlotLedger
HeldSlot ==
  [i \in Ids |-> IF rows[i] # Nil /\ rows[i].status \in Occupying
                 THEN SlotOf(rows[i]) ELSE Nil]

Ledger == INSTANCE SlotLedger
            WITH Cells <- Slots, Holders <- Ids, held <- HeldSlot

ImplementsLedger == Ledger!Spec
=============================================================================
