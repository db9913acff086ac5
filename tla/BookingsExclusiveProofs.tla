----------------------- MODULE BookingsExclusiveProofs -----------------------
(***************************************************************************)
(* No slot is booked twice.  Of the bookings themselves the lock only      *)
(* protects their creation and their move, so the theorem needs what       *)
(* Disciplined states; README.md says which of it the code ensures.        *)
(***************************************************************************)
EXTENDS BookingsProofs

Disciplined ==
  /\ Serial /\ LeaseHolds
  /\ Ops \cap {"update", "guest", "admin_move"} = {}
  /\ AdminStatuses \cap Occupying = {}

Occupies(i) == rows[i] # Nil /\ rows[i].status \in Occupying

NoTwo == \A i, j \in Ids : i # j /\ Occupies(i) /\ Occupies(j)
                           => SlotOf(rows[i]) # SlotOf(rows[j])

\* the slot was found free, and the row is yet to be written
Saving == {"hold_save", "move_save", "move_write"}

\* nobody occupies slot k
Vacant(k) == \A i \in Ids : Occupies(i) => SlotOf(rows[i]) # k

\* the row i is where the snapshot s has it, and the cron leaves it alone
Settled(i, s) == /\ rows[i] # Nil /\ i \notin due
                 /\ rows[i].status \in Held
                 /\ SlotOf(rows[i]) = SlotOf(s)

\* what request p can rely on
Fine(p) ==
  /\ req[p].at \notin {"update_save", "update_write", "admin_check", "admin_update"}
  /\ req[p].at \in {"hold_check", "hold_save"} => req[p].key = SlotOf(req[p].snap)
  /\ req[p].at \in {"move_lock", "move_check", "move_save", "move_write"}
       => req[p].key[1] = req[p].snap.barber
  /\ req[p].at \in Saving => Vacant(req[p].key)
  /\ req[p].at \in Waiting => Settled(req[p].id, req[p].snap)

ExclInv ==
  DatedInv /\ Leased /\ SweepsDue /\ NoTwo /\ \A p \in Reqs : Fine(p)

LEMMA ExclParts ==
  ASSUME ExclInv
  PROVE  /\ TypeInv /\ SoundInv /\ SerialInv /\ Dated
         /\ rows \in [Ids -> Row \cup {Nil}]
         /\ req \in [Reqs -> Request] /\ \A p \in Reqs : Loaded(req[p])
BY DEF ExclInv, DatedInv, CodeInv, SoundInv, TypeInv, RowsOK, ReqsOK

LEMMA DisciplinedFacts ==
  ASSUME Disciplined
  PROVE  Serial /\ LeaseHolds /\ NoHoldByHand /\ NoGuestUpdate
BY DEF Disciplined, NoHoldByHand, NoGuestUpdate, Occupying, Held
-----------------------------------------------------------------------------
(***************************************************************************)
(* How the table can change: either every booking that occupies a slot     *)
(* already did, or one booking x gets the slot of the request that saves   *)
(* it under the lock.                                                      *)
(***************************************************************************)
NoGain == \A i \in Ids : Occupies(i)' => /\ Occupies(i)
                                         /\ SlotOf(rows[i])' = SlotOf(rows[i])

Gain(p, x) ==
  /\ req[p].at \in {"hold_save", "move_write"}
  /\ \A i \in Ids \ {x} : rows'[i] = rows[i]
  /\ SlotOf(rows'[x]) = req[p].key

LEMMA NoGainKeeps ==
  ASSUME NoTwo, NoGain
  PROVE  NoTwo' /\ \A k : Vacant(k) => Vacant(k)'
BY DEF NoTwo, NoGain, Vacant

LEMMA GainKeepsNoTwo ==
  ASSUME ExclInv, NEW p \in Reqs, NEW x \in Ids, Gain(p, x)
  PROVE  NoTwo'
<1>1. Vacant(req[p].key)
  BY DEF ExclInv, Fine, Gain, Saving
<1>2. SUFFICES ASSUME NEW i \in Ids, NEW j \in Ids, i # j, Occupies(i)', Occupies(j)'
               PROVE  SlotOf(rows'[i]) # SlotOf(rows'[j])
  BY DEF NoTwo
<1>3. CASE i = x
  BY <1>1, <1>2, <1>3 DEF Gain, Vacant, Occupies
<1>4. CASE j = x
  BY <1>1, <1>2, <1>4 DEF Gain, Vacant, Occupies
<1>5. CASE i # x /\ j # x
  BY <1>2, <1>5 DEF Gain, ExclInv, NoTwo, Occupies
<1>6. QED
  BY <1>3, <1>4, <1>5

LEMMA GainKeepsVacant ==
  ASSUME NEW p \in Reqs, NEW x \in Ids, Gain(p, x), NEW k, Vacant(k),
         k # req[p].key
  PROVE  Vacant(k)'
BY DEF Gain, Vacant, Occupies

LEMMA SameRowsNoGain == rows' = rows => NoGain
BY DEF NoGain, Occupies
-----------------------------------------------------------------------------
(***************************************************************************)
(* The step of one request p leaves the others as they are: it writes no   *)
(* row of theirs, and the slot it may gain is not under their locks.       *)
(***************************************************************************)
Gains(p) == NoGain \/ \E x \in Ids : Gain(p, x)

LEMMA OthersStayFine ==
  ASSUME ExclInv, NEW p \in Reqs, Footprint(p), Gains(p), NEW q \in Reqs \ {p}
  PROVE  Fine(q)'
<1>1. req'[q] = req[q] /\ Fine(q) /\ Loaded(req[q])
  BY ExclParts DEF Footprint, ExclInv
<1>2. req[q].at \in Saving => Vacant(req[q].key)'
  <2>1. CASE NoGain
    BY <1>1, <2>1, NoGainKeeps DEF ExclInv, Fine
  <2>2. ASSUME NEW x \in Ids, Gain(p, x), req[q].at \in Saving
        PROVE  Vacant(req[q].key)'
    <3>1. lock[req[q].key] = q /\ lock[req[p].key] = p
      BY <2>2 DEF ExclInv, Leased, Gain, Saving, InSection
    <3>2. QED
      BY <1>1, <2>2, <3>1, GainKeepsVacant DEF Fine
  <2>3. QED
    BY <2>1, <2>2 DEF Gains
<1>3. req[q].at \in Waiting => Settled(req[q].id, req[q].snap)'
  <2> SUFFICES ASSUME req[q].at \in Waiting
               PROVE  Settled(req[q].id, req[q].snap)'
    OBVIOUS
  <2>1. req[q].id \in Ids /\ Settled(req[q].id, req[q].snap)
    BY <1>1 DEF Fine, Loaded, Waiting
  <2>2. rows'[req[q].id] = rows[req[q].id] /\ due' = due
    BY <2>1, OthersRow, ExclParts DEF Footprint
  <2>3. QED
    BY <1>1, <2>1, <2>2 DEF Settled
<1>4. QED
  BY <1>1, <1>2, <1>3 DEF Fine

LEMMA RequestStep ==
  ASSUME ExclInv, DatedInv', Leased', NEW p \in Reqs, Footprint(p), Gains(p), Fine(p)'
  PROVE  ExclInv'
<1>1. NoTwo'
  BY NoGainKeeps, GainKeepsNoTwo DEF Gains, ExclInv
<1>2. SweepsDue'
  BY DEF Footprint, ExclInv, SweepsDue
<1>3. \A q \in Reqs : Fine(q)'
  BY OthersStayFine
<1>4. QED
  BY <1>1, <1>2, <1>3 DEF ExclInv
-----------------------------------------------------------------------------
(***************************************************************************)
(* The steps of one request.                                               *)
(***************************************************************************)
LEMMA LeavesFine ==
  ASSUME ExclInv, NEW p \in Reqs, Respond(p) \/ LeaveSection(p)
  PROVE  Fine(p)'
<1>1. req'[p].at \in {"idle", "unlock"}
  BY ReqLeaves, ExclParts
<1>2. QED
  BY <1>1 DEF Fine, Saving, Waiting

\* a booking that occupies the very slot checked would have been found
LEMMA CheckedIsVacant ==
  ASSUME SoundInv, NoGuestUpdate, NEW k \in Slots, NEW d \in Durs,
         IsSlotAvailable(k, d)
  PROVE  Vacant(k)
<1> SUFFICES ASSUME NEW i \in Ids, Occupies(i), SlotOf(rows[i]) = k
             PROVE  FALSE
  BY DEF Vacant
<1>1. i \in Live /\ rows[i] \in Row
  BY DEF SoundInv, TypeInv, RowsOK, Live, Occupies
<1>2. /\ rows[i].barber = k[1] /\ rows[i].date = k[2] /\ rows[i].start = k[3]
      /\ k[3] \in Nat /\ d \in Nat \ {0} /\ rows[i].dur \in Nat \ {0}
  BY <1>1, GridAssumption DEF SlotOf, Slots, Row
<1>3. rows[i].end = k[3] + rows[i].dur
  BY <1>1, <1>2, LiveVersions DEF SoundInv, AllEndWell, EndsWell, CalcEndTime
<1>4. i \in Occupants(k[1], k[2])
  BY <1>1, <1>2 DEF Occupants, Occupies
<1>5. ~Overlaps(k[3], k[3] + d, rows[i].start, rows[i].end)
  BY <1>4 DEF IsSlotAvailable, FreeOf
<1>6. QED
  BY <1>2, <1>3, <1>5 DEF Overlaps

LEMMA ArriveStep ==
  ASSUME Disciplined, ExclInv, NEW p \in Reqs, Arrive(p)
  PROVE  Gains(p) /\ Fine(p)'
<1>1. rows' = rows /\ due' = due
  BY DEF Arrive, HoldLock, VerifyRead, ConfirmRead, CancelRead, MoveRead, UpdateRead,
         AdminMoveRead, AdminRemoveRead, OnlyReq, LocksAndReq
<1>2. Gains(p)
  BY <1>1, SameRowsNoGain DEF Gains
<1>3. ASSUME NEW op, NEW i, Asked(op, i)
      PROVE  /\ op \notin {"update", "admin_move"}
             /\ i \in Live /\ rows[i] \in Row
  BY <1>3, ExclParts DEF Asked, Disciplined, Live
<1>4. ASSUME NEW i, NEW point, NEW key, Start(p, point, i, key)
      PROVE  /\ req'[p].at = point /\ req'[p].id = i /\ req'[p].snap = rows[i]
             /\ req'[p].key = key
  <2>1. req'[p] = [at |-> point, id |-> i, snap |-> rows[i], seen |-> Nil, key |-> key]
    BY <1>4, ReqMoves, ExclParts DEF Start
  <2>2. QED
    BY <2>1
<1>5. CASE HoldLock(p)
  <2>1. PICK k \in Slots, d \in Durs :
          Become(p, [at |-> "hold_check", id |-> Nil, snap |-> NewRow(k, d),
                     seen |-> Nil, key |-> k])
    BY <1>5 DEF HoldLock
  <2>2. req'[p] = [at |-> "hold_check", id |-> Nil, snap |-> NewRow(k, d),
                   seen |-> Nil, key |-> k]
    BY <2>1, ReqMoves, ExclParts
  <2>3. SlotOf(NewRow(k, d)) = k
    BY DEF SlotOf, NewRow, Slots
  <2>4. QED
    BY <1>2, <2>2, <2>3 DEF Fine, Saving, Waiting
<1>6. ASSUME NEW i \in Ids, VerifyRead(p, i) \/ ConfirmRead(p, i)
      PROVE  Fine(p)'
  <2>1. i \in Live /\ rows[i] \in Row /\ AssertNotExpired(i)
    BY <1>3, <1>6 DEF VerifyRead, ConfirmRead
  <2>2. rows[i].status \in Held
    BY <1>6, <2>1, OnlyPendingIsVerified, OnlyVerifiedIsConfirmed
       DEF VerifyRead, ConfirmRead, Held
  <2>3. Settled(i, rows[i])
    BY <2>1, <2>2, ExclParts DEF Dated, WaitsWithDeadline, AssertNotExpired, Settled, Live
  <2>4. PICK point \in {"verify_save", "confirm_code", "confirm_save"} :
          Start(p, point, i, Nil)
    BY <1>6 DEF VerifyRead, ConfirmRead
  <2>5. QED
    BY <1>1, <1>4, <2>3, <2>4 DEF Fine, Saving, Waiting, Settled
<1>7. ASSUME NEW i \in Ids, CancelRead(p, i) \/ AdminRemoveRead(p, i)
      PROVE  Fine(p)'
  <2>1. PICK point \in {"cancel_save", "admin_delete"} : Start(p, point, i, Nil)
    BY <1>7 DEF CancelRead, AdminRemoveRead
  <2>2. QED
    BY <1>4, <2>1 DEF Fine, Saving, Waiting
<1>8. ASSUME NEW i \in Ids, MoveRead(p, i)
      PROVE  Fine(p)'
  <2>1. PICK d \in Dates, s \in Starts :
          Start(p, "move_lock", i, <<rows[i].barber, d, s>>)
    BY <1>8 DEF MoveRead
  <2>2. QED
    BY <1>4, <2>1 DEF Fine, Saving, Waiting
<1>9. ASSUME NEW i \in Ids
      PROVE  ~UpdateRead(p, i) /\ ~AdminMoveRead(p, i)
  BY <1>3 DEF UpdateRead, AdminMoveRead
<1>10. QED
  BY <1>2, <1>5, <1>6, <1>7, <1>8, <1>9 DEF Arrive

LEMMA ChecksStep ==
  ASSUME Disciplined, ExclInv, NEW p \in Reqs,
         HoldCheck(p) \/ MoveLock(p) \/ MoveCheck(p)
  PROVE  Gains(p) /\ Fine(p)'
<1>1. rows' = rows
  BY DEF HoldCheck, MoveLock, MoveCheck, OnlyReq, LocksAndReq, KeysAndReq
<1>2. Gains(p)
  BY <1>1, SameRowsNoGain DEF Gains
<1>3. /\ Fine(p) /\ req[p].key \in Slots /\ req[p].snap \in Row
      /\ req[p].at \in {"hold_check", "move_lock", "move_check"}
  BY ExclParts DEF HoldCheck, MoveLock, MoveCheck, ExclInv, Loaded, Keyed, InSection
<1>4. ASSUME NEW point, GoTo(p, point)
      PROVE  /\ req'[p].at = point /\ req'[p].id = req[p].id
             /\ req'[p].key = req[p].key /\ req'[p].snap = req[p].snap
  BY <1>4, ReqGoesOn, ExclParts
<1>5. CASE Respond(p) \/ LeaveSection(p)
  BY <1>2, <1>5, LeavesFine
<1>6. CASE MoveLock(p) /\ GoTo(p, "move_check")
  <2>1. req[p].at = "move_lock" /\ req'[p].at = "move_check"
    BY <1>4, <1>6 DEF MoveLock
  <2>2. QED
    BY <1>2, <1>3, <1>4, <1>6, <2>1 DEF Fine, Saving, Waiting
<1>7. ASSUME NEW point \in {"hold_save", "move_save"}, GoTo(p, point),
             IsSlotAvailable(req[p].key, req[p].snap.dur),
             \/ HoldCheck(p) /\ point = "hold_save"
             \/ MoveCheck(p) /\ point = "move_save"
      PROVE  Fine(p)'
  <2>1. Vacant(req[p].key)
    BY <1>3, <1>7, CheckedIsVacant, DisciplinedFacts, ExclParts DEF Row
  <2>2. Vacant(req[p].key)'
    BY <1>1, <1>4, <1>7, <2>1 DEF Vacant, Occupies
  <2>3. QED
    BY <1>3, <1>4, <1>7, <2>2 DEF HoldCheck, MoveCheck, Fine, Saving, Waiting
<1>8. QED
  BY <1>2, <1>5, <1>6, <1>7 DEF HoldCheck, MoveLock, MoveCheck

LEMMA SelectStep ==
  ASSUME ExclInv, NEW p \in Reqs, Select(p)
  PROVE  Gains(p) /\ Fine(p)'
<1>1. rows' = rows /\ due' = due
  BY DEF Select, OnlyReq
<1>2. /\ Fine(p)
      /\ req'[p].id = req[p].id /\ req'[p].snap = req[p].snap
      /\ req'[p].key = req[p].key
  BY ReqSelects, ExclParts DEF ExclInv
<1>3. \/ req[p].at = "move_save" /\ req'[p].at = "move_write"
      \/ req[p].at \in Waiting /\ req'[p].at \in Waiting
      \/ req'[p].at = "cancel_write"
      \/ req[p].at = "update_save"
  <2>1. PICK point, next : /\ <<point, next>> \in
                                {<<"verify_save", "verify_write">>,
                                 <<"confirm_save", "confirm_write">>,
                                 <<"cancel_save", "cancel_write">>,
                                 <<"move_save", "move_write">>,
                                 <<"update_save", "update_write">>}
                           /\ SelectAt(p, point, next)
    BY DEF Select
  <2>2. req[p].at = point /\ req'[p].at = next
    <3>1. req[p] \in Request
      BY ExclParts
    <3>2. req'[p] = [req[p] EXCEPT !.at = next, !.seen = rows[req[p].id]]
      BY <2>1, ReqMoves, ExclParts DEF SelectAt
    <3>3. QED
      BY <2>1, <3>1, <3>2 DEF SelectAt, Request
  <2>3. QED
    BY <2>1, <2>2 DEF Waiting
<1>4. Vacant(req[p].key) => Vacant(req[p].key)'
  BY <1>1, <1>2 DEF Vacant, Occupies
<1>5. Settled(req[p].id, req[p].snap) => Settled(req[p].id, req[p].snap)'
  BY <1>1, <1>2 DEF Settled
<1>6. Fine(p)'
  BY <1>2, <1>3, <1>4, <1>5 DEF Fine, Saving, Waiting
<1>7. QED
  BY <1>1, <1>6, SameRowsNoGain DEF Gains

LEMMA HoldSaveStep ==
  ASSUME ExclInv, NEW p \in Reqs, HoldSave(p)
  PROVE  Gains(p) /\ Fine(p)'
<1>1. /\ req[p] \in Request /\ Fine(p) /\ req[p].at = "hold_save" /\ nextId \in Ids
      /\ rows' = [rows EXCEPT ![nextId] = req[p].snap]
  BY ExclParts DEF HoldSave, ExclInv
<1>2. Gain(p, nextId)
  BY <1>1, ExclParts DEF Gain, Fine
<1>3. req'[p] = [req[p] EXCEPT !.at = "hold_mark", !.id = nextId]
  BY ReqMoves, ExclParts DEF HoldSave
<1>4. req'[p].at = "hold_mark"
  BY <1>1, <1>3 DEF Request
<1>5. QED
  BY <1>1, <1>2, <1>4 DEF Gains, Fine, Saving, Waiting

\* the save of row r: the booking stays where it was, or comes under the lock
LEMMA SaveStep ==
  ASSUME ExclInv, NEW p \in Reqs, req[p].at \in Writes, NEW r \in Row, Save(p, r),
         \/ r.status = "cancelled"
         \/ Settled(req[p].id, r)
         \/ req[p].at = "move_write" /\ SlotOf(r) = req[p].key
  PROVE  Gains(p)
<1>1. CASE rows' = rows
  BY <1>1, SameRowsNoGain DEF Gains
<1>2. ASSUME NEW n \in Row, rows' = [rows EXCEPT ![req[p].id] = n], AllBut(n, r),
             n.status = r.status \/ n.status \in {"expired", "done"}
      PROVE  Gains(p)
  <2>1. /\ req[p].id \in Ids /\ rows'[req[p].id] = n
        /\ \A i \in Ids \ {req[p].id} : rows'[i] = rows[i]
    BY <1>2, ExclParts DEF Loaded, Writes
  <2>2. SlotOf(n) = SlotOf(r)
    BY <1>2 DEF AllBut, SlotOf
  <2>3. CASE r.status = "cancelled"
    <3>1. n.status \notin Occupying
      BY <1>2, <2>3 DEF Occupying
    <3>2. NoGain
      BY <2>1, <3>1 DEF NoGain, Occupies
    <3>3. QED
      BY <3>2 DEF Gains
  <2>4. CASE Settled(req[p].id, r)
    <3>1. NoGain
      BY <2>1, <2>2, <2>4 DEF NoGain, Occupies, Settled, Held, Occupying
    <3>2. QED
      BY <3>1 DEF Gains
  <2>5. CASE req[p].at = "move_write" /\ SlotOf(r) = req[p].key
    <3>1. Gain(p, req[p].id)
      BY <2>1, <2>2, <2>5 DEF Gain
    <3>2. QED
      BY <2>1, <3>1 DEF Gains
  <2>6. QED
    BY <2>3, <2>4, <2>5
<1>3. QED
  BY <1>1, <1>2, SerialSave, ExclParts

LEMMA SavesStep ==
  ASSUME ExclInv, NEW p \in Reqs,
         VerifySave(p) \/ ConfirmSave(p) \/ CancelSave(p) \/ MoveSave(p)
  PROVE  Gains(p) /\ Fine(p)'
<1> DEFINE s == req[p].snap
           k == req[p].key
<1>1. /\ Fine(p) /\ s \in Row /\ req[p].at \in Writes
      /\ req[p].at = "move_write" => k \in Slots
  BY ExclParts DEF VerifySave, ConfirmSave, CancelSave, MoveSave, ExclInv, Loaded, Keyed,
                   InSection, Writes
<1>2. Fine(p)'
  <2>1. CASE VerifySave(p)
    BY <2>1, LeavesFine DEF VerifySave
  <2>2. ASSUME NEW point \in {"confirm_emit", "cancel_free", "move_mark"},
               GoTo(p, point)
        PROVE  Fine(p)'
    <3>1. req'[p].at = point
      BY <2>2, ReqGoesOn, ExclParts
    <3>2. QED
      BY <2>2, <3>1 DEF Fine, Saving, Waiting
  <2>3. QED
    BY <2>1, <2>2 DEF ConfirmSave, CancelSave, MoveSave
<1>3. CASE VerifySave(p)
  <2>1. Verified(s) \in Row /\ SlotOf(Verified(s)) = SlotOf(s)
    BY <1>1, VerifiedType DEF Verified, SlotOf, Row
  <2>2. Settled(req[p].id, Verified(s))
    BY <1>1, <1>3, <2>1 DEF VerifySave, Fine, Waiting, Settled
  <2>3. QED
    BY <1>1, <1>2, <1>3, <2>1, <2>2, SaveStep DEF VerifySave
<1>4. CASE ConfirmSave(p)
  <2>1. Confirmed(s) \in Row /\ SlotOf(Confirmed(s)) = SlotOf(s)
    BY <1>1, ConfirmedType DEF Confirmed, SlotOf, Row
  <2>2. Settled(req[p].id, Confirmed(s))
    BY <1>1, <1>4, <2>1 DEF ConfirmSave, Fine, Waiting, Settled
  <2>3. QED
    BY <1>1, <1>2, <1>4, <2>1, <2>2, SaveStep DEF ConfirmSave
<1>5. CASE CancelSave(p)
  <2>1. Cancelled(s) \in Row /\ Cancelled(s).status = "cancelled"
    BY <1>1, CancelledType DEF Cancelled, Row
  <2>2. QED
    BY <1>1, <1>2, <1>5, <2>1, SaveStep DEF CancelSave
<1>6. CASE MoveSave(p)
  <2>1. k \in Slots /\ k[1] = s.barber
    BY <1>1, <1>6 DEF MoveSave, Fine
  <2>2. Moved(s, k) \in Row
    BY <1>1, <2>1, MovedType
  <2>3. SlotOf(Moved(s, k)) = k
    BY <1>1, <2>1 DEF Moved, SlotOf, Row, Slots
  <2>4. QED
    BY <1>1, <1>2, <1>6, <2>2, <2>3, SaveStep DEF MoveSave
<1>7. QED
  BY <1>3, <1>4, <1>5, <1>6

LEMMA ConfirmCodeStep ==
  ASSUME ExclInv, NEW p \in Reqs, ConfirmCode(p)
  PROVE  Gains(p) /\ Fine(p)'
<1>1. /\ req[p] \in Request /\ req[p].snap \in Row /\ Fine(p)
      /\ req[p].at = "confirm_code" /\ rows' = rows /\ due' = due
  BY ExclParts DEF ConfirmCode, OnlyReq, ExclInv, Loaded
<1>2. PICK c \in 1..MaxCode :
        Become(p, [req[p] EXCEPT !.at = "confirm_save", !.snap.code = c])
  BY DEF ConfirmCode
<1>3. req'[p] = [req[p] EXCEPT !.at = "confirm_save", !.snap.code = c]
  BY <1>2, ReqMoves, ExclParts
<1>4. /\ req'[p].at = "confirm_save" /\ req'[p].id = req[p].id
      /\ req'[p].snap = [req[p].snap EXCEPT !.code = c]
  BY <1>1, <1>3 DEF Request
<1>5. SlotOf(req'[p].snap) = SlotOf(req[p].snap)
  BY <1>1, <1>4 DEF SlotOf, Row
<1>6. Fine(p)'
  BY <1>1, <1>4, <1>5 DEF Fine, Saving, Waiting, Settled
<1>7. QED
  BY <1>1, <1>6, SameRowsNoGain DEF Gains

LEMMA ContinueStep ==
  ASSUME Disciplined, ExclInv, NEW p \in Reqs, Continue(p)
  PROVE  Gains(p) /\ Fine(p)'
<1>1. CASE Mark(p) \/ Release(p) \/ ConfirmEmit(p) \/ CancelFree(p) \/ Throw(p)
  <2>1. rows' = rows /\ (Respond(p) \/ LeaveSection(p))
    BY <1>1 DEF Mark, Release, ConfirmEmit, CancelFree, Throw, KeysAndReq, LocksAndReq,
                OnlyReq
  <2>2. QED
    BY <2>1, LeavesFine, SameRowsNoGain DEF Gains
<1>2. CASE AdminRemoveDelete(p)
  <2>1. NoGain
    BY <1>2 DEF AdminRemoveDelete, Without, NoGain, Occupies
  <2>2. QED
    BY <1>2, <2>1, LeavesFine DEF Gains, AdminRemoveDelete
<1>3. ~UpdateSave(p) /\ ~AdminMoveCheck(p) /\ ~AdminMoveUpdate(p)
  BY DEF UpdateSave, AdminMoveCheck, AdminMoveUpdate, ExclInv, Fine
<1>4. QED
  BY <1>1, <1>2, <1>3, ChecksStep, SelectStep, HoldSaveStep, SavesStep, ConfirmCodeStep
     DEF Continue
-----------------------------------------------------------------------------
(***************************************************************************)
(* The other steps: none of them brings a booking back, and none touches   *)
(* a booking that a request waits to verify or to confirm.                 *)
(***************************************************************************)
LEMMA OtherStep ==
  ASSUME ExclInv, DatedInv', Leased', SweepsDue', NoGain, req' = req,
         \A p \in Reqs : req[p].at \in Waiting => Settled(req[p].id, req[p].snap)'
  PROVE  ExclInv'
<1>1. NoTwo' /\ \A k : Vacant(k) => Vacant(k)'
  BY NoGainKeeps DEF ExclInv
<1>2. \A p \in Reqs : Fine(p)'
  BY <1>1 DEF ExclInv, Fine
<1>3. QED
  BY <1>1, <1>2 DEF ExclInv

LEMMA WaitingFacts ==
  ASSUME ExclInv, NEW p \in Reqs, req[p].at \in Waiting
  PROVE  req[p].id \in Ids /\ Settled(req[p].id, req[p].snap)
BY ExclParts DEF ExclInv, Fine, Loaded, Waiting

LEMMA AtOnceStep ==
  ASSUME Disciplined, ExclInv, DatedInv', Leased', AtOnce
  PROVE  ExclInv' /\ NoGain
<1>1. /\ req' = req /\ sweep' = sweep /\ due' = due
      /\ \A p \in Reqs : req[p].id \in Ids => rows'[req[p].id] = rows[req[p].id]
      /\ \A i \in Ids : \/ rows'[i] \in {rows[i], Nil}
                        \/ /\ rows[i] # Nil
                           /\ rows'[i].status \in {rows[i].status} \cup AdminStatuses
                           /\ SlotOf(rows'[i]) = SlotOf(rows[i])
  BY AtOnceRows, ExclParts, DisciplinedFacts
<1>2. NoGain
  BY <1>1 DEF NoGain, Occupies, Disciplined
<1>3. SweepsDue'
  BY <1>1 DEF SweepsDue, ExclInv
<1>4. \A p \in Reqs : req[p].at \in Waiting => Settled(req[p].id, req[p].snap)'
  BY <1>1, WaitingFacts DEF Settled
<1>5. QED
  BY <1>1, <1>2, <1>3, <1>4, OtherStep

LEMMA CronStep ==
  ASSUME ExclInv, DatedInv', Leased', Cron
  PROVE  ExclInv' /\ NoGain
<1>1. /\ req' = req /\ due' = due
      /\ \A i \in Ids :
           \/ rows'[i] = rows[i]
           \/ rows'[i] = Nil /\ rows[i].status \notin Held
           \/ rows'[i].status = "done" /\ rows[i].status = "confirmed"
           \/ rows'[i].status = "expired" /\ i \in due
  BY CronRows, ExclParts DEF ExclInv, SweepsDue
<1>2. NoGain
  BY <1>1 DEF NoGain, Occupies, Occupying
<1>3. SweepsDue'
  BY CronSweeps, ExclParts DEF ExclInv
<1>4. \A p \in Reqs : req[p].at \in Waiting => Settled(req[p].id, req[p].snap)'
  BY <1>1, WaitingFacts DEF Settled, Held
<1>5. QED
  BY <1>1, <1>2, <1>3, <1>4, OtherStep

LEMMA PassingStep ==
  ASSUME Disciplined, ExclInv, DatedInv', Leased', Passing \/ UNCHANGED vars
  PROVE  ExclInv' /\ NoGain
<1>1. rows' = rows /\ req' = req /\ sweep' = sweep
  BY DEF Passing, LockExpires, HoldKeyExpires, DeadlinePasses, vars
<1>2. NoGain
  BY <1>1, SameRowsNoGain
<1>3. /\ due \subseteq due'
      /\ \A i \in due' \ due : Quiet(i)
  BY DEF Passing, LockExpires, HoldKeyExpires, DeadlinePasses, Disciplined, vars
<1>4. SweepsDue'
  BY <1>1, <1>3 DEF ExclInv, SweepsDue
<1>5. \A p \in Reqs : req[p].at \in Waiting => Settled(req[p].id, req[p].snap)'
  BY <1>1, <1>3, WaitingFacts DEF Settled, Quiet
<1>6. QED
  BY <1>1, <1>2, <1>4, <1>5, OtherStep

LEMMA CrashStep ==
  ASSUME ExclInv, DatedInv', Leased', Crash
  PROVE  ExclInv' /\ NoGain
<1>1. /\ rows' = rows /\ NoGain
      /\ \A p \in Reqs : req'[p] = Idle
      /\ \A c \in Crons : sweep'[c] = NoSweep
  BY SameRowsNoGain DEF Crash
<1>2. \A p \in Reqs : Fine(p)'
  BY <1>1 DEF Idle, Fine, Saving, Waiting
<1>3. SweepsDue'
  BY <1>1 DEF NoSweep, SweepsDue
<1>4. NoTwo'
  BY <1>1, NoGainKeeps DEF ExclInv
<1>5. QED
  BY <1>1, <1>2, <1>3, <1>4 DEF ExclInv
-----------------------------------------------------------------------------
LEMMA InitExcl == Init => ExclInv
BY InitDated
   DEF Init, Idle, NoSweep, ExclInv, Leased, InSection, SweepsDue, NoTwo, Occupies, Fine,
       Saving, Waiting

\* every step either gains no slot or gains one under its lock
LEMMA NextExcl ==
  ASSUME Disciplined, ExclInv, [Next]_vars
  PROVE  /\ ExclInv'
         /\ NoGain \/ \E p \in Reqs, x \in Ids : Gain(p, x)
<1>1. DatedInv' /\ Leased'
  BY NextKeepsDeadlines, NextLeased, DisciplinedFacts, ExclParts DEF ExclInv
<1>2. ASSUME NEW p \in Reqs, Arrive(p) \/ Continue(p)
      PROVE  ExclInv' /\ Gains(p)
  <2>1. Footprint(p)
    BY <1>2, ArriveOutcome, ContinueOutcome, DisciplinedFacts, ExclParts
  <2>2. Gains(p) /\ Fine(p)'
    BY <1>2, ArriveStep, ContinueStep
  <2>3. QED
    BY <1>1, <2>1, <2>2, RequestStep
<1>3. CASE AtOnce \/ Cron \/ Passing \/ Crash \/ UNCHANGED vars
  BY <1>1, <1>3, AtOnceStep, CronStep, PassingStep, CrashStep
<1>4. QED
  BY <1>2, <1>3 DEF Next, Gains

LEMMA ExclAlways == ASSUME Disciplined PROVE Spec => []ExclInv
<1>1. ExclInv /\ [Next]_vars => ExclInv'
  BY NextExcl
<1>2. QED
  BY <1>1, InitExcl, PTL DEF Spec

\* Under the discipline, and with durations that fit the grid of start times,
\* no two bookings of a barber ever overlap (README.md:173)
THEOREM SlotsExclude ==
  ASSUME Disciplined, Aligned
  PROVE  Spec => []SlotExclusive
<1>1. ExclInv => SlotExclusive
  <2> SUFFICES ASSUME ExclInv, NEW i \in Live, NEW j \in Live, i # j,
                      j \in Occupants(rows[i].barber, rows[i].date),
                      rows[i].status \in Occupying
               PROVE  ~Overlaps(rows[i].start, rows[i].end,
                                rows[j].start, rows[j].end)
    BY DEF SlotExclusive
  <2>1. SlotOf(rows[i]) # SlotOf(rows[j])
    BY DEF ExclInv, NoTwo, Occupies, Occupants, Live
  <2>2. rows[i].start # rows[j].start
    BY <2>1 DEF Occupants, SlotOf
  <2>3. \A x \in Live : /\ rows[x].start \in Starts /\ rows[x].dur \in Durs
                        /\ rows[x].end = rows[x].start + rows[x].dur
    BY DisciplinedFacts, ExclParts, LiveVersions
       DEF SoundInv, AllEndWell, EndsWell, Live, Row, CalcEndTime
  <2>4. ASSUME NEW x \in Live
        PROVE  rows[x].start \in Nat /\ rows[x].end \in Nat
    <3>1. rows[x].start \in Nat /\ rows[x].dur \in Nat
      BY <2>3, GridAssumption
    <3>2. QED
      BY <2>3, <3>1
  <2>5. rows[i].start < rows[j].start \/ rows[j].start < rows[i].start
    BY <2>2, <2>4
  <2>6. rows[i].end <= rows[j].start \/ rows[j].end <= rows[i].start
    BY <2>3, <2>5 DEF Aligned
  <2>7. QED
    BY <2>4, <2>6 DEF Overlaps
<1>2. QED
  BY <1>1, ExclAlways, PTL

\* Under the discipline, a booking comes to occupy a slot only by a save under
\* that slot's lock
THEOREM SlotsTakenUnderLock ==
  ASSUME Disciplined
  PROVE  Spec => SlotTakenUnderLock
<1> DEFINE A == \A i \in Ids : Taking(i) =>
                  \E p \in Reqs : /\ lock[SlotOf(rows'[i])] = p
                                  /\ req[p].key = SlotOf(rows'[i])
                                  /\ req[p].at \in {"hold_save", "move_write"}
<1>1. ExclInv /\ [Next]_vars => A
  <2> SUFFICES ASSUME ExclInv, [Next]_vars, NEW i \in Ids, Taking(i)
               PROVE  \E p \in Reqs : /\ lock[SlotOf(rows'[i])] = p
                                      /\ req[p].key = SlotOf(rows'[i])
                                      /\ req[p].at \in {"hold_save", "move_write"}
    OBVIOUS
  <2>1. ~NoGain
    BY DEF NoGain, Taking, Occupies, Live
  <2>2. PICK p \in Reqs, x \in Ids : Gain(p, x)
    BY <2>1, NextExcl
  <2>3. i = x
    BY <2>2 DEF Gain, Taking, Live
  <2>4. lock[req[p].key] = p
    BY <2>2 DEF Gain, ExclInv, Leased, InSection
  <2>5. QED
    BY <2>2, <2>3, <2>4 DEF Gain
<1>2. [][A]_vars <=> SlotTakenUnderLock
  BY DEF SlotTakenUnderLock
<1>3. QED
  BY <1>1, <1>2, ExclAlways, PTL DEF Spec

\* Under the discipline, the bookings keep the promise of SlotLedger: every
\* step of every handler, and every crash, frees slots, takes one that is free,
\* or does neither
THEOREM LedgerImplemented ==
  ASSUME Disciplined
  PROVE  Spec => ImplementsLedger
<1>1. Init => Ledger!Init
  BY NilFacts DEF Init, Ledger!Init, HeldSlot
<1>2. ExclInv /\ [Next]_vars => [Ledger!Next]_HeldSlot
  <2> SUFFICES ASSUME ExclInv, [Next]_vars PROVE Ledger!Next \/ HeldSlot' = HeldSlot
    OBVIOUS
  <2>1. CASE NoGain
    <3> DEFINE S == {i \in Ids : ~Occupies(i)'}
    <3>1. HeldSlot' = [i \in Ids |-> IF i \in S THEN Nil ELSE HeldSlot[i]]
      BY <2>1 DEF HeldSlot, NoGain, Occupies
    <3>2. Ledger!Free(S)
      BY <3>1 DEF Ledger!Free
    <3>3. QED
      BY <3>2 DEF Ledger!Next
  <2>2. ASSUME NEW p \in Reqs, NEW x \in Ids, Gain(p, x)
        PROVE  Ledger!Next \/ HeldSlot' = HeldSlot
    <3> DEFINE k == req[p].key
    <3>1. k \in Slots /\ Vacant(k)
      BY <2>2, ExclParts DEF Gain, Saving, ExclInv, Fine, Loaded, Keyed, InSection
    <3>2. CASE Occupies(x)'
      <4>1. \A g \in Ids : HeldSlot[g] # k
        BY <3>1, NilFacts DEF HeldSlot, Vacant, Occupies
      <4>2. HeldSlot' = [HeldSlot EXCEPT ![x] = k]
        BY <2>2, <3>2 DEF HeldSlot, Gain, Occupies
      <4>3. Ledger!Take(x, k)
        BY <4>1, <4>2 DEF Ledger!Take
      <4>4. QED
        BY <3>1, <4>3 DEF Ledger!Next
    <3>3. CASE ~Occupies(x)'
      <4>1. HeldSlot' = [i \in Ids |-> IF i \in {x} THEN Nil ELSE HeldSlot[i]]
        BY <2>2, <3>3 DEF HeldSlot, Gain, Occupies
      <4>2. Ledger!Free({x})
        BY <4>1 DEF Ledger!Free
      <4>3. QED
        BY <4>2 DEF Ledger!Next
    <3>4. QED
      BY <3>2, <3>3
  <2>3. QED
    BY <2>1, <2>2, NextExcl
<1>3. QED
  BY <1>1, <1>2, ExclAlways, PTL DEF Spec, ImplementsLedger, Ledger!Spec

\* The promise is worth something: whatever keeps it, the bookings or another
\* implementation, never gives one slot to two holders
THEOREM PromiseKept == Ledger!Spec => []Ledger!NoneShared
<1> DEFINE I == Ledger!TypeOK /\ Ledger!NoneShared
<1>1. Ledger!Init => I
  BY DEF Ledger!Init, Ledger!TypeOK, Ledger!NoneShared
<1>2. I /\ [Ledger!Next]_HeldSlot => I'
  <2> SUFFICES ASSUME I, [Ledger!Next]_HeldSlot PROVE I'
    OBVIOUS
  <2>1. ASSUME NEW h \in Ids, NEW c \in Slots, Ledger!Take(h, c)
        PROVE  I'
    BY <2>1 DEF Ledger!TypeOK, Ledger!NoneShared, Ledger!Take
  <2>2. ASSUME NEW S \in SUBSET Ids, Ledger!Free(S)
        PROVE  I'
    BY <2>2 DEF Ledger!TypeOK, Ledger!NoneShared, Ledger!Free
  <2>3. CASE HeldSlot' = HeldSlot
    BY <2>3 DEF Ledger!TypeOK, Ledger!NoneShared
  <2>4. QED
    BY <2>1, <2>2, <2>3 DEF Ledger!Next
<1>3. QED
  BY <1>1, <1>2, PTL DEF Ledger!Spec

\* Under the discipline no slot is promised twice: this follows from the
\* refinement and the promise alone
THEOREM NothingPromisedTwice ==
  ASSUME Disciplined
  PROVE  Spec => []Ledger!NoneShared
BY LedgerImplemented, PromiseKept, PTL DEF ImplementsLedger
=============================================================================
