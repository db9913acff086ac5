------------------------- MODULE BookingHistoryProofs -------------------------
(***************************************************************************)
(* How bookings come to share a time.  Nothing is assumed of the           *)
(* environment: the theorems say what the lock and the check inside it are *)
(* worth when every other operation runs as it likes.                      *)
(***************************************************************************)
EXTENDS BookingsProofs, BookingHistory, SaveHistory

\* a booking that is where it is by a save under the lock
Proper(i) == Occupies(i) /\ i \notin strays

WellEnded(r) == \E d \in Durs : r.end = CalcEndTime(r.start, d)

ProperFit == \A i \in Ids : Proper(i) => WellEnded(rows[i])

ProperApart == \A i, j \in Ids : i # j /\ Proper(i) /\ Proper(j)
                                 => SlotOf(rows[i]) # SlotOf(rows[j])

\* only strays occupy slot k
Clear(k) == \A i \in Ids : Proper(i) => SlotOf(rows[i]) # k

Moving == {"move_lock", "move_check", "move_save", "move_write"}

\* the slot was found free, and the row is yet to be written
Saving == {"hold_save", "move_save", "move_write"}

\* what request p can rely on: once it has checked its slot, and as long as
\* the key is its own, the slot stays clear
Ready(p) ==
  /\ req[p].at \in Holding
       => SlotOf(req[p].snap) = req[p].key /\ WellEnded(req[p].snap)
  /\ req[p].at \in Moving => req[p].key[1] = req[p].snap.barber
  /\ req[p].at \in Saving /\ lock[req[p].key] = p => Clear(req[p].key)

HistoryInv == TypeInv /\ ProperFit /\ ProperApart /\ \A p \in Reqs : Ready(p)
-----------------------------------------------------------------------------
(***************************************************************************)
(* How the table can change: whoever comes to a place is a stray, or one   *)
(* booking x gets the slot of the request that saves it under the lock.    *)
(***************************************************************************)
OnlyStrays == \A i \in Ids : ComesTo(i) => Astray(i)

Gets(p, x) ==
  /\ req[p].at \in {"hold_save", "move_write"} /\ lock[req[p].key] = p
  /\ \A i \in Ids \ {x} : rows'[i] = rows[i]
  /\ SlotOf(rows'[x]) = req[p].key /\ WellEnded(rows'[x])

LEMMA StraysOnly ==
  ASSUME Record, OnlyStrays, NEW i \in Ids, Proper(i)'
  PROVE  Proper(i) /\ PlaceOf(rows[i]) = PlaceOf(rows'[i])
<1>1. ~ComesTo(i)
  BY DEF Record, OnlyStrays, Proper
<1>2. IsAt(i, rows'[i])
  BY <1>1 DEF ComesTo, Proper
<1>3. i \notin strays
  BY <1>1 DEF Record, Proper
<1>4. QED
  BY <1>2, <1>3 DEF IsAt, Proper

LEMMA OthersStay ==
  ASSUME Record, NEW i \in Ids, Proper(i)', rows'[i] = rows[i]
  PROVE  Proper(i)
<1>1. Occupies(i) /\ ~ComesTo(i)
  BY DEF Proper, Occupies, ComesTo, IsAt
<1>2. QED
  BY <1>1 DEF Record, Proper

LEMMA SamePlace ==
  ASSUME NEW r, NEW s, PlaceOf(r) = PlaceOf(s)
  PROVE  /\ SlotOf(r) = SlotOf(s)
         /\ WellEnded(r) => WellEnded(s)
<1>1. SlotOf(r) = SlotOf(s) /\ r.end = s.end
  BY DEF PlaceOf
<1>2. r.start = s.start
  BY <1>1 DEF SlotOf
<1>3. QED
  BY <1>1, <1>2 DEF WellEnded

LEMMA StraysKeep ==
  ASSUME HistoryInv, Record, OnlyStrays
  PROVE  ProperFit' /\ ProperApart' /\ \A k : Clear(k) => Clear(k)'
<1>1. ASSUME NEW i \in Ids, Proper(i)'
      PROVE  /\ Proper(i) /\ SlotOf(rows'[i]) = SlotOf(rows[i])
             /\ WellEnded(rows[i]) => WellEnded(rows'[i])
  BY <1>1, StraysOnly, SamePlace
<1>2. ProperFit'
  BY <1>1 DEF HistoryInv, ProperFit, WellEnded
<1>3. ProperApart'
  BY <1>1 DEF HistoryInv, ProperApart, SlotOf
<1>4. ASSUME NEW k, Clear(k)
      PROVE  Clear(k)'
  BY <1>1, <1>4 DEF Clear, SlotOf
<1>5. QED
  BY <1>2, <1>3, <1>4

LEMMA GetsKeeps ==
  ASSUME HistoryInv, Record, NEW p \in Reqs, NEW x \in Ids, Gets(p, x)
  PROVE  /\ ProperFit' /\ ProperApart'
         /\ \A k : Clear(k) /\ k # req[p].key => Clear(k)'
<1>1. ASSUME NEW i \in Ids, i # x, Proper(i)'
      PROVE  Proper(i) /\ rows'[i] = rows[i]
  BY <1>1, OthersStay DEF Gets
<1>2. Clear(req[p].key)
  BY DEF HistoryInv, Ready, Gets, Saving
<1>3. SlotOf(rows'[x]) = req[p].key /\ WellEnded(rows'[x])
  BY DEF Gets
<1>4. ProperFit'
  <2> SUFFICES ASSUME NEW i \in Ids, Proper(i)'
               PROVE  WellEnded(rows'[i])
    BY DEF ProperFit, WellEnded
  <2>1. QED
    BY <1>1, <1>3 DEF HistoryInv, ProperFit
<1>5. ProperApart'
  <2> SUFFICES ASSUME NEW i \in Ids, NEW j \in Ids, i # j, Proper(i)', Proper(j)'
               PROVE  SlotOf(rows'[i]) # SlotOf(rows'[j])
    BY DEF ProperApart, SlotOf
  <2>1. CASE i = x
    BY <1>1, <1>2, <1>3, <2>1 DEF Clear
  <2>2. CASE j = x
    BY <1>1, <1>2, <1>3, <2>2 DEF Clear
  <2>3. CASE i # x /\ j # x
    BY <1>1, <2>3 DEF HistoryInv, ProperApart
  <2>4. QED
    BY <2>1, <2>2, <2>3
<1>6. ASSUME NEW k, Clear(k), k # req[p].key
      PROVE  Clear(k)'
  <2> SUFFICES ASSUME NEW i \in Ids, Proper(i)'
               PROVE  SlotOf(rows'[i]) # k
    BY DEF Clear, SlotOf
  <2>1. QED
    BY <1>1, <1>3, <1>6 DEF Clear
<1>7. QED
  BY <1>4, <1>5, <1>6
-----------------------------------------------------------------------------
(***************************************************************************)
(* The step of a request, and what it leaves to the others.                *)
(***************************************************************************)
Effect(p) ==
  /\ \A q \in Reqs \ {p} : req'[q] = req[q]
  /\ \A q \in Reqs \ {p} : \A k \in Slots : lock'[k] = q => lock[k] = q
  /\ OnlyStrays \/ \E x \in Ids : Gets(p, x)

\* a request that stays as it is, with key k
LEMMA StaysReady ==
  ASSUME NEW q \in Reqs, Ready(q), req'[q] = req[q], NEW k, k = req[q].key,
         req[q].at \in Saving /\ lock'[k] = q => Clear(k)'
  PROVE  Ready(q)'
<1>1. req'[q].at \in Saving /\ lock'[req'[q].key] = q => Clear(req[q].key)'
  BY DEF Clear
<1>2. QED
  BY <1>1 DEF Ready, WellEnded

LEMMA RequestStep ==
  ASSUME HistoryInv, TypeInv', Record, NEW p \in Reqs, Effect(p), Ready(p)'
  PROVE  HistoryInv'
<1>1. ProperFit' /\ ProperApart'
  BY StraysKeep, GetsKeeps DEF Effect
<1>2. ASSUME NEW q \in Reqs \ {p}
      PROVE  Ready(q)'
  <2>1. req'[q] = req[q] /\ Ready(q) /\ Loaded(req[q])
    BY <1>2 DEF Effect, HistoryInv, TypeInv, ReqsOK
  <2>2. PICK k : k = req[q].key
    OBVIOUS
  <2>3. ASSUME req[q].at \in Saving, lock'[k] = q
        PROVE  Clear(k)'
    <3>1. k \in Slots
      BY <2>1, <2>2, <2>3 DEF Loaded, Keyed, InSection, Saving
    <3>2. lock[k] = q
      BY <1>2, <2>3, <3>1 DEF Effect
    <3>3. Clear(k)
      BY <2>1, <2>2, <2>3, <3>2 DEF Ready
    <3>4. ASSUME NEW x \in Ids, Gets(p, x)
          PROVE  Clear(k)'
      <4>1. k # req[p].key
        BY <1>2, <3>2, <3>4 DEF Gets
      <4>2. QED
        BY <3>3, <3>4, <4>1, GetsKeeps
    <3>5. CASE OnlyStrays
      BY <3>3, <3>5, StraysKeep
    <3>6. QED
      BY <3>4, <3>5 DEF Effect
  <2>4. QED
    BY <2>1, <2>2, <2>3, StaysReady
<1>3. QED
  BY <1>1, <1>2 DEF HistoryInv

\* a step of nobody's request
LEMMA OtherStep ==
  ASSUME HistoryInv, TypeInv', Record, OnlyStrays,
         \A p \in Reqs : req'[p] \in {req[p], Idle},
         \A p \in Reqs : \A k \in Slots : lock'[k] = p => lock[k] = p
  PROVE  HistoryInv'
<1>1. ASSUME NEW p \in Reqs
      PROVE  Ready(p)'
  <2>1. CASE req'[p] = Idle
    BY <2>1 DEF Idle, Ready, Holding, Moving, Saving
  <2>2. CASE req'[p] = req[p]
    <3>1. Ready(p) /\ Loaded(req[p])
      BY DEF HistoryInv, TypeInv, ReqsOK
    <3>2. PICK k : k = req[p].key
      OBVIOUS
    <3>3. req[p].at \in Saving => k \in Slots
      BY <3>1, <3>2 DEF Loaded, Keyed, InSection, Saving
    <3>4. req[p].at \in Saving /\ lock'[k] = p => Clear(k)'
      BY <3>1, <3>2, <3>3, StraysKeep DEF Ready
    <3>5. QED
      BY <2>2, <3>1, <3>2, <3>4, StaysReady
  <2>3. QED
    BY <2>1, <2>2
<1>2. QED
  BY <1>1, StraysKeep DEF HistoryInv

\* nobody comes to a place while the table stays
LEMMA TableStays == ASSUME rows' = rows PROVE OnlyStrays
BY DEF OnlyStrays, ComesTo, IsAt, Occupies

LEMMA OneChanges ==
  ASSUME NEW x \in Ids, \A i \in Ids \ {x} : rows'[i] = rows[i],
         ComesTo(x) => Astray(x)
  PROVE  OnlyStrays
BY DEF OnlyStrays, ComesTo, IsAt, Occupies
-----------------------------------------------------------------------------
(***************************************************************************)
(* The steps of one request.                                               *)
(***************************************************************************)
LEMMA AcquireLeaves ==
  ASSUME TypeInv, NEW p \in Reqs, NEW k, Acquire(p, k)
  PROVE  \A q \in Reqs \ {p} : \A l \in Slots : lock'[l] = q => lock[l] = q
BY DEF TypeInv, KeysOK, Acquire

\* a request that is neither before nor in a critical section that saves
LEMMA ElsewhereReady ==
  ASSUME NEW p \in Reqs, req'[p].at \notin Holding \cup Moving
  PROVE  Ready(p)'
BY DEF Ready, Holding, Moving, Saving

LEMMA LeftReady ==
  ASSUME TypeInv, NEW p \in Reqs, Respond(p) \/ LeaveSection(p)
  PROVE  Ready(p)' /\ \A q \in Reqs \ {p} : req'[q] = req[q]
BY ReqLeaves, ElsewhereReady DEF Holding, Moving

LEMMA ArriveStep ==
  ASSUME HistoryInv, NEW p \in Reqs, Arrive(p)
  PROVE  Effect(p) /\ Ready(p)'
<1>1. TypeInv
  BY DEF HistoryInv
<1>2. CASE HoldLock(p)
  <2>1. PICK k \in Slots, d \in Durs :
          /\ Acquire(p, k)
          /\ Become(p, [at |-> "hold_check", id |-> Nil, snap |-> NewRow(k, d),
                        seen |-> Nil, key |-> k])
    BY <1>2 DEF HoldLock
  <2>2. /\ req'[p] = [at |-> "hold_check", id |-> Nil, snap |-> NewRow(k, d),
                      seen |-> Nil, key |-> k]
        /\ \A q \in Reqs \ {p} : req'[q] = req[q]
    BY <1>1, <2>1, ReqMoves
  <2>3. SlotOf(NewRow(k, d)) = k /\ WellEnded(NewRow(k, d))
    BY DEF SlotOf, NewRow, Slots, WellEnded
  <2>4. Ready(p)'
    BY <2>2, <2>3 DEF Ready, Moving, Saving, WellEnded
  <2>5. OnlyStrays
    BY <1>2, TableStays DEF HoldLock, LocksAndReq
  <2>6. QED
    BY <1>1, <2>1, <2>2, <2>4, <2>5, AcquireLeaves DEF Effect
<1>3. ASSUME NEW i \in Ids, NEW point, NEW key, Start(p, point, i, key), OnlyReq,
             point \notin Holding,
             point \in Moving => key[1] = rows[i].barber /\ point \notin Saving
      PROVE  Effect(p) /\ Ready(p)'
  <2>1. /\ req'[p] = [at |-> point, id |-> i, snap |-> rows[i], seen |-> Nil,
                      key |-> key]
        /\ \A q \in Reqs \ {p} : req'[q] = req[q]
    BY <1>1, <1>3, ReqMoves DEF Start
  <2>2. Ready(p)'
    BY <1>3, <2>1 DEF Ready, Holding, Moving, Saving
  <2>3. QED
    BY <1>3, <2>1, <2>2, TableStays DEF Effect, OnlyReq
<1>4. ASSUME NEW i \in Ids, MoveRead(p, i)
      PROVE  Effect(p) /\ Ready(p)'
  <2>1. PICK d \in Dates, s \in Starts :
          Start(p, "move_lock", i, <<rows[i].barber, d, s>>)
    BY <1>4 DEF MoveRead
  <2>2. QED
    BY <1>3, <1>4, <2>1 DEF MoveRead, Holding, Saving
<1>5. ASSUME NEW i \in Ids, UpdateRead(p, i) \/ AdminMoveRead(p, i)
      PROVE  Effect(p) /\ Ready(p)'
  <2>1. PICK point \in {"update_save", "admin_check"}, d \in Dates, s \in Starts :
          Start(p, point, i, <<rows[i].barber, d, s>>)
    BY <1>5 DEF UpdateRead, AdminMoveRead
  <2>2. QED
    BY <1>3, <1>5, <2>1 DEF UpdateRead, AdminMoveRead, Holding, Moving
<1>6. ASSUME NEW i \in Ids, \/ VerifyRead(p, i) \/ ConfirmRead(p, i)
                            \/ CancelRead(p, i) \/ AdminRemoveRead(p, i)
      PROVE  Effect(p) /\ Ready(p)'
  <2>1. PICK point \in {"verify_save", "confirm_code", "confirm_save", "cancel_save",
                        "admin_delete"} : Start(p, point, i, Nil)
    BY <1>6 DEF VerifyRead, ConfirmRead, CancelRead, AdminRemoveRead
  <2>2. QED
    BY <1>3, <1>6, <2>1
       DEF VerifyRead, ConfirmRead, CancelRead, AdminRemoveRead, Holding, Moving
<1>7. QED
  BY <1>2, <1>4, <1>5, <1>6 DEF Arrive

\* a booking that is properly in the very slot checked would have been found
LEMMA CheckedIsClear ==
  ASSUME HistoryInv, NEW k \in Slots, NEW d \in Durs, IsSlotAvailable(k, d)
  PROVE  Clear(k)
<1> SUFFICES ASSUME NEW i \in Ids, Proper(i), SlotOf(rows[i]) = k
             PROVE  FALSE
  BY DEF Clear
<1>1. /\ rows[i].barber = k[1] /\ rows[i].date = k[2] /\ rows[i].start = k[3]
      /\ k[3] \in Nat /\ d \in Nat \ {0}
  BY GridAssumption DEF SlotOf, Slots
<1>2. PICK e \in Durs : rows[i].end = k[3] + e
  BY <1>1 DEF HistoryInv, ProperFit, WellEnded, CalcEndTime
<1>3. e \in Nat \ {0}
  BY GridAssumption
<1>4. i \in Occupants(k[1], k[2])
  BY <1>1 DEF Occupants, Occupies, Proper, Live
<1>5. ~Overlaps(k[3], k[3] + d, rows[i].start, rows[i].end)
  BY <1>4 DEF IsSlotAvailable, FreeOf
<1>6. QED
  BY <1>1, <1>2, <1>3, <1>5 DEF Overlaps

LEMMA ClearStays ==
  ASSUME NEW k, Clear(k), Record, rows' = rows
  PROVE  Clear(k)'
BY OthersStay DEF Clear

\* checked under the lock, or not: what the check saw is true
LEMMA CheckStep ==
  ASSUME HistoryInv, Record, NEW p \in Reqs, HoldCheck(p) \/ MoveCheck(p)
  PROVE  Effect(p) /\ Ready(p)'
<1>1. /\ TypeInv /\ Ready(p) /\ rows' = rows /\ lock' = lock
      /\ req[p].at \in {"hold_check", "move_check"}
  BY DEF HistoryInv, HoldCheck, MoveCheck, OnlyReq, KeysAndReq
<1>2. req[p].key \in Slots /\ req[p].snap \in Row
  BY <1>1 DEF TypeInv, ReqsOK, Loaded, Keyed, InSection
<1>3. CASE LeaveSection(p)
  BY <1>1, <1>3, LeftReady, TableStays DEF Effect
<1>4. ASSUME NEW point, GoTo(p, point),
             \/ req[p].at = "hold_check" /\ point = "hold_save"
             \/ req[p].at = "move_check" /\ point = "move_save",
             IsSlotAvailable(req[p].key, req[p].snap.dur)
      PROVE  Effect(p) /\ Ready(p)'
  <2>1. /\ req'[p].at = point /\ req'[p].snap = req[p].snap
        /\ req'[p].key = req[p].key
        /\ \A q \in Reqs \ {p} : req'[q] = req[q]
    BY <1>1, <1>4, ReqGoesOn
  <2>2. PICK k : k = req[p].key
    OBVIOUS
  <2>3. Clear(k)
    BY <1>2, <1>4, <2>2, CheckedIsClear DEF Row
  <2>4. Clear(k)'
    BY <1>1, <2>3, ClearStays
  <2>5. Clear(req[p].key)'
    BY <2>1, <2>2, <2>4 DEF Clear
  <2>6. Ready(p)'
    BY <1>1, <1>4, <2>1, <2>5 DEF Ready, Holding, Moving, Saving, WellEnded
  <2>7. QED
    BY <1>1, <2>1, <2>6, TableStays DEF Effect
<1>5. QED
  BY <1>3, <1>4 DEF HoldCheck, MoveCheck

LEMMA MoveLockStep ==
  ASSUME HistoryInv, NEW p \in Reqs, MoveLock(p)
  PROVE  Effect(p) /\ Ready(p)'
<1>1. TypeInv /\ Ready(p) /\ rows' = rows /\ req[p].at = "move_lock"
  BY DEF HistoryInv, MoveLock, LocksAndReq
<1>2. CASE lock' = lock /\ Respond(p)
  BY <1>1, <1>2, LeftReady, TableStays DEF Effect
<1>3. CASE Acquire(p, req[p].key) /\ GoTo(p, "move_check")
  <2>1. /\ req'[p].at = "move_check" /\ req'[p].snap = req[p].snap
        /\ req'[p].key = req[p].key
        /\ \A q \in Reqs \ {p} : req'[q] = req[q]
    BY <1>1, <1>3, ReqGoesOn
  <2>2. Ready(p)'
    BY <1>1, <2>1 DEF Ready, Holding, Moving, Saving
  <2>3. QED
    BY <1>1, <1>3, <2>1, <2>2, TableStays, AcquireLeaves DEF Effect
<1>4. QED
  BY <1>2, <1>3 DEF MoveLock

\* the steps that leave the table alone and end before any check
LEMMA QuietStep ==
  ASSUME HistoryInv, NEW p \in Reqs,
         \/ Mark(p) \/ Release(p) \/ ConfirmCode(p) \/ ConfirmEmit(p)
         \/ CancelFree(p) \/ AdminMoveCheck(p) \/ Throw(p)
  PROVE  Effect(p) /\ Ready(p)'
<1>1. TypeInv /\ rows' = rows
  BY DEF HistoryInv, Mark, Release, ConfirmCode, ConfirmEmit, CancelFree,
         AdminMoveCheck, Throw, OnlyReq, KeysAndReq, LocksAndReq
<1>2. \A q \in Reqs \ {p} : \A k \in Slots : lock'[k] = q => lock[k] = q
  <2>1. CASE Release(p)
    BY <1>1, <2>1, NilFacts DEF Release, TypeInv, KeysOK
  <2>2. CASE ~Release(p)
    BY <2>2
       DEF Mark, ConfirmCode, ConfirmEmit, CancelFree, AdminMoveCheck, Throw, OnlyReq,
           KeysAndReq
  <2>3. QED
    BY <2>1, <2>2
<1>3. CASE Respond(p) \/ LeaveSection(p)
  BY <1>1, <1>2, <1>3, LeftReady, TableStays DEF Effect
<1>4. CASE GoTo(p, "admin_update")
  BY <1>1, <1>2, <1>4, ReqGoesOn, ElsewhereReady, TableStays DEF Effect, Holding, Moving
<1>5. CASE ConfirmCode(p)
  <2>1. PICK c \in 1..MaxCode :
          Become(p, [req[p] EXCEPT !.at = "confirm_save", !.snap.code = c])
    BY <1>5 DEF ConfirmCode
  <2>2. /\ req'[p] = [req[p] EXCEPT !.at = "confirm_save", !.snap.code = c]
        /\ \A q \in Reqs \ {p} : req'[q] = req[q]
    BY <1>1, <2>1, ReqMoves
  <2>3. req'[p].at = "confirm_save"
    BY <1>1, <2>2 DEF TypeInv, ReqsOK, Request
  <2>4. QED
    BY <1>1, <1>2, <2>2, <2>3, ElsewhereReady, TableStays DEF Effect, Holding, Moving
<1>6. QED
  BY <1>3, <1>4, <1>5
     DEF Mark, Release, ConfirmEmit, CancelFree, AdminMoveCheck, Throw

\* the SELECT of a save leaves what the check found
LEMMA SelectStep ==
  ASSUME HistoryInv, Record, NEW p \in Reqs, Select(p)
  PROVE  Effect(p) /\ Ready(p)'
<1>1. /\ TypeInv /\ Ready(p) /\ rows' = rows /\ lock' = lock
  BY DEF HistoryInv, Select, OnlyReq
<1>2. /\ req'[p].snap = req[p].snap /\ req'[p].key = req[p].key
      /\ \A q \in Reqs \ {p} : req'[q] = req[q]
  BY <1>1, ReqSelects
<1>3. \/ req[p].at = "move_save" /\ req'[p].at = "move_write"
      \/ req'[p].at \notin Holding \cup Moving
  <2>1. PICK point, next : /\ <<point, next>> \in
                                {<<"verify_save", "verify_write">>,
                                 <<"confirm_save", "confirm_write">>,
                                 <<"cancel_save", "cancel_write">>,
                                 <<"move_save", "move_write">>,
                                 <<"update_save", "update_write">>}
                           /\ SelectAt(p, point, next)
    BY DEF Select
  <2>2. req[p].at = point /\ req'[p].at = next
    <3>1. req[p] \in Request
      BY <1>1 DEF TypeInv, ReqsOK
    <3>2. req'[p] = [req[p] EXCEPT !.at = next, !.seen = rows[req[p].id]]
      BY <1>1, <2>1, ReqMoves DEF SelectAt
    <3>3. QED
      BY <2>1, <3>1, <3>2 DEF SelectAt, Request
  <2>3. QED
    BY <2>1, <2>2 DEF Holding, Moving
<1>4. Ready(p)'
  <2>1. CASE req[p].at = "move_save" /\ req'[p].at = "move_write"
    <3>1. PICK k : k = req[p].key
      OBVIOUS
    <3>2. lock[k] = p => Clear(k)
      BY <1>1, <2>1, <3>1 DEF Ready, Saving
    <3>3. lock[k] = p => Clear(k)'
      BY <1>1, <3>2, ClearStays
    <3>4. lock[req[p].key] = p => Clear(req[p].key)'
      BY <1>2, <3>1, <3>3 DEF Clear
    <3>5. QED
      BY <1>1, <1>2, <2>1, <3>4 DEF Ready, Holding, Moving, Saving
  <2>2. CASE req'[p].at \notin Holding \cup Moving
    BY <2>2, ElsewhereReady
  <2>3. QED
    BY <1>3, <2>1, <2>2
<1>5. QED
  BY <1>1, <1>2, <1>4, TableStays DEF Effect

\* where a row that a handler computes lies
LEMMA ComputedPlaces ==
  ASSUME NEW r \in Row
  PROVE  /\ PlaceOf(Verified(r)) = PlaceOf(r)
         /\ PlaceOf(Confirmed(r)) = PlaceOf(r)
         /\ PlaceOf(Cancelled(r)) = PlaceOf(r)
BY DEF Verified, Confirmed, Cancelled, PlaceOf, SlotOf, Row

LEMMA MovedPlace ==
  ASSUME NEW r \in Row, NEW k \in Slots, k[1] = r.barber
  PROVE  SlotOf(Moved(r, k)) = k /\ WellEnded(Moved(r, k))
<1>1. k = <<k[1], k[2], k[3]>>
  BY DEF Slots
<1>2. /\ Moved(r, k).barber = k[1] /\ Moved(r, k).date = k[2]
      /\ Moved(r, k).start = k[3]
      /\ Moved(r, k).end = CalcEndTime(k[3], r.dur) /\ r.dur \in Durs
  BY DEF Moved, Row
<1>3. QED
  BY <1>1, <1>2 DEF SlotOf, WellEnded

\* a save of row r writes one booking, and where that was at the place of r it
\* stays there, whichever columns the UPDATE writes
LEMMA SavePlaces ==
  ASSUME TypeInv, NEW p \in Reqs, NEW r \in Row, Save(p, r), req[p].id \in Ids
  PROVE  /\ \A i \in Ids \ {req[p].id} : rows'[i] = rows[i]
         /\ rows[req[p].id] # Nil /\ PlaceOf(rows[req[p].id]) = PlaceOf(r)
              => PlaceOf(rows'[req[p].id]) = PlaceOf(r)
<1> DEFINE x == req[p].id
           now == rows[x]
<1>1. RowsOK /\ ReqsOK
  BY DEF TypeInv
<1>2. CASE Insert(p, r)
  BY <1>1, <1>2 DEF Insert, RowsOK
<1>3. CASE rows' = rows
  BY <1>3
<1>4. ASSUME NEW otp, rows' = [rows EXCEPT ![x] = Updated(now, req[p].seen, r, otp)]
      PROVE  /\ \A i \in Ids \ {x} : rows'[i] = rows[i]
             /\ PlaceOf(now) = PlaceOf(r) => PlaceOf(rows'[x]) = PlaceOf(r)
  <2>1. rows'[x] = Updated(now, req[p].seen, r, otp)
    BY <1>1, <1>4 DEF RowsOK
  <2>2. ASSUME PlaceOf(now) = PlaceOf(r)
        PROVE  PlaceOf(rows'[x]) = PlaceOf(r)
    <3>1. /\ now.barber = r.barber /\ now.date = r.date
          /\ now.start = r.start /\ now.end = r.end
      BY <2>2 DEF PlaceOf, SlotOf
    <3>2. /\ rows'[x].barber = r.barber /\ rows'[x].date = r.date
          /\ rows'[x].start = r.start /\ rows'[x].end = r.end
      BY <2>1, <3>1 DEF Updated, Column
    <3>3. QED
      BY <3>2 DEF PlaceOf, SlotOf
  <2>3. QED
    BY <1>1, <1>4, <2>2 DEF RowsOK
<1>5. QED
  BY <1>1, <1>2, <1>3, <1>4, SaveOutcomes

\* a verification, a confirmation or a cancellation finds the booking where it
\* was read, or overtakes what has happened to it since
LEMMA WriteBackStep ==
  ASSUME HistoryInv, NEW p \in Reqs, VerifySave(p) \/ ConfirmSave(p) \/ CancelSave(p)
  PROVE  Effect(p) /\ Ready(p)'
<1> DEFINE s == req[p].snap
<1>0. PICK x : x = req[p].id
  OBVIOUS
<1>1. TypeInv /\ s \in Row /\ x \in Ids /\ lock' = lock
  BY <1>0
     DEF HistoryInv, TypeInv, ReqsOK, Loaded, VerifySave, ConfirmSave, CancelSave,
         RowsAndReq
<1>2. PICK r \in {Verified(s), Confirmed(s), Cancelled(s)} : Save(p, r)
  BY DEF VerifySave, ConfirmSave, CancelSave
<1>3. r \in Row /\ PlaceOf(r) = PlaceOf(s)
  BY <1>1, <1>2, ComputedPlaces, VerifiedType, ConfirmedType, CancelledType
<1>4. /\ \A i \in Ids \ {x} : rows'[i] = rows[i]
      /\ rows[x] # Nil /\ PlaceOf(rows[x]) = PlaceOf(s)
           => PlaceOf(rows'[x]) = PlaceOf(s)
  BY <1>0, <1>1, <1>2, <1>3, SavePlaces
<1>5. ComesTo(x) => OvertakenBy(p, x)
  BY <1>0, <1>4 DEF ComesTo, OvertakenBy, IsAt, Occupies
<1>6. ComesTo(x) => Astray(x)
  BY <1>5 DEF Astray
<1>7. OnlyStrays
  BY <1>1, <1>4, <1>6, OneChanges
<1>8. Ready(p)' /\ \A q \in Reqs \ {p} : req'[q] = req[q]
  BY <1>1, LeftReady, ReqGoesOn, ElsewhereReady
     DEF VerifySave, ConfirmSave, CancelSave, Holding, Moving
<1>9. QED
  BY <1>1, <1>7, <1>8 DEF Effect

\* PATCH /bookings/:id, both deletions and the admin's reschedule
LEMMA EditStep ==
  ASSUME HistoryInv, NEW p \in Reqs,
         UpdateSave(p) \/ AdminMoveUpdate(p) \/ AdminRemoveDelete(p)
  PROVE  Effect(p) /\ Ready(p)'
<1>0. PICK x : x = req[p].id
  OBVIOUS
<1>1. TypeInv /\ req[p].snap \in Row /\ x \in Ids /\ lock' = lock
  BY <1>0
     DEF HistoryInv, TypeInv, ReqsOK, Loaded, UpdateSave, AdminMoveUpdate,
         AdminRemoveDelete, RowsAndReq
<1>2. \A i \in Ids \ {x} : rows'[i] = rows[i]
  <2>1. CASE UpdateSave(p)
    <3>1. req[p].key \in Slots
      BY <1>1, <2>1 DEF UpdateSave, TypeInv, ReqsOK, Loaded, Keyed
    <3>2. Edited(req[p].snap, req[p].key) \in Row
      BY <1>1, <3>1, EditedType
    <3>3. QED
      BY <1>0, <1>1, <2>1, <3>2, SavePlaces DEF UpdateSave
  <2>2. CASE AdminMoveUpdate(p) \/ AdminRemoveDelete(p)
    BY <1>0, <2>2 DEF AdminMoveUpdate, AdminRemoveDelete, Without
  <2>3. QED
    BY <2>1, <2>2
<1>3. ComesTo(x) => Astray(x)
  <2>1. CASE UpdateSave(p) \/ AdminMoveUpdate(p)
    <3>1. EditedBy(p, x)
      BY <1>0, <2>1 DEF EditedBy
    <3>2. QED
      BY <3>1 DEF Astray
  <2>2. CASE AdminRemoveDelete(p)
    BY <1>0, <1>1, <2>2 DEF AdminRemoveDelete, Without, ComesTo, Occupies
  <2>3. QED
    BY <2>1, <2>2
<1>4. OnlyStrays
  BY <1>1, <1>2, <1>3, OneChanges
<1>5. Ready(p)' /\ \A q \in Reqs \ {p} : req'[q] = req[q]
  BY <1>1, LeftReady DEF UpdateSave, AdminMoveUpdate, AdminRemoveDelete
<1>6. QED
  BY <1>1, <1>4, <1>5 DEF Effect

LEMMA HoldSaveStep ==
  ASSUME HistoryInv, NEW p \in Reqs, HoldSave(p)
  PROVE  Effect(p) /\ Ready(p)'
<1>0. PICK x : x = nextId
  OBVIOUS
<1>1. /\ TypeInv /\ Ready(p) /\ x \in Ids /\ req[p].at = "hold_save"
      /\ lock' = lock
  BY <1>0 DEF HistoryInv, HoldSave
<1>2. /\ rows'[x] = req[p].snap
      /\ \A i \in Ids \ {x} : rows'[i] = rows[i]
  BY <1>0, <1>1 DEF HoldSave, TypeInv, RowsOK
<1>3. OnlyStrays \/ Gets(p, x)
  <2>1. CASE lock[req[p].key] = p
    BY <1>1, <1>2, <2>1 DEF Gets, Ready, Holding
  <2>2. CASE lock[req[p].key] # p
    <3>1. TooLateBy(p, x)
      BY <1>0, <2>2 DEF TooLateBy
    <3>2. Astray(x)
      BY <3>1 DEF Astray
    <3>3. QED
      BY <1>1, <1>2, <3>2, OneChanges
  <2>3. QED
    BY <2>1, <2>2
<1>4. /\ req'[p] = [req[p] EXCEPT !.at = "hold_mark", !.id = nextId]
      /\ \A q \in Reqs \ {p} : req'[q] = req[q]
  BY <1>1, ReqMoves DEF HoldSave
<1>5. req'[p].at = "hold_mark"
  BY <1>1, <1>4 DEF TypeInv, ReqsOK, Request
<1>6. QED
  BY <1>1, <1>3, <1>4, <1>5, ElsewhereReady DEF Effect, Holding, Moving

LEMMA MoveSaveStep ==
  ASSUME HistoryInv, NEW p \in Reqs, MoveSave(p)
  PROVE  Effect(p) /\ Ready(p)'
<1> DEFINE s == req[p].snap
           k == req[p].key
<1>0. PICK x : x = req[p].id
  OBVIOUS
<1>1. /\ TypeInv /\ Ready(p) /\ req[p].at = "move_write" /\ lock' = lock
      /\ s \in Row /\ x \in Ids /\ k \in Slots
  BY <1>0
     DEF HistoryInv, MoveSave, TypeInv, ReqsOK, Loaded, Keyed, InSection, RowsAndReq
<1>2. SlotOf(Moved(s, k)) = k /\ WellEnded(Moved(s, k)) /\ Moved(s, k) \in Row
  BY <1>1, MovedPlace, MovedType DEF Ready, Moving
<1>3. \A i \in Ids \ {x} : rows'[i] = rows[i]
  BY <1>0, <1>1, <1>2, SavePlaces DEF MoveSave
<1>4. OnlyStrays \/ Gets(p, x)
  <2>1. CASE lock[k] = p /\ PlaceOf(rows'[x]) = PlaceOf(Moved(s, k))
    <3>1. SlotOf(rows'[x]) = k /\ WellEnded(rows'[x])
      BY <1>2, <2>1, SamePlace
    <3>2. QED
      BY <1>1, <1>3, <2>1, <3>1 DEF Gets
  <2>2. CASE lock[k] # p \/ PlaceOf(rows'[x]) # PlaceOf(Moved(s, k))
    <3>1. TooLateBy(p, x) \/ MixedBy(p, x)
      BY <1>0, <2>2 DEF TooLateBy, MixedBy
    <3>2. Astray(x)
      BY <3>1 DEF Astray
    <3>3. QED
      BY <1>1, <1>3, <3>2, OneChanges
  <2>3. QED
    BY <2>1, <2>2
<1>5. Ready(p)' /\ \A q \in Reqs \ {p} : req'[q] = req[q]
  BY <1>1, ReqGoesOn, ElsewhereReady DEF MoveSave, Holding, Moving
<1>6. QED
  BY <1>1, <1>4, <1>5 DEF Effect

LEMMA ContinueStep ==
  ASSUME HistoryInv, Record, NEW p \in Reqs, Continue(p)
  PROVE  Effect(p) /\ Ready(p)'
BY QuietStep, CheckStep, MoveLockStep, SelectStep, WriteBackStep, EditStep,
   HoldSaveStep, MoveSaveStep
   DEF Continue
-----------------------------------------------------------------------------
(***************************************************************************)
(* The other steps.                                                        *)
(***************************************************************************)
LEMMA AtOnceStep ==
  ASSUME HistoryInv, AtOnce
  PROVE  OnlyStrays
<1>1. rows \in [Ids -> Row \cup {Nil}]
  BY DEF HistoryInv, TypeInv, RowsOK
<1>2. ASSUME NEW S \in SUBSET Ids, \A i \in Ids \ S : rows'[i] = rows[i],
             \A i \in S : ComesTo(i) => Astray(i)
      PROVE  OnlyStrays
  BY <1>2 DEF OnlyStrays, ComesTo, IsAt, Occupies
<1>3. ASSUME NEW i \in Ids, GuestUpdate(i)
      PROVE  OnlyStrays
  <2>1. Astray(i)
    BY <1>3 DEF Astray
  <2>2. \A j \in Ids \ {i} : rows'[j] = rows[j]
    BY <1>1, <1>3 DEF GuestUpdate
  <2>3. QED
    BY <2>1, <2>2, OneChanges
<1>4. ASSUME NEW i \in Ids, Remove(i)
      PROVE  OnlyStrays
  BY <1>4 DEF Remove, Without, OnlyStrays, ComesTo, IsAt, Occupies
<1>5. ASSUME NEW i \in Ids, NEW st \in AdminStatuses, AdminUpdateStatus(i, st)
      PROVE  OnlyStrays
  <2>1. RevivedByHand(i)
    BY <1>5 DEF RevivedByHand
  <2>2. Astray(i)
    BY <2>1 DEF Astray
  <2>3. \A j \in Ids \ {i} : rows'[j] = rows[j]
    BY <1>5 DEF AdminUpdateStatus, WithStatus
  <2>4. QED
    BY <2>2, <2>3, OneChanges
<1>6. ASSUME NEW S \in SUBSET Ids,
             NEW st \in {"confirmed", "cancelled"} \cap AdminStatuses,
             BulkUpdateStatus(S, st)
      PROVE  OnlyStrays
  <2>1. ASSUME NEW i \in S
        PROVE  Astray(i)
    <3>1. RevivedByHand(i)
      BY <1>6 DEF RevivedByHand
    <3>2. QED
      BY <3>1 DEF Astray
  <2>2. \A j \in Ids \ S : rows'[j] = rows[j]
    BY <1>6 DEF BulkUpdateStatus, WithStatus, Eligible
  <2>3. QED
    BY <1>2, <2>1, <2>2
<1>7. QED
  BY <1>3, <1>4, <1>5, <1>6 DEF AtOnce

LEMMA CronStep ==
  ASSUME HistoryInv, Cron
  PROVE  OnlyStrays
<1>1. rows \in [Ids -> Row \cup {Nil}]
  BY DEF HistoryInv, TypeInv, RowsOK
<1>2. ASSUME \A i \in Ids : \/ rows'[i] = rows[i]
                            \/ rows'[i] = Nil
                            \/ rows'[i].status \in {"expired", "done"}
      PROVE  OnlyStrays
  BY <1>2 DEF OnlyStrays, ComesTo, IsAt, Occupies, Occupying
<1>3. ASSUME NEW c \in Crons, ExpireUpdate(c)
      PROVE  OnlyStrays
  <2>1. \A i \in Ids : \/ rows'[i] = rows[i]
                       \/ i \in Live /\ rows'[i] = [rows[i] EXCEPT !.status = "expired"]
    BY <1>3 DEF ExpireUpdate, WithStatus
  <2>2. \A i \in Live : [rows[i] EXCEPT !.status = "expired"].status = "expired"
    BY <1>1 DEF Live, Row
  <2>3. QED
    BY <1>2, <2>1, <2>2
<1>4. ASSUME NEW c \in Crons, ExpireFind(c) \/ ExpireFree(c) \/ CronThrows(c)
      PROVE  OnlyStrays
  BY <1>4, TableStays DEF ExpireFind, ExpireFree, CronThrows
<1>5. ASSUME NEW cutoff \in Ids, Archive(cutoff)
      PROVE  OnlyStrays
  BY <1>2, <1>5 DEF Archive, Without
<1>6. ASSUME NEW d \in Dates, MarkNoShows(d)
      PROVE  OnlyStrays
  <2>1. \A i \in Ids : \/ rows'[i] = rows[i]
                       \/ i \in Live /\ rows'[i] = NoShow(rows[i])
    BY <1>6 DEF MarkNoShows
  <2>2. \A i \in Live : NoShow(rows[i]).status = "done"
    BY <1>1 DEF Live, Row, NoShow
  <2>3. QED
    BY <1>2, <2>1, <2>2
<1>7. QED
  BY <1>3, <1>4, <1>5, <1>6 DEF Cron, SweepStep

\* A step of the table gives up slots, or gives one to the booking that gets it
LEMMA LedgerStep ==
  ASSUME HistoryInv, Record,
         OnlyStrays \/ \E p \in Reqs, x \in Ids : Gets(p, x)
  PROVE  [ProperLedger!Next]_ProperSlot
<1>1. ProperSlot = [i \in Ids |-> IF Proper(i) THEN SlotOf(rows[i]) ELSE Nil]
  BY DEF ProperSlot, Proper
<1>2. ProperSlot' = [i \in Ids |-> IF Proper(i)' THEN SlotOf(rows'[i]) ELSE Nil]
  BY DEF ProperSlot, Proper, SlotOf
<1>3. CASE OnlyStrays
  <2> DEFINE S == {i \in Ids : ~Proper(i)'}
  <2>1. \A i \in Ids : Proper(i)' => Proper(i) /\ SlotOf(rows'[i]) = SlotOf(rows[i])
    BY <1>3, StraysOnly, SamePlace
  <2>2. ProperSlot' = [i \in Ids |-> IF i \in S THEN Nil ELSE ProperSlot[i]]
    BY <1>1, <1>2, <2>1
  <2>3. ProperLedger!Free(S)
    BY <2>2 DEF ProperLedger!Free
  <2>4. QED
    BY <2>3 DEF ProperLedger!Next
<1>4. ASSUME NEW p \in Reqs, NEW x \in Ids, Gets(p, x)
      PROVE  [ProperLedger!Next]_ProperSlot
  <2> DEFINE k == req[p].key
  <2>1. k \in Slots /\ SlotOf(rows'[x]) = k /\ Clear(k)
    <3>1. Ready(p) /\ Loaded(req[p])
      BY DEF HistoryInv, TypeInv, ReqsOK
    <3>2. k \in Slots
      BY <1>4, <3>1 DEF Gets, Loaded, Keyed, InSection, Saving
    <3>3. Clear(k)
      BY <1>4, <3>1 DEF Gets, Ready, Saving
    <3>4. QED
      BY <1>4, <3>2, <3>3 DEF Gets
  <2>2. ASSUME NEW i \in Ids \ {x}
        PROVE  (Proper(i)' <=> Proper(i)) /\ rows'[i] = rows[i]
    <3>1. rows'[i] = rows[i]
      BY <1>4 DEF Gets
    <3>2. ~ComesTo(i) /\ (Occupies(i)' <=> Occupies(i))
      BY <3>1 DEF ComesTo, IsAt, Occupies
    <3>3. QED
      BY <3>1, <3>2 DEF Record, Proper
  <2>3. CASE Proper(x)'
    <3>1. \A g \in Ids : ProperSlot[g] # k
      BY <1>1, <2>1, NilFacts DEF Clear
    <3>2. ProperSlot' = [ProperSlot EXCEPT ![x] = k]
      BY <1>1, <1>2, <2>1, <2>2, <2>3
    <3>3. QED
      BY <2>1, <3>1, <3>2 DEF ProperLedger!Take, ProperLedger!Next
  <2>4. CASE ~Proper(x)'
    <3>1. ProperSlot' = [i \in Ids |-> IF i \in {x} THEN Nil ELSE ProperSlot[i]]
      BY <1>1, <1>2, <2>2, <2>4
    <3>2. ProperLedger!Free({x})
      BY <3>1 DEF ProperLedger!Free
    <3>3. QED
      BY <3>2 DEF ProperLedger!Next
  <2>5. QED
    BY <2>3, <2>4
<1>5. QED
  BY <1>3, <1>4

LEMMA NextKeepsHistory ==
  ASSUME HistoryInv, [HistoryNext]_historyVars
  PROVE  HistoryInv'
<1>1. CASE UNCHANGED historyVars
  BY <1>1
     DEF historyVars, HistoryInv, TypeInv, RowsOK, KeysOK, ReqsOK, ProperFit,
         ProperApart, Proper, Occupies, Ready, Clear, WellEnded
<1>2. CASE Next /\ Record
  <2>1. TypeInv'
    BY <1>2, NextType DEF HistoryInv
  <2>2. ASSUME NEW p \in Reqs, Arrive(p) \/ Continue(p)
        PROVE  HistoryInv'
    BY <1>2, <2>1, <2>2, ArriveStep, ContinueStep, RequestStep
  <2>3. CASE AtOnce \/ Cron
    <3>1. req' = req /\ lock' = lock
      BY <2>3
         DEF AtOnce, GuestUpdate, Remove, AdminUpdateStatus, BulkUpdateStatus, OnlyRows,
             Cron, SweepStep, ExpireFind, ExpireUpdate, ExpireFree, CronThrows, Archive,
             MarkNoShows
    <3>2. QED
      BY <1>2, <2>1, <2>3, <3>1, AtOnceStep, CronStep, OtherStep
  <2>4. CASE Passing
    <3>1. rows' = rows /\ req' = req
      BY <2>4 DEF Passing, LockExpires, HoldKeyExpires, DeadlinePasses
    <3>2. \A p \in Reqs : \A k \in Slots : lock'[k] = p => lock[k] = p
      BY <2>4, NilFacts
         DEF Passing, LockExpires, HoldKeyExpires, DeadlinePasses, HistoryInv, TypeInv,
             KeysOK
    <3>3. QED
      BY <1>2, <2>1, <3>1, <3>2, TableStays, OtherStep
  <2>5. CASE Crash
    <3>1. rows' = rows /\ lock' = lock /\ \A p \in Reqs : req'[p] = Idle
      BY <2>5 DEF Crash
    <3>2. QED
      BY <1>2, <2>1, <3>1, TableStays, OtherStep
  <2>6. QED
    BY <1>2, <2>2, <2>3, <2>4, <2>5 DEF Next
<1>3. QED
  BY <1>1, <1>2 DEF HistoryNext

LEMMA HistoryAlways == HistorySpec => []HistoryInv
<1>1. HistoryInit => HistoryInv
  <2> SUFFICES ASSUME HistoryInit PROVE HistoryInv
    OBVIOUS
  <2>1. TypeInv
    BY InitType DEF HistoryInit
  <2>2. ProperFit /\ ProperApart
    BY DEF HistoryInit, Init, ProperFit, ProperApart, Proper, Occupies
  <2>3. \A p \in Reqs : Ready(p)
    BY DEF HistoryInit, Init, Idle, Ready, Holding, Moving, Saving
  <2>4. QED
    BY <2>1, <2>2, <2>3 DEF HistoryInv
<1>2. QED
  BY <1>1, NextKeepsHistory, PTL DEF HistorySpec

\* The record adds no behaviour to Bookings: what is proved of the handlers
\* holds with it
THEOREM RecordOnlyLooksOn == HistorySpec => Spec
<1>1. HistoryInit => Init
  BY DEF HistoryInit
<1>2. [HistoryNext]_historyVars => [Next]_vars
  BY DEF HistoryNext, historyVars, vars
<1>3. QED
  BY <1>1, <1>2, PTL DEF HistorySpec, Spec

\* However requests, cron runs, crashes and TTLs interleave, whatever is asked
\* for: two bookings that share a time and start together have not both come
\* there by a save under the lock
THEOREM SharingIsExplained == HistorySpec => []SharingExplained
<1>1. HistoryInv => SharingExplained
  <2> SUFFICES ASSUME HistoryInv, NEW i \in Ids, NEW j \in Ids, i # j, Share(i, j),
                      i \notin strays, j \notin strays
               PROVE  rows[i].start # rows[j].start
    BY DEF SharingExplained
  <2>1. Proper(i) /\ Proper(j)
    BY DEF Share, Occupants, Live, Occupies, Proper
  <2>2. SlotOf(rows[i]) # SlotOf(rows[j])
    BY <2>1 DEF HistoryInv, ProperApart
  <2>3. QED
    BY <2>2 DEF Share, Occupants, SlotOf
<1>2. QED
  BY <1>1, HistoryAlways, PTL

LEMMA TableStep ==
  ASSUME HistoryInv, Next, Record
  PROVE  OnlyStrays \/ \E p \in Reqs, x \in Ids : Gets(p, x)
<1>1. ASSUME NEW p \in Reqs, Arrive(p) \/ Continue(p)
      PROVE  OnlyStrays \/ \E x \in Ids : Gets(p, x)
  BY <1>1, ArriveStep, ContinueStep DEF Effect
<1>2. CASE AtOnce \/ Cron
  BY <1>2, AtOnceStep, CronStep
<1>3. CASE Passing \/ Crash
  BY <1>3, TableStays DEF Passing, LockExpires, HoldKeyExpires, DeadlinePasses, Crash
<1>4. QED
  BY <1>1, <1>2, <1>3 DEF Next

\* With nothing assumed, the bookings that are no strays keep the promise of
\* SlotLedger: every step of every handler, every crash and every lease that
\* runs out frees slots, takes one that is free, or does neither
THEOREM LedgerButForStrays == HistorySpec => ImplementsProperLedger
<1>1. HistoryInit => ProperLedger!Init
  BY NilFacts DEF HistoryInit, Init, ProperLedger!Init, ProperSlot, Occupies
<1>2. HistoryInv /\ [HistoryNext]_historyVars => [ProperLedger!Next]_ProperSlot
  <2> SUFFICES ASSUME HistoryInv, [HistoryNext]_historyVars
               PROVE  [ProperLedger!Next]_ProperSlot
    OBVIOUS
  <2>1. CASE HistoryNext
    BY <2>1, TableStep, LedgerStep DEF HistoryNext
  <2>2. CASE UNCHANGED historyVars
    BY <2>2 DEF historyVars, ProperSlot, Occupies
  <2>3. QED
    BY <2>1, <2>2
<1>3. QED
  BY <1>1, <1>2, HistoryAlways, PTL
     DEF HistorySpec, ImplementsProperLedger, ProperLedger!Spec

\* Where every duration fits the grid of start times, the hazard of different
\* starts is gone: of two bookings that share a time one is a stray
THEOREM SharersAreStrays ==
  ASSUME Aligned
  PROVE  HistorySpec => []SharedHasStray
<1>1. HistoryInv => SharedHasStray
  <2> SUFFICES ASSUME HistoryInv, NEW i \in Ids, NEW j \in Ids, i # j, Share(i, j),
                      i \notin strays, j \notin strays
               PROVE  FALSE
    BY DEF SharedHasStray
  <2>1. Proper(i) /\ Proper(j)
    BY DEF Share, Occupants, Live, Occupies, Proper
  <2>2. rows[i].start # rows[j].start
    BY <2>1 DEF HistoryInv, ProperApart, Share, Occupants, SlotOf
  <2>3. ASSUME NEW x \in Ids, Proper(x)
        PROVE  /\ rows[x].start \in Starts /\ rows[x].start \in Nat
               /\ \E d \in Durs : rows[x].end = rows[x].start + d
    BY <2>3, GridAssumption
       DEF HistoryInv, TypeInv, RowsOK, ProperFit, WellEnded, CalcEndTime, Proper, Occupies,
           Row
  <2>4. PICK d \in Durs : rows[i].end = rows[i].start + d
    BY <2>1, <2>3
  <2>5. PICK e \in Durs : rows[j].end = rows[j].start + e
    BY <2>1, <2>3
  <2>6. rows[i].start < rows[j].start \/ rows[j].start < rows[i].start
    BY <2>1, <2>2, <2>3
  <2>7. rows[i].end <= rows[j].start \/ rows[j].end <= rows[i].start
    BY <2>1, <2>3, <2>4, <2>5, <2>6 DEF Aligned
  <2>8. d \in Nat /\ e \in Nat
    BY GridAssumption
  <2>9. QED
    BY <2>1, <2>3, <2>4, <2>5, <2>7, <2>8 DEF Share, Overlaps
<1>2. QED
  BY <1>1, HistoryAlways, PTL
-----------------------------------------------------------------------------
(***************************************************************************)
(* What is left when the lease holds and the operations that go around the *)
(* lock are not used: of what Disciplined asks for (see                    *)
(* BookingsExclusiveProofs), only that requests on one booking come one    *)
(* after another is not asked for here.                                    *)
(***************************************************************************)
NoWayAround == /\ Ops \cap {"update", "guest", "admin_move"} = {}
               /\ AdminStatuses \cap Occupying = {}

\* the points of the operations that do not take the lock
Edits == {"update_save", "update_write", "admin_check", "admin_update"}

NoEdits == \A p \in Reqs : req[p].at \notin Edits

LEMMA NextNoEdits ==
  ASSUME NoWayAround, TypeInv, NoEdits, [Next]_vars
  PROVE  NoEdits'
<1>1. ASSUME NEW p \in Reqs, \A q \in Reqs \ {p} : req'[q] = req[q],
             req'[p].at \notin Edits
      PROVE  NoEdits'
  BY <1>1 DEF NoEdits
<1>2. ASSUME NEW p \in Reqs, Respond(p) \/ LeaveSection(p)
      PROVE  NoEdits'
  BY <1>1, <1>2, ReqLeaves DEF Edits
<1>3. ASSUME NEW p \in Reqs, NEW point, point \notin Edits, GoTo(p, point)
      PROVE  NoEdits'
  BY <1>1, <1>3, ReqGoesOn
<1>4. ASSUME NEW p \in Reqs, HoldLock(p)
      PROVE  NoEdits'
  BY <1>1, <1>4, ReqMoves DEF HoldLock, Edits
<1>5. ASSUME NEW p \in Reqs, NEW i \in Ids, NEW point, NEW key,
             point \notin Edits, Start(p, point, i, key)
      PROVE  NoEdits'
  BY <1>1, <1>5, ReqMoves DEF Start
<1>6. ASSUME NEW p \in Reqs, NEW i \in Ids
      PROVE  ~UpdateRead(p, i) /\ ~AdminMoveRead(p, i)
  BY DEF UpdateRead, AdminMoveRead, Asked, NoWayAround
<1>7. ASSUME NEW p \in Reqs, NEW i \in Ids,
             \/ VerifyRead(p, i) \/ ConfirmRead(p, i) \/ CancelRead(p, i)
             \/ MoveRead(p, i) \/ AdminRemoveRead(p, i)
      PROVE  NoEdits'
  <2>1. PICK point \in {"verify_save", "confirm_code", "confirm_save", "cancel_save",
                        "move_lock", "admin_delete"} :
                \E key : Start(p, point, i, key)
    BY <1>7 DEF VerifyRead, ConfirmRead, CancelRead, MoveRead, AdminRemoveRead
  <2>2. QED
    BY <1>5, <2>1 DEF Edits
<1>8. ASSUME NEW p \in Reqs, HoldSave(p)
      PROVE  NoEdits'
  <2>1. /\ req'[p] = [req[p] EXCEPT !.at = "hold_mark", !.id = nextId]
        /\ \A q \in Reqs \ {p} : req'[q] = req[q]
    BY <1>8, ReqMoves DEF HoldSave
  <2>2. req'[p].at = "hold_mark"
    BY <2>1 DEF TypeInv, ReqsOK, Request
  <2>3. QED
    BY <1>1, <2>1, <2>2 DEF Edits
<1>9. ASSUME NEW p \in Reqs, ConfirmCode(p)
      PROVE  NoEdits'
  <2>1. PICK c \in 1..MaxCode :
          Become(p, [req[p] EXCEPT !.at = "confirm_save", !.snap.code = c])
    BY <1>9 DEF ConfirmCode
  <2>2. /\ req'[p] = [req[p] EXCEPT !.at = "confirm_save", !.snap.code = c]
        /\ \A q \in Reqs \ {p} : req'[q] = req[q]
    BY <2>1, ReqMoves
  <2>3. req'[p].at = "confirm_save"
    BY <2>2 DEF TypeInv, ReqsOK, Request
  <2>4. QED
    BY <1>1, <2>2, <2>3 DEF Edits
<1>9a. ASSUME NEW p \in Reqs, Select(p)
       PROVE  NoEdits'
  <2>1. ~SelectAt(p, "update_save", "update_write")
    BY DEF SelectAt, NoEdits, Edits
  <2>2. PICK point \in {"verify_write", "confirm_write", "cancel_write", "move_write"} :
          Become(p, [req[p] EXCEPT !.at = point, !.seen = rows[req[p].id]])
    BY <1>9a, <2>1 DEF Select, SelectAt
  <2>3. /\ req'[p] = [req[p] EXCEPT !.at = point, !.seen = rows[req[p].id]]
        /\ \A q \in Reqs \ {p} : req'[q] = req[q]
    BY <2>2, ReqMoves
  <2>4. req'[p].at = point
    BY <2>3 DEF TypeInv, ReqsOK, Request
  <2>5. QED
    BY <1>1, <2>3, <2>4 DEF Edits
<1>10. ASSUME NEW p \in Reqs, Continue(p), ~HoldSave(p), ~ConfirmCode(p), ~Select(p)
       PROVE  NoEdits'
  <2>1. ~AdminMoveCheck(p)
    BY DEF AdminMoveCheck, NoEdits, Edits
  <2>2. \/ Respond(p) \/ LeaveSection(p)
        \/ \E point \in Points \ Edits : GoTo(p, point)
    BY <1>10, <2>1
       DEF Continue, HoldCheck, Mark, Release, VerifySave, ConfirmSave, ConfirmEmit,
           CancelSave, CancelFree, MoveLock, MoveCheck, MoveSave, UpdateSave,
           AdminMoveUpdate, AdminRemoveDelete, Throw, Points, InSection, Edits
  <2>3. QED
    BY <1>2, <1>3, <2>2
<1>11. CASE req' = req \/ \A p \in Reqs : req'[p] = Idle
  BY <1>11 DEF NoEdits, Idle, Edits
<1>12. CASE AtOnce \/ Cron \/ Passing \/ Crash \/ UNCHANGED vars
  BY <1>11, <1>12
     DEF AtOnce, GuestUpdate, Remove, AdminUpdateStatus, BulkUpdateStatus, OnlyRows,
         Cron, SweepStep, ExpireFind, ExpireUpdate, ExpireFree, CronThrows, Archive,
         MarkNoShows, Passing, LockExpires, HoldKeyExpires, DeadlinePasses, Crash, vars
<1>13. QED
  BY <1>4, <1>6, <1>7, <1>8, <1>9, <1>9a, <1>10, <1>12 DEF Next, Arrive

\* With leases that hold and no operation that goes around the lock, a booking
\* goes astray by a save alone: a verification, a confirmation or a cancellation
\* writes a row back over one that has left its place since it was read, or a
\* reschedule's columns mix with those of another write
THEOREM OnlyOvertakenGoAstray ==
  ASSUME LeaseHolds, NoWayAround
  PROVE  HistorySpec => OnlyOvertaken
<1> DEFINE Inv == TypeInv /\ Leased /\ NoEdits
           A == \A i \in strays' \ strays : \E p \in Reqs : OvertakenBy(p, i) \/ MixedBy(p, i)
<1>1. HistoryInit => Inv
  BY InitType
     DEF HistoryInit, Init, Idle, Leased, InSection, NoEdits, Edits
<1>2. Inv /\ [HistoryNext]_historyVars => Inv'
  <2>1. [HistoryNext]_historyVars => [Next]_vars
    BY DEF HistoryNext, historyVars, vars
  <2>2. QED
    BY <2>1, NextType, NextLeased, NextNoEdits
<1>3. Inv /\ [HistoryNext]_historyVars => A
  <2> SUFFICES ASSUME Inv, Record, NEW i \in strays' \ strays
               PROVE  \E p \in Reqs : OvertakenBy(p, i) \/ MixedBy(p, i)
    BY DEF HistoryNext, historyVars
  <2>1. i \in Ids /\ ComesTo(i) /\ Astray(i)
    BY DEF Record
  <2>2. ~GuestUpdate(i)
    BY DEF GuestUpdate, Asked, NoWayAround
  <2>3. ~RevivedByHand(i)
    <3>1. ASSUME NEW st \in AdminStatuses, NEW S, i \in S,
                 rows' = WithStatus(S, st)
          PROVE  ~ComesTo(i)
      BY <2>1, <3>1
         DEF WithStatus, ComesTo, Occupies, IsAt, Live, TypeInv, RowsOK, Row, NoWayAround
    <3>2. ASSUME NEW st \in AdminStatuses
          PROVE  ~AdminUpdateStatus(i, st)
      BY <2>1, <3>1 DEF AdminUpdateStatus
    <3>3. ASSUME NEW S \in SUBSET Ids, NEW st \in AdminStatuses, i \in S
          PROVE  ~BulkUpdateStatus(S, st)
      <4>1. CASE i \in Eligible(S, st)
        BY <2>1, <3>1, <4>1 DEF BulkUpdateStatus
      <4>2. CASE i \notin Eligible(S, st)
        BY <2>1, <4>2 DEF BulkUpdateStatus, WithStatus, ComesTo, Occupies, IsAt
      <4>3. QED
        BY <4>1, <4>2
    <3>4. QED
      BY <3>2, <3>3 DEF RevivedByHand
  <2>4. ASSUME NEW p \in Reqs
        PROVE  ~EditedBy(p, i) /\ ~TooLateBy(p, i)
    <3>1. ~EditedBy(p, i)
      BY DEF EditedBy, UpdateSave, AdminMoveUpdate, NoEdits, Edits
    <3>2. ~TooLateBy(p, i)
      BY DEF TooLateBy, HoldSave, MoveSave, Leased, InSection
    <3>3. QED
      BY <3>1, <3>2
  <2>5. QED
    BY <2>1, <2>2, <2>3, <2>4 DEF Astray
<1>4. [][A]_historyVars <=> OnlyOvertaken
  BY DEF OnlyOvertaken
<1>5. QED
  BY <1>1, <1>2, <1>3, <1>4, PTL DEF HistorySpec
-----------------------------------------------------------------------------
(***************************************************************************)
(* What a row of one save vouches for.  With nothing assumed of how        *)
(* requests overlap: as long as no save has mixed the columns of two       *)
(* writes, every row in the table is the work of one handler on one row,   *)
(* and so is every entity a request is about to save.                      *)
(***************************************************************************)
Good(r) ==
  /\ r.status \in Held => r.hold
  /\ r.status = "otp_verified" \/ r.code # 0 => r.otpAt

Verifying == {"verify_save", "verify_write"}

Confirming == {"confirm_code", "confirm_save", "confirm_write"}

\* the entity is saved before the request is over
Carrying == Verifying \cup Confirming
              \cup {"cancel_save", "cancel_write", "move_lock", "move_check",
                    "move_save", "move_write", "update_save", "update_write"}

\* what the entity of request r is good for
Vouched(r) ==
  /\ r.at \in Carrying /\ r.id \notin mixed => Good(r.snap)
  /\ r.at \in Verifying => r.snap.status = "pending"
  /\ r.at \in Confirming => r.snap.status = "otp_verified"

\* nobody has written since the SELECT
UpToDate(p) ==
  BetweenCalls(p) /\ p \notin late => rows[req[p].id] = req[p].seen

RowsGood == \A i \in Live \ mixed : Good(rows[i])

SaveInv ==
  /\ SoundInv
  /\ late \subseteq Reqs /\ mixed \subseteq Ids
  /\ RowsGood
  /\ \A p \in Reqs : Vouched(req[p]) /\ UpToDate(p)

LEMMA ComputedGood ==
  ASSUME NEW r \in Row, Good(r)
  PROVE  /\ r.status = "pending" => Good(Verified(r))
         /\ r.status = "otp_verified" => Good(Confirmed(r))
         /\ r.status = "otp_verified" => \A c : Good([r EXCEPT !.code = c])
         /\ Good(Cancelled(r))
         /\ Good(NoShow(r))
         /\ \A k : Good(Moved(r, k)) /\ Good(Edited(r, k)) /\ Good(GuestEdited(r, k))
         /\ \A st \in Status \ Held : Good([r EXCEPT !.status = st])
<1>1. /\ r.status = "pending" => Good(Verified(r))
      /\ r.status = "otp_verified" => Good(Confirmed(r))
      /\ r.status = "otp_verified" => \A c : Good([r EXCEPT !.code = c])
      /\ Good(Cancelled(r))
      /\ Good(NoShow(r))
      /\ \A st \in Status \ Held : Good([r EXCEPT !.status = st])
  BY DEF Good, Row, Held, Verified, Confirmed, Cancelled, NoShow
<1>2. ASSUME NEW k
      PROVE  Good(Moved(r, k)) /\ Good(GuestEdited(r, k))
  BY DEF Good, Row, Moved, GuestEdited
<1>3. ASSUME NEW k
      PROVE  Good(Edited(r, k))
  <2>1. CASE k[3] = r.start
    BY <2>1 DEF Edited, Good, Row
  <2>2. CASE k[3] # r.start
    <3>1. /\ Edited(r, k).status = r.status /\ Edited(r, k).hold = r.hold
          /\ Edited(r, k).code = r.code /\ Edited(r, k).otpAt = r.otpAt
      BY <2>2 DEF Edited, Moved, Row
    <3>2. QED
      BY <3>1 DEF Good
  <2>3. QED
    BY <2>1, <2>2
<1>4. QED
  BY <1>1, <1>2, <1>3

LEMMA NewRowGood == \A k, d : Good(NewRow(k, d))
BY DEF Good, NewRow

\* a request that stays as it is
LEMMA StaysVouched ==
  ASSUME SaveInv, RecordSaves, NEW q \in Reqs, req'[q] = req[q]
  PROVE  Vouched(req[q])' /\ UpToDate(q)'
<1>1. Vouched(req[q]) /\ UpToDate(q) /\ mixed \subseteq mixed'
  BY DEF SaveInv, RecordSaves
<1>2. Vouched(req[q])'
  BY <1>1 DEF Vouched, Good
<1>3. ASSUME BetweenCalls(q)', q \notin late'
      PROVE  rows'[req'[q].id] = req'[q].seen
  <2>1. BetweenCalls(q)
    BY <1>3 DEF BetweenCalls
  <2>2. q \notin late /\ ~Written(req[q].id)
    BY <1>3, <2>1 DEF RecordSaves
  <2>3. QED
    BY <1>1, <2>1, <2>2 DEF UpToDate, Written
<1>4. QED
  BY <1>2, <1>3 DEF UpToDate

\* the table: rows stay, go, change in columns that vouch for nothing, or mix
RowsKeep ==
  \A i \in Ids : \/ rows'[i] \in {rows[i], Nil}
                 \/ rows[i] # Nil /\ (Good(rows[i]) => Good(rows'[i]))
                 \/ Good(rows'[i])
                 \/ i \in mixed'

LEMMA RowsKept ==
  ASSUME SaveInv, RecordSaves, RowsKeep
  PROVE  RowsGood'
<1>1. mixed \subseteq mixed'
  BY DEF RecordSaves
<1>2. ASSUME NEW i \in Ids, rows'[i] # Nil, i \notin mixed'
      PROVE  Good(rows'[i])
  BY <1>1, <1>2 DEF RowsKeep, SaveInv, RowsGood, Live
<1>3. QED
  BY <1>2 DEF RowsGood, Live, Good
\* a step of request p, as far as SaveInv is concerned
Vouches(p) ==
  /\ \A q \in Reqs \ {p} : req'[q] = req[q]
  /\ Vouched(req[p])' /\ UpToDate(p)'

LEMMA VouchesKeeps ==
  ASSUME SaveInv, SoundInv', RecordSaves, NEW p \in Reqs, Vouches(p), RowsKeep
  PROVE  SaveInv'
<1>1. \A q \in Reqs : Vouched(req[q])' /\ UpToDate(q)'
  BY StaysVouched DEF Vouches
<1>2. late' \subseteq Reqs
  BY DEF RecordSaves
<1>3. mixed' \subseteq Ids
  <2>1. ASSUME NEW q \in Reqs, Mixes(q)
        PROVE  req[q].id \in Ids
    BY <2>1 DEF Mixes, VerifySave, ConfirmSave, CancelSave, MoveSave, UpdateSave,
       SaveInv, SoundInv, TypeInv, ReqsOK, Loaded
  <2>2. QED
    BY <2>1 DEF RecordSaves, SaveInv
<1>4. QED
  BY <1>1, <1>2, <1>3, RowsKept DEF SaveInv

\* a request that is not about to save anything
LEMMA VouchesElsewhere ==
  ASSUME NEW p \in Reqs, \A q \in Reqs \ {p} : req'[q] = req[q],
         req'[p].at \notin Carrying
  PROVE  Vouches(p)
BY DEF Vouches, Vouched, UpToDate, BetweenCalls, Writes, Carrying, Verifying, Confirming

LEMMA VouchesLeaves ==
  ASSUME TypeInv, NEW p \in Reqs, Respond(p) \/ LeaveSection(p)
  PROVE  Vouches(p)
BY ReqLeaves, VouchesElsewhere DEF Carrying, Verifying, Confirming

LEMMA VouchesGoes ==
  ASSUME TypeInv, NEW p \in Reqs, NEW point, GoTo(p, point), point \notin Carrying
  PROVE  Vouches(p)
BY ReqGoesOn, VouchesElsewhere

\* a row that is there vouches for the request that reads it
LEMMA ArriveVouches ==
  ASSUME SaveInv, RecordSaves, NEW p \in Reqs, Arrive(p)
  PROVE  Vouches(p) /\ RowsKeep
<1>1. TypeInv /\ mixed \subseteq mixed' /\ \A i \in Live : rows[i] \in Row
  BY DEF SaveInv, SoundInv, RecordSaves, TypeInv, RowsOK, Live
<1>2. rows' = rows
  BY DEF Arrive, HoldLock, VerifyRead, ConfirmRead, CancelRead, MoveRead, UpdateRead,
         AdminMoveRead, AdminRemoveRead, OnlyReq, LocksAndReq
<1>3. CASE HoldLock(p)
  <2>1. PICK k \in Slots, d \in Durs :
          Become(p, [at |-> "hold_check", id |-> Nil, snap |-> NewRow(k, d),
                     seen |-> Nil, key |-> k])
    BY <1>3 DEF HoldLock
  <2>2. /\ req'[p].at = "hold_check"
        /\ \A q \in Reqs \ {p} : req'[q] = req[q]
    BY <1>1, <2>1, ReqMoves
  <2>3. QED
    BY <1>2, <2>2, VouchesElsewhere DEF RowsKeep, Carrying, Verifying, Confirming
<1>4. ASSUME NEW i \in Live, NEW point \in Points \ Writes, NEW key,
             Start(p, point, i, key),
             point \in Verifying => rows[i].status = "pending",
             point \in Confirming => rows[i].status = "otp_verified"
      PROVE  Vouches(p)
  <2>1. /\ req'[p] = [at |-> point, id |-> i, snap |-> rows[i], seen |-> Nil,
                      key |-> key]
        /\ \A q \in Reqs \ {p} : req'[q] = req[q]
    BY <1>1, <1>4, ReqMoves DEF Start
  <2>2. /\ req'[p].at = point /\ req'[p].id = i /\ req'[p].snap = rows[i]
    BY <2>1
  <2>3. i \notin mixed' => Good(rows[i])
    BY <1>1 DEF SaveInv, RowsGood
  <2>4. Vouched(req[p])'
    BY <1>4, <2>2, <2>3 DEF Vouched, Good
  <2>5. UpToDate(p)'
    BY <1>4, <2>2 DEF UpToDate, BetweenCalls
  <2>6. QED
    BY <2>1, <2>4, <2>5 DEF Vouches
<1>5. ASSUME NEW i \in Ids, VerifyRead(p, i)
      PROVE  Vouches(p)
  <2>1. i \in Live /\ rows[i].status = "pending" /\ Start(p, "verify_save", i, Nil)
    BY <1>1, <1>5, OnlyPendingIsVerified DEF VerifyRead, Asked
  <2>2. QED
    BY <1>4, <2>1 DEF Points, Writes, Confirming
<1>6. ASSUME NEW i \in Ids, ConfirmRead(p, i)
      PROVE  Vouches(p)
  <2>1. i \in Live /\ rows[i].status = "otp_verified"
    BY <1>1, <1>6, OnlyVerifiedIsConfirmed DEF ConfirmRead, Asked
  <2>2. PICK point \in {"confirm_code", "confirm_save"} : Start(p, point, i, Nil)
    BY <1>6 DEF ConfirmRead
  <2>3. QED
    BY <1>4, <2>1, <2>2 DEF Points, Writes, Verifying
<1>7. ASSUME NEW i \in Ids, \/ CancelRead(p, i) \/ MoveRead(p, i) \/ UpdateRead(p, i)
                            \/ AdminMoveRead(p, i) \/ AdminRemoveRead(p, i)
      PROVE  Vouches(p)
  <2>1. PICK point \in {"cancel_save", "move_lock", "update_save", "admin_check",
                        "admin_delete"} : \E key : Start(p, point, i, key)
    BY <1>7 DEF CancelRead, MoveRead, UpdateRead, AdminMoveRead, AdminRemoveRead
  <2>2. i \in Live
    BY <1>7 DEF CancelRead, MoveRead, UpdateRead, AdminMoveRead, AdminRemoveRead, Asked
  <2>3. QED
    BY <1>4, <2>1, <2>2 DEF Points, InSection, Writes, Verifying, Confirming
<1>8. QED
  BY <1>2, <1>3, <1>5, <1>6, <1>7 DEF Arrive, RowsKeep

\* the SELECT sees the row as it is
LEMMA SelectVouches ==
  ASSUME SaveInv, RecordSaves, NEW p \in Reqs, Select(p)
  PROVE  Vouches(p) /\ RowsKeep
<1>1. TypeInv /\ mixed \subseteq mixed' /\ rows' = rows
  BY DEF SaveInv, SoundInv, RecordSaves, Select, OnlyReq
<1>2. PICK point, next : /\ <<point, next>> \in
                              {<<"verify_save", "verify_write">>,
                               <<"confirm_save", "confirm_write">>,
                               <<"cancel_save", "cancel_write">>,
                               <<"move_save", "move_write">>,
                               <<"update_save", "update_write">>}
                         /\ SelectAt(p, point, next)
  BY DEF Select
<1>3. /\ req[p].at = point /\ req'[p].at = next
      /\ req'[p].id = req[p].id /\ req'[p].snap = req[p].snap
      /\ req'[p].seen = rows[req[p].id]
      /\ \A q \in Reqs \ {p} : req'[q] = req[q]
  <2>1. req[p] \in Request
    BY <1>1 DEF TypeInv, ReqsOK
  <2>2. req'[p] = [req[p] EXCEPT !.at = next, !.seen = rows[req[p].id]]
    BY <1>1, <1>2, ReqMoves DEF SelectAt
  <2>3. QED
    BY <1>1, <1>2, <2>1, <2>2, ReqSelects DEF SelectAt, Request
<1>4. /\ point \in Carrying
      /\ next \in Verifying => point \in Verifying
      /\ next \in Confirming => point \in Confirming
  BY <1>2 DEF Carrying, Verifying, Confirming
<1>5. Vouched(req[p])
  BY DEF SaveInv
<1>6. Vouched(req[p])'
  BY <1>1, <1>3, <1>4, <1>5 DEF Vouched, Good
<1>7. UpToDate(p)'
  BY <1>1, <1>3 DEF UpToDate
<1>8. QED
  BY <1>1, <1>3, <1>6, <1>7 DEF Vouches, RowsKeep
\* a save that nobody has come before leaves what its entity vouches for, one
\* that is late is on record
LEMMA SaveKeeps ==
  ASSUME SaveInv, RecordSaves, NEW p \in Reqs, Mixes(p), req[p].id \in Ids,
         NEW r \in Row, Save(p, r), req[p].id \notin mixed => Good(r)
  PROVE  RowsKeep
<1> DEFINE x == req[p].id
           now == rows[x]
<1>1. RowsOK /\ ReqsOK
  BY DEF SaveInv, SoundInv, TypeInv
<1>2. BetweenCalls(p)
  BY DEF Mixes, VerifySave, ConfirmSave, CancelSave, MoveSave, UpdateSave, BetweenCalls,
         Writes
<1>3. CASE p \in late
  <2>1. x \in mixed'
    BY <1>3 DEF RecordSaves
  <2>2. \A i \in Ids \ {x} : rows'[i] = rows[i]
    BY <1>1, SaveOutcomes DEF Insert, RowsOK
  <2>3. QED
    BY <2>1, <2>2 DEF RowsKeep
<1>4. CASE p \notin late
  <2>1. now = req[p].seen
    BY <1>2, <1>4 DEF SaveInv, UpToDate
  <2>2. x \in mixed \/ Good(r)
    OBVIOUS
  <2>3. ASSUME NEW new, rows' = [rows EXCEPT ![x] = new], Good(r) => Good(new)
        PROVE  RowsKeep
    BY <1>1, <2>2, <2>3 DEF RowsKeep, RowsOK, RecordSaves
  <2>4. CASE Insert(p, r)
    BY <2>3, <2>4 DEF Insert
  <2>5. CASE rows' = rows
    BY <2>5 DEF RowsKeep
  <2>6. ASSUME NEW otp \in BOOLEAN, now \in Row, otp = r.otpAt,
               rows' = [rows EXCEPT ![x] = Updated(now, req[p].seen, r, otp)]
        PROVE  RowsKeep
    <3> DEFINE new == Updated(now, req[p].seen, r, otp)
    <3>1. /\ new.status = r.status /\ new.hold = r.hold
          /\ new.code = r.code /\ new.otpAt = r.otpAt
      BY <2>1, <2>6 DEF Updated, Column
    <3>2. Good(r) => Good(new)
      BY <3>1 DEF Good
    <3>3. QED
      BY <2>3, <2>6, <3>2
  <2>7. QED
    BY <1>1, <2>1, <2>4, <2>5, <2>6, SaveOutcomes
<1>5. QED
  BY <1>3, <1>4

LEMMA MixesVouches ==
  ASSUME SaveInv, RecordSaves, NEW p \in Reqs, Mixes(p)
  PROVE  Vouches(p) /\ RowsKeep
<1> DEFINE s == req[p].snap
           k == req[p].key
<1>1. /\ TypeInv /\ s \in Row /\ req[p].id \in Ids
      /\ req[p].at \in {"move_write", "update_write"} => k \in Slots
      /\ req[p].at \in {"verify_write", "confirm_write", "cancel_write", "move_write",
                        "update_write"}
  BY DEF Mixes, VerifySave, ConfirmSave, CancelSave, MoveSave, UpdateSave, SaveInv,
         SoundInv, TypeInv, ReqsOK, Loaded, Keyed, InSection
<1>2. req[p].id \notin mixed => Good(s)
  BY <1>1 DEF SaveInv, Vouched, Carrying, Verifying, Confirming
<1>3. Vouches(p)
  BY <1>1, VouchesGoes, VouchesLeaves
     DEF Mixes, VerifySave, ConfirmSave, CancelSave, MoveSave, UpdateSave, Carrying,
         Verifying, Confirming
<1>4. CASE VerifySave(p)
  <2>1. s.status = "pending"
    BY <1>4 DEF VerifySave, SaveInv, Vouched, Verifying
  <2>2. Verified(s) \in Row /\ Save(p, Verified(s)) /\ (Good(s) => Good(Verified(s)))
    BY <1>1, <1>4, <2>1, VerifiedType, ComputedGood DEF VerifySave
  <2>3. QED
    BY <1>1, <1>2, <1>3, <2>2, SaveKeeps
<1>5. CASE ConfirmSave(p)
  <2>1. s.status = "otp_verified"
    BY <1>5 DEF ConfirmSave, SaveInv, Vouched, Confirming
  <2>2. Confirmed(s) \in Row /\ Save(p, Confirmed(s)) /\ (Good(s) => Good(Confirmed(s)))
    BY <1>1, <1>5, <2>1, ConfirmedType, ComputedGood DEF ConfirmSave
  <2>3. QED
    BY <1>1, <1>2, <1>3, <2>2, SaveKeeps
<1>6. CASE CancelSave(p)
  <2>1. Cancelled(s) \in Row /\ Save(p, Cancelled(s)) /\ (Good(s) => Good(Cancelled(s)))
    BY <1>1, <1>6, CancelledType, ComputedGood DEF CancelSave
  <2>2. QED
    BY <1>1, <1>2, <1>3, <2>1, SaveKeeps
<1>7. CASE MoveSave(p)
  <2>1. Moved(s, k) \in Row /\ Save(p, Moved(s, k)) /\ (Good(s) => Good(Moved(s, k)))
    BY <1>1, <1>7, MovedType, ComputedGood DEF MoveSave
  <2>2. QED
    BY <1>1, <1>2, <1>3, <2>1, SaveKeeps
<1>8. CASE UpdateSave(p)
  <2>1. Edited(s, k) \in Row /\ Save(p, Edited(s, k)) /\ (Good(s) => Good(Edited(s, k)))
    BY <1>1, <1>8, EditedType, ComputedGood DEF UpdateSave
  <2>2. QED
    BY <1>1, <1>2, <1>3, <2>1, SaveKeeps
<1>9. QED
  BY <1>4, <1>5, <1>6, <1>7, <1>8 DEF Mixes

LEMMA HoldSaveVouches ==
  ASSUME SaveInv, NEW p \in Reqs, HoldSave(p)
  PROVE  Vouches(p) /\ RowsKeep
<1>1. /\ TypeInv /\ req[p] \in Request /\ nextId \in Ids
      /\ Good(req[p].snap)
      /\ rows \in [Ids -> Row \cup {Nil}]
  BY NewRowGood
     DEF HoldSave, SaveInv, SoundInv, TypeInv, RowsOK, ReqsOK, HoldsAreNew, Holding, NewHold
<1>2. /\ req'[p] = [req[p] EXCEPT !.at = "hold_mark", !.id = nextId]
      /\ \A q \in Reqs \ {p} : req'[q] = req[q]
  BY <1>1, ReqMoves DEF HoldSave
<1>3. req'[p].at = "hold_mark"
  BY <1>1, <1>2 DEF Request
<1>4. Vouches(p)
  BY <1>2, <1>3, VouchesElsewhere DEF Carrying, Verifying, Confirming
<1>5. RowsKeep
  <2>1. PICK x : x = nextId
    OBVIOUS
  <2>2. rows'[x] = req[p].snap /\ \A i \in Ids \ {x} : rows'[i] = rows[i]
    BY <1>1, <2>1 DEF HoldSave
  <2>3. QED
    BY <1>1, <2>2 DEF RowsKeep
<1>6. QED
  BY <1>4, <1>5

LEMMA ConfirmCodeVouches ==
  ASSUME SaveInv, RecordSaves, NEW p \in Reqs, ConfirmCode(p)
  PROVE  Vouches(p) /\ RowsKeep
<1> DEFINE s == req[p].snap
<1>1. /\ TypeInv /\ req[p] \in Request /\ s \in Row
      /\ req[p].at = "confirm_code" /\ mixed \subseteq mixed' /\ Vouched(req[p])
      /\ rows' = rows
  BY DEF ConfirmCode, OnlyReq, SaveInv, SoundInv, TypeInv, ReqsOK, Loaded, RecordSaves
<1>2. PICK c \in 1..MaxCode :
        Become(p, [req[p] EXCEPT !.at = "confirm_save", !.snap.code = c])
  BY DEF ConfirmCode
<1>3. /\ req'[p] = [req[p] EXCEPT !.at = "confirm_save", !.snap.code = c]
      /\ \A q \in Reqs \ {p} : req'[q] = req[q]
  BY <1>1, <1>2, ReqMoves
<1>4. /\ req'[p].at = "confirm_save" /\ req'[p].id = req[p].id
      /\ req'[p].snap = [s EXCEPT !.code = c]
  BY <1>1, <1>3 DEF Request
<1>5. s.status = "otp_verified" /\ (req[p].id \notin mixed => Good(s))
  BY <1>1 DEF Vouched, Carrying, Confirming
<1>6. /\ Good(s) => Good([s EXCEPT !.code = c])
      /\ [s EXCEPT !.code = c].status = "otp_verified"
  <2>1. [s EXCEPT !.code = c].status = s.status
    BY <1>1 DEF Row
  <2>2. QED
    BY <1>1, <1>5, <2>1, ComputedGood
<1>7. Vouched(req[p])'
  BY <1>1, <1>4, <1>5, <1>6 DEF Vouched, Good, Verifying
<1>8. UpToDate(p)'
  BY <1>4 DEF UpToDate, BetweenCalls, Writes
<1>9. QED
  BY <1>1, <1>3, <1>7, <1>8 DEF Vouches, RowsKeep
LEMMA ContinueVouches ==
  ASSUME SaveInv, RecordSaves, NEW p \in Reqs, Continue(p)
  PROVE  Vouches(p) /\ RowsKeep
<1>1. TypeInv /\ \A i \in Live : rows[i] \in Row
  BY DEF SaveInv, SoundInv, TypeInv, RowsOK, Live
<1>2. CASE \/ Mark(p) \/ Release(p) \/ ConfirmEmit(p) \/ CancelFree(p) \/ HoldCheck(p)
           \/ AdminMoveCheck(p) \/ Throw(p)
  <2>1. rows' = rows
    BY <1>2 DEF Mark, Release, ConfirmEmit, CancelFree, HoldCheck, AdminMoveCheck, Throw,
       OnlyReq, KeysAndReq, LocksAndReq
  <2>2. Vouches(p)
    BY <1>1, <1>2, VouchesLeaves, VouchesGoes
       DEF Mark, Release, ConfirmEmit, CancelFree, HoldCheck, AdminMoveCheck, Throw,
           Carrying, Verifying, Confirming
  <2>3. QED
    BY <2>1, <2>2 DEF RowsKeep
<1>3. CASE MoveLock(p) \/ MoveCheck(p)
  <2>1. rows' = rows
    BY <1>3 DEF MoveLock, MoveCheck, LocksAndReq, KeysAndReq
  <2>2. ASSUME NEW point \in {"move_check", "move_save"}, GoTo(p, point),
               req[p].at \in {"move_lock", "move_check"}
        PROVE  Vouches(p)
    <3>1. /\ req'[p].at = point /\ req'[p].id = req[p].id
          /\ req'[p].snap = req[p].snap
          /\ \A q \in Reqs \ {p} : req'[q] = req[q]
      BY <1>1, <2>2, ReqGoesOn
    <3>2. Vouched(req[p]) /\ mixed \subseteq mixed'
      BY DEF SaveInv, RecordSaves
    <3>3. Vouched(req[p])'
      BY <2>2, <3>1, <3>2 DEF Vouched, Good, Carrying, Verifying, Confirming
    <3>4. UpToDate(p)'
      BY <2>2, <3>1 DEF UpToDate, BetweenCalls, Writes
    <3>5. QED
      BY <3>1, <3>3, <3>4 DEF Vouches
  <2>3. Vouches(p)
    BY <1>1, <1>3, <2>2, VouchesLeaves DEF MoveLock, MoveCheck
  <2>4. QED
    BY <2>1, <2>3 DEF RowsKeep
<1>4. CASE AdminMoveUpdate(p) \/ AdminRemoveDelete(p)
  <2>1. Vouches(p)
    BY <1>1, <1>4, VouchesLeaves DEF AdminMoveUpdate, AdminRemoveDelete
  <2>2. \A r \in Row : \A k : Good(r) => Good(Moved(r, k))
    BY ComputedGood
  <2>3. RowsKeep
    BY <1>1, <1>4, <2>2 DEF AdminMoveUpdate, AdminRemoveDelete, Without, RowsKeep, Live
  <2>4. QED
    BY <2>1, <2>3
<1>5. CASE Select(p)
  BY <1>5, SelectVouches
<1>6. CASE Mixes(p)
  BY <1>6, MixesVouches
<1>7. QED
  BY <1>2, <1>3, <1>4, <1>5, <1>6, HoldSaveVouches, ConfirmCodeVouches
     DEF Continue, Mixes

\* nobody's request: only an administrator could bring a hold back
LEMMA OthersKeepRows ==
  ASSUME NoHoldByHand, SaveInv, AtOnce \/ Cron \/ Passing \/ Crash
  PROVE  RowsKeep
<1>1. TypeInv /\ \A i \in Live : rows[i] \in Row
  BY DEF SaveInv, SoundInv, TypeInv, RowsOK, Live
<1>2. ASSUME NEW S, NEW st \in Status \ Held, rows' = WithStatus(S, st)
      PROVE  RowsKeep
  <2>1. \A i \in Live : Good(rows[i]) => Good([rows[i] EXCEPT !.status = st])
    BY <1>1, ComputedGood
  <2>2. QED
    BY <1>2, <2>1 DEF WithStatus, RowsKeep, Live
<1>3. ASSUME NEW S, rows' = Without(S)
      PROVE  RowsKeep
  BY <1>3 DEF Without, RowsKeep
<1>4. CASE AtOnce
  <2>1. ASSUME NEW i \in Ids, GuestUpdate(i)
        PROVE  RowsKeep
    <3>1. PICK k \in Slots : rows' = [rows EXCEPT ![i] = GuestEdited(rows[i], k)]
      BY <2>1 DEF GuestUpdate
    <3>2. i \in Live /\ (Good(rows[i]) => Good(GuestEdited(rows[i], k)))
      BY <1>1, <2>1, ComputedGood DEF GuestUpdate, Asked
    <3>3. QED
      BY <1>1, <3>1, <3>2 DEF RowsKeep, Live, TypeInv, RowsOK
  <2>2. AdminStatuses \subseteq Status \ Held
    BY SwitchAssumption DEF NoHoldByHand
  <2>3. QED
    BY <1>2, <1>3, <1>4, <2>1, <2>2 DEF AtOnce, Remove, AdminUpdateStatus, BulkUpdateStatus
<1>5. CASE Cron
  <2>1. "expired" \in Status \ Held
    BY DEF Status, Held
  <2>2. ASSUME NEW c \in Crons, ExpireFind(c) \/ ExpireFree(c) \/ CronThrows(c)
        PROVE  RowsKeep
    BY <2>2 DEF ExpireFind, ExpireFree, CronThrows, RowsKeep
  <2>3. ASSUME NEW d \in Dates, MarkNoShows(d)
        PROVE  RowsKeep
    <3>1. \A i \in Live : Good(rows[i]) => Good(NoShow(rows[i]))
      BY <1>1, ComputedGood
    <3>2. QED
      BY <2>3, <3>1 DEF MarkNoShows, RowsKeep, Live
  <2>4. QED
    BY <1>2, <1>3, <1>5, <2>1, <2>2, <2>3 DEF Cron, SweepStep, ExpireUpdate, Archive
<1>6. CASE Passing \/ Crash
  BY <1>6 DEF Passing, LockExpires, HoldKeyExpires, DeadlinePasses, Crash, RowsKeep
<1>7. QED
  BY <1>4, <1>5, <1>6

LEMMA OthersKeepSaves ==
  ASSUME NoHoldByHand, SaveInv, SoundInv', RecordSaves, AtOnce \/ Cron \/ Passing \/ Crash
  PROVE  SaveInv'
<1>1. RowsGood'
  BY OthersKeepRows, RowsKept
<1>2. late' \subseteq Reqs
  BY DEF RecordSaves
<1>3. mixed' \subseteq Ids
  <2>1. ASSUME NEW q \in Reqs, Mixes(q)
        PROVE  req[q].id \in Ids
    BY <2>1 DEF Mixes, VerifySave, ConfirmSave, CancelSave, MoveSave, UpdateSave,
       SaveInv, SoundInv, TypeInv, ReqsOK, Loaded
  <2>2. QED
    BY <2>1 DEF RecordSaves, SaveInv
<1>4. \A q \in Reqs : req'[q] \in {req[q], Idle}
  BY DEF AtOnce, GuestUpdate, Remove, AdminUpdateStatus, BulkUpdateStatus, OnlyRows,
         Cron, SweepStep, ExpireFind, ExpireUpdate, ExpireFree, CronThrows, Archive,
         MarkNoShows, Passing, LockExpires, HoldKeyExpires, DeadlinePasses, Crash
<1>5. ASSUME NEW q \in Reqs, req'[q] = Idle
      PROVE  Vouched(req[q])' /\ UpToDate(q)'
  BY <1>5 DEF Idle, Vouched, UpToDate, BetweenCalls, Writes, Carrying, Verifying, Confirming
<1>6. QED
  BY <1>1, <1>2, <1>3, <1>4, <1>5, StaysVouched DEF SaveInv

LEMMA NextKeepsSaves ==
  ASSUME NoHoldByHand, SaveInv, [SaveNext]_saveVars
  PROVE  SaveInv'
<1>1. SoundInv'
  BY NextSound DEF SaveInv, SaveNext, saveVars, vars
<1>2. CASE UNCHANGED saveVars
  BY <1>1, <1>2
     DEF saveVars, SaveInv, RowsGood, Live, Good, Vouched, UpToDate, BetweenCalls
<1>3. CASE SaveNext
  <2>1. ASSUME NEW p \in Reqs, Arrive(p) \/ Continue(p)
        PROVE  SaveInv'
    BY <1>1, <1>3, <2>1, ArriveVouches, ContinueVouches, VouchesKeeps DEF SaveNext
  <2>2. QED
    BY <1>1, <1>3, <2>1, OthersKeepSaves DEF SaveNext, Next
<1>4. QED
  BY <1>2, <1>3

LEMMA SavesAlways ==
  ASSUME NoHoldByHand
  PROVE  SaveSpec => []SaveInv
<1>1. SaveInit => SaveInv
  <2> SUFFICES ASSUME SaveInit PROVE SaveInv
    OBVIOUS
  <2>1. SoundInv
    BY InitSound DEF SaveInit
  <2>2. RowsGood
    BY DEF SaveInit, Init, RowsGood, Live
  <2>3. \A p \in Reqs : Vouched(req[p]) /\ UpToDate(p)
    BY DEF SaveInit, Init, Idle, Vouched, UpToDate, BetweenCalls, Writes, Carrying,
           Verifying, Confirming
  <2>4. QED
    BY <2>1, <2>2, <2>3 DEF SaveInit, SaveInv
<1>2. QED
  BY <1>1, NextKeepsSaves, PTL DEF SaveSpec

\* Where no administrator brings a hold back, a booking that waits for its
\* customer has a deadline and the cron finds it, whatever overtakes what:
\* unless a save wrote the columns that its SELECT had chosen over a row that
\* another handler had changed since
THEOREM DeadlinesAreExplained ==
  ASSUME NoHoldByHand
  PROVE  SaveSpec => []DeadlineExplained
<1>1. SaveInv => DeadlineExplained
  BY DEF SaveInv, RowsGood, Good, DeadlineExplained, WaitsWithDeadline
<1>2. QED
  BY <1>1, SavesAlways, PTL

\* And nothing but such a save leaves a booking verified, or with a code, whose
\* phone number nobody has proved
THEOREM PhonesAreExplained ==
  ASSUME NoHoldByHand
  PROVE  SaveSpec => []PhoneExplained
<1>1. SaveInv => PhoneExplained
  BY DEF SaveInv, RowsGood, Good, PhoneExplained
<1>2. QED
  BY <1>1, SavesAlways, PTL

\* Under the record, too, every variable keeps its type: a save that is recorded is
\* of a booking there has been
THEOREM SaveTypesCorrect == SaveSpec => []SaveTypeOK
<1> DEFINE Inv == TypeInv /\ late \subseteq Reqs /\ mixed \subseteq Ids
<1>1. SaveInit => Inv
  BY InitType DEF SaveInit
<1>2. Inv /\ [SaveNext]_saveVars => Inv'
  <2> SUFFICES ASSUME Inv, [SaveNext]_saveVars
               PROVE  Inv'
    OBVIOUS
  <2>1. TypeInv'
    BY NextType DEF SaveNext, saveVars, vars
  <2>2. CASE UNCHANGED saveVars
    BY <2>1, <2>2 DEF saveVars
  <2>3. CASE SaveNext
    <3>1. RecordSaves
      BY <2>3 DEF SaveNext
    <3>2. ASSUME NEW q \in Reqs, Mixes(q)
          PROVE  req[q].id \in Ids
      BY <3>2 DEF Mixes, VerifySave, ConfirmSave, CancelSave, MoveSave, UpdateSave,
         TypeInv, ReqsOK, Loaded
    <3>3. QED
      BY <2>1, <3>1, <3>2 DEF RecordSaves
  <2>4. QED
    BY <2>2, <2>3
<1>3. Inv => SaveTypeOK
  BY TypeInvGivesTypeOK DEF SaveTypeOK
<1>4. QED
  BY <1>1, <1>2, <1>3, PTL DEF SaveSpec

\* The record of mixed saves allows no behaviour that Bookings does not have: what
\* is proved of Bookings holds under it
THEOREM SaveRecordOnlyLooksOn == SaveSpec => Spec
<1>1. SaveInit => Init
  BY DEF SaveInit
<1>2. [SaveNext]_saveVars => [Next]_vars
  BY DEF SaveNext, saveVars, vars
<1>3. QED
  BY <1>1, <1>2, PTL DEF SaveSpec, Spec
=============================================================================
