---------------------------- MODULE BookingsProofs ----------------------------
(***************************************************************************)
(* Theorems about Bookings, and about the list of free slots that          *)
(* Availability reads from it, for every value of their constants.         *)
(***************************************************************************)
EXTENDS Availability, TLAPS

\* the durations fit the grid: a booking ends before the next start time
Aligned ==
  \A s, t \in Starts : \A d \in Durs : s < t => s + d <= t

(***************************************************************************)
(* What the handlers compute from a row is a row.                          *)
(***************************************************************************)
LEMMA SlotOfType == ASSUME NEW r \in Row PROVE SlotOf(r) \in Slots
BY DEF Row, SlotOf, Slots

LEMMA EndTimeType ==
  ASSUME NEW k \in Slots, NEW d \in Durs
  PROVE  CalcEndTime(k[3], d) \in Nat
<1>1. k[3] \in Nat /\ d \in Nat
  BY GridAssumption DEF Slots
<1>2. QED
  BY <1>1 DEF CalcEndTime

LEMMA NewRowType ==
  ASSUME NEW k \in Slots, NEW d \in Durs
  PROVE  NewRow(k, d) \in Row
BY EndTimeType, CodeAssumption DEF NewRow, Row, Slots, Status

LEMMA VerifiedType == ASSUME NEW r \in Row PROVE Verified(r) \in Row
BY DEF Verified, Row, Status

LEMMA ConfirmedType == ASSUME NEW r \in Row PROVE Confirmed(r) \in Row
BY DEF Confirmed, Row, Status

LEMMA CancelledType == ASSUME NEW r \in Row PROVE Cancelled(r) \in Row
BY DEF Cancelled, Row, Status

LEMMA MovedType ==
  ASSUME NEW r \in Row, NEW k \in Slots
  PROVE  Moved(r, k) \in Row
<1>1. CalcEndTime(k[3], r.dur) \in Nat
  BY EndTimeType DEF Row
<1>2. QED
  BY <1>1 DEF Moved, Row, Slots

LEMMA EditedType ==
  ASSUME NEW r \in Row, NEW k \in Slots
  PROVE  Edited(r, k) \in Row
BY MovedType DEF Edited, Row, Slots

LEMMA GuestEditedType ==
  ASSUME NEW r \in Row, NEW k \in Slots
  PROVE  GuestEdited(r, k) \in Row
BY DEF GuestEdited, Row, Slots

LEMMA NoShowType == ASSUME NEW r \in Row PROVE NoShow(r) \in Row
BY DEF NoShow, Row, Status

LEMMA WithCodeType ==
  ASSUME NEW r \in Row, NEW c \in 1..MaxCode
  PROVE  [r EXCEPT !.code = c] \in Row
BY CodeAssumption DEF Row
-----------------------------------------------------------------------------
(***************************************************************************)
(* Type correctness.  TypeOK is not inductive: a request saves the row it  *)
(* loaded, so one must know that it did load one.                          *)
(***************************************************************************)
Keyed == InSection \cup {"move_lock", "update_save", "update_write",
                        "admin_check", "admin_update"}

Loaded(r) ==
  /\ r.at \notin {"idle", "unlock"} => r.snap \in Row
  /\ r.at \notin {"idle", "unlock", "hold_check", "hold_save"} => r.id \in Ids
  /\ r.at \in Keyed => r.key \in Slots

ReqsOK == req \in [Reqs -> Request] /\ \A p \in Reqs : Loaded(req[p])

RowsOK == rows \in [Ids -> Row \cup {Nil}]

KeysOK == /\ nextId \in 1..(MaxBookings + 1)
          /\ due \subseteq Ids
          /\ lock \in [Slots -> Reqs \cup {Nil}]
          /\ holdKey \in [Slots -> Ids \cup {Nil}]
          /\ sweep \in [Crons -> Sweep]
          /\ announced \subseteq Ids

TypeInv == RowsOK /\ KeysOK /\ ReqsOK

LEMMA TypeInvGivesTypeOK == TypeInv => TypeOK
BY DEF TypeInv, TypeOK, RowsOK, KeysOK, ReqsOK

LEMMA NilFacts ==
  /\ Nil \notin Reqs
  /\ Nil \notin Ids
  /\ Nil \notin Slots
  /\ Nil \notin Row
BY NilAssumption

\* the moves of a request
LEMMA BecomeType ==
  ASSUME ReqsOK, NEW p \in Reqs, NEW r \in Request, Loaded(r), Become(p, r)
  PROVE  ReqsOK'
BY DEF ReqsOK, Become, Loaded

LEMMA IdleType == Idle \in Request /\ Loaded(Idle)
BY DEF Idle, Request, Points, InSection, Loaded, Keyed

LEMMA RespondType ==
  ASSUME ReqsOK, NEW p \in Reqs, Respond(p)
  PROVE  ReqsOK'
BY BecomeType, IdleType DEF Respond

LEMMA GoToType ==
  ASSUME ReqsOK, NEW p \in Reqs, NEW point \in Points, GoTo(p, point),
         req[p].snap \in Row,
         point \notin {"hold_check", "hold_save"} => req[p].id \in Ids,
         point \in Keyed => req[p].key \in Slots
  PROVE  ReqsOK'
<1> DEFINE r == [req[p] EXCEPT !.at = point, !.seen = Nil]
<1>1. r \in Request /\ r.at = point /\ r.id = req[p].id
                     /\ r.snap = req[p].snap /\ r.key = req[p].key
  BY DEF ReqsOK, Request
<1>2. Loaded(r)
  BY <1>1 DEF Loaded
<1>3. Become(p, r)
  BY DEF GoTo
<1>4. QED
  BY <1>1, <1>2, <1>3, BecomeType

LEMMA LeaveSectionType ==
  ASSUME ReqsOK, NEW p \in Reqs, LeaveSection(p), req[p].key \in Slots
  PROVE  ReqsOK'
<1> DEFINE r == [Idle EXCEPT !.at = "unlock", !.key = req[p].key]
<1>1. r \in Request /\ r.at = "unlock" /\ r.key = req[p].key
  BY DEF Idle, Request, Points, InSection
<1>2. Loaded(r)
  BY <1>1 DEF Loaded
<1>3. Become(p, r)
  BY DEF LeaveSection
<1>4. QED
  BY <1>1, <1>2, <1>3, BecomeType

LEMMA StartType ==
  ASSUME RowsOK, ReqsOK, NEW p \in Reqs, NEW i \in Live, NEW point \in Points,
         NEW key \in Slots \cup {Nil}, Start(p, point, i, key),
         point \in Keyed => key \in Slots
  PROVE  ReqsOK'
<1> DEFINE r == [at |-> point, id |-> i, snap |-> rows[i], seen |-> Nil, key |-> key]
<1>1. i \in Ids /\ rows[i] \in Row
  BY DEF Live, RowsOK
<1>2. r \in Request /\ Loaded(r)
  BY <1>1 DEF Request, Loaded
<1>3. Become(p, r)
  BY DEF Start
<1>4. QED
  BY <1>2, <1>3, BecomeType

\* what an UPDATE leaves is a row, each column of which is the one that was
\* there or the one that was to be saved
LEMMA UpdatedType ==
  ASSUME NEW now \in Row, NEW seen \in Row, NEW new \in Row, NEW otp \in BOOLEAN
  PROVE  Updated(now, seen, new, otp) \in Row
BY DEF Updated, Column, Row

LEMMA OtpColumnType ==
  ASSUME NEW now \in BOOLEAN, NEW seen \in BOOLEAN, NEW new \in BOOLEAN,
         NEW otp \in OtpColumn(now, seen, new)
  PROVE  otp \in {now, new} /\ (now = seen => otp = new)
<1>1. otp = Column(now, seen, new) \/ (new = TRUE /\ otp = TRUE)
  BY DEF OtpColumn
<1>2. CASE otp = Column(now, seen, new)
  BY <1>2 DEF Column
<1>3. CASE new = TRUE /\ otp = TRUE
  BY <1>3
<1>4. QED
  BY <1>1, <1>2, <1>3

\* the three outcomes of a save: an INSERT, an UPDATE, an UPDATE of no row
LEMMA SaveOutcomes ==
  ASSUME RowsOK, ReqsOK, NEW p \in Reqs, req[p].id \in Ids, NEW r \in Row,
         Save(p, r)
  PROVE  \/ Insert(p, r)
         \/ /\ rows[req[p].id] = Nil
            /\ rows' = rows
         \/ /\ rows[req[p].id] \in Row
            /\ req[p].seen \in Row
            /\ \E otp \in BOOLEAN :
                 LET now == rows[req[p].id]
                     new == Updated(now, req[p].seen, r, otp)
                 IN /\ new \in Row
                    /\ otp \in {now.otpAt, r.otpAt}
                    /\ now.otpAt = req[p].seen.otpAt => otp = r.otpAt
                    /\ CodeIsFree(req[p].id, new.code)
                    /\ rows' = [rows EXCEPT ![req[p].id] = new]
<1> DEFINE now == rows[req[p].id]
<1> DEFINE seen == req[p].seen
<1> SUFFICES ASSUME Update(p, r), now # Nil
             PROVE  /\ now \in Row
                    /\ seen \in Row
                    /\ \E otp \in BOOLEAN :
                         LET new == Updated(now, seen, r, otp)
                         IN /\ new \in Row
                            /\ otp \in {now.otpAt, r.otpAt}
                            /\ now.otpAt = seen.otpAt => otp = r.otpAt
                            /\ CodeIsFree(req[p].id, new.code)
                            /\ rows' = [rows EXCEPT ![req[p].id] = new]
  BY DEF Save, Update
<1>1. now \in Row /\ seen \in Row
  BY DEF Update, RowsOK, ReqsOK, Request
<1>2. /\ now.otpAt \in BOOLEAN
      /\ seen.otpAt \in BOOLEAN
      /\ r.otpAt \in BOOLEAN
  BY <1>1 DEF Row
<1>3. PICK otp \in OtpColumn(now.otpAt, seen.otpAt, r.otpAt) :
        /\ CodeIsFree(req[p].id, Updated(now, seen, r, otp).code)
        /\ rows' = [rows EXCEPT ![req[p].id] = Updated(now, seen, r, otp)]
  BY DEF Update
<1>4. otp \in {now.otpAt, r.otpAt}
  BY <1>2, <1>3, OtpColumnType
<1>5. otp \in BOOLEAN /\ (now.otpAt = seen.otpAt => otp = r.otpAt)
  BY <1>2, <1>3, <1>4, OtpColumnType
<1>6. Updated(now, seen, r, otp) \in Row
  BY <1>1, <1>5, UpdatedType
<1>7. QED
  BY <1>1, <1>3, <1>4, <1>5, <1>6

LEMMA SaveType ==
  ASSUME RowsOK, ReqsOK, NEW p \in Reqs, req[p].id \in Ids, NEW r \in Row,
         Save(p, r)
  PROVE  RowsOK'
BY SaveOutcomes DEF RowsOK, Insert

LEMMA WithStatusType ==
  ASSUME RowsOK, NEW S, NEW st \in Status, rows' = WithStatus(S, st)
  PROVE  RowsOK'
<1>1. ASSUME NEW i \in S \cap Live
      PROVE  [rows[i] EXCEPT !.status = st] \in Row
  BY <1>1 DEF Live, RowsOK, Row
<1>2. QED
  BY <1>1 DEF RowsOK, WithStatus

LEMMA WithoutType ==
  ASSUME RowsOK, NEW S, rows' = Without(S)
  PROVE  RowsOK'
BY DEF RowsOK, Without
-----------------------------------------------------------------------------
\* one lemma per action of a request
LEMMA HoldLockType ==
  ASSUME TypeInv, NEW p \in Reqs, HoldLock(p)
  PROVE  TypeInv'
<1>1. PICK k \in Slots, d \in Durs :
        /\ Acquire(p, k)
        /\ Become(p, [at |-> "hold_check", id |-> Nil, snap |-> NewRow(k, d),
                      seen |-> Nil, key |-> k])
  BY DEF HoldLock
<1> DEFINE r == [at |-> "hold_check", id |-> Nil, snap |-> NewRow(k, d),
                 seen |-> Nil, key |-> k]
<1>2. r \in Request /\ Loaded(r)
  BY NewRowType DEF Request, Points, InSection, Loaded
<1>3. ReqsOK'
  BY <1>1, <1>2, BecomeType DEF TypeInv
<1>4. QED
  BY <1>1, <1>3 DEF TypeInv, RowsOK, KeysOK, HoldLock, Acquire, LocksAndReq

LEMMA HoldCheckType ==
  ASSUME TypeInv, NEW p \in Reqs, HoldCheck(p)
  PROVE  TypeInv'
<1>1. req[p].snap \in Row /\ req[p].key \in Slots
  BY DEF HoldCheck, TypeInv, ReqsOK, Loaded, Keyed, InSection
<1>2. CASE GoTo(p, "hold_save")
  BY <1>1, <1>2, GoToType
     DEF TypeInv, RowsOK, KeysOK, HoldCheck, OnlyReq, Points, InSection
<1>3. CASE LeaveSection(p)
  BY <1>1, <1>3, LeaveSectionType DEF TypeInv, RowsOK, KeysOK, HoldCheck, OnlyReq
<1>4. QED
  BY <1>2, <1>3 DEF HoldCheck

LEMMA HoldSaveType ==
  ASSUME TypeInv, NEW p \in Reqs, HoldSave(p)
  PROVE  TypeInv'
<1> DEFINE r == [req[p] EXCEPT !.at = "hold_mark", !.id = nextId]
<1>1. req[p].snap \in Row /\ req[p].key \in Slots
  BY DEF HoldSave, TypeInv, ReqsOK, Loaded, Keyed, InSection
<1>2. r \in Request /\ r.id = nextId /\ r.snap = req[p].snap /\ r.key = req[p].key
  BY DEF HoldSave, TypeInv, ReqsOK, Request, Points, InSection
<1>3. Loaded(r)
  BY <1>1, <1>2 DEF Loaded, HoldSave
<1>4. ReqsOK'
  BY <1>2, <1>3, BecomeType DEF HoldSave, TypeInv
<1>5. RowsOK'
  BY <1>1 DEF HoldSave, TypeInv, RowsOK
<1>6. nextId' \in 1..(MaxBookings + 1)
  BY BoundAssumption DEF HoldSave, Ids
<1>7. QED
  BY <1>4, <1>5, <1>6 DEF TypeInv, KeysOK, HoldSave

LEMMA MarkType ==
  ASSUME TypeInv, NEW p \in Reqs, Mark(p)
  PROVE  TypeInv'
<1>1. req[p].key \in Slots /\ req[p].id \in Ids
  BY DEF Mark, TypeInv, ReqsOK, Loaded, Keyed, InSection
<1>2. ReqsOK'
  BY <1>1, LeaveSectionType DEF Mark, TypeInv
<1>3. holdKey' \in [Slots -> Ids \cup {Nil}]
  BY <1>1 DEF Mark, TypeInv, KeysOK
<1>4. QED
  BY <1>2, <1>3 DEF Mark, KeysAndReq, TypeInv, RowsOK, KeysOK

LEMMA ReleaseType ==
  ASSUME TypeInv, NEW p \in Reqs, Release(p)
  PROVE  TypeInv'
<1>1. ReqsOK'
  BY RespondType DEF Release, TypeInv
<1>2. lock' \in [Slots -> Reqs \cup {Nil}]
  BY DEF Release, TypeInv, KeysOK
<1>3. QED
  BY <1>1, <1>2 DEF Release, LocksAndReq, TypeInv, RowsOK, KeysOK

LEMMA VerifyReadType ==
  ASSUME TypeInv, NEW p \in Reqs, NEW i \in Ids, VerifyRead(p, i)
  PROVE  TypeInv'
<1>1. ReqsOK'
  BY StartType DEF VerifyRead, Asked, TypeInv, Points, Keyed, InSection
<1>2. QED
  BY <1>1 DEF VerifyRead, OnlyReq, TypeInv, RowsOK, KeysOK

\* the SELECT of a save
SavePoints == {"verify_save", "confirm_save", "cancel_save", "move_save",
               "update_save"}

LEMMA SelectMoves ==
  ASSUME NEW p \in Reqs, Select(p)
  PROVE  /\ req[p].at \in SavePoints
         /\ \E point \in Writes :
              /\ Become(p, [req[p] EXCEPT !.at = point, !.seen = rows[req[p].id]])
              /\ point \in Keyed <=> req[p].at \in Keyed
              /\ point \in InSection <=> req[p].at \in InSection
BY DEF Select, SelectAt, SavePoints, Writes, Keyed, InSection

LEMMA SelectType ==
  ASSUME TypeInv, NEW p \in Reqs, Select(p)
  PROVE  TypeInv'
<1>1. PICK point \in Writes :
        /\ Become(p, [req[p] EXCEPT !.at = point, !.seen = rows[req[p].id]])
        /\ point \in Keyed <=> req[p].at \in Keyed
  BY SelectMoves
<1> DEFINE r == [req[p] EXCEPT !.at = point, !.seen = rows[req[p].id]]
<1>2. /\ req[p].snap \in Row
      /\ req[p].id \in Ids
      /\ req[p].at \in Keyed => req[p].key \in Slots
      /\ req[p] \in Request
  BY SelectMoves DEF TypeInv, ReqsOK, Loaded, SavePoints
<1>3. rows[req[p].id] \in Row \cup {Nil}
  BY <1>2 DEF TypeInv, RowsOK
<1>4. /\ r \in Request
      /\ r.at = point /\ r.id = req[p].id
      /\ r.snap = req[p].snap /\ r.key = req[p].key
  BY <1>2, <1>3 DEF Request, Points, Writes, InSection
<1>5. Loaded(r)
  BY <1>1, <1>2, <1>4 DEF Loaded
<1>6. ReqsOK'
  BY <1>1, <1>4, <1>5, BecomeType DEF TypeInv
<1>7. QED
  BY <1>6 DEF Select, OnlyReq, TypeInv, RowsOK, KeysOK

LEMMA VerifySaveType ==
  ASSUME TypeInv, NEW p \in Reqs, VerifySave(p)
  PROVE  TypeInv'
<1>1. req[p].snap \in Row /\ req[p].id \in Ids
  BY DEF VerifySave, TypeInv, ReqsOK, Loaded
<1>2. RowsOK' /\ ReqsOK'
  BY <1>1, VerifiedType, SaveType, RespondType DEF VerifySave, TypeInv
<1>3. QED
  BY <1>2 DEF VerifySave, RowsAndReq, TypeInv, KeysOK

LEMMA ConfirmReadType ==
  ASSUME TypeInv, NEW p \in Reqs, NEW i \in Ids, ConfirmRead(p, i)
  PROVE  TypeInv'
<1>1. ReqsOK'
  BY StartType DEF ConfirmRead, Asked, TypeInv, Points, Keyed, InSection
<1>2. QED
  BY <1>1 DEF ConfirmRead, OnlyReq, TypeInv, RowsOK, KeysOK

LEMMA ConfirmCodeType ==
  ASSUME TypeInv, NEW p \in Reqs, ConfirmCode(p)
  PROVE  TypeInv'
<1>1. req[p].snap \in Row /\ req[p].id \in Ids
  BY DEF ConfirmCode, TypeInv, ReqsOK, Loaded
<1>2. PICK c \in 1..MaxCode :
        Become(p, [req[p] EXCEPT !.at = "confirm_save", !.snap.code = c])
  BY DEF ConfirmCode
<1> DEFINE r == [req[p] EXCEPT !.at = "confirm_save", !.snap.code = c]
<1>3. [req[p].snap EXCEPT !.code = c] \in Row
  BY <1>1, WithCodeType
<1>4. /\ r \in Request
      /\ r.at = "confirm_save"
      /\ r.id = req[p].id
      /\ r.snap = [req[p].snap EXCEPT !.code = c]
  BY <1>3 DEF TypeInv, ReqsOK, Request, Points
<1>5. Loaded(r)
  BY <1>1, <1>3, <1>4 DEF Loaded, Keyed, InSection
<1>6. ReqsOK'
  BY <1>2, <1>4, <1>5, BecomeType DEF TypeInv
<1>7. QED
  BY <1>6 DEF ConfirmCode, OnlyReq, TypeInv, RowsOK, KeysOK

LEMMA ConfirmSaveType ==
  ASSUME TypeInv, NEW p \in Reqs, ConfirmSave(p)
  PROVE  TypeInv'
<1>1. req[p].snap \in Row /\ req[p].id \in Ids
  BY DEF ConfirmSave, TypeInv, ReqsOK, Loaded
<1>2. RowsOK' /\ ReqsOK'
  BY <1>1, ConfirmedType, SaveType, GoToType
     DEF ConfirmSave, TypeInv, Points, Keyed, InSection
<1>3. QED
  BY <1>2 DEF ConfirmSave, RowsAndReq, TypeInv, KeysOK

LEMMA ConfirmEmitType ==
  ASSUME TypeInv, NEW p \in Reqs, ConfirmEmit(p)
  PROVE  TypeInv'
<1>1. ReqsOK'
  BY RespondType DEF ConfirmEmit, TypeInv
<1>2. announced' \subseteq Ids
  BY DEF ConfirmEmit, TypeInv, KeysOK, Live
<1>3. QED
  BY <1>1, <1>2 DEF ConfirmEmit, TypeInv, RowsOK, KeysOK

LEMMA CancelReadType ==
  ASSUME TypeInv, NEW p \in Reqs, NEW i \in Ids, CancelRead(p, i)
  PROVE  TypeInv'
<1>1. ReqsOK'
  BY StartType DEF CancelRead, Asked, TypeInv, Points, Keyed, InSection
<1>2. QED
  BY <1>1 DEF CancelRead, OnlyReq, TypeInv, RowsOK, KeysOK

LEMMA CancelSaveType ==
  ASSUME TypeInv, NEW p \in Reqs, CancelSave(p)
  PROVE  TypeInv'
<1>1. req[p].snap \in Row /\ req[p].id \in Ids
  BY DEF CancelSave, TypeInv, ReqsOK, Loaded
<1>2. RowsOK' /\ ReqsOK'
  BY <1>1, CancelledType, SaveType, GoToType
     DEF CancelSave, TypeInv, Points, Keyed, InSection
<1>3. QED
  BY <1>2 DEF CancelSave, RowsAndReq, TypeInv, KeysOK

LEMMA CancelFreeType ==
  ASSUME TypeInv, NEW p \in Reqs, CancelFree(p)
  PROVE  TypeInv'
<1>1. ReqsOK'
  BY RespondType DEF CancelFree, TypeInv
<1>2. holdKey' \in [Slots -> Ids \cup {Nil}]
  BY DEF CancelFree, TypeInv, KeysOK
<1>3. QED
  BY <1>1, <1>2 DEF CancelFree, KeysAndReq, TypeInv, RowsOK, KeysOK

LEMMA MoveReadType ==
  ASSUME TypeInv, NEW p \in Reqs, NEW i \in Ids, MoveRead(p, i)
  PROVE  TypeInv'
<1>1. PICK d \in Dates, s \in Starts :
        Start(p, "move_lock", i, <<rows[i].barber, d, s>>)
  BY DEF MoveRead
<1>2. <<rows[i].barber, d, s>> \in Slots
  BY DEF MoveRead, Asked, Live, TypeInv, RowsOK, Row, Slots
<1>3. ReqsOK'
  BY <1>1, <1>2, StartType DEF MoveRead, Asked, TypeInv, Points
<1>4. QED
  BY <1>3 DEF MoveRead, OnlyReq, TypeInv, RowsOK, KeysOK

LEMMA MoveLockType ==
  ASSUME TypeInv, NEW p \in Reqs, MoveLock(p)
  PROVE  TypeInv'
<1>1. req[p].snap \in Row /\ req[p].key \in Slots /\ req[p].id \in Ids
  BY DEF MoveLock, TypeInv, ReqsOK, Loaded, Keyed
<1>2. lock' \in [Slots -> Reqs \cup {Nil}]
  BY <1>1 DEF MoveLock, Acquire, TypeInv, KeysOK
<1>3. ReqsOK'
  BY <1>1, GoToType, RespondType DEF MoveLock, TypeInv, Points, InSection
<1>4. QED
  BY <1>2, <1>3 DEF MoveLock, LocksAndReq, TypeInv, RowsOK, KeysOK

LEMMA MoveCheckType ==
  ASSUME TypeInv, NEW p \in Reqs, MoveCheck(p)
  PROVE  TypeInv'
<1>1. req[p].snap \in Row /\ req[p].key \in Slots /\ req[p].id \in Ids
  BY DEF MoveCheck, TypeInv, ReqsOK, Loaded, Keyed, InSection
<1>2. holdKey' \in [Slots -> Ids \cup {Nil}]
  BY DEF MoveCheck, TypeInv, KeysOK
<1>3. ReqsOK'
  BY <1>1, GoToType, LeaveSectionType DEF MoveCheck, TypeInv, Points, InSection
<1>4. QED
  BY <1>2, <1>3 DEF MoveCheck, KeysAndReq, TypeInv, RowsOK, KeysOK

LEMMA MoveSaveType ==
  ASSUME TypeInv, NEW p \in Reqs, MoveSave(p)
  PROVE  TypeInv'
<1>1. req[p].snap \in Row /\ req[p].key \in Slots /\ req[p].id \in Ids
  BY DEF MoveSave, TypeInv, ReqsOK, Loaded, Keyed, InSection
<1>2. RowsOK' /\ ReqsOK'
  BY <1>1, MovedType, SaveType, GoToType DEF MoveSave, TypeInv, Points, InSection
<1>3. QED
  BY <1>2 DEF MoveSave, RowsAndReq, TypeInv, KeysOK

LEMMA UpdateReadType ==
  ASSUME TypeInv, NEW p \in Reqs, NEW i \in Ids, UpdateRead(p, i)
  PROVE  TypeInv'
<1>1. PICK d \in Dates, s \in Starts :
        Start(p, "update_save", i, <<rows[i].barber, d, s>>)
  BY DEF UpdateRead
<1>2. <<rows[i].barber, d, s>> \in Slots
  BY DEF UpdateRead, Asked, Live, TypeInv, RowsOK, Row, Slots
<1>3. ReqsOK'
  BY <1>1, <1>2, StartType DEF UpdateRead, Asked, TypeInv, Points
<1>4. QED
  BY <1>3 DEF UpdateRead, OnlyReq, TypeInv, RowsOK, KeysOK

LEMMA UpdateSaveType ==
  ASSUME TypeInv, NEW p \in Reqs, UpdateSave(p)
  PROVE  TypeInv'
<1>1. req[p].snap \in Row /\ req[p].key \in Slots /\ req[p].id \in Ids
  BY DEF UpdateSave, TypeInv, ReqsOK, Loaded, Keyed
<1>2. RowsOK' /\ ReqsOK'
  BY <1>1, EditedType, SaveType, RespondType DEF UpdateSave, TypeInv
<1>3. QED
  BY <1>2 DEF UpdateSave, RowsAndReq, TypeInv, KeysOK

LEMMA AdminMoveReadType ==
  ASSUME TypeInv, NEW p \in Reqs, NEW i \in Ids, AdminMoveRead(p, i)
  PROVE  TypeInv'
<1>1. PICK d \in Dates, s \in Starts :
        Start(p, "admin_check", i, <<rows[i].barber, d, s>>)
  BY DEF AdminMoveRead
<1>2. <<rows[i].barber, d, s>> \in Slots
  BY DEF AdminMoveRead, Asked, Live, TypeInv, RowsOK, Row, Slots
<1>3. ReqsOK'
  BY <1>1, <1>2, StartType DEF AdminMoveRead, Asked, TypeInv, Points
<1>4. QED
  BY <1>3 DEF AdminMoveRead, OnlyReq, TypeInv, RowsOK, KeysOK

LEMMA AdminMoveCheckType ==
  ASSUME TypeInv, NEW p \in Reqs, AdminMoveCheck(p)
  PROVE  TypeInv'
<1>1. req[p].snap \in Row /\ req[p].key \in Slots /\ req[p].id \in Ids
  BY DEF AdminMoveCheck, TypeInv, ReqsOK, Loaded, Keyed
<1>2. ReqsOK'
  BY <1>1, GoToType, RespondType DEF AdminMoveCheck, TypeInv, Points
<1>3. QED
  BY <1>2 DEF AdminMoveCheck, OnlyReq, TypeInv, RowsOK, KeysOK

LEMMA AdminMoveUpdateType ==
  ASSUME TypeInv, NEW p \in Reqs, AdminMoveUpdate(p)
  PROVE  TypeInv'
<1>1. req[p].key \in Slots
  BY DEF AdminMoveUpdate, TypeInv, ReqsOK, Loaded, Keyed
<1>2. \A i \in Live : Moved(rows[i], req[p].key) \in Row
  BY <1>1, MovedType DEF TypeInv, RowsOK, Live
<1>3. RowsOK'
  BY <1>2 DEF AdminMoveUpdate, TypeInv, RowsOK
<1>4. ReqsOK'
  BY RespondType DEF AdminMoveUpdate, TypeInv
<1>5. QED
  BY <1>3, <1>4 DEF AdminMoveUpdate, RowsAndReq, TypeInv, KeysOK

LEMMA AdminRemoveReadType ==
  ASSUME TypeInv, NEW p \in Reqs, NEW i \in Ids, AdminRemoveRead(p, i)
  PROVE  TypeInv'
<1>1. ReqsOK'
  BY StartType DEF AdminRemoveRead, Asked, TypeInv, Points, Keyed, InSection
<1>2. QED
  BY <1>1 DEF AdminRemoveRead, OnlyReq, TypeInv, RowsOK, KeysOK

LEMMA AdminRemoveDeleteType ==
  ASSUME TypeInv, NEW p \in Reqs, AdminRemoveDelete(p)
  PROVE  TypeInv'
<1>1. RowsOK' /\ ReqsOK'
  BY WithoutType, RespondType DEF AdminRemoveDelete, TypeInv
<1>2. QED
  BY <1>1 DEF AdminRemoveDelete, RowsAndReq, TypeInv, KeysOK

LEMMA ThrowType ==
  ASSUME TypeInv, NEW p \in Reqs, Throw(p)
  PROVE  TypeInv'
<1>1. CASE LeaveSection(p) /\ req[p].at \in InSection
  <2>1. req[p].key \in Slots
    BY <1>1 DEF TypeInv, ReqsOK, Loaded, Keyed
  <2>2. QED
    BY <1>1, <2>1, LeaveSectionType DEF Throw, OnlyReq, TypeInv, RowsOK, KeysOK
<1>2. CASE Respond(p)
  BY <1>2, RespondType DEF Throw, OnlyReq, TypeInv, RowsOK, KeysOK
<1>3. QED
  BY <1>1, <1>2 DEF Throw
-----------------------------------------------------------------------------
\* the handlers of one step, the cron, time and the crash
LEMMA AtOnceType ==
  ASSUME TypeInv, AtOnce
  PROVE  TypeInv'
<1>1. ASSUME NEW i \in Ids, GuestUpdate(i)
      PROVE  TypeInv'
  <2>1. PICK k \in Slots : rows' = [rows EXCEPT ![i] = GuestEdited(rows[i], k)]
    BY <1>1 DEF GuestUpdate
  <2>2. GuestEdited(rows[i], k) \in Row
    BY <1>1, GuestEditedType DEF GuestUpdate, Asked, Live, TypeInv, RowsOK
  <2>3. RowsOK'
    BY <2>1, <2>2 DEF TypeInv, RowsOK
  <2>4. QED
    BY <1>1, <2>3 DEF GuestUpdate, OnlyRows, TypeInv, KeysOK, ReqsOK
<1>2. ASSUME NEW i \in Ids, Remove(i)
      PROVE  TypeInv'
  BY <1>2, WithoutType DEF Remove, OnlyRows, TypeInv, KeysOK, ReqsOK
<1>3. ASSUME NEW i \in Ids, NEW st \in AdminStatuses, AdminUpdateStatus(i, st)
      PROVE  TypeInv'
  BY <1>3, WithStatusType, SwitchAssumption
     DEF AdminUpdateStatus, OnlyRows, TypeInv, KeysOK, ReqsOK
<1>4. ASSUME NEW S \in SUBSET Ids, NEW st \in AdminStatuses, BulkUpdateStatus(S, st)
      PROVE  TypeInv'
  BY <1>4, WithStatusType, SwitchAssumption
     DEF BulkUpdateStatus, OnlyRows, TypeInv, KeysOK, ReqsOK
<1>5. QED
  BY <1>1, <1>2, <1>3, <1>4 DEF AtOnce

LEMMA SweepType ==
  ASSUME TypeInv, NEW c \in Crons, SweepStep(c) \/ CronThrows(c)
  PROVE  TypeInv'
<1>1. NoSweep \in Sweep
  BY DEF NoSweep, Sweep
<1>2. CASE ExpireFind(c)
  <2>1. {SlotOf(rows[i]) : i \in Stale} \subseteq Slots
    BY SlotOfType DEF Stale, Live, TypeInv, RowsOK
  <2>2. [at |-> "update", ids |-> Stale,
         keys |-> {SlotOf(rows[i]) : i \in Stale}] \in Sweep
    BY <2>1 DEF Sweep, Stale, Live
  <2>3. sweep' \in [Crons -> Sweep]
    BY <1>2, <2>2 DEF ExpireFind, TypeInv, KeysOK
  <2>4. QED
    BY <1>2, <2>3 DEF ExpireFind, TypeInv, RowsOK, KeysOK, ReqsOK
<1>3. CASE ExpireUpdate(c)
  <2>1. RowsOK'
    BY <1>3, WithStatusType DEF ExpireUpdate, TypeInv, Status
  <2>2. sweep' \in [Crons -> Sweep]
    BY <1>3 DEF ExpireUpdate, TypeInv, KeysOK, Sweep
  <2>3. QED
    BY <1>3, <2>1, <2>2 DEF ExpireUpdate, TypeInv, KeysOK, ReqsOK
<1>4. CASE ExpireFree(c)
  <2>1. holdKey' \in [Slots -> Ids \cup {Nil}]
    BY <1>4 DEF ExpireFree, TypeInv, KeysOK
  <2>2. QED
    BY <1>1, <1>4, <2>1 DEF ExpireFree, TypeInv, RowsOK, KeysOK, ReqsOK
<1>5. CASE CronThrows(c)
  BY <1>1, <1>5 DEF CronThrows, TypeInv, RowsOK, KeysOK, ReqsOK
<1>6. QED
  BY <1>2, <1>3, <1>4, <1>5 DEF SweepStep

LEMMA CronType ==
  ASSUME TypeInv, Cron
  PROVE  TypeInv'
<1>1. ASSUME NEW cutoff \in Ids, Archive(cutoff)
      PROVE  TypeInv'
  BY <1>1, WithoutType DEF Archive, OnlyRows, TypeInv, KeysOK, ReqsOK
<1>2. ASSUME NEW d \in Dates, MarkNoShows(d)
      PROVE  TypeInv'
  <2>1. \A i \in Live : NoShow(rows[i]) \in Row
    BY NoShowType DEF Live, TypeInv, RowsOK
  <2>2. RowsOK'
    BY <1>2, <2>1 DEF MarkNoShows, TypeInv, RowsOK
  <2>3. QED
    BY <1>2, <2>2 DEF MarkNoShows, OnlyRows, TypeInv, KeysOK, ReqsOK
<1>3. QED
  BY <1>1, <1>2, SweepType DEF Cron

LEMMA PassingType ==
  ASSUME TypeInv, Passing
  PROVE  TypeInv'
<1>1. ASSUME NEW k \in Slots, LockExpires(k)
      PROVE  TypeInv'
  BY <1>1 DEF LockExpires, TypeInv, RowsOK, KeysOK, ReqsOK
<1>2. ASSUME NEW k \in Slots, HoldKeyExpires(k)
      PROVE  TypeInv'
  BY <1>2 DEF HoldKeyExpires, TypeInv, RowsOK, KeysOK, ReqsOK
<1>3. ASSUME NEW i \in Ids, DeadlinePasses(i)
      PROVE  TypeInv'
  BY <1>3 DEF DeadlinePasses, TypeInv, RowsOK, KeysOK, ReqsOK
<1>4. QED
  BY <1>1, <1>2, <1>3 DEF Passing

LEMMA CrashType ==
  ASSUME TypeInv, Crash
  PROVE  TypeInv'
<1>1. NoSweep \in Sweep
  BY DEF NoSweep, Sweep
<1>2. ReqsOK'
  BY IdleType DEF Crash, ReqsOK
<1>3. QED
  BY <1>1, <1>2 DEF Crash, TypeInv, RowsOK, KeysOK

LEMMA InitType == Init => TypeInv
<1> SUFFICES ASSUME Init PROVE TypeInv
  OBVIOUS
<1>1. NoSweep \in Sweep
  BY DEF NoSweep, Sweep
<1>2. RowsOK /\ ReqsOK
  BY IdleType DEF Init, RowsOK, ReqsOK
<1>3. nextId \in 1..(MaxBookings + 1)
  BY BoundAssumption DEF Init
<1>4. QED
  BY <1>1, <1>2, <1>3 DEF Init, TypeInv, KeysOK

LEMMA NextType == TypeInv /\ [Next]_vars => TypeInv'
<1> SUFFICES ASSUME TypeInv, [Next]_vars PROVE TypeInv'
  OBVIOUS
<1>1. ASSUME NEW p \in Reqs, Arrive(p)
      PROVE  TypeInv'
  BY <1>1, HoldLockType, VerifyReadType, ConfirmReadType, CancelReadType,
     MoveReadType, UpdateReadType, AdminMoveReadType, AdminRemoveReadType
     DEF Arrive
<1>2. ASSUME NEW p \in Reqs, Continue(p)
      PROVE  TypeInv'
  BY <1>2, HoldCheckType, HoldSaveType, MarkType, ReleaseType, SelectType,
     VerifySaveType,
     ConfirmCodeType, ConfirmSaveType, ConfirmEmitType, CancelSaveType,
     CancelFreeType, MoveLockType, MoveCheckType, MoveSaveType, UpdateSaveType,
     AdminMoveCheckType, AdminMoveUpdateType, AdminRemoveDeleteType, ThrowType
     DEF Continue
<1>3. CASE UNCHANGED vars
  BY <1>3 DEF vars, TypeInv, RowsOK, KeysOK, ReqsOK
<1>4. QED
  BY <1>1, <1>2, <1>3, AtOnceType, CronType, PassingType, CrashType DEF Next

\* In every reachable state every variable has its type: in particular no
\* handler ever saves or answers from a booking it did not find
THEOREM TypeCorrect == Spec => []TypeOK
<1>1. Spec => []TypeInv
  BY InitType, NextType, PTL DEF Spec
<1>2. QED
  BY <1>1, TypeInvGivesTypeOK, PTL
-----------------------------------------------------------------------------
(***************************************************************************)
(* The lock.  As long as a lease outlasts the section it protects, the key *)
(* of a request between acquire and release is its own, whatever else is   *)
(* asked for.                                                              *)
(***************************************************************************)
\* Whatever the environment does, a lock key passes from nobody to a request and
\* back, and only its owner's release or the TTL deletes it
THEOREM LocksFreedByOwners == Spec => LockFreedByOwner
<1> DEFINE A == \A k \in Slots :
                  lock[k] # Nil /\ lock'[k] # lock[k] =>
                    /\ lock'[k] = Nil
                    /\ \/ req[lock[k]].at = "unlock" /\ req[lock[k]].key = k
                       \/ LockExpires(k)
<1>1. TypeInv /\ [Next]_vars => A
  <2> SUFFICES ASSUME TypeInv, [Next]_vars, NEW k \in Slots,
                      lock[k] # Nil, lock'[k] # lock[k]
               PROVE  /\ lock'[k] = Nil
                      /\ \/ req[lock[k]].at = "unlock" /\ req[lock[k]].key = k
                         \/ LockExpires(k)
    OBVIOUS
  <2>1. lock \in [Slots -> Reqs \cup {Nil}]
    BY DEF TypeInv, KeysOK
  <2>2. ASSUME NEW p \in Reqs, NEW l, Acquire(p, l)
        PROVE  FALSE
    BY <2>1, <2>2 DEF Acquire
  <2>3. ASSUME NEW p \in Reqs, Arrive(p)
        PROVE  FALSE
    BY <2>2, <2>3
       DEF Arrive, HoldLock, VerifyRead, ConfirmRead, CancelRead, MoveRead,
           UpdateRead, AdminMoveRead, AdminRemoveRead, OnlyReq
  <2>4. ASSUME NEW p \in Reqs, Release(p)
        PROVE  /\ lock'[k] = Nil
               /\ req[lock[k]].at = "unlock" /\ req[lock[k]].key = k
    BY <2>1, <2>4 DEF Release
  <2>5. ASSUME NEW p \in Reqs, Continue(p), ~Release(p)
        PROVE  FALSE
    BY <2>2, <2>5
       DEF Continue, HoldCheck, HoldSave, Mark, Select, VerifySave, ConfirmCode, ConfirmSave,
           ConfirmEmit, CancelSave, CancelFree, MoveLock, MoveCheck, MoveSave,
           UpdateSave, AdminMoveCheck, AdminMoveUpdate, AdminRemoveDelete, Throw,
           OnlyReq, RowsAndReq, KeysAndReq
  <2>6. ~AtOnce /\ ~Cron /\ ~Crash /\ ~UNCHANGED vars
    BY DEF AtOnce, GuestUpdate, Remove, AdminUpdateStatus, BulkUpdateStatus, OnlyRows,
           Cron, SweepStep, ExpireFind, ExpireUpdate, ExpireFree, CronThrows, Archive,
           MarkNoShows, Crash, vars
  <2>7. CASE Passing
    <3>1. PICK l \in Slots : LockExpires(l)
      BY <2>7 DEF Passing, HoldKeyExpires, DeadlinePasses
    <3>2. l = k /\ lock'[k] = Nil
      BY <2>1, <3>1 DEF LockExpires
    <3>3. QED
      BY <3>1, <3>2
  <2>8. QED
    BY <2>3, <2>4, <2>5, <2>6, <2>7 DEF Next
<1>2. [][A]_vars <=> LockFreedByOwner
  BY DEF LockFreedByOwner
<1>3. QED
  BY <1>1, <1>2, InitType, NextType, PTL DEF Spec

LEMMA ReqMoves ==
  ASSUME TypeInv, NEW p \in Reqs, NEW r, Become(p, r)
  PROVE  req'[p] = r /\ \A q \in Reqs \ {p} : req'[q] = req[q]
BY DEF TypeInv, ReqsOK, Become

LEMMA ReqGoesOn ==
  ASSUME TypeInv, NEW p \in Reqs, NEW point, GoTo(p, point)
  PROVE  /\ req'[p].at = point /\ req'[p].id = req[p].id
         /\ req'[p].snap = req[p].snap /\ req'[p].key = req[p].key
         /\ \A q \in Reqs \ {p} : req'[q] = req[q]
<1>1. req[p] \in Request /\ req'[p] = [req[p] EXCEPT !.at = point, !.seen = Nil]
  BY ReqMoves DEF GoTo, TypeInv, ReqsOK
<1>2. QED
  BY <1>1, ReqMoves DEF GoTo, Request

\* a request whose SELECT returns is the same but for its point and seen
LEMMA ReqSelects ==
  ASSUME TypeInv, NEW p \in Reqs, Select(p)
  PROVE  /\ req[p].at \in SavePoints /\ req'[p].at \in Writes
         /\ req'[p].at \in InSection <=> req[p].at \in InSection
         /\ req'[p].id = req[p].id /\ req'[p].snap = req[p].snap
         /\ req'[p].key = req[p].key /\ req'[p].seen = rows[req[p].id]
         /\ \A q \in Reqs \ {p} : req'[q] = req[q]
<1>1. PICK point \in Writes :
        /\ Become(p, [req[p] EXCEPT !.at = point, !.seen = rows[req[p].id]])
        /\ point \in InSection <=> req[p].at \in InSection
  BY SelectMoves
<1>2. req[p] \in Request
  BY DEF TypeInv, ReqsOK
<1>3. req'[p] = [req[p] EXCEPT !.at = point, !.seen = rows[req[p].id]]
  BY <1>1, ReqMoves
<1>4. QED
  BY <1>1, <1>2, <1>3, ReqMoves, SelectMoves DEF Request

LEMMA ReqLeaves ==
  ASSUME TypeInv, NEW p \in Reqs, Respond(p) \/ LeaveSection(p)
  PROVE  /\ \/ Respond(p) /\ req'[p].at = "idle" /\ req'[p].id = Nil
            \/ /\ LeaveSection(p) /\ req'[p].at = "unlock" /\ req'[p].id = Nil
               /\ req'[p].key = req[p].key
         /\ \A q \in Reqs \ {p} : req'[q] = req[q]
<1> DEFINE out == [Idle EXCEPT !.at = "unlock", !.key = req[p].key]
<1>1. /\ Idle.at = "idle" /\ Idle.id = Nil
      /\ out.at = "unlock" /\ out.id = Nil /\ out.key = req[p].key
  BY DEF Idle
<1>2. QED
  BY <1>1, ReqMoves DEF Respond, LeaveSection

Leased == \A p \in Reqs : req[p].at \in InSection => lock[req[p].key] = p

LEMMA KeyIsSlot ==
  ASSUME TypeInv, NEW p \in Reqs, req[p].at \in InSection
  PROVE  req[p].key \in Slots
BY DEF TypeInv, ReqsOK, Loaded, Keyed

LEMMA LeaseStep ==
  ASSUME TypeInv, Leased, NEW p \in Reqs,
         \A q \in Reqs \ {p} : req'[q] = req[q],
         \A k \in Slots : lock[k] \in Reqs \ {p} => lock'[k] = lock[k],
         req'[p].at \in InSection => lock'[req'[p].key] = p
  PROVE  Leased'
<1>1. ASSUME NEW q \in Reqs \ {p}, req[q].at \in InSection
      PROVE  lock'[req[q].key] = q
  BY <1>1, KeyIsSlot DEF Leased
<1>2. QED
  BY <1>1 DEF Leased

LEMMA ArriveLeased ==
  ASSUME TypeInv, Leased, NEW p \in Reqs, Arrive(p)
  PROVE  Leased'
<1>1. CASE HoldLock(p)
  <2>1. PICK k \in Slots, d \in Durs :
          /\ Acquire(p, k)
          /\ Become(p, [at |-> "hold_check", id |-> Nil, snap |-> NewRow(k, d),
                        seen |-> Nil, key |-> k])
    BY <1>1 DEF HoldLock
  <2>2. /\ req'[p] = [at |-> "hold_check", id |-> Nil, snap |-> NewRow(k, d),
                      seen |-> Nil, key |-> k]
        /\ \A q \in Reqs \ {p} : req'[q] = req[q]
    BY <2>1, ReqMoves
  <2>3. lock'[k] = p /\ \A l \in Slots : lock[l] \in Reqs => lock'[l] = lock[l]
    BY <2>1, NilFacts DEF Acquire, TypeInv, KeysOK
  <2>4. QED
    BY <2>2, <2>3, LeaseStep
<1>2. ASSUME NEW i \in Ids, NEW point \in Points \ InSection, NEW key,
             Start(p, point, i, key), lock' = lock
      PROVE  Leased'
  <2>1. /\ req'[p] = [at |-> point, id |-> i, snap |-> rows[i], seen |-> Nil,
                      key |-> key]
        /\ \A q \in Reqs \ {p} : req'[q] = req[q]
    BY <1>2, ReqMoves DEF Start
  <2>2. QED
    BY <1>2, <2>1, LeaseStep
<1>3. ASSUME NEW i \in Ids, \/ VerifyRead(p, i) \/ ConfirmRead(p, i) \/ CancelRead(p, i)
                            \/ MoveRead(p, i) \/ UpdateRead(p, i)
                            \/ AdminMoveRead(p, i) \/ AdminRemoveRead(p, i)
      PROVE  Leased'
  <2>1. PICK point \in {"verify_save", "confirm_code", "confirm_save", "cancel_save",
                        "move_lock", "update_save", "admin_check", "admin_delete"} :
          \E key : Start(p, point, i, key)
    BY <1>3 DEF VerifyRead, ConfirmRead, CancelRead, MoveRead, UpdateRead,
                AdminMoveRead, AdminRemoveRead
  <2>2. lock' = lock
    BY <1>3 DEF VerifyRead, ConfirmRead, CancelRead, MoveRead, UpdateRead,
                AdminMoveRead, AdminRemoveRead, OnlyReq
  <2>3. point \in Points \ InSection
    BY DEF Points, InSection
  <2>4. QED
    BY <1>2, <2>1, <2>2, <2>3
<1>4. QED
  BY <1>1, <1>3 DEF Arrive

LEMMA ContinueLeased ==
  ASSUME TypeInv, Leased, NEW p \in Reqs, Continue(p)
  PROVE  Leased'
<1>1. ASSUME req[p].at \in InSection, lock' = lock, req'[p].key = req[p].key,
             \A q \in Reqs \ {p} : req'[q] = req[q]
      PROVE  Leased'
  BY <1>1, LeaseStep DEF Leased
<1>2. CASE Respond(p) /\ \A k \in Slots : lock[k] \in Reqs \ {p} => lock'[k] = lock[k]
  BY <1>2, ReqLeaves, LeaseStep, ReqMoves DEF Respond, Idle, InSection
<1>3. CASE LeaveSection(p) /\ req[p].at \in InSection /\ lock' = lock
  <2> DEFINE out == [Idle EXCEPT !.at = "unlock", !.key = req[p].key]
  <2>0. out.key = req[p].key
    BY DEF Idle
  <2>1. /\ req'[p].key = req[p].key
        /\ \A q \in Reqs \ {p} : req'[q] = req[q]
    BY <1>3, <2>0, ReqMoves DEF LeaveSection
  <2>2. QED
    BY <1>1, <1>3, <2>1
<1>4. ASSUME NEW point, GoTo(p, point), lock' = lock,
             point \in InSection => req[p].at \in InSection
      PROVE  Leased'
  BY <1>1, <1>4, ReqGoesOn, LeaseStep
<1>5. CASE HoldSave(p)
  <2>1. /\ req'[p] = [req[p] EXCEPT !.at = "hold_mark", !.id = nextId]
        /\ \A q \in Reqs \ {p} : req'[q] = req[q]
    BY <1>5, ReqMoves DEF HoldSave
  <2>2. req'[p].key = req[p].key
    BY <2>1 DEF TypeInv, ReqsOK, Request
  <2>3. QED
    BY <1>1, <1>5, <2>1, <2>2 DEF HoldSave, InSection
<1>6. CASE ConfirmCode(p)
  <2>1. PICK c \in 1..MaxCode :
          Become(p, [req[p] EXCEPT !.at = "confirm_save", !.snap.code = c])
    BY <1>6 DEF ConfirmCode
  <2>2. /\ req'[p] = [req[p] EXCEPT !.at = "confirm_save", !.snap.code = c]
        /\ \A q \in Reqs \ {p} : req'[q] = req[q]
    BY <2>1, ReqMoves
  <2>3. req'[p].at = "confirm_save"
    BY <2>2 DEF TypeInv, ReqsOK, Request
  <2>4. QED
    BY <1>6, <2>2, <2>3, LeaseStep DEF ConfirmCode, OnlyReq, InSection
<1>7. CASE MoveLock(p) /\ Acquire(p, req[p].key) /\ GoTo(p, "move_check")
  <2>1. req[p].key \in Slots
    BY <1>7 DEF MoveLock, TypeInv, ReqsOK, Loaded, Keyed
  <2>2. /\ lock'[req[p].key] = p
        /\ \A k \in Slots : lock[k] \in Reqs => lock'[k] = lock[k]
    BY <1>7, <2>1, NilFacts DEF Acquire, TypeInv, KeysOK
  <2>3. QED
    BY <1>7, <2>2, ReqGoesOn, LeaseStep
<1>8. CASE Release(p)
  <2>1. \A k \in Slots : lock[k] \in Reqs \ {p} => lock'[k] = lock[k]
    BY <1>8 DEF Release, TypeInv, KeysOK
  <2>2. QED
    BY <1>2, <1>8, <2>1 DEF Release
<1>9. CASE HoldCheck(p) \/ Mark(p) \/ MoveCheck(p) \/ MoveSave(p)
  BY <1>3, <1>4, <1>9
     DEF HoldCheck, Mark, MoveCheck, MoveSave, OnlyReq, KeysAndReq, RowsAndReq, InSection
<1>10. CASE Throw(p)
  BY <1>2, <1>3, <1>10 DEF Throw, OnlyReq
<1>11. CASE MoveLock(p) /\ lock' = lock /\ Respond(p)
  BY <1>2, <1>11
<1>12. CASE \/ VerifySave(p) \/ ConfirmSave(p) \/ ConfirmEmit(p) \/ CancelSave(p)
            \/ CancelFree(p) \/ UpdateSave(p) \/ AdminMoveCheck(p)
            \/ AdminMoveUpdate(p) \/ AdminRemoveDelete(p)
  BY <1>2, <1>4, <1>12
     DEF VerifySave, ConfirmSave, ConfirmEmit, CancelSave, CancelFree, UpdateSave,
         AdminMoveCheck, AdminMoveUpdate, AdminRemoveDelete, OnlyReq, KeysAndReq,
         RowsAndReq, InSection
<1>13. CASE Select(p)
  BY <1>13, ReqSelects, LeaseStep DEF Select, OnlyReq, Leased
<1>14. QED
  BY <1>5, <1>6, <1>7, <1>8, <1>9, <1>10, <1>11, <1>12, <1>13 DEF Continue, MoveLock

LEMMA NextLeased ==
  ASSUME LeaseHolds, TypeInv, Leased, [Next]_vars
  PROVE  Leased'
<1>1. ASSUME NEW p \in Reqs, Arrive(p) \/ Continue(p)
      PROVE  Leased'
  BY <1>1, ArriveLeased, ContinueLeased
<1>2. CASE AtOnce \/ Cron \/ UNCHANGED vars
  <2>1. req' = req /\ lock' = lock
    BY <1>2
       DEF AtOnce, GuestUpdate, Remove, AdminUpdateStatus, BulkUpdateStatus, OnlyRows,
           Cron, SweepStep, ExpireFind, ExpireUpdate, ExpireFree, CronThrows, Archive,
           MarkNoShows, vars
  <2>2. QED
    BY <2>1 DEF Leased
<1>3. CASE Passing
  <2>1. req' = req
    BY <1>3 DEF Passing, LockExpires, HoldKeyExpires, DeadlinePasses
  <2>2. \A k \in Slots : lock[k] \in Reqs /\ req[lock[k]].key = k
                           /\ req[lock[k]].at \in InSection => lock'[k] = lock[k]
    BY <1>3 DEF Passing, LockExpires, HoldKeyExpires, DeadlinePasses, TypeInv, KeysOK
  <2>3. QED
    BY <2>1, <2>2, KeyIsSlot DEF Leased
<1>4. CASE Crash
  BY <1>4 DEF Crash, Idle, Leased, InSection
<1>5. QED
  BY <1>1, <1>2, <1>3, <1>4 DEF Next

LEMMA LeasedAlways == ASSUME LeaseHolds PROVE Spec => [](TypeInv /\ Leased)
<1>1. Init => Leased
  BY DEF Init, Idle, Leased, InSection
<1>2. TypeInv /\ Leased /\ [Next]_vars => Leased'
  BY NextLeased
<1>3. QED
  BY <1>1, <1>2, InitType, NextType, PTL DEF Spec

\* As long as no lease runs out inside its section, two requests are never
\* between acquire and release of one lock key, whatever the operations, and
\* even when the process dies in between
THEOREM SectionsExclude ==
  ASSUME LeaseHolds
  PROVE  Spec => []SectionExclusive
<1>1. TypeInv /\ Leased => SectionExclusive
  BY KeyIsSlot DEF Leased, SectionExclusive
<1>2. QED
  BY <1>1, LeasedAlways, PTL
-----------------------------------------------------------------------------
(***************************************************************************)
(* What holds of every version of a booking there is, in the table or in a *)
(* request, however the requests interleave: nobody writes barberId or     *)
(* totalDuration, and ids are never used twice.  So slotStartTime and      *)
(* slotEndTime differ together, a save writes both or none, and no mixing  *)
(* of columns parts them.                                                  *)
(***************************************************************************)

\* the guest's update, which writes slotStartTime alone, is never asked for
NoGuestUpdate == "guest" \notin Ops

EndsWell(r) == NoGuestUpdate => r.end = CalcEndTime(r.start, r.dur)

Alike(r, s) == r.dur = s.dur /\ r.barber = s.barber

\* row r follows from row s
Fits(r, s) == Alike(r, s) /\ (EndsWell(s) => EndsWell(r))

Versions(i) ==
  {r \in Row : \/ r = rows[i]
               \/ \E p \in Reqs : req[p].id = i /\ r \in {req[p].snap, req[p].seen}}

Fresh == \A i \in Live : i < nextId

Numbered == \A p \in Reqs : req[p].id # Nil => req[p].id < nextId

Known == Fresh /\ Numbered

AllAlike == \A i \in Ids : \A r, s \in Versions(i) : Alike(r, s)

AllEndWell == \A i \in Ids : \A r \in Versions(i) : EndsWell(r)

\* a hold that is not saved yet
Holding == {"hold_check", "hold_save"}

NewHold(r) == r.id = Nil /\ \E k \in Slots, d \in Durs : r.snap = NewRow(k, d)

HoldsAreNew == \A p \in Reqs : req[p].at \in Holding => NewHold(req[p])

SeenInSaves == \A p \in Reqs : req[p].at \notin Writes => req[p].seen = Nil

SoundInv ==
  TypeInv /\ Known /\ AllAlike /\ AllEndWell /\ HoldsAreNew /\ SeenInSaves

LEMMA IdFacts ==
  ASSUME TypeInv
  PROVE  /\ nextId \in Nat /\ Ids \subseteq Nat /\ due \subseteq Ids
         /\ \A p \in Reqs : req[p].id \in Ids \cup {Nil}
BY BoundAssumption DEF TypeInv, KeysOK, ReqsOK, Request, Ids

LEMMA OnlyPendingIsVerified ==
  ASSUME NEW r \in Row, AssertTransition(r, "otp_verified")
  PROVE  r.status = "pending"
BY DEF Row, Status, AssertTransition, ValidTransitions

LEMMA OnlyVerifiedIsConfirmed ==
  ASSUME NEW r \in Row, AssertTransition(r, "confirmed")
  PROVE  r.status = "otp_verified"
BY DEF Row, Status, AssertTransition, ValidTransitions

\* the computed rows
LEMMA ComputedFit ==
  ASSUME NEW r \in Row
  PROVE  /\ Fits(Verified(r), r)
         /\ Fits(Confirmed(r), r)
         /\ Fits(Cancelled(r), r)
         /\ Fits(NoShow(r), r)
         /\ \A st \in Status : Fits([r EXCEPT !.status = st], r)
         /\ \A c : Fits([r EXCEPT !.code = c], r)
BY DEF Fits, Alike, EndsWell, Verified, Confirmed, Cancelled, NoShow, Row

LEMMA MovedFits ==
  ASSUME NEW r \in Row, NEW k \in Slots
  PROVE  Fits(Moved(r, k), r)
BY DEF Fits, Alike, EndsWell, Moved, Row

LEMMA EditedFits ==
  ASSUME NEW r \in Row, NEW k \in Slots
  PROVE  Fits(Edited(r, k), r)
<1>1. CASE k[3] = r.start
  BY <1>1 DEF Edited, Fits, Alike, EndsWell, Row
<1>2. CASE k[3] # r.start
  <2>1. Moved(r, k) \in Row /\ Fits(Moved(r, k), r)
    BY MovedFits, MovedType
  <2>2. Edited(r, k) = [Moved(r, k) EXCEPT !.appt = <<k[2], k[3]>>]
    BY <1>2 DEF Edited
  <2>3. /\ Edited(r, k).dur = Moved(r, k).dur
        /\ Edited(r, k).barber = Moved(r, k).barber
        /\ Edited(r, k).start = Moved(r, k).start
        /\ Edited(r, k).end = Moved(r, k).end
    BY <2>1, <2>2 DEF Row
  <2>4. QED
    BY <2>1, <2>3 DEF Fits, Alike, EndsWell
<1>3. QED
  BY <1>1, <1>2

LEMMA GuestEditedFits ==
  ASSUME ~NoGuestUpdate, NEW r \in Row, NEW k \in Slots
  PROVE  Fits(GuestEdited(r, k), r)
BY DEF Fits, Alike, EndsWell, GuestEdited, Row

LEMMA NewRowEndsWell ==
  ASSUME NEW k, NEW d
  PROVE  EndsWell(NewRow(k, d))
BY DEF EndsWell, NewRow

\* the UPDATE of a save: start and end are both among the columns or neither is
LEMMA UpdatedFits ==
  ASSUME NEW now \in Row, NEW seen \in Row, NEW new \in Row, NEW otp,
         Alike(now, seen), Alike(new, seen),
         EndsWell(now), EndsWell(seen), EndsWell(new)
  PROVE  Fits(Updated(now, seen, new, otp), now)
<1> DEFINE r == Updated(now, seen, new, otp)
<1>1. /\ r.dur = Column(now.dur, seen.dur, new.dur)
      /\ r.barber = Column(now.barber, seen.barber, new.barber)
      /\ r.start = Column(now.start, seen.start, new.start)
      /\ r.end = Column(now.end, seen.end, new.end)
  BY DEF Updated
<1>2. r.dur = now.dur /\ r.barber = now.barber
  BY <1>1 DEF Column, Alike
<1>3. ASSUME NoGuestUpdate
      PROVE  r.end = CalcEndTime(r.start, r.dur)
  <2>1. /\ now.end = now.start + now.dur
        /\ seen.end = seen.start + now.dur
        /\ new.end = new.start + now.dur
    BY <1>3 DEF EndsWell, CalcEndTime, Alike
  <2>2. /\ now.dur \in Nat
        /\ now.start \in Nat /\ seen.start \in Nat /\ new.start \in Nat
    BY GridAssumption DEF Row
  <2>3. new.end = seen.end <=> new.start = seen.start
    BY <2>1, <2>2
  <2>4. QED
    BY <1>1, <1>2, <2>1, <2>3 DEF Column, CalcEndTime
<1>4. QED
  BY <1>2, <1>3 DEF Fits, Alike, EndsWell
-----------------------------------------------------------------------------
\* a step of the table: every row that is there comes from a version of it
RowsDescend ==
  \A i \in Ids : rows'[i] # Nil => \E s \in Versions(i) : Fits(rows'[i], s)

\* a step of request p: it ends, begins, or goes on with what it has
Handed(p) ==
  /\ \A q \in Reqs \ {p} : req'[q] = req[q]
  /\ req'[p].at \in Holding => NewHold(req'[p])
  /\ \/ req'[p].id = Nil /\ req'[p].seen = Nil
     \/ /\ req'[p].id \in Live /\ req'[p].snap = rows[req'[p].id]
        /\ req'[p].seen = Nil
     \/ /\ req'[p].id = req[p].id /\ req[p].snap \in Row
        /\ Fits(req'[p].snap, req[p].snap)
        /\ \/ req'[p].seen = Nil
           \/ /\ req'[p].at \in Writes /\ req[p].id \in Ids
              /\ req'[p].seen = rows[req[p].id]

LEMMA LiveVersions ==
  ASSUME TypeInv
  PROVE  /\ \A i \in Live : rows[i] \in Versions(i)
         /\ \A p \in Reqs : /\ req[p].snap \in Row => req[p].snap \in Versions(req[p].id)
                            /\ req[p].seen \in Row => req[p].seen \in Versions(req[p].id)
BY DEF TypeInv, RowsOK, Live, Versions

LEMMA FitsItself == \A r : Fits(r, r)
BY DEF Fits, Alike

\* what follows for the versions
LEMMA VersionsDescend ==
  ASSUME SoundInv, TypeInv', RowsDescend,
         \/ req' = req
         \/ \A p \in Reqs : req'[p] = Idle
         \/ \E p \in Reqs : Handed(p)
  PROVE  AllAlike' /\ AllEndWell'
<1>1. ASSUME NEW i \in Ids, NEW r \in Versions(i)'
      PROVE  \E s \in Versions(i) : Fits(r, s)
  <2>1. r \in Row
    BY <1>1 DEF Versions
  <2>2. CASE r = rows'[i]
    BY <2>1, <2>2, NilFacts DEF RowsDescend
  <2>3. ASSUME NEW p \in Reqs, req'[p].id = i, r \in {req'[p].snap, req'[p].seen}
        PROVE  \E s \in Versions(i) : Fits(r, s)
    <3>1. TypeInv /\ i # Nil /\ r # Nil
      BY <2>1, NilFacts DEF SoundInv
    <3>2. CASE req'[p] = req[p]
      <4>1. r \in Versions(i)
        BY <2>1, <2>3, <3>2 DEF Versions
      <4>2. QED
        BY <4>1, FitsItself
    <3>3. CASE req'[p] = Idle
      BY <2>3, <3>1, <3>3 DEF Idle
    <3>4. CASE Handed(p)
      <4>1. CASE req'[p].id = Nil
        BY <2>3, <3>1, <4>1
      <4>2. CASE /\ req'[p].id \in Live /\ req'[p].snap = rows[req'[p].id]
                 /\ req'[p].seen = Nil
        BY <2>3, <3>1, <4>2, LiveVersions, FitsItself
      <4>3. CASE /\ req'[p].id = req[p].id /\ req[p].snap \in Row
                 /\ Fits(req'[p].snap, req[p].snap)
                 /\ \/ req'[p].seen = Nil
                    \/ req[p].id \in Ids /\ req'[p].seen = rows[req[p].id]
        <5>1. CASE r = req'[p].snap
          BY <2>3, <3>1, <4>3, <5>1, LiveVersions
        <5>2. CASE r = req'[p].seen
          <6>1. r = rows[i] /\ r \in Versions(i)
            BY <2>1, <2>3, <3>1, <4>3, <5>2 DEF Versions
          <6>2. QED
            BY <6>1, FitsItself
        <5>3. QED
          BY <2>3, <5>1, <5>2
      <4>4. QED
        BY <3>4, <4>1, <4>2, <4>3 DEF Handed
    <3>5. QED
      BY <3>2, <3>3, <3>4 DEF Handed
  <2>4. QED
    BY <1>1, <2>2, <2>3 DEF Versions
<1>2. AllEndWell'
  BY <1>1 DEF AllEndWell, SoundInv, Fits
<1>3. ASSUME NEW i \in Ids, NEW r \in Versions(i)', NEW s \in Versions(i)'
      PROVE  Alike(r, s)
  <2>1. PICK t \in Versions(i) : Fits(r, t)
    BY <1>1
  <2>2. PICK u \in Versions(i) : Fits(s, u)
    BY <1>1
  <2>3. Alike(t, u)
    BY DEF SoundInv, AllAlike
  <2>4. QED
    BY <2>1, <2>2, <2>3 DEF Fits, Alike
<1>4. QED
  BY <1>2, <1>3 DEF AllAlike

LEMMA DescendSound ==
  ASSUME SoundInv, TypeInv', RowsDescend, nextId' = nextId,
         \A i \in Ids : rows'[i] # Nil => i < nextId,
         \/ req' = req
         \/ \A p \in Reqs : req'[p] = Idle
         \/ \E p \in Reqs : Handed(p)
  PROVE  SoundInv'
<1>1. AllAlike' /\ AllEndWell'
  BY VersionsDescend
<1>2. Fresh'
  BY DEF Fresh, Live
<1>3. CASE req' = req
  BY <1>1, <1>2, <1>3 DEF SoundInv, Known, Numbered, HoldsAreNew, NewHold, SeenInSaves
<1>4. CASE \A p \in Reqs : req'[p] = Idle
  <2>1. Numbered' /\ HoldsAreNew' /\ SeenInSaves'
    BY <1>4 DEF Idle, Numbered, HoldsAreNew, Holding, SeenInSaves
  <2>2. QED
    BY <1>1, <1>2, <2>1 DEF SoundInv, Known
<1>5. ASSUME NEW p \in Reqs, Handed(p)
      PROVE  SoundInv'
  <2>1. \A i \in Live : i < nextId
    BY DEF SoundInv, Known, Fresh
  <2>2. Numbered'
    BY <1>5, <2>1 DEF Handed, SoundInv, Known, Numbered
  <2>3. SeenInSaves'
    BY <1>5 DEF Handed, SoundInv, SeenInSaves
  <2>4. HoldsAreNew'
    BY <1>5 DEF Handed, SoundInv, HoldsAreNew, NewHold
  <2>5. QED
    BY <1>1, <1>2, <2>2, <2>3, <2>4 DEF SoundInv, Known
<1>6. QED
  BY <1>3, <1>4, <1>5
-----------------------------------------------------------------------------
\* the moves of a request
LEMMA LeavesHanded ==
  ASSUME TypeInv, NEW p \in Reqs, Respond(p) \/ LeaveSection(p)
  PROVE  Handed(p)
<1> DEFINE out == [Idle EXCEPT !.at = "unlock", !.key = req[p].key]
<1>1. /\ Idle.id = Nil /\ Idle.seen = Nil /\ Idle.at \notin Holding
      /\ out.id = Nil /\ out.seen = Nil /\ out.at \notin Holding
  BY DEF Idle, Holding
<1>2. QED
  BY <1>1, ReqMoves DEF Respond, LeaveSection, Handed

LEMMA GoesHanded ==
  ASSUME SoundInv, NEW p \in Reqs, NEW point, GoTo(p, point), req[p].snap \in Row,
         point \in Holding => req[p].at \in Holding
  PROVE  Handed(p)
<1>0. TypeInv
  BY DEF SoundInv
<1>1. /\ req'[p].id = req[p].id /\ req'[p].snap = req[p].snap
      /\ req'[p].seen = Nil /\ req'[p].at = point
  <2>1. req[p] \in Request /\ req'[p] = [req[p] EXCEPT !.at = point, !.seen = Nil]
    BY <1>0, ReqMoves DEF GoTo, TypeInv, ReqsOK
  <2>2. QED
    BY <2>1 DEF Request
<1>2. \A q \in Reqs \ {p} : req'[q] = req[q]
  BY <1>0, ReqGoesOn
<1>3. Fits(req'[p].snap, req[p].snap)
  BY <1>1, FitsItself
<1>4. req'[p].at \in Holding => NewHold(req'[p])
  BY <1>1 DEF SoundInv, HoldsAreNew, NewHold
<1>5. QED
  BY <1>1, <1>2, <1>3, <1>4 DEF Handed

LEMMA StartsHanded ==
  ASSUME TypeInv, NEW p \in Reqs, NEW i \in Live, NEW point, NEW key,
         Start(p, point, i, key), point \notin Holding
  PROVE  Handed(p)
<1> DEFINE r == [at |-> point, id |-> i, snap |-> rows[i], seen |-> Nil, key |-> key]
<1>1. r.at = point /\ r.id = i /\ r.snap = rows[i] /\ r.seen = Nil
  OBVIOUS
<1>2. QED
  BY <1>1, ReqMoves DEF Start, Handed

LEMMA SelectHanded ==
  ASSUME TypeInv, NEW p \in Reqs, Select(p)
  PROVE  Handed(p)
<1>1. req[p].id \in Ids /\ req[p].snap \in Row
  BY SelectMoves DEF TypeInv, ReqsOK, Loaded, SavePoints
<1>2. Fits(req'[p].snap, req[p].snap)
  BY ReqSelects, FitsItself
<1>3. QED
  BY <1>1, <1>2, ReqSelects DEF Handed, Writes, Holding

\* the table
LEMMA SameRowsDescend ==
  ASSUME SoundInv, rows' = rows
  PROVE  RowsDescend /\ \A i \in Ids : rows'[i] # Nil => i < nextId
<1>1. \A i \in Live : i < nextId /\ rows[i] \in Versions(i)
  BY LiveVersions DEF SoundInv, Known, Fresh
<1>2. QED
  BY <1>1, FitsItself DEF RowsDescend, Live

\* rows go, or new ones follow from those they replace
LEMMA EachRowDescends ==
  ASSUME SoundInv,
         \A i \in Ids : rows'[i] # Nil => /\ i \in Live
                                          /\ \/ rows'[i] = rows[i]
                                             \/ Fits(rows'[i], rows[i])
  PROVE  RowsDescend /\ \A i \in Ids : rows'[i] # Nil => i < nextId
<1>1. \A i \in Live : i < nextId /\ rows[i] \in Versions(i)
  BY LiveVersions DEF SoundInv, Known, Fresh
<1>2. QED
  BY <1>1, FitsItself DEF RowsDescend

LEMMA SaveDescends ==
  ASSUME SoundInv, NEW p \in Reqs, req[p].id \in Ids, req[p].snap \in Row,
         NEW r \in Row, Fits(r, req[p].snap), Save(p, r)
  PROVE  RowsDescend /\ \A i \in Ids : rows'[i] # Nil => i < nextId
<1> DEFINE x == req[p].id
           now == rows[x]
           seen == req[p].seen
<1>1. /\ req[p].snap \in Versions(x) /\ x < nextId
      /\ \A i \in Live : i < nextId /\ rows[i] \in Versions(i)
  BY LiveVersions, NilFacts DEF SoundInv, Known, Fresh, Numbered
<1>2. EndsWell(req[p].snap) /\ EndsWell(r)
  BY <1>1 DEF SoundInv, AllEndWell, Fits
<1>3. ASSUME NEW n, rows' = [rows EXCEPT ![x] = n], NEW s \in Versions(x), Fits(n, s)
      PROVE  RowsDescend /\ \A i \in Ids : rows'[i] # Nil => i < nextId
  <2>1. /\ rows'[x] = n
        /\ \A i \in Ids \ {x} : rows'[i] = rows[i]
    BY <1>3 DEF SoundInv, TypeInv, RowsOK
  <2>2. QED
    BY <1>1, <1>3, <2>1, FitsItself DEF RowsDescend, Live
<1>4. CASE Insert(p, r)
  BY <1>1, <1>3, <1>4 DEF Insert
<1>5. CASE rows' = rows
  BY <1>5, SameRowsDescend
<1>6. CASE /\ now \in Row /\ seen \in Row
           /\ \E otp \in BOOLEAN :
                rows' = [rows EXCEPT ![x] = Updated(now, seen, r, otp)]
  <2>1. PICK otp \in BOOLEAN :
          rows' = [rows EXCEPT ![x] = Updated(now, seen, r, otp)]
    BY <1>6
  <2>2. now \in Versions(x) /\ seen \in Versions(x)
    BY <1>6 DEF Versions
  <2>3. /\ Alike(now, seen) /\ Alike(req[p].snap, seen)
        /\ EndsWell(now) /\ EndsWell(seen)
    BY <1>1, <2>2 DEF SoundInv, AllAlike, AllEndWell
  <2>4. Alike(r, seen)
    BY <2>3 DEF Fits, Alike
  <2>5. Fits(Updated(now, seen, r, otp), now)
    BY <1>2, <1>6, <2>3, <2>4, UpdatedFits
  <2>6. QED
    BY <1>3, <2>1, <2>2, <2>5
<1>7. TypeInv /\ RowsOK /\ ReqsOK
  BY DEF SoundInv, TypeInv
<1>8. QED
  BY <1>4, <1>5, <1>6, <1>7, SaveOutcomes
-----------------------------------------------------------------------------
\* steps of one request
LEMMA ArriveSound ==
  ASSUME SoundInv, TypeInv', NEW p \in Reqs, Arrive(p)
  PROVE  SoundInv'
<1>1. TypeInv
  BY DEF SoundInv
<1>2. rows' = rows /\ nextId' = nextId
  BY DEF Arrive, HoldLock, VerifyRead, ConfirmRead, CancelRead, MoveRead, UpdateRead,
         AdminMoveRead, AdminRemoveRead, OnlyReq, LocksAndReq
<1>3. CASE HoldLock(p)
  <2>1. PICK k \in Slots, d \in Durs :
          Become(p, [at |-> "hold_check", id |-> Nil, snap |-> NewRow(k, d),
                     seen |-> Nil, key |-> k])
    BY <1>3 DEF HoldLock
  <2> DEFINE r == [at |-> "hold_check", id |-> Nil, snap |-> NewRow(k, d),
                   seen |-> Nil, key |-> k]
  <2>2. NewHold(r) /\ r.id = Nil /\ r.seen = Nil
    BY DEF NewHold
  <2>3. Handed(p)
    BY <1>1, <2>1, <2>2, ReqMoves DEF Handed
  <2>4. QED
    BY <1>2, <2>3, SameRowsDescend, DescendSound
<1>4. ASSUME NEW i \in Ids, \/ VerifyRead(p, i) \/ ConfirmRead(p, i) \/ CancelRead(p, i)
                            \/ MoveRead(p, i) \/ UpdateRead(p, i)
                            \/ AdminMoveRead(p, i) \/ AdminRemoveRead(p, i)
      PROVE  Handed(p)
  <2>1. PICK point \in {"verify_save", "confirm_code", "confirm_save", "cancel_save",
                        "move_lock", "update_save", "admin_check", "admin_delete"} :
          \E key : Start(p, point, i, key)
    BY <1>4 DEF VerifyRead, ConfirmRead, CancelRead, MoveRead, UpdateRead,
                AdminMoveRead, AdminRemoveRead
  <2>2. i \in Live /\ point \notin Holding
    BY <1>4 DEF Holding, Asked, VerifyRead, ConfirmRead, CancelRead, MoveRead, UpdateRead,
                AdminMoveRead, AdminRemoveRead
  <2>3. QED
    BY <1>1, <2>1, <2>2, StartsHanded
<1>5. QED
  BY <1>2, <1>3, <1>4, SameRowsDescend, DescendSound DEF Arrive

LEMMA SavesSound ==
  ASSUME SoundInv, NEW p \in Reqs,
         \/ VerifySave(p) \/ ConfirmSave(p) \/ CancelSave(p) \/ MoveSave(p)
         \/ UpdateSave(p)
  PROVE  /\ RowsDescend /\ \A i \in Ids : rows'[i] # Nil => i < nextId
         /\ nextId' = nextId /\ Handed(p)
<1> DEFINE s == req[p].snap
           k == req[p].key
<1>1. /\ s \in Row /\ req[p].id \in Ids /\ TypeInv
      /\ req[p].at \in {"move_write", "update_write"} => k \in Slots
  BY DEF VerifySave, ConfirmSave, CancelSave, MoveSave, UpdateSave, SoundInv,
         TypeInv, ReqsOK, Loaded, Keyed, InSection
<1>2. nextId' = nextId
  BY DEF VerifySave, ConfirmSave, CancelSave, MoveSave, UpdateSave, RowsAndReq
<1>3. Handed(p)
  BY <1>1, GoesHanded, LeavesHanded
     DEF Holding, VerifySave, ConfirmSave, CancelSave, MoveSave, UpdateSave
<1>4. CASE VerifySave(p)
  <2>1. Verified(s) \in Row /\ Fits(Verified(s), s) /\ Save(p, Verified(s))
    BY <1>1, <1>4, VerifiedType, ComputedFit DEF VerifySave
  <2>2. QED
    BY <1>1, <1>2, <1>3, <2>1, SaveDescends
<1>5. CASE ConfirmSave(p)
  <2>1. Confirmed(s) \in Row /\ Fits(Confirmed(s), s) /\ Save(p, Confirmed(s))
    BY <1>1, <1>5, ConfirmedType, ComputedFit DEF ConfirmSave
  <2>2. QED
    BY <1>1, <1>2, <1>3, <2>1, SaveDescends
<1>6. CASE CancelSave(p)
  <2>1. Cancelled(s) \in Row /\ Fits(Cancelled(s), s) /\ Save(p, Cancelled(s))
    BY <1>1, <1>6, CancelledType, ComputedFit DEF CancelSave
  <2>2. QED
    BY <1>1, <1>2, <1>3, <2>1, SaveDescends
<1>7. CASE MoveSave(p)
  <2>1. Moved(s, k) \in Row /\ Fits(Moved(s, k), s) /\ Save(p, Moved(s, k))
    BY <1>1, <1>7, MovedType, MovedFits DEF MoveSave
  <2>2. QED
    BY <1>1, <1>2, <1>3, <2>1, SaveDescends
<1>8. CASE UpdateSave(p)
  <2>1. Edited(s, k) \in Row /\ Fits(Edited(s, k), s) /\ Save(p, Edited(s, k))
    BY <1>1, <1>8, EditedType, EditedFits DEF UpdateSave
  <2>2. QED
    BY <1>1, <1>2, <1>3, <2>1, SaveDescends
<1>9. QED
  BY <1>4, <1>5, <1>6, <1>7, <1>8

LEMMA ConfirmCodeSound ==
  ASSUME SoundInv, NEW p \in Reqs, ConfirmCode(p)
  PROVE  Handed(p)
<1>1. /\ req[p] \in Request /\ req[p].snap \in Row /\ req[p].at = "confirm_code"
      /\ req[p].seen = Nil /\ TypeInv
  BY DEF ConfirmCode, SoundInv, SeenInSaves, Writes, TypeInv, ReqsOK, Loaded
<1>2. PICK c \in 1..MaxCode :
        Become(p, [req[p] EXCEPT !.at = "confirm_save", !.snap.code = c])
  BY DEF ConfirmCode
<1> DEFINE r == [req[p] EXCEPT !.at = "confirm_save", !.snap.code = c]
<1>3. /\ r.id = req[p].id /\ r.snap = [req[p].snap EXCEPT !.code = c]
      /\ r.seen = Nil /\ r.at \notin Holding
  BY <1>1 DEF Request, Holding
<1>4. Fits(r.snap, req[p].snap)
  BY <1>1, <1>3, ComputedFit
<1>5. QED
  BY <1>1, <1>2, <1>3, <1>4, ReqMoves DEF Handed

LEMMA HoldSaveSound ==
  ASSUME SoundInv, TypeInv', NEW p \in Reqs, HoldSave(p)
  PROVE  SoundInv'
<1> DEFINE s == req[p].snap
<1>1. /\ TypeInv /\ nextId \in Ids /\ nextId \in Nat /\ nextId' = nextId + 1
      /\ req[p] \in Request /\ s \in Row /\ req[p].at = "hold_save" /\ req[p].seen = Nil
      /\ rows' = [rows EXCEPT ![nextId] = s]
      /\ rows \in [Ids -> Row \cup {Nil}]
  BY IdFacts DEF HoldSave, SoundInv, SeenInSaves, Writes, TypeInv, ReqsOK, RowsOK, Loaded
<1>2. /\ req'[p] = [req[p] EXCEPT !.at = "hold_mark", !.id = nextId]
      /\ \A q \in Reqs \ {p} : req'[q] = req[q]
  BY <1>1, ReqMoves DEF HoldSave
<1>3. /\ req'[p].id = nextId /\ req'[p].snap = s /\ req'[p].seen = Nil
      /\ req'[p].at = "hold_mark"
  BY <1>1, <1>2 DEF Request
<1>4. \A i \in Ids : i \in Nat
  BY DEF Ids
<1>5. Known'
  <2>1. Fresh'
    BY <1>1, <1>4 DEF SoundInv, Known, Fresh, Live
  <2>2. ASSUME NEW q \in Reqs \ {p}, req[q].id # Nil
        PROVE  req[q].id < nextId'
    <3>1. req[q].id \in Nat /\ req[q].id < nextId
      BY <1>1, <2>2, IdFacts DEF SoundInv, Known, Numbered
    <3>2. QED
      BY <1>1, <3>1
  <2>3. Numbered'
    <3>1. req'[p].id < nextId'
      BY <1>1, <1>3
    <3>2. ASSUME NEW q \in Reqs, req'[q].id # Nil
          PROVE  req'[q].id < nextId'
      BY <1>2, <2>2, <3>1, <3>2
    <3>3. QED
      BY <3>2 DEF Numbered
  <2>4. QED
    BY <2>1, <2>3 DEF Known
<1>6. \A q \in Reqs : req[q].id # nextId
  BY <1>1, NilFacts DEF SoundInv, Known, Numbered
<1>7. SeenInSaves'
  BY <1>2, <1>3 DEF SoundInv, SeenInSaves
<1>8. HoldsAreNew'
  <2>1. \A q \in Reqs : req'[q].at \in Holding => NewHold(req'[q])
    BY <1>2, <1>3 DEF SoundInv, HoldsAreNew, Holding
  <2>2. QED
    BY <2>1 DEF HoldsAreNew, NewHold
<1>9. EndsWell(s)
  BY <1>1, NewRowEndsWell DEF SoundInv, HoldsAreNew, Holding, NewHold
<1>10. ASSUME NEW r \in Row, r = rows'[nextId]
              \/ \E q \in Reqs : req'[q].id = nextId /\ r \in {req'[q].snap, req'[q].seen}
       PROVE  r = s
  BY <1>1, <1>2, <1>3, <1>6, <1>10, NilFacts
<1>11. ASSUME NEW i \in Ids \ {nextId}
       PROVE  Versions(i)' \subseteq Versions(i)
  BY <1>1, <1>2, <1>3 DEF Versions
<1>12. AllAlike' /\ AllEndWell'
  <2> DEFINE New == {r \in Row : \/ r = rows'[nextId]
                                 \/ \E q \in Reqs : /\ req'[q].id = nextId
                                                    /\ r \in {req'[q].snap, req'[q].seen}}
  <2>1. \A r \in New : r = s
    BY <1>10
  <2>2. ASSUME NEW i \in Ids
        PROVE  Versions(i)' \subseteq Versions(i) \/ Versions(i)' = New
    <3>1. CASE i = nextId
      BY <3>1 DEF Versions
    <3>2. QED
      BY <1>11, <3>1
  <2>3. ASSUME NEW i \in Ids, NEW r \in Versions(i)'
        PROVE  EndsWell(r)
    BY <1>9, <2>1, <2>2, <2>3 DEF AllEndWell, SoundInv
  <2>4. ASSUME NEW i \in Ids, NEW r \in Versions(i)', NEW t \in Versions(i)'
        PROVE  Alike(r, t)
    BY <2>1, <2>2, <2>4 DEF AllAlike, SoundInv, Alike
  <2>5. QED
    BY <2>3, <2>4 DEF AllEndWell, AllAlike, EndsWell, Alike
<1>13. QED
  BY <1>5, <1>7, <1>8, <1>12 DEF SoundInv

LEMMA ContinueSound ==
  ASSUME SoundInv, TypeInv', NEW p \in Reqs, Continue(p)
  PROVE  SoundInv'
<1>1. TypeInv
  BY DEF SoundInv
<1>2. CASE \/ HoldCheck(p) \/ Mark(p) \/ Release(p) \/ ConfirmEmit(p) \/ CancelFree(p)
           \/ MoveLock(p) \/ MoveCheck(p) \/ AdminMoveCheck(p) \/ Throw(p)
  <2>1. rows' = rows /\ nextId' = nextId
    BY <1>2 DEF HoldCheck, Mark, Release, ConfirmEmit, CancelFree, MoveLock, MoveCheck,
                AdminMoveCheck, Throw, OnlyReq, KeysAndReq, LocksAndReq
  <2>2. \/ Respond(p) \/ LeaveSection(p)
        \/ /\ req[p].snap \in Row
           /\ \E point : /\ GoTo(p, point)
                         /\ point \in Holding => req[p].at \in Holding
    BY <1>1, <1>2 DEF Holding, HoldCheck, Mark, Release, ConfirmEmit, CancelFree, MoveLock,
                MoveCheck, AdminMoveCheck, Throw, TypeInv, ReqsOK, Loaded
  <2>3. Handed(p)
    BY <1>1, <2>2, LeavesHanded, GoesHanded
  <2>4. QED
    BY <2>1, <2>3, SameRowsDescend, DescendSound
<1>3. CASE Select(p)
  <2>1. rows' = rows /\ nextId' = nextId
    BY <1>3 DEF Select, OnlyReq
  <2>2. QED
    BY <1>1, <1>3, <2>1, SelectHanded, SameRowsDescend, DescendSound
<1>4. CASE ConfirmCode(p)
  <2>1. rows' = rows /\ nextId' = nextId
    BY <1>4 DEF ConfirmCode, OnlyReq
  <2>2. QED
    BY <1>4, <2>1, ConfirmCodeSound, SameRowsDescend, DescendSound
<1>5. CASE \/ VerifySave(p) \/ ConfirmSave(p) \/ CancelSave(p) \/ MoveSave(p)
           \/ UpdateSave(p)
  BY <1>5, SavesSound, DescendSound
<1>6. CASE AdminMoveUpdate(p)
  <2>1. req[p].key \in Slots /\ \A i \in Live : rows[i] \in Row
    BY <1>1, <1>6 DEF AdminMoveUpdate, TypeInv, RowsOK, ReqsOK, Loaded, Keyed, Live
  <2>2. \A i \in Ids : rows'[i] # Nil => /\ i \in Live
                                         /\ \/ rows'[i] = rows[i]
                                            \/ Fits(rows'[i], rows[i])
    BY <1>6, <2>1, MovedFits DEF AdminMoveUpdate, Live
  <2>3. Handed(p) /\ nextId' = nextId
    BY <1>1, <1>6, LeavesHanded DEF AdminMoveUpdate, RowsAndReq
  <2>4. QED
    BY <2>2, <2>3, EachRowDescends, DescendSound
<1>7. CASE AdminRemoveDelete(p)
  <2>1. \A i \in Ids : rows'[i] # Nil => i \in Live /\ rows'[i] = rows[i]
    BY <1>7 DEF AdminRemoveDelete, Without, Live
  <2>2. Handed(p) /\ nextId' = nextId
    BY <1>1, <1>7, LeavesHanded DEF AdminRemoveDelete, RowsAndReq
  <2>3. QED
    BY <2>1, <2>2, EachRowDescends, DescendSound
<1>8. QED
  BY <1>2, <1>3, <1>4, <1>5, <1>6, <1>7, HoldSaveSound DEF Continue

\* steps of nobody's request
LEMMA WithStatusFits ==
  ASSUME TypeInv, NEW S, NEW st \in Status, rows' = WithStatus(S, st), NEW i \in Ids,
         rows'[i] # Nil
  PROVE  i \in Live /\ (rows'[i] = rows[i] \/ Fits(rows'[i], rows[i]))
<1>1. \A r \in Row : Fits([r EXCEPT !.status = st], r)
  BY ComputedFit
<1>2. QED
  BY <1>1 DEF WithStatus, Live, TypeInv, RowsOK

LEMMA OthersSound ==
  ASSUME SoundInv, TypeInv', AtOnce \/ Cron \/ Passing \/ Crash \/ UNCHANGED vars
  PROVE  SoundInv'
<1>1. TypeInv /\ \A i \in Live : rows[i] \in Row
  BY DEF SoundInv, TypeInv, RowsOK, Live
<1>2. ASSUME \A i \in Ids : rows'[i] # Nil => /\ i \in Live
                                              /\ \/ rows'[i] = rows[i]
                                                 \/ Fits(rows'[i], rows[i]),
             req' = req, nextId' = nextId
      PROVE  SoundInv'
  BY <1>2, EachRowDescends, DescendSound
<1>3. ASSUME NEW S, NEW st \in Status, rows' = WithStatus(S, st), req' = req,
             nextId' = nextId
      PROVE  SoundInv'
  BY <1>1, <1>2, <1>3, WithStatusFits
<1>4. ASSUME NEW S, rows' = Without(S), req' = req, nextId' = nextId
      PROVE  SoundInv'
  BY <1>2, <1>4 DEF Without, Live
<1>5. ASSUME NEW i \in Ids, GuestUpdate(i)
      PROVE  SoundInv'
  <2>1. PICK k \in Slots : rows' = [rows EXCEPT ![i] = GuestEdited(rows[i], k)]
    BY <1>5 DEF GuestUpdate
  <2>2. i \in Live /\ ~NoGuestUpdate /\ req' = req /\ nextId' = nextId
    BY <1>5 DEF GuestUpdate, Asked, NoGuestUpdate, OnlyRows
  <2>3. Fits(GuestEdited(rows[i], k), rows[i])
    BY <1>1, <2>2, GuestEditedFits
  <2>4. QED
    BY <1>2, <2>1, <2>2, <2>3 DEF Live, SoundInv, TypeInv, RowsOK
<1>6. ASSUME NEW d \in Dates, MarkNoShows(d)
      PROVE  SoundInv'
  <2>1. \A i \in Live : Fits(NoShow(rows[i]), rows[i])
    BY <1>1, ComputedFit
  <2>2. QED
    BY <1>2, <1>6, <2>1 DEF MarkNoShows, OnlyRows, Live
<1>7. CASE AtOnce
  BY <1>3, <1>4, <1>5, <1>7, SwitchAssumption
     DEF AtOnce, Remove, AdminUpdateStatus, BulkUpdateStatus, OnlyRows
<1>8. CASE Cron
  <2>1. "expired" \in Status
    BY DEF Status
  <2>2. ASSUME NEW c \in Crons, ExpireFind(c) \/ ExpireFree(c) \/ CronThrows(c)
        PROVE  rows' = rows /\ req' = req /\ nextId' = nextId
    BY <2>2 DEF ExpireFind, ExpireFree, CronThrows
  <2>3. QED
    BY <1>2, <1>3, <1>4, <1>6, <1>8, <2>1, <2>2
       DEF Cron, SweepStep, ExpireUpdate, Archive, OnlyRows, Live
<1>9. CASE Passing \/ UNCHANGED vars
  BY <1>2, <1>9 DEF Passing, LockExpires, HoldKeyExpires, DeadlinePasses, vars, Live
<1>10. CASE Crash
  BY <1>10, SameRowsDescend, DescendSound DEF Crash
<1>11. QED
  BY <1>7, <1>8, <1>9, <1>10

LEMMA InitSound == Init => SoundInv
<1> SUFFICES ASSUME Init PROVE SoundInv
  OBVIOUS
<1>1. TypeInv
  BY InitType
<1>2. /\ \A i \in Ids : rows[i] = Nil
      /\ \A p \in Reqs : /\ req[p].id = Nil /\ req[p].snap = Nil /\ req[p].seen = Nil
                         /\ req[p].at = "idle"
  BY DEF Init, Idle
<1>3. \A i \in Ids : Versions(i) = {}
  BY <1>2, NilFacts DEF Versions
<1>4. QED
  BY <1>1, <1>2, <1>3
     DEF SoundInv, Known, Fresh, Numbered, Live, AllAlike, AllEndWell, HoldsAreNew,
         Holding, SeenInSaves

LEMMA NextSound == SoundInv /\ [Next]_vars => SoundInv'
<1> SUFFICES ASSUME SoundInv, [Next]_vars PROVE SoundInv'
  OBVIOUS
<1>1. TypeInv'
  BY NextType DEF SoundInv
<1>2. QED
  BY <1>1, ArriveSound, ContinueSound, OthersSound DEF Next

LEMMA SoundAlways == Spec => []SoundInv
BY InitSound, NextSound, PTL DEF Spec

\* As long as the guest's update is not used, the end of every booking is its
\* start plus its duration, whatever reschedules, updates and cancellations
\* overtake one another and mix their columns
THEOREM EndsFollowStarts ==
  ASSUME NoGuestUpdate
  PROVE  Spec => []EndFollowsStart
<1>1. SoundInv => EndFollowsStart
  BY LiveVersions DEF SoundInv, AllEndWell, EndsWell, EndFollowsStart, Live
<1>2. QED
  BY <1>1, SoundAlways, PTL
-----------------------------------------------------------------------------
(***************************************************************************)
(* The list of free slots and the check of a hold see a booking alike if   *)
(* it is confirmed and was not left behind: both take it for the interval  *)
(* from its start to its start plus its duration.                          *)
(***************************************************************************)
LEMMA SeenAlike ==
  ASSUME SoundInv, NoGuestUpdate, NEW b \in Barbers, NEW d \in Dates,
         NEW s \in Starts, NEW dur \in Durs, NEW i \in Live,
         rows[i].status = "confirmed", rows[i].barber = b, ~LeftBehind(i)
  PROVE  /\ i \in Listed(b, d) <=> i \in Occupants(b, d)
         /\ Busy(i, s) => Overlaps(s, s + dur, rows[i].start, rows[i].end)
         /\ rows[i].start <= s /\ Overlaps(s, s + dur, rows[i].start, rows[i].end)
              => Busy(i, s)
<1>1. rows[i] \in Row /\ rows[i].end = rows[i].start + rows[i].dur
  BY LiveVersions
     DEF SoundInv, AllEndWell, EndsWell, TypeInv, RowsOK, Live, CalcEndTime
<1>2. rows[i].appt[1] = rows[i].date /\ rows[i].appt[2] = rows[i].start
  BY DEF LeftBehind
<1>3. rows[i].start \in Nat /\ rows[i].dur \in Nat /\ s \in Nat /\ dur \in Nat \ {0}
  BY <1>1, GridAssumption DEF Row
<1>4. i \in Listed(b, d) <=> i \in Occupants(b, d)
  BY <1>2 DEF Listed, Occupants, Occupying
<1>5. Busy(i, s) <=> s >= rows[i].start /\ s < rows[i].end
  BY <1>1, <1>2 DEF Busy
<1>6. Overlaps(s, s + dur, rows[i].start, rows[i].end)
        <=> s < rows[i].end /\ s + dur > rows[i].start
  BY DEF Overlaps
<1>7. QED
  BY <1>1, <1>3, <1>4, <1>5, <1>6

\* Whatever is offered and yet refused is explained: by a booking that is not
\* confirmed, begins later or was moved
THEOREM OffersAreExplained ==
  ASSUME NoGuestUpdate
  PROVE  Spec => []OffersExplained
<1>1. ASSUME SoundInv, NEW b \in Barbers, NEW d \in Dates, NEW s \in Offered(b, d),
             NEW dur \in Durs, ~IsSlotAvailable(<<b, d, s>>, dur)
      PROVE  \E i \in Occupants(b, d) :
               /\ Overlaps(s, s + dur, rows[i].start, rows[i].end)
               /\ \/ rows[i].status # "confirmed"
                  \/ rows[i].start > s
                  \/ LeftBehind(i)
  <2>1. PICK i \in Occupants(b, d) : Overlaps(s, s + dur, rows[i].start, rows[i].end)
    BY <1>1 DEF IsSlotAvailable, FreeOf
  <2>2. SUFFICES ASSUME rows[i].status = "confirmed", ~(rows[i].start > s), ~LeftBehind(i)
                 PROVE  FALSE
    BY <2>1
  <2>3. i \in Live /\ rows[i].barber = b /\ s \in Starts
    BY <1>1 DEF Occupants, Offered
  <2>4. rows[i].start <= s
    <3>1. rows[i] \in Row
      BY <1>1, <2>3 DEF SoundInv, TypeInv, RowsOK, Live
    <3>2. rows[i].start \in Nat /\ s \in Nat
      BY <2>3, <3>1, GridAssumption DEF Row
    <3>3. QED
      BY <2>2, <3>2
  <2>5. i \in Listed(b, d) /\ Busy(i, s)
    BY <1>1, <2>1, <2>2, <2>3, <2>4, SeenAlike
  <2>6. QED
    BY <1>1, <2>5 DEF Offered
<1>2. SoundInv => OffersExplained
  BY <1>1 DEF OffersExplained
<1>3. QED
  BY <1>2, SoundAlways, PTL

\* Whatever is hidden and yet free is explained: by a booking that the list
\* still shows where it no longer is
THEOREM HiddenAreExplained ==
  ASSUME NoGuestUpdate
  PROVE  Spec => []HiddenExplained
<1>1. ASSUME SoundInv, NEW b \in Barbers, NEW d \in Dates, NEW s \in Starts \ Offered(b, d),
             NEW dur \in Durs, IsSlotAvailable(<<b, d, s>>, dur)
      PROVE  \E i \in Listed(b, d) : Busy(i, s) /\ LeftBehind(i)
  <2>1. PICK i \in Listed(b, d) : Busy(i, s)
    BY <1>1 DEF Offered
  <2>2. SUFFICES ASSUME ~LeftBehind(i) PROVE FALSE
    BY <2>1
  <2>3. i \in Live /\ rows[i].barber = b /\ rows[i].status = "confirmed"
    BY <2>1 DEF Listed
  <2>4. i \in Occupants(b, d) /\ Overlaps(s, s + dur, rows[i].start, rows[i].end)
    BY <1>1, <2>1, <2>2, <2>3, SeenAlike
  <2>5. QED
    BY <1>1, <2>4 DEF IsSlotAvailable, FreeOf
<1>2. SoundInv => HiddenExplained
  BY <1>1 DEF HiddenExplained
<1>3. QED
  BY <1>2, SoundAlways, PTL
-----------------------------------------------------------------------------
(***************************************************************************)
(* What a booking keeps while its requests come one after another.  The    *)
(* locks do not matter here: a request writes no booking but its own, and  *)
(* of its own it knows the code, since nobody but the cron writes to it    *)
(* meanwhile.  The cron writes the status alone, so that a save leaves the *)
(* row it was given or, of the status, what the cron has made of it.       *)
(***************************************************************************)
Alone == \A p, q \in Reqs : p # q /\ req[p].id = req[q].id => req[p].id = Nil

\* the columns the cron does not write
AllBut(r, s) ==
  /\ r.barber = s.barber /\ r.date = s.date /\ r.start = s.start /\ r.end = s.end
  /\ r.dur = s.dur /\ r.appt = s.appt /\ r.hold = s.hold /\ r.otpAt = s.otpAt
  /\ r.code = s.code

\* what the cron may have made of row s
Aged(r, s) == AllBut(r, s) /\ r.status \in {s.status, "expired", "done"}

KnowsSeen(p) ==
  req[p].at \in Writes /\ rows[req[p].id] # Nil
    => req[p].seen \in Row /\ Aged(rows[req[p].id], req[p].seen)

SerialInv ==
  TypeInv /\ Fresh /\ Alone /\ Numbered /\ \A p \in Reqs : KnowsSeen(p)

\* what a step of request p leaves as it is
Footprint(p) ==
  /\ \A q \in Reqs \ {p} : req'[q] = req[q]
  /\ due' = due /\ sweep' = sweep
  /\ nextId' \in {nextId, nextId + 1}
  /\ \A i \in Ids : i # req[p].id /\ i # nextId => rows'[i] = rows[i]
  /\ \/ req'[p].id \in {Nil, req[p].id}
     \/ req'[p].id = nextId /\ nextId' = nextId + 1
     \/ req'[p].id \in Live /\ Quiet(req'[p].id)
  /\ req'[p].at \in Writes => rows' = rows /\ req'[p].seen = rows[req'[p].id]
  /\ Fresh'

\* whom another request is about, the step is not
LEMMA OthersRow ==
  ASSUME SerialInv, NEW p \in Reqs, Footprint(p), NEW q \in Reqs \ {p},
         req[q].id \in Ids
  PROVE  rows'[req[q].id] = rows[req[q].id]
<1>1. req[q].id # Nil /\ req[q].id < nextId /\ req[q].id \in Nat /\ nextId \in Nat
  BY IdFacts, NilFacts DEF SerialInv, Numbered
<1>2. req[q].id # req[p].id /\ req[q].id # nextId
  BY <1>1 DEF SerialInv, Alone
<1>3. QED
  BY <1>2 DEF Footprint

LEMMA FootprintSerial ==
  ASSUME SerialInv, TypeInv', NEW p \in Reqs, Footprint(p)
  PROVE  SerialInv'
<1>1. nextId \in Nat /\ nextId' \in Nat /\ nextId <= nextId'
  BY IdFacts DEF SerialInv, Footprint
<1>2. \A q \in Reqs : req[q].id # Nil => req[q].id \in Nat /\ req[q].id < nextId
  BY IdFacts DEF SerialInv, Numbered
<1>3. \A q \in Reqs \ {p} : req'[q].id = req[q].id
  BY DEF Footprint
<1>4. Numbered'
  <2>1. req'[p].id # Nil => req'[p].id < nextId'
    <3>1. CASE req'[p].id \in {Nil, req[p].id}
      BY <1>1, <1>2, <3>1
    <3>2. CASE req'[p].id = nextId /\ nextId' = nextId + 1
      BY <1>1, <3>2
    <3>3. CASE req'[p].id \in Live
      <4>1. req'[p].id < nextId /\ req'[p].id \in Nat
        BY <3>3, IdFacts DEF SerialInv, Fresh, Live
      <4>2. QED
        BY <1>1, <4>1
    <3>4. QED
      BY <3>1, <3>2, <3>3 DEF Footprint
  <2>2. \A q \in Reqs \ {p} : req[q].id # Nil => req[q].id < nextId'
    BY <1>1, <1>2
  <2>3. QED
    BY <1>3, <2>1, <2>2 DEF Numbered
<1>5. Alone'
  <2>1. \A q \in Reqs \ {p} : req[q].id # Nil => req[q].id # nextId
    BY <1>1, <1>2
  <2>2. QED
    BY <1>3, <2>1 DEF Footprint, SerialInv, Alone, Quiet
<1>6. ASSUME NEW q \in Reqs
      PROVE  KnowsSeen(q)'
  <2>1. CASE q = p
    <3>1. ASSUME req'[p].at \in Writes, rows'[req'[p].id] # Nil
          PROVE  req'[p].seen \in Row /\ Aged(rows'[req'[p].id], req'[p].seen)
      <4>1. req'[p].id \in Ids
        BY <3>1 DEF TypeInv, ReqsOK, Loaded, Writes
      <4>2. req'[p].seen = rows'[req'[p].id] /\ req'[p].seen \in Row
        BY <3>1, <4>1 DEF Footprint, TypeInv, RowsOK
      <4>3. QED
        BY <4>2 DEF Aged, AllBut
    <3>2. QED
      BY <2>1, <3>1 DEF KnowsSeen, Aged, AllBut
  <2>2. CASE q # p
    <3>1. req'[q] = req[q] /\ KnowsSeen(q)
      BY <2>2 DEF Footprint, SerialInv
    <3>2. req[q].at \in Writes => rows'[req[q].id] = rows[req[q].id]
      BY <2>2, OthersRow DEF SerialInv, TypeInv, ReqsOK, Loaded, Writes
    <3>3. QED
      BY <3>1, <3>2 DEF KnowsSeen, Aged, AllBut
  <2>3. QED
    BY <2>1, <2>2
<1>7. QED
  BY <1>4, <1>5, <1>6 DEF SerialInv, Footprint

\* what a save leaves of row r
LEMMA SerialSave ==
  ASSUME SerialInv, NEW p \in Reqs, req[p].at \in Writes, NEW r \in Row, Save(p, r)
  PROVE  \/ rows[req[p].id] = Nil /\ rows' = rows
         \/ \E n \in Row :
              /\ rows' = [rows EXCEPT ![req[p].id] = n]
              /\ AllBut(n, r)
              /\ \/ n.status = r.status
                 \/ /\ rows[req[p].id] # Nil /\ n.status = rows[req[p].id].status
                    /\ n.status \in {"expired", "done"}
<1> DEFINE now == rows[req[p].id]
           seen == req[p].seen
<1>1. /\ RowsOK /\ ReqsOK /\ req[p].id \in Ids /\ KnowsSeen(p)
  BY DEF SerialInv, TypeInv, ReqsOK, Loaded, Writes
<1>2. CASE Insert(p, r)
  BY <1>2 DEF Insert, AllBut
<1>3. ASSUME now \in Row, seen \in Row, NEW otp \in BOOLEAN,
             Updated(now, seen, r, otp) \in Row,
             now.otpAt = seen.otpAt => otp = r.otpAt,
             rows' = [rows EXCEPT ![req[p].id] = Updated(now, seen, r, otp)]
      PROVE  \E n \in Row :
               /\ rows' = [rows EXCEPT ![req[p].id] = n]
               /\ AllBut(n, r)
               /\ \/ n.status = r.status
                  \/ /\ now # Nil /\ n.status = now.status
                     /\ n.status \in {"expired", "done"}
  <2> DEFINE n == Updated(now, seen, r, otp)
  <2>1. Aged(now, seen) /\ now # Nil
    BY <1>1, <1>3, NilFacts DEF KnowsSeen
  <2>2. AllBut(n, r)
    BY <1>3, <2>1 DEF Aged, AllBut, Updated, Column
  <2>3. n.status = IF r.status = seen.status THEN now.status ELSE r.status
    BY DEF Updated, Column
  <2>4. QED
    BY <1>3, <2>1, <2>2, <2>3 DEF Aged
<1>4. QED
  BY <1>1, <1>2, <1>3, SaveOutcomes
-----------------------------------------------------------------------------
Waiting == {"verify_save", "verify_write", "confirm_code", "confirm_save",
            "confirm_write"}

\* the requests that will save the row as they loaded it, but for its place
Reusing == {"move_lock", "move_check", "move_save", "move_write", "update_save",
            "update_write"}

Writing == Waiting \cup Reusing \cup {"cancel_save", "cancel_write"}

\* the table loses rows, or rows change in other columns
Mild ==
  \A i \in Ids : rows'[i] # Nil => /\ rows[i] # Nil
                                   /\ rows'[i].code = rows[i].code
                                   /\ rows'[i].status = rows[i].status
                                   /\ rows'[i].hold = rows[i].hold

\* request p loads a booking
Loads(p) ==
  /\ rows' = rows
  /\ req'[p].id \in Live /\ req'[p].snap = rows[req'[p].id]
  /\ req'[p].at = "confirm_code" => rows[req'[p].id].code = 0
  /\ req'[p].at \in Waiting => /\ rows[req'[p].id].status \in Held
                               /\ AssertNotExpired(req'[p].id)

\* it goes on with what it has loaded, or with its new code
Remembers(p) ==
  /\ rows' = rows
  /\ req[p].at \in Writing /\ req'[p].at \in Writing \ {"confirm_code"}
  /\ \/ req[p].at \in Waiting /\ req'[p].at \in Waiting
     \/ req[p].at \in Reusing /\ req'[p].at \in Reusing
     \/ req[p].at = "cancel_save" /\ req'[p].at = "cancel_write"
  /\ req'[p].id = req[p].id /\ req'[p].snap.status = req[p].snap.status
  /\ req'[p].snap.hold = req[p].snap.hold
  /\ req[p].at = "confirm_code" \/ req'[p].snap.code = req[p].snap.code

\* the statuses a request gives to a row
Gives(p, r) ==
  \/ r.status = "cancelled"
  \/ r.status = "confirmed" /\ req[p].at \in Waiting
  \/ r.status = "otp_verified" /\ req[p].at \in Waiting /\ r.hold = req[p].snap.hold
  \/ /\ r.status = req[p].snap.status /\ r.hold = req[p].snap.hold
     /\ req[p].at \in Reusing

\* it saves row r
WritesBack(p, r) ==
  /\ rows' = [rows EXCEPT ![req[p].id] = r]
  /\ req[p].at \in Writing /\ req'[p].at \notin Writing
  /\ r.code = req[p].snap.code
  /\ \/ Gives(p, r)
     \/ /\ rows[req[p].id] # Nil /\ r.status = rows[req[p].id].status
        /\ r.status \in {"expired", "done"}

\* it inserts a booking
Creates(p) ==
  /\ req[p].at = "hold_save" /\ nextId \in Ids /\ rows[nextId] = Nil
  /\ rows' = [rows EXCEPT ![nextId] = req[p].snap]
  /\ req'[p].at \notin Writing

Outcome(p) ==
  \/ Mild /\ req'[p].at \notin Writing
  \/ Loads(p)
  \/ Remembers(p)
  \/ \E r \in Row : WritesBack(p, r)
  \/ Creates(p)

LEMMA SameRowsMild == rows' = rows => Mild /\ (Fresh /\ nextId' = nextId => Fresh')
BY DEF Mild, Fresh, Live

LEMMA MildFresh ==
  ASSUME Fresh, nextId' = nextId, \A i \in Ids : rows'[i] # Nil => rows[i] # Nil
  PROVE  Fresh'
BY DEF Fresh, Live

LEMMA ArriveOutcome ==
  ASSUME Serial, SerialInv, NEW p \in Reqs, Arrive(p)
  PROVE  Footprint(p) /\ Outcome(p)
<1>1. /\ rows' = rows /\ nextId' = nextId /\ due' = due /\ sweep' = sweep
  BY DEF Arrive, HoldLock, VerifyRead, ConfirmRead, CancelRead, MoveRead, UpdateRead,
         AdminMoveRead, AdminRemoveRead, OnlyReq, LocksAndReq
<1>2. Fresh'
  BY <1>1, SameRowsMild DEF SerialInv
<1>3. ASSUME NEW i \in Live, Quiet(i), NEW point, NEW key, Start(p, point, i, key),
             point \notin Writes, point = "confirm_code" => rows[i].code = 0,
             point \in Waiting => rows[i].status \in Held /\ AssertNotExpired(i)
      PROVE  Footprint(p) /\ Outcome(p)
  <2>1. /\ req'[p] = [at |-> point, id |-> i, snap |-> rows[i], seen |-> Nil,
                      key |-> key]
        /\ \A q \in Reqs \ {p} : req'[q] = req[q]
    BY <1>3, ReqMoves DEF Start, SerialInv
  <2>2. req'[p].at = point /\ req'[p].id = i /\ req'[p].snap = rows[i]
    BY <2>1
  <2>3. Loads(p)
    BY <1>1, <1>3, <2>2 DEF Loads
  <2>4. Footprint(p)
    BY <1>1, <1>2, <1>3, <2>1, <2>2 DEF Footprint
  <2>5. QED
    BY <2>3, <2>4 DEF Outcome
<1>4. CASE HoldLock(p)
  <2>1. PICK k \in Slots, d \in Durs :
          Become(p, [at |-> "hold_check", id |-> Nil, snap |-> NewRow(k, d),
                     seen |-> Nil, key |-> k])
    BY <1>4 DEF HoldLock
  <2>2. /\ req'[p] = [at |-> "hold_check", id |-> Nil, snap |-> NewRow(k, d),
                      seen |-> Nil, key |-> k]
        /\ \A q \in Reqs \ {p} : req'[q] = req[q]
    BY <2>1, ReqMoves DEF SerialInv
  <2>3. req'[p].at = "hold_check" /\ req'[p].id = Nil
    BY <2>2
  <2>4. Footprint(p)
    BY <1>1, <1>2, <2>2, <2>3 DEF Footprint, Writes
  <2>5. req'[p].at \notin Writing
    BY <2>3 DEF Writing, Waiting, Reusing
  <2>6. QED
    BY <1>1, <2>4, <2>5, SameRowsMild DEF Outcome
<1>5. ASSUME NEW op, NEW i, Asked(op, i)
      PROVE  i \in Live /\ Quiet(i) /\ rows[i] \in Row
  BY <1>5 DEF Asked, Live, SerialInv, TypeInv, RowsOK
<1>6. ASSUME NEW i \in Ids, VerifyRead(p, i)
      PROVE  Footprint(p) /\ Outcome(p)
  <2>1. rows[i].status \in Held /\ i \in Live /\ Quiet(i)
    BY <1>5, <1>6, OnlyPendingIsVerified DEF VerifyRead, Held
  <2>2. QED
    BY <1>3, <1>6, <2>1 DEF VerifyRead, Writes
<1>7. ASSUME NEW i \in Ids, ConfirmRead(p, i)
      PROVE  Footprint(p) /\ Outcome(p)
  <2>1. rows[i].status \in Held /\ i \in Live /\ Quiet(i) /\ AssertNotExpired(i)
    BY <1>5, <1>7, OnlyVerifiedIsConfirmed DEF ConfirmRead, Held
  <2>2. \/ rows[i].code = 0 /\ Start(p, "confirm_code", i, Nil)
        \/ Start(p, "confirm_save", i, Nil)
    BY <1>7 DEF ConfirmRead
  <2>3. QED
    BY <1>3, <2>1, <2>2 DEF Writes
<1>8. ASSUME NEW i \in Ids, \/ CancelRead(p, i) \/ MoveRead(p, i) \/ UpdateRead(p, i)
                            \/ AdminMoveRead(p, i) \/ AdminRemoveRead(p, i)
      PROVE  Footprint(p) /\ Outcome(p)
  <2>1. i \in Live /\ Quiet(i)
    BY <1>5, <1>8 DEF CancelRead, MoveRead, UpdateRead, AdminMoveRead, AdminRemoveRead
  <2>2. PICK point \in {"cancel_save", "move_lock", "update_save", "admin_check",
                        "admin_delete"} :
          \E key : Start(p, point, i, key)
    BY <1>8 DEF CancelRead, MoveRead, UpdateRead, AdminMoveRead, AdminRemoveRead
  <2>3. QED
    BY <1>3, <2>1, <2>2 DEF Waiting, Writes
<1>9. QED
  BY <1>4, <1>6, <1>7, <1>8 DEF Arrive

LEMMA WritesAreWriting == Writes \subseteq Writing
BY DEF Writes, Writing, Waiting, Reusing

\* a step that leaves the request without anything to save
LEMMA MildOutcome ==
  ASSUME SerialInv, NEW p \in Reqs, Mild, due' = due, sweep' = sweep, nextId' = nextId,
         \A i \in Ids : i # req[p].id => rows'[i] = rows[i],
         \/ Respond(p) \/ LeaveSection(p)
         \/ \E point : GoTo(p, point) /\ point \notin Writing
  PROVE  Footprint(p) /\ Outcome(p)
<1>1. /\ req'[p].id \in {Nil, req[p].id} /\ req'[p].at \notin Writing
      /\ \A q \in Reqs \ {p} : req'[q] = req[q]
  BY ReqLeaves, ReqGoesOn DEF SerialInv, Writing, Waiting, Reusing
<1>2. Fresh'
  BY MildFresh DEF SerialInv, Mild
<1>3. QED
  BY <1>1, <1>2, WritesAreWriting DEF Footprint, Outcome

\* a step that leaves the table, too
LEMMA QuietOutcome ==
  ASSUME SerialInv, NEW p \in Reqs, rows' = rows, due' = due, sweep' = sweep,
         nextId' = nextId,
         \/ Respond(p) \/ LeaveSection(p)
         \/ \E point : GoTo(p, point) /\ point \notin Writing
  PROVE  Footprint(p) /\ Outcome(p)
BY MildOutcome, SameRowsMild

LEMMA RememberOutcome ==
  ASSUME SerialInv, NEW p \in Reqs, rows' = rows, due' = due, sweep' = sweep,
         nextId' = nextId, req[p].at \in Reusing,
         NEW point \in Reusing \ Writes, GoTo(p, point)
  PROVE  Footprint(p) /\ Outcome(p)
<1>1. /\ req'[p].at = point /\ req'[p].id = req[p].id /\ req'[p].snap = req[p].snap
      /\ \A q \in Reqs \ {p} : req'[q] = req[q]
  BY ReqGoesOn DEF SerialInv
<1>2. Remembers(p)
  BY <1>1 DEF Remembers, Writing, Waiting, Reusing
<1>3. Fresh'
  BY SameRowsMild DEF SerialInv
<1>4. QED
  BY <1>1, <1>2, <1>3 DEF Footprint, Outcome

LEMMA SelectOutcome ==
  ASSUME SerialInv, NEW p \in Reqs, Select(p)
  PROVE  Footprint(p) /\ Outcome(p)
<1>1. /\ rows' = rows /\ due' = due /\ sweep' = sweep /\ nextId' = nextId
  BY DEF Select, OnlyReq
<1>2. /\ req'[p].id = req[p].id /\ req'[p].snap = req[p].snap
      /\ req'[p].seen = rows[req[p].id]
      /\ \A q \in Reqs \ {p} : req'[q] = req[q]
  BY ReqSelects DEF SerialInv
<1>3. Fresh'
  BY <1>1, SameRowsMild DEF SerialInv
<1>4. Footprint(p)
  BY <1>1, <1>2, <1>3 DEF Footprint
<1>5. \E point \in Writes : req[p].at \in SavePoints /\ req'[p].at = point
  BY ReqSelects DEF SerialInv
<1>6. /\ req'[p].at \in Writing \ {"confirm_code"} /\ req[p].at \in Writing
      /\ req[p].at # "confirm_code"
      /\ \/ req[p].at \in Waiting /\ req'[p].at \in Waiting
         \/ req[p].at \in Reusing /\ req'[p].at \in Reusing
         \/ req[p].at = "cancel_save" /\ req'[p].at = "cancel_write"
  <2>1. PICK point, next : /\ <<point, next>> \in
                                {<<"verify_save", "verify_write">>,
                                 <<"confirm_save", "confirm_write">>,
                                 <<"cancel_save", "cancel_write">>,
                                 <<"move_save", "move_write">>,
                                 <<"update_save", "update_write">>}
                           /\ SelectAt(p, point, next)
    BY DEF Select
  <2>2. req[p].at = point /\ req'[p].at = next
    <3>1. req[p] \in Request
      BY DEF SerialInv, TypeInv, ReqsOK
    <3>2. req'[p] = [req[p] EXCEPT !.at = next, !.seen = rows[req[p].id]]
      BY <2>1, ReqMoves DEF SelectAt, SerialInv
    <3>3. QED
      BY <2>1, <3>1, <3>2 DEF SelectAt, Request
  <2>3. QED
    BY <2>1, <2>2 DEF Writing, Waiting, Reusing
<1>7. Remembers(p)
  BY <1>1, <1>2, <1>6 DEF Remembers
<1>8. QED
  BY <1>4, <1>7 DEF Outcome

LEMMA SaveOutcome ==
  ASSUME SerialInv, NEW p \in Reqs, NEW r \in Row, Save(p, r), RowsAndReq,
         req[p].at \in Writes, r.code = req[p].snap.code, Gives(p, r),
         \/ Respond(p)
         \/ \E point \in {"confirm_emit", "cancel_free", "move_mark"} : GoTo(p, point)
  PROVE  Footprint(p) /\ Outcome(p)
<1>1. req[p].id \in Ids /\ req[p].at \in Writing
  BY WritesAreWriting DEF SerialInv, TypeInv, ReqsOK, Loaded, Writes
<1>2. /\ req'[p].id \in {Nil, req[p].id} /\ req'[p].at \notin Writing
      /\ \A q \in Reqs \ {p} : req'[q] = req[q]
  BY ReqLeaves, ReqGoesOn DEF SerialInv, Writing, Waiting, Reusing
<1>3. req[p].id < nextId
  BY <1>1, NilFacts DEF SerialInv, Numbered
<1>4. CASE rows' = rows
  <2>1. Mild /\ Fresh'
    BY <1>4, SameRowsMild DEF SerialInv, RowsAndReq
  <2>2. Footprint(p)
    BY <1>2, <1>4, <2>1, WritesAreWriting DEF Footprint, RowsAndReq
  <2>3. QED
    BY <1>2, <2>1, <2>2 DEF Outcome
<1>5. ASSUME NEW n \in Row, rows' = [rows EXCEPT ![req[p].id] = n], AllBut(n, r),
             \/ n.status = r.status
             \/ /\ rows[req[p].id] # Nil /\ n.status = rows[req[p].id].status
                /\ n.status \in {"expired", "done"}
      PROVE  Footprint(p) /\ Outcome(p)
  <2>1. Fresh'
    BY <1>3, <1>5 DEF SerialInv, Fresh, Live, RowsAndReq
  <2>2. \A i \in Ids \ {req[p].id} : rows'[i] = rows[i]
    BY <1>5
  <2>3. Footprint(p)
    BY <1>2, <2>1, <2>2, WritesAreWriting DEF Footprint, RowsAndReq
  <2>4. Gives(p, n) \/ n.status # r.status
    BY <1>5 DEF Gives, AllBut
  <2>5. n.code = req[p].snap.code
    BY <1>5 DEF AllBut
  <2>6. WritesBack(p, n)
    BY <1>1, <1>2, <1>5, <2>4, <2>5 DEF WritesBack
  <2>7. QED
    BY <2>3, <2>6 DEF Outcome
<1>6. QED
  BY <1>4, <1>5, SerialSave

LEMMA SavesOutcome ==
  ASSUME SerialInv, NEW p \in Reqs,
         \/ VerifySave(p) \/ ConfirmSave(p) \/ CancelSave(p) \/ MoveSave(p)
         \/ UpdateSave(p)
  PROVE  Footprint(p) /\ Outcome(p)
<1> DEFINE s == req[p].snap
           k == req[p].key
<1>1. /\ s \in Row
      /\ req[p].at \in {"move_write", "update_write"} => k \in Slots
      /\ req[p].at \in Writes
  BY DEF VerifySave, ConfirmSave, CancelSave, MoveSave, UpdateSave, SerialInv, TypeInv,
         ReqsOK, Loaded, Keyed, InSection, Writes
<1>2. CASE VerifySave(p)
  <2>1. Verified(s) \in Row /\ Verified(s).code = s.code
                            /\ Verified(s).status = "otp_verified"
                            /\ Verified(s).hold = s.hold
    BY <1>1, VerifiedType DEF Verified, Row
  <2>2. Gives(p, Verified(s))
    BY <1>2, <2>1 DEF VerifySave, Gives, Waiting
  <2>3. QED
    BY <1>1, <1>2, <2>1, <2>2, SaveOutcome DEF VerifySave
<1>3. CASE ConfirmSave(p)
  <2>1. Confirmed(s) \in Row /\ Confirmed(s).code = s.code
                             /\ Confirmed(s).status = "confirmed"
    BY <1>1, ConfirmedType DEF Confirmed, Row
  <2>2. Gives(p, Confirmed(s))
    BY <1>3, <2>1 DEF ConfirmSave, Gives, Waiting
  <2>3. QED
    BY <1>1, <1>3, <2>1, <2>2, SaveOutcome DEF ConfirmSave
<1>4. CASE CancelSave(p)
  <2>1. Cancelled(s) \in Row /\ Cancelled(s).code = s.code
                             /\ Cancelled(s).status = "cancelled"
    BY <1>1, CancelledType DEF Cancelled, Row
  <2>2. Gives(p, Cancelled(s))
    BY <2>1 DEF Gives
  <2>3. QED
    BY <1>1, <1>4, <2>1, <2>2, SaveOutcome DEF CancelSave
<1>5. CASE MoveSave(p)
  <2>1. Moved(s, k) \in Row /\ Moved(s, k).code = s.code
                            /\ Moved(s, k).status = s.status
                            /\ Moved(s, k).hold = s.hold
    BY <1>1, <1>5, MovedType DEF MoveSave, Moved, Row
  <2>2. Gives(p, Moved(s, k))
    BY <1>5, <2>1 DEF MoveSave, Gives, Reusing
  <2>3. QED
    BY <1>1, <1>5, <2>1, <2>2, SaveOutcome DEF MoveSave
<1>6. CASE UpdateSave(p)
  <2>1. Edited(s, k) \in Row
    BY <1>1, <1>6, EditedType DEF UpdateSave
  <2>2. /\ Edited(s, k).code = s.code /\ Edited(s, k).status = s.status
        /\ Edited(s, k).hold = s.hold
    BY <1>1 DEF Edited, Moved, Row
  <2>3. Gives(p, Edited(s, k))
    BY <1>6, <2>2 DEF UpdateSave, Gives, Reusing
  <2>4. QED
    BY <1>1, <1>6, <2>1, <2>2, <2>3, SaveOutcome DEF UpdateSave
<1>7. QED
  BY <1>2, <1>3, <1>4, <1>5, <1>6

LEMMA HoldSaveOutcome ==
  ASSUME SerialInv, NEW p \in Reqs, HoldSave(p)
  PROVE  Footprint(p) /\ Outcome(p)
<1>1. /\ nextId \in Ids /\ nextId \in Nat /\ nextId' = nextId + 1
      /\ rows' = [rows EXCEPT ![nextId] = req[p].snap]
      /\ req[p] \in Request
  BY IdFacts DEF HoldSave, SerialInv, TypeInv, ReqsOK
<1>2. rows[nextId] = Nil
  BY <1>1 DEF SerialInv, Fresh, Live
<1>3. /\ req'[p] = [req[p] EXCEPT !.at = "hold_mark", !.id = nextId]
      /\ \A q \in Reqs \ {p} : req'[q] = req[q]
  BY ReqMoves DEF HoldSave, SerialInv
<1>4. req'[p].at = "hold_mark" /\ req'[p].id = nextId
  BY <1>1, <1>3 DEF Request
<1>5. Fresh'
  <2>1. \A i \in Ids : i # nextId => rows'[i] = rows[i]
    BY <1>1 DEF SerialInv, TypeInv, RowsOK
  <2>2. QED
    BY <1>1, <2>1, IdFacts DEF SerialInv, Fresh, Live
<1>6. Footprint(p)
  BY <1>1, <1>3, <1>4, <1>5 DEF Footprint, HoldSave, Writes
<1>7. Creates(p)
  BY <1>1, <1>2, <1>4 DEF Creates, HoldSave, Writing, Waiting, Reusing
<1>8. QED
  BY <1>6, <1>7 DEF Outcome

LEMMA ConfirmCodeOutcome ==
  ASSUME SerialInv, NEW p \in Reqs, ConfirmCode(p)
  PROVE  Footprint(p) /\ Outcome(p)
<1>1. /\ req[p] \in Request /\ req[p].snap \in Row /\ req[p].at = "confirm_code"
      /\ rows' = rows /\ nextId' = nextId /\ due' = due /\ sweep' = sweep
  BY DEF ConfirmCode, OnlyReq, SerialInv, TypeInv, ReqsOK, Loaded
<1>2. PICK c \in 1..MaxCode :
        Become(p, [req[p] EXCEPT !.at = "confirm_save", !.snap.code = c])
  BY DEF ConfirmCode
<1>3. /\ req'[p] = [req[p] EXCEPT !.at = "confirm_save", !.snap.code = c]
      /\ \A q \in Reqs \ {p} : req'[q] = req[q]
  BY <1>2, ReqMoves DEF SerialInv
<1>4. /\ req'[p].at = "confirm_save" /\ req'[p].id = req[p].id
      /\ req'[p].snap = [req[p].snap EXCEPT !.code = c]
  BY <1>1, <1>3 DEF Request
<1>5. /\ req'[p].snap.status = req[p].snap.status
      /\ req'[p].snap.hold = req[p].snap.hold
  BY <1>1, <1>4 DEF Row
<1>6. Remembers(p)
  BY <1>1, <1>4, <1>5 DEF Remembers, Writing, Waiting
<1>7. Fresh'
  BY <1>1, SameRowsMild DEF SerialInv
<1>8. QED
  BY <1>1, <1>3, <1>4, <1>6, <1>7 DEF Footprint, Outcome, Writes

LEMMA ContinueOutcome ==
  ASSUME SerialInv, NEW p \in Reqs, Continue(p)
  PROVE  Footprint(p) /\ Outcome(p)
<1>1. CASE \/ HoldCheck(p) \/ Mark(p) \/ Release(p) \/ ConfirmEmit(p) \/ CancelFree(p)
           \/ AdminMoveCheck(p) \/ Throw(p)
  <2>1. rows' = rows /\ due' = due /\ sweep' = sweep /\ nextId' = nextId
    BY <1>1 DEF HoldCheck, Mark, Release, ConfirmEmit, CancelFree, AdminMoveCheck, Throw,
                OnlyReq, KeysAndReq, LocksAndReq
  <2>2. "hold_save" \notin Writing /\ "admin_update" \notin Writing
    BY DEF Writing, Waiting, Reusing
  <2>3. \/ Respond(p) \/ LeaveSection(p)
        \/ \E point : GoTo(p, point) /\ point \notin Writing
    BY <1>1, <2>2 DEF HoldCheck, Mark, Release, ConfirmEmit, CancelFree, AdminMoveCheck,
                      Throw
  <2>4. QED
    BY <2>1, <2>3, QuietOutcome
<1>2. CASE MoveLock(p) \/ MoveCheck(p)
  <2>1. rows' = rows /\ due' = due /\ sweep' = sweep /\ nextId' = nextId
    BY <1>2 DEF MoveLock, MoveCheck, KeysAndReq, LocksAndReq
  <2>2. req[p].at \in Reusing
    BY <1>2 DEF MoveLock, MoveCheck, Reusing
  <2>3. \/ Respond(p) \/ LeaveSection(p)
        \/ \E point \in Reusing \ Writes : GoTo(p, point)
    BY <1>2 DEF MoveLock, MoveCheck, Reusing, Writes
  <2>4. QED
    BY <2>1, <2>2, <2>3, QuietOutcome, RememberOutcome
<1>3. CASE AdminMoveUpdate(p)
  <2>1. ASSUME NEW i \in Ids
        PROVE  \/ rows'[i] = rows[i]
               \/ /\ i = req[p].id /\ rows[i] \in Row
                  /\ rows'[i] = Moved(rows[i], req[p].key)
    BY <1>3 DEF AdminMoveUpdate, SerialInv, TypeInv, RowsOK, Live
  <2>2. \A r \in Row : /\ Moved(r, req[p].key).code = r.code
                       /\ Moved(r, req[p].key).status = r.status
                       /\ Moved(r, req[p].key).hold = r.hold
    BY DEF Moved, Row
  <2>3. Mild /\ \A i \in Ids : i # req[p].id => rows'[i] = rows[i]
    BY <2>1, <2>2, NilFacts DEF Mild
  <2>4. QED
    BY <1>3, <2>3, MildOutcome DEF AdminMoveUpdate, RowsAndReq
<1>4. CASE AdminRemoveDelete(p)
  <2>1. Mild /\ \A i \in Ids : i # req[p].id => rows'[i] = rows[i]
    BY <1>4 DEF AdminRemoveDelete, Without, Mild
  <2>2. QED
    BY <1>4, <2>1, MildOutcome DEF AdminRemoveDelete, RowsAndReq
<1>5. QED
  BY <1>1, <1>2, <1>3, <1>4, SelectOutcome, HoldSaveOutcome, SavesOutcome,
     ConfirmCodeOutcome DEF Continue
-----------------------------------------------------------------------------
(***************************************************************************)
(* The codes.                                                              *)
(***************************************************************************)
\* the code in the snapshot is the one in the row
KnowsCode(p) ==
  /\ req[p].at \in Writing /\ req[p].id \in Live /\ rows[req[p].id].code # 0
       => req[p].snap.code = rows[req[p].id].code
  /\ req[p].at = "confirm_code" => req[p].snap.code = 0

CodeInv == SerialInv /\ \A p \in Reqs : KnowsCode(p)

\* what a step may do to the code of booking i
KeepsCode(i) == i \in Live /\ rows[i].code # 0 /\ rows'[i] # Nil
                => rows'[i].code = rows[i].code

LEMMA WriterId ==
  ASSUME TypeInv, NEW p \in Reqs, req[p].at \in Writing
  PROVE  req[p].id \in Ids
BY DEF TypeInv, ReqsOK, Loaded, Writing, Waiting, Reusing

LEMMA RequestKeepsCodes ==
  ASSUME CodeInv, TypeInv', NEW p \in Reqs, Footprint(p), Outcome(p)
  PROVE  CodeInv' /\ \A i \in Ids : KeepsCode(i)
<1>1. SerialInv'
  BY FootprintSerial DEF CodeInv
<1>2. ASSUME NEW q \in Reqs \ {p}
      PROVE  KnowsCode(q)'
  <2>1. req'[q] = req[q] /\ KnowsCode(q)
    BY DEF Footprint, CodeInv
  <2>2. req[q].at \in Writing => rows'[req[q].id] = rows[req[q].id]
    BY WriterId, OthersRow DEF CodeInv, SerialInv
  <2>3. QED
    BY <2>1, <2>2 DEF KnowsCode, Live
<1>3. SUFFICES KnowsCode(p)' /\ \A i \in Ids : KeepsCode(i)
  BY <1>1, <1>2 DEF CodeInv
<1>4. KnowsCode(p) /\ rows \in [Ids -> Row \cup {Nil}]
  BY DEF CodeInv, SerialInv, TypeInv, RowsOK
<1>5. req'[p].at \notin Writing => KnowsCode(p)'
  BY DEF KnowsCode, Writing, Waiting
<1>6. CASE Mild /\ req'[p].at \notin Writing
  BY <1>5, <1>6 DEF Mild, KeepsCode
<1>7. CASE Loads(p)
  BY <1>7 DEF Loads, KnowsCode, KeepsCode, Live
<1>8. CASE Remembers(p)
  <2>1. KnowsCode(p)'
    BY <1>4, <1>8 DEF Remembers, KnowsCode, Live
  <2>2. QED
    BY <1>8, <2>1 DEF Remembers, KeepsCode
<1>9. ASSUME NEW r \in Row, WritesBack(p, r)
      PROVE  KnowsCode(p)' /\ \A i \in Ids : KeepsCode(i)
  BY <1>4, <1>5, <1>9 DEF WritesBack, KnowsCode, KeepsCode, Live
<1>10. CASE Creates(p)
  BY <1>4, <1>5, <1>10 DEF Creates, KeepsCode, Live
<1>11. QED
  BY <1>6, <1>7, <1>8, <1>9, <1>10 DEF Outcome

\* a step of nobody's request: rows go, or keep their codes
CodesStay ==
  \A i \in Ids : rows'[i] # Nil => rows[i] # Nil /\ rows'[i].code = rows[i].code

LEMMA OthersKeepCodes ==
  ASSUME CodeInv, TypeInv', CodesStay, nextId' = nextId,
         \A p \in Reqs : req[p].id \in Ids =>
           LET i == req[p].id IN rows'[i] \in {rows[i], Nil} \/ Aged(rows'[i], rows[i]),
         req' = req \/ \A p \in Reqs : req'[p] = Idle
  PROVE  CodeInv' /\ \A i \in Ids : KeepsCode(i)
<1>1. Fresh'
  BY MildFresh DEF CodesStay, CodeInv, SerialInv
<1>2. Alone' /\ Numbered'
  BY DEF Idle, Alone, Numbered, CodeInv, SerialInv
<1>3. ASSUME NEW p \in Reqs
      PROVE  KnowsCode(p)'
  <2>1. CASE req' = req
    BY <2>1 DEF CodesStay, CodeInv, KnowsCode, Live
  <2>2. CASE req'[p] = Idle
    BY <2>2 DEF KnowsCode, Idle, Writing, Waiting, Reusing
  <2>3. QED
    BY <2>1, <2>2
<1>4. ASSUME NEW p \in Reqs
      PROVE  KnowsSeen(p)'
  <2>1. CASE req' = req
    <3>1. ASSUME req[p].at \in Writes, rows'[req[p].id] # Nil
          PROVE  req[p].seen \in Row /\ Aged(rows'[req[p].id], req[p].seen)
      <4>1. req[p].id \in Ids /\ KnowsSeen(p)
        BY <3>1 DEF CodeInv, SerialInv, TypeInv, ReqsOK, Loaded, Writes
      <4>2. rows[req[p].id] # Nil
        BY <3>1, <4>1 DEF CodesStay
      <4>3. QED
        BY <3>1, <4>1, <4>2 DEF KnowsSeen, Aged, AllBut
    <3>2. QED
      BY <2>1, <3>1 DEF KnowsSeen, Aged, AllBut
  <2>2. CASE req'[p] = Idle
    BY <2>2 DEF KnowsSeen, Idle, Writes
  <2>3. QED
    BY <2>1, <2>2
<1>5. QED
  BY <1>1, <1>2, <1>3, <1>4 DEF CodesStay, CodeInv, SerialInv, KeepsCode

LEMMA WithStatusRows ==
  ASSUME TypeInv, NEW S, NEW st \in Status, rows' = WithStatus(S, st), NEW i \in Ids
  PROVE  \/ rows'[i] = rows[i]
         \/ /\ i \in S /\ i \in Live /\ rows'[i].status = st
            /\ AllBut(rows'[i], rows[i])
BY DEF WithStatus, Live, TypeInv, RowsOK, Row, AllBut

LEMMA AtOnceRows ==
  ASSUME Serial, TypeInv, AtOnce
  PROVE  /\ req' = req /\ sweep' = sweep /\ due' = due /\ nextId' = nextId
         /\ \A p \in Reqs : req[p].id \in Ids => rows'[req[p].id] = rows[req[p].id]
         /\ \A i \in Ids :
              \/ rows'[i] \in {rows[i], Nil}
              \/ /\ rows[i] # Nil /\ rows'[i].code = rows[i].code
                 /\ rows'[i].hold = rows[i].hold
                 /\ rows'[i].status \in {rows[i].status} \cup AdminStatuses
                 /\ NoGuestUpdate => SlotOf(rows'[i]) = SlotOf(rows[i])
<1> USE DEF OnlyRows
<1>1. ASSUME NEW op, NEW i, Asked(op, i)
      PROVE  i \in Live /\ \A p \in Reqs : req[p].id # i
  BY <1>1 DEF Asked, Quiet
<1>2. CASE \E i \in Ids : GuestUpdate(i)
  <2>0. ~NoGuestUpdate
    BY <1>2 DEF GuestUpdate, Asked, NoGuestUpdate
  <2>1. PICK i \in Ids, k \in Slots : /\ Asked("guest", i) /\ OnlyRows
                                      /\ rows' = [rows EXCEPT ![i] = GuestEdited(rows[i], k)]
    BY <1>2 DEF GuestUpdate
  <2>2. i \in Live /\ \A p \in Reqs : req[p].id # i
    BY <1>1, <2>1
  <2>3. /\ GuestEdited(rows[i], k).code = rows[i].code
        /\ GuestEdited(rows[i], k).status = rows[i].status
        /\ GuestEdited(rows[i], k).hold = rows[i].hold
    BY <2>2 DEF GuestEdited, Live, TypeInv, RowsOK, Row
  <2>4. QED
    BY <2>0, <2>1, <2>2, <2>3 DEF TypeInv, RowsOK, Live
<1>3. CASE \E i \in Ids : Remove(i)
  BY <1>1, <1>3 DEF Remove, Without
<1>4. ASSUME NEW S \in SUBSET Ids, NEW st \in AdminStatuses, rows' = WithStatus(S, st),
             \A i \in S : \A p \in Reqs : req[p].id # i, OnlyRows
      PROVE  /\ req' = req /\ sweep' = sweep /\ due' = due /\ nextId' = nextId
             /\ \A p \in Reqs : req[p].id \in Ids => rows'[req[p].id] = rows[req[p].id]
             /\ \A i \in Ids :
                  \/ rows'[i] = rows[i]
                  \/ /\ rows[i] # Nil /\ rows'[i].code = rows[i].code
                     /\ rows'[i].hold = rows[i].hold
                     /\ rows'[i].status \in AdminStatuses
                     /\ SlotOf(rows'[i]) = SlotOf(rows[i])
  <2>1. st \in Status
    BY SwitchAssumption
  <2>2. QED
    BY <1>4, <2>1, WithStatusRows DEF Live, AllBut, SlotOf
<1>5. CASE \E i \in Ids : \E st \in AdminStatuses : AdminUpdateStatus(i, st)
  BY <1>1, <1>4, <1>5 DEF AdminUpdateStatus
<1>6. CASE \E S \in SUBSET Ids, st \in {"confirmed", "cancelled"} \cap AdminStatuses :
             BulkUpdateStatus(S, st)
  <2>1. PICK S \in SUBSET Ids, st \in {"confirmed", "cancelled"} \cap AdminStatuses :
               BulkUpdateStatus(S, st)
    BY <1>6
  <2>2. Eligible(S, st) \subseteq S
    BY DEF Eligible
  <2>3. QED
    BY <1>1, <1>4, <2>1, <2>2 DEF BulkUpdateStatus
<1>7. QED
  BY <1>2, <1>3, <1>5, <1>6 DEF AtOnce

LEMMA CronRows ==
  ASSUME TypeInv, Cron
  PROVE  /\ req' = req /\ due' = due /\ nextId' = nextId
         /\ \A i \in Ids :
              \/ rows'[i] = rows[i]
              \/ rows'[i] = Nil /\ rows[i] # Nil /\ rows[i].status \notin Held
              \/ /\ rows[i] # Nil /\ AllBut(rows'[i], rows[i])
                 /\ \/ /\ rows[i].status = "confirmed" /\ rows'[i].status = "done"
                    \/ /\ rows'[i].status = "expired"
                       /\ \E c \in Crons : sweep[c].at = "update" /\ i \in sweep[c].ids
<1>1. CASE \E c \in Crons : ExpireUpdate(c)
  <2>1. PICK c \in Crons : ExpireUpdate(c)
    BY <1>1
  <2>2. "expired" \in Status
    BY DEF Status
  <2>3. QED
    BY <2>1, <2>2, WithStatusRows DEF ExpireUpdate, Live
<1>2. CASE \E c \in Crons : ExpireFind(c) \/ ExpireFree(c) \/ CronThrows(c)
  BY <1>2 DEF ExpireFind, ExpireFree, CronThrows
<1>3. CASE \E cutoff \in Ids : Archive(cutoff)
  BY <1>3 DEF Archive, Without, OnlyRows, Live, Held
<1>4. CASE \E d \in Dates : MarkNoShows(d)
  <2>1. PICK d \in Dates : MarkNoShows(d)
    BY <1>4
  <2>2. \A r \in Row : AllBut(NoShow(r), r) /\ NoShow(r).status = "done"
    BY DEF NoShow, Row, AllBut
  <2>3. QED
    BY <2>1, <2>2 DEF MarkNoShows, OnlyRows, Live, TypeInv, RowsOK
<1>5. QED
  BY <1>1, <1>2, <1>3, <1>4 DEF Cron, SweepStep

LEMMA NextKeepsCodes ==
  ASSUME Serial, CodeInv, [Next]_vars
  PROVE  CodeInv' /\ \A i \in Ids : KeepsCode(i)
<1>1. TypeInv' /\ TypeInv /\ SerialInv
  BY NextType DEF CodeInv, SerialInv
<1>2. CASE \E p \in Reqs : Arrive(p) \/ Continue(p)
  BY <1>1, <1>2, ArriveOutcome, ContinueOutcome, RequestKeepsCodes
<1>3. CASE AtOnce
  <2>1. CodesStay /\ req' = req /\ nextId' = nextId
    BY <1>1, <1>3, AtOnceRows DEF CodesStay
  <2>2. \A p \in Reqs : req[p].id \in Ids => rows'[req[p].id] = rows[req[p].id]
    BY <1>1, <1>3, AtOnceRows
  <2>3. QED
    BY <1>1, <2>1, <2>2, OthersKeepCodes
<1>4. CASE Cron
  <2>1. CodesStay /\ req' = req /\ nextId' = nextId
    BY <1>1, <1>4, CronRows DEF CodesStay, AllBut
  <2>2. \A i \in Ids : rows'[i] \in {rows[i], Nil} \/ Aged(rows'[i], rows[i])
    BY <1>1, <1>4, CronRows DEF Aged
  <2>3. QED
    BY <1>1, <2>1, <2>2, OthersKeepCodes
<1>5. CASE Passing \/ Crash \/ UNCHANGED vars
  <2>1. /\ CodesStay /\ nextId' = nextId /\ rows' = rows
        /\ req' = req \/ \A p \in Reqs : req'[p] = Idle
    BY <1>5 DEF Passing, LockExpires, HoldKeyExpires, DeadlinePasses, Crash, vars,
                CodesStay
  <2>2. QED
    BY <1>1, <2>1, OthersKeepCodes
<1>6. QED
  BY <1>2, <1>3, <1>4, <1>5 DEF Next

LEMMA InitCodes == Init => CodeInv
BY InitType
   DEF Init, Idle, CodeInv, SerialInv, Fresh, Live, Alone, Numbered, KnowsSeen, Writes,
       KnowsCode, Writing, Waiting, Reusing

\* While the requests on one booking come one after another, a booking that has
\* its code never gets another and never loses it, whatever administrators, the
\* cron and other customers do
THEOREM CodesAreFinal ==
  ASSUME Serial
  PROVE  Spec => CodeIsFinal
<1> DEFINE A == \A i \in Live : rows[i].code # 0 /\ rows'[i] # Nil
                                => rows'[i].code = rows[i].code
<1>1. CodeInv /\ [Next]_vars => CodeInv' /\ A
  BY NextKeepsCodes DEF KeepsCode, Live
<1>2. [][A]_vars <=> CodeIsFinal
  BY DEF CodeIsFinal
<1>3. QED
  BY <1>1, <1>2, InitCodes, PTL DEF Spec
-----------------------------------------------------------------------------
(***************************************************************************)
(* The statuses.  The cron's UPDATE names the bookings its SELECT found;   *)
(* none of them is confirmed in between, because a confirmation starts     *)
(* before the deadline and, requests coming one after another, ends before *)
(* it, and because a save that remembers its booking confirmed was loaded  *)
(* when it was.  That a booking has a deadline at all until it is          *)
(* confirmed is part of the induction.                                     *)
(***************************************************************************)
Told == Occupying \ Held

SweepsDue == \A c \in Crons : sweep[c].at = "update" => sweep[c].ids \subseteq due

\* only a booking there has been can be past its deadline
DueKnown == \A i \in due : i < nextId

\* what is certain of a booking that a cron run has found
Swept(i) == \E c \in Crons : sweep[c].at = "update" /\ i \in sweep[c].ids

SweptIsOpen == \A i \in Live : Swept(i) => rows[i].status \notin Told

\* holdExpiresAt is there as long as the customer has to do something
Dated == \A i \in Live : WaitsWithDeadline(i)

KnowsDeadline(p) ==
  /\ req[p].at \in Waiting => req[p].snap.status \in Held
  /\ req[p].at \in Writing /\ req[p].snap.status \in Held => req[p].snap.hold

KnowsStatus(p) ==
  /\ req[p].at \in Waiting => req[p].id \notin due
  /\ req[p].at \in Reusing /\ req[p].id \in Live /\ rows[req[p].id].status \in Told
       => req[p].snap.status \in Told
  /\ req[p].at \in Reusing /\ req[p].snap.status \in Told
       => /\ ~Swept(req[p].id)
          /\ req[p].id \in Live => rows[req[p].id].status \notin Held

DatedInv ==
  CodeInv /\ SoundInv /\ Dated /\ \A p \in Reqs : KnowsDeadline(p)

StatusInv ==
  /\ DatedInv /\ SweepsDue /\ DueKnown /\ SweptIsOpen
  /\ \A p \in Reqs : KnowsStatus(p)

\* the administrators do not bring a hold back
NoHoldByHand == AdminStatuses \cap Held = {}

\* the administrators neither bring a booking back nor expire it by hand
OnlyClosedByHand == AdminStatuses \subseteq {"done", "cancelled"}

\* what a step may do to the status of booking i
KeepsTold(i) == i \in Live /\ rows'[i] # Nil /\ rows[i].status \in Told
                => rows'[i].status # "expired"

LEMMA RequestKeepsDeadlines ==
  ASSUME DatedInv, NEW p \in Reqs, Footprint(p), Outcome(p)
  PROVE  Dated' /\ \A q \in Reqs : KnowsDeadline(q)'
<1>1. \A q \in Reqs : KnowsDeadline(q)
  BY DEF DatedInv
<1>2. \A q \in Reqs \ {p} : KnowsDeadline(q)'
  BY <1>1 DEF Footprint, KnowsDeadline
<1>3. SUFFICES Dated' /\ KnowsDeadline(p)'
  BY <1>2
<1>4. /\ rows \in [Ids -> Row \cup {Nil}]
      /\ \A i \in Live : rows[i].status \in Held => rows[i].hold
  BY DEF DatedInv, SoundInv, TypeInv, RowsOK, Dated, WaitsWithDeadline
<1>5. req'[p].at \notin Writing => KnowsDeadline(p)'
  BY DEF KnowsDeadline, Writing
<1>6. Mild => Dated'
  BY <1>4 DEF Mild, Dated, WaitsWithDeadline, Live
<1>7. CASE Mild /\ req'[p].at \notin Writing
  BY <1>5, <1>6, <1>7
<1>8. CASE Loads(p)
  <2>1. KnowsDeadline(p)'
    BY <1>4, <1>8 DEF Loads, KnowsDeadline, Live
  <2>2. QED
    BY <1>6, <1>8, <2>1, SameRowsMild DEF Loads
<1>9. CASE Remembers(p)
  <2>1. KnowsDeadline(p)'
    BY <1>1, <1>9 DEF Remembers, KnowsDeadline, Waiting, Reusing
  <2>2. QED
    BY <1>6, <1>9, <2>1, SameRowsMild DEF Remembers
<1>10. ASSUME NEW r \in Row, WritesBack(p, r)
       PROVE  Dated' /\ KnowsDeadline(p)'
  <2>1. r.status \in Held => r.hold
    BY <1>1, <1>10 DEF WritesBack, Gives, KnowsDeadline, Held, Writing
  <2>2. Dated'
    BY <1>4, <1>10, <2>1 DEF WritesBack, Dated, WaitsWithDeadline, Live
  <2>3. QED
    BY <1>5, <1>10, <2>2 DEF WritesBack
<1>11. CASE Creates(p)
  <2>1. PICK k \in Slots, d \in Durs : req[p].snap = NewRow(k, d)
    BY <1>11 DEF Creates, DatedInv, SoundInv, HoldsAreNew, Holding, NewHold
  <2>2. req[p].snap.hold
    BY <2>1 DEF NewRow
  <2>3. Dated'
    BY <1>4, <1>11, <2>2 DEF Creates, Dated, WaitsWithDeadline, Live
  <2>4. QED
    BY <1>5, <1>11, <2>3 DEF Creates
<1>12. QED
  BY <1>7, <1>8, <1>9, <1>10, <1>11 DEF Outcome

LEMMA NextKeepsDeadlines ==
  ASSUME Serial, NoHoldByHand, DatedInv, [Next]_vars
  PROVE  DatedInv'
<1>1. CodeInv' /\ SoundInv' /\ TypeInv /\ SerialInv
  BY NextKeepsCodes, NextSound DEF DatedInv, SoundInv, CodeInv
<1>2. SUFFICES Dated' /\ \A q \in Reqs : KnowsDeadline(q)'
  BY <1>1 DEF DatedInv
<1>3. CASE \E p \in Reqs : Arrive(p) \/ Continue(p)
  BY <1>1, <1>3, ArriveOutcome, ContinueOutcome, RequestKeepsDeadlines
<1>4. ASSUME req' = req \/ \A p \in Reqs : req'[p] = Idle,
             \A i \in Ids : rows'[i] # Nil =>
               /\ rows[i] # Nil /\ rows'[i].hold = rows[i].hold
               /\ rows'[i].status \in Held => rows[i].status \in Held
      PROVE  Dated' /\ \A q \in Reqs : KnowsDeadline(q)'
  <2>1. Dated'
    BY <1>4 DEF DatedInv, Dated, WaitsWithDeadline, Live
  <2>2. \A q \in Reqs : KnowsDeadline(q)'
    BY <1>4 DEF DatedInv, KnowsDeadline, Idle, Writing, Waiting, Reusing
  <2>3. QED
    BY <2>1, <2>2
<1>5. CASE AtOnce
  BY <1>1, <1>4, <1>5, AtOnceRows DEF NoHoldByHand
<1>6. CASE Cron
  BY <1>1, <1>4, <1>6, CronRows DEF AllBut, Held
<1>7. CASE Passing \/ Crash \/ UNCHANGED vars
  <2>1. /\ rows' = rows
        /\ req' = req \/ \A p \in Reqs : req'[p] = Idle
    BY <1>7 DEF Passing, LockExpires, HoldKeyExpires, DeadlinePasses, Crash, vars
  <2>2. QED
    BY <1>4, <2>1
<1>8. QED
  BY <1>3, <1>5, <1>6, <1>7 DEF Next

\* the cron's UPDATE names what was overdue and held when it was found
LEMMA CronSweeps ==
  ASSUME TypeInv, SweepsDue, Cron
  PROVE  /\ SweepsDue'
         /\ \A i \in Ids : Swept(i)' => Swept(i) \/ i \in Stale
<1>1. due' = due
  BY CronRows
<1>2. CASE \E c \in Crons : SweepStep(c) \/ CronThrows(c)
  <2>1. PICK c \in Crons : SweepStep(c) \/ CronThrows(c)
    BY <1>2
  <2>2. /\ \A d \in Crons \ {c} : sweep'[d] = sweep[d]
        /\ sweep'[c].at = "update" => sweep'[c].ids = Stale
    BY <2>1
       DEF SweepStep, ExpireFind, ExpireUpdate, ExpireFree, CronThrows, NoSweep, Sweep,
           TypeInv, KeysOK
  <2>3. QED
    BY <1>1, <2>2 DEF SweepsDue, Swept, Stale
<1>3. CASE ~\E c \in Crons : SweepStep(c) \/ CronThrows(c)
  <2>1. sweep' = sweep
    BY <1>3 DEF Cron, Archive, MarkNoShows, OnlyRows
  <2>2. QED
    BY <1>1, <2>1 DEF Swept, SweepsDue
<1>4. QED
  BY <1>2, <1>3

LEMMA RequestKeepsStatus ==
  ASSUME StatusInv, OnlyClosedByHand, NEW p \in Reqs, Footprint(p), Outcome(p)
  PROVE  /\ SweepsDue' /\ DueKnown' /\ SweptIsOpen'
         /\ \A q \in Reqs : KnowsStatus(q)'
         /\ \A i \in Ids : KeepsTold(i)
<1>1. SweepsDue' /\ due' = due /\ sweep' = sweep
  BY DEF StatusInv, SweepsDue, Footprint
<1>2. DueKnown'
  <2>1. nextId \in Nat /\ \A i \in due : i \in Nat
    BY IdFacts DEF StatusInv, DatedInv, CodeInv, SerialInv
  <2>2. QED
    BY <1>1, <2>1 DEF StatusInv, DueKnown, Footprint
<1>3. \A i : Swept(i)' <=> Swept(i)
  BY <1>1 DEF Swept
<1>4. ASSUME NEW q \in Reqs \ {p}
      PROVE  KnowsStatus(q)'
  <2>1. req'[q] = req[q] /\ KnowsStatus(q)
    BY DEF Footprint, StatusInv
  <2>2. req[q].at \in Writing => rows'[req[q].id] = rows[req[q].id]
    BY WriterId, OthersRow DEF StatusInv, DatedInv, CodeInv, SerialInv
  <2>3. QED
    BY <1>1, <1>3, <2>1, <2>2 DEF KnowsStatus, Live, Writing
<1>5. SUFFICES SweptIsOpen' /\ KnowsStatus(p)' /\ \A i \in Ids : KeepsTold(i)
  BY <1>1, <1>2, <1>4
<1>6. /\ KnowsStatus(p) /\ SweptIsOpen /\ rows \in [Ids -> Row \cup {Nil}]
      /\ \A i \in Ids : Swept(i) => i \in due /\ i < nextId
  BY DEF StatusInv, DatedInv, SoundInv, TypeInv, RowsOK, SweepsDue, DueKnown, Swept
<1>7. req'[p].at \notin Writing => KnowsStatus(p)'
  BY DEF KnowsStatus, Writing
<1>8. Mild => SweptIsOpen' /\ \A i \in Ids : KeepsTold(i)
  BY <1>3, <1>6 DEF Mild, SweptIsOpen, Live, KeepsTold, Told, Occupying
<1>9. CASE Mild /\ req'[p].at \notin Writing
  BY <1>7, <1>8, <1>9
<1>10. CASE Loads(p)
  <2>1. Mild
    BY <1>10, SameRowsMild DEF Loads
  <2> DEFINE i == req'[p].id
  <2>2. i \in Live /\ i \in Ids /\ req'[p].snap = rows[i] /\ rows'[i] = rows[i]
    BY <1>10 DEF Loads, Live
  <2>3. req'[p].at \in Waiting => i \notin due
    BY <1>10, <2>2 DEF Loads, StatusInv, DatedInv, Dated, WaitsWithDeadline, AssertNotExpired
  <2>4. rows[i].status \in Told => ~Swept(i) /\ rows[i].status \notin Held
    BY <1>6, <2>2 DEF SweptIsOpen, Told
  <2>5. KnowsStatus(p)'
    BY <1>1, <1>3, <2>2, <2>3, <2>4 DEF KnowsStatus, Live
  <2>6. QED
    BY <1>8, <2>1, <2>5
<1>11. CASE Remembers(p)
  <2>1. Mild
    BY <1>11, SameRowsMild DEF Remembers
  <2>2. Waiting \cap Reusing = {}
    BY DEF Waiting, Reusing
  <2>3. /\ due' = due /\ rows' = rows /\ req'[p].id = req[p].id
        /\ req'[p].snap.status = req[p].snap.status
        /\ KnowsStatus(p)
    BY <1>1, <1>6, <1>11 DEF Remembers
  <2>4. req'[p].at \in Waiting => req'[p].id \notin due'
    BY <1>11, <2>2, <2>3 DEF Remembers, KnowsStatus, Waiting, Reusing
  <2>5. ASSUME req'[p].at \in Reusing
        PROVE  KnowsStatus(p)'
    <3>1. req[p].at \in Reusing
      BY <1>11, <2>2, <2>5 DEF Remembers, Waiting, Reusing
    <3>2. QED
      BY <1>3, <2>3, <2>4, <3>1 DEF KnowsStatus, Live
  <2>6. KnowsStatus(p)'
    BY <2>4, <2>5 DEF KnowsStatus
  <2>7. QED
    BY <1>8, <2>1, <2>6
<1>12. ASSUME NEW r \in Row, WritesBack(p, r)
       PROVE  SweptIsOpen' /\ KnowsStatus(p)' /\ \A i \in Ids : KeepsTold(i)
  <2> DEFINE x == req[p].id
  <2>1. /\ x \in Ids /\ rows'[x] = r /\ r # Nil
        /\ \A i \in Ids \ {x} : rows'[i] = rows[i]
    BY <1>6, <1>12, WriterId, NilFacts DEF WritesBack, StatusInv, DatedInv, SoundInv
  <2>2. r.status \in Told => ~Swept(x)
    BY <1>6, <1>12, <2>1 DEF WritesBack, Gives, KnowsStatus, Told, Occupying, Held
  <2>3. x \in Live /\ rows[x].status \in Told => r.status # "expired"
    BY <1>6, <1>12 DEF WritesBack, Gives, KnowsStatus, Told, Occupying
  <2>4. SweptIsOpen'
    BY <1>3, <1>6, <2>1, <2>2 DEF SweptIsOpen, Live
  <2>5. \A i \in Ids : KeepsTold(i)
    BY <2>1, <2>3 DEF KeepsTold, Told, Occupying
  <2>6. QED
    BY <1>7, <1>12, <2>4, <2>5 DEF WritesBack
<1>13. CASE Creates(p)
  <2>1. ~Swept(nextId)
    BY <1>6, <1>13, IdFacts DEF Creates, StatusInv, DatedInv, SoundInv
  <2>2. \A i \in Ids \ {nextId} : rows'[i] = rows[i]
    BY <1>6, <1>13 DEF Creates
  <2>3. SweptIsOpen'
    BY <1>3, <1>6, <2>1, <2>2 DEF SweptIsOpen, Live
  <2>4. \A i \in Ids : KeepsTold(i)
    BY <1>13, <2>2 DEF KeepsTold, Live, Creates, Told, Occupying
  <2>5. QED
    BY <1>7, <1>13, <2>3, <2>4 DEF Creates
<1>14. QED
  BY <1>9, <1>10, <1>11, <1>12, <1>13 DEF Outcome

\* the step of nobody's request
LEMMA OthersKeepStatus ==
  ASSUME StatusInv, req' = req, nextId' = nextId,
         \A i \in Ids : \/ rows'[i] \in {rows[i], Nil}
                        \/ /\ rows[i] # Nil /\ rows'[i].hold = rows[i].hold
                           /\ rows'[i].status \in {rows[i].status, "done", "cancelled"}
                        \/ rows[i] # Nil /\ rows'[i].status = "expired" /\ Swept(i),
         \A i \in due' : i \in due \/ (i < nextId /\ Quiet(i)),
         SweepsDue',
         \A i \in Ids : Swept(i)' => Swept(i) \/ i \in Stale
  PROVE  /\ DueKnown' /\ SweptIsOpen'
         /\ \A q \in Reqs : KnowsStatus(q)'
         /\ \A i \in Ids : KeepsTold(i)
<1>1. DueKnown'
  BY DEF StatusInv, DueKnown
<1>2. ASSUME NEW i \in Live', Swept(i)'
      PROVE  rows'[i].status \notin Told
  <2>1. i \in Live /\ rows[i].status \notin Told
    BY <1>2 DEF StatusInv, SweptIsOpen, Live, Stale, Told
  <2>2. QED
    BY <1>2, <2>1 DEF Live, Told, Occupying
<1>3. ASSUME NEW q \in Reqs
      PROVE  KnowsStatus(q)'
  <2>1. KnowsStatus(q) /\ (req[q].at \in Reusing => req[q].id \in Ids)
    BY WriterId DEF StatusInv, DatedInv, SoundInv, Writing
  <2>2. req[q].at \in Waiting => req[q].id \notin due'
    BY <2>1 DEF KnowsStatus, Quiet
  <2>3. ASSUME req[q].at \in Reusing, req[q].id \in Live', rows'[req[q].id].status \in Told
        PROVE  req[q].snap.status \in Told
    <3>1. req[q].id \in Live /\ rows[req[q].id].status \in Told
      BY <2>1, <2>3 DEF Live, Told, Occupying
    <3>2. QED
      BY <2>1, <2>3, <3>1 DEF KnowsStatus
  <2>4. ASSUME req[q].at \in Reusing, req[q].snap.status \in Told
        PROVE  /\ ~Swept(req[q].id)'
               /\ req[q].id \in Live' => rows'[req[q].id].status \notin Held
    BY <2>1, <2>4 DEF KnowsStatus, Live, Stale, Held
  <2>5. QED
    BY <2>2, <2>3, <2>4 DEF KnowsStatus
<1>4. ASSUME NEW i \in Ids
      PROVE  KeepsTold(i)
  BY DEF KeepsTold, StatusInv, SweptIsOpen, Live, Told, Occupying
<1>5. QED
  BY <1>1, <1>2, <1>3, <1>4 DEF SweptIsOpen

LEMMA NextKeepsStatus ==
  ASSUME Serial, OnlyClosedByHand, StatusInv, [Next]_vars
  PROVE  StatusInv' /\ \A i \in Ids : KeepsTold(i)
<1>0. NoHoldByHand
  BY DEF OnlyClosedByHand, NoHoldByHand, Held
<1>1. DatedInv' /\ TypeInv /\ SerialInv
  BY <1>0, NextKeepsDeadlines DEF StatusInv, DatedInv, SoundInv, CodeInv
<1>2. SUFFICES /\ SweepsDue' /\ DueKnown' /\ SweptIsOpen'
               /\ \A q \in Reqs : KnowsStatus(q)'
               /\ \A i \in Ids : KeepsTold(i)
  BY <1>1 DEF StatusInv
<1>3. CASE \E p \in Reqs : Arrive(p) \/ Continue(p)
  BY <1>1, <1>3, ArriveOutcome, ContinueOutcome, RequestKeepsStatus
<1>4. CASE AtOnce
  <2>1. /\ req' = req /\ sweep' = sweep /\ due' = due /\ nextId' = nextId
        /\ \A i \in Ids : \/ rows'[i] \in {rows[i], Nil}
                          \/ /\ rows[i] # Nil /\ rows'[i].hold = rows[i].hold
                             /\ rows'[i].status \in {rows[i].status, "done", "cancelled"}
    BY <1>1, <1>4, AtOnceRows DEF OnlyClosedByHand
  <2>2. SweepsDue' /\ \A i \in Ids : Swept(i)' => Swept(i)
    BY <2>1 DEF Swept, SweepsDue, StatusInv
  <2>3. QED
    BY <2>1, <2>2, OthersKeepStatus
<1>5. CASE Cron
  <2>1. /\ req' = req /\ due' = due /\ nextId' = nextId
        /\ \A i \in Ids : \/ rows'[i] \in {rows[i], Nil}
                          \/ /\ rows[i] # Nil /\ rows'[i].hold = rows[i].hold
                             /\ rows'[i].status \in {rows[i].status, "done", "cancelled"}
                          \/ rows[i] # Nil /\ rows'[i].status = "expired" /\ Swept(i)
    BY <1>1, <1>5, CronRows DEF Swept, AllBut
  <2>2. SweepsDue' /\ \A i \in Ids : Swept(i)' => Swept(i) \/ i \in Stale
    BY <1>1, <1>5, CronSweeps DEF StatusInv
  <2>3. QED
    BY <2>1, <2>2, OthersKeepStatus
<1>6. CASE Passing \/ UNCHANGED vars
  <2>1. /\ rows' = rows /\ req' = req /\ nextId' = nextId /\ sweep' = sweep
        /\ due \subseteq due'
        /\ \A i \in due' : i \in due \/ (i < nextId /\ Quiet(i))
    BY <1>6 DEF Passing, LockExpires, HoldKeyExpires, DeadlinePasses, vars
  <2>2. SweepsDue' /\ \A i \in Ids : Swept(i)' => Swept(i)
    BY <2>1 DEF Swept, SweepsDue, StatusInv
  <2>3. QED
    BY <2>1, <2>2, OthersKeepStatus
<1>7. CASE Crash
  <2>1. /\ rows' = rows /\ due' = due /\ nextId' = nextId
        /\ \A p \in Reqs : req'[p] = Idle
        /\ \A c \in Crons : sweep'[c] = NoSweep
    BY <1>7 DEF Crash
  <2>2. SweepsDue' /\ SweptIsOpen'
    BY <2>1 DEF SweepsDue, SweptIsOpen, Swept, NoSweep
  <2>3. \A q \in Reqs : KnowsStatus(q)'
    BY <2>1 DEF KnowsStatus, Idle, Waiting, Reusing
  <2>4. DueKnown' /\ \A i \in Ids : KeepsTold(i)
    BY <2>1 DEF StatusInv, DueKnown, KeepsTold, Told, Occupying
  <2>5. QED
    BY <2>2, <2>3, <2>4
<1>8. QED
  BY <1>3, <1>4, <1>5, <1>6, <1>7 DEF Next

LEMMA InitDated == Init => DatedInv
BY InitCodes, InitSound
   DEF Init, Idle, DatedInv, Dated, Live, KnowsDeadline, Writing, Waiting, Reusing

LEMMA InitStatus == Init => StatusInv
BY InitDated
   DEF Init, Idle, NoSweep, StatusInv, SweepsDue, DueKnown, Swept, SweptIsOpen,
       Live, KnowsStatus, Waiting, Reusing

\* While the requests on one booking come one after another and do not straddle
\* its deadline, and administrators only close bookings by hand, a confirmed
\* booking is never expired: whatever the cron has found when, its UPDATE by id
\* meets no booking that was confirmed meanwhile, and no save of an older row
\* brings the expiry back
THEOREM ConfirmedNeverExpire ==
  ASSUME Serial, OnlyClosedByHand
  PROVE  Spec => ConfirmedNeverExpires
<1> DEFINE A == \A i \in Live :
                  rows'[i] # Nil /\ rows[i].status \in Occupying \ Held
                  => rows'[i].status # "expired"
<1>1. StatusInv /\ [Next]_vars => StatusInv' /\ A
  BY NextKeepsStatus DEF KeepsTold, Told, Live
<1>2. [][A]_vars <=> ConfirmedNeverExpires
  BY DEF ConfirmedNeverExpires
<1>3. QED
  BY <1>1, <1>2, InitStatus, PTL DEF Spec
=============================================================================
