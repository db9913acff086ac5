-------------------------- MODULE NotificationsProofs -------------------------
(***************************************************************************)
(* The safety properties of Notifications, for any number of bookings,     *)
(* chats and requests, any starts, any lead and any width of the codes.    *)
(***************************************************************************)
EXTENDS Notifications, TLAPS, WellFoundedInduction

\* every code stored or about to be is at most B
CodesUpTo(B) ==
  /\ Codes \subseteq 0..B
  /\ \A p \in Reqs : req[p].at \in {"code", "save"} => req[p].code \in 0..B

\* so that there is a last one
CodesBounded == \E B \in Nat : CodesUpTo(B)

\* the invariant of the types
Typed == TypeOK /\ CodesBounded

\* nothing arrives before it is sent, and one message per attempt at most
SendsCounted ==
  \A e \in Events, c \in Chats :
    /\ send[e][c].at \in {"none", "first"} => send[e][c].got = 0
    /\ send[e][c].at \in {"wait", "second", "lost"} => send[e][c].got <= 1
    /\ send[e][c].got <= 2

\* the run that looks for s has started, or its minute has passed
Over(s) == s < now + Lead \/ (s = now + Lead /\ ticked)

\* a start is reminded of by its one run, which has ended by then
ReminderSpent ==
  /\ \A t \in cron : Over(t)
  /\ \A b \in Bookings, s \in Starts :
       /\ reminded[b][s] <= 1
       /\ reminded[b][s] = 1 => Over(s) /\ s \notin cron

\* RemindedIfInTime, as soon as the run has started
RemindedOnTime ==
  \A b \in Bookings :
    /\ rows[b].status = "confirmed"
    /\ b \in early
    /\ Over(rows[b].start)
    /\ rows[b].start \notin missed \cup cron
    => reminded[b][rows[b].start] >= 1
-----------------------------------------------------------------------------
(* The last code *)

\* A set of numbers that is not empty has a least one
LEMMA LeastNat ==
  ASSUME NEW S, S \subseteq Nat, S # {}
  PROVE  \E m \in S : \A n \in S : m <= n
<1> DEFINE R == OpToRel(<, Nat)
<1>1. IsWellFoundedOn(R, Nat)
  BY NatLessThanWellFounded
<1>2. \A x, y \in Nat : x < y => <<x, y>> \in R
  BY DEF OpToRel
<1> HIDE DEF R
<1>3. PICK m \in S : \A n \in S : ~(<<n, m>> \in R)
  BY <1>1, WFMin
<1>4. ASSUME NEW n \in S
      PROVE  m <= n
  <2>1. n \in Nat /\ m \in Nat
    OBVIOUS
  <2>2. ~(n < m)
    BY <1>2, <1>3, <2>1
  <2>3. QED
    BY <2>1, <2>2
<1>5. QED
  BY <1>4

\* A bounded one has a greatest
LEMMA Greatest ==
  ASSUME NEW S, NEW B \in Nat, S \subseteq 0..B, S # {}
  PROVE  \E m \in S : \A n \in S : n <= m
<1> DEFINE U == {u \in Nat : \A n \in S : n <= u}
<1>1. B \in U
  OBVIOUS
<1>2. PICK u \in U : \A v \in U : u <= v
  BY <1>1, LeastNat
<1>3. CASE u \in S
  BY <1>3
<1>4. CASE u \notin S
  <2>1. \A n \in S : n \in Nat /\ n <= u - 1
    BY <1>4
  <2>2. PICK n \in S : TRUE
    OBVIOUS
  <2>3. u - 1 \in U
    BY <2>1, <2>2
  <2>4. QED
    BY <1>2, <2>3
<1>5. QED
  BY <1>3, <1>4

\* A code of one digit more is ordered by the digits before it
LEMMA Quot ==
  ASSUME NEW k \in Nat, NEW b \in Nat \ {0}
  PROVE  k \div b \in 0..k
OBVIOUS

\* Of bounded codes one is the last in the order of the column
LEMMA LastExists ==
  ASSUME NEW S, NEW B \in Nat, S \subseteq 0..B, S # {}
  PROVE  \E m \in S : \A n \in S \ {m} : Before(n, m)
<1> DEFINE H(k) == IF k < Base^Width THEN k ELSE k \div Base
           Heads == {H(k) : k \in S}
<1>1. \A k \in S : H(k) \in 0..B
  <2> SUFFICES ASSUME NEW k \in S
               PROVE  H(k) \in 0..B
    OBVIOUS
  <2>1. k \in Nat /\ k \in 0..B
    OBVIOUS
  <2>2. k \div Base \in 0..k
    BY <2>1, Quot, BoundAssumption
  <2>3. QED
    BY <2>1, <2>2
<1>2. \A n, m \in S : Before(n, m) <=> (H(n) < H(m) \/ (H(n) = H(m) /\ n < m))
  BY DEF Before
<1> HIDE DEF H
<1>3. PICK h \in Heads : \A i \in Heads : i <= h
  <2>1. Heads # {} /\ Heads \subseteq 0..B
    BY <1>1
  <2> HIDE DEF Heads
  <2>2. QED
    BY <2>1, Greatest
<1> DEFINE T == {k \in S : H(k) = h}
<1>4. PICK m \in T : \A n \in T : n <= m
  <2>1. T # {} /\ T \subseteq 0..B
    OBVIOUS
  <2> HIDE DEF T
  <2>2. QED
    BY <2>1, Greatest
<1>5. ASSUME NEW n \in S \ {m}
      PROVE  Before(n, m)
  <2>1. H(n) \in Heads /\ H(n) <= h /\ H(m) = h /\ H(n) \in 0..B /\ h \in 0..B
    BY <1>1, <1>3
  <2>2. CASE H(n) = h
    <3>1. n \in T /\ n <= m /\ n # m /\ n \in Nat /\ m \in Nat
      BY <1>4, <2>2
    <3>2. n < m
      BY <3>1
    <3>3. QED
      BY <1>2, <2>1, <2>2, <3>2
  <2>3. CASE H(n) # h
    <3>1. H(n) < H(m)
      BY <2>1, <2>3
    <3>2. QED
      BY <1>2, <3>1
  <2>4. QED
    BY <2>2, <2>3
<1>6. QED
  BY <1>5

\* The next code exists and comes after a code there is
LEMMA NextCodeFollows ==
  ASSUME NEW B \in Nat, Codes \subseteq 0..B
  PROVE  \E m \in Codes : /\ NextCode = 1 + m
                          /\ \A n \in Codes \ {m} : Before(n, m)
<1>1. Codes # {}
  BY DEF Codes
<1>2. PICK m \in Codes : \A n \in Codes \ {m} : Before(n, m)
  BY <1>1, LastExists
<1> DEFINE last == CHOOSE k \in Codes : \A n \in Codes \ {k} : Before(n, k)
<1>3. last \in Codes /\ \A n \in Codes \ {last} : Before(n, last)
  BY <1>2
<1>4. NextCode = 1 + last
  BY DEF NextCode
<1>5. QED
  BY <1>3, <1>4
-----------------------------------------------------------------------------
(* The steps *)

\* the rows of the table
RowSet == [status : Status, start : Starts, code : Nat]

\* The row that a confirmation leaves has each column of the row it found or of
\* its own
LEMMA SavedType ==
  ASSUME NEW old \in RowSet, NEW start \in Starts, NEW code \in Nat,
         NEW r \in Saved(old, [status |-> "confirmed", start |-> start, code |-> code])
  PROVE  r \in RowSet /\ r.code \in {old.code, code}
<1> DEFINE own == [status |-> "confirmed", start |-> start, code |-> code]
<1>1. own \in RowSet /\ own.code = code
  BY DEF RowSet, Status
<1>2. CASE old.status = "gone"
  BY <1>1, <1>2 DEF Saved
<1>3. CASE old.status # "gone"
  <2>1. r \in [status : {old.status, "confirmed"}, start : {old.start, start},
               code : {old.code, code}]
    BY <1>3 DEF Saved
  <2>2. old.status \in Status /\ old.start \in Starts /\ old.code \in Nat
    BY DEF RowSet
  <2>3. QED
    BY <2>1, <2>2 DEF RowSet, Status
<1>4. QED
  BY <1>2, <1>3

\* What a request at a place holds
LEMMA RequestParts ==
  ASSUME TypeOK, NEW p \in Reqs
  PROVE  /\ req[p] \in Request
         /\ req[p].at \in {"idle", "code", "save", "tail"}
         /\ req[p].at \in {"code", "save"} =>
              /\ req[p] = [at |-> req[p].at, booking |-> req[p].booking,
                           start |-> req[p].start, code |-> req[p].code]
              /\ req[p].booking \in Bookings /\ req[p].start \in Starts /\ req[p].code \in Nat
         /\ req[p].at = "tail" =>
              /\ req[p] = [at |-> "tail", booking |-> req[p].booking]
              /\ req[p].booking \in Bookings
BY DEF TypeOK, Request, Idle

\* What a confirmation does to the rows
LEMMA ConfirmSaveWrites ==
  ASSUME TypeOK, NEW p \in Reqs, ConfirmSave(p)
  PROVE  /\ req[p].booking \in Bookings
         /\ \E r \in RowSet :
              /\ r.code \in {rows[req[p].booking].code, req[p].code}
              /\ rows' = [rows EXCEPT ![req[p].booking] = r]
              /\ rows'[req[p].booking] = r
         /\ \A a \in Bookings \ {req[p].booking} : rows'[a] = rows[a]
<1> DEFINE b == req[p].booking
<1>1. b \in Bookings /\ req[p].start \in Starts /\ req[p].code \in Nat
  BY RequestParts DEF ConfirmSave
<1>2. rows \in [Bookings -> RowSet]
  BY DEF TypeOK, RowSet
<1>3. PICK r \in Saved(rows[b], Confirmed(p)) : rows' = [rows EXCEPT ![b] = r]
  BY DEF ConfirmSave
<1>4. r \in RowSet /\ r.code \in {rows[b].code, req[p].code}
  BY <1>1, <1>2, <1>3, SavedType DEF Confirmed
<1>5. rows'[b] = r /\ \A a \in Bookings \ {b} : rows'[a] = rows[a]
  BY <1>1, <1>2, <1>3
<1>6. QED
  BY <1>1, <1>3, <1>4, <1>5

\* and what another writer does
LEMMA RewriteWrites ==
  ASSUME TypeOK, NEW b \in Bookings, Rewrite(b)
  PROVE  \E r \in RowSet :
           /\ r.code \in {0, rows[b].code} \cup before + 1 .. before + MaxOthers + 1
           /\ rows' = [rows EXCEPT ![b] = r]
           /\ rows'[b] = r
           /\ \A a \in Bookings \ {b} : rows'[a] = rows[a]
           /\ silent' = IF r.status # "confirmed" THEN silent \ {b}
                        ELSE IF rows[b].status # "confirmed" THEN silent \cup {b}
                        ELSE silent
<1>1. rows \in [Bookings -> RowSet]
  BY DEF TypeOK, RowSet
<1>2. PICK r \in [status : Status, start : Starts,
                  code : {0, rows[b].code} \cup before + 1 .. before + MaxOthers + 1] :
        /\ rows' = [rows EXCEPT ![b] = r]
        /\ silent' = IF r.status # "confirmed" THEN silent \ {b}
                     ELSE IF rows[b].status # "confirmed" THEN silent \cup {b}
                     ELSE silent
  BY DEF Rewrite
<1>3. before \in Nat /\ MaxOthers \in Nat /\ rows[b].code \in Nat
  BY <1>1, BoundAssumption, StartsAssumption DEF TypeOK, RowSet
<1>4. {0, rows[b].code} \cup before + 1 .. before + MaxOthers + 1 \subseteq Nat
  BY <1>3
<1>5. r \in RowSet
  BY <1>2, <1>4 DEF RowSet
<1>6. QED
  BY <1>1, <1>2, <1>5

\* The bound of the codes grows with the code that is given
LEMMA TypesStart == Init => Typed
<1> SUFFICES ASSUME Init
             PROVE  Typed
  OBVIOUS
<1>1. TypeOK
  <2>1. /\ now \in 0..MaxTime /\ before \in Earlier /\ others \subseteq Nat
        /\ ticked \in BOOLEAN /\ early \subseteq Bookings
        /\ missed \subseteq Starts /\ silent \subseteq Bookings
        /\ cron \subseteq {s \in Starts : s <= now + Lead}
    <3>1. now = 0 /\ others = {} /\ ticked = FALSE /\ missed = {} /\ silent = {} /\ cron = {}
      BY DEF Init
    <3>2. before \in Earlier /\ early \subseteq Bookings
      BY DEF Init
    <3>3. 0 \in 0..MaxTime
      BY BoundAssumption
    <3>4. QED
      BY <3>1, <3>2, <3>3
  <2>2. rows \in [Bookings -> RowSet]
    BY DEF Init, RowSet, Status
  <2>3. req \in [Reqs -> Request]
    BY DEF Init, Request
  <2>4. event \in [Events -> Bookings \cup {Nil}]
    BY DEF Init
  <2>5. send \in [Events -> [Chats ->
          [at : {"none", "first", "wait", "second", "told", "gaveup", "lost"}, got : 0..3]]]
    BY DEF Init, Unsent
  <2>6. reminded \in [Bookings -> [Starts -> 0..3]]
    BY DEF Init
  <2>7. QED
    BY <2>1, <2>2, <2>3, <2>4, <2>5, <2>6 DEF TypeOK, RowSet
<1>2. Codes \subseteq 0..before /\ before \in Nat
  BY StartsAssumption DEF Init, Codes
<1>3. \A p \in Reqs : req[p].at = "idle"
  BY DEF Init, Idle
<1>4. CodesUpTo(before)
  BY <1>2, <1>3 DEF CodesUpTo
<1>5. QED
  BY <1>1, <1>2, <1>4 DEF Typed, CodesBounded

\* A larger bound is a bound
LEMMA BoundGrows ==
  ASSUME NEW B \in Nat, NEW D \in Nat, B <= D, CodesUpTo(B)
  PROVE  CodesUpTo(D)
<1>1. 0..B \subseteq 0..D
  OBVIOUS
<1>2. QED
  BY <1>1 DEF CodesUpTo

\* A request that gets its code
LEMMA GivenCode ==
  ASSUME TypeOK, NEW p \in Reqs, req[p].at = "code", NEW n \in Nat
  PROVE  /\ [req[p] EXCEPT !.at = "save", !.code = n] \in Request
         /\ [req[p] EXCEPT !.at = "save", !.code = n].at = "save"
         /\ [req[p] EXCEPT !.at = "save", !.code = n].code = n
<1> DEFINE Waiting == [at : {"code", "save"}, booking : Bookings, start : Starts, code : Nat]
<1>1. req[p] \in Waiting
  BY DEF TypeOK, Request, Idle
<1>2. [req[p] EXCEPT !.at = "save", !.code = n] \in Waiting
  BY <1>1
<1>3. QED
  BY <1>1, <1>2 DEF Request

\* The state of one message to one chat
SendState ==
  [at : {"none", "first", "wait", "second", "told", "gaveup", "lost"}, got : 0..3]

\* What a call, a timer and the end of the process make of it
LEMMA SendSteps ==
  ASSUME NEW m \in SendState
  PROVE  /\ [m EXCEPT !.at = "second"] \in SendState
         /\ [m EXCEPT !.at = "lost"] \in SendState
         /\ \A told \in BOOLEAN, delivered \in BOOLEAN :
              [at  |-> IF told THEN "told" ELSE AfterFailure(m.at),
               got |-> IF delivered THEN More(m.got) ELSE m.got] \in SendState
<1>1. AfterFailure(m.at) \in {"wait", "gaveup"} /\ More(m.got) \in 0..3
  BY DEF SendState, AfterFailure, More
<1>2. QED
  BY <1>1 DEF SendState

\* What a step may do to the codes
LEMMA CodesStay ==
  ASSUME NEW B \in Nat, CodesUpTo(B), TypeOK,
         before' = before, others' \subseteq 0..B,
         \A b \in Bookings : rows'[b].code \in 0..B,
         \A p \in Reqs : req'[p].at \in {"code", "save"} => req'[p].code \in 0..B
  PROVE  CodesBounded'
<1>1. Codes' \subseteq 0..B
  BY DEF CodesUpTo, Codes
<1>2. CodesUpTo(B)'
  BY <1>1 DEF CodesUpTo
<1>3. QED
  BY <1>2 DEF CodesBounded

\* TypeOK in parts: the table and the clock, the messages, the reminders
RowTypes ==
  /\ now \in 0..MaxTime
  /\ before \in Earlier
  /\ others \subseteq Nat
  /\ rows \in [Bookings -> RowSet]
  /\ ticked \in BOOLEAN

SendTypes ==
  /\ event \in [Events -> Bookings \cup {Nil}]
  /\ send \in [Events -> [Chats ->
       [at : {"none", "first", "wait", "second", "told", "gaveup", "lost"}, got : 0..3]]]

CronTypes ==
  /\ cron \subseteq {s \in Starts : s <= now + Lead}
  /\ reminded \in [Bookings -> [Starts -> 0..3]]
  /\ early \subseteq Bookings
  /\ missed \subseteq Starts
  /\ silent \subseteq Bookings

LEMMA TypeParts == TypeOK <=> RowTypes /\ SendTypes /\ CronTypes /\ req \in [Reqs -> Request]
BY DEF TypeOK, RowTypes, RowSet, SendTypes, CronTypes

\* A write of a row leaves early a set of bookings
LEMMA WrittenType ==
  ASSUME TypeOK, NEW b \in Bookings, early' = Written(b)
  PROVE  early' \subseteq Bookings
BY DEF TypeOK, Written

LEMMA TypesNext == Typed /\ [Next]_vars => Typed'
<1> SUFFICES ASSUME Typed, [Next]_vars
             PROVE  Typed'
  OBVIOUS
<1> USE DEF Typed
<1>T. RowTypes /\ SendTypes /\ CronTypes /\ req \in [Reqs -> Request]
  BY TypeParts
<1>U. /\ RowTypes' /\ SendTypes' /\ CronTypes' /\ (req \in [Reqs -> Request])'
      => TypeOK'
  BY TypeParts DEF TypeOK, RowTypes, RowSet, SendTypes, CronTypes
<1>B. PICK B \in Nat : CodesUpTo(B)
  BY DEF CodesBounded
<1>C. /\ others \subseteq 0..B
      /\ \A b \in Bookings : rows[b].code \in 0..B
      /\ \A p \in Reqs : req[p].at \in {"code", "save"} => req[p].code \in 0..B
  BY <1>B DEF CodesUpTo, Codes
<1>N. NextCode \in 0..(B + 1)
  <2>1. Codes \subseteq 0..B
    BY <1>B DEF CodesUpTo
  <2>2. PICK m \in Codes : NextCode = 1 + m
    BY <2>1, NextCodeFollows
  <2>3. m \in 0..B
    BY <2>1
  <2>4. QED
    BY <2>2, <2>3
<1>0. CASE UNCHANGED vars
  <2>1. TypeOK'
    BY <1>0, <1>T, <1>U DEF vars, RowTypes, SendTypes, CronTypes
  <2>2. CodesBounded'
    BY <1>0, <1>B, <1>C, CodesStay DEF vars
  <2>3. QED
    BY <2>1, <2>2
<1>1. ASSUME NEW p \in Reqs, NEW b \in Bookings, ConfirmRead(p, b)
      PROVE  Typed'
  <2>1. /\ UNCHANGED <<now, before, others, rows, event, send, ticked, cron, reminded, early,
                       missed, silent>>
        /\ req' = [req EXCEPT ![p] = [at |-> IF rows[b].code = 0 THEN "code" ELSE "save",
                     booking |-> b, start |-> rows[b].start, code |-> rows[b].code]]
    BY <1>1 DEF ConfirmRead, OnlyReq, Become
  <2>2. rows[b].start \in Starts /\ rows[b].code \in Nat
    BY <1>T DEF RowTypes, RowSet
  <2>3. req' \in [Reqs -> Request]
    BY <2>1, <2>2, <1>T DEF Request
  <2>4. TypeOK'
    BY <2>1, <2>3, <1>T, <1>U DEF RowTypes, SendTypes, CronTypes
  <2>5. \A q \in Reqs : req'[q].at \in {"code", "save"} => req'[q].code \in 0..B
    BY <2>1, <1>C, <1>T
  <2>6. CodesBounded'
    BY <2>1, <2>5, <1>B, <1>C, CodesStay
  <2>7. QED
    BY <2>4, <2>6
<1>2. ASSUME NEW p \in Reqs, ConfirmCode(p)
      PROVE  Typed'
  <2>1. /\ UNCHANGED <<now, before, others, rows, event, send, ticked, cron, reminded, early,
                       missed, silent>>
        /\ req[p].at = "code"
        /\ req' = [req EXCEPT ![p] = [req[p] EXCEPT !.at = "save", !.code = NextCode]]
    BY <1>2 DEF ConfirmCode, OnlyReq, Become
  <2>2. NextCode \in 0..(B + 1)
    BY <1>N
  <2>3. /\ [req[p] EXCEPT !.at = "save", !.code = NextCode] \in Request
        /\ [req[p] EXCEPT !.at = "save", !.code = NextCode].code = NextCode
    <3>1. NextCode \in Nat
      BY <2>2
    <3>2. QED
      BY <2>1, <3>1, GivenCode
  <2>4. \A q \in Reqs : req'[q] = req[q] \/ (q = p /\ req'[q].code = NextCode)
    BY <2>1, <2>3, <1>T
  <2>5. req' \in [Reqs -> Request]
    BY <2>1, <2>3, <1>T
  <2>6. TypeOK'
    BY <2>1, <2>5, <1>T, <1>U DEF RowTypes, SendTypes, CronTypes
  <2>7. CodesUpTo(B + 1)
    BY <1>B, BoundGrows
  <2>8. /\ others \subseteq 0..(B + 1)
        /\ \A b \in Bookings : rows[b].code \in 0..(B + 1)
        /\ \A q \in Reqs : req[q].at \in {"code", "save"} => req[q].code \in 0..(B + 1)
    BY <2>7 DEF CodesUpTo, Codes
  <2>9. \A q \in Reqs : req'[q].at \in {"code", "save"} => req'[q].code \in 0..(B + 1)
    BY <2>2, <2>4, <2>8, <1>T
  <2>10. CodesBounded'
    BY <2>1, <2>7, <2>8, <2>9, CodesStay
  <2>11. QED
    BY <2>6, <2>10
<1>3. ASSUME NEW p \in Reqs, ConfirmSave(p)
      PROVE  Typed'
  <2> DEFINE b == req[p].booking
  <2>1. /\ UNCHANGED <<now, before, others, event, send, ticked, cron, reminded, missed,
                       silent>>
        /\ req[p].at = "save"
        /\ early' = Written(b)
        /\ req' = [req EXCEPT ![p] = [at |-> "tail", booking |-> b]]
    BY <1>3 DEF ConfirmSave, NoCron, Become
  <2>2. b \in Bookings /\ req[p].code \in 0..B
    BY <2>1, <1>C, RequestParts
  <2>w. PICK r \in RowSet : /\ r.code \in {rows[b].code, req[p].code}
                            /\ rows' = [rows EXCEPT ![b] = r]
                            /\ rows'[b] = r
    BY <1>3, ConfirmSaveWrites
  <2>v. \A a \in Bookings \ {b} : rows'[a] = rows[a]
    BY <1>3, ConfirmSaveWrites
  <2>3. req' \in [Reqs -> Request]
    BY <2>1, <2>2, <1>T DEF Request
  <2>4. early' \subseteq Bookings
    BY <2>1, <2>2, WrittenType
  <2>5. RowTypes'
    BY <2>1, <2>w, <1>T DEF RowTypes
  <2>6. TypeOK'
    BY <2>1, <2>3, <2>4, <2>5, <1>T, <1>U DEF SendTypes, CronTypes
  <2>7. \A a \in Bookings : rows'[a].code \in 0..B
    BY <2>2, <2>w, <2>v, <1>C
  <2>8. \A q \in Reqs : req'[q].at \in {"code", "save"} => req'[q].code \in 0..B
    BY <2>1, <1>C, <1>T
  <2>9. CodesBounded'
    BY <2>1, <2>7, <2>8, <1>B, <1>C, CodesStay
  <2>10. QED
    BY <2>6, <2>9
<1>4. ASSUME NEW p \in Reqs, Emit(p)
      PROVE  Typed'
  <2>1. PICK e \in Events :
          /\ event' = [event EXCEPT ![e] = req[p].booking]
          /\ send' = [send EXCEPT ![e] = [c \in Chats |-> [at |-> "first", got |-> 0]]]
    BY <1>4 DEF Emit
  <2>2. /\ UNCHANGED <<now, before, others, rows, ticked, cron, reminded, early, missed,
                       silent>>
        /\ req[p].at = "tail"
        /\ req' = [req EXCEPT ![p] = Idle]
    BY <1>4 DEF Emit, NoCron, Become, Respond
  <2>3. req' \in [Reqs -> Request]
    BY <2>2, <1>T DEF Request
  <2>4. event' \in [Events -> Bookings \cup {Nil}]
    BY <2>1, <2>2, <1>T, RequestParts DEF SendTypes
  <2>5. send' \in [Events -> [Chats ->
          [at : {"none", "first", "wait", "second", "told", "gaveup", "lost"}, got : 0..3]]]
    BY <2>1, <1>T DEF SendTypes
  <2>6. TypeOK'
    BY <2>2, <2>3, <2>4, <2>5, <1>T, <1>U DEF RowTypes, SendTypes, CronTypes
  <2>7. \A q \in Reqs : req'[q].at \in {"code", "save"} => req'[q].code \in 0..B
    BY <2>2, <1>C, <1>T DEF Idle
  <2>8. CodesBounded'
    BY <2>2, <2>7, <1>B, <1>C, CodesStay
  <2>9. QED
    BY <2>6, <2>8
<1>5. ASSUME NEW p \in Reqs, Fail(p)
      PROVE  Typed'
  <2>1. /\ UNCHANGED <<now, before, others, rows, event, send, ticked, cron, reminded, early,
                       missed>>
        /\ silent' \subseteq silent \cup Bookings
        /\ req' = [req EXCEPT ![p] = Idle]
    BY <1>5 DEF Fail, NoCron, Become, Respond, Untold
  <2>2. req' \in [Reqs -> Request]
    BY <2>1, <1>T DEF Request
  <2>3. TypeOK'
    BY <2>1, <2>2, <1>T, <1>U DEF RowTypes, SendTypes, CronTypes
  <2>4. \A q \in Reqs : req'[q].at \in {"code", "save"} => req'[q].code \in 0..B
    BY <2>1, <1>C, <1>T DEF Idle
  <2>5. CodesBounded'
    BY <2>1, <2>4, <1>B, <1>C, CodesStay
  <2>6. QED
    BY <2>3, <2>5
<1>6. ASSUME NEW b \in Bookings, Rewrite(b)
      PROVE  Typed'
  <2>1. PICK r \in RowSet :
          /\ r.code \in {0, rows[b].code} \cup before + 1 .. before + MaxOthers + 1
          /\ rows' = [rows EXCEPT ![b] = r]
          /\ rows'[b] = r
          /\ \A a \in Bookings \ {b} : rows'[a] = rows[a]
          /\ silent' = IF r.status # "confirmed" THEN silent \ {b}
                       ELSE IF rows[b].status # "confirmed" THEN silent \cup {b}
                       ELSE silent
    BY <1>6, RewriteWrites
  <2>2. /\ UNCHANGED <<now, before, others, req, event, send, ticked, cron, reminded, missed>>
        /\ early' = Written(b)
    BY <1>6 DEF Rewrite, NoCron
  <2>3. RowTypes'
    BY <2>1, <2>2, <1>T DEF RowTypes
  <2>4. early' \subseteq Bookings /\ silent' \subseteq silent \cup {b}
    BY <2>1, <2>2, WrittenType
  <2>5. TypeOK'
    BY <2>2, <2>3, <2>4, <1>T, <1>U DEF SendTypes, CronTypes
  <2> DEFINE D == B + before + MaxOthers + 1
  <2>6. before \in Nat /\ MaxOthers \in Nat
    BY <1>T, BoundAssumption, StartsAssumption DEF RowTypes
  <2>7. D \in Nat /\ B <= D /\ 0..B \subseteq 0..D
    BY <2>6
  <2>8. before + 1 .. before + MaxOthers + 1 \subseteq 0..D /\ 0 \in 0..D
    BY <2>6
  <2> HIDE DEF D
  <2>9. CodesUpTo(D)
    BY <2>7, <1>B, BoundGrows
  <2>10. \A a \in Bookings : rows'[a].code \in 0..D
    BY <2>1, <2>7, <2>8, <1>C
  <2>11. /\ others' \subseteq 0..D
         /\ \A q \in Reqs : req'[q].at \in {"code", "save"} => req'[q].code \in 0..D
    BY <2>2, <2>7, <1>C
  <2>12. CodesBounded'
    BY <2>2, <2>7, <2>9, <2>10, <2>11, CodesStay
  <2>13. QED
    BY <2>5, <2>12
<1>7. CASE OtherConfirm
  <2>1. /\ UNCHANGED <<now, before, rows, req, event, send, ticked, cron, reminded, early,
                       missed, silent>>
        /\ others' = others \cup {NextCode}
    BY <1>7 DEF OtherConfirm
  <2>2. NextCode \in 0..(B + 1)
    BY <1>N
  <2>3. CodesUpTo(B + 1)
    BY <1>B, BoundGrows
  <2>4. /\ others \subseteq 0..(B + 1)
        /\ \A b \in Bookings : rows[b].code \in 0..(B + 1)
        /\ \A q \in Reqs : req[q].at \in {"code", "save"} => req[q].code \in 0..(B + 1)
    BY <2>3 DEF CodesUpTo, Codes
  <2>5. TypeOK'
    BY <2>1, <2>2, <1>T, <1>U DEF RowTypes, SendTypes, CronTypes
  <2>6. others' \subseteq 0..(B + 1)
    BY <2>1, <2>2, <2>4
  <2>7. CodesBounded'
    BY <2>1, <2>3, <2>4, <2>6, CodesStay
  <2>8. QED
    BY <2>5, <2>7
<1>8. ASSUME NEW c \in others, OtherRemove(c)
      PROVE  Typed'
  <2>1. /\ UNCHANGED <<now, before, rows, req, event, send, ticked, cron, reminded, early,
                       missed, silent>>
        /\ others' \subseteq others
    BY <1>8 DEF OtherRemove
  <2>2. TypeOK'
    BY <2>1, <1>T, <1>U DEF RowTypes, SendTypes, CronTypes
  <2>3. CodesBounded'
    BY <2>1, <1>B, <1>C, CodesStay
  <2>4. QED
    BY <2>2, <2>3
<1>9. ASSUME NEW e \in Events, NEW c \in Chats, Call(e, c) \/ Retry(e, c)
      PROVE  Typed'
  <2>1. /\ UNCHANGED <<now, before, others, rows, req, event, ticked, cron, reminded, early,
                       missed, silent>>
        /\ send' \in [Events -> [Chats -> SendState]]
    <3>1. send \in [Events -> [Chats -> SendState]] /\ send[e][c] \in SendState
      BY <1>T DEF SendTypes, SendState
    <3>2. PICK m \in SendState : send' = [send EXCEPT ![e][c] = m]
      <4>1. CASE Call(e, c)
        <5>1. PICK told \in BOOLEAN, delivered \in BOOLEAN :
                send' = [send EXCEPT ![e][c] =
                  [at  |-> IF told THEN "told" ELSE AfterFailure(@.at),
                   got |-> IF delivered THEN More(@.got) ELSE @.got]]
          BY <4>1 DEF Call
        <5>2. QED
          BY <5>1, <3>1, SendSteps
      <4>2. CASE Retry(e, c)
        <5>1. send' = [send EXCEPT ![e][c] = [send[e][c] EXCEPT !.at = "second"]]
          BY <4>2, <3>1 DEF Retry
        <5>2. QED
          BY <5>1, <3>1, SendSteps
      <4>3. QED
        BY <1>9, <4>1, <4>2
    <3>3. send' \in [Events -> [Chats -> SendState]]
      BY <3>1, <3>2
    <3>4. QED
      BY <1>9, <3>3 DEF Call, Retry, NoCron
  <2>2. TypeOK'
    BY <2>1, <1>T, <1>U DEF RowTypes, SendTypes, CronTypes, SendState
  <2>3. CodesBounded'
    BY <2>1, <1>B, <1>C, CodesStay
  <2>4. QED
    BY <2>2, <2>3
<1>10. CASE CronStart
  <2>1. /\ UNCHANGED <<now, before, others, rows, req, event, send, reminded, early, missed,
                       silent>>
        /\ ticked' = TRUE
        /\ cron' = cron \cup ({now + Lead} \cap Starts)
    BY <1>10 DEF CronStart, Target
  <2>2. now + Lead \in Nat
    BY <1>T, BoundAssumption DEF RowTypes
  <2>3. TypeOK'
    BY <2>1, <2>2, <1>T, <1>U DEF RowTypes, SendTypes, CronTypes
  <2>4. CodesBounded'
    BY <2>1, <1>B, <1>C, CodesStay
  <2>5. QED
    BY <2>3, <2>4
<1>11. CASE Tick
  <2>1. /\ UNCHANGED <<before, others, rows, req, event, send, cron, reminded, early, silent>>
        /\ now < MaxTime /\ now' = now + 1 /\ ticked' = FALSE
        /\ missed' \subseteq missed \cup Starts
    BY <1>11 DEF Tick
  <2>2. now' \in 0..MaxTime
    BY <2>1, <1>T, BoundAssumption DEF RowTypes
  <2>3. \A s \in cron : s \in Starts /\ s <= now' + Lead
    BY <2>1, <1>T, StartsAssumption, BoundAssumption DEF RowTypes, CronTypes
  <2>4. TypeOK'
    BY <2>1, <2>2, <2>3, <1>T, <1>U DEF RowTypes, SendTypes, CronTypes
  <2>5. CodesBounded'
    BY <2>1, <1>B, <1>C, CodesStay
  <2>6. QED
    BY <2>4, <2>5
<1>12. CASE Crash
  <2>1. /\ UNCHANGED <<now, before, others, rows, event, ticked, reminded, early>>
        /\ req' = [p \in Reqs |-> Idle]
        /\ silent' \subseteq silent \cup Bookings
        /\ cron' = {}
        /\ missed' = missed \cup cron
    BY <1>12 DEF Crash, Untold
  <2>2. send' \in [Events -> [Chats ->
          [at : {"none", "first", "wait", "second", "told", "gaveup", "lost"}, got : 0..3]]]
    <3>1. \A e \in Events, c \in Chats : send[e][c] \in SendState
      BY <1>T DEF SendTypes, SendState
    <3>2. \A e \in Events, c \in Chats :
            IF send[e][c].at \in {"first", "wait", "second"}
            THEN [send[e][c] EXCEPT !.at = "lost"] \in SendState
            ELSE send[e][c] \in SendState
      BY <3>1, SendSteps
    <3>3. send' = [e \in Events |-> [c \in Chats |->
                     IF send[e][c].at \in {"first", "wait", "second"}
                     THEN [send[e][c] EXCEPT !.at = "lost"] ELSE send[e][c]]]
      BY <1>12 DEF Crash
    <3>4. send' \in [Events -> [Chats -> SendState]]
      BY <3>2, <3>3
    <3>5. QED
      BY <3>4 DEF SendState
  <2>3. req' \in [Reqs -> Request]
    BY <2>1 DEF Request
  <2>4. TypeOK'
    BY <2>1, <2>2, <2>3, <1>T, <1>U DEF RowTypes, SendTypes, CronTypes
  <2>5. CodesBounded'
    BY <2>1, <1>B, <1>C, CodesStay DEF Idle
  <2>6. QED
    BY <2>4, <2>5
<1>13. ASSUME NEW t \in cron, CronFind(t) \/ CronThrows(t)
       PROVE  Typed'
  <2>1. /\ UNCHANGED <<now, before, others, rows, req, event, send, ticked, early, silent>>
        /\ cron' = cron \ {t}
        /\ missed' \subseteq missed \cup {t}
    BY <1>13 DEF CronFind, CronThrows
  <2>2. reminded' \in [Bookings -> [Starts -> 0..3]]
    <3>1. CASE CronFind(t)
      BY <3>1, <1>T DEF CronFind, CronTypes, RowTypes, RowSet, More
    <3>2. CASE CronThrows(t)
      BY <3>2, <1>T DEF CronThrows, CronTypes
    <3>3. QED
      BY <1>13, <3>1, <3>2
  <2>3. TypeOK'
    BY <2>1, <2>2, <1>T, <1>U DEF RowTypes, SendTypes, CronTypes
  <2>4. CodesBounded'
    BY <2>1, <1>B, <1>C, CodesStay
  <2>5. QED
    BY <2>3, <2>4
<1>14. QED
  BY <1>0, <1>1, <1>2, <1>3, <1>4, <1>5, <1>6, <1>7, <1>8, <1>9, <1>10, <1>11, <1>12, <1>13
  DEF Next

\* Every variable keeps its type: in particular a confirmation gets a number
\* for its code, since there is a last code in the order of strings
THEOREM Types == Spec => []TypeOK
<1>1. Typed => TypeOK
  BY DEF Typed
<1>2. QED
  BY <1>1, TypesStart, TypesNext, PTL DEF Spec

LEMMA TypedAlways == Spec => []Typed
BY TypesStart, TypesNext, PTL DEF Spec
-----------------------------------------------------------------------------
(* Codes *)

\* While the codes are of one length the order of strings is that of numbers,
\* so the code that generateBookingCode finds is nobody's
THEOREM NextCodesAreFree == Spec => []NextCodeIsFree
<1>1. ASSUME Typed
      PROVE  NextCodeIsFree
  <2> SUFFICES ASSUME \A c \in Codes : c < Base^Width
               PROVE  ~Taken(NextCode)
    BY DEF NextCodeIsFree
  <2>1. PICK B \in Nat : CodesUpTo(B)
    BY <1>1 DEF Typed, CodesBounded
  <2>2. Codes \subseteq Nat /\ before \in Codes
    BY <2>1 DEF CodesUpTo, Codes
  <2>3. PICK m \in Codes : /\ NextCode = 1 + m
                           /\ \A n \in Codes \ {m} : Before(n, m)
    BY <2>1, NextCodeFollows DEF CodesUpTo
  <2>4. \A n \in Codes : n <= m
    <3> SUFFICES ASSUME NEW n \in Codes, n # m
                 PROVE  n <= m
      BY <2>2, <2>3
    <3>1. n < m \/ (n = m /\ n < m)
      BY <2>3 DEF Before
    <3>2. QED
      BY <2>2, <3>1
  <2>5. NextCode \notin Codes /\ NextCode \notin 1..before
    BY <2>2, <2>3, <2>4
  <2>6. QED
    BY <2>5 DEF Taken
<1>2. QED
  BY <1>1, TypedAlways, PTL
-----------------------------------------------------------------------------
(* Announcements *)

\* A step that writes no row to "confirmed", keeps the events and leaves alone
\* the requests about to emit takes nobody's announcement away
LEMMA StaysAnnounced ==
  ASSUME ConfirmedIsAnnounced,
         \A b \in Bookings : rows'[b].status = "confirmed" => rows[b].status = "confirmed",
         \A e \in Events : event[e] \in Bookings => event'[e] = event[e],
         \A p \in Reqs : req[p].at = "tail" =>
           \/ req'[p] = req[p]
           \/ rows[req[p].booking].status # "confirmed"
           \/ \E e \in Events : event'[e] = req[p].booking
           \/ req[p].booking \in silent',
         silent \subseteq silent'
  PROVE  ConfirmedIsAnnounced'
BY DEF ConfirmedIsAnnounced

LEMMA AnnouncedNext == TypeOK /\ ConfirmedIsAnnounced /\ [Next]_vars => ConfirmedIsAnnounced'
<1> SUFFICES ASSUME TypeOK, ConfirmedIsAnnounced, [Next]_vars
             PROVE  ConfirmedIsAnnounced'
  OBVIOUS
<1>T. req \in [Reqs -> Request] /\ event \in [Events -> Bookings \cup {Nil}]
  BY DEF TypeOK
<1>S. \A S \in SUBSET Reqs : \A p \in S : req[p].at = "tail" =>
        \/ rows[req[p].booking].status # "confirmed"
        \/ req[p].booking \in Untold(S)
  BY RequestParts DEF Untold
<1>1. CASE UNCHANGED vars
  BY <1>1, StaysAnnounced DEF vars
<1>2. ASSUME NEW p \in Reqs, NEW b \in Bookings, ConfirmRead(p, b)
      PROVE  ConfirmedIsAnnounced'
  BY <1>2, <1>T, StaysAnnounced DEF ConfirmRead, OnlyReq, Become
<1>3. ASSUME NEW p \in Reqs, ConfirmCode(p)
      PROVE  ConfirmedIsAnnounced'
  BY <1>3, <1>T, StaysAnnounced DEF ConfirmCode, OnlyReq, Become
<1>4. ASSUME NEW p \in Reqs, ConfirmSave(p)
      PROVE  ConfirmedIsAnnounced'
  <2> DEFINE b == req[p].booking
  <2>1. /\ req[p].at = "save"
        /\ req' = [req EXCEPT ![p] = [at |-> "tail", booking |-> b]]
        /\ UNCHANGED <<event, silent>>
    BY <1>4 DEF ConfirmSave, Become
  <2>2. req'[p].at = "tail" /\ req'[p].booking = b
    BY <2>1, <1>T
  <2>3. \A a \in Bookings \ {b} : rows'[a] = rows[a]
    BY <1>4, ConfirmSaveWrites
  <2>4. \A q \in Reqs : req[q].at = "tail" => req'[q] = req[q]
    BY <2>1, <1>T
  <2>5. QED
    BY <2>1, <2>2, <2>3, <2>4 DEF ConfirmedIsAnnounced
<1>5. ASSUME NEW p \in Reqs, Emit(p)
      PROVE  ConfirmedIsAnnounced'
  <2>1. PICK e \in Events : /\ event[e] = Nil
                            /\ event' = [event EXCEPT ![e] = req[p].booking]
    BY <1>5 DEF Emit
  <2>2. /\ req' = [req EXCEPT ![p] = Idle]
        /\ UNCHANGED <<rows, silent>>
    BY <1>5 DEF Emit, NoCron, Become, Respond
  <2>3. event'[e] = req[p].booking /\ \A d \in Events \ {e} : event'[d] = event[d]
    BY <2>1, <1>T
  <2>4. \A d \in Events : event[d] \in Bookings => event'[d] = event[d]
    BY <2>1, <2>3, NilAssumption
  <2>5. \A q \in Reqs : q # p => req'[q] = req[q]
    BY <2>2, <1>T
  <2>6. QED
    BY <2>2, <2>3, <2>4, <2>5, StaysAnnounced
<1>6. ASSUME NEW p \in Reqs, Fail(p)
      PROVE  ConfirmedIsAnnounced'
  <2>1. /\ req' = [req EXCEPT ![p] = Idle]
        /\ UNCHANGED <<rows, event>>
        /\ silent' = silent \cup Untold({p})
    BY <1>6 DEF Fail, Become, Respond
  <2>2. \A q \in Reqs : q # p => req'[q] = req[q]
    BY <2>1, <1>T
  <2>3. req[p].at = "tail" => \/ rows[req[p].booking].status # "confirmed"
                              \/ req[p].booking \in silent'
    BY <2>1, <1>S
  <2>4. QED
    BY <2>1, <2>2, <2>3, StaysAnnounced
<1>7. ASSUME NEW b \in Bookings, Rewrite(b)
      PROVE  ConfirmedIsAnnounced'
  <2>1. PICK r \in RowSet :
          /\ rows'[b] = r
          /\ \A a \in Bookings \ {b} : rows'[a] = rows[a]
          /\ silent' = IF r.status # "confirmed" THEN silent \ {b}
                       ELSE IF rows[b].status # "confirmed" THEN silent \cup {b}
                       ELSE silent
    BY <1>7, RewriteWrites
  <2>2. UNCHANGED <<req, event>>
    BY <1>7 DEF Rewrite
  <2>3. rows'[b].status = r.status /\ \A a \in Bookings \ {b} : rows'[a] = rows[a]
    BY <2>1
  <2>4. \A a \in Bookings \ {b} : a \in silent => a \in silent'
    BY <2>1
  <2>5. r.status = "confirmed" => \/ rows[b].status = "confirmed" /\ silent' = silent
                                  \/ b \in silent'
    BY <2>1
  <2>6. QED
    BY <2>2, <2>3, <2>4, <2>5 DEF ConfirmedIsAnnounced
<1>8. CASE Crash
  <2>1. /\ UNCHANGED <<rows, event>>
        /\ silent' = silent \cup Untold(Reqs)
    BY <1>8 DEF Crash
  <2>2. \A q \in Reqs : req[q].at = "tail" => \/ rows[req[q].booking].status # "confirmed"
                                              \/ req[q].booking \in silent'
    BY <2>1, <1>S
  <2>3. QED
    BY <2>1, <2>2, StaysAnnounced
<1>9. CASE \/ OtherConfirm \/ \E c \in others : OtherRemove(c)
           \/ \E e \in Events, c \in Chats : Call(e, c) \/ Retry(e, c)
           \/ CronStart \/ Tick
           \/ \E t \in cron : CronFind(t) \/ CronThrows(t)
  <2>1. UNCHANGED <<rows, req, event, silent>>
    BY <1>9 DEF OtherConfirm, OtherRemove, Call, Retry, CronStart, Tick, CronFind, CronThrows
  <2>2. QED
    BY <2>1, StaysAnnounced
<1>10. QED
  BY <1>1, <1>2, <1>3, <1>4, <1>5, <1>6, <1>7, <1>8, <1>9 DEF Next

\* A booking is confirmed without its event only where an administrator did it,
\* or where the request that did it failed between its save and the event
THEOREM ConfirmedAreAnnounced == Spec => []ConfirmedIsAnnounced
<1>1. Init => ConfirmedIsAnnounced
  BY DEF Init, ConfirmedIsAnnounced
<1>2. QED
  BY <1>1, AnnouncedNext, Types, PTL DEF Spec
-----------------------------------------------------------------------------
(* Messages *)

\* One message to one chat, as SendsCounted has it
Counted(m) ==
  /\ m.at \in {"none", "first"} => m.got = 0
  /\ m.at \in {"wait", "second", "lost"} => m.got <= 1
  /\ m.got <= 2

LEMMA CountedSteps ==
  ASSUME NEW m \in SendState, Counted(m)
  PROVE  /\ m.at = "wait" => Counted([m EXCEPT !.at = "second"])
         /\ m.at \in {"first", "wait", "second"} => Counted([m EXCEPT !.at = "lost"])
         /\ \A told \in BOOLEAN, delivered \in BOOLEAN :
              m.at \in {"first", "second"} =>
                Counted([at  |-> IF told THEN "told" ELSE AfterFailure(m.at),
                         got |-> IF delivered THEN More(m.got) ELSE m.got])
BY DEF SendState, Counted, AfterFailure, More

LEMMA SendsNext == TypeOK /\ SendsCounted /\ [Next]_vars => SendsCounted'
<1> SUFFICES ASSUME TypeOK, SendsCounted, [Next]_vars
             PROVE  SendsCounted'
  OBVIOUS
<1>T. /\ send \in [Events -> [Chats -> SendState]]
      /\ \A e \in Events, c \in Chats : send[e][c] \in SendState /\ Counted(send[e][c])
  BY DEF TypeOK, SendState, SendsCounted, Counted
<1>Q. (\A e \in Events, c \in Chats : Counted(send'[e][c])) => SendsCounted'
  BY DEF SendsCounted, Counted
<1>1. CASE UNCHANGED send
  BY <1>1, <1>T, <1>Q
<1>2. ASSUME NEW p \in Reqs, Emit(p)
      PROVE  SendsCounted'
  <2>1. PICK e \in Events :
          send' = [send EXCEPT ![e] = [c \in Chats |-> [at |-> "first", got |-> 0]]]
    BY <1>2 DEF Emit
  <2>2. Counted([at |-> "first", got |-> 0])
    BY DEF Counted
  <2>3. QED
    BY <2>1, <2>2, <1>T, <1>Q
<1>3. ASSUME NEW e \in Events, NEW c \in Chats, Call(e, c)
      PROVE  SendsCounted'
  <2>1. PICK told \in BOOLEAN, delivered \in BOOLEAN :
          send' = [send EXCEPT ![e][c] =
            [at  |-> IF told THEN "told" ELSE AfterFailure(@.at),
             got |-> IF delivered THEN More(@.got) ELSE @.got]]
    BY <1>3 DEF Call
  <2>2. send[e][c].at \in {"first", "second"}
    BY <1>3 DEF Call
  <2>3. Counted([at  |-> IF told THEN "told" ELSE AfterFailure(send[e][c].at),
                 got |-> IF delivered THEN More(send[e][c].got) ELSE send[e][c].got])
    BY <2>2, <1>T, CountedSteps
  <2>4. QED
    BY <2>1, <2>3, <1>T, <1>Q
<1>4. ASSUME NEW e \in Events, NEW c \in Chats, Retry(e, c)
      PROVE  SendsCounted'
  <2>1. send' = [send EXCEPT ![e][c] = [send[e][c] EXCEPT !.at = "second"]]
    BY <1>4, <1>T DEF Retry
  <2>2. Counted([send[e][c] EXCEPT !.at = "second"])
    BY <1>4, <1>T, CountedSteps DEF Retry
  <2>3. QED
    BY <2>1, <2>2, <1>T, <1>Q
<1>5. CASE Crash
  <2>1. send' = [e \in Events |-> [c \in Chats |->
                   IF send[e][c].at \in {"first", "wait", "second"}
                   THEN [send[e][c] EXCEPT !.at = "lost"] ELSE send[e][c]]]
    BY <1>5 DEF Crash
  <2>2. ASSUME NEW e \in Events, NEW c \in Chats
        PROVE  Counted(send'[e][c])
    <3>1. send'[e][c] = IF send[e][c].at \in {"first", "wait", "second"}
                        THEN [send[e][c] EXCEPT !.at = "lost"] ELSE send[e][c]
      BY <2>1
    <3>2. CASE send[e][c].at \in {"first", "wait", "second"}
      <4>1. Counted([send[e][c] EXCEPT !.at = "lost"])
        BY <3>2, <1>T, CountedSteps
      <4>2. QED
        BY <3>1, <3>2, <4>1
    <3>3. CASE send[e][c].at \notin {"first", "wait", "second"}
      BY <3>1, <3>3, <1>T
    <3>4. QED
      BY <3>2, <3>3
  <2>3. QED
    BY <2>2, <1>Q
<1>6. CASE UNCHANGED vars
  BY <1>1, <1>6 DEF vars
<1>7. CASE \/ \E p \in Reqs : \/ \E b \in Bookings : ConfirmRead(p, b)
                              \/ ConfirmCode(p) \/ ConfirmSave(p) \/ Fail(p)
           \/ \E b \in Bookings : Rewrite(b)
           \/ OtherConfirm \/ \E c \in others : OtherRemove(c)
           \/ CronStart \/ Tick
           \/ \E t \in cron : CronFind(t) \/ CronThrows(t)
  BY <1>1, <1>7 DEF ConfirmRead, ConfirmCode, OnlyReq, ConfirmSave, Fail, Rewrite, OtherConfirm,
     OtherRemove, CronStart, Tick, CronFind, CronThrows
<1>8. QED
  BY <1>2, <1>3, <1>4, <1>5, <1>6, <1>7 DEF Next

\* A chat gets the message of an event at most twice, and twice only where the
\* answer to the first was lost
THEOREM MessagesAreBounded == Spec => []MessagesBounded
<1>1. Init => SendsCounted
  BY DEF Init, Unsent, SendsCounted
<1>2. TypeOK /\ SendsCounted => MessagesBounded
  <2> SUFFICES ASSUME TypeOK, SendsCounted, NEW e \in Events, NEW c \in Chats
               PROVE  /\ send[e][c].got <= 2
                      /\ send[e][c].got = 2 => send[e][c].at \in {"told", "gaveup"}
    BY DEF MessagesBounded
  <2>1. send[e][c] \in SendState
    BY DEF TypeOK, SendState
  <2>2. QED
    BY <2>1 DEF SendsCounted, SendState
<1>3. QED
  BY <1>1, <1>2, SendsNext, Types, PTL DEF Spec
-----------------------------------------------------------------------------
(* Reminders *)

\* Minutes are numbers
LEMMA Minutes ==
  ASSUME TypeOK
  PROVE  /\ now \in Nat /\ Lead \in Nat /\ now + Lead \in Nat
         /\ Starts \subseteq Nat
         /\ cron \subseteq Starts
         /\ \A t \in cron : t <= now + Lead
         /\ \A b \in Bookings : rows[b].start \in Starts
         /\ \A b \in Bookings, s \in Starts : reminded[b][s] \in 0..3
BY BoundAssumption, StartsAssumption DEF TypeOK

\* A run that ends reminds of its own start those who are confirmed for it
LEMMA Found ==
  ASSUME TypeOK, NEW t \in cron, CronFind(t), NEW b \in Bookings, NEW s \in Starts
  PROVE  reminded'[b][s] =
           IF s = t /\ rows[b].status = "confirmed" /\ rows[b].start = t
           THEN More(reminded[b][s]) ELSE reminded[b][s]
<1>1. reminded' = [a \in Bookings |->
        IF a \in ToRemind(t) THEN [reminded[a] EXCEPT ![rows[a].start] = More(@)]
        ELSE reminded[a]]
  BY DEF CronFind
<1>2. reminded[b] \in [Starts -> 0..3] /\ rows[b].start \in Starts
  BY Minutes DEF TypeOK
<1>3. b \in ToRemind(t) <=> rows[b].status = "confirmed" /\ rows[b].start = t
  BY DEF ToRemind
<1>4. reminded'[b] = IF b \in ToRemind(t)
                     THEN [reminded[b] EXCEPT ![rows[b].start] = More(reminded[b][rows[b].start])]
                     ELSE reminded[b]
  BY <1>1
<1>5. QED
  BY <1>2, <1>3, <1>4

\* How a step of the clock or of the cron moves what is over
LEMMA OverSteps ==
  ASSUME TypeOK
  PROVE  /\ UNCHANGED <<now, ticked>> => \A s \in Starts : Over(s)' <=> Over(s)
         /\ CronStart => /\ \A s \in Starts : Over(s)' <=> Over(s) \/ s = now + Lead
                         /\ ~Over(now + Lead)
         /\ Tick => \A s \in Starts : Over(s)' <=> s < now + Lead \/ s = now + Lead
<1>0. now \in Nat /\ Lead \in Nat /\ Starts \subseteq Nat
  BY Minutes
<1>1. UNCHANGED <<now, ticked>> => \A s \in Starts : Over(s)' <=> Over(s)
  BY DEF Over
<1>2. CronStart => /\ \A s \in Starts : Over(s)' <=> Over(s) \/ s = now + Lead
                   /\ ~Over(now + Lead)
  BY <1>0 DEF CronStart, Over
<1>3. Tick => \A s \in Starts : Over(s)' <=> s < now + Lead \/ s = now + Lead
  <2> SUFFICES ASSUME Tick, NEW s \in Starts
               PROVE  Over(s)' <=> s < now + Lead \/ s = now + Lead
    OBVIOUS
  <2>1. now' = now + 1 /\ ticked' = FALSE
    BY DEF Tick
  <2>2. Over(s)' <=> s < now + 1 + Lead
    BY <2>1, <1>0 DEF Over
  <2>3. QED
    BY <2>2, <1>0
<1>4. QED
  BY <1>1, <1>2, <1>3

LEMMA SpentNext == TypeOK /\ ReminderSpent /\ [Next]_vars => ReminderSpent'
<1> SUFFICES ASSUME TypeOK, ReminderSpent, [Next]_vars
             PROVE  ReminderSpent'
  OBVIOUS
<1>M. /\ cron \subseteq Starts /\ Starts \subseteq Nat /\ now + Lead \in Nat
      /\ \A b \in Bookings, s \in Starts : reminded[b][s] \in 0..3
  BY Minutes
<1>1. CASE UNCHANGED <<now, ticked, cron, reminded>>
  BY <1>1, <1>M, OverSteps DEF ReminderSpent
<1>2. CASE CronStart
  <2>1. reminded' = reminded /\ cron' = cron \cup ({now + Lead} \cap Starts)
    BY <1>2 DEF CronStart, Target
  <2>2. \A s \in Starts : Over(s)' <=> Over(s) \/ s = now + Lead
    BY <1>2, OverSteps
  <2>3. ~Over(now + Lead)
    BY <1>2, OverSteps
  <2>4. QED
    BY <2>1, <2>2, <2>3, <1>M DEF ReminderSpent
<1>3. CASE Tick
  <2>1. reminded' = reminded /\ cron' = cron
    BY <1>3 DEF Tick
  <2>2. \A s \in Starts : Over(s) => Over(s)'
    BY <1>3, OverSteps DEF Over
  <2>3. QED
    BY <2>1, <2>2, <1>M DEF ReminderSpent
<1>4. CASE Crash
  <2>1. reminded' = reminded /\ cron' = {} /\ UNCHANGED <<now, ticked>>
    BY <1>4 DEF Crash
  <2>2. QED
    BY <2>1, <1>M, OverSteps DEF ReminderSpent
<1>5. ASSUME NEW t \in cron, CronThrows(t)
      PROVE  ReminderSpent'
  <2>1. reminded' = reminded /\ cron' = cron \ {t} /\ UNCHANGED <<now, ticked>>
    BY <1>5 DEF CronThrows
  <2>2. QED
    BY <2>1, <1>M, OverSteps DEF ReminderSpent
<1>6. ASSUME NEW t \in cron, CronFind(t)
      PROVE  ReminderSpent'
  <2>1. cron' = cron \ {t} /\ UNCHANGED <<now, ticked>>
    BY <1>6 DEF CronFind
  <2>2. \A s \in Starts : Over(s)' <=> Over(s)
    BY <2>1, OverSteps
  <2>3. ASSUME NEW b \in Bookings, NEW s \in Starts
        PROVE  /\ reminded'[b][s] <= 1
               /\ reminded'[b][s] = 1 => Over(s)' /\ s \notin cron'
    <3>1. reminded'[b][s] = reminded[b][s] \/ (s = t /\ reminded'[b][s] = More(reminded[b][s]))
      BY <1>6, Found
    <3>2. CASE reminded'[b][s] = reminded[b][s]
      BY <3>2, <2>1, <2>2 DEF ReminderSpent
    <3>3. CASE s = t /\ reminded'[b][s] = More(reminded[b][s])
      <4>1. reminded[b][s] = 0
        BY <3>3, <1>M DEF ReminderSpent
      <4>2. reminded'[b][s] = 1
        BY <3>3, <4>1 DEF More
      <4>3. Over(s)' /\ s \notin cron'
        BY <3>3, <2>1, <2>2 DEF ReminderSpent
      <4>4. QED
        BY <4>2, <4>3
    <3>4. QED
      BY <3>1, <3>2, <3>3
  <2>4. \A s \in cron' : Over(s)'
    BY <2>1, <2>2, <1>M DEF ReminderSpent
  <2>5. QED
    BY <2>3, <2>4 DEF ReminderSpent
<1>7. CASE UNCHANGED vars
  BY <1>1, <1>7 DEF vars
<1>8. CASE \/ \E p \in Reqs : \/ \E b \in Bookings : ConfirmRead(p, b)
                              \/ ConfirmCode(p) \/ ConfirmSave(p) \/ Emit(p) \/ Fail(p)
           \/ \E b \in Bookings : Rewrite(b)
           \/ OtherConfirm \/ \E c \in others : OtherRemove(c)
           \/ \E e \in Events, c \in Chats : Call(e, c) \/ Retry(e, c)
  BY <1>1, <1>8 DEF ConfirmRead, ConfirmCode, OnlyReq, ConfirmSave, Emit, Fail, Rewrite,
     OtherConfirm, OtherRemove, Call, Retry, NoCron
<1>9. QED
  BY <1>2, <1>3, <1>4, <1>5, <1>6, <1>7, <1>8 DEF Next

\* Nobody is reminded twice of one appointment: a start has one minute in which
\* its run can begin, and that run ends once
THEOREM RemindersOnce == Spec => []RemindedOnce
<1>1. Init => ReminderSpent
  BY DEF Init, ReminderSpent
<1>2. ReminderSpent => RemindedOnce
  BY DEF ReminderSpent, RemindedOnce
<1>3. QED
  BY <1>1, <1>2, SpentNext, Types, PTL DEF Spec

\* A row that is written now has its reminder before it, or is not in early
LEMMA WrittenLate ==
  ASSUME TypeOK, RemindedOnTime, NEW b \in Bookings, early' = Written(b),
         \A a \in Bookings \ {b} : rows'[a] = rows[a],
         UNCHANGED <<now, ticked, cron, missed, reminded>>,
         rows'[b].start \in Starts
  PROVE  RemindedOnTime'
<1>1. b \in early' => ~Over(rows[b].start)'
  <2>1. b \in early' => now + Lead < rows'[b].start
    BY DEF Written
  <2>2. now + Lead \in Nat /\ rows'[b].start \in Nat
    BY Minutes
  <2>3. QED
    BY <2>1, <2>2 DEF Over
<1>2. \A a \in Bookings \ {b} : /\ a \in early' => a \in early
                                /\ Over(rows[a].start)' => Over(rows[a].start)
  BY DEF Written, Over
<1>3. QED
  BY <1>1, <1>2 DEF RemindedOnTime

LEMMA OnTimeNext == TypeOK /\ RemindedOnTime /\ [Next]_vars => RemindedOnTime'
<1> SUFFICES ASSUME TypeOK, RemindedOnTime, [Next]_vars
             PROVE  RemindedOnTime'
  OBVIOUS
<1>M. /\ cron \subseteq Starts /\ Starts \subseteq Nat /\ now + Lead \in Nat
      /\ \A b \in Bookings : rows[b].start \in Starts
      /\ \A b \in Bookings, s \in Starts : reminded[b][s] \in 0..3
  BY Minutes
<1>1. CASE UNCHANGED <<now, ticked, cron, missed, reminded, rows, early>>
  BY <1>1 DEF RemindedOnTime, Over
<1>2. ASSUME NEW p \in Reqs, ConfirmSave(p)
      PROVE  RemindedOnTime'
  <2> DEFINE b == req[p].booking
  <2>1. early' = Written(b) /\ UNCHANGED <<now, ticked, cron, missed, reminded>>
    BY <1>2 DEF ConfirmSave, NoCron
  <2>2. b \in Bookings /\ \A a \in Bookings \ {b} : rows'[a] = rows[a]
    BY <1>2, ConfirmSaveWrites
  <2>3. rows'[b].start \in Starts
    BY <1>2, ConfirmSaveWrites DEF RowSet
  <2>4. QED
    BY <2>1, <2>2, <2>3, WrittenLate
<1>3. ASSUME NEW b \in Bookings, Rewrite(b)
      PROVE  RemindedOnTime'
  <2>1. early' = Written(b) /\ UNCHANGED <<now, ticked, cron, missed, reminded>>
    BY <1>3 DEF Rewrite, NoCron
  <2>2. rows'[b].start \in Starts /\ \A a \in Bookings \ {b} : rows'[a] = rows[a]
    BY <1>3, RewriteWrites DEF RowSet
  <2>3. QED
    BY <2>1, <2>2, WrittenLate
<1>4. CASE CronStart
  <2>1. UNCHANGED <<rows, early, missed, reminded>> /\ cron' = cron \cup ({now + Lead} \cap Starts)
    BY <1>4 DEF CronStart, Target
  <2>2. \A s \in Starts : Over(s)' <=> Over(s) \/ s = now + Lead
    BY <1>4, OverSteps
  <2>3. QED
    BY <2>1, <2>2, <1>M DEF RemindedOnTime
<1>5. CASE Tick
  <2>1. /\ UNCHANGED <<rows, early, cron, reminded>>
        /\ missed' = IF ticked THEN missed ELSE missed \cup ({now + Lead} \cap Starts)
    BY <1>5 DEF Tick, Target
  <2>2. \A s \in Starts : Over(s)' => Over(s) \/ (s = now + Lead /\ ~ticked)
    BY <1>5, OverSteps DEF Over
  <2>3. QED
    BY <2>1, <2>2, <1>M DEF RemindedOnTime
<1>6. CASE Crash
  <2>1. /\ UNCHANGED <<rows, early, reminded, now, ticked>>
        /\ missed' = missed \cup cron /\ cron' = {}
    BY <1>6 DEF Crash
  <2>2. QED
    BY <2>1, <1>M, OverSteps DEF RemindedOnTime
<1>7. ASSUME NEW t \in cron, CronThrows(t)
      PROVE  RemindedOnTime'
  <2>1. /\ UNCHANGED <<rows, early, reminded, now, ticked>>
        /\ missed' = missed \cup {t} /\ cron' = cron \ {t}
    BY <1>7 DEF CronThrows
  <2>2. QED
    BY <2>1, <1>M, OverSteps DEF RemindedOnTime
<1>8. ASSUME NEW t \in cron, CronFind(t)
      PROVE  RemindedOnTime'
  <2>1. /\ UNCHANGED <<rows, early, missed, now, ticked>>
        /\ cron' = cron \ {t}
    BY <1>8 DEF CronFind
  <2>2. SUFFICES ASSUME NEW b \in Bookings, rows[b].status = "confirmed", b \in early,
                        Over(rows[b].start), rows[b].start \notin missed \cup (cron \ {t})
                 PROVE  reminded'[b][rows[b].start] >= 1
    BY <2>1, <1>M, OverSteps DEF RemindedOnTime
  <2>3. reminded'[b][rows[b].start] = IF rows[b].start = t THEN More(reminded[b][rows[b].start])
                                      ELSE reminded[b][rows[b].start]
    BY <2>2, <1>8, <1>M, Found
  <2>4. reminded[b][rows[b].start] \in 0..3
    BY <1>M
  <2>5. CASE rows[b].start = t
    BY <2>3, <2>4, <2>5 DEF More
  <2>6. CASE rows[b].start # t
    BY <2>2, <2>3, <2>6 DEF RemindedOnTime
  <2>7. QED
    BY <2>5, <2>6
<1>9. CASE UNCHANGED vars
  BY <1>1, <1>9 DEF vars
<1>10. CASE \/ \E p \in Reqs : \/ \E b \in Bookings : ConfirmRead(p, b)
                               \/ ConfirmCode(p) \/ Emit(p) \/ Fail(p)
            \/ OtherConfirm \/ \E c \in others : OtherRemove(c)
            \/ \E e \in Events, c \in Chats : Call(e, c) \/ Retry(e, c)
  BY <1>1, <1>10 DEF ConfirmRead, ConfirmCode, OnlyReq, Emit, Fail,
     OtherConfirm, OtherRemove, Call, Retry, NoCron
<1>11. QED
  BY <1>2, <1>3, <1>4, <1>5, <1>6, <1>7, <1>8, <1>9, <1>10 DEF Next

\* Who was confirmed for a start before its reminder was due is reminded of it,
\* unless the one run that looks for it did not come or did not end
THEOREM RemindersComeInTime == Spec => []RemindedIfInTime
<1>1. Init => RemindedOnTime
  <2> SUFFICES ASSUME Init, NEW b \in Bookings, b \in early
               PROVE  ~Over(rows[b].start)
    BY DEF RemindedOnTime
  <2>1. now = 0 /\ Lead < rows[b].start /\ rows[b].start \in Nat /\ Lead \in Nat
    BY StartsAssumption, BoundAssumption DEF Init
  <2>2. QED
    BY <2>1 DEF Over
<1>2. TypeOK /\ RemindedOnTime => RemindedIfInTime
  BY Minutes DEF RemindedOnTime, RemindedIfInTime, Over
<1>3. QED
  BY <1>1, <1>2, OnTimeNext, Types, PTL DEF Spec
=============================================================================
