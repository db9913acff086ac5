----------------------------- MODULE Notifications ----------------------------
(***************************************************************************)
(* What is told about a confirmed booking: the end of                      *)
(* BookingsService.confirm with the code it gives, the Telegram messages   *)
(* of TelegramService to the staff, and the reminder that                  *)
(* BookingNotificationCron gives two hours before the start.               *)
(*                                                                         *)
(* A booking is its status, its start and the number in its code, 0 for    *)
(* none; a start is a minute of the calendar (bookingDate and              *)
(* slotStartTime together), as the cron compares both.  The status "gone"  *)
(* says that there is no row.  The other writers of the row, which module  *)
(* Bookings has one by one, are one action that writes any of it, puts the *)
(* row back or deletes it.                                                 *)
(***************************************************************************)
EXTENDS Integers, FiniteSets

CONSTANTS Bookings, Chats, Reqs,
          Starts,       \* the minutes bookings can start at
          Lead,         \* the 2 hours of the reminder, in minutes
          MaxTime,      \* bound on the clock
          MaxEvents,    \* bound on the events ever emitted
          Base, Width,  \* of the number in a code: 10 and 3
          Earlier,      \* how many codes the month may have at first
          MaxOthers,    \* bound on the codes that other bookings get meanwhile
          Nil

ASSUME BoundAssumption == {Lead, MaxTime, MaxEvents, MaxOthers, Width} \subseteq Nat /\ Base \in Nat \ {0}

ASSUME StartsAssumption == Starts \subseteq Nat /\ Earlier \subseteq Nat

ASSUME NilAssumption == Nil \notin Bookings

Status == {"otp_verified", "confirmed", "other", "gone"}

VARIABLES now,       \* the minute it is
          before,    \* the codes 1..before were given earlier
          others,    \* the codes given to other bookings meanwhile
          rows,      \* table bookings
          req,       \* the confirmations in flight
          event,     \* the booking.confirmed events, in the order of their emission
          send,      \* sendMessage, for each event and chat
          ticked,    \* the cron has fired in this minute
          cron,      \* the runs in flight, by the minute they look for
          reminded,  \* how often a booking was reminded of a start
          early,     \* bookings not written since their reminder became due
          missed,    \* the starts whose run did not come or did not end
          silent     \* bookings confirmed by somebody who then told nobody

vars == <<now, before, others, rows, req, event, send, ticked, cron, reminded, early,
          missed, silent>>

Events == 1..MaxEvents

Idle == [at |-> "idle"]

Unsent == [at |-> "none", got |-> 0]

Init ==
  /\ now = 0
  /\ before \in Earlier
  /\ others = {}
  /\ rows \in [Bookings -> [status : {"otp_verified"}, start : Starts, code : {0}]]
  /\ req = [p \in Reqs |-> Idle]
  /\ event = [e \in Events |-> Nil]
  /\ send = [e \in Events |-> [c \in Chats |-> Unsent]]
  /\ ticked = FALSE
  /\ cron = {}
  /\ reminded = [b \in Bookings |-> [s \in Starts |-> 0]]
  /\ early = {b \in Bookings : Lead < rows[b].start}
  /\ missed = {}
  /\ silent = {}
-----------------------------------------------------------------------------
(* generateBookingCode *)

\* (mutant of Before: padStart is left out)
BeforeUnpadded(m, n) ==
  LET Head(k) == IF k < Base THEN k ELSE k \div Base
  IN Head(m) < Head(n) \/ (Head(m) = Head(n) /\ m < n)

\* the order of the column: m and n as strings of Width digits, or of one more
Before(m, n) ==
  LET Head(k) == IF k < Base^Width THEN k ELSE k \div Base
  IN Head(m) < Head(n) \/ (Head(m) = Head(n) /\ m < n)

\* of the codes 1..before the greatest stands for all
Codes == {rows[b].code : b \in Bookings} \cup others \cup {before}

Taken(c) == c \in 1..before \/ c \in Codes \ {0}

\* the unique index on bookingCode lets booking b have code c
MayHave(b, c) ==
  c = 0 \/ /\ c \notin 1..before \cup others
           /\ \A a \in Bookings \ {b} : rows[a].code # c

\* one more than the last code, and 001 where there is none
NextCode == 1 + CHOOSE m \in Codes : \A n \in Codes \ {m} : Before(n, m)
-----------------------------------------------------------------------------
(* POST bookings/:id/confirm *)

\* a row is written: in time for its reminder, or not
Written(b) == IF now + Lead < rows'[b].start THEN early \cup {b} ELSE early \ {b}

Become(p, r) == req' = [req EXCEPT ![p] = r]

Respond(p) == Become(p, Idle)

OnlyReq == UNCHANGED <<now, before, others, rows, event, send, ticked, cron, reminded, early,
                       missed, silent>>

NoCron == UNCHANGED <<now, before, others, ticked, cron, reminded, missed>>

\* the transition and the deadline are checked; a code there is is kept
ConfirmRead(p, b) ==
  /\ req[p].at = "idle"
  /\ rows[b].status = "otp_verified"
  /\ Become(p, [at |-> IF rows[b].code = 0 THEN "code" ELSE "save",
                booking |-> b, start |-> rows[b].start, code |-> rows[b].code])
  /\ OnlyReq

ConfirmCode(p) ==
  /\ req[p].at = "code"
  /\ Become(p, [req[p] EXCEPT !.at = "save", !.code = NextCode])
  /\ OnlyReq

\* what the save of a confirmation leaves: it writes the columns of the row as
\* loaded in which that differs from what its SELECT saw, so that another write
\* in between may keep any of its own; a deleted row is put back as a whole,
\* unless it went after the SELECT
Saved(old, r) ==
  IF old.status = "gone" THEN {old, r}
  ELSE [status : {old.status, r.status}, start : {old.start, r.start},
        code : {old.code, r.code}]

Confirmed(p) ==
  [status |-> "confirmed", start |-> req[p].start, code |-> req[p].code]

\* (mutant of ConfirmSave: the request is answered as soon as it is saved)
ConfirmSaveAnswers(p) ==
  LET b == req[p].booking IN
  /\ req[p].at = "save"
  /\ \E r \in Saved(rows[b], Confirmed(p)) :
       MayHave(b, r.code) /\ rows' = [rows EXCEPT ![b] = r]
  /\ early' = Written(b)
  /\ Respond(p)
  /\ UNCHANGED <<event, send, silent>>
  /\ NoCron

\* where the unique index refuses the code, the request ends as in Fail
ConfirmSave(p) ==
  LET b == req[p].booking IN
  /\ req[p].at = "save"
  /\ \E r \in Saved(rows[b], Confirmed(p)) :
       MayHave(b, r.code) /\ rows' = [rows EXCEPT ![b] = r]
  /\ early' = Written(b)
  /\ Become(p, [at |-> "tail", booking |-> b])
  /\ UNCHANGED <<event, send, silent>>
  /\ NoCron

\* addLog, findOne, the management token and findBookingsByPhoneAndOptionalCode
\* are behind, of which the first two want the row; the answer follows the event
Emit(p) ==
  /\ req[p].at = "tail"
  /\ rows[req[p].booking].status # "gone"
  /\ \E e \in Events :
       /\ event[e] = Nil /\ \A d \in 1..e-1 : event[d] # Nil
       /\ event' = [event EXCEPT ![e] = req[p].booking]
       /\ send' = [send EXCEPT ![e] = [c \in Chats |-> [at |-> "first", got |-> 0]]]
  /\ Respond(p)
  /\ UNCHANGED <<rows, early, silent>>
  /\ NoCron

\* the bookings that the requests S have confirmed and told nobody of
Untold(S) == {b \in Bookings : /\ rows[b].status = "confirmed"
                               /\ \E p \in S : req[p] = [at |-> "tail", booking |-> b]}

\* a check refuses the request or an awaited call rejects
Fail(p) ==
  /\ req[p].at # "idle"
  /\ silent' = silent \cup Untold({p})
  /\ Respond(p)
  /\ UNCHANGED <<rows, event, send, early>>
  /\ NoCron

\* confirmations of other bookings, and removals of theirs
OtherConfirm ==
  /\ NextCode <= before + MaxOthers
  /\ ~Taken(NextCode)
  /\ others' = others \cup {NextCode}
  /\ UNCHANGED <<now, before, rows, req, event, send, ticked, cron, reminded, early,
                 missed, silent>>

OtherRemove(c) ==
  /\ others' = others \ {c}
  /\ UNCHANGED <<now, before, rows, req, event, send, ticked, cron, reminded, early,
                 missed, silent>>

\* whatever else writes the row.  updateStatus may even confirm it, and says so
\* to nobody; a verification, a cancellation or a reschedule may save it as it
\* was before it had its code, or put back a code it had, or the row itself
\* after it was deleted
Rewrite(b) ==
  /\ \E r \in [status : Status, start : Starts,
                code : {0, rows[b].code} \cup before + 1 .. before + MaxOthers + 1] :
       /\ r.status = "gone" => r.code = 0
       /\ MayHave(b, r.code)
       /\ rows' = [rows EXCEPT ![b] = r]
       /\ silent' = IF r.status # "confirmed" THEN silent \ {b}
                    ELSE IF rows[b].status # "confirmed" THEN silent \cup {b}
                    ELSE silent
  /\ early' = Written(b)
  /\ UNCHANGED <<req, event, send>>
  /\ NoCron
-----------------------------------------------------------------------------
(* TelegramService *)

\* (mutant of AfterFailure: the retries are not counted down)
AfterFailureAgain(at) == "wait"

\* sendMessage with one retry
AfterFailure(at) == IF at = "first" THEN "wait" ELSE "gaveup"

\* how often a chat got the message; 3 stands for more
More(got) == IF got < 3 THEN got + 1 ELSE got

\* the API delivers and says so, or delivers and its answer is lost, or does not
\* deliver; the sends to the chats run side by side
Call(e, c) ==
  /\ send[e][c].at \in {"first", "second"}
  /\ \E told \in BOOLEAN, delivered \in BOOLEAN :
       /\ told => delivered
       /\ send' = [send EXCEPT ![e][c] =
            [at  |-> IF told THEN "told" ELSE AfterFailure(@.at),
             got |-> IF delivered THEN More(@.got) ELSE @.got]]
  /\ UNCHANGED <<rows, req, event, early, silent>>
  /\ NoCron

\* three seconds later
Retry(e, c) ==
  /\ send[e][c].at = "wait"
  /\ send' = [send EXCEPT ![e][c].at = "second"]
  /\ UNCHANGED <<rows, req, event, early, silent>>
  /\ NoCron
-----------------------------------------------------------------------------
(* BookingNotificationCron *)

\* (mutant of Target: rounded up to the next minute)
TargetAhead(minute) == minute + Lead + 1

\* (mutant of Target: the minute before is formatted)
TargetBefore(minute) == minute + Lead - 1

\* the minute a run looks for
Target(minute) == minute + Lead

\* a run that can find nothing is not kept
CronStart ==
  /\ ~ticked
  /\ ticked' = TRUE
  /\ cron' = cron \cup ({Target(now)} \cap Starts)
  /\ UNCHANGED <<now, before, others, rows, req, event, send, reminded, early, missed, silent>>

\* (mutant of ToRemind: whatever starts by then)
ToRemindBy(t) == {b \in Bookings : rows[b].status = "confirmed" /\ rows[b].start <= t}

ToRemind(t) == {b \in Bookings : rows[b].status = "confirmed" /\ rows[b].start = t}

CronFind(t) ==
  /\ t \in cron
  /\ cron' = cron \ {t}
  /\ reminded' = [b \in Bookings |->
       IF b \in ToRemind(t) THEN [reminded[b] EXCEPT ![rows[b].start] = More(@)]
       ELSE reminded[b]]
  /\ UNCHANGED <<now, before, others, rows, req, event, send, ticked, early, missed, silent>>

\* the query rejects
CronThrows(t) ==
  /\ t \in cron
  /\ cron' = cron \ {t}
  /\ missed' = missed \cup {t}
  /\ UNCHANGED <<now, before, others, rows, req, event, send, ticked, reminded, early, silent>>

\* a minute passes; the process may have been down or busy for all of it
Tick ==
  /\ now < MaxTime
  /\ now' = now + 1
  /\ ticked' = FALSE
  /\ missed' = IF ticked THEN missed ELSE missed \cup ({Target(now)} \cap Starts)
  /\ UNCHANGED <<before, others, rows, req, event, send, cron, reminded, early, silent>>

\* the process dies: requests, sends and runs end where they are
Crash ==
  /\ req' = [p \in Reqs |-> Idle]
  /\ silent' = silent \cup Untold(Reqs)
  /\ send' = [e \in Events |-> [c \in Chats |->
       IF send[e][c].at \in {"first", "wait", "second"}
       THEN [send[e][c] EXCEPT !.at = "lost"] ELSE send[e][c]]]
  /\ cron' = {}
  /\ missed' = missed \cup cron
  /\ UNCHANGED <<now, before, others, rows, event, ticked, reminded, early>>

Next ==
  \/ \E p \in Reqs : \/ \E b \in Bookings : ConfirmRead(p, b)
                     \/ ConfirmCode(p) \/ ConfirmSave(p) \/ Emit(p) \/ Fail(p)
  \/ \E b \in Bookings : Rewrite(b)
  \/ OtherConfirm \/ \E c \in others : OtherRemove(c)
  \/ \E e \in Events, c \in Chats : Call(e, c) \/ Retry(e, c)
  \/ CronStart \/ Tick \/ Crash
  \/ \E t \in cron : CronFind(t) \/ CronThrows(t)

Spec == Init /\ [][Next]_vars

\* a call of the API returns or rejects (fetch has a limit of its own), and the
\* timer of the retry fires
FairSpec ==
  Spec /\ \A e \in Events, c \in Chats : WF_vars(Call(e, c)) /\ WF_vars(Retry(e, c))
-----------------------------------------------------------------------------
Request ==
  {Idle}
  \cup [at : {"code", "save"}, booking : Bookings, start : Starts, code : Nat]
  \cup [at : {"tail"}, booking : Bookings]

TypeOK ==
  /\ now \in 0..MaxTime
  /\ before \in Earlier
  /\ others \subseteq Nat
  /\ rows \in [Bookings -> [status : Status, start : Starts, code : Nat]]
  /\ req \in [Reqs -> Request]
  /\ event \in [Events -> Bookings \cup {Nil}]
  /\ send \in [Events -> [Chats ->
       [at : {"none", "first", "wait", "second", "told", "gaveup", "lost"}, got : 0..3]]]
  /\ ticked \in BOOLEAN
  /\ cron \subseteq {s \in Starts : s <= now + Lead}
  /\ reminded \in [Bookings -> [Starts -> 0..3]]
  /\ early \subseteq Bookings
  /\ missed \subseteq Starts
  /\ silent \subseteq Bookings

\* While a month has less than 1000 codes, the code the next confirmation would
\* get is nobody's, so that only a confirmation at the same time can take it
\* first (bookings.service.ts:519)
NextCodeIsFree ==
  (\A c \in Codes : c < Base^Width) => ~Taken(NextCode)

\* A booking is confirmed without its event only where an administrator did it,
\* or where the request that did it failed between its save and the event
\* (bookings.service.ts:228-292)
ConfirmedIsAnnounced ==
  \A b \in Bookings : rows[b].status = "confirmed" =>
    \/ \E e \in Events : event[e] = b
    \/ \E p \in Reqs : req[p].at = "tail" /\ req[p].booking = b
    \/ b \in silent

\* A chat gets the message of an event once, and a second time only because the
\* answer to the first was lost
MessagesBounded ==
  \A e \in Events, c \in Chats :
    /\ send[e][c].got <= 2
    /\ send[e][c].got = 2 => send[e][c].at \in {"told", "gaveup"}

\* A broadcast ends, whatever the API answers
BroadcastEnds ==
  \A e \in Events, c \in Chats :
    send[e][c].at \in {"first", "wait", "second"}
      ~> send[e][c].at \in {"told", "gaveup", "lost"}

\* Nobody is reminded twice of one appointment, however it was moved
RemindedOnce == \A b \in Bookings, s \in Starts : reminded[b][s] <= 1

\* Who was confirmed for this start before its reminder was due has been
\* reminded, unless the run of that minute did not come or did not end
RemindedIfInTime ==
  \A b \in Bookings :
    LET s == rows[b].start IN
    /\ rows[b].status = "confirmed"
    /\ b \in early
    /\ now + Lead > s
    /\ s \notin missed \cup cron
    => reminded[b][s] >= 1
=============================================================================
