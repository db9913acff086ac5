---------------------------- MODULE BookingEntity ----------------------------
(***************************************************************************)
(* One row of the table `bookings` and what the handlers compute from it,  *)
(* translated from bookings/entities/booking.entity.ts and from the pure   *)
(* parts of bookings.service.ts and slot.service.ts.  A row keeps the      *)
(* columns some handler decides on; names, phones, prices, notes and the   *)
(* audit timestamps are left out.                                          *)
(*   - times of day are numbers of minutes on the grid Starts, never the   *)
(*     "HH:mm" strings (calcEndTime and toMinutes are inverse on them);    *)
(*   - appt is the column appointmentTime, the day and time it was built   *)
(*     from; end is slotEndTime; dur is totalDuration;                     *)
(*   - hold says that holdExpiresAt is not null, otpAt that otpVerifiedAt  *)
(*     is not null, noShow is isNoShow;                                    *)
(*   - code is the sequence number in bookingCode, 0 for null.             *)
(***************************************************************************)
EXTENDS Integers

CONSTANTS Barbers,   \* the ids of the barbers
          Dates,     \* the days that can be booked
          Starts,    \* the start times, in minutes
          Durs,      \* the durations of a service or combo, in minutes
          MaxCode,   \* bound on the sequence number of a booking code
          Nil        \* absence: no row, no booking, no owner

ASSUME GridAssumption == Starts \subseteq Nat /\ Durs \subseteq Nat \ {0}

ASSUME CodeAssumption == MaxCode \in Nat

Status == {"pending", "otp_verified", "confirmed", "inprogress",
           "done", "cancelled", "expired"}

ValidTransitions ==
  [pending      |-> {"otp_verified", "cancelled", "expired"},
   otp_verified |-> {"confirmed", "cancelled", "expired"},
   confirmed    |-> {"inprogress", "cancelled"},
   inprogress   |-> {"done", "cancelled"},
   done         |-> {},
   cancelled    |-> {},
   expired      |-> {}]

\* OCCUPYING_STATUSES: a row with such a status takes its slot
Occupying == {"pending", "otp_verified", "confirmed", "inprogress"}

\* the statuses that only a hold in progress has
Held == {"pending", "otp_verified"}

Closed == {"done", "cancelled", "expired"}

Slots == Barbers \X Dates \X Starts

Row == [status : Status, barber : Barbers, date : Dates, start : Starts,
        end : Nat, dur : Durs, appt : Dates \X Starts, hold : BOOLEAN,
        otpAt : BOOLEAN, code : 0..MaxCode, noShow : BOOLEAN]

SlotOf(r) == <<r.barber, r.date, r.start>>

\* (mutant of CalcEndTime: the sign is wrong)
CalcEndTimeBackwards(start, dur) == start - dur

CalcEndTime(start, dur) == start + dur

\* (mutant of Overlaps: only what begins inside the interval meets it)
OverlapsAtStart(s1, e1, s2, e2) == s2 >= s1 /\ s2 < e1

\* [s1, e1) meets [s2, e2)
Overlaps(s1, e1, s2, e2) == s1 < e2 /\ e1 > s2

\* the row holdSlot builds for slot k
NewRow(k, d) ==
  [status |-> "pending", barber |-> k[1], date |-> k[2], start |-> k[3],
   end |-> CalcEndTime(k[3], d), dur |-> d, appt |-> <<k[2], k[3]>>,
   hold |-> TRUE, otpAt |-> FALSE, code |-> 0, noShow |-> FALSE]

\* (mutant of Verified: the deadline is dropped one step too early)
VerifiedForever(r) ==
  [r EXCEPT !.status = "otp_verified", !.otpAt = TRUE, !.hold = FALSE]

Verified(r) == [r EXCEPT !.status = "otp_verified", !.otpAt = TRUE]

Confirmed(r) == [r EXCEPT !.status = "confirmed", !.hold = FALSE]

\* (mutant of Cancelled: the code is given back)
CancelledGivesCodeBack(r) == [r EXCEPT !.status = "cancelled", !.code = 0]

Cancelled(r) == [r EXCEPT !.status = "cancelled"]

\* (mutant of Moved: the end is not computed again)
MovedKeepsEnd(r, k) == [r EXCEPT !.date = k[2], !.start = k[3]]

\* the columns both reschedules write: not appointmentTime
Moved(r, k) == [r EXCEPT !.date = k[2], !.start = k[3],
                         !.end = CalcEndTime(k[3], r.dur)]

\* PATCH /bookings/:id: the end and appointmentTime follow a new start only
Edited(r, k) ==
  IF k[3] = r.start
  THEN [r EXCEPT !.date = k[2]]
  ELSE [Moved(r, k) EXCEPT !.appt = <<k[2], k[3]>>]

\* the guest's update writes the columns of the request and no other
GuestEdited(r, k) == [r EXCEPT !.date = k[2], !.start = k[3]]

NoShow(r) == [r EXCEPT !.status = "done", !.noShow = TRUE]

\* one column after the UPDATE of a save: it is among the columns written when
\* its new value is not the one the save's own SELECT has seen
Column(now, seen, new) == IF new = seen THEN now ELSE new

\* row now after that UPDATE, whose SELECT saw row seen, with otp for otpAt
Updated(now, seen, new, otp) ==
  [status |-> Column(now.status, seen.status, new.status),
   barber |-> Column(now.barber, seen.barber, new.barber),
   date   |-> Column(now.date, seen.date, new.date),
   start  |-> Column(now.start, seen.start, new.start),
   end    |-> Column(now.end, seen.end, new.end),
   dur    |-> Column(now.dur, seen.dur, new.dur),
   appt   |-> Column(now.appt, seen.appt, new.appt),
   hold   |-> Column(now.hold, seen.hold, new.hold),
   otpAt  |-> otp,
   code   |-> Column(now.code, seen.code, new.code),
   noShow |-> Column(now.noShow, seen.noShow, new.noShow)]

\* what otpAt can be then: two verifications leave different timestamps, so
\* where both rows have one the column may be among those written or not
OtpColumn(now, seen, new) ==
  {Column(now, seen, new)} \cup (IF new THEN {TRUE} ELSE {})
=============================================================================
