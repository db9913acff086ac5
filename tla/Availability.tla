----------------------------- MODULE Availability -----------------------------
(***************************************************************************)
(* What the site offers before a hold is asked for: the free slots of      *)
(* BookingsQueryService.getAvailableSlots.  It reads the table of module   *)
(* Bookings by columns of its own: CONFIRMED rows by appointmentTime,      *)
(* where a hold asks SlotService for all occupying rows by bookingDate,    *)
(* slotStartTime and slotEndTime.  Starts stands for the half hours of the *)
(* working day that are still to come.                                     *)
(***************************************************************************)
EXTENDS Bookings

\* the bookings getAvailableSlots loads for barber b and day d
Listed(b, d) == {i \in Live : /\ rows[i].status = "confirmed"
                              /\ rows[i].barber = b
                              /\ rows[i].appt[1] = d}

\* (mutant of Busy: the start itself counts as free)
BusyAfterStart(i, s) ==
  s > rows[i].appt[2] /\ s < rows[i].appt[2] + rows[i].dur

\* isBusy: the time s falls into booking i
Busy(i, s) == s >= rows[i].appt[2] /\ s < rows[i].appt[2] + rows[i].dur

\* getAvailableSlots
Offered(b, d) == {s \in Starts : \A i \in Listed(b, d) : ~Busy(i, s)}
-----------------------------------------------------------------------------
\* a reschedule has left appointmentTime behind
LeftBehind(i) == rows[i].appt # <<rows[i].date, rows[i].start>>

\* The list and the hold read different columns.  A start that is offered
\* though a hold of it is refused is one of three: a booking there is not
\* confirmed (yet, or no longer), or begins later, or was moved
OffersExplained ==
  \A b \in Barbers, d \in Dates : \A s \in Offered(b, d), dur \in Durs :
    ~IsSlotAvailable(<<b, d, s>>, dur) =>
      \E i \in Occupants(b, d) :
        /\ Overlaps(s, s + dur, rows[i].start, rows[i].end)
        /\ \/ rows[i].status # "confirmed"
           \/ rows[i].start > s
           \/ LeftBehind(i)

\* And the other way round: a start that is not offered though a hold of it
\* would succeed is taken, in the list, by a booking that has moved away
HiddenExplained ==
  \A b \in Barbers, d \in Dates : \A s \in Starts \ Offered(b, d), dur \in Durs :
    IsSlotAvailable(<<b, d, s>>, dur) =>
      \E i \in Listed(b, d) : Busy(i, s) /\ LeftBehind(i)
=============================================================================
