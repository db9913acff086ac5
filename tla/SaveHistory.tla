----------------------------- MODULE SaveHistory -----------------------------
(***************************************************************************)
(* Bookings with a record of the saves that mixed columns.  A save decides *)
(* by its SELECT which columns its UPDATE writes; where another handler    *)
(* writes the row in between, the row ends up with some columns of one and *)
(* some of the other.  late and mixed only look on: RecordSaves never      *)
(* stops a step of Bookings, and no action of Bookings reads them.         *)
(***************************************************************************)
EXTENDS Bookings

VARIABLES late,     \* requests whose row was written since the SELECT of their save
          mixed     \* bookings of which a row mixed the columns of two writes

saveVars == <<rows, nextId, due, lock, holdKey, req, sweep, announced, late, mixed>>

\* request p is between the SELECT and the write of a save
BetweenCalls(p) == req[p].at \in Writes

\* in this step the row of booking i changes
Written(i) == rows'[i] # rows[i]

\* request p writes the columns its SELECT made it choose
Mixes(p) == \/ VerifySave(p) \/ ConfirmSave(p) \/ CancelSave(p)
            \/ MoveSave(p) \/ UpdateSave(p)

\* the record: who is late, and what a late save has written
RecordSaves ==
  /\ late' = {p \in Reqs : BetweenCalls(p) /\ req'[p] = req[p]
                            /\ (p \in late \/ Written(req[p].id))}
  /\ mixed' = mixed \cup {req[p].id : p \in {q \in late : Mixes(q)}}

SaveInit == Init /\ late = {} /\ mixed = {}

SaveNext == Next /\ RecordSaves

SaveSpec == SaveInit /\ [][SaveNext]_saveVars

FairSaveSpec == SaveSpec /\ Fairness
-----------------------------------------------------------------------------
SaveTypeOK == TypeOK /\ late \subseteq Reqs /\ mixed \subseteq Ids

\* A booking that waits for its customer has a deadline, or the cron never finds
\* it (expireStaleBookings asks for holdExpiresAt < now).  Only a save whose
\* columns mixed with another's leaves one without, however requests on the
\* booking overlap otherwise
DeadlineExplained == \A i \in Live \ mixed : WaitsWithDeadline(i)

\* No booking counts as verified or carries a code unless its phone number was
\* proved by an OTP, but for those whose columns mixed
PhoneExplained ==
  \A i \in Live \ mixed :
    rows[i].status = "otp_verified" \/ rows[i].code # 0 => rows[i].otpAt
=============================================================================
