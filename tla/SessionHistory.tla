---------------------------- MODULE SessionHistory ----------------------------
(***************************************************************************)
(* Auth with a record of what the sessions rest on.  A logout clears       *)
(* refresh_token while a login or a refresh that was let in before is      *)
(* still to save a new one; the session is then back without a password.   *)
(* The record tells these sessions from the others.  It never stops a step *)
(* of Auth, and no action of Auth reads it.                                *)
(***************************************************************************)
EXTENDS Auth

VARIABLES earned,      \* the e-mails whose password was given since the last logout
          overtaken,   \* the requests that a logout came before
          revived      \* the e-mails whose session such a request has saved

historyVars == <<counters, locks, role, sessions, req, lapsed,
                 earned, overtaken, revived>>

\* request p was let in as e and is still to save a refresh token
LetIn(p, e) == req[p].at \in {"right", "save"} /\ req[p].email = e

\* request p ends the session of e
EndedBy(p, e) == LogoutClear(p) /\ req[p].email = e

\* request p has given the right password of e
ProvenBy(p, e) == AssertEmail(p) /\ LetIn(p, e)'

\* request p saves a refresh token for e
SavedBy(p, e) == SaveRefreshToken(p) /\ req[p].email = e

Ended == {e \in Emails : \E p \in Reqs : EndedBy(p, e)}

Proven == {e \in Emails : \E p \in Reqs : ProvenBy(p, e)}

\* a password makes up for what was overtaken before it
Record ==
  /\ earned' = (earned \ Ended) \cup Proven
  /\ overtaken' =
       {p \in overtaken : req'[p].at # "idle" /\ req[p].email \notin Proven}
       \cup {p \in Reqs : \E e \in Ended : LetIn(p, e)}
  /\ revived' = (revived \ (Ended \cup Proven))
                \cup {e \in Emails : \E p \in overtaken : SavedBy(p, e)}

HistoryInit == Init /\ earned = {} /\ overtaken = {} /\ revived = {}

HistoryNext == Next /\ Record

HistorySpec == HistoryInit /\ [][HistoryNext]_historyVars

FairHistorySpec == HistorySpec /\ Fairness
-----------------------------------------------------------------------------
\* Who is signed in has given the password after the last logout, or was
\* brought back by a request that was let in before it and saved after it; a
\* token that was logged out renews nothing (auth.service.ts:170)
SessionsEarned == signedIn \subseteq earned \cup revived
=============================================================================
