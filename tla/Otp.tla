---------------------------------- MODULE Otp ----------------------------------
(***************************************************************************)
(* OtpService: the one-time codes of bookings and of guests' lookups, with *)
(* their counters of wrong tries and of resends, as keys of Redis.         *)
(*                                                                         *)
(* A key is a number and the ticks it has left; OTP_TTL is the life a key  *)
(* is given, in ticks.  The commands of one Promise.all leave on the one   *)
(* connection back to back, so other requests see both or none; when the   *)
(* connection breaks between them the first has run, the second has not,   *)
(* and the request fails.  Codes are numbered in the order they are sent:  *)
(* two codes never look alike here.                                        *)
(***************************************************************************)
EXTENDS Integers, FiniteSets

CONSTANTS BookingIds,      \* scopes of type booking
          Phones,          \* scopes of type lookup
          Reqs,            \* requests that can be in flight together
          OTP_TTL,         \* OTP_TTL_SEC, in ticks
          OTP_MAX_TRIES,
          OTP_MAX_RESEND,
          MaxCodes         \* bound on the codes ever sent to one scope

Scopes == BookingIds \cup Phones

ASSUME LimitAssumption ==
  /\ OTP_TTL \in Nat \ {0}
  /\ OTP_MAX_TRIES \in Nat \ {0}
  /\ OTP_MAX_RESEND \in Nat \ {0}
  /\ MaxCodes \in Nat

ASSUME ReqsAssumption == IsFiniteSet(Reqs)

VARIABLES otp,       \* otp:<scope>: the code
          tries,     \* otp:tries:<scope>
          resends,   \* otp:resend:<scope>
          issued,    \* codes sent to the scope so far
          req,       \* the requests in flight
          wrong,     \* wrong guesses answered, by the code they were held against
          accepted   \* the codes a verification was answered OK for

vars == <<otp, tries, resends, issued, req, wrong, accepted>>

Codes == 1..MaxCodes

\* a key that was incremented and never given a TTL stays
NoTtl == -1

Absent == [n |-> 0, left |-> 0]

Idle == [at |-> "idle", scope |-> 0, code |-> 0]

Init ==
  /\ otp = [s \in Scopes |-> Absent]
  /\ tries = [s \in Scopes |-> Absent]
  /\ resends = [s \in Scopes |-> Absent]
  /\ issued = [s \in Scopes |-> 0]
  /\ req = [p \in Reqs |-> Idle]
  /\ wrong = [s \in Scopes |-> [c \in Codes |-> 0]]
  /\ accepted = [s \in Scopes |-> {}]
-----------------------------------------------------------------------------
(* Redis *)

\* INCR keeps the TTL of its key, and gives a new key none
Incr(key) == [n |-> key.n + 1, left |-> IF key.n = 0 THEN NoTtl ELSE key.left]

\* (mutant of Older: a key that runs out is not removed)
OlderForEver(key) == [key EXCEPT !.left = @ - 1]

IncrExpire(key) == [n |-> key.n + 1, left |-> OTP_TTL]

Older(key) ==
  IF key.left > 1 THEN [key EXCEPT !.left = @ - 1]
  ELSE IF key.left = 1 THEN Absent ELSE key

Tick ==
  /\ otp' = [s \in Scopes |-> Older(otp[s])]
  /\ tries' = [s \in Scopes |-> Older(tries[s])]
  /\ resends' = [s \in Scopes |-> Older(resends[s])]
  /\ UNCHANGED <<issued, req, wrong, accepted>>
-----------------------------------------------------------------------------
Become(p, r) == req' = [req EXCEPT ![p] = r]

Respond(p) == Become(p, Idle)

\* send: SETEX of a new code, then DEL of the tries
StoreCode(s) ==
  /\ issued[s] < MaxCodes
  /\ issued' = [issued EXCEPT ![s] = @ + 1]
  /\ otp' = [otp EXCEPT ![s] = [n |-> issued[s] + 1, left |-> OTP_TTL]]
  /\ tries' \in {[tries EXCEPT ![s] = Absent], tries}
  /\ UNCHANGED <<resends, wrong, accepted>>

\* holdSlot sends a booking's first code, requestLookupOtp one whenever asked;
\* neither looks at a key first.  That a hold sends once only is not used
Send(s) == StoreCode(s) /\ UNCHANGED req

\* (mutant of VerifyRead: one try too many)
VerifyReadOneMore(p, s) ==
  /\ req[p].at = "idle"
  /\ tries[s].n <= OTP_MAX_TRIES
  /\ otp[s].n # 0
  /\ \E point \in {"right", "wrong"} :
       Become(p, [at |-> point, scope |-> s, code |-> otp[s].n])
  /\ UNCHANGED <<otp, tries, resends, issued, wrong, accepted>>

\* (mutant of VerifyRead: a refused try renews the lock)
VerifyReadRenews(p, s) ==
  /\ req[p].at = "idle"
  /\ IF tries[s].n >= OTP_MAX_TRIES
     THEN tries' = [tries EXCEPT ![s].left = OTP_TTL] /\ UNCHANGED req
     ELSE /\ otp[s].n # 0
          /\ \E point \in {"right", "wrong"} :
               Become(p, [at |-> point, scope |-> s, code |-> otp[s].n])
          /\ UNCHANGED tries
  /\ UNCHANGED <<otp, resends, issued, wrong, accepted>>

\* verify, up to the comparison; the guess is right or wrong
VerifyRead(p, s) ==
  /\ req[p].at = "idle"
  /\ tries[s].n < OTP_MAX_TRIES
  /\ otp[s].n # 0
  /\ \E point \in {"right", "wrong"} :
       Become(p, [at |-> point, scope |-> s, code |-> otp[s].n])
  /\ UNCHANGED <<otp, tries, resends, issued, wrong, accepted>>

\* INCR and EXPIRE of the tries, whatever code is stored by now
VerifyWrong(p) ==
  LET s == req[p].scope IN
  /\ req[p].at = "wrong"
  /\ \/ /\ tries' = [tries EXCEPT ![s] = IncrExpire(@)]
        /\ wrong' = [wrong EXCEPT ![s][req[p].code] = @ + 1]
     \/ /\ tries' = [tries EXCEPT ![s] = Incr(@)]
        /\ UNCHANGED wrong
  /\ Respond(p)
  /\ UNCHANGED <<otp, resends, issued, accepted>>

\* (mutant of VerifyRight: the code is not deleted)
VerifyRightKeepsCode(p) ==
  /\ req[p].at = "right"
  /\ tries' = [tries EXCEPT ![req[p].scope] = Absent]
  /\ accepted' = [accepted EXCEPT ![req[p].scope] = @ \cup {req[p].code}]
  /\ Respond(p)
  /\ UNCHANGED <<otp, resends, issued, wrong>>

\* DEL of the code, then of the tries, whatever code is stored by now
VerifyRight(p) ==
  LET s == req[p].scope IN
  /\ req[p].at = "right"
  /\ otp' = [otp EXCEPT ![s] = Absent]
  /\ \/ /\ tries' = [tries EXCEPT ![s] = Absent]
        /\ accepted' = [accepted EXCEPT ![s] = @ \cup {req[p].code}]
     \/ UNCHANGED <<tries, accepted>>
  /\ Respond(p)
  /\ UNCHANGED <<resends, issued, wrong>>

\* (mutant of ResendRead: the limit is not looked at)
ResendReadAlways(p, s) ==
  /\ req[p].at = "idle"
  /\ Become(p, [at |-> "count", scope |-> s, code |-> 0])
  /\ UNCHANGED <<otp, tries, resends, issued, wrong, accepted>>

\* resend
ResendRead(p, s) ==
  /\ req[p].at = "idle"
  /\ resends[s].n < OTP_MAX_RESEND
  /\ Become(p, [at |-> "count", scope |-> s, code |-> 0])
  /\ UNCHANGED <<otp, tries, resends, issued, wrong, accepted>>

ResendCount(p) ==
  LET s == req[p].scope IN
  /\ req[p].at = "count"
  /\ \/ /\ resends' = [resends EXCEPT ![s] = IncrExpire(@)]
        /\ Become(p, [req[p] EXCEPT !.at = "send"])
     \/ /\ resends' = [resends EXCEPT ![s] = Incr(@)]
        /\ Respond(p)
  /\ UNCHANGED <<otp, tries, issued, wrong, accepted>>

ResendSend(p) ==
  /\ req[p].at = "send"
  /\ StoreCode(req[p].scope)
  /\ Respond(p)

\* a call rejects before Redis does anything, or the process dies
Fail(p) ==
  /\ req[p].at # "idle"
  /\ Respond(p)
  /\ UNCHANGED <<otp, tries, resends, issued, wrong, accepted>>

Next ==
  \/ Tick
  \/ \E s \in Scopes : Send(s) \/ \E p \in Reqs : VerifyRead(p, s)
  \/ \E p \in Reqs : \/ \E s \in BookingIds : ResendRead(p, s)
                     \/ VerifyWrong(p) \/ VerifyRight(p)
                     \/ ResendCount(p) \/ ResendSend(p) \/ Fail(p)

Spec == Init /\ [][Next]_vars

\* time passes
FairSpec == Spec /\ WF_vars(Tick)
-----------------------------------------------------------------------------
Key == [n : Nat, left : NoTtl..OTP_TTL]

Request == {Idle}
  \cup [at : {"right", "wrong"}, scope : Scopes, code : Codes]
  \cup [at : {"count", "send"}, scope : BookingIds, code : {0}]

TypeOK ==
  /\ otp \in [Scopes -> [n : 0..MaxCodes, left : 0..OTP_TTL]]
  /\ tries \in [Scopes -> Key]
  /\ resends \in [Scopes -> Key]
  /\ issued \in [Scopes -> 0..MaxCodes]
  /\ wrong \in [Scopes -> [Codes -> Nat]]
  /\ accepted \in [Scopes -> SUBSET Codes]
  /\ req \in [Reqs -> Request]

\* A code is tried in vain no more often than OTP_MAX_TRIES says, but for the
\* guesses that were compared before the counter moved: the counter is never
\* lost while its code lives, not by a resend, a TTL or a failed command
GuessesBounded ==
  \A s \in Scopes, c \in Codes :
    wrong[s][c] <= OTP_MAX_TRIES - 1 + Cardinality(Reqs)

\* No more codes are sent again within one life of the counter than
\* OTP_MAX_RESEND says, but for the requests that read it together
ResendsBounded ==
  \A s \in Scopes : resends[s].n <= OTP_MAX_RESEND - 1 + Cardinality(Reqs)

\* A code somebody was let in with is gone: no later request gets in with it
AcceptedCodesGone == \A s \in Scopes : otp[s].n \notin accepted[s]

\* "OTP locked" does not last: the tries expire whoever goes on trying, unless
\* the EXPIRE was lost
LockoutEnds ==
  \A s \in Scopes :
    tries[s].n >= OTP_MAX_TRIES
    ~> tries[s].n < OTP_MAX_TRIES \/ tries[s].left = NoTtl

\* The keys keep the promise of OneTimeCode.  A right guess counts from the
\* moment the stored code was read: the commands that follow it change the keys
\* as they are by then
Stored == [s \in Scopes |-> otp[s].n]

Shown ==
  [p \in Reqs |-> IF req[p].at = "right" THEN {<<req[p].scope, req[p].code>>}
                                         ELSE {}]

OneTime == INSTANCE OneTimeCode
             WITH Guests <- Reqs, code <- Stored, last <- issued,
                  admitted <- accepted, seen <- Shown

ImplementsOneTimeCode == OneTime!Spec
=============================================================================
