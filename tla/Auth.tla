---------------------------------- MODULE Auth ---------------------------------
(***************************************************************************)
(* AuthService with LoginAttemptService and JwtStrategy: the failures      *)
(* counted by e-mail and by address and the locks they lead to, as keys of *)
(* Redis; the sessions: users.refresh_token, and the access tokens that a  *)
(* logout puts on the blacklist.                                           *)
(*                                                                         *)
(* A counter is a number and the ticks it has left, a lock the ticks it    *)
(* has left.  The commands of a pipeline run back to back; when the        *)
(* connection breaks, some of them have run, and fewer have been heard of. *)
(*                                                                         *)
(* bcrypt compares 72 bytes, and the first 72 bytes of a refresh token are *)
(* its header, the user's id and the start of the e-mail: the tokens of    *)
(* one user are all equal to it.  So of refresh_token only matters whether *)
(* it is set.  Access tokens do not touch each other: one is watched.      *)
(***************************************************************************)
EXTENDS Integers

CONSTANTS Emails, Ips,
          Reqs,              \* requests that can be in flight together
          EMAIL_MAX_FAILS, EMAIL_WINDOW, EMAIL_LOCK,
          IP_MAX_FAILS, IP_WINDOW, IP_LOCK,
          ACCESS_TTL,        \* expiresIn of an access token, in ticks
          BLACKLIST_TTL,
          MaxFails           \* bound on the failures in one counter

ASSUME LimitAssumption ==
  /\ {EMAIL_MAX_FAILS, EMAIL_WINDOW, IP_MAX_FAILS, IP_WINDOW} \subseteq Nat \ {0}
  /\ EMAIL_LOCK \in Nat /\ EMAIL_LOCK >= EMAIL_WINDOW
  /\ IP_LOCK \in Nat /\ IP_LOCK >= IP_WINDOW
  /\ ACCESS_TTL \in Nat /\ BLACKLIST_TTL \in Nat /\ BLACKLIST_TTL >= ACCESS_TTL
  /\ MaxFails \in Nat

ASSUME KeysAssumption == Emails \cap Ips = {}

VARIABLES emailFails,    \* login:fail:email:<email>
          emailLock,     \* login:lock:email:<email>
          ipFails,       \* login:fail:ip:<ip>
          ipLock,        \* login:lock:ip:<ip>
          role,          \* the rows of users: their role, by e-mail
          signedIn,      \* the e-mails whose refresh_token column is set
          holders,       \* the e-mails that were given tokens
          token,         \* the access token that is watched
          blacklist,     \* blacklist:at:<jti> of this token
          req,           \* the requests in flight
          lapsed,        \* the keys on which a command was lost
          loggedOut      \* a logout with the token was answered

counters == <<emailFails, ipFails>>

locks == <<emailLock, ipLock>>

sessions == <<signedIn, holders, token, blacklist, loggedOut>>

vars == <<counters, locks, role, sessions, req, lapsed>>

\* a counter that was incremented and never given a TTL stays
NoTtl == -1

Absent == [n |-> 0, left |-> 0]

Idle == [at |-> "idle"]

\* the watched token before it is issued
NoToken == [of |-> "nobody", left |-> -1]

Init ==
  /\ emailFails = [e \in Emails |-> Absent] /\ emailLock = [e \in Emails |-> 0]
  /\ ipFails = [i \in Ips |-> Absent] /\ ipLock = [i \in Ips |-> 0]
  /\ role \in [Emails -> {"none", "Admin", "other"}]
  /\ signedIn = {} /\ holders = {}
  /\ token = NoToken /\ blacklist = 0 /\ loggedOut = FALSE
  /\ req = [p \in Reqs |-> Idle]
  /\ lapsed = {}
-----------------------------------------------------------------------------
(* Redis *)

Incr(key) == [n |-> key.n + 1, left |-> IF key.n = 0 THEN NoTtl ELSE key.left]

\* INCR and EXPIRE, as far as they run
Count(key, window, commands) ==
  CASE commands <= 0 -> key
    [] commands = 1  -> Incr(key)
    [] OTHER         -> [n |-> key.n + 1, left |-> window]

Older(key) ==
  IF key.left > 1 THEN [key EXCEPT !.left = @ - 1]
  ELSE IF key.left = 1 THEN Absent ELSE key

\* (mutant of Shorter: a key that runs out is not removed)
ShorterForEver(left) == left - 1

Shorter(left) == IF left > 0 THEN left - 1 ELSE left

Tick ==
  /\ emailFails' = [e \in Emails |-> Older(emailFails[e])]
  /\ emailLock' = [e \in Emails |-> Shorter(emailLock[e])]
  /\ ipFails' = [i \in Ips |-> Older(ipFails[i])]
  /\ ipLock' = [i \in Ips |-> Shorter(ipLock[i])]
  /\ token' = [token EXCEPT !.left = Shorter(@)]
  /\ blacklist' = Shorter(blacklist)
  /\ UNCHANGED <<role, signedIn, holders, loggedOut, req, lapsed>>
-----------------------------------------------------------------------------
Become(p, r) == req' = [req EXCEPT ![p] = r]

Goto(p, at) == Become(p, [req[p] EXCEPT !.at = at])

Respond(p) == Become(p, Idle)

\* (mutant of AssertIp: a refused try renews the lock)
AssertIpRenews(p, e, i) ==
  /\ req[p].at = "idle"
  /\ IF ipLock[i] > 0
     THEN ipLock' = [ipLock EXCEPT ![i] = IP_LOCK] /\ UNCHANGED req
     ELSE Become(p, [at |-> "email", email |-> e, ip |-> i]) /\ UNCHANGED ipLock
  /\ UNCHANGED <<counters, emailLock, role, sessions, lapsed>>

\* assertAllowed: the lock of the address, then that of the e-mail
AssertIp(p, e, i) ==
  /\ req[p].at = "idle"
  /\ ipLock[i] = 0
  /\ Become(p, [at |-> "email", email |-> e, ip |-> i])
  /\ UNCHANGED <<counters, locks, role, sessions, lapsed>>

\* the password is wrong or nobody has the e-mail; it is right; or it is right
\* for a user who may not enter here, who is told so
Compare(p) ==
  LET r == role[req[p].email] IN
  \/ Goto(p, "wrong")
  \/ r = "Admin" /\ Goto(p, "right")
  \/ r = "other" /\ Respond(p)

AssertEmail(p) ==
  /\ req[p].at = "email"
  /\ IF emailLock[req[p].email] > 0 THEN Respond(p) ELSE Compare(p)
  /\ UNCHANGED <<counters, locks, role, sessions, lapsed>>

\* what recordFailure goes on with: the locks its two counters call for.  A
\* failure whose reply was lost counts as the first
Locks(mails, ips, e, i) ==
  IF ips >= IP_MAX_FAILS
  THEN [at |-> "lockIp", email |-> e, ip |-> i, both |-> mails >= EMAIL_MAX_FAILS]
  ELSE IF mails >= EMAIL_MAX_FAILS THEN [at |-> "lockEmail", email |-> e, ip |-> i]
  ELSE Idle

\* recordFailure: the pipeline of which ran commands ran, and heard replies came
RecordFailure(p) ==
  LET e == req[p].email
      i == req[p].ip
  IN \E ran \in 0..4 : \E heard \in 0..ran :
       /\ req[p].at = "wrong"
       /\ emailFails[e].n < MaxFails /\ ipFails[i].n < MaxFails
       /\ emailFails' = [emailFails EXCEPT ![e] = Count(@, EMAIL_WINDOW, ran)]
       /\ ipFails' = [ipFails EXCEPT ![i] = Count(@, IP_WINDOW, ran - 2)]
       /\ Become(p, Locks(IF heard >= 1 THEN emailFails[e].n + 1 ELSE 1,
                          IF heard >= 3 THEN ipFails[i].n + 1 ELSE 1, e, i))
       /\ lapsed' = IF heard = 4 THEN lapsed ELSE lapsed \cup {e, i}
       /\ UNCHANGED <<locks, role, sessions>>

LockIp(p) ==
  /\ req[p].at = "lockIp"
  /\ ipLock' = [ipLock EXCEPT ![req[p].ip] = IP_LOCK]
  /\ IF req[p].both
     THEN Become(p, [at |-> "lockEmail", email |-> req[p].email, ip |-> req[p].ip])
     ELSE Respond(p)
  /\ UNCHANGED <<counters, emailLock, role, sessions, lapsed>>

LockEmail(p) ==
  /\ req[p].at = "lockEmail"
  /\ emailLock' = [emailLock EXCEPT ![req[p].email] = EMAIL_LOCK]
  /\ Respond(p)
  /\ UNCHANGED <<counters, ipLock, role, sessions, lapsed>>

\* (mutant of RecordSuccess: the counter of the e-mail is not deleted)
RecordSuccessKeepsCount(p) ==
  /\ req[p].at = "right"
  /\ emailLock' = [emailLock EXCEPT ![req[p].email] = 0]
  /\ ipFails' = [ipFails EXCEPT ![req[p].ip] = Absent]
  /\ Become(p, [at |-> "save", email |-> req[p].email])
  /\ UNCHANGED <<emailFails, ipLock, role, sessions, lapsed>>

\* recordSuccess: one DEL of three keys; the lock of the address stays.  Then
\* issueTokens
RecordSuccess(p) ==
  /\ req[p].at = "right"
  /\ emailFails' = [emailFails EXCEPT ![req[p].email] = Absent]
  /\ emailLock' = [emailLock EXCEPT ![req[p].email] = 0]
  /\ ipFails' = [ipFails EXCEPT ![req[p].ip] = Absent]
  /\ Become(p, [at |-> "save", email |-> req[p].email])
  /\ UNCHANGED <<ipLock, role, sessions, lapsed>>
-----------------------------------------------------------------------------
(* Sessions *)

\* issueTokens came before, so the watched token may be some ticks old
SaveRefreshToken(p) ==
  LET e == req[p].email IN
  /\ req[p].at = "save"
  /\ signedIn' = signedIn \cup {e}
  /\ holders' = holders \cup {e}
  /\ \/ UNCHANGED token
     \/ token.left < 0 /\ token' \in [of : {e}, left : 1..ACCESS_TTL]
  /\ Respond(p)
  /\ UNCHANGED <<counters, locks, role, blacklist, loggedOut, lapsed>>

\* (mutant of RefreshRead: that refresh_token is set is not asked)
RefreshReadSignedOut(p, e) ==
  /\ req[p].at = "idle"
  /\ e \in holders
  /\ Become(p, [at |-> "save", email |-> e])
  /\ UNCHANGED <<counters, locks, role, sessions, lapsed>>

\* refreshToken, up to the comparison, with a token that has not expired
RefreshRead(p, e) ==
  /\ req[p].at = "idle"
  /\ e \in holders
  /\ e \in signedIn
  /\ Become(p, [at |-> "save", email |-> e])
  /\ UNCHANGED <<counters, locks, role, sessions, lapsed>>

\* JwtStrategy.validate before a logout with the watched token
LogoutWatched(p) ==
  /\ req[p].at = "idle"
  /\ token.left > 0
  /\ blacklist = 0
  /\ Become(p, [at |-> "blacklist", email |-> token.of])
  /\ UNCHANGED <<counters, locks, role, sessions, lapsed>>

\* the same with another one, whose key in the blacklist is another, too
LogoutOther(p, e) ==
  /\ req[p].at = "idle"
  /\ e \in holders
  /\ Become(p, [at |-> "clear", email |-> e, watched |-> FALSE])
  /\ UNCHANGED <<counters, locks, role, sessions, lapsed>>

\* (mutant of LogoutBlacklist: the key does not live as long as the token)
LogoutBlacklistBriefly(p) ==
  /\ req[p].at = "blacklist"
  /\ blacklist' = BLACKLIST_TTL - 1
  /\ Become(p, [at |-> "clear", email |-> req[p].email, watched |-> TRUE])
  /\ UNCHANGED <<counters, locks, role, signedIn, holders, token, loggedOut, lapsed>>

\* logout: SETEX of the blacklist, then NULL for the refresh token
LogoutBlacklist(p) ==
  /\ req[p].at = "blacklist"
  /\ blacklist' = BLACKLIST_TTL
  /\ Become(p, [at |-> "clear", email |-> req[p].email, watched |-> TRUE])
  /\ UNCHANGED <<counters, locks, role, signedIn, holders, token, loggedOut, lapsed>>

LogoutClear(p) ==
  /\ req[p].at = "clear"
  /\ signedIn' = signedIn \ {req[p].email}
  /\ loggedOut' = (loggedOut \/ req[p].watched)
  /\ Respond(p)
  /\ UNCHANGED <<counters, locks, role, holders, token, blacklist, lapsed>>

\* register: a user of any role unless the e-mail has one; the column is unique
RegisterRead(p, e) ==
  /\ req[p].at = "idle"
  /\ role[e] = "none"
  /\ Become(p, [at |-> "insert", email |-> e])
  /\ UNCHANGED <<counters, locks, role, sessions, lapsed>>

RegisterInsert(p) ==
  LET e == req[p].email IN
  /\ req[p].at = "insert"
  /\ IF role[e] = "none"
     THEN \E r \in {"Admin", "other"} : role' = [role EXCEPT ![e] = r]
     ELSE UNCHANGED role
  /\ Respond(p)
  /\ UNCHANGED <<counters, locks, sessions, lapsed>>
-----------------------------------------------------------------------------
\* the keys a request is about to lock
Pending(r) ==
  CASE r.at = "lockIp" -> {r.ip} \cup (IF r.both THEN {r.email} ELSE {})
    [] r.at = "lockEmail" -> {r.email}
    [] OTHER -> {}

\* a call rejects before it has any effect, or the process dies
Fail(p) ==
  /\ req[p].at # "idle"
  /\ lapsed' = lapsed \cup Pending(req[p])
  /\ Respond(p)
  /\ UNCHANGED <<counters, locks, role, sessions>>

Login(p) ==
  \/ \E e \in Emails, i \in Ips : AssertIp(p, e, i)
  \/ AssertEmail(p) \/ RecordFailure(p) \/ LockIp(p) \/ LockEmail(p)
  \/ RecordSuccess(p) \/ SaveRefreshToken(p)

Next ==
  \/ Tick
  \/ \E p \in Reqs :
       \/ Login(p)
       \/ \E e \in Emails : RefreshRead(p, e) \/ LogoutOther(p, e) \/ RegisterRead(p, e)
       \/ LogoutWatched(p) \/ LogoutBlacklist(p) \/ LogoutClear(p)
       \/ RegisterInsert(p) \/ Fail(p)

Spec == Init /\ [][Next]_vars

\* time passes
Fairness == WF_vars(Tick)
-----------------------------------------------------------------------------
Request ==
  {Idle}
  \cup [at : {"email", "wrong", "right", "lockEmail"}, email : Emails, ip : Ips]
  \cup [at : {"lockIp"}, email : Emails, ip : Ips, both : BOOLEAN]
  \cup [at : {"save", "blacklist", "insert"}, email : Emails]
  \cup [at : {"clear"}, email : Emails, watched : BOOLEAN]

TypeOK ==
  /\ emailFails \in [Emails -> [n : 0..MaxFails, left : NoTtl..EMAIL_WINDOW]]
  /\ emailLock \in [Emails -> 0..EMAIL_LOCK]
  /\ ipFails \in [Ips -> [n : 0..MaxFails, left : NoTtl..IP_WINDOW]]
  /\ ipLock \in [Ips -> 0..IP_LOCK]
  /\ role \in [Emails -> {"none", "Admin", "other"}]
  /\ signedIn \subseteq Emails
  /\ holders \subseteq Emails
  /\ token \in {NoToken} \cup [of : Emails, left : 0..ACCESS_TTL]
  /\ blacklist \in 0..BLACKLIST_TTL
  /\ loggedOut \in BOOLEAN
  /\ req \in [Reqs -> Request]
  /\ lapsed \subseteq Emails \cup Ips

Awaited(k) == \E p \in Reqs : k \in Pending(req[p])

EmailLocked(e) ==
  emailFails[e].n >= EMAIL_MAX_FAILS => emailLock[e] >= emailFails[e].left

IpLocked(i) == ipFails[i].n >= IP_MAX_FAILS => ipLock[i] >= ipFails[i].left

\* The lock of a full counter outlives it, through every order of failures,
\* successes and timeouts: when a lock runs out the failures are counted from
\* nothing.  Unless its command is still to come, or was lost
LocksOutlastCounters ==
  /\ \A e \in Emails : e \in lapsed \/ Awaited(e) \/ EmailLocked(e)
  /\ \A i \in Ips : i \in lapsed \/ Awaited(i) \/ IpLocked(i)

\* A token whose logout was answered is refused as long as it lives
LoggedOutRefused == loggedOut => blacklist >= token.left

\* Who is locked out is let try again, whatever is tried meanwhile
LockoutEnds ==
  /\ \A e \in Emails : emailLock[e] > 0 ~> emailLock[e] = 0
  /\ \A i \in Ips : ipLock[i] > 0 ~> ipLock[i] = 0
=============================================================================
