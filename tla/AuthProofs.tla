------------------------------ MODULE AuthProofs ------------------------------
(***************************************************************************)
(* The safety properties of Auth and of its record of sessions, for any    *)
(* number of e-mails, addresses and requests, any limits, and any TTLs as  *)
(* ordered as those of the code.                                           *)
(***************************************************************************)
EXTENDS SessionHistory, TLAPS

Counters(window) == [n : 0..MaxFails, left : NoTtl..window]

\* a logout with the watched token that has put it on the blacklist
Clearing(p) == req[p].at = "clear" /\ req[p].watched

\* from the moment its key is written, the blacklist outlives the token; and
\* nobody logs out with a token that was not issued
BlacklistLasts ==
  /\ loggedOut \/ (\E p \in Reqs : Clearing(p)) => blacklist >= token.left
  /\ token.left < 0 =>
       ~loggedOut /\ \A p \in Reqs : ~Clearing(p) /\ req[p].at # "blacklist"

IInv == TypeOK /\ LocksOutlastCounters /\ BlacklistLasts
-----------------------------------------------------------------------------
\* What a request in flight carries
LEMMA InFlight ==
  ASSUME TypeOK, NEW p \in Reqs
  PROVE  /\ req[p].at # "idle" => req[p].email \in Emails
         /\ req[p].at \in {"email", "wrong", "right", "lockEmail", "lockIp"}
              => req[p].ip \in Ips
         /\ req[p].at = "lockIp" => req[p].both \in BOOLEAN
         /\ req[p].at = "clear" => req[p].watched \in BOOLEAN
BY DEF TypeOK, Request, Idle

\* A counter stays one, however many of its two commands run
LEMMA CountedKey ==
  ASSUME NEW window \in Nat \ {0}, NEW key \in Counters(window),
         key.n < MaxFails, NEW commands \in Int
  PROVE  Count(key, window, commands) \in Counters(window)
BY LimitAssumption DEF Count, Incr, Counters, NoTtl

\* A tick keeps counters, locks and tokens what they are
LEMMA OlderKey ==
  ASSUME NEW window \in Nat \ {0}
  PROVE  /\ \A key \in Counters(window) : Older(key) \in Counters(window)
         /\ \A n \in Nat : \A left \in 0..n : Shorter(left) \in 0..n
         /\ Absent \in Counters(window)
         /\ Shorter(-1) = -1
BY LimitAssumption DEF Older, Absent, Counters, NoTtl, Shorter

\* The steps that move one request and nothing else but a lock or a token keep
\* requests well formed
LEMMA Moved ==
  ASSUME TypeOK, NEW p \in Reqs, NEW r \in Request, Become(p, r)
  PROVE  req' \in [Reqs -> Request]
BY DEF TypeOK, Become
-----------------------------------------------------------------------------
\* recordFailure keeps its two counters counters
LEMMA TypeFailure ==
  ASSUME TypeOK, NEW p \in Reqs, RecordFailure(p)
  PROVE  TypeOK'
<1> DEFINE e == req[p].email
           i == req[p].ip
           Step(ran, heard) ==
             /\ emailFails' = [emailFails EXCEPT ![e] = Count(@, EMAIL_WINDOW, ran)]
             /\ ipFails' = [ipFails EXCEPT ![i] = Count(@, IP_WINDOW, ran - 2)]
             /\ Become(p, Locks(IF heard >= 1 THEN emailFails[e].n + 1 ELSE 1,
                                IF heard >= 3 THEN ipFails[i].n + 1 ELSE 1, e, i))
             /\ lapsed' = IF heard = 4 THEN lapsed ELSE lapsed \cup {e, i}
<1>1. e \in Emails /\ i \in Ips
  BY InFlight DEF RecordFailure
<1>2. PICK ran \in 0..4 : \E heard \in 0..ran : Step(ran, heard)
  BY Zenon DEF RecordFailure
<1>2a. PICK heard \in 0..ran : Step(ran, heard)
  BY <1>2
<1>3. emailFails' \in [Emails -> Counters(EMAIL_WINDOW)]
  <2>1. emailFails[e] \in Counters(EMAIL_WINDOW) /\ emailFails[e].n < MaxFails
    BY <1>1 DEF RecordFailure, TypeOK, Counters
  <2>2. Count(emailFails[e], EMAIL_WINDOW, ran) \in Counters(EMAIL_WINDOW)
    BY <2>1, CountedKey, LimitAssumption
  <2> QED
    BY <1>1, <1>2a, <2>2 DEF TypeOK, Counters
<1>4. ipFails' \in [Ips -> Counters(IP_WINDOW)]
  <2>1. ipFails[i] \in Counters(IP_WINDOW) /\ ipFails[i].n < MaxFails
    BY <1>1 DEF RecordFailure, TypeOK, Counters
  <2>2. Count(ipFails[i], IP_WINDOW, ran - 2) \in Counters(IP_WINDOW)
    BY <2>1, CountedKey, LimitAssumption
  <2> QED
    BY <1>1, <1>2a, <2>2 DEF TypeOK, Counters
<1>5. \A m, n \in Int : Locks(m, n, e, i) \in Request
  BY <1>1, LimitAssumption DEF Locks, Request, Idle
<1>6. emailFails[e].n \in Int /\ ipFails[i].n \in Int
  BY <1>1 DEF TypeOK
<1>7. req' \in [Reqs -> Request]
  BY <1>2a, <1>5, <1>6, Moved
<1> QED
  BY <1>1, <1>2a, <1>3, <1>4, <1>7 DEF RecordFailure, TypeOK, Counters, locks, sessions

\* Every variable keeps its type through every operation of AuthService
LEMMA TypeStep ==
  ASSUME TypeOK, [Next]_vars
  PROVE  TypeOK'
<1> USE DEF Respond, counters, locks, sessions
<1>a. Idle \in Request
  BY DEF Request
<1>1. CASE Tick
  <2>1. /\ emailFails' \in [Emails -> Counters(EMAIL_WINDOW)]
        /\ ipFails' \in [Ips -> Counters(IP_WINDOW)]
    BY <1>1, OlderKey, LimitAssumption DEF Tick, TypeOK, Counters
  <2>2. emailLock' \in [Emails -> 0..EMAIL_LOCK] /\ ipLock' \in [Ips -> 0..IP_LOCK]
    BY <1>1, OlderKey, LimitAssumption DEF Tick, TypeOK
  <2>3. token' \in {NoToken} \cup [of : Emails, left : 0..ACCESS_TTL]
    BY <1>1, OlderKey, LimitAssumption DEF Tick, TypeOK, NoToken
  <2>4. blacklist' \in 0..BLACKLIST_TTL
    BY <1>1, OlderKey, LimitAssumption DEF Tick, TypeOK
  <2> QED
    BY <1>1, <2>1, <2>2, <2>3, <2>4 DEF Tick, TypeOK, Counters
<1>2. ASSUME NEW p \in Reqs, Login(p)
      PROVE  TypeOK'
  <2>1. ASSUME NEW e \in Emails, NEW i \in Ips, AssertIp(p, e, i)
        PROVE  TypeOK'
    <3>1. [at |-> "email", email |-> e, ip |-> i] \in Request
      BY DEF Request
    <3> QED
      BY <2>1, <3>1, Moved DEF AssertIp, TypeOK
  <2>2. CASE AssertEmail(p)
    <3>1. req[p] \in [at : {"email"}, email : Emails, ip : Ips]
      BY <2>2 DEF AssertEmail, TypeOK, Request, Idle
    <3>2. /\ [req[p] EXCEPT !.at = "wrong"] \in Request
          /\ [req[p] EXCEPT !.at = "right"] \in Request
      BY <3>1 DEF Request
    <3>3. req' \in [Reqs -> Request]
      BY <1>a, <2>2, <3>2, Moved DEF AssertEmail, Compare, Goto
    <3> QED
      BY <2>2, <3>3 DEF AssertEmail, TypeOK
  <2>3. CASE RecordFailure(p)
    BY <2>3, TypeFailure
  <2>4. CASE LockIp(p)
    <3>1. req[p].email \in Emails /\ req[p].ip \in Ips
      BY <2>4, InFlight DEF LockIp
    <3>2. [at |-> "lockEmail", email |-> req[p].email, ip |-> req[p].ip] \in Request
      BY <3>1 DEF Request
    <3>3. req' \in [Reqs -> Request]
      BY <1>a, <2>4, <3>2, Moved DEF LockIp
    <3> QED
      BY <2>4, <3>1, <3>3, LimitAssumption DEF LockIp, TypeOK
  <2>5. CASE LockEmail(p)
    BY <1>a, <2>5, InFlight, Moved, LimitAssumption DEF LockEmail, TypeOK
  <2>6. CASE RecordSuccess(p)
    <3>1. req[p].email \in Emails
      BY <2>6, InFlight DEF RecordSuccess
    <3>2. [at |-> "save", email |-> req[p].email] \in Request
      BY <3>1 DEF Request
    <3>3. req' \in [Reqs -> Request]
      BY <2>6, <3>2, Moved DEF RecordSuccess
    <3>4. emailFails' \in [Emails -> Counters(EMAIL_WINDOW)]
      BY <2>6, OlderKey, LimitAssumption DEF RecordSuccess, TypeOK, Counters
    <3>5. ipFails' \in [Ips -> Counters(IP_WINDOW)]
      BY <2>6, OlderKey, LimitAssumption DEF RecordSuccess, TypeOK, Counters
    <3>6. emailLock' \in [Emails -> 0..EMAIL_LOCK]
      <4>1. 0 \in 0..EMAIL_LOCK
        BY LimitAssumption
      <4> QED
        BY <2>6, <4>1 DEF RecordSuccess, TypeOK
    <3> QED
      BY <2>6, <3>3, <3>4, <3>5, <3>6 DEF RecordSuccess, TypeOK, Counters
  <2>7. CASE SaveRefreshToken(p)
    <3>1. req[p].email \in Emails
      BY <2>7, InFlight DEF SaveRefreshToken
    <3>2. req' \in [Reqs -> Request]
      BY <1>a, <2>7, Moved DEF SaveRefreshToken
    <3> QED
      BY <2>7, <3>1, <3>2 DEF SaveRefreshToken, TypeOK
  <2> QED
    BY <1>2, <2>1, <2>2, <2>3, <2>4, <2>5, <2>6, <2>7 DEF Login
<1>3. ASSUME NEW p \in Reqs, NEW e \in Emails,
             RefreshRead(p, e) \/ LogoutOther(p, e) \/ RegisterRead(p, e)
      PROVE  TypeOK'
  <2>1. /\ [at |-> "save", email |-> e] \in Request
        /\ [at |-> "clear", email |-> e, watched |-> FALSE] \in Request
        /\ [at |-> "insert", email |-> e] \in Request
    BY DEF Request
  <2>2. req' \in [Reqs -> Request]
    BY <1>3, <2>1, Moved DEF RefreshRead, LogoutOther, RegisterRead
  <2> QED
    BY <1>3, <2>2 DEF RefreshRead, LogoutOther, RegisterRead, TypeOK
<1>4. ASSUME NEW p \in Reqs, LogoutWatched(p)
      PROVE  TypeOK'
  <2>1. token.of \in Emails
    BY <1>4 DEF LogoutWatched, TypeOK, NoToken
  <2>2. [at |-> "blacklist", email |-> token.of] \in Request
    BY <2>1 DEF Request
  <2> QED
    BY <1>4, <2>2, Moved DEF LogoutWatched, TypeOK
<1>5. ASSUME NEW p \in Reqs, LogoutBlacklist(p)
      PROVE  TypeOK'
  <2>1. [at |-> "clear", email |-> req[p].email, watched |-> TRUE] \in Request
    BY <1>5, InFlight DEF LogoutBlacklist, Request
  <2> QED
    BY <1>5, <2>1, Moved, LimitAssumption DEF LogoutBlacklist, TypeOK
<1>6. ASSUME NEW p \in Reqs, LogoutClear(p)
      PROVE  TypeOK'
  <2>1. req' \in [Reqs -> Request]
    BY <1>a, <1>6, Moved DEF LogoutClear
  <2> QED
    BY <1>6, <2>1, InFlight DEF LogoutClear, TypeOK
<1>7. ASSUME NEW p \in Reqs, RegisterInsert(p)
      PROVE  TypeOK'
  <2>1. req' \in [Reqs -> Request]
    BY <1>a, <1>7, Moved DEF RegisterInsert
  <2> QED
    BY <1>7, <2>1 DEF RegisterInsert, TypeOK
<1>8. ASSUME NEW p \in Reqs, Fail(p)
      PROVE  TypeOK'
  <2>1. req' \in [Reqs -> Request]
    BY <1>a, <1>8, Moved DEF Fail
  <2>2. Pending(req[p]) \subseteq Emails \cup Ips
    BY InFlight DEF Pending
  <2> QED
    BY <1>8, <2>1, <2>2 DEF Fail, TypeOK
<1>9. CASE UNCHANGED vars
  BY <1>9 DEF vars, TypeOK
<1> QED
  BY <1>1, <1>2, <1>3, <1>4, <1>5, <1>6, <1>7, <1>8, <1>9 DEF Next
-----------------------------------------------------------------------------
\* A request that was about to lock nothing takes no promise back
LEMMA AwaitedKept ==
  ASSUME TypeOK, NEW p \in Reqs, NEW r, Become(p, r), NEW k,
         Awaited(k), k \notin Pending(req[p]) \/ k \in Pending(r)
  PROVE  Awaited(k)'
<1>1. PICK q \in Reqs : k \in Pending(req[q])
  BY DEF Awaited
<1>2. req' = [req EXCEPT ![p] = r]
  BY DEF Become
<1>3. CASE q = p
  <2>1. req'[p] = r
    BY <1>2 DEF TypeOK
  <2> QED
    BY <1>1, <1>3, <2>1 DEF Awaited
<1>4. CASE q # p
  <2>1. req'[q] = req[q]
    BY <1>2, <1>4 DEF TypeOK
  <2> QED
    BY <1>1, <2>1 DEF Awaited
<1> QED
  BY <1>3, <1>4

\* A promise newly made is one
LEMMA AwaitedMade ==
  ASSUME TypeOK, NEW p \in Reqs, NEW r, Become(p, r), NEW k \in Pending(r)
  PROVE  Awaited(k)'
<1>1. req'[p] = r
  BY DEF Become, TypeOK
<1> QED
  BY <1>1 DEF Awaited

\* A step that touches no counter and no lock, of a request that was about to
\* lock nothing
LEMMA LocksUntouched ==
  ASSUME TypeOK, LocksOutlastCounters, UNCHANGED <<counters, locks, lapsed>>,
         NEW p \in Reqs, Pending(req[p]) = {}, NEW r, Become(p, r)
  PROVE  LocksOutlastCounters'
<1>1. \A k : Awaited(k) => Awaited(k)'
  BY AwaitedKept
<1> QED
  BY <1>1 DEF LocksOutlastCounters, EmailLocked, IpLocked, counters, locks

\* While the counters run out with time, their locks run out no earlier
LEMMA LocksTick ==
  ASSUME TypeOK, LocksOutlastCounters, Tick
  PROVE  LocksOutlastCounters'
<1>1. \A k : Awaited(k)' <=> Awaited(k)
  BY DEF Tick, Awaited
<1>2. ASSUME NEW e \in Emails, EmailLocked(e)
      PROVE  EmailLocked(e)'
  <2>1. /\ emailFails[e] \in Counters(EMAIL_WINDOW)
        /\ emailLock[e] \in Nat
        /\ emailFails'[e] = Older(emailFails[e])
        /\ emailLock'[e] = Shorter(emailLock[e])
    BY LimitAssumption DEF Tick, TypeOK, Counters
  <2> QED
    BY <1>2, <2>1, LimitAssumption
    DEF EmailLocked, Older, Shorter, Absent, Counters, NoTtl
<1>3. ASSUME NEW i \in Ips, IpLocked(i)
      PROVE  IpLocked(i)'
  <2>1. /\ ipFails[i] \in Counters(IP_WINDOW)
        /\ ipLock[i] \in Nat
        /\ ipFails'[i] = Older(ipFails[i])
        /\ ipLock'[i] = Shorter(ipLock[i])
    BY LimitAssumption DEF Tick, TypeOK, Counters
  <2> QED
    BY <1>3, <2>1, LimitAssumption
    DEF IpLocked, Older, Shorter, Absent, Counters, NoTtl
<1>4. UNCHANGED lapsed
  BY DEF Tick
<1> QED
  BY <1>1, <1>2, <1>3, <1>4 DEF LocksOutlastCounters

\* A failure that fills a counter goes on to lock, or its reply was lost
LEMMA LocksFailure ==
  ASSUME TypeOK, LocksOutlastCounters, NEW p \in Reqs, RecordFailure(p)
  PROVE  LocksOutlastCounters'
<1>1. PICK e \in Emails, i \in Ips : e = req[p].email /\ i = req[p].ip
  BY InFlight DEF RecordFailure
<1>1a. UNCHANGED locks /\ Pending(req[p]) = {}
  BY DEF RecordFailure, Pending
<1> DEFINE mails == emailFails[e].n + 1
           ips == ipFails[i].n + 1
           Step(ran, heard) ==
             /\ emailFails' = [emailFails EXCEPT ![e] = Count(@, EMAIL_WINDOW, ran)]
             /\ ipFails' = [ipFails EXCEPT ![i] = Count(@, IP_WINDOW, ran - 2)]
             /\ Become(p, Locks(IF heard >= 1 THEN mails ELSE 1,
                                IF heard >= 3 THEN ips ELSE 1, e, i))
             /\ lapsed' = IF heard = 4 THEN lapsed ELSE lapsed \cup {e, i}
<1>2. PICK ran \in 0..4 : \E heard \in 0..ran : Step(ran, heard)
  BY <1>1, Zenon DEF RecordFailure
<1>3. PICK heard \in 0..ran : Step(ran, heard)
  BY <1>2
<1>4. \A k : Awaited(k) => Awaited(k)'
  BY <1>1a, <1>3, AwaitedKept
<1>5. mails \in Nat /\ ips \in Nat
  BY <1>1 DEF TypeOK
<1>6. heard = 4 => ran = 4
  OBVIOUS
<1>7. heard = 4 => /\ emailFails'[e].n = mails
                   /\ ipFails'[i].n = ips
                   /\ Become(p, Locks(mails, ips, e, i))
  BY <1>1, <1>3, <1>6 DEF TypeOK, Count
<1>8. ASSUME heard = 4, mails >= EMAIL_MAX_FAILS
      PROVE  Awaited(e)'
  <2>1. e \in Pending(Locks(mails, ips, e, i))
    BY <1>8 DEF Pending, Locks
  <2> QED
    BY <1>7, <1>8, <2>1, AwaitedMade
<1>9. ASSUME heard = 4, ips >= IP_MAX_FAILS
      PROVE  Awaited(i)'
  <2>1. i \in Pending(Locks(mails, ips, e, i))
    BY <1>9 DEF Pending, Locks
  <2> QED
    BY <1>7, <1>9, <2>1, AwaitedMade
<1>10. ASSUME NEW f \in Emails
       PROVE  f \in lapsed' \/ Awaited(f)' \/ EmailLocked(f)'
  <2>1. CASE f = e
    BY <1>3, <1>7, <1>8, <2>1 DEF EmailLocked
  <2>2. CASE f # e
    <3>1. emailFails'[f] = emailFails[f] /\ emailLock' = emailLock
      BY <1>1a, <1>3, <2>2 DEF TypeOK, locks
    <3>2. lapsed \subseteq lapsed'
      BY <1>3
    <3> QED
      BY <1>4, <3>1, <3>2 DEF LocksOutlastCounters, EmailLocked
  <2> QED
    BY <2>1, <2>2
<1>11. ASSUME NEW j \in Ips
       PROVE  j \in lapsed' \/ Awaited(j)' \/ IpLocked(j)'
  <2>1. CASE j = i
    BY <1>3, <1>7, <1>9, <2>1 DEF IpLocked
  <2>2. CASE j # i
    <3>1. ipFails'[j] = ipFails[j] /\ ipLock' = ipLock
      BY <1>1a, <1>3, <2>2 DEF TypeOK, locks
    <3>2. lapsed \subseteq lapsed'
      BY <1>3
    <3> QED
      BY <1>4, <3>1, <3>2 DEF LocksOutlastCounters, IpLocked
  <2> QED
    BY <2>1, <2>2
<1> QED
  BY <1>10, <1>11 DEF LocksOutlastCounters

\* A new lock outlives the counter it is for
LEMMA LocksLock ==
  ASSUME TypeOK, LocksOutlastCounters, NEW p \in Reqs, LockIp(p) \/ LockEmail(p)
  PROVE  LocksOutlastCounters'
<1>1. PICK e \in Emails, i \in Ips : e = req[p].email /\ i = req[p].ip
  BY InFlight DEF LockIp, LockEmail
<1>1a. UNCHANGED <<counters, lapsed>>
  BY DEF LockIp, LockEmail, counters
<1>2. \A f \in Emails : emailFails[f].left \in NoTtl..EMAIL_WINDOW
  BY DEF TypeOK
<1>3. \A j \in Ips : ipFails[j].left \in NoTtl..IP_WINDOW
  BY DEF TypeOK
<1>4. CASE LockIp(p)
  <2>1. PICK r : Become(p, r) /\ (req[p].both => r.at = "lockEmail" /\ r.email = e)
    <3>1. CASE req[p].both
      BY <1>1, <1>4, <3>1 DEF LockIp
    <3>2. CASE ~req[p].both
      BY <1>4, <3>2 DEF LockIp, Respond
    <3> QED
      BY <3>1, <3>2
  <2>2. \A f \in Emails : Awaited(f) => Awaited(f)'
    <3>1. \A f \in Emails : f \in Pending(req[p]) => f \in Pending(r)
      BY <1>1, <1>4, <2>1, KeysAssumption DEF LockIp, Pending
    <3> QED
      BY <2>1, <3>1, AwaitedKept
  <2>3. \A j \in Ips : j # i /\ Awaited(j) => Awaited(j)'
    <3>1. \A j \in Ips : j # i => j \notin Pending(req[p])
      BY <1>1, <1>4, KeysAssumption DEF LockIp, Pending
    <3> QED
      BY <2>1, <3>1, AwaitedKept
  <2>4. IpLocked(i)'
    <3>1. ipLock'[i] = IP_LOCK
      BY <1>1, <1>4 DEF LockIp, TypeOK
    <3>2. ipFails'[i].left \in NoTtl..IP_WINDOW
      BY <1>1a, <1>3 DEF counters
    <3> QED
      BY <3>1, <3>2, LimitAssumption DEF IpLocked, NoTtl
  <2>5. \A j \in Ips : j # i => ipLock'[j] = ipLock[j]
    BY <1>1, <1>4 DEF LockIp, TypeOK
  <2>6. UNCHANGED emailLock
    BY <1>4 DEF LockIp
  <2> QED
    BY <1>1a, <2>2, <2>3, <2>4, <2>5, <2>6
    DEF LocksOutlastCounters, EmailLocked, IpLocked, counters
<1>5. CASE LockEmail(p)
  <2>1. Become(p, Idle)
    BY <1>5 DEF LockEmail, Respond
  <2>2. \A k : k # e /\ Awaited(k) => Awaited(k)'
    <3>1. Pending(req[p]) = {e}
      BY <1>1, <1>5 DEF LockEmail, Pending
    <3> QED
      BY <2>1, <3>1, AwaitedKept
  <2>3. EmailLocked(e)'
    <3>1. emailLock'[e] = EMAIL_LOCK
      BY <1>1, <1>5 DEF LockEmail, TypeOK
    <3>2. emailFails'[e].left \in NoTtl..EMAIL_WINDOW
      BY <1>1a, <1>2 DEF counters
    <3> QED
      BY <3>1, <3>2, LimitAssumption DEF EmailLocked, NoTtl
  <2>4. \A f \in Emails : f # e => emailLock'[f] = emailLock[f]
    BY <1>1, <1>5 DEF LockEmail, TypeOK
  <2>5. \A j \in Ips : j # e
    BY <1>1, KeysAssumption
  <2>6. UNCHANGED ipLock
    BY <1>5 DEF LockEmail
  <2> QED
    BY <1>1a, <2>2, <2>3, <2>4, <2>5, <2>6
    DEF LocksOutlastCounters, EmailLocked, IpLocked, counters
<1> QED
  BY <1>4, <1>5

\* A success deletes the counter of the e-mail together with its lock
LEMMA LocksSuccess ==
  ASSUME TypeOK, LocksOutlastCounters, NEW p \in Reqs, RecordSuccess(p)
  PROVE  LocksOutlastCounters'
<1>1. PICK e \in Emails, i \in Ips : e = req[p].email /\ i = req[p].ip
  BY InFlight DEF RecordSuccess
<1>2. Pending(req[p]) = {} /\ \E r : Become(p, r)
  BY DEF RecordSuccess, Pending
<1>3. \A k : Awaited(k) => Awaited(k)'
  BY <1>2, AwaitedKept
<1>4. emailFails'[e].n = 0 /\ ipFails'[i].n = 0
  BY <1>1 DEF RecordSuccess, TypeOK, Absent
<1>5. \A f \in Emails : f # e =>
        emailFails'[f] = emailFails[f] /\ emailLock'[f] = emailLock[f]
  BY <1>1 DEF RecordSuccess, TypeOK
<1>6. \A j \in Ips : j # i => ipFails'[j] = ipFails[j]
  BY <1>1 DEF RecordSuccess, TypeOK
<1>7. UNCHANGED <<ipLock, lapsed>>
  BY DEF RecordSuccess
<1>8. EmailLocked(e)' /\ IpLocked(i)'
  BY <1>4, LimitAssumption DEF EmailLocked, IpLocked
<1> QED
  BY <1>3, <1>5, <1>6, <1>7, <1>8 DEF LocksOutlastCounters, EmailLocked, IpLocked

\* A request that gives up a lock leaves its key with the lapsed ones
LEMMA LocksFail ==
  ASSUME TypeOK, LocksOutlastCounters, NEW p \in Reqs, Fail(p)
  PROVE  LocksOutlastCounters'
<1>1. Become(p, Idle) /\ lapsed' = lapsed \cup Pending(req[p])
  BY DEF Fail, Respond
<1>2. \A k : Awaited(k) => Awaited(k)' \/ k \in lapsed'
  BY <1>1, AwaitedKept
<1> QED
  BY <1>1, <1>2 DEF Fail, LocksOutlastCounters, EmailLocked, IpLocked, counters, locks

LEMMA LocksStep ==
  ASSUME TypeOK, LocksOutlastCounters, [Next]_vars
  PROVE  LocksOutlastCounters'
<1>1. CASE Tick
  BY <1>1, LocksTick
<1>2. ASSUME NEW p \in Reqs, Login(p)
      PROVE  LocksOutlastCounters'
  <2>1. ASSUME NEW e \in Emails, NEW i \in Ips, AssertIp(p, e, i)
        PROVE  LocksOutlastCounters'
    BY <2>1, LocksUntouched DEF AssertIp, Pending
  <2>2. CASE AssertEmail(p)
    BY <2>2, LocksUntouched DEF AssertEmail, Compare, Goto, Respond, Pending
  <2>3. CASE SaveRefreshToken(p)
    BY <2>3, LocksUntouched DEF SaveRefreshToken, Respond, Pending
  <2> QED
    BY <1>2, <2>1, <2>2, <2>3, LocksFailure, LocksLock, LocksSuccess DEF Login
<1>3. ASSUME NEW p \in Reqs, NEW e \in Emails,
             RefreshRead(p, e) \/ LogoutOther(p, e) \/ RegisterRead(p, e)
      PROVE  LocksOutlastCounters'
  BY <1>3, LocksUntouched DEF RefreshRead, LogoutOther, RegisterRead, Pending
<1>4. ASSUME NEW p \in Reqs, LogoutWatched(p) \/ LogoutBlacklist(p) \/ LogoutClear(p)
      PROVE  LocksOutlastCounters'
  BY <1>4, LocksUntouched
  DEF LogoutWatched, LogoutBlacklist, LogoutClear, Respond, Pending
<1>5. ASSUME NEW p \in Reqs, RegisterInsert(p)
      PROVE  LocksOutlastCounters'
  BY <1>5, LocksUntouched DEF RegisterInsert, Respond, Pending
<1>6. ASSUME NEW p \in Reqs, Fail(p)
      PROVE  LocksOutlastCounters'
  BY <1>6, LocksFail
<1>7. CASE UNCHANGED vars
  BY <1>7 DEF vars, counters, locks, LocksOutlastCounters, EmailLocked, IpLocked,
              Awaited, Pending
<1> QED
  BY <1>1, <1>2, <1>3, <1>4, <1>5, <1>6, <1>7 DEF Next
-----------------------------------------------------------------------------
\* A step that leaves the token and the blacklist alone, and starts no logout
LEMMA BlacklistUntouched ==
  ASSUME TypeOK, BlacklistLasts, UNCHANGED <<token, blacklist, loggedOut>>,
         NEW p \in Reqs, NEW r, Become(p, r),
         ~(r.at = "clear" /\ r.watched), r.at # "blacklist"
  PROVE  BlacklistLasts'
<1>1. \A q \in Reqs : req'[q] = req[q] \/ (q = p /\ req'[q] = r)
  BY DEF Become, TypeOK
<1> QED
  BY <1>1 DEF BlacklistLasts, Clearing

LEMMA BlacklistStep ==
  ASSUME TypeOK, BlacklistLasts, [Next]_vars
  PROVE  BlacklistLasts'
<1>1. CASE Tick
  <2>1. blacklist \in Nat /\ token.left \in Int
    BY LimitAssumption DEF TypeOK, NoToken
  <2>2. blacklist' = Shorter(blacklist) /\ token'.left = Shorter(token.left)
    BY <1>1 DEF Tick, TypeOK, NoToken
  <2> QED
    BY <1>1, <2>1, <2>2 DEF Tick, BlacklistLasts, Clearing, Shorter
<1>2. ASSUME NEW p \in Reqs, Login(p)
      PROVE  BlacklistLasts'
  <2>1. ASSUME NEW e \in Emails, NEW i \in Ips, AssertIp(p, e, i)
        PROVE  BlacklistLasts'
    BY <2>1, BlacklistUntouched DEF AssertIp, sessions
  <2>2. CASE AssertEmail(p)
    <3>1. req[p] \in [at : {"email"}, email : Emails, ip : Ips]
      BY <2>2 DEF AssertEmail, TypeOK, Request, Idle
    <3>2. \A x : [req[p] EXCEPT !.at = x].at = x
      BY <3>1
    <3> QED
      BY <2>2, <3>2, BlacklistUntouched
      DEF AssertEmail, Compare, Goto, Respond, Idle, sessions
  <2>3. CASE RecordFailure(p)
    <3>1. \A m, n, e, i : Locks(m, n, e, i).at \in {"lockIp", "lockEmail", "idle"}
      BY DEF Locks, Idle
    <3>2. PICK r : Become(p, r) /\ r.at \in {"lockIp", "lockEmail", "idle"}
      BY <2>3, <3>1 DEF RecordFailure
    <3> QED
      BY <2>3, <3>2, BlacklistUntouched DEF RecordFailure, sessions
  <2>4. CASE LockIp(p) \/ LockEmail(p) \/ RecordSuccess(p)
    BY <2>4, BlacklistUntouched
    DEF LockIp, LockEmail, RecordSuccess, Respond, Idle, sessions
  <2>5. CASE SaveRefreshToken(p)
    <3>1. \A q \in Reqs : req'[q] = req[q] \/ (q = p /\ req'[q] = Idle)
      BY <2>5 DEF SaveRefreshToken, Respond, Become, TypeOK
    <3>2. token' = token \/ (token.left < 0 /\ token'.left \in 1..ACCESS_TTL)
      BY <2>5 DEF SaveRefreshToken
    <3> QED
      BY <2>5, <3>1, <3>2, LimitAssumption
      DEF SaveRefreshToken, BlacklistLasts, Clearing, Idle
  <2> QED
    BY <1>2, <2>1, <2>2, <2>3, <2>4, <2>5 DEF Login
<1>3. ASSUME NEW p \in Reqs, NEW e \in Emails,
             RefreshRead(p, e) \/ LogoutOther(p, e) \/ RegisterRead(p, e)
      PROVE  BlacklistLasts'
  BY <1>3, BlacklistUntouched DEF RefreshRead, LogoutOther, RegisterRead, sessions
<1>4. ASSUME NEW p \in Reqs, LogoutWatched(p)
      PROVE  BlacklistLasts'
  <2>1. \A q \in Reqs : req'[q] = req[q] \/ (q = p /\ req'[q].at = "blacklist")
    BY <1>4 DEF LogoutWatched, Become, TypeOK
  <2>2. token.left > 0 /\ token.left \in Int
    BY <1>4, LimitAssumption DEF LogoutWatched, TypeOK, NoToken
  <2> QED
    BY <1>4, <2>1, <2>2 DEF LogoutWatched, BlacklistLasts, Clearing, sessions
<1>5. ASSUME NEW p \in Reqs, LogoutBlacklist(p)
      PROVE  BlacklistLasts'
  <2>1. blacklist' >= token.left /\ token.left \in Int /\ UNCHANGED token
    BY <1>5, LimitAssumption DEF LogoutBlacklist, TypeOK, NoToken
  <2>2. ~(token.left < 0)
    BY <1>5 DEF LogoutBlacklist, BlacklistLasts
  <2> QED
    BY <2>1, <2>2 DEF BlacklistLasts
<1>6. ASSUME NEW p \in Reqs, LogoutClear(p)
      PROVE  BlacklistLasts'
  <2>1. \A q \in Reqs : req'[q] = req[q] \/ (q = p /\ req'[q] = Idle)
    BY <1>6 DEF LogoutClear, Respond, Become, TypeOK
  <2>2. loggedOut' => loggedOut \/ Clearing(p)
    BY <1>6 DEF LogoutClear, Clearing
  <2> QED
    BY <1>6, <2>1, <2>2 DEF LogoutClear, BlacklistLasts, Clearing, Idle
<1>7. ASSUME NEW p \in Reqs, RegisterInsert(p) \/ Fail(p)
      PROVE  BlacklistLasts'
  BY <1>7, BlacklistUntouched DEF RegisterInsert, Fail, Respond, Idle, sessions
<1>8. CASE UNCHANGED vars
  BY <1>8 DEF vars, sessions, BlacklistLasts, Clearing
<1> QED
  BY <1>1, <1>2, <1>3, <1>4, <1>5, <1>6, <1>7, <1>8 DEF Next
-----------------------------------------------------------------------------
LEMMA Initially ==
  ASSUME Init
  PROVE  IInv
<1>1. TypeOK
  <2>1. /\ emailFails \in [Emails -> Counters(EMAIL_WINDOW)]
        /\ ipFails \in [Ips -> Counters(IP_WINDOW)]
    BY LimitAssumption DEF Init, Counters, Absent, NoTtl
  <2>2. /\ emailLock \in [Emails -> 0..EMAIL_LOCK]
        /\ ipLock \in [Ips -> 0..IP_LOCK]
    BY LimitAssumption DEF Init
  <2>3. req \in [Reqs -> Request]
    BY DEF Init, Request
  <2>4. blacklist \in 0..BLACKLIST_TTL
    BY LimitAssumption DEF Init
  <2> QED
    BY <2>1, <2>2, <2>3, <2>4 DEF Init, TypeOK, Counters
<1>2. LocksOutlastCounters
  BY LimitAssumption DEF Init, LocksOutlastCounters, EmailLocked, IpLocked, Absent
<1>3. BlacklistLasts
  BY DEF Init, BlacklistLasts, Clearing, Idle, NoToken
<1> QED
  BY <1>1, <1>2, <1>3 DEF IInv

LEMMA Invariance == Spec => []IInv
<1>1. IInv /\ [Next]_vars => IInv'
  BY TypeStep, LocksStep, BlacklistStep DEF IInv
<1> QED
  BY <1>1, Initially, PTL DEF Spec

\* Every variable of AuthService and of its keys keeps its type
THEOREM Types == Spec => []TypeOK
<1>1. IInv => TypeOK
  BY DEF IInv
<1> QED
  BY <1>1, Invariance, PTL

\* However failures, successes and timeouts interleave, the lock of a full
\* counter outlives it, but for commands still to come or lost
THEOREM LocksOutlast == Spec => []LocksOutlastCounters
<1>1. IInv => LocksOutlastCounters
  BY DEF IInv
<1> QED
  BY <1>1, Invariance, PTL

\* A logged out access token is on the blacklist as long as it lives
THEOREM LoggedOut == Spec => []LoggedOutRefused
<1>1. IInv => LoggedOutRefused
  BY DEF IInv, BlacklistLasts, LoggedOutRefused
<1> QED
  BY <1>1, Invariance, PTL
-----------------------------------------------------------------------------
(* The record of sessions *)

\* Who was let in has given the password since the last logout, or was let in
\* before it and is known to have been
LetInEarned ==
  \A p \in Reqs, e \in Emails :
    LetIn(p, e) => e \in earned \cup revived \/ p \in overtaken

HistoryInv == TypeOK /\ SessionsEarned /\ LetInEarned

\* A logout leaves nobody signed in whose session it ended
LEMMA EndedIsOut ==
  ASSUME NEW e \in Ended
  PROVE  e \notin signedIn'
BY DEF Ended, EndedBy, LogoutClear

\* There are two ways to be let in: a password, and a session that is there
LEMMA LetInBy ==
  ASSUME TypeOK, [Next]_vars, NEW p \in Reqs, NEW e \in Emails, LetIn(p, e)'
  PROVE  LetIn(p, e) \/ e \in Proven \/ (e \in signedIn /\ e \in signedIn')
<1> DEFINE Goal == LetIn(p, e) \/ e \in Proven \/ (e \in signedIn /\ e \in signedIn')
<1>a. ASSUME NEW q \in Reqs, NEW r, Become(q, r), r.at \notin {"right", "save"}
      PROVE  Goal
  <2>1. req'[p] = r \/ req'[p] = req[p]
    BY <1>a DEF Become, TypeOK
  <2> QED
    BY <1>a, <2>1 DEF LetIn
<1>1. CASE Tick \/ UNCHANGED vars
  BY <1>1 DEF Tick, vars, LetIn
<1>2. ASSUME NEW q \in Reqs, Login(q)
      PROVE  Goal
  <2>1. ASSUME NEW f \in Emails, NEW i \in Ips, AssertIp(q, f, i)
        PROVE  Goal
    BY <2>1, <1>a DEF AssertIp
  <2>2. CASE AssertEmail(q)
    <3>1. CASE p = q
      BY <2>2, <3>1 DEF Proven, ProvenBy
    <3>2. CASE p # q
      <4>1. req'[p] = req[p]
        BY <2>2, <3>2 DEF AssertEmail, Compare, Goto, Respond, Become, TypeOK
      <4> QED
        BY <4>1 DEF LetIn
    <3> QED
      BY <3>1, <3>2
  <2>3. CASE RecordFailure(q)
    <3>1. \A m, n, f, i : Locks(m, n, f, i).at \in {"lockIp", "lockEmail", "idle"}
      BY DEF Locks, Idle
    <3>2. PICK r : Become(q, r) /\ r.at \in {"lockIp", "lockEmail", "idle"}
      BY <2>3, <3>1 DEF RecordFailure
    <3> QED
      BY <3>2, <1>a
  <2>4. CASE LockIp(q) \/ LockEmail(q) \/ SaveRefreshToken(q)
    BY <2>4, <1>a DEF LockIp, LockEmail, SaveRefreshToken, Respond, Idle
  <2>5. CASE RecordSuccess(q)
    <3>1. /\ req[q].at = "right"
          /\ req'[p] = req[p] \/ (p = q /\ req'[p].email = req[p].email)
      BY <2>5 DEF RecordSuccess, Become, TypeOK
    <3> QED
      BY <3>1 DEF LetIn
  <2> QED
    BY <1>2, <2>1, <2>2, <2>3, <2>4, <2>5 DEF Login
<1>3. ASSUME NEW q \in Reqs, NEW f \in Emails, RefreshRead(q, f)
      PROVE  Goal
  <2>1. req'[p] = req[p] \/ req'[p].email = f
    BY <1>3 DEF RefreshRead, Become, TypeOK
  <2>2. f \in signedIn /\ f \in signedIn'
    BY <1>3 DEF RefreshRead, sessions
  <2> QED
    BY <2>1, <2>2 DEF LetIn
<1>4. ASSUME NEW q \in Reqs, NEW f \in Emails, LogoutOther(q, f) \/ RegisterRead(q, f)
      PROVE  Goal
  BY <1>4, <1>a DEF LogoutOther, RegisterRead
<1>5. ASSUME NEW q \in Reqs, \/ LogoutWatched(q) \/ LogoutBlacklist(q) \/ LogoutClear(q)
                             \/ RegisterInsert(q) \/ Fail(q)
      PROVE  Goal
  BY <1>5, <1>a
  DEF LogoutWatched, LogoutBlacklist, LogoutClear, RegisterInsert, Fail, Respond, Idle
<1> QED
  BY <1>1, <1>2, <1>3, <1>4, <1>5 DEF Next

\* Nobody is signed in anew but by a request that saves a token
LEMMA SignedInBy ==
  ASSUME [Next]_vars, NEW e \in signedIn', e \notin signedIn
  PROVE  \E p \in Reqs : SavedBy(p, e)
<1>1. ASSUME NEW p \in Reqs, Login(p)
      PROVE  SavedBy(p, e)
  BY <1>1 DEF Login, AssertIp, AssertEmail, RecordFailure, LockIp, LockEmail,
              RecordSuccess, SaveRefreshToken, SavedBy, sessions
<1>2. ASSUME NEW p \in Reqs
      PROVE  /\ ~LogoutClear(p) /\ ~LogoutWatched(p) /\ ~LogoutBlacklist(p)
             /\ ~RegisterInsert(p) /\ ~Fail(p)
             /\ \A f \in Emails :
                  ~RefreshRead(p, f) /\ ~LogoutOther(p, f) /\ ~RegisterRead(p, f)
  BY DEF LogoutClear, LogoutWatched, LogoutBlacklist, RegisterInsert, Fail,
         RefreshRead, LogoutOther, RegisterRead, sessions
<1>3. ~Tick /\ ~UNCHANGED vars
  BY DEF Tick, vars, sessions
<1> QED
  BY <1>1, <1>2, <1>3 DEF Next

\* What the record says of the sessions and of the requests let in stays true
LEMMA EarnedStep ==
  ASSUME TypeOK, SessionsEarned, LetInEarned, [Next]_vars, Record
  PROVE  SessionsEarned' /\ LetInEarned'
<1>1. ASSUME NEW e \in earned \cup revived, e \notin Ended
      PROVE  e \in earned' \cup revived'
  BY <1>1 DEF Record
<1>2. \A e \in Proven : e \in earned'
  BY DEF Record
<1>3. \A e \in signedIn' : e \notin Ended
  BY EndedIsOut
<1>4. ASSUME NEW e \in signedIn'
      PROVE  e \in earned' \cup revived'
  <2>1. CASE e \in signedIn
    BY <1>1, <1>3, <2>1 DEF SessionsEarned
  <2>2. CASE e \notin signedIn
    <3>1. PICK p \in Reqs : SavedBy(p, e)
      BY <2>2, SignedInBy
    <3>2. e \in Emails /\ LetIn(p, e)
      BY <3>1, InFlight DEF SavedBy, SaveRefreshToken, LetIn
    <3>3. p \in overtaken => e \in revived'
      BY <3>1, <3>2 DEF Record
    <3> QED
      BY <1>1, <1>3, <3>2, <3>3 DEF LetInEarned
  <2> QED
    BY <2>1, <2>2
<1>5. ASSUME NEW p \in Reqs, NEW e \in Emails, LetIn(p, e)'
      PROVE  e \in earned' \cup revived' \/ p \in overtaken'
  <2>1. CASE e \in Proven
    BY <1>2, <2>1
  <2>2. CASE e \in signedIn /\ e \in signedIn'
    BY <1>4, <2>2
  <2>3. CASE LetIn(p, e) /\ e \notin Proven
    <3>1. CASE e \in Ended
      BY <2>3, <3>1 DEF Record
    <3>2. CASE p \in overtaken
      <4>1. req'[p].at # "idle" /\ req[p].email = e
        BY <1>5, <2>3 DEF LetIn
      <4> QED
        BY <2>3, <3>2, <4>1 DEF Record
    <3> QED
      BY <1>1, <2>3, <3>1, <3>2 DEF LetInEarned
  <2> QED
    BY <1>5, <2>1, <2>2, <2>3, LetInBy
<1> QED
  BY <1>4, <1>5 DEF SessionsEarned, LetInEarned

\* The record of sessions adds no behaviour and takes none away
THEOREM SessionRecordOnlyLooksOn == HistorySpec => Spec
<1>1. HistoryInit => Init
  BY DEF HistoryInit
<1>2. [HistoryNext]_historyVars => [Next]_vars
  BY DEF HistoryNext, historyVars, vars
<1> QED
  BY <1>1, <1>2, PTL DEF HistorySpec, Spec

\* Whoever is signed in has given the password since the last logout, or was
\* brought back by a request that this logout overtook
THEOREM SessionsAreEarned == HistorySpec => []SessionsEarned
<1>1. HistoryInit => HistoryInv
  <2> SUFFICES ASSUME HistoryInit
               PROVE  HistoryInv
    OBVIOUS
  <2>1. TypeOK
    BY Initially DEF HistoryInit, IInv
  <2>2. \A p \in Reqs : req[p] = Idle
    BY DEF HistoryInit, Init
  <2>3. signedIn = {}
    BY DEF HistoryInit, Init
  <2> QED
    BY <2>1, <2>2, <2>3 DEF HistoryInv, SessionsEarned, LetInEarned, LetIn, Idle
<1>2. HistoryInv /\ [HistoryNext]_historyVars => HistoryInv'
  <2> SUFFICES ASSUME HistoryInv, [HistoryNext]_historyVars
               PROVE  HistoryInv'
    OBVIOUS
  <2>1. CASE HistoryNext
    BY <2>1, TypeStep, EarnedStep DEF HistoryInv, HistoryNext
  <2>2. CASE UNCHANGED historyVars
    <3>1. TypeOK'
      BY <2>2, TypeStep DEF HistoryInv, historyVars, vars
    <3> QED
      BY <2>2, <3>1
      DEF HistoryInv, historyVars, sessions, SessionsEarned, LetInEarned, LetIn
  <2> QED
    BY <2>1, <2>2
<1>3. HistoryInv => SessionsEarned
  BY DEF HistoryInv
<1> QED
  BY <1>1, <1>2, <1>3, PTL DEF HistorySpec
=============================================================================
