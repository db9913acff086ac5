------------------------------ MODULE OtpProofs ------------------------------
(***************************************************************************)
(* The bounds of Otp, for any number of scopes, requests, codes, tries and *)
(* resends, and any TTL.                                                   *)
(***************************************************************************)
EXTENDS Otp, FiniteSetTheorems, TLAPS

\* the requests that found a guess of code c wrong and have not counted it yet
Judging(s, c) ==
  {p \in Reqs : req[p].at = "wrong" /\ req[p].scope = s /\ req[p].code = c}

Resending(s) == {p \in Reqs : req[p].at = "count" /\ req[p].scope = s}

\* codes are used in order: whatever names one names one already sent
Numbered ==
  /\ \A s \in Scopes : otp[s].n <= issued[s]
  /\ \A s \in Scopes : \A c \in accepted[s] : c <= issued[s]
  /\ \A s \in Scopes, c \in Codes : wrong[s][c] > 0 => c <= issued[s]
  /\ \A p \in Reqs : req[p].at \in {"right", "wrong"}
                     => req[p].code <= issued[req[p].scope]

\* the counter knows of every wrong guess of the current code, and outlives it
Counted ==
  \A s \in Scopes : otp[s].n # 0 =>
    /\ otp[s].left > 0
    /\ wrong[s][otp[s].n] <= tries[s].n
    /\ wrong[s][otp[s].n] > 0 =>
         tries[s].left = NoTtl \/ tries[s].left >= otp[s].left

Guesses ==
  \A s \in Scopes, c \in Codes :
    wrong[s][c] + Cardinality(Judging(s, c))
      <= OTP_MAX_TRIES - 1 + Cardinality(Reqs)

Resends ==
  \A s \in Scopes : resends[s].n + Cardinality(Resending(s))
                      <= OTP_MAX_RESEND - 1 + Cardinality(Reqs)

IInv == TypeOK /\ Numbered /\ Counted /\ Guesses /\ Resends /\ AcceptedCodesGone
-----------------------------------------------------------------------------
\* There are only so many requests to count
LEMMA Counting ==
  ASSUME NEW S \in SUBSET Reqs
  PROVE  /\ IsFiniteSet(S)
         /\ Cardinality(S) \in Nat
         /\ Cardinality(Reqs) \in Nat
         /\ Cardinality(S) <= Cardinality(Reqs)
BY ReqsAssumption, FS_Subset, FS_CardinalityType

\* A set of requests that loses one counts one less
LEMMA CountingOneLess ==
  ASSUME NEW S \in SUBSET Reqs, NEW p \in S
  PROVE  Cardinality(S \ {p}) = Cardinality(S) - 1
BY Counting, FS_RemoveElement

\* A smaller set of requests counts no more
LEMMA CountingLess ==
  ASSUME NEW S \in SUBSET Reqs, NEW T \in SUBSET S
  PROVE  Cardinality(T) <= Cardinality(S)
BY Counting, FS_Subset

\* One more tick changes nothing but how long a key lives
LEMMA OlderKey ==
  ASSUME NEW key \in Key
  PROVE  /\ Older(key) \in Key
         /\ Older(key).n \in {0, key.n}
         /\ Older(key).n <= key.n
BY LimitAssumption DEF Older, Key, Absent, NoTtl

\* The increments of a key make a key
LEMMA IncrementedKey ==
  ASSUME NEW key \in Key
  PROVE  /\ Incr(key) \in Key /\ Incr(key).n = key.n + 1
         /\ IncrExpire(key) \in Key /\ IncrExpire(key).n = key.n + 1
BY LimitAssumption DEF Incr, IncrExpire, Key, NoTtl
-----------------------------------------------------------------------------
\* Every variable keeps its type through every operation of OtpService
LEMMA TypeStep ==
  ASSUME TypeOK, [Next]_vars
  PROVE  TypeOK'
<1> USE LimitAssumption
<1> DEFINE Keys == [n : 0..MaxCodes, left : 0..OTP_TTL]
<1>a. Absent \in Keys /\ Absent \in Key
  BY DEF Absent, Key, NoTtl
<1>1. CASE Tick
  <2>1. \A k \in Keys : Older(k) \in Keys
    BY DEF Older, Absent
  <2> QED
    BY <1>1, <2>1, OlderKey DEF Tick, TypeOK, Request, Idle
<1>2. ASSUME NEW s \in Scopes, StoreCode(s)
      PROVE  /\ otp' \in [Scopes -> Keys]
             /\ tries' \in [Scopes -> Key]
             /\ issued' \in [Scopes -> 0..MaxCodes]
             /\ UNCHANGED <<resends, wrong, accepted>>
  <2>1. issued[s] + 1 \in 0..MaxCodes
    BY <1>2 DEF StoreCode, TypeOK
  <2>2. [n |-> issued[s] + 1, left |-> OTP_TTL] \in Keys
    BY <2>1
  <2>3. otp' \in [Scopes -> Keys]
    BY <1>2, <2>2 DEF StoreCode, TypeOK
  <2>4. tries' \in [Scopes -> Key]
    BY <1>a, <1>2 DEF StoreCode, TypeOK
  <2> QED
    BY <1>2, <2>1, <2>3, <2>4 DEF StoreCode, TypeOK
<1>3. ASSUME NEW s \in Scopes, Send(s)
      PROVE  TypeOK'
  BY <1>2, <1>3 DEF Send, TypeOK, Request, Idle
<1>4. ASSUME NEW p \in Reqs, NEW s \in Scopes, VerifyRead(p, s)
      PROVE  TypeOK'
  <2>1. otp[s].n \in Codes
    BY <1>4 DEF VerifyRead, TypeOK, Codes
  <2> QED
    BY <1>4, <2>1 DEF VerifyRead, Become, TypeOK, Request, Idle
<1>5. ASSUME NEW p \in Reqs, NEW s \in BookingIds, ResendRead(p, s)
      PROVE  TypeOK'
  BY <1>5 DEF ResendRead, Become, TypeOK, Request, Idle
<1>6. ASSUME NEW p \in Reqs, VerifyWrong(p)
      PROVE  TypeOK'
  <2>1. req[p].scope \in Scopes /\ req[p].code \in Codes
    BY <1>6 DEF VerifyWrong, TypeOK, Request, Idle
  <2>a. tries[req[p].scope] \in Key
    BY <2>1 DEF TypeOK
  <2>2. tries' \in [Scopes -> Key]
    BY <1>6, <2>1, <2>a, IncrementedKey DEF VerifyWrong, TypeOK
  <2>3. wrong' \in [Scopes -> [Codes -> Nat]]
    <3> DEFINE s == req[p].scope
               c == req[p].code
    <3>1. [wrong[s] EXCEPT ![c] = @ + 1] \in [Codes -> Nat]
      BY <2>1 DEF TypeOK
    <3> QED
      BY <1>6, <2>1, <3>1 DEF VerifyWrong, TypeOK
  <2> QED
    BY <1>6, <2>2, <2>3 DEF VerifyWrong, Respond, Become, TypeOK, Request, Idle
<1>7. ASSUME NEW p \in Reqs, VerifyRight(p)
      PROVE  TypeOK'
  <2>1. req[p].scope \in Scopes /\ req[p].code \in Codes
    BY <1>7 DEF VerifyRight, TypeOK, Request, Idle
  <2>2. otp' \in [Scopes -> Keys] /\ tries' \in [Scopes -> Key]
    BY <1>7, <1>a, <2>1 DEF VerifyRight, TypeOK
  <2>3. accepted' \in [Scopes -> SUBSET Codes]
    <3> DEFINE more == accepted[req[p].scope] \cup {req[p].code}
    <3>1. more \in SUBSET Codes
      BY <2>1 DEF TypeOK
    <3> HIDE DEF more
    <3>2. [accepted EXCEPT ![req[p].scope] = more] \in [Scopes -> SUBSET Codes]
      BY <2>1, <3>1 DEF TypeOK
    <3> QED
      BY <1>7, <3>2 DEF VerifyRight, TypeOK, more
  <2> QED
    BY <1>7, <2>2, <2>3 DEF VerifyRight, Respond, Become, TypeOK, Request, Idle
<1>8. ASSUME NEW p \in Reqs, ResendCount(p)
      PROVE  TypeOK'
  <2>1. req[p].scope \in BookingIds /\ req[p].code = 0
    BY <1>8 DEF ResendCount, TypeOK, Request, Idle
  <2>a. resends[req[p].scope] \in Key
    BY <2>1 DEF TypeOK, Scopes
  <2>2. resends' \in [Scopes -> Key]
    BY <1>8, <2>1, <2>a, IncrementedKey DEF ResendCount, TypeOK, Scopes
  <2>3. [req[p] EXCEPT !.at = "send"] \in Request
    <3>1. req[p] \in [at : {"count", "send"}, scope : BookingIds, code : {0}]
      BY <1>8 DEF ResendCount, TypeOK, Request, Idle
    <3> QED
      BY <3>1 DEF Request
  <2>4. req' \in [Reqs -> Request]
    BY <1>8, <2>3 DEF ResendCount, Respond, Become, TypeOK, Request
  <2> QED
    BY <1>8, <2>2, <2>4 DEF ResendCount, Respond, Become, TypeOK, Request, Idle
<1>9. ASSUME NEW p \in Reqs, ResendSend(p)
      PROVE  TypeOK'
  <2>1. req[p].scope \in Scopes
    BY <1>9 DEF ResendSend, TypeOK, Request, Idle, Scopes
  <2> QED
    BY <1>2, <1>9, <2>1 DEF ResendSend, Respond, Become, TypeOK, Request, Idle
<1>10. ASSUME NEW p \in Reqs, Fail(p)
       PROVE  TypeOK'
  BY <1>10 DEF Fail, Respond, Become, TypeOK, Request, Idle
<1>11. CASE UNCHANGED vars
  BY <1>11 DEF vars, TypeOK, Request, Idle
<1> QED
  BY <1>1, <1>3, <1>4, <1>5, <1>6, <1>7, <1>8, <1>9, <1>10, <1>11 DEF Next
-----------------------------------------------------------------------------
\* What a request in flight carries
LEMMA InFlight ==
  ASSUME TypeOK, NEW p \in Reqs
  PROVE  /\ req[p].at \in {"right", "wrong"}
              => req[p].scope \in Scopes /\ req[p].code \in Codes
         /\ req[p].at \in {"count", "send"} => req[p].scope \in Scopes
         /\ Idle.at = "idle"
BY DEF TypeOK, Request, Idle, Scopes

\* Codes are handed out in order, so a new one is a stranger to everything
LEMMA NumberedStep ==
  ASSUME TypeOK, TypeOK', Numbered, [Next]_vars
  PROVE  Numbered'
<1>1. CASE Tick
  <2>1. ASSUME NEW s \in Scopes PROVE otp'[s].n <= issued[s]
    BY <1>1 DEF Tick, TypeOK, Numbered, Older, Absent
  <2> QED
    BY <1>1, <2>1 DEF Tick, Numbered
<1>2. ASSUME NEW s \in Scopes, StoreCode(s),
             \A p \in Reqs : req'[p] \in {req[p], Idle}
      PROVE  Numbered'
  <2>1. \A t \in Scopes : issued[t] <= issued'[t]
    BY <1>2 DEF StoreCode, TypeOK
  <2>2. ASSUME NEW t \in Scopes PROVE otp'[t].n <= issued'[t]
    BY <1>2 DEF StoreCode, TypeOK, Numbered
  <2>3. ASSUME NEW t \in Scopes, NEW c \in accepted'[t] PROVE c <= issued'[t]
    BY <1>2, <2>1 DEF StoreCode, TypeOK, Numbered, Codes
  <2>4. ASSUME NEW t \in Scopes, NEW c \in Codes, wrong'[t][c] > 0
        PROVE  c <= issued'[t]
    BY <1>2, <2>1, <2>4 DEF StoreCode, TypeOK, Numbered, Codes
  <2>5. ASSUME NEW p \in Reqs, req'[p].at \in {"right", "wrong"}
        PROVE  req'[p].code <= issued'[req'[p].scope]
    <3>1. req'[p] = req[p]
      BY <1>2, <2>5 DEF Idle
    <3> QED
      BY <2>1, <2>5, <3>1, InFlight DEF TypeOK, Numbered, Codes
  <2> QED
    BY <2>2, <2>3, <2>4, <2>5 DEF Numbered
<1>3. ASSUME NEW s \in Scopes, Send(s)
      PROVE  Numbered'
  BY <1>2, <1>3 DEF Send
<1>4. ASSUME NEW p \in Reqs, NEW s \in Scopes, VerifyRead(p, s)
      PROVE  Numbered'
  <2>1. ASSUME NEW q \in Reqs, req'[q].at \in {"right", "wrong"}
        PROVE  req'[q].code <= issued[req'[q].scope]
    BY <1>4, <2>1 DEF VerifyRead, Become, TypeOK, Numbered
  <2> QED
    BY <1>4, <2>1 DEF VerifyRead, Numbered
<1>5. ASSUME NEW p \in Reqs, NEW s \in BookingIds, ResendRead(p, s)
      PROVE  Numbered'
  BY <1>5 DEF ResendRead, Become, TypeOK, Numbered
<1>6. ASSUME NEW p \in Reqs, VerifyWrong(p)
      PROVE  Numbered'
  <2>1. ASSUME NEW t \in Scopes, NEW c \in Codes, wrong'[t][c] > 0
        PROVE  c <= issued[t]
    <3>1. req[p].scope \in Scopes /\ req[p].code \in Codes
          /\ req[p].code <= issued[req[p].scope]
      BY <1>6, InFlight DEF VerifyWrong, Numbered
    <3>2. CASE t = req[p].scope /\ c = req[p].code
      BY <3>1, <3>2
    <3>3. CASE ~(t = req[p].scope /\ c = req[p].code)
      <4>1. wrong'[t][c] = wrong[t][c]
        BY <1>6, <3>1, <3>3 DEF VerifyWrong, TypeOK
      <4> QED
        BY <2>1, <4>1 DEF Numbered
    <3> QED
      BY <3>2, <3>3
  <2> QED
    BY <1>6, <2>1 DEF VerifyWrong, Respond, Become, Idle, TypeOK, Numbered
<1>7. ASSUME NEW p \in Reqs, VerifyRight(p)
      PROVE  Numbered'
  <2>1. ASSUME NEW t \in Scopes, NEW c \in accepted'[t]
        PROVE  c <= issued[t]
    <3>1. req[p].scope \in Scopes /\ req[p].code <= issued[req[p].scope]
      BY <1>7, InFlight DEF VerifyRight, Numbered
    <3>2. \/ accepted'[t] = accepted[t]
          \/ /\ t = req[p].scope
             /\ accepted'[t] = accepted[t] \cup {req[p].code}
      BY <1>7, <3>1 DEF VerifyRight, TypeOK
    <3>3. c \in accepted[t] \/ (t = req[p].scope /\ c = req[p].code)
      BY <2>1, <3>2
    <3> QED
      BY <3>1, <3>3 DEF Numbered
  <2>2. ASSUME NEW t \in Scopes
        PROVE  otp'[t].n <= issued[t]
    BY <1>7, InFlight DEF VerifyRight, TypeOK, Numbered, Absent
  <2> QED
    BY <1>7, <2>1, <2>2
       DEF VerifyRight, Respond, Become, Idle, TypeOK, Numbered
<1>8. ASSUME NEW p \in Reqs, ResendCount(p)
      PROVE  Numbered'
  <2>1. ASSUME NEW q \in Reqs, req'[q].at \in {"right", "wrong"}
        PROVE  req'[q] = req[q]
    <3>1. q # p \/ req'[q].at \in {"idle", "send"}
      BY <1>8 DEF ResendCount, Respond, Become, Idle, TypeOK, Request
    <3> QED
      BY <1>8, <2>1, <3>1 DEF ResendCount, Respond, Become, TypeOK
  <2> QED
    BY <1>8, <2>1 DEF ResendCount, Numbered
<1>9. ASSUME NEW p \in Reqs, ResendSend(p)
      PROVE  Numbered'
  BY <1>2, <1>9, InFlight DEF ResendSend, Respond, Become, TypeOK
<1>10. ASSUME NEW p \in Reqs, Fail(p)
       PROVE  Numbered'
  BY <1>10 DEF Fail, Respond, Become, Idle, TypeOK, Numbered
<1>11. CASE UNCHANGED vars
  BY <1>11 DEF vars, Numbered
<1> QED
  BY <1>1, <1>3, <1>4, <1>5, <1>6, <1>7, <1>8, <1>9, <1>10, <1>11 DEF Next
-----------------------------------------------------------------------------
\* Every wrong guess of the current code stays in the counter as long as the
\* code can be guessed
LEMMA CountedStep ==
  ASSUME TypeOK, TypeOK', Numbered, Counted, [Next]_vars
  PROVE  Counted'
<1> USE LimitAssumption
<1> DEFINE Kept(s) ==
      otp[s].n # 0 =>
        /\ otp[s].left > 0
        /\ wrong[s][otp[s].n] <= tries[s].n
        /\ wrong[s][otp[s].n] > 0 =>
             tries[s].left = NoTtl \/ tries[s].left >= otp[s].left
<1>a. ASSUME NEW s \in Scopes
      PROVE  /\ Kept(s)
             /\ otp[s] \in [n : 0..MaxCodes, left : 0..OTP_TTL]
             /\ tries[s] \in Key
             /\ otp[s].n # 0 => otp[s].n \in Codes /\ wrong[s][otp[s].n] \in Nat
  BY DEF Counted, TypeOK, Codes
<1>1. CASE Tick
  <2> SUFFICES ASSUME NEW s \in Scopes PROVE Kept(s)'
    BY DEF Counted
  <2>1. otp'[s] = Older(otp[s]) /\ tries'[s] = Older(tries[s]) /\ wrong' = wrong
    BY <1>1 DEF Tick
  <2>2. CASE otp[s].n = 0 \/ otp[s].left = 1
    BY <1>a, <2>1, <2>2 DEF Older, Absent
  <2>3. CASE otp[s].n # 0 /\ otp[s].left # 1
    <3>1. otp'[s] = [otp[s] EXCEPT !.left = @ - 1] /\ otp[s].left > 1
      BY <1>a, <2>1, <2>3 DEF Older
    <3>2. CASE wrong[s][otp[s].n] = 0
      BY <1>a, <2>1, <2>3, <3>1, <3>2, OlderKey DEF Key
    <3>3. CASE wrong[s][otp[s].n] > 0
      BY <1>a, <2>1, <2>3, <3>1, <3>3 DEF Older, Key, NoTtl
    <3> QED
      BY <1>a, <2>3, <3>2, <3>3
  <2> QED
    BY <2>2, <2>3
<1>2. ASSUME NEW s \in Scopes, StoreCode(s)
      PROVE  Counted'
  <2> SUFFICES ASSUME NEW t \in Scopes PROVE Kept(t)'
    BY DEF Counted
  <2>1. CASE t = s
    <3>1. otp'[s].n = issued[s] + 1 /\ otp'[s].left = OTP_TTL
      BY <1>2 DEF StoreCode, TypeOK
    <3>2. issued[s] + 1 \in Codes
      BY <1>2 DEF StoreCode, TypeOK, Codes
    <3>3. wrong'[s][issued[s] + 1] = 0
      BY <1>2, <3>2 DEF StoreCode, Numbered, TypeOK
    <3>4. tries'[s] \in Key
      BY DEF TypeOK
    <3> QED
      BY <2>1, <3>1, <3>3, <3>4 DEF Key
  <2>2. CASE t # s
    BY <1>2, <1>a, <2>2 DEF StoreCode, TypeOK
  <2> QED
    BY <2>1, <2>2
<1>6. ASSUME NEW p \in Reqs, VerifyWrong(p)
      PROVE  Counted'
  <2> SUFFICES ASSUME NEW t \in Scopes PROVE Kept(t)'
    BY DEF Counted
  <2> DEFINE s == req[p].scope
             c == req[p].code
  <2>1. s \in Scopes /\ c \in Codes /\ otp' = otp
    BY <1>6, InFlight DEF VerifyWrong
  <2>2. CASE t # s
    <3>1. tries'[t] = tries[t] /\ wrong'[t] = wrong[t]
      BY <1>6, <2>1, <2>2 DEF VerifyWrong, TypeOK
    <3> QED
      BY <1>a, <2>1, <3>1
  <2>3. CASE t = s /\ tries' = [tries EXCEPT ![s] = Incr(@)] /\ wrong' = wrong
    <3>1. tries'[s].n = tries[s].n + 1
          /\ (tries[s].n # 0 => tries'[s].left = tries[s].left)
      BY <2>1, <2>3 DEF TypeOK, Incr
    <3> QED
      BY <1>a, <2>1, <2>3, <3>1 DEF Key
  <2>4. CASE /\ t = s /\ tries' = [tries EXCEPT ![s] = IncrExpire(@)]
             /\ wrong' = [wrong EXCEPT ![s][c] = @ + 1]
    <3>1. tries'[s].n = tries[s].n + 1 /\ tries'[s].left = OTP_TTL
      BY <2>1, <2>4 DEF TypeOK, IncrExpire
    <3>2. \A d \in Codes : wrong'[s][d] <= wrong[s][d] + 1
      BY <2>1, <2>4 DEF TypeOK
    <3> QED
      BY <1>a, <2>1, <2>4, <3>1, <3>2 DEF Key, TypeOK
  <2> QED
    BY <1>6, <2>2, <2>3, <2>4 DEF VerifyWrong
<1>7. ASSUME NEW p \in Reqs, VerifyRight(p)
      PROVE  Counted'
  <2> SUFFICES ASSUME NEW t \in Scopes PROVE Kept(t)'
    BY DEF Counted
  <2>1. req[p].scope \in Scopes
    BY <1>7, InFlight DEF VerifyRight
  <2>2. CASE t = req[p].scope
    BY <1>7, <2>1, <2>2 DEF VerifyRight, TypeOK, Absent
  <2>3. CASE t # req[p].scope
    BY <1>7, <1>a, <2>1, <2>3 DEF VerifyRight, TypeOK
  <2> QED
    BY <2>2, <2>3
<1>8. CASE UNCHANGED <<otp, tries, wrong>>
  BY <1>8 DEF Counted
<1> QED
  BY <1>1, <1>2, <1>6, <1>7, <1>8, InFlight
     DEF Next, vars, Send, VerifyRead, ResendRead, ResendCount, ResendSend, Fail
-----------------------------------------------------------------------------
\* A guess is only compared while the counter is below the limit, so a code
\* that is guessed by everybody at once overshoots by the requests in flight
LEMMA GuessesStep ==
  ASSUME TypeOK, TypeOK', Counted, Guesses, [Next]_vars
  PROVE  Guesses'
<1> USE LimitAssumption
<1> DEFINE Few(s, c) == wrong[s][c] + Cardinality(Judging(s, c))
                          <= OTP_MAX_TRIES - 1 + Cardinality(Reqs)
<1> SUFFICES ASSUME NEW s \in Scopes, NEW c \in Codes PROVE Few(s, c)'
  BY DEF Guesses
<1>a. Few(s, c) /\ wrong[s][c] \in Nat /\ wrong'[s][c] \in Nat
  BY DEF Guesses, TypeOK
<1>b. /\ Judging(s, c) \in SUBSET Reqs
      /\ Judging(s, c)' \in SUBSET Reqs
      /\ Cardinality(Judging(s, c)) \in Nat
      /\ Cardinality(Judging(s, c)') \in Nat
      /\ Cardinality(Judging(s, c)') <= Cardinality(Reqs)
      /\ Cardinality(Reqs) \in Nat
  <2>1. Judging(s, c) \in SUBSET Reqs /\ Judging(s, c)' \in SUBSET Reqs
    BY DEF Judging
  <2> QED
    BY <2>1, Counting
<1>c. ASSUME Judging(s, c)' \subseteq Judging(s, c), wrong'[s][c] = wrong[s][c]
      PROVE  Few(s, c)'
  BY <1>a, <1>b, <1>c, CountingLess
<1>1. ASSUME UNCHANGED wrong, \A p \in Reqs : req'[p].at = "wrong" => req'[p] = req[p]
      PROVE  Few(s, c)'
  <2>1. Judging(s, c)' \subseteq Judging(s, c)
    BY <1>1 DEF Judging
  <2> QED
    BY <1>1, <1>c, <2>1
<1>2. ASSUME NEW p \in Reqs, NEW t \in Scopes, VerifyRead(p, t)
      PROVE  Few(s, c)'
  <2>1. CASE t = s /\ c = otp[s].n
    <3>1. wrong'[s][c] <= OTP_MAX_TRIES - 1
      <4>1. wrong[s][c] <= tries[s].n /\ tries[s].n < OTP_MAX_TRIES
        BY <1>2, <2>1 DEF VerifyRead, Counted
      <4>2. wrong'[s][c] = wrong[s][c] /\ tries[s].n \in Nat
        BY <1>2 DEF VerifyRead, TypeOK, Key
      <4> QED
        BY <1>a, <4>1, <4>2
    <3> QED
      BY <1>a, <1>b, <3>1
  <2>2. CASE ~(t = s /\ c = otp[s].n)
    <3>1. Judging(s, c)' \subseteq Judging(s, c)
      BY <1>2, <2>2 DEF VerifyRead, Become, Judging, TypeOK
    <3> QED
      BY <1>2, <1>c, <3>1 DEF VerifyRead
  <2> QED
    BY <2>1, <2>2
<1>3. ASSUME NEW p \in Reqs, VerifyWrong(p)
      PROVE  Few(s, c)'
  <2>1. req[p].scope \in Scopes /\ req[p].code \in Codes
    BY <1>3, InFlight DEF VerifyWrong
  <2>2. CASE p \in Judging(s, c)
    <3>1. Judging(s, c)' = Judging(s, c) \ {p}
      BY <1>3 DEF VerifyWrong, Respond, Become, Idle, Judging, TypeOK
    <3>2. Cardinality(Judging(s, c)') = Cardinality(Judging(s, c)) - 1
      BY <1>b, <2>2, <3>1, CountingOneLess
    <3>a. req[p].scope = s /\ req[p].code = c
      BY <2>2 DEF Judging
    <3>3. wrong'[s][c] <= wrong[s][c] + 1
      <4>1. wrong' = wrong \/ wrong' = [wrong EXCEPT ![s][c] = @ + 1]
        BY <1>3, <3>a DEF VerifyWrong
      <4> QED
        BY <1>a, <4>1 DEF TypeOK
    <3> QED
      BY <1>a, <1>b, <3>2, <3>3
  <2>3. CASE p \notin Judging(s, c)
    <3>1. Judging(s, c)' \subseteq Judging(s, c)
      BY <1>3 DEF VerifyWrong, Respond, Become, Idle, Judging, TypeOK
    <3>2. ~(s = req[p].scope /\ c = req[p].code)
      BY <1>3, <2>3 DEF VerifyWrong, Judging
    <3>3. wrong'[s][c] = wrong[s][c]
      BY <1>3, <2>1, <3>2 DEF VerifyWrong, TypeOK
    <3> QED
      BY <1>c, <3>1, <3>3
  <2> QED
    BY <2>2, <2>3
<1>4. ASSUME NEW p \in Reqs,
             \/ VerifyRight(p) \/ ResendCount(p) \/ ResendSend(p) \/ Fail(p)
             \/ \E t \in BookingIds : ResendRead(p, t)
      PROVE  Few(s, c)'
  <2>1. UNCHANGED wrong
    BY <1>4 DEF VerifyRight, ResendCount, ResendSend, StoreCode, Fail, ResendRead
  <2>2. req'[p].at # "wrong" /\ \A q \in Reqs \ {p} : req'[q] = req[q]
    BY <1>4 DEF VerifyRight, ResendCount, ResendSend, Fail, ResendRead,
                Respond, Become, Idle, TypeOK, Request
  <2> QED
    BY <1>1, <2>1, <2>2
<1>5. CASE Tick \/ (\E t \in Scopes : Send(t)) \/ UNCHANGED vars
  BY <1>1, <1>5 DEF Tick, Send, StoreCode, vars
<1> QED
  BY <1>2, <1>3, <1>4, <1>5 DEF Next
-----------------------------------------------------------------------------
\* A resend is only counted by a request that read the counter below the limit
LEMMA ResendsStep ==
  ASSUME TypeOK, TypeOK', Resends, [Next]_vars
  PROVE  Resends'
<1> USE LimitAssumption
<1> DEFINE Few(s) == resends[s].n + Cardinality(Resending(s))
                       <= OTP_MAX_RESEND - 1 + Cardinality(Reqs)
<1> SUFFICES ASSUME NEW s \in Scopes PROVE Few(s)'
  BY DEF Resends
<1>a. Few(s) /\ resends[s] \in Key /\ resends[s].n \in Nat /\ resends'[s].n \in Nat
  BY DEF Resends, TypeOK, Key
<1>b. /\ Resending(s) \in SUBSET Reqs
      /\ Resending(s)' \in SUBSET Reqs
      /\ Cardinality(Resending(s)) \in Nat
      /\ Cardinality(Resending(s)') \in Nat
      /\ Cardinality(Resending(s)') <= Cardinality(Reqs)
      /\ Cardinality(Reqs) \in Nat
  <2>1. Resending(s) \in SUBSET Reqs /\ Resending(s)' \in SUBSET Reqs
    BY DEF Resending
  <2> QED
    BY <2>1, Counting
<1>c. ASSUME Resending(s)' \subseteq Resending(s), resends'[s].n <= resends[s].n
      PROVE  Few(s)'
  BY <1>a, <1>b, <1>c, CountingLess
<1>1. ASSUME UNCHANGED resends, \A p \in Reqs : req'[p].at = "count" => req'[p] = req[p]
      PROVE  Few(s)'
  <2>1. Resending(s)' \subseteq Resending(s)
    BY <1>1 DEF Resending
  <2> QED
    BY <1>1, <1>a, <1>c, <2>1
<1>2. ASSUME NEW p \in Reqs, NEW t \in BookingIds, ResendRead(p, t)
      PROVE  Few(s)'
  <2>1. CASE t = s
    BY <1>2, <1>a, <1>b, <2>1 DEF ResendRead
  <2>2. CASE t # s
    <3>1. Resending(s)' \subseteq Resending(s)
      BY <1>2, <2>2 DEF ResendRead, Become, Resending, TypeOK
    <3> QED
      BY <1>2, <1>a, <1>c, <3>1 DEF ResendRead
  <2> QED
    BY <2>1, <2>2
<1>3. ASSUME NEW p \in Reqs, ResendCount(p)
      PROVE  Few(s)'
  <2>1. req[p].scope \in Scopes /\ req'[p].at # "count"
    BY <1>3, InFlight
       DEF ResendCount, Respond, Become, Idle, TypeOK, Request
  <2>2. CASE p \in Resending(s)
    <3>1. Resending(s)' = Resending(s) \ {p}
      BY <1>3, <2>1 DEF ResendCount, Respond, Become, Resending, TypeOK
    <3>2. Cardinality(Resending(s)') = Cardinality(Resending(s)) - 1
      BY <1>b, <2>2, <3>1, CountingOneLess
    <3>3. req[p].scope = s
      BY <2>2 DEF Resending
    <3>4. resends'[s] \in {Incr(resends[s]), IncrExpire(resends[s])}
      BY <1>3, <3>3 DEF ResendCount, TypeOK
    <3> QED
      BY <1>a, <1>b, <3>2, <3>4, IncrementedKey
  <2>3. CASE p \notin Resending(s)
    <3>1. Resending(s)' \subseteq Resending(s)
      BY <1>3, <2>1 DEF ResendCount, Respond, Become, Resending, TypeOK
    <3>2. resends'[s] = resends[s]
      BY <1>3, <2>1, <2>3 DEF ResendCount, Resending, TypeOK
    <3> QED
      BY <1>a, <1>c, <3>1, <3>2
  <2> QED
    BY <2>2, <2>3
<1>4. ASSUME NEW p \in Reqs,
             \/ VerifyRight(p) \/ VerifyWrong(p) \/ ResendSend(p) \/ Fail(p)
             \/ \E t \in Scopes : VerifyRead(p, t)
      PROVE  Few(s)'
  <2>1. UNCHANGED resends
    BY <1>4 DEF VerifyRight, VerifyWrong, ResendSend, StoreCode, Fail, VerifyRead
  <2>2. req'[p].at # "count" /\ \A q \in Reqs \ {p} : req'[q] = req[q]
    BY <1>4 DEF VerifyRight, VerifyWrong, ResendSend, Fail, VerifyRead,
                Respond, Become, Idle, TypeOK
  <2> QED
    BY <1>1, <2>1, <2>2
<1>5. CASE (\E t \in Scopes : Send(t)) \/ UNCHANGED vars
  BY <1>1, <1>5 DEF Send, StoreCode, vars
<1>6. CASE Tick
  <2>1. resends'[s] = Older(resends[s]) /\ req' = req
    BY <1>6 DEF Tick
  <2>2. Resending(s)' \subseteq Resending(s)
    BY <2>1 DEF Resending
  <2> QED
    BY <1>a, <1>c, <2>1, <2>2, OlderKey
<1> QED
  BY <1>2, <1>3, <1>4, <1>5, <1>6 DEF Next
-----------------------------------------------------------------------------
\* A deleted code never comes back: the next one has a higher number
LEMMA GoneStep ==
  ASSUME TypeOK, TypeOK', Numbered, AcceptedCodesGone, [Next]_vars
  PROVE  AcceptedCodesGone'
<1> SUFFICES ASSUME NEW s \in Scopes PROVE otp'[s].n \notin accepted'[s]
  BY DEF AcceptedCodesGone
<1>a. /\ otp[s].n \notin accepted[s] /\ 0 \notin accepted'[s]
      /\ \A c \in accepted[s] : c <= issued[s]
      /\ accepted[s] \subseteq Codes /\ issued[s] \in Nat
  BY DEF AcceptedCodesGone, Numbered, TypeOK, Codes
<1>1. CASE Tick
  BY <1>1, <1>a DEF Tick, Older, Absent, TypeOK
<1>2. ASSUME NEW t \in Scopes, StoreCode(t)
      PROVE  otp'[s].n \notin accepted'[s]
  <2>1. CASE t = s
    BY <1>2, <1>a, <2>1 DEF StoreCode, TypeOK, Codes
  <2>2. CASE t # s
    BY <1>2, <1>a, <2>2 DEF StoreCode, TypeOK
  <2> QED
    BY <2>1, <2>2
<1>3. ASSUME NEW p \in Reqs, VerifyRight(p)
      PROVE  otp'[s].n \notin accepted'[s]
  <2>1. req[p].scope \in Scopes
    BY <1>3, InFlight DEF VerifyRight
  <2>2. CASE s = req[p].scope
    BY <1>3, <1>a, <2>1, <2>2 DEF VerifyRight, TypeOK, Absent
  <2>3. CASE s # req[p].scope
    BY <1>3, <1>a, <2>1, <2>3 DEF VerifyRight, TypeOK
  <2> QED
    BY <2>2, <2>3
<1>4. CASE UNCHANGED <<otp, accepted>>
  BY <1>4, <1>a
<1> QED
  BY <1>1, <1>2, <1>3, <1>4, InFlight
     DEF Next, vars, Send, VerifyRead, VerifyWrong, ResendRead, ResendCount,
         ResendSend, Fail
-----------------------------------------------------------------------------
\* No key, no request and nothing guessed: the invariant holds at the start
LEMMA Start ==
  ASSUME Init
  PROVE  IInv
<1> USE LimitAssumption
<1>1. TypeOK
  BY DEF Init, TypeOK, Key, Request, Absent, NoTtl
<1>2. Numbered /\ Counted /\ AcceptedCodesGone
  BY DEF Init, Numbered, Counted, AcceptedCodesGone, Absent, Idle
<1>3. /\ \A s \in Scopes, c \in Codes : Judging(s, c) = {}
      /\ \A s \in Scopes : Resending(s) = {}
  BY DEF Init, Judging, Resending, Idle
<1>4. Cardinality({}) = 0 /\ Cardinality(Reqs) \in Nat
  BY ReqsAssumption, FS_EmptySet, FS_CardinalityType
<1>5. Guesses
  <2>1. \A s \in Scopes, c \in Codes : wrong[s][c] = 0
    BY DEF Init
  <2>2. \A s \in Scopes, c \in Codes : Cardinality(Judging(s, c)) = 0
    BY <1>3, <1>4, Zenon
  <2>3. OTP_MAX_TRIES - 1 + Cardinality(Reqs) >= 0
    BY <1>4
  <2> QED
    BY <2>1, <2>2, <2>3 DEF Guesses
<1>6. Resends
  <2>1. \A s \in Scopes : resends[s].n = 0
    BY DEF Init, Absent
  <2>2. \A s \in Scopes : Cardinality(Resending(s)) = 0
    BY <1>3, <1>4, Zenon
  <2>3. OTP_MAX_RESEND - 1 + Cardinality(Reqs) >= 0
    BY <1>4
  <2> QED
    BY <2>1, <2>2, <2>3 DEF Resends
<1> QED
  BY <1>1, <1>2, <1>5, <1>6 DEF IInv

\* The invariant holds in every state of OtpService
LEMMA Invariance == Spec => []IInv
<1>1. Init => IInv
  BY Start
<1>2. IInv /\ [Next]_vars => IInv'
  BY TypeStep, NumberedStep, CountedStep, GuessesStep, ResendsStep, GoneStep
     DEF IInv
<1> QED
  BY <1>1, <1>2, PTL DEF Spec

\* Keys, requests and counters keep their types, so every command goes to a
\* scope that was asked for
THEOREM TypeCorrect == Spec => []TypeOK
<1>1. IInv => TypeOK
  BY DEF IInv
<1> QED
  BY <1>1, Invariance, PTL

\* However many guesses of however many codes are in flight together, and
\* whichever commands fail, verify answers "wrong" to at most
\* OTP_MAX_TRIES - 1 guesses of a code and one more per request
THEOREM CodesResistGuessing == Spec => []GuessesBounded
<1>1. IInv => GuessesBounded
  <2> SUFFICES ASSUME IInv, NEW s \in Scopes, NEW c \in Codes
               PROVE  wrong[s][c] <= OTP_MAX_TRIES - 1 + Cardinality(Reqs)
    BY DEF GuessesBounded
  <2>1. Judging(s, c) \in SUBSET Reqs
    BY DEF Judging
  <2>2. wrong[s][c] \in Nat
    BY DEF IInv, TypeOK
  <2> QED
    BY <2>1, <2>2, Counting, LimitAssumption DEF IInv, Guesses
<1> QED
  BY <1>1, Invariance, PTL

\* The resend counter passes OTP_MAX_RESEND by no more than the requests that
\* read it together
THEOREM ResendsAreBounded == Spec => []ResendsBounded
<1>1. IInv => ResendsBounded
  <2> SUFFICES ASSUME IInv, NEW s \in Scopes
               PROVE  resends[s].n <= OTP_MAX_RESEND - 1 + Cardinality(Reqs)
    BY DEF ResendsBounded
  <2>1. Resending(s) \in SUBSET Reqs
    BY DEF Resending
  <2>2. resends[s].n \in Nat
    BY DEF IInv, TypeOK, Key
  <2> QED
    BY <2>1, <2>2, Counting, LimitAssumption DEF IInv, Resends
<1> QED
  BY <1>1, Invariance, PTL

\* A code that let somebody in is deleted for good
THEOREM CodesWorkOnce == Spec => []AcceptedCodesGone
<1>1. IInv => AcceptedCodesGone
  BY DEF IInv
<1> QED
  BY <1>1, Invariance, PTL
-----------------------------------------------------------------------------
(* OtpService keeps the promise of OneTimeCode                             *)

\* A request that is done with its guess has nothing to show any more
LEMMA ShowsNoMore ==
  ASSUME TypeOK, NEW p \in Reqs, Respond(p)
  PROVE  Shown' = [Shown EXCEPT ![p] = {}]
BY DEF Shown, TypeOK, Respond, Become, Idle

\* A code that is sent is a code the promise knows as sent
LEMMA StoreIsSend ==
  ASSUME TypeOK, NEW s \in Scopes, StoreCode(s), Shown' = Shown
  PROVE  OneTime!Send(s)
<1>1. issued' = [issued EXCEPT ![s] = @ + 1] /\ UNCHANGED accepted
  BY DEF StoreCode
<1>2. Stored' = [Stored EXCEPT ![s] = issued[s] + 1]
  BY DEF StoreCode, Stored, TypeOK
<1> QED
  BY <1>1, <1>2 DEF OneTime!Send

\* A guess that is right by the stored code shows that code
LEMMA ReadIsShow ==
  ASSUME TypeOK, NEW p \in Reqs, NEW s \in Scopes, VerifyRead(p, s)
  PROVE  OneTime!Show(p, s) \/ UNCHANGED OneTime!vars
<1> DEFINE R(point) == [at |-> point, scope |-> s, code |-> otp[s].n]
<1>1. /\ req[p].at = "idle" /\ otp[s].n # 0
      /\ UNCHANGED <<otp, issued, accepted>>
      /\ \E point \in {"right", "wrong"} : req' = [req EXCEPT ![p] = R(point)]
  BY DEF VerifyRead, Become
<1>2. Stored' = Stored /\ Stored[s] = otp[s].n
  BY <1>1 DEF Stored
<1>3. CASE req' = [req EXCEPT ![p] = R("right")]
  <2>1. Shown' = [Shown EXCEPT ![p] = {<<s, otp[s].n>>}]
    BY <1>3 DEF Shown, TypeOK
  <2>2. Shown[p] = {}
    BY <1>1 DEF Shown
  <2> QED
    BY <1>1, <1>2, <2>1, <2>2 DEF OneTime!Show
<1>4. CASE req' = [req EXCEPT ![p] = R("wrong")]
  <2>1. Shown' = Shown
    BY <1>1, <1>4 DEF Shown, TypeOK
  <2> QED
    BY <1>1, <1>2, <2>1 DEF OneTime!vars
<1> QED
  BY <1>1, <1>3, <1>4

\* Who showed the code is let in, or turned away by a command that failed; the
\* commands delete whatever code the scope has by then
LEMMA RightIsEnter ==
  ASSUME TypeOK, Numbered, NEW p \in Reqs, req[p].at = "right",
         VerifyRight(p) \/ Fail(p)
  PROVE  \E s \in Scopes : \E c \in 1..issued[s] : OneTime!Enter(p, s, c)
<1> DEFINE s == req[p].scope
           c == req[p].code
<1>1. s \in Scopes /\ c \in 1..issued[s]
  BY InFlight DEF Numbered, TypeOK, Codes
<1>2. Shown[p] = {<<s, c>>}
  BY DEF Shown
<1>3. Shown' = [Shown EXCEPT ![p] = {}] /\ UNCHANGED issued
  BY ShowsNoMore DEF VerifyRight, Fail
<1>4. CASE VerifyRight(p)
  <2>1. Stored' = [Stored EXCEPT ![s] = 0]
    BY <1>1, <1>4 DEF VerifyRight, Stored, Absent, TypeOK
  <2>2. \/ accepted' = [accepted EXCEPT ![s] = @ \cup {c}]
        \/ UNCHANGED accepted
    BY <1>4 DEF VerifyRight
  <2>3. OneTime!Enter(p, s, c)
    BY <1>2, <1>3, <2>1, <2>2 DEF OneTime!Enter
  <2> QED
    BY <1>1, <2>3
<1>5. CASE Fail(p)
  <2>1. Stored' = Stored /\ UNCHANGED accepted
    BY <1>5 DEF Fail, Stored
  <2>2. OneTime!Enter(p, s, c)
    BY <1>2, <1>3, <2>1 DEF OneTime!Enter
  <2> QED
    BY <1>1, <2>2
<1> QED
  BY <1>4, <1>5

\* Every step of OtpService is a step of OneTimeCode, or none
LEMMA Keeps ==
  ASSUME TypeOK, Numbered, [Next]_vars
  PROVE  [OneTime!Next]_(OneTime!vars)
<1>1. CASE Tick
  <2> DEFINE S == {s \in Scopes : otp'[s].n = 0}
  <2>1. \A s \in Scopes : otp'[s].n \in {0, otp[s].n}
    BY <1>1 DEF Tick, Older, Absent, TypeOK
  <2>2. Stored' = [s \in Scopes |-> IF s \in S THEN 0 ELSE Stored[s]]
    BY <2>1 DEF Stored
  <2>3. Shown' = Shown
    BY <1>1 DEF Tick, Shown
  <2>4. OneTime!Lapse(S)
    BY <1>1, <2>2, <2>3 DEF Tick, OneTime!Lapse
  <2> QED
    BY <2>4 DEF OneTime!Next
<1>2. ASSUME NEW s \in Scopes, Send(s)
      PROVE  OneTime!Next
  <2>1. OneTime!Send(s)
    BY <1>2, StoreIsSend DEF Send, Shown
  <2> QED
    BY <2>1 DEF OneTime!Next
<1>3. ASSUME NEW s \in Scopes, NEW p \in Reqs, VerifyRead(p, s)
      PROVE  [OneTime!Next]_(OneTime!vars)
  BY <1>3, ReadIsShow DEF OneTime!Next
<1>4. ASSUME NEW p \in Reqs, req[p].at = "right", VerifyRight(p) \/ Fail(p)
      PROVE  OneTime!Next
  BY <1>4, RightIsEnter DEF OneTime!Next
<1>5. ASSUME NEW p \in Reqs, ResendSend(p)
      PROVE  OneTime!Next
  <2>1. req[p].scope \in Scopes
    BY <1>5, InFlight DEF ResendSend
  <2>2. Shown' = Shown
    BY <1>5 DEF ResendSend, Respond, Become, Idle, Shown, TypeOK
  <2>3. OneTime!Send(req[p].scope)
    BY <1>5, <2>1, <2>2, StoreIsSend DEF ResendSend
  <2> QED
    BY <2>1, <2>3 DEF OneTime!Next
<1>6. ASSUME NEW p \in Reqs,
             \/ \E s \in BookingIds : ResendRead(p, s)
             \/ VerifyWrong(p) \/ ResendCount(p)
             \/ Fail(p) /\ req[p].at # "right"
      PROVE  UNCHANGED OneTime!vars
  <2>1. UNCHANGED <<otp, issued, accepted>> /\ req[p].at # "right"
    BY <1>6 DEF ResendRead, VerifyWrong, ResendCount, Fail
  <2>2. \E r : req' = [req EXCEPT ![p] = r] /\ r.at # "right"
    <3>1. Idle.at # "right" /\ [req[p] EXCEPT !.at = "send"].at # "right"
      <4>1. req[p] \in Request
        BY DEF TypeOK
      <4> QED
        BY <4>1 DEF Request, Idle
    <3>2. CASE \E s \in BookingIds : ResendRead(p, s)
      BY <3>2 DEF ResendRead, Become
    <3>3. CASE VerifyWrong(p)
      BY <3>1, <3>3 DEF VerifyWrong, Respond, Become
    <3>4. CASE ResendCount(p)
      BY <3>1, <3>4 DEF ResendCount, Respond, Become
    <3>5. CASE Fail(p)
      BY <3>1, <3>5 DEF Fail, Respond, Become
    <3> QED
      BY <1>6, <3>2, <3>3, <3>4, <3>5
  <2>3. Shown' = Shown
    <3> PICK r : req' = [req EXCEPT ![p] = r] /\ r.at # "right"
      BY <2>2
    <3> QED
      BY <2>1 DEF Shown, TypeOK
  <2> QED
    BY <2>1, <2>3 DEF Stored, OneTime!vars
<1>7. CASE UNCHANGED vars
  BY <1>7 DEF vars, Stored, Shown, OneTime!vars
<1>8. ASSUME NEW p \in Reqs,
             \/ \E s \in BookingIds : ResendRead(p, s)
             \/ VerifyWrong(p) \/ VerifyRight(p)
             \/ ResendCount(p) \/ ResendSend(p) \/ Fail(p)
      PROVE  [OneTime!Next]_(OneTime!vars)
  <2>1. VerifyRight(p) => req[p].at = "right"
    BY DEF VerifyRight
  <2> QED
    BY <1>4, <1>5, <1>6, <1>8, <2>1
<1> QED
  BY <1>1, <1>2, <1>3, <1>7, <1>8 DEF Next

\* Whatever requests do at once, and whichever commands fail, the keys of
\* OtpService behave as codes that are replaced, admit somebody and go, or lapse
THEOREM CodesImplementPromise == Spec => ImplementsOneTimeCode
<1>1. Init => OneTime!Init
  BY DEF Init, OneTime!Init, Stored, Shown, Absent, Idle
<1>2. IInv /\ [Next]_vars => [OneTime!Next]_(OneTime!vars)
  BY Keeps DEF IInv
<1> QED
  BY <1>1, <1>2, Invariance, PTL
     DEF Spec, ImplementsOneTimeCode, OneTime!Spec
-----------------------------------------------------------------------------
(* What the promise is worth, whoever implements it                        *)

\* a code that admitted somebody is not the code of its scope, and was sent
Spent ==
  /\ \A s \in Scopes : Stored[s] \in 0..issued[s]
  /\ \A s \in Scopes : \A c \in accepted[s] :
       c \in 1..issued[s] /\ c # Stored[s]

\* The codes of OneTimeCode are numbered, and a spent one stays behind
LEMMA SpentStep ==
  ASSUME OneTime!TypeOK, Spent, OneTime!Next
  PROVE  OneTime!TypeOK' /\ Spent'
<1> USE DEF OneTime!TypeOK
<1>1. ASSUME NEW s \in Scopes, OneTime!Send(s)
      PROVE  OneTime!TypeOK' /\ Spent'
  <2>1. issued'[s] = issued[s] + 1 /\ Stored'[s] = issued[s] + 1
        /\ UNCHANGED <<accepted, Shown>>
    BY <1>1 DEF OneTime!Send
  <2>2. \A t \in Scopes \ {s} : issued'[t] = issued[t] /\ Stored'[t] = Stored[t]
    BY <1>1 DEF OneTime!Send
  <2>3. OneTime!TypeOK'
    BY <1>1 DEF OneTime!Send
  <2>4. ASSUME NEW t \in Scopes
        PROVE  /\ Stored'[t] \in 0..issued'[t]
               /\ \A c \in accepted'[t] : c \in 1..issued'[t] /\ c # Stored'[t]
    BY <2>1, <2>2 DEF Spent
  <2> QED
    BY <2>3, <2>4 DEF Spent
<1>2. ASSUME NEW p \in Reqs, NEW s \in Scopes, OneTime!Show(p, s)
      PROVE  OneTime!TypeOK' /\ Spent'
  BY <1>2 DEF OneTime!Show, Spent
<1>3. ASSUME NEW p \in Reqs, NEW s \in Scopes, NEW c \in 1..issued[s],
             OneTime!Enter(p, s, c)
      PROVE  OneTime!TypeOK' /\ Spent'
  <2>a. issued' = issued /\ issued[s] \in Nat /\ c \in Nat
    BY <1>3 DEF OneTime!Enter
  <2>1. \A t \in Scopes : Stored'[t] \in {0, Stored[t]}
    BY <1>3 DEF OneTime!Enter
  <2>2. \A t \in Scopes \ {s} : accepted'[t] = accepted[t]
    BY <1>3 DEF OneTime!Enter
  <2>3. \/ accepted' = accepted
        \/ accepted'[s] = accepted[s] \cup {c} /\ Stored'[s] = 0
    BY <1>3 DEF OneTime!Enter
  <2>4. OneTime!TypeOK'
    <3>1. accepted' \in [Scopes -> SUBSET Nat]
      <4>1. accepted[s] \cup {c} \in SUBSET Nat
        BY <2>a
      <4> QED
        BY <1>3, <4>1 DEF OneTime!Enter
    <3>2. Stored' \in [Scopes -> Nat] /\ Shown' \in [Reqs -> SUBSET (Scopes \X Nat)]
      BY <1>3 DEF OneTime!Enter
    <3> QED
      BY <2>a, <3>1, <3>2
  <2>5. ASSUME NEW t \in Scopes
        PROVE  /\ Stored'[t] \in 0..issued'[t]
               /\ \A d \in accepted'[t] : d \in 1..issued'[t] /\ d # Stored'[t]
    <3>1. Stored[t] \in 0..issued[t] /\ issued[t] \in Nat
          /\ \A d \in accepted[t] : d \in 1..issued[t] /\ d # Stored[t]
      BY DEF Spent
    <3>2. CASE accepted'[t] = accepted[t]
      BY <2>a, <2>1, <3>1, <3>2
    <3>3. CASE t = s /\ accepted'[s] = accepted[s] \cup {c} /\ Stored'[s] = 0
      BY <2>a, <3>1, <3>3
    <3> QED
      BY <2>2, <2>3, <3>2, <3>3
  <2> QED
    BY <2>4, <2>5 DEF Spent
<1>4. ASSUME NEW S \in SUBSET Scopes, OneTime!Lapse(S)
      PROVE  OneTime!TypeOK' /\ Spent'
  BY <1>4 DEF OneTime!Lapse, Spent
<1> QED
  BY <1>1, <1>2, <1>3, <1>4 DEF OneTime!Next

\* No behaviour of OneTimeCode lets a guest show a code that is spent
THEOREM SpentCodesStaySpent == OneTime!Spec => OneTime!ShownBeforeUse
<1> DEFINE Bar == \A g \in Reqs, s \in Scopes : \A c \in accepted[s] :
                    <<s, c>> \in Shown'[g] => <<s, c>> \in Shown[g]
<1>1. OneTime!Init => OneTime!TypeOK /\ Spent
  BY DEF OneTime!Init, OneTime!TypeOK, Spent
<1>2. OneTime!TypeOK /\ Spent /\ [OneTime!Next]_(OneTime!vars)
      => OneTime!TypeOK' /\ Spent'
  <2>1. CASE UNCHANGED OneTime!vars
    BY <2>1 DEF OneTime!vars, OneTime!TypeOK, Spent
  <2> QED
    BY <2>1, SpentStep
<1>3. OneTime!TypeOK /\ Spent /\ OneTime!Next => Bar
  <2> SUFFICES ASSUME OneTime!TypeOK, Spent, OneTime!Next, NEW g \in Reqs,
                      NEW s \in Scopes, NEW c \in accepted[s],
                      <<s, c>> \in Shown'[g]
               PROVE  <<s, c>> \in Shown[g]
    OBVIOUS
  <2>1. CASE \E t \in Scopes : OneTime!Send(t)
    BY <2>1 DEF OneTime!Send
  <2>2. ASSUME NEW p \in Reqs, NEW t \in Scopes, OneTime!Show(p, t)
        PROVE  <<s, c>> \in Shown[g]
    <3>1. Shown' = [Shown EXCEPT ![p] = {<<t, Stored[t]>>}]
      BY <2>2 DEF OneTime!Show
    <3>2. <<s, c>> # <<t, Stored[t]>>
      BY DEF Spent
    <3> QED
      BY <3>1, <3>2 DEF OneTime!TypeOK
  <2>3. ASSUME NEW p \in Reqs, NEW t \in Scopes, NEW d, OneTime!Enter(p, t, d)
        PROVE  <<s, c>> \in Shown[g]
    BY <2>3 DEF OneTime!Enter, OneTime!TypeOK
  <2>4. ASSUME NEW S, OneTime!Lapse(S)
        PROVE  <<s, c>> \in Shown[g]
    BY <2>4 DEF OneTime!Lapse
  <2> QED
    BY <2>1, <2>2, <2>3, <2>4 DEF OneTime!Next
<1>4. OneTime!TypeOK /\ Spent /\ [OneTime!Next]_(OneTime!vars)
      => [Bar]_(OneTime!vars)
  BY <1>3
<1> QED
  BY <1>1, <1>2, <1>4, PTL DEF OneTime!Spec, OneTime!ShownBeforeUse

\* In OtpService no request finds its guess right by a code somebody was
\* already let in with
THEOREM RightGuessesAreFresh == Spec => OneTime!ShownBeforeUse
BY CodesImplementPromise, SpentCodesStaySpent, PTL DEF ImplementsOneTimeCode
=============================================================================
