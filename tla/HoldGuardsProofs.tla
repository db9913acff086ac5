--------------------------- MODULE HoldGuardsProofs ---------------------------
(***************************************************************************)
(* The safety properties of HoldGuards, for any number of phones,          *)
(* addresses and requests, any limits and any windows.                     *)
(***************************************************************************)
EXTENDS HoldGuards, FiniteSetTheorems, TLAPS

\* request r has found counter k below its limit and has not been counted yet
Past(r, k) ==
  \/ r.at \in {"hold", "count"} /\ k \in Counted(r)
  \/ r.at = "check" /\ r.next > 1 /\ k = KeysOf(r)[1]
  \/ r.at = "check" /\ r.next > 2 /\ k = KeysOf(r)[2]

Passed(k) == {p \in Reqs : Past(req[p], k)}

\* a counter, with those about to increment it
CountersBounded ==
  \A k \in Keys : rate[k].n + Cardinality(Passed(k)) <= Limit(k) - 1 + Cardinality(Reqs)

\* the counter of a watched day knows of every hold in it, and outlasts it
WatchedCounted ==
  watch.open /\ watch.left > 0 /\ watch.key \notin lapsed /\ watch.holds > 0 =>
    /\ watch.holds <= rate[watch.key].n
    /\ watch.left <= rate[watch.key].left

\* a request has found its phone free once it is past checkBlacklist, or the
\* phone is free now
FreeKnown ==
  \A p \in Reqs :
    /\ req[p].at \in {"check", "hold", "count"} => req[p].free
    /\ req[p] # Idle /\ ~Blocked(req[p].phone) => req[p].free

IInv == TypeOK /\ CountersBounded /\ WatchedCounted /\ FreeKnown
-----------------------------------------------------------------------------
\* Sets of requests are counted
LEMMA Counting ==
  ASSUME NEW S, S \subseteq Reqs
  PROVE  /\ IsFiniteSet(S)
         /\ Cardinality(S) \in Nat
         /\ Cardinality(Reqs) \in Nat
         /\ Cardinality(S) <= Cardinality(Reqs)
         /\ \A T \in SUBSET S : Cardinality(T) <= Cardinality(S)
         /\ \A p \in S : Cardinality(S \ {p}) = Cardinality(S) - 1
BY ReqsAssumption, FS_Subset, FS_CardinalityType, FS_RemoveElement

\* The three counters of a request
LEMMA ThreeKeys ==
  ASSUME NEW r, r.phone \in Phones, r.ip \in Ips
  PROVE  /\ Counted(r) = {KeysOf(r)[1], KeysOf(r)[2], KeysOf(r)[3]}
         /\ Counted(r) \subseteq Keys
         /\ \A j \in 1..3 : KeysOf(r)[j] \in Keys
<1>1. 1..3 = {1, 2, 3}
  OBVIOUS
<1>2. /\ KeysOf(r)[1] = <<"daily", r.phone>>
      /\ KeysOf(r)[2] = <<"weekly", r.phone>>
      /\ KeysOf(r)[3] = <<"daily", r.ip>>
  BY DEF KeysOf
<1>3. \A j \in 1..3 : KeysOf(r)[j] \in Keys
  BY <1>1, <1>2 DEF Keys
<1>4. QED
  BY <1>1, <1>3 DEF Counted

\* Limits and windows are positive
LEMMA Positive == \A k \in Keys : Limit(k) \in Nat \ {0} /\ Ttl(k) \in Nat \ {0}
BY LimitAssumption DEF Limit, Ttl

Counter(ttl) == [n : 0..MaxCount, left : NoTtl..ttl]

\* TypeOK with the counters as such
LEMMA CounterType ==
  ASSUME TypeOK, NEW k \in Keys PROVE rate[k] \in Counter(Ttl(k))
BY Positive DEF TypeOK, Counter, NoTtl

LEMMA CountersType ==
  ASSUME NEW f, f = [k \in Keys |-> f[k]], \A k \in Keys : f[k] \in Counter(Ttl(k))
  PROVE  /\ f \in [Keys -> [n : 0..MaxCount, left : Nat \cup {NoTtl}]]
         /\ \A k \in Keys : f[k].left <= Ttl(k)
<1>1. \A k \in Keys : /\ f[k] \in [n : 0..MaxCount, left : Nat \cup {NoTtl}]
                      /\ f[k].left <= Ttl(k)
  BY Positive DEF Counter, NoTtl
<1>2. QED
  BY <1>1

\* However many of its two commands run, a counter stays one, and loses nothing
LEMMA CountedKey ==
  ASSUME NEW ttl \in Nat \ {0}, NEW key \in Counter(ttl), key.n < MaxCount,
         NEW commands \in Int
  PROVE  /\ Count(key, ttl, commands) \in Counter(ttl)
         /\ Count(key, ttl, commands).n \in {key.n, key.n + 1}
         /\ commands >= 2 => Count(key, ttl, commands) = [n |-> key.n + 1, left |-> ttl]
         /\ commands <= 0 => Count(key, ttl, commands) = key
BY LimitAssumption DEF Count, Incr, Counter, NoTtl

\* A tick takes a counter away at its end and changes no number before
LEMMA OlderKey ==
  ASSUME NEW ttl \in Nat \ {0}, NEW key \in Counter(ttl)
  PROVE  /\ Older(key) \in Counter(ttl)
         /\ Older(key).n <= key.n
         /\ key.left > 1 => Older(key).n = key.n /\ Older(key).left = key.left - 1
<1>1. CASE key.left > 1
  BY <1>1 DEF Older, Counter, NoTtl
<1>2. CASE key.left = 1
  BY <1>2, LimitAssumption DEF Older, Counter, NoTtl, Absent
<1>3. CASE key.left < 1
  BY <1>3 DEF Older, Counter
<1>4. QED
  BY <1>1, <1>2, <1>3 DEF Counter, NoTtl
-----------------------------------------------------------------------------
(* Types *)

Flight == [at : {"miss", "fillOk", "fillBlocked", "list", "lift", "hold", "count"},
           phone : Phones, ip : Ips, free : BOOLEAN]

Check == [at : {"check"}, phone : Phones, ip : Ips, free : BOOLEAN, next : 1..3]

LEMMA InFlight ==
  ASSUME TypeOK, NEW p \in Reqs
  PROVE  /\ req[p] = Idle \/ req[p] \in Flight \/ req[p] \in Check
         /\ req[p].at = "idle" <=> req[p] = Idle
         /\ req[p].at # "idle" => /\ req[p].phone \in Phones
                                  /\ req[p].ip \in Ips
                                  /\ req[p].free \in BOOLEAN
         /\ req[p].at = "check" <=> req[p] \in Check
         /\ req[p].at = "check" => req[p].next \in 1..3
BY DEF TypeOK, Request, Idle, Flight, Check

LEMMA RequestType == /\ Idle \in Request
                     /\ Flight \subseteq Request
                     /\ Check \subseteq Request
BY DEF Request, Flight, Check

\* What a request becomes, and the others keep
LEMMA Becomes ==
  ASSUME TypeOK, NEW p \in Reqs, NEW r, Become(p, r)
  PROVE  /\ req' = [req EXCEPT ![p] = r]
         /\ req'[p] = r /\ \A q \in Reqs \ {p} : req'[q] = req[q]
         /\ r \in Request => req' \in [Reqs -> Request]
BY DEF TypeOK, Become

\* Observing changes what requests know and nothing else
LEMMA ObservedType ==
  ASSUME TypeOK, NEW p \in Reqs
  PROVE  /\ Observed[p] \in Request
         /\ Observed[p].at = req[p].at
         /\ Observed[p] = Idle <=> req[p] = Idle
         /\ req[p] # Idle => /\ Observed[p].phone = req[p].phone
                             /\ Observed[p].ip = req[p].ip
                             /\ req[p].free => Observed[p].free
                             /\ ~Bars(entry'[req[p].phone]) => Observed[p].free
         /\ req[p].at = "check" => Observed[p].next = req[p].next
<1> DEFINE r == req[p]
           o == [r EXCEPT !.free = TRUE]
<1>1. CASE r = Idle \/ Bars(entry'[r.phone])
  BY <1>1, InFlight DEF Observed, TypeOK
<1>2. CASE r # Idle /\ ~Bars(entry'[r.phone])
  <2>1. Observed[p] = o
    BY <1>2 DEF Observed
  <2>2. CASE r \in Flight
    <3>1. /\ o \in Flight /\ o.at = r.at /\ o.phone = r.phone /\ o.ip = r.ip /\ o.free
          /\ r.at # "check" /\ o.at # "idle"
      BY <2>2 DEF Flight
    <3>2. QED
      BY <1>2, <2>1, <3>1, RequestType DEF Idle
  <2>3. CASE r \in Check
    <3>1. /\ o \in Check /\ o.at = r.at /\ o.phone = r.phone /\ o.ip = r.ip /\ o.free
          /\ o.next = r.next /\ o.at # "idle"
      BY <2>3 DEF Check
    <3>2. QED
      BY <1>2, <2>1, <3>1, RequestType DEF Idle
  <2>4. QED
    BY <1>2, <2>2, <2>3, InFlight
<1>3. QED
  BY <1>1, <1>2
Day == [open : {TRUE}, key : Keys, holds : Nat, left : Nat]

\* What is watched
LEMMA WatchType ==
  ASSUME TypeOK
  PROVE  /\ watch = Unwatched \/ watch \in Day
         /\ watch.open <=> watch \in Day
         /\ watch.open => /\ watch.key \in Keys
                          /\ watch.holds \in Nat
                          /\ watch.left \in 0..Ttl(watch.key)
<1>1. watch \in {Unwatched} \cup Day /\ (watch.open => watch.left <= Ttl(watch.key))
  BY DEF TypeOK, Day
<1>2. CASE watch = Unwatched
  BY <1>2 DEF Unwatched, Day
<1>3. CASE watch \in Day
  <2>1. watch.open /\ watch.key \in Keys /\ watch.holds \in Nat /\ watch.left \in Nat
    BY <1>3 DEF Day
  <2>2. QED
    BY <1>1, <1>3, <2>1, Positive
<1>4. QED
  BY <1>1, <1>2, <1>3

\* A day that goes on is watched
LEMMA DayGoesOn ==
  ASSUME TypeOK, watch.open
  PROVE  /\ [watch EXCEPT !.holds = @ + 1] \in Day
         /\ watch.left > 0 => [watch EXCEPT !.left = @ - 1] \in Day
<1>1. watch \in Day /\ watch.holds \in Nat /\ watch.left \in Nat
  BY WatchType, Positive
<1>2. watch.holds + 1 \in Nat /\ (watch.left > 0 => watch.left - 1 \in Nat)
  BY <1>1
<1>3. \A n \in Nat : [watch EXCEPT !.holds = n] \in Day /\ [watch EXCEPT !.left = n] \in Day
  BY <1>1 DEF Day
<1>4. QED
  BY <1>2, <1>3

WatchOK == /\ watch \in {Unwatched} \cup Day
           /\ watch.open => watch.left <= Ttl(watch.key)

\* The moves of a request
LEMMA Moves ==
  ASSUME TypeOK, NEW p \in Reqs, req[p].at # "idle"
  PROVE  /\ \A at \in {"fillOk", "fillBlocked", "list", "lift", "hold", "count"} :
              req[p] \in Flight => [req[p] EXCEPT !.at = at] \in Request
         /\ \A n \in 1..3, at \in {"check"}, free \in BOOLEAN :
              [at |-> at, phone |-> req[p].phone, ip |-> req[p].ip, free |-> free,
               next |-> n] \in Request
         /\ \A at \in {"hold"}, free \in BOOLEAN :
              [at |-> at, phone |-> req[p].phone, ip |-> req[p].ip, free |-> free]
                \in Request
<1>1. req[p].phone \in Phones /\ req[p].ip \in Ips
  BY InFlight
<1>2. QED
  BY <1>1 DEF Request, Flight

LEMMA TypeTime == ASSUME TypeOK, Tick PROVE TypeOK'
<1>1. rate' = [k \in Keys |-> Older(rate[k])]
  BY DEF Tick
<1>2. rate' = [k \in Keys |-> rate'[k]] /\ \A k \in Keys : rate'[k] \in Counter(Ttl(k))
  BY <1>1, CounterType, OlderKey, Positive
<1>3. /\ rate' \in [Keys -> [n : 0..MaxCount, left : Nat \cup {NoTtl}]]
      /\ \A k \in Keys : rate'[k].left <= Ttl(k)
  BY <1>2, CountersType
<1>4. entry' \in [Phones -> [active : BOOLEAN, until : Nat \cup {Forever}]]
  <2>1. \A f \in Phones : entry[f] \in [active : BOOLEAN, until : Nat \cup {Forever}]
    BY DEF TypeOK
  <2>2. \A f \in Phones : entry[f].until > 0 =>
          [entry[f] EXCEPT !.until = @ - 1] \in [active : BOOLEAN, until : Nat \cup {Forever}]
    BY <2>1 DEF Forever
  <2>3. QED
    BY <2>1, <2>2 DEF Tick
<1>5. req' \in [Reqs -> Request]
  <2>1. Observed = [p \in Reqs |-> Observed[p]]
    BY DEF Observed
  <2>2. QED
    BY <2>1, ObservedType DEF Tick
<1>6. WatchOK'
  <2>1. CASE watch.open /\ watch.left > 0
    <3>1. watch' = [watch EXCEPT !.left = @ - 1] /\ watch \in Day
      BY <2>1, WatchType DEF Tick
    <3>2. watch' \in Day
      BY <2>1, <3>1, DayGoesOn
    <3>3. watch'.key = watch.key /\ watch'.left = watch.left - 1
      BY <3>1 DEF Day
    <3>4. QED
      BY <2>1, <3>2, <3>3, WatchType, Positive DEF WatchOK
  <2>2. CASE ~(watch.open /\ watch.left > 0)
    BY <2>2 DEF Tick, Unwatched, WatchOK
  <2>3. QED
    BY <2>1, <2>2
<1>7. QED
  BY <1>3, <1>4, <1>5, <1>6 DEF Tick, TypeOK, WatchOK, Day

LEMMA TypeCounted ==
  ASSUME TypeOK, NEW p \in Reqs, IncrementRateLimit(p) PROVE TypeOK'
<1> PICK ran \in 0..6 :
      /\ req[p].at = "count"
      /\ \A k \in Counted(req[p]) : rate[k].n < MaxCount
      /\ rate' = [k \in Keys |->
           IF k \in Counted(req[p])
           THEN Count(rate[k], Ttl(k), CommandsFor(req[p], k, ran)) ELSE rate[k]]
      /\ watch' = IF /\ watch.open /\ watch.key \in Counted(req[p])
                     /\ CommandsFor(req[p], watch.key, ran) > 0
                  THEN [watch EXCEPT !.holds = @ + 1] ELSE watch
      /\ lapsed' = lapsed \cup {k \in Counted(req[p]) : CommandsFor(req[p], k, ran) < 2}
      /\ Respond(p)
      /\ UNCHANGED <<cache, entry>>
  BY DEF IncrementRateLimit
<1>1. \A k : CommandsFor(req[p], k, ran) \in Int
  BY DEF CommandsFor
<1>2. \A k \in Keys : rate'[k] \in Counter(Ttl(k))
  BY <1>1, CounterType, CountedKey, Positive
<1>3. /\ rate' \in [Keys -> [n : 0..MaxCount, left : Nat \cup {NoTtl}]]
      /\ \A k \in Keys : rate'[k].left <= Ttl(k)
  BY <1>2, CountersType
<1>4. WatchOK'
  <2>1. CASE watch' = watch
    BY <2>1, WatchType DEF WatchOK, TypeOK
  <2>2. CASE watch.open /\ watch' = [watch EXCEPT !.holds = @ + 1]
    <3>1. watch \in Day
      BY <2>2, WatchType
    <3>2. watch' \in Day /\ watch'.key = watch.key /\ watch'.left = watch.left
      BY <2>2, <3>1, DayGoesOn DEF Day
    <3>3. QED
      BY <2>2, <3>2, WatchType DEF WatchOK
  <2>3. QED
    BY <2>1, <2>2
<1>5. lapsed' \subseteq Keys
  BY ThreeKeys, InFlight DEF TypeOK
<1>6. req' \in [Reqs -> Request]
  BY Becomes, RequestType DEF Respond
<1>7. QED
  BY <1>3, <1>4, <1>5, <1>6 DEF TypeOK, WatchOK, Day

LEMMA TypeStep == ASSUME TypeOK, [Next]_vars PROVE TypeOK'
<1>1. CASE Tick
  BY <1>1, TypeTime
<1>2. ASSUME NEW k \in Keys, Watch(k) PROVE TypeOK'
  BY <1>2, Positive DEF Watch, TypeOK
<1>3. ASSUME NEW f \in Phones, CacheExpires(f) \/ Block(f) PROVE TypeOK'
  <2>1. CASE CacheExpires(f)
    BY <2>1 DEF CacheExpires, TypeOK
  <2>2. CASE Block(f)
    <3>1. \A until \in Blocks : [active |-> TRUE, until |-> until]
                                \in [active : BOOLEAN, until : Nat \cup {Forever}]
      BY LimitAssumption
    <3>2. entry' \in [Phones -> [active : BOOLEAN, until : Nat \cup {Forever}]]
      BY <2>2, <3>1 DEF Block, TypeOK
    <3>3. QED
      BY <2>2, <3>2 DEF Block, TypeOK
  <2>3. QED
    BY <1>3, <2>1, <2>2
<1>4. ASSUME NEW p \in Reqs, NEW f \in Phones, NEW i \in Ips, CacheGet(p, f, i)
      PROVE  TypeOK'
  <2>1. [at |-> IF cache[f] = "ok" THEN "list" ELSE "miss",
         phone |-> f, ip |-> i, free |-> ~Blocked(f)] \in Request
    BY DEF Request, Blocked, Bars
  <2>2. req' \in [Reqs -> Request]
    BY <1>4, <2>1, Becomes DEF CacheGet
  <2>3. QED
    BY <1>4, <2>2 DEF CacheGet, TypeOK
<1>5. ASSUME NEW p \in Reqs,
             \/ CacheMiss(p) \/ CacheFill(p) \/ CheckBlacklist(p) \/ CheckRate(p)
             \/ Hold(p) \/ Fail(p)
      PROVE  TypeOK'
  <2>1. req[p].at # "idle" /\ req[p].phone \in Phones /\ req[p].ip \in Ips
                           /\ req[p].free \in BOOLEAN
    BY <1>5, InFlight DEF CacheMiss, CacheFill, CheckBlacklist, CheckRate, Hold, Fail
  <2>2. PICK r : Become(p, r) /\ r \in Request
    <3>1. CASE CacheMiss(p)
      BY <3>1, <2>1, Moves, InFlight DEF CacheMiss, Goto, Flight, Check, Idle
    <3>2. CASE CacheFill(p)
      BY <3>2, <2>1, Moves, InFlight, RequestType DEF CacheFill, Goto, Respond, Check, Idle
    <3>3. CASE CheckBlacklist(p)
      <4>1. req[p].at = "list" /\ req[p] \in Flight
        BY <3>3, InFlight DEF CheckBlacklist, Check, Idle
      <4>2. CASE Respond(p)
        BY <4>2, RequestType DEF Respond
      <4>3. CASE Goto(p, "lift")
        BY <4>1, <4>3, Moves DEF Goto
      <4>4. CASE CheckFrom(p, 1)
        <5>1. [at |-> "check", phone |-> req[p].phone, ip |-> req[p].ip,
               free |-> req[p].free, next |-> 1] \in Request
          BY <2>1 DEF Request
        <5>2. QED
          BY <4>4, <5>1 DEF CheckFrom
      <4>5. QED
        BY <3>3, <4>2, <4>3, <4>4 DEF CheckBlacklist
    <3>4. CASE CheckRate(p)
      <4>1. req[p].next \in 1..3
        BY <3>4, InFlight DEF CheckRate
      <4>2. req[p].next < 3 => req[p].next + 1 \in 1..3
        BY <4>1
      <4>3. QED
        BY <3>4, <4>2, <2>1, Moves, RequestType DEF CheckRate, Respond, CheckFrom
    <3>5. CASE Hold(p)
      BY <3>5, <2>1, Moves, InFlight, RequestType DEF Hold, Goto, Respond, Check, Idle
    <3>6. CASE Fail(p)
      BY <3>6, RequestType DEF Fail, Respond
    <3>7. QED
      BY <1>5, <3>1, <3>2, <3>3, <3>4, <3>5, <3>6
  <2>3. req' \in [Reqs -> Request]
    BY <2>2, Becomes
  <2>4. cache' \in [Phones -> {"none", "ok", "blocked"}]
    BY <1>5, <2>1 DEF CacheMiss, CacheFill, CheckBlacklist, CheckRate, Hold, Fail, TypeOK
  <2>5. lapsed' \subseteq Keys
    BY <1>5, <2>1, ThreeKeys
       DEF CacheMiss, CacheFill, CheckBlacklist, CheckRate, Hold, Fail, TypeOK
  <2>6. UNCHANGED <<entry, rate, watch>>
    BY <1>5 DEF CacheMiss, CacheFill, CheckBlacklist, CheckRate, Hold, Fail
  <2>7. QED
    BY <2>3, <2>4, <2>5, <2>6 DEF TypeOK
<1>6. ASSUME NEW p \in Reqs, Lift(p) PROVE TypeOK'
  <2>1. req[p].phone \in Phones /\ req[p].ip \in Ips /\ req[p].at # "idle"
    BY <1>6, InFlight DEF Lift
  <2>2. Observed = [q \in Reqs |-> Observed[q]] /\ \A q \in Reqs : Observed[q] \in Request
    BY ObservedType DEF Observed
  <2>3. req' \in [Reqs -> Request]
    <3>1. [at |-> "check", phone |-> req[p].phone, ip |-> req[p].ip, free |-> TRUE,
           next |-> 1] \in Request
      BY <2>1 DEF Request
    <3>2. QED
      BY <1>6, <2>2, <3>1 DEF Lift
  <2>4. entry' \in [Phones -> [active : BOOLEAN, until : Nat \cup {Forever}]]
    BY <1>6, <2>1 DEF Lift, TypeOK, NotListed
  <2>5. QED
    BY <1>6, <2>3, <2>4 DEF Lift, TypeOK
<1>7. ASSUME NEW p \in Reqs, IncrementRateLimit(p) PROVE TypeOK'
  BY <1>7, TypeCounted
<1>8. CASE UNCHANGED vars
  BY <1>8 DEF vars, TypeOK
<1>9. QED
  BY <1>1, <1>2, <1>3, <1>4, <1>5, <1>6, <1>7, <1>8 DEF Next

LEMMA TypeInit == Init => TypeOK
<1> SUFFICES ASSUME Init PROVE TypeOK
  OBVIOUS
<1>1. req \in [Reqs -> Request]
  BY RequestType DEF Init
<1>2. rate = [k \in Keys |-> rate[k]] /\ \A k \in Keys : rate[k] \in Counter(Ttl(k))
  BY LimitAssumption, Positive DEF Init, Absent, Counter, NoTtl
<1>3. /\ rate \in [Keys -> [n : 0..MaxCount, left : Nat \cup {NoTtl}]]
      /\ \A k \in Keys : rate[k].left <= Ttl(k)
  BY <1>2, CountersType
<1>4. QED
  BY <1>1, <1>3 DEF Init, TypeOK, NotListed, Unwatched
-----------------------------------------------------------------------------
(* The limit *)

\* What a request is past depends on its keys and on where it is, and nobody who
\* is observed moves
LEMMA PastObserved ==
  ASSUME TypeOK, NEW p \in Reqs, NEW k PROVE Past(Observed[p], k) <=> Past(req[p], k)
<1>1. CASE req[p] = Idle
  BY <1>1, ObservedType, InFlight DEF Past, Idle
<1>2. CASE req[p] # Idle
  <2>1. /\ Observed[p].at = req[p].at
        /\ Observed[p].phone = req[p].phone /\ Observed[p].ip = req[p].ip
        /\ req[p].at = "check" => Observed[p].next = req[p].next
    BY <1>2, ObservedType
  <2>2. KeysOf(Observed[p]) = KeysOf(req[p])
    BY <2>1 DEF KeysOf
  <2>3. QED
    BY <2>1, <2>2 DEF Past, Counted
<1>3. QED
  BY <1>1, <1>2

Bounded(k) == rate[k].n + Cardinality(Passed(k)) <= Limit(k) - 1 + Cardinality(Reqs)

\* The bound stays where a counter does not grow and nobody comes to be past it
LEMMA NoMore ==
  ASSUME TypeOK, TypeOK', NEW k \in Keys, Bounded(k),
         rate'[k].n <= rate[k].n, Passed(k)' \subseteq Passed(k)
  PROVE  Bounded(k)'
<1>1. rate[k].n \in Nat /\ rate'[k].n \in Nat
  BY DEF TypeOK
<1>2. Passed(k) \subseteq Reqs /\ Passed(k)' \in SUBSET Passed(k)
  BY DEF Passed
<1>3. /\ Cardinality(Passed(k)') <= Cardinality(Passed(k))
      /\ Cardinality(Passed(k)) \in Nat /\ Cardinality(Reqs) \in Nat
  BY <1>2, Counting
<1>4. Cardinality(Passed(k)') \in Nat
  BY <1>2, Counting
<1>5. QED
  BY <1>1, <1>3, <1>4, Positive DEF Bounded

\* and where a request that finds the counter below its limit is added
LEMMA OneMore ==
  ASSUME TypeOK', NEW k \in Keys, rate'[k].n < Limit(k)
  PROVE  Bounded(k)'
<1>1. rate'[k].n \in Nat
  BY DEF TypeOK
<1>2. Passed(k)' \subseteq Reqs
  BY DEF Passed
<1>3. /\ Cardinality(Passed(k)') <= Cardinality(Reqs)
      /\ Cardinality(Passed(k)') \in Nat /\ Cardinality(Reqs) \in Nat
  BY <1>2, Counting
<1>4. QED
  BY <1>1, <1>3, Positive DEF Bounded

\* A step of one request, which is past no counter that it was not past
LEMMA OneMoves ==
  ASSUME NEW p \in Reqs, NEW k,
         \A q \in Reqs \ {p} : req'[q] = req[q],
         Past(req'[p], k) => Past(req[p], k)
  PROVE  Passed(k)' \subseteq Passed(k)
BY DEF Passed

\* A hold is counted: who incremented the counter is past it no more
LEMMA BoundedCounted ==
  ASSUME TypeOK, TypeOK', CountersBounded, NEW p \in Reqs, IncrementRateLimit(p)
  PROVE  CountersBounded'
<1> SUFFICES ASSUME NEW k \in Keys PROVE Bounded(k)'
  BY DEF CountersBounded, Bounded
<1>1. Bounded(k)
  BY DEF CountersBounded, Bounded
<1>2. PICK ran \in 0..6 :
        /\ req[p].at = "count"
        /\ \A l \in Counted(req[p]) : rate[l].n < MaxCount
        /\ rate' = [l \in Keys |->
             IF l \in Counted(req[p])
             THEN Count(rate[l], Ttl(l), CommandsFor(req[p], l, ran)) ELSE rate[l]]
        /\ Respond(p)
  BY DEF IncrementRateLimit
<1>3. req'[p] = Idle /\ \A q \in Reqs \ {p} : req'[q] = req[q]
  BY <1>2, Becomes DEF Respond
<1>4. Passed(k)' \subseteq Passed(k)
  BY <1>3, OneMoves DEF Past, Idle
<1>5. CASE k \notin Counted(req[p])
  <2>1. rate'[k] = rate[k]
    BY <1>2, <1>5
  <2>2. rate[k].n \in Nat
    BY DEF TypeOK
  <2>3. QED
    BY <1>1, <1>4, <2>1, <2>2, NoMore
<1>6. CASE k \in Counted(req[p])
  <2>1. CommandsFor(req[p], k, ran) \in Int
    BY DEF CommandsFor
  <2>2. rate'[k].n \in {rate[k].n, rate[k].n + 1} /\ rate[k].n \in Nat
    BY <1>2, <1>6, <2>1, CounterType, CountedKey, Positive DEF Counter
  <2>3. p \in Passed(k) /\ Passed(k) \subseteq Reqs
    BY <1>2, <1>6 DEF Passed, Past
  <2>4. Passed(k)' \in SUBSET (Passed(k) \ {p})
    BY <1>3, <1>4 DEF Passed, Past, Idle
  <2>5. /\ Cardinality(Passed(k)) \in Nat /\ Cardinality(Reqs) \in Nat
        /\ Cardinality(Passed(k) \ {p}) = Cardinality(Passed(k)) - 1
        /\ Cardinality(Passed(k)') <= Cardinality(Passed(k) \ {p})
        /\ Cardinality(Passed(k)') \in Nat
    <3>1. (Passed(k) \ {p}) \subseteq Reqs /\ Passed(k)' \subseteq Reqs
      BY <2>3, <2>4
    <3>2. QED
      BY <2>3, <2>4, <3>1, Counting
  <2>6. QED
    BY <1>1, <2>2, <2>5, Positive DEF Bounded
<1>7. QED
  BY <1>5, <1>6

LEMMA BoundedStep ==
  ASSUME TypeOK, TypeOK', CountersBounded, [Next]_vars PROVE CountersBounded'
<1>1. \A k \in Keys : rate[k].n \in Nat
  BY DEF TypeOK
<1>2. CASE Tick
  <2> SUFFICES ASSUME NEW k \in Keys PROVE Bounded(k)'
    BY DEF CountersBounded, Bounded
  <2>1. rate'[k].n <= rate[k].n
    BY <1>2, CounterType, OlderKey, Positive DEF Tick
  <2>2. Passed(k)' \subseteq Passed(k)
    BY <1>2, PastObserved DEF Tick, Passed
  <2>3. QED
    BY <2>1, <2>2, NoMore DEF CountersBounded, Bounded
<1>3. ASSUME NEW p \in Reqs, NEW f \in Phones, NEW i \in Ips, CacheGet(p, f, i)
      PROVE  CountersBounded'
  <2> SUFFICES ASSUME NEW k \in Keys PROVE Bounded(k)'
    BY DEF CountersBounded, Bounded
  <2>1. req'[p].at \in {"list", "miss"} /\ \A q \in Reqs \ {p} : req'[q] = req[q]
    BY <1>3, Becomes DEF CacheGet
  <2>2. Passed(k)' \subseteq Passed(k)
    BY <2>1, OneMoves DEF Past
  <2>3. QED
    BY <1>1, <1>3, <2>2, NoMore DEF CacheGet, CountersBounded, Bounded
<1>4. ASSUME NEW p \in Reqs,
             CacheMiss(p) \/ CacheFill(p) \/ CheckBlacklist(p) \/ Hold(p) \/ Fail(p)
      PROVE  CountersBounded'
  <2> SUFFICES ASSUME NEW k \in Keys PROVE Bounded(k)'
    BY DEF CountersBounded, Bounded
  <2>1. req[p].at # "idle" /\ (req[p] \in Flight \/ req[p] \in Check)
    BY <1>4, InFlight DEF CacheMiss, CacheFill, CheckBlacklist, Hold, Fail
  <2>2. PICK r :
          /\ Become(p, r)
          /\ \/ r.at \in {"idle", "fillOk", "fillBlocked", "list", "lift"}
             \/ r.at = "check" /\ r.next = 1
             \/ req[p].at = "hold" /\ r = [req[p] EXCEPT !.at = "count"]
    <3>1. CASE CacheMiss(p)
      BY <3>1, <2>1 DEF CacheMiss, Goto, Flight, Check
    <3>2. CASE CacheFill(p)
      BY <3>2, <2>1 DEF CacheFill, Goto, Respond, Flight, Check, Idle
    <3>3. CASE CheckBlacklist(p)
      BY <3>3, <2>1 DEF CheckBlacklist, Goto, Respond, CheckFrom, Flight, Check, Idle
    <3>4. CASE Hold(p)
      BY <3>4 DEF Hold, Goto, Respond, Idle
    <3>5. CASE Fail(p)
      BY <3>5 DEF Fail, Respond, Idle
    <3>6. QED
      BY <1>4, <3>1, <3>2, <3>3, <3>4, <3>5
  <2>3. req'[p] = r /\ \A q \in Reqs \ {p} : req'[q] = req[q]
    BY <2>2, Becomes
  <2>4. Past(r, k) => Past(req[p], k)
    <3>1. CASE req[p].at = "hold" /\ r = [req[p] EXCEPT !.at = "count"]
      <4>1. r.at = "count" /\ r.phone = req[p].phone /\ r.ip = req[p].ip
        BY <2>1, <3>1 DEF Flight, Check
      <4>2. Counted(r) = Counted(req[p])
        BY <4>1 DEF Counted, KeysOf
      <4>3. QED
        BY <3>1, <4>1, <4>2 DEF Past
    <3>2. CASE ~(req[p].at = "hold" /\ r = [req[p] EXCEPT !.at = "count"])
      BY <2>2, <3>2 DEF Past
    <3>3. QED
      BY <3>1, <3>2
  <2>5. Passed(k)' \subseteq Passed(k)
    BY <2>3, <2>4, OneMoves
  <2>6. UNCHANGED rate
    BY <1>4 DEF CacheMiss, CacheFill, CheckBlacklist, Hold, Fail
  <2>7. QED
    BY <1>1, <2>5, <2>6, NoMore DEF CountersBounded, Bounded
<1>5. ASSUME NEW p \in Reqs, Lift(p) PROVE CountersBounded'
  <2> SUFFICES ASSUME NEW k \in Keys PROVE Bounded(k)'
    BY DEF CountersBounded, Bounded
  <2>1. \A q \in Reqs \ {p} : req'[q] = Observed[q]
    BY <1>5 DEF Lift, Observed
  <2>2. req'[p].at = "check" /\ req'[p].next = 1
    BY <1>5 DEF Lift, Observed
  <2>3. Passed(k)' \subseteq Passed(k)
    BY <2>1, <2>2, PastObserved DEF Passed, Past
  <2>4. QED
    BY <1>1, <1>5, <2>3, NoMore DEF Lift, CountersBounded, Bounded
<1>6. ASSUME NEW p \in Reqs, CheckRate(p) PROVE CountersBounded'
  <2> SUFFICES ASSUME NEW k \in Keys PROVE Bounded(k)'
    BY DEF CountersBounded, Bounded
  <2> DEFINE n == req[p].next
             own == KeysOf(req[p])[n]
  <2>1. /\ req[p].at = "check" /\ n \in 1..3
        /\ req[p].phone \in Phones /\ req[p].ip \in Ips /\ UNCHANGED rate
    BY <1>6, InFlight DEF CheckRate
  <2>2. PICK r :
          /\ Become(p, r)
          /\ \/ r = Idle
             \/ /\ rate[own].n < Limit(own) /\ n < 3
                /\ r = [at |-> "check", phone |-> req[p].phone, ip |-> req[p].ip,
                        free |-> req[p].free, next |-> n + 1]
             \/ /\ rate[own].n < Limit(own) /\ n = 3
                /\ r = [at |-> "hold", phone |-> req[p].phone, ip |-> req[p].ip,
                        free |-> req[p].free]
    <3>1. own \in Keys
      BY <2>1, ThreeKeys
    <3>2. rate[own].n \in Nat /\ Limit(own) \in Nat
      BY <3>1, <1>1, Positive
    <3>3. CASE rate[own].n >= Limit(own)
      BY <1>6, <3>3 DEF CheckRate, Respond
    <3>4. CASE rate[own].n < Limit(own) /\ n < 3
      BY <1>6, <3>2, <3>4 DEF CheckRate, CheckFrom
    <3>5. CASE rate[own].n < Limit(own) /\ n = 3
      BY <1>6, <3>2, <3>5 DEF CheckRate
    <3>6. QED
      BY <2>1, <3>2, <3>3, <3>4, <3>5
  <2>3. req'[p] = r /\ \A q \in Reqs \ {p} : req'[q] = req[q]
    BY <2>2, Becomes
  <2>4. Past(r, k) => Past(req[p], k) \/ (k = own /\ rate[k].n < Limit(k))
    <3>1. CASE r = Idle
      BY <3>1 DEF Past, Idle
    <3>2. CASE r # Idle
      <4>1. KeysOf(r) = KeysOf(req[p])
        BY <2>2, <3>2 DEF KeysOf
      <4>2. Counted(r) = {KeysOf(r)[1], KeysOf(r)[2], KeysOf(r)[3]}
        BY <2>1, <2>2, <3>2, ThreeKeys
      <4>3. QED
        BY <2>1, <2>2, <3>2, <4>1, <4>2 DEF Past
    <3>3. QED
      BY <3>1, <3>2
  <2>5. CASE rate[k].n < Limit(k)
    BY <2>1, <2>5, OneMore
  <2>6. CASE ~(rate[k].n < Limit(k))
    <3>1. Passed(k)' \subseteq Passed(k)
      BY <2>3, <2>4, <2>6, OneMoves
    <3>2. QED
      BY <1>1, <2>1, <3>1, NoMore DEF CountersBounded, Bounded
  <2>7. QED
    BY <2>5, <2>6
<1>7. ASSUME NEW p \in Reqs, IncrementRateLimit(p) PROVE CountersBounded'
  BY <1>7, BoundedCounted
<1>8. ASSUME UNCHANGED <<rate, req>> PROVE CountersBounded'
  BY <1>8 DEF CountersBounded, Passed
<1>9. ASSUME NEW k \in Keys, Watch(k) PROVE CountersBounded'
  BY <1>8, <1>9 DEF Watch
<1>10. ASSUME NEW f \in Phones, CacheExpires(f) \/ Block(f) PROVE CountersBounded'
  BY <1>8, <1>10 DEF CacheExpires, Block
<1>11. CASE UNCHANGED vars
  BY <1>8, <1>11 DEF vars
<1>12. QED
  BY <1>2, <1>3, <1>4, <1>5, <1>6, <1>7, <1>9, <1>10, <1>11 DEF Next
-----------------------------------------------------------------------------
(* The day that is watched *)

LEMMA WatchStep ==
  ASSUME TypeOK, WatchedCounted, [Next]_vars PROVE WatchedCounted'
<1>1. CASE Tick
  <2> SUFFICES ASSUME watch'.open, watch'.left > 0, watch'.key \notin lapsed,
                      watch'.holds > 0
               PROVE  /\ watch'.holds <= rate'[watch'.key].n
                      /\ watch'.left <= rate'[watch'.key].left
    BY <1>1 DEF WatchedCounted, Tick
  <2> DEFINE k == watch.key
  <2>1. watch.open /\ watch.left > 0 /\ watch' = [watch EXCEPT !.left = @ - 1]
    BY <1>1 DEF Tick, Unwatched
  <2>2. watch \in Day /\ watch.left \in Nat /\ k \in Keys
    BY <2>1, WatchType, Positive
  <2>3. watch'.key = k /\ watch'.holds = watch.holds /\ watch'.left = watch.left - 1
    BY <2>1, <2>2 DEF Day
  <2>4. watch.holds <= rate[k].n /\ watch.left <= rate[k].left
    BY <2>1, <2>3 DEF WatchedCounted
  <2>5. rate[k] \in Counter(Ttl(k)) /\ rate[k].left \in Int
    BY <2>2, CounterType, Positive DEF Counter, NoTtl
  <2>6. rate[k].left > 1
    BY <2>2, <2>3, <2>4, <2>5
  <2>7. rate'[k] = Older(rate[k])
    BY <1>1, <2>2 DEF Tick
  <2>8. rate'[k].n = rate[k].n /\ rate'[k].left = rate[k].left - 1
    BY <2>2, <2>5, <2>6, <2>7, OlderKey, Positive
  <2>9. QED
    BY <2>2, <2>3, <2>4, <2>5, <2>8
<1>2. ASSUME NEW k \in Keys, Watch(k) PROVE WatchedCounted'
  BY <1>2 DEF Watch, WatchedCounted
<1>3. ASSUME NEW p \in Reqs, IncrementRateLimit(p) PROVE WatchedCounted'
  <2> DEFINE k == watch.key
  <2>1. PICK ran \in 0..6 :
          /\ req[p].at = "count"
          /\ \A l \in Counted(req[p]) : rate[l].n < MaxCount
          /\ rate' = [l \in Keys |->
               IF l \in Counted(req[p])
               THEN Count(rate[l], Ttl(l), CommandsFor(req[p], l, ran)) ELSE rate[l]]
          /\ watch' = IF /\ watch.open /\ watch.key \in Counted(req[p])
                         /\ CommandsFor(req[p], watch.key, ran) > 0
                      THEN [watch EXCEPT !.holds = @ + 1] ELSE watch
          /\ lapsed' = lapsed \cup {l \in Counted(req[p]) : CommandsFor(req[p], l, ran) < 2}
    BY <1>3 DEF IncrementRateLimit
  <2> SUFFICES ASSUME watch'.open, watch'.left > 0, watch'.key \notin lapsed',
                      watch'.holds > 0
               PROVE  /\ watch'.holds <= rate'[watch'.key].n
                      /\ watch'.left <= rate'[watch'.key].left
    BY DEF WatchedCounted
  <2>2. watch.open
    BY <2>1
  <2>3. watch \in Day /\ k \in Keys /\ watch.holds \in Nat /\ watch.left \in 0..Ttl(k)
    BY <2>2, WatchType
  <2>4. watch'.key = k /\ watch'.left = watch.left
    BY <2>1, <2>3 DEF Day
  <2>5. k \notin lapsed
    BY <2>1, <2>4
  <2>6. rate[k].n \in Nat
    BY <2>3 DEF TypeOK
  <2>7. CASE k \notin Counted(req[p])
    <3>1. watch' = watch /\ rate'[k] = rate[k]
      BY <2>1, <2>3, <2>7
    <3>2. QED
      BY <2>5, <3>1 DEF WatchedCounted
  <2>8. CASE k \in Counted(req[p])
    <3> DEFINE commands == CommandsFor(req[p], k, ran)
    <3>1. commands \in Int
      BY DEF CommandsFor
    <3>2. ~(commands < 2)
      BY <2>1, <2>4, <2>8
    <3>3. watch'.holds = watch.holds + 1
      BY <2>1, <2>2, <2>3, <2>8, <3>1, <3>2 DEF Day
    <3>4. rate'[k] = Count(rate[k], Ttl(k), commands)
      BY <2>1, <2>3, <2>8
    <3>5. rate'[k] = [n |-> rate[k].n + 1, left |-> Ttl(k)]
      BY <2>1, <2>3, <2>8, <3>1, <3>2, <3>4, CounterType, CountedKey, Positive
    <3>6. watch.holds <= rate[k].n
      BY <2>2, <2>3, <2>4, <2>5, <2>6 DEF WatchedCounted
    <3>7. QED
      BY <2>3, <2>4, <2>6, <3>3, <3>5, <3>6, Positive
  <2>9. QED
    BY <2>7, <2>8
<1>4. ASSUME UNCHANGED <<watch, rate>>, lapsed \subseteq lapsed' PROVE WatchedCounted'
  BY <1>4 DEF WatchedCounted
<1>5. ASSUME NEW f \in Phones, CacheExpires(f) \/ Block(f) PROVE WatchedCounted'
  BY <1>4, <1>5 DEF CacheExpires, Block
<1>6. ASSUME NEW p \in Reqs,
             \/ \E f \in Phones, i \in Ips : CacheGet(p, f, i)
             \/ CacheMiss(p) \/ CacheFill(p) \/ CheckBlacklist(p) \/ Lift(p)
             \/ CheckRate(p) \/ Hold(p) \/ Fail(p)
      PROVE  WatchedCounted'
  BY <1>4, <1>6 DEF CacheGet, CacheMiss, CacheFill, CheckBlacklist, Lift, CheckRate,
                    Hold, Fail
<1>7. CASE UNCHANGED vars
  BY <1>4, <1>7 DEF vars
<1>8. QED
  BY <1>1, <1>2, <1>3, <1>5, <1>6, <1>7 DEF Next
-----------------------------------------------------------------------------
(* The blacklist *)

Free(r) == /\ r.at \in {"check", "hold", "count"} => r.free
           /\ r # Idle /\ ~Bars(entry[r.phone]) => r.free

LEMMA FreeIdle == Free(Idle) /\ Free(Idle)'
BY DEF Free, Idle

\* A step after which the entry is looked at again by all but p
LEMMA FreeObserved ==
  ASSUME TypeOK, FreeKnown, NEW p \in Reqs, req'[p] = Observed[p] PROVE Free(req[p])'
<1>1. CASE req[p] = Idle
  BY <1>1, ObservedType, FreeIdle
<1>2. CASE req[p] # Idle
  BY <1>2, ObservedType DEF Free, FreeKnown
<1>3. QED
  BY <1>1, <1>2

LEMMA FreeStep ==
  ASSUME TypeOK, TypeOK', FreeKnown, [Next]_vars PROVE FreeKnown'
<1> SUFFICES ASSUME NEW q \in Reqs PROVE Free(req[q])'
  BY DEF FreeKnown, Free, Blocked
<1>1. Free(req[q])
  BY DEF FreeKnown, Free, Blocked
<1>2. CASE Tick
  BY <1>2, FreeObserved DEF Tick
<1>3. ASSUME NEW f \in Phones, Block(f) PROVE Free(req[q])'
  <2>1. CASE req[q] = Idle
    BY <1>3, <2>1, FreeIdle DEF Block
  <2>2. CASE req[q] # Idle
    <3>1. req[q].phone \in Phones /\ req'[q] = req[q]
      BY <1>3, <2>2, InFlight DEF Block
    <3>2. PICK until \in Blocks :
            entry' = [entry EXCEPT ![f] = [active |-> TRUE, until |-> until]]
      BY <1>3 DEF Block
    <3>3. CASE req[q].phone # f
      BY <1>1, <3>1, <3>2, <3>3 DEF Free, TypeOK
    <3>4. CASE req[q].phone = f
      <4>1. until # 0 /\ entry'[f] = [active |-> TRUE, until |-> until]
        BY <3>2, LimitAssumption DEF TypeOK, Forever
      <4>2. Bars(entry'[f])
        BY <4>1 DEF Bars
      <4>3. QED
        BY <1>1, <3>1, <3>4, <4>2 DEF Free
    <3>5. QED
      BY <3>3, <3>4
  <2>3. QED
    BY <2>1, <2>2
<1>4. ASSUME NEW p \in Reqs, Lift(p) PROVE Free(req[q])'
  <2>1. CASE q = p
    BY <1>4, <2>1 DEF Lift, Observed, Free
  <2>2. CASE q # p
    <3>1. req'[q] = Observed[q]
      BY <1>4, <2>2 DEF Lift, Observed
    <3>2. QED
      BY <3>1, FreeObserved
  <2>3. QED
    BY <2>1, <2>2
<1>5. ASSUME NEW p \in Reqs, UNCHANGED entry, NEW r, Become(p, r), Free(r)
      PROVE  Free(req[q])'
  BY <1>1, <1>5, Becomes DEF Free
<1>6. ASSUME NEW p \in Reqs, NEW f \in Phones, NEW i \in Ips, CacheGet(p, f, i)
      PROVE  Free(req[q])'
  <2> DEFINE at == IF cache[f] = "ok" THEN "list" ELSE "miss"
  <2>1. Free([at |-> at, phone |-> f, ip |-> i, free |-> ~Blocked(f)])
    BY DEF Free, Blocked
  <2>2. QED
    BY <1>5, <1>6, <2>1 DEF CacheGet
<1>7. ASSUME NEW p \in Reqs,
             CacheMiss(p) \/ CacheFill(p) \/ CheckBlacklist(p) \/ Hold(p) \/ Fail(p)
      PROVE  Free(req[q])'
  <2>1. req[p].at # "idle" /\ (req[p] \in Flight \/ req[p] \in Check) /\ UNCHANGED entry
    BY <1>7, InFlight DEF CacheMiss, CacheFill, CheckBlacklist, Hold, Fail
  <2>2. Free(req[p])
    BY DEF FreeKnown, Free, Blocked
  <2>3. CASE Respond(p)
    BY <1>5, <2>1, <2>3, FreeIdle DEF Respond
  <2>4. ASSUME NEW at \in {"fillOk", "fillBlocked", "list", "lift"}, Goto(p, at),
               req[p] \in Flight
        PROVE  Free(req[q])'
    <3>1. Free([req[p] EXCEPT !.at = at])
      BY <2>1, <2>2, <2>4 DEF Free, Flight, Idle
    <3>2. QED
      BY <1>5, <2>1, <2>4, <3>1 DEF Goto
  <2>5. CASE CheckBlacklist(p) /\ CheckFrom(p, 1) /\ ~Blocked(req[p].phone)
    <3>1. req[p].free
      BY <2>1, <2>2, <2>5 DEF Free, Blocked, Idle
    <3>2. Free([at |-> "check", phone |-> req[p].phone, ip |-> req[p].ip,
                free |-> req[p].free, next |-> 1])
      BY <3>1 DEF Free
    <3>3. QED
      BY <1>5, <2>1, <2>5, <3>2 DEF CheckFrom
  <2>6. CASE Goto(p, "count") /\ req[p].at = "hold"
    <3>1. req[p] \in Flight /\ req[p].free
      BY <2>1, <2>2, <2>6 DEF Check, Free
    <3>2. Free([req[p] EXCEPT !.at = "count"])
      BY <3>1 DEF Free, Flight
    <3>3. QED
      BY <1>5, <2>1, <2>6, <3>2 DEF Goto
  <2>7. CASE CacheMiss(p)
    BY <2>1, <2>4, <2>7 DEF CacheMiss, Check
  <2>8. CASE CacheFill(p)
    BY <2>1, <2>3, <2>4, <2>8 DEF CacheFill, Check
  <2>9. CASE CheckBlacklist(p)
    BY <2>1, <2>3, <2>4, <2>5, <2>9 DEF CheckBlacklist, Check
  <2>10. CASE Hold(p)
    BY <2>3, <2>6, <2>10 DEF Hold
  <2>11. CASE Fail(p)
    BY <2>3, <2>11 DEF Fail
  <2>12. QED
    BY <1>7, <2>7, <2>8, <2>9, <2>10, <2>11
<1>8. ASSUME NEW p \in Reqs, CheckRate(p) PROVE Free(req[q])'
  <2>1. req[p].at = "check" /\ UNCHANGED entry /\ req[p].free
    BY <1>8 DEF CheckRate, FreeKnown
  <2>2. PICK r : /\ Become(p, r)
                 /\ r = Idle \/ r.free
    BY <1>8, <2>1 DEF CheckRate, CheckFrom, Respond
  <2>3. Free(r)
    BY <2>2, FreeIdle DEF Free
  <2>4. QED
    BY <1>5, <2>1, <2>2, <2>3
<1>9. ASSUME NEW p \in Reqs, IncrementRateLimit(p) PROVE Free(req[q])'
  BY <1>5, <1>9, FreeIdle DEF IncrementRateLimit, Respond
<1>10. ASSUME UNCHANGED <<entry, req>> PROVE Free(req[q])'
  BY <1>1, <1>10 DEF Free
<1>11. ASSUME NEW k \in Keys, Watch(k) PROVE Free(req[q])'
  BY <1>10, <1>11 DEF Watch
<1>12. ASSUME NEW f \in Phones, CacheExpires(f) PROVE Free(req[q])'
  BY <1>10, <1>12 DEF CacheExpires
<1>13. CASE UNCHANGED vars
  BY <1>10, <1>13 DEF vars
<1>14. QED
  BY <1>2, <1>3, <1>4, <1>6, <1>7, <1>8, <1>9, <1>11, <1>12, <1>13 DEF Next
-----------------------------------------------------------------------------
LEMMA InitInv == Init => IInv
<1> SUFFICES ASSUME Init PROVE IInv
  OBVIOUS
<1>1. CountersBounded
  <2> SUFFICES ASSUME NEW k \in Keys PROVE Bounded(k)
    BY DEF CountersBounded, Bounded
  <2>1. Passed(k) = {} /\ rate[k].n = 0
    BY DEF Init, Passed, Past, Idle, Absent
  <2>2. Cardinality({}) = 0 /\ Cardinality(Reqs) \in Nat
    BY ReqsAssumption, FS_EmptySet, FS_CardinalityType
  <2>3. QED
    BY <2>1, <2>2, Positive DEF Bounded
<1>2. WatchedCounted
  BY DEF Init, WatchedCounted, Unwatched
<1>3. FreeKnown
  BY DEF Init, FreeKnown, Idle
<1>4. QED
  BY <1>1, <1>2, <1>3, TypeInit DEF IInv

LEMMA Invariance == Spec => []IInv
<1>1. IInv /\ [Next]_vars => IInv'
  BY TypeStep, BoundedStep, WatchStep, FreeStep DEF IInv
<1>2. QED
  BY <1>1, InitInv, PTL DEF Spec

\* For any numbers of phones, addresses and requests, the cache, the blacklist
\* and the counters keep their types
THEOREM Types == Spec => []TypeOK
<1>1. IInv => TypeOK
  BY DEF IInv
<1>2. QED
  BY <1>1, Invariance, PTL

\* checkRateLimit lets through fewer holds than the limit in any day or week,
\* and those of the requests that passed it together
THEOREM HoldsAreLimited == Spec => []RateBounded
<1>1. IInv => RateBounded
  <2> SUFFICES ASSUME IInv, watch.open, watch.left > 0, watch.key \notin lapsed
               PROVE  watch.holds <= Limit(watch.key) - 1 + Cardinality(Reqs)
    BY DEF RateBounded
  <2> DEFINE k == watch.key
  <2>1. k \in Keys /\ watch.holds \in Nat /\ rate[k].n \in Nat
    <3>1. k \in Keys /\ watch.holds \in Nat
      BY WatchType DEF IInv
    <3>2. QED
      BY <3>1 DEF IInv, TypeOK
  <2>2. Cardinality(Passed(k)) \in Nat /\ Cardinality(Reqs) \in Nat
    BY Counting DEF Passed
  <2>3. rate[k].n + Cardinality(Passed(k)) <= Limit(k) - 1 + Cardinality(Reqs)
    BY <2>1 DEF IInv, CountersBounded
  <2>4. watch.holds > 0 => watch.holds <= rate[k].n
    BY DEF IInv, WatchedCounted
  <2>5. QED
    BY <2>1, <2>2, <2>3, <2>4, Positive
<1>2. QED
  BY <1>1, Invariance, PTL

\* A phone that stays blocked during its whole request gets no hold, however
\* old the cached answer is
THEOREM BlockedIsRefused == Spec => []BlockedGetsNoHold
<1>1. IInv => BlockedGetsNoHold
  BY DEF IInv, FreeKnown, BlockedGetsNoHold
<1>2. QED
  BY <1>1, Invariance, PTL
=============================================================================
