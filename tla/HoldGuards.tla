------------------------------ MODULE HoldGuards -------------------------------
(***************************************************************************)
(* What a POST bookings/hold passes before its slot is locked: the         *)
(* BlacklistMiddleware with its cache, checkBlacklist and checkRateLimit   *)
(* of BookingsService; and incrementRateLimit after the hold is saved.     *)
(* RateLimitMiddleware lets everything through; the hold itself is in      *)
(* module Bookings.                                                        *)
(*                                                                         *)
(* A counter of Redis is a number and the ticks it has left.  An entry of  *)
(* the blacklist has the ticks until blockedUntil.  The cache is kept for  *)
(* 60 s, much less than a tick.                                            *)
(***************************************************************************)
EXTENDS Integers, FiniteSets

CONSTANTS Phones, Ips,
          Reqs,              \* requests that can be in flight together
          DAILY_MAX, DAY,
          WEEKLY_MAX, WEEK,
          Blocks,            \* the lengths, in ticks, a phone is blocked for
          MaxCount           \* bound on a counter

\* blockedUntil is null
Forever == -1

\* a counter that was incremented and never given a TTL stays
NoTtl == -1

ASSUME LimitAssumption ==
  /\ {DAILY_MAX, DAY, WEEKLY_MAX, WEEK} \subseteq Nat \ {0}
  /\ Blocks \subseteq (Nat \ {0}) \cup {Forever}
  /\ MaxCount \in Nat

ASSUME ReqsAssumption == IsFiniteSet(Reqs)

VARIABLES cache,     \* blacklist:cache:<phone>
          entry,     \* phone_blacklists, by phone
          rate,      \* rate:<kind>:<phone or address>
          req,       \* the requests in flight
          watch,     \* one day, or week, of a counter: the holds that
                     \* incremented it since, and the ticks that are left
          lapsed     \* the counters on which a command was lost

vars == <<cache, entry, rate, req, watch, lapsed>>

Keys == ({"daily"} \X (Phones \cup Ips)) \cup ({"weekly"} \X Phones)

Limit(k) == IF k[1] = "daily" THEN DAILY_MAX ELSE WEEKLY_MAX

Ttl(k) == IF k[1] = "daily" THEN DAY ELSE WEEK

\* checks of checkRateLimit, in this order
KeysOf(r) == <<<<"daily", r.phone>>, <<"weekly", r.phone>>, <<"daily", r.ip>>>>

Absent == [n |-> 0, left |-> 0]

NotListed == [active |-> FALSE, until |-> 0]

Idle == [at |-> "idle"]

Unwatched == [open |-> FALSE]

Init ==
  /\ cache = [f \in Phones |-> "none"]
  /\ entry = [f \in Phones |-> NotListed]
  /\ rate = [k \in Keys |-> Absent]
  /\ req = [p \in Reqs |-> Idle]
  /\ watch = Unwatched
  /\ lapsed = {}

\* active, and blockedUntil is null or to come
Bars(e) == e.active /\ e.until # 0

Blocked(f) == Bars(entry[f])
-----------------------------------------------------------------------------
(* Time, and what comes from outside *)

\* (mutant of Older: a counter that runs out is not removed)
OlderForEver(key) == [key EXCEPT !.left = @ - 1]

Older(key) ==
  IF key.left > 1 THEN [key EXCEPT !.left = @ - 1]
  ELSE IF key.left = 1 THEN Absent ELSE key

\* a request has found its phone free once it was not blocked for a moment
Observed == [p \in Reqs |->
  IF req[p] = Idle \/ Bars(entry'[req[p].phone]) THEN req[p]
  ELSE [req[p] EXCEPT !.free = TRUE]]

Tick ==
  /\ entry' = [f \in Phones |->
                 IF entry[f].until > 0 THEN [entry[f] EXCEPT !.until = @ - 1] ELSE entry[f]]
  /\ rate' = [k \in Keys |-> Older(rate[k])]
  /\ watch' = IF watch.open /\ watch.left > 0
              THEN [watch EXCEPT !.left = @ - 1] ELSE Unwatched
  /\ req' = Observed
  /\ UNCHANGED <<cache, lapsed>>

\* a day, or a week, begins at any time
Watch(k) ==
  /\ ~watch.open
  /\ watch' = [open |-> TRUE, key |-> k, holds |-> 0, left |-> Ttl(k)]
  /\ UNCHANGED <<cache, entry, rate, req, lapsed>>

CacheExpires(f) ==
  /\ cache[f] # "none"
  /\ cache' = [cache EXCEPT ![f] = "none"]
  /\ UNCHANGED <<entry, rate, req, watch, lapsed>>

\* a phone is put on the list, or its block is renewed, by hand:
\* handleNoShowBlacklist has one caller, markNoShow, and that has none
Block(f) ==
  /\ \E until \in Blocks : entry' = [entry EXCEPT ![f] = [active |-> TRUE, until |-> until]]
  /\ UNCHANGED <<cache, rate, req, watch, lapsed>>
-----------------------------------------------------------------------------
Become(p, r) == req' = [req EXCEPT ![p] = r]

Goto(p, at) == Become(p, [req[p] EXCEPT !.at = at])

Respond(p) == Become(p, Idle)

\* BlacklistMiddleware: what the cache says
CacheGet(p, f, i) ==
  /\ req[p].at = "idle"
  /\ cache[f] # "blocked"
  /\ Become(p, [at |-> IF cache[f] = "ok" THEN "list" ELSE "miss",
                phone |-> f, ip |-> i, free |-> ~Blocked(f)])
  /\ UNCHANGED <<cache, entry, rate, watch, lapsed>>

CacheMiss(p) ==
  /\ req[p].at = "miss"
  /\ Goto(p, IF Blocked(req[p].phone) THEN "fillBlocked" ELSE "fillOk")
  /\ UNCHANGED <<cache, entry, rate, watch, lapsed>>

CacheFill(p) ==
  /\ \/ /\ req[p].at = "fillOk"
        /\ cache' = [cache EXCEPT ![req[p].phone] = "ok"]
        /\ Goto(p, "list")
     \/ /\ req[p].at = "fillBlocked"
        /\ cache' = [cache EXCEPT ![req[p].phone] = "blocked"]
        /\ Respond(p)
  /\ UNCHANGED <<entry, rate, watch, lapsed>>

\* checkRateLimit begins
CheckFrom(p, n) ==
  Become(p, [at |-> "check", phone |-> req[p].phone, ip |-> req[p].ip,
             free |-> req[p].free, next |-> n])

\* (mutant of CheckBlacklist: the middleware has looked already)
TrustMiddleware(p) ==
  /\ req[p].at = "list"
  /\ CheckFrom(p, 1)
  /\ UNCHANGED <<cache, entry, rate, watch, lapsed>>

\* checkBlacklist: an entry that has run out is saved as inactive
CheckBlacklist(p) ==
  LET f == req[p].phone IN
  /\ req[p].at = "list"
  /\ IF Blocked(f) THEN Respond(p)
     ELSE IF entry[f].active THEN Goto(p, "lift") ELSE CheckFrom(p, 1)
  /\ UNCHANGED <<cache, entry, rate, watch, lapsed>>

\* the save writes the entry as it was loaded, over whatever it is by now
Lift(p) ==
  /\ req[p].at = "lift"
  /\ entry' = [entry EXCEPT ![req[p].phone] = NotListed]
  /\ req' = [Observed EXCEPT ![p] =
              [at |-> "check", phone |-> req[p].phone, ip |-> req[p].ip,
               free |-> TRUE, next |-> 1]]
  /\ UNCHANGED <<cache, rate, watch, lapsed>>

\* (mutant of CheckRate: a refusal renews the counter)
CheckRateRenews(p) ==
  /\ req[p].at = "check"
  /\ LET k == KeysOf(req[p])[req[p].next] IN
       IF rate[k].n >= Limit(k)
       THEN Respond(p) /\ rate' = [rate EXCEPT ![k].left = Ttl(k)]
       ELSE /\ UNCHANGED rate
            /\ IF req[p].next < 3 THEN CheckFrom(p, req[p].next + 1)
               ELSE Become(p, [at |-> "hold", phone |-> req[p].phone, ip |-> req[p].ip,
                               free |-> req[p].free])
  /\ UNCHANGED <<cache, entry, watch, lapsed>>

\* one GET after the other
CheckRate(p) ==
  /\ req[p].at = "check"
  /\ LET k == KeysOf(req[p])[req[p].next] IN
       IF rate[k].n >= Limit(k) THEN Respond(p)
       ELSE IF req[p].next < 3 THEN CheckFrom(p, req[p].next + 1)
       ELSE Become(p, [at |-> "hold", phone |-> req[p].phone, ip |-> req[p].ip,
                       free |-> req[p].free])
  /\ UNCHANGED <<cache, entry, rate, watch, lapsed>>

\* the lock and the slot are there, or the request is refused
Hold(p) ==
  /\ req[p].at = "hold"
  /\ Goto(p, "count") \/ Respond(p)
  /\ UNCHANGED <<cache, entry, rate, watch, lapsed>>

Incr(key) == [n |-> key.n + 1, left |-> IF key.n = 0 THEN NoTtl ELSE key.left]

\* (mutant of Count: a window that begins with its first hold)
CountFixed(key, ttl, commands) ==
  CASE commands <= 0 -> key
    [] commands = 1  -> Incr(key)
    [] OTHER         -> [n |-> key.n + 1, left |-> IF key.n = 0 THEN ttl ELSE key.left]

\* INCR and EXPIRE, as far as they run
Count(key, ttl, commands) ==
  CASE commands <= 0 -> key
    [] commands = 1  -> Incr(key)
    [] OTHER         -> [n |-> key.n + 1, left |-> ttl]

Counted(r) == {KeysOf(r)[j] : j \in 1..3}

\* of the first commands of the pipeline, those that are about counter k or later
CommandsFor(r, k, commands) ==
  CASE k = KeysOf(r)[1] -> commands
    [] k = KeysOf(r)[2] -> commands - 2
    [] OTHER            -> commands - 4

\* incrementRateLimit: a pipeline of which ran commands run
IncrementRateLimit(p) ==
  \E ran \in 0..6 :
    LET Commands(k) == CommandsFor(req[p], k, ran) IN
    /\ req[p].at = "count"
    /\ \A k \in Counted(req[p]) : rate[k].n < MaxCount
    /\ rate' = [k \in Keys |->
         IF k \in Counted(req[p]) THEN Count(rate[k], Ttl(k), Commands(k)) ELSE rate[k]]
    /\ watch' = IF watch.open /\ watch.key \in Counted(req[p]) /\ Commands(watch.key) > 0
                THEN [watch EXCEPT !.holds = @ + 1] ELSE watch
    /\ lapsed' = lapsed \cup {k \in Counted(req[p]) : Commands(k) < 2}
    /\ Respond(p)
    /\ UNCHANGED <<cache, entry>>

\* a call rejects before it has any effect, or the process dies
Fail(p) ==
  /\ req[p].at # "idle"
  /\ lapsed' = IF req[p].at # "count" THEN lapsed ELSE lapsed \cup Counted(req[p])
  /\ Respond(p)
  /\ UNCHANGED <<cache, entry, rate, watch>>

Next ==
  \/ Tick
  \/ \E k \in Keys : Watch(k)
  \/ \E f \in Phones : CacheExpires(f) \/ Block(f)
  \/ \E p \in Reqs : \/ \E f \in Phones, i \in Ips : CacheGet(p, f, i)
                     \/ CacheMiss(p) \/ CacheFill(p) \/ CheckBlacklist(p) \/ Lift(p)
                     \/ CheckRate(p) \/ Hold(p) \/ IncrementRateLimit(p) \/ Fail(p)

Spec == Init /\ [][Next]_vars

\* time passes
FairSpec == Spec /\ WF_vars(Tick)
-----------------------------------------------------------------------------
Request ==
  {Idle}
  \cup [at : {"miss", "fillOk", "fillBlocked", "list", "lift", "hold", "count"},
        phone : Phones, ip : Ips, free : BOOLEAN]
  \cup [at : {"check"}, phone : Phones, ip : Ips, free : BOOLEAN, next : 1..3]

TypeOK ==
  /\ cache \in [Phones -> {"none", "ok", "blocked"}]
  /\ entry \in [Phones -> [active : BOOLEAN, until : Nat \cup {Forever}]]
  /\ rate \in [Keys -> [n : 0..MaxCount, left : Nat \cup {NoTtl}]]
  /\ \A k \in Keys : rate[k].left <= Ttl(k)
  /\ req \in [Reqs -> Request]
  /\ watch \in {Unwatched} \cup [open : {TRUE}, key : Keys, holds : Nat, left : Nat]
  /\ watch.open => watch.left <= Ttl(watch.key)
  /\ lapsed \subseteq Keys

\* In no day, and in no week, whenever it begins, are there more holds than the
\* limit, but for the requests that passed the check together; unless a counter
\* lost a command
RateBounded ==
  watch.open /\ watch.left > 0 /\ watch.key \notin lapsed
  => watch.holds <= Limit(watch.key) - 1 + Cardinality(Reqs)

\* Who is refused has made as many holds within the time the message names
RefusedOnlyAtLimit ==
  /\ watch.open /\ watch.left = 0 /\ watch.key \notin lapsed
  /\ rate[watch.key].n >= Limit(watch.key)
  => watch.holds >= Limit(watch.key)

\* A phone that is blocked from before its request until its hold gets none,
\* whatever the cache said
BlockedGetsNoHold == \A p \in Reqs : req[p].at \in {"hold", "count"} => req[p].free

\* The limit is one for some time: refused requests do not prolong it
LimitEnds ==
  \A k \in Keys : rate[k].n >= Limit(k) ~> rate[k].n < Limit(k) \/ rate[k].left = NoTtl
=============================================================================
