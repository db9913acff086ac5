------------------------------- MODULE Catalog --------------------------------
(***************************************************************************)
(* ServicesService and CombosService: the table of services with its two   *)
(* cached lists, and the combos made of services.  The cache lives in the  *)
(* memory of the Node process (CacheModule, 24 h); the tables outlive it.  *)
(*                                                                         *)
(* Of a service the status and the duration are kept; the duration stands  *)
(* for everything the lists show of it.  Names and slugs are left out: a   *)
(* name that is taken ends the request, as Fail does, whether the service  *)
(* looks for it or the unique index finds it.  Lists with filters are read *)
(* past the cache and change nothing.                                      *)
(***************************************************************************)
EXTENDS Integers, FiniteSets, Functions

CONSTANTS MaxServices,   \* bound on the services ever created
          Durs,          \* durations of services, in minutes; 0 is one
          Combos,        \* the combos that can be created
          Reqs,          \* requests that can be in flight together
          TTL,           \* of the cached lists, in ticks
          Nil,           \* null: no row, no duration, nothing cached
          Keep           \* a column that an update does not name

Ids == 1..MaxServices

Keys == {"list", "pricing"}

ASSUME BoundAssumption == MaxServices \in Nat /\ TTL \in Nat \ {0}

ASSUME DursAssumption == Durs \subseteq Nat

Service == [status : {0, 1}, dur : Durs \cup {Nil}]

Table == [Ids -> Service \cup {Nil}]

ASSUME NilAssumption ==
  /\ Nil \notin Service \cup Reqs \cup Keys
  /\ Nil \notin [val : Table, left : 1..TTL]
  /\ Reqs \cap Keys = {}

VARIABLES services,   \* table services
          nextId,     \* its serial
          combos,     \* combos and combo_detail: the services of each combo
          cache,      \* services:list and services:pricing
          req,        \* the requests in flight
          behind      \* what may miss a write: readers that a write overtook,
                      \* and cached lists they stored or a create went past

vars == <<services, nextId, combos, cache, req, behind>>

Idle == [at |-> "idle"]

Init ==
  /\ services = [i \in Ids |-> Nil]
  /\ nextId = 1
  /\ combos = [c \in Combos |-> Nil]
  /\ cache = [k \in Keys |-> Nil]
  /\ req = [p \in Reqs |-> Idle]
  /\ behind = {}
-----------------------------------------------------------------------------
Live == {i \in Ids : services[i] # Nil}

\* what the table says now: all services, or those that are on sale
View(k) ==
  [i \in Ids |-> IF i \in Live /\ (k = "pricing" => services[i].status = 1)
                 THEN services[i] ELSE Nil]

\* the readers that have the rows and have not stored them yet
Readers == {p \in Reqs : req[p].at = "set"}

Become(p, r) == req' = [req EXCEPT ![p] = r]

Respond(p) == Become(p, Idle)

Emptied == cache' = [k \in Keys |-> Nil]

OnlyReq == UNCHANGED <<services, nextId, combos, cache, behind>>
-----------------------------------------------------------------------------
(* GET services and GET services/pricing *)

\* what is cached is answered, and nothing changes
Get(p, k) ==
  /\ req[p].at = "idle"
  /\ cache[k] = Nil
  /\ Become(p, [at |-> "query", key |-> k])
  /\ OnlyReq

Query(p) ==
  /\ req[p].at = "query"
  /\ Become(p, [at |-> "set", key |-> req[p].key, rows |-> View(req[p].key)])
  /\ OnlyReq

Set(p) ==
  /\ req[p].at = "set"
  /\ LET k == req[p].key IN
       /\ cache' = [cache EXCEPT ![k] = [val |-> req[p].rows, left |-> TTL]]
       /\ behind' = IF p \in behind THEN (behind \ {p}) \cup {k} ELSE behind \ {k}
  /\ Respond(p)
  /\ UNCHANGED <<services, nextId, combos>>
-----------------------------------------------------------------------------
(* The writers *)

\* the service is there, and the new name is free; what the request asks for is
\* chosen when it is used
UpdateRead(p, i) ==
  /\ req[p].at = "idle"
  /\ i \in Live
  /\ Become(p, [at |-> "update", id |-> i])
  /\ OnlyReq

ToggleRead(p, i) ==
  /\ req[p].at = "idle"
  /\ i \in Live
  /\ Become(p, [at |-> "toggle", id |-> i])
  /\ OnlyReq

\* (mutant of Patched: a column the request leaves out is written as well)
PatchedWhole(r, status, dur) == [status |-> status, dur |-> dur]

Patched(r, status, dur) ==
  [status |-> IF status = Keep THEN r.status ELSE status,
   dur    |-> IF dur = Keep THEN r.dur ELSE dur]

\* repository.update of a row that may be gone by now
Patch(i, status, dur) ==
  services' = [j \in Ids |-> IF j = i /\ j \in Live
                 THEN Patched(services[j], status, dur) ELSE services[j]]

\* (mutant of Toggle: the lists are not invalidated)
ToggleQuietly(p) ==
  /\ req[p].at = "toggle"
  /\ \E status \in {0, 1} : Patch(req[p].id, status, Keep)
  /\ behind' = behind \cup Readers
  /\ Respond(p)
  /\ UNCHANGED <<nextId, combos, cache>>

\* toggleStatus
Toggle(p) ==
  /\ req[p].at = "toggle"
  /\ \E status \in {0, 1} : Patch(req[p].id, status, Keep)
  /\ behind' = behind \cup Readers
  /\ Become(p, [at |-> "invalidate"])
  /\ UNCHANGED <<nextId, combos, cache>>

\* updateService
Update(p) ==
  /\ req[p].at = "update"
  /\ \E status \in {0, 1, Keep}, dur \in Durs \cup {Nil, Keep} :
       Patch(req[p].id, status, dur)
  /\ behind' = behind \cup Readers
  /\ Become(p, [at |-> "invalidate"])
  /\ UNCHANGED <<nextId, combos, cache>>

DeleteRead(p, i) ==
  /\ req[p].at = "idle"
  /\ i \in Live
  /\ Become(p, [at |-> "delete", id |-> i])
  /\ OnlyReq

\* repository.delete takes the rows of combo_detail along; a booking of the
\* service forbids it, which ends the request as Fail does
Delete(p) ==
  /\ req[p].at = "delete"
  /\ services' = [services EXCEPT ![req[p].id] = Nil]
  /\ combos' = [c \in Combos |-> IF combos[c] = Nil THEN Nil
                                 ELSE combos[c] \ {req[p].id}]
  /\ behind' = behind \cup Readers
  /\ Become(p, [at |-> "invalidate"])
  /\ UNCHANGED <<nextId, cache>>

\* the name and the slug are free
CreateRead(p) ==
  /\ req[p].at = "idle"
  /\ Become(p, [at |-> "clear"])
  /\ OnlyReq

\* invalidateCaches before the save of create
Clear(p) ==
  /\ req[p].at = "clear"
  /\ Emptied
  /\ behind' = behind \ Keys
  /\ Become(p, [at |-> "insert"])
  /\ UNCHANGED <<services, nextId, combos>>

Insert(p) ==
  /\ req[p].at = "insert"
  /\ nextId \in Ids
  /\ \E r \in Service : services' = [services EXCEPT ![nextId] = r]
  /\ nextId' = nextId + 1
  /\ behind' = behind \cup Readers \cup {k \in Keys : cache[k] # Nil}
  /\ Respond(p)
  /\ UNCHANGED <<combos, cache>>

\* invalidateCaches after the write of the others
Invalidate(p) ==
  /\ req[p].at = "invalidate"
  /\ Emptied
  /\ behind' = behind \ Keys
  /\ Respond(p)
  /\ UNCHANGED <<services, nextId, combos>>
-----------------------------------------------------------------------------
(* POST combos *)

\* the name is free
ComboRead(p, c) ==
  /\ req[p].at = "idle"
  /\ combos[c] = Nil
  /\ Become(p, [at |-> "combo", combo |-> c])
  /\ OnlyReq

\* the services asked for are there when they are counted and, by the foreign
\* keys of combo_detail, when they are saved; the name is still free
ComboSave(p) ==
  /\ req[p].at = "combo"
  /\ combos[req[p].combo] = Nil
  /\ \E S \in SUBSET Live \ {{}} : combos' = [combos EXCEPT ![req[p].combo] = S]
  /\ Respond(p)
  /\ UNCHANGED <<services, nextId, cache, behind>>

\* (mutant of HoldMinutes: half an hour for each service)
HoldMinutesFlat(S) == IF S = {} THEN 60 ELSE 30 * Cardinality(S)

\* the durations of these services together; null counts as so many minutes
Minutes(S, null) ==
  FoldFunction(+, 0, [i \in S |-> IF services[i].dur = Nil THEN null
                                  ELSE services[i].dur])

\* holdSlot: how long a booking of these services takes
HoldMinutes(S) == IF Minutes(S, 30) = 0 THEN 60 ELSE Minutes(S, 30)

\* getCombosForView: how long they are said to take
ViewMinutes(S) == Minutes(S, 0)
-----------------------------------------------------------------------------
(* Time and failures *)

\* (mutant of Older: cache.set without a TTL)
OlderForEver(entry) == entry

Older(entry) ==
  IF entry = Nil \/ entry.left = 1 THEN Nil ELSE [entry EXCEPT !.left = @ - 1]

Tick ==
  /\ \E k \in Keys : cache[k] # Nil
  /\ cache' = [k \in Keys |-> Older(cache[k])]
  /\ behind' = behind \ {k \in Keys : cache'[k] = Nil}
  /\ UNCHANGED <<services, nextId, combos, req>>

\* a check refuses the request, a call rejects, or the answer to a write that
\* took effect is lost: then nothing is invalidated
Fail(p) ==
  /\ req[p].at # "idle"
  /\ behind' = (behind \ {p}) \cup
       {k \in Keys : req[p].at = "invalidate" /\ cache[k] # Nil}
  /\ Respond(p)
  /\ UNCHANGED <<services, nextId, combos, cache>>

Crash ==
  /\ req' = [p \in Reqs |-> Idle]
  /\ Emptied
  /\ behind' = {}
  /\ UNCHANGED <<services, nextId, combos>>

Next ==
  \/ \E p \in Reqs :
       \/ \E k \in Keys : Get(p, k)
       \/ \E i \in Ids : UpdateRead(p, i) \/ ToggleRead(p, i) \/ DeleteRead(p, i)
       \/ \E c \in Combos : ComboRead(p, c)
       \/ Query(p) \/ Set(p)
       \/ Update(p) \/ Toggle(p) \/ Delete(p) \/ Invalidate(p)
       \/ CreateRead(p) \/ Clear(p) \/ Insert(p)
       \/ ComboSave(p) \/ Fail(p)
  \/ Tick \/ Crash

Spec == Init /\ [][Next]_vars

\* time passes; nothing forces a request to come or to end
FairSpec == Spec /\ WF_vars(Tick)
-----------------------------------------------------------------------------
Request ==
  {Idle}
  \cup [at : {"query"}, key : Keys]
  \cup [at : {"set"}, key : Keys, rows : Table]
  \cup [at : {"update", "toggle", "delete"}, id : Ids]
  \cup [at : {"invalidate", "clear", "insert"}]
  \cup [at : {"combo"}, combo : Combos]

TypeOK ==
  /\ services \in Table
  /\ nextId \in 1..(MaxServices + 1)
  /\ combos \in [Combos -> {Nil} \cup SUBSET Ids]
  /\ cache \in [Keys -> [val : Table, left : 1..TTL] \cup {Nil}]
  /\ req \in [Reqs -> Request]
  /\ behind \subseteq Reqs \cup Keys

Outdated(k) == cache[k] # Nil /\ cache[k].val # View(k)

Invalidating == \E p \in Reqs : req[p].at = "invalidate"

\* A cached list differs from the table only while its invalidation is on the
\* way, or where the code lets it: a reader that the write overtook has stored
\* it, a create went past it, or the answer to a write was lost
\* (services.service.ts:189)
FreshUnlessRaced == \A k \in Keys : Outdated(k) => k \in behind \/ Invalidating

\* What the site says a combo takes is what a hold books, unless one of its
\* services has no duration or it shows none at all
ShownIsBooked ==
  \A c \in Combos :
    /\ combos[c] # Nil
    /\ \A i \in combos[c] : services[i].dur # Nil
    /\ ViewMinutes(combos[c]) > 0
    => HoldMinutes(combos[c]) = ViewMinutes(combos[c])

\* However it came to be outdated, a list does not stay so: it catches up with
\* the table, or with its TTL
CachesCatchUp == \A k \in Keys : Outdated(k) ~> ~Outdated(k)
=============================================================================
