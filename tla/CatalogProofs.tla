---------------------------- MODULE CatalogProofs -----------------------------
(***************************************************************************)
(* The safety properties of Catalog, for any number of services, combos    *)
(* and requests, and any TTL.                                              *)
(***************************************************************************)
EXTENDS Catalog, TLAPS

Entry == [val : Table, left : 1..TTL]

\* a reader that no write has overtaken has what the table says
ReadersKnow ==
  \A p \in Readers : p \in behind \/ req[p].rows = View(req[p].key)

IInv == TypeOK /\ ReadersKnow /\ FreshUnlessRaced
-----------------------------------------------------------------------------
(* Types *)

LEMMA NilFacts == Nil \notin Service /\ Nil \notin Entry
BY NilAssumption DEF Entry

\* What a request in flight carries
LEMMA InFlight ==
  ASSUME TypeOK, NEW p \in Reqs
  PROVE  /\ req[p].at \in {"query", "set"} => req[p].key \in Keys
         /\ req[p].at = "set" => req[p].rows \in Table
         /\ req[p].at \in {"update", "toggle", "delete"} => req[p].id \in Ids
         /\ req[p].at = "combo" => req[p].combo \in Combos
BY DEF TypeOK, Request, Idle

\* A list is a table
LEMMA ViewType == ASSUME TypeOK, NEW k \in Keys PROVE View(k) \in Table
BY DEF TypeOK, View, Table, Live

\* A request moves to a well-formed one
LEMMA Moved ==
  ASSUME TypeOK, NEW p \in Reqs, NEW r \in Request, Become(p, r)
  PROVE  req' \in [Reqs -> Request]
BY DEF TypeOK, Become

LEMMA IdleType == Idle \in Request
BY DEF Request, Idle

\* An update leaves a table
LEMMA PatchType ==
  ASSUME TypeOK, NEW i \in Ids, NEW status \in {0, 1, Keep},
         NEW dur \in Durs \cup {Nil, Keep}, Patch(i, status, dur)
  PROVE  services' \in Table
<1>1. ASSUME NEW j \in Live
      PROVE  Patched(services[j], status, dur) \in Service
  <2>1. services[j] \in Service
    BY <1>1 DEF TypeOK, Table, Live
  <2>2. (IF status = Keep THEN services[j].status ELSE status) \in {0, 1}
    BY <2>1 DEF Service
  <2>3. (IF dur = Keep THEN services[j].dur ELSE dur) \in Durs \cup {Nil}
    BY <2>1 DEF Service
  <2>4. QED
    BY <2>2, <2>3 DEF Patched, Service
<1>2. QED
  BY <1>1 DEF Patch, TypeOK, Table

\* A tick leaves a list with time left, or none
LEMMA OlderType ==
  ASSUME NEW e \in Entry \cup {Nil}
  PROVE  /\ Older(e) \in Entry \cup {Nil}
         /\ Older(e) # Nil => e # Nil /\ Older(e).val = e.val
<1>1. CASE e = Nil
  BY <1>1 DEF Older
<1>2. CASE e # Nil /\ e.left = 1
  BY <1>2 DEF Older
<1>3. CASE e # Nil /\ e.left # 1
  <2>1. Older(e) = [e EXCEPT !.left = @ - 1] /\ e \in Entry
    BY <1>3 DEF Older
  <2>2. e.left - 1 \in 1..TTL
    BY <1>3, <2>1, BoundAssumption DEF Entry
  <2>3. QED
    BY <1>3, <2>1, <2>2 DEF Entry
<1>4. QED
  BY <1>1, <1>2, <1>3
-----------------------------------------------------------------------------
LEMMA TypeStep == ASSUME TypeOK, [Next]_vars PROVE TypeOK'
<1> USE DEF Keys
<1>1. ASSUME NEW p \in Reqs, NEW k \in Keys, Get(p, k) PROVE TypeOK'
  <2>1. [at |-> "query", key |-> k] \in Request
    BY DEF Request
  <2>2. QED
    BY <1>1, <2>1, Moved DEF Get, OnlyReq, TypeOK
<1>2. ASSUME NEW p \in Reqs, NEW i \in Ids,
             UpdateRead(p, i) \/ ToggleRead(p, i) \/ DeleteRead(p, i)
      PROVE  TypeOK'
  <2>1. \A at \in {"update", "toggle", "delete"} : [at |-> at, id |-> i] \in Request
    BY DEF Request
  <2>2. req' \in [Reqs -> Request]
    BY <1>2, <2>1, Moved DEF UpdateRead, ToggleRead, DeleteRead
  <2>3. QED
    BY <1>2, <2>2 DEF UpdateRead, ToggleRead, DeleteRead, OnlyReq, TypeOK
<1>3. ASSUME NEW p \in Reqs, NEW c \in Combos, ComboRead(p, c) PROVE TypeOK'
  <2>1. [at |-> "combo", combo |-> c] \in Request
    BY DEF Request
  <2>2. QED
    BY <1>3, <2>1, Moved DEF ComboRead, OnlyReq, TypeOK
<1>4. ASSUME NEW p \in Reqs, Query(p) PROVE TypeOK'
  <2>1. [at |-> "set", key |-> req[p].key, rows |-> View(req[p].key)] \in Request
    BY <1>4, InFlight, ViewType DEF Query, Request
  <2>2. QED
    BY <1>4, <2>1, Moved DEF Query, OnlyReq, TypeOK
<1>5. ASSUME NEW p \in Reqs, Set(p) PROVE TypeOK'
  <2>1. req[p].key \in Keys /\ req[p].rows \in Table
    BY <1>5, InFlight DEF Set
  <2>2. [val |-> req[p].rows, left |-> TTL] \in Entry
    BY <2>1, BoundAssumption DEF Entry
  <2>3. cache' \in [Keys -> Entry \cup {Nil}]
    BY <1>5, <2>1, <2>2 DEF Set, TypeOK, Entry
  <2>4. behind' \subseteq Reqs \cup Keys
    BY <1>5, <2>1 DEF Set, TypeOK
  <2>5. req' \in [Reqs -> Request]
    BY <1>5, IdleType, Moved DEF Set, Respond
  <2>6. QED
    BY <1>5, <2>3, <2>4, <2>5 DEF Set, TypeOK, Entry
<1>6. ASSUME NEW p \in Reqs, Update(p) \/ Toggle(p) PROVE TypeOK'
  <2>1. req[p].id \in Ids
    BY <1>6, InFlight DEF Update, Toggle
  <2>2. services' \in Table
    BY <1>6, <2>1, PatchType DEF Update, Toggle
  <2>3. [at |-> "invalidate"] \in Request
    BY DEF Request
  <2>4. req' \in [Reqs -> Request]
    BY <1>6, <2>3, Moved DEF Update, Toggle
  <2>5. QED
    BY <1>6, <2>2, <2>4 DEF Update, Toggle, TypeOK, Readers
<1>7. ASSUME NEW p \in Reqs, Delete(p) PROVE TypeOK'
  <2>1. services' \in Table
    BY <1>7 DEF Delete, TypeOK, Table
  <2>2. combos' \in [Combos -> {Nil} \cup SUBSET Ids]
    BY <1>7 DEF Delete, TypeOK
  <2>3. [at |-> "invalidate"] \in Request
    BY DEF Request
  <2>4. req' \in [Reqs -> Request]
    BY <1>7, <2>3, Moved DEF Delete
  <2>5. QED
    BY <1>7, <2>1, <2>2, <2>4 DEF Delete, TypeOK, Readers
<1>8. ASSUME NEW p \in Reqs, Invalidate(p) PROVE TypeOK'
  BY <1>8, IdleType, Moved DEF Invalidate, Emptied, Respond, TypeOK
<1>9. ASSUME NEW p \in Reqs, CreateRead(p) PROVE TypeOK'
  <2>1. [at |-> "clear"] \in Request
    BY DEF Request
  <2>2. QED
    BY <1>9, <2>1, Moved DEF CreateRead, OnlyReq, TypeOK
<1>10. ASSUME NEW p \in Reqs, Clear(p) PROVE TypeOK'
  <2>1. [at |-> "insert"] \in Request
    BY DEF Request
  <2>2. QED
    BY <1>10, <2>1, Moved DEF Clear, Emptied, TypeOK
<1>11. ASSUME NEW p \in Reqs, Insert(p) PROVE TypeOK'
  <2>1. services' \in Table
    BY <1>11 DEF Insert, TypeOK, Table
  <2>2. nextId' \in 1..(MaxServices + 1)
    BY <1>11, BoundAssumption DEF Insert, TypeOK, Ids
  <2>3. req' \in [Reqs -> Request]
    BY <1>11, IdleType, Moved DEF Insert, Respond
  <2>4. QED
    BY <1>11, <2>1, <2>2, <2>3 DEF Insert, TypeOK, Readers
<1>12. ASSUME NEW p \in Reqs, ComboSave(p) PROVE TypeOK'
  <2>1. combos' \in [Combos -> {Nil} \cup SUBSET Ids]
    BY <1>12 DEF ComboSave, TypeOK, Live
  <2>2. req' \in [Reqs -> Request]
    BY <1>12, IdleType, Moved DEF ComboSave, Respond
  <2>3. QED
    BY <1>12, <2>1, <2>2 DEF ComboSave, TypeOK
<1>13. ASSUME NEW p \in Reqs, Fail(p) PROVE TypeOK'
  BY <1>13, IdleType, Moved DEF Fail, Respond, TypeOK
<1>14. CASE Tick
  <2>1. cache' \in [Keys -> Entry \cup {Nil}]
    BY <1>14, OlderType DEF Tick, TypeOK, Entry
  <2>2. QED
    BY <1>14, <2>1 DEF Tick, TypeOK, Entry
<1>15. CASE Crash
  BY <1>15, IdleType DEF Crash, Emptied, TypeOK
<1>16. CASE UNCHANGED vars
  BY <1>16 DEF vars, TypeOK
<1>17. QED
  BY <1>1, <1>2, <1>3, <1>4, <1>5, <1>6, <1>7, <1>8, <1>9, <1>10, <1>11, <1>12,
     <1>13, <1>14, <1>15, <1>16 DEF Next

LEMMA TypeInit == Init => TypeOK
<1> SUFFICES ASSUME Init PROVE TypeOK
  OBVIOUS
<1>1. req \in [Reqs -> Request]
  BY IdleType DEF Init
<1>2. QED
  BY <1>1, BoundAssumption DEF Init, TypeOK, Table

\* For any numbers of services, combos and requests, the tables, the cache and
\* the requests keep their types
THEOREM Types == Spec => []TypeOK
BY TypeInit, TypeStep, PTL DEF Spec
-----------------------------------------------------------------------------
(* A list that differs from the table is known to *)

\* What the table says depends on the table alone
LEMMA SameView ==
  ASSUME UNCHANGED services, NEW k PROVE View(k)' = View(k)
BY DEF View, Live

\* A step that keeps the table and the lists, and behind which it only adds to,
\* keeps both, if the readers it makes have just read
LEMMA NothingWritten ==
  ASSUME IInv, UNCHANGED <<services, cache, behind>>, NEW p \in Reqs,
         \A q \in Reqs \ {p} : req'[q] = req[q],
         req[p].at # "invalidate",
         req'[p].at = "set" => req'[p].rows = View(req'[p].key)
  PROVE  ReadersKnow' /\ FreshUnlessRaced'
<1>1. \A k : View(k)' = View(k)
  BY SameView
<1>2. ReadersKnow'
  BY <1>1 DEF IInv, ReadersKnow, Readers
<1>3. Invalidating => Invalidating'
  BY DEF Invalidating
<1>4. FreshUnlessRaced'
  BY <1>1, <1>3 DEF IInv, FreshUnlessRaced, Outdated
<1>5. QED
  BY <1>2, <1>4

\* A step that writes the table goes behind every reader; and either an
\* invalidation is due after it or the lists it leaves are known to be behind
LEMMA Written ==
  ASSUME UNCHANGED cache, NEW p \in Reqs, req[p].at # "set", req'[p].at # "set",
         \A q \in Reqs \ {p} : req'[q] = req[q],
         Readers \subseteq behind',
         \/ req'[p].at = "invalidate"
         \/ {k \in Keys : cache[k] # Nil} \subseteq behind'
  PROVE  ReadersKnow' /\ FreshUnlessRaced'
<1>1. ReadersKnow'
  BY DEF ReadersKnow, Readers
<1>2. FreshUnlessRaced'
  BY DEF FreshUnlessRaced, Outdated, Invalidating
<1>3. QED
  BY <1>1, <1>2

\* A step after which nothing is cached
LEMMA NothingCached ==
  ASSUME IInv, UNCHANGED services, Emptied, behind' = behind \ Keys,
         \A q \in Reqs : req'[q].at = "set" => req'[q] = req[q]
  PROVE  ReadersKnow' /\ FreshUnlessRaced'
<1>1. \A k : View(k)' = View(k)
  BY SameView
<1>2. ReadersKnow'
  BY <1>1, NilAssumption DEF IInv, ReadersKnow, Readers
<1>3. FreshUnlessRaced'
  BY DEF FreshUnlessRaced, Outdated, Emptied
<1>4. QED
  BY <1>2, <1>3

\* What a request becomes, and the others keep
LEMMA Becomes ==
  ASSUME TypeOK, NEW p \in Reqs, NEW r, Become(p, r)
  PROVE  req'[p] = r /\ \A q \in Reqs \ {p} : req'[q] = req[q]
BY DEF TypeOK, Become

\* A reader stores what it knows
LEMMA FreshSet ==
  ASSUME IInv, NEW p \in Reqs, Set(p)
  PROVE  ReadersKnow' /\ FreshUnlessRaced'
<1> DEFINE k == req[p].key
<1>1. k \in Keys /\ TypeOK /\ req[p].rows \in Table
  BY InFlight DEF IInv, Set
<1>2. \A l : View(l)' = View(l)
  BY SameView DEF Set
<1>3. req'[p] = Idle /\ \A q \in Reqs \ {p} : req'[q] = req[q]
  BY <1>1, Becomes DEF Set, Respond
<1>4. ReadersKnow'
  <2> SUFFICES ASSUME NEW q \in Readers'
               PROVE  q \in behind' \/ (req[q].rows = View(req[q].key))'
    BY DEF ReadersKnow
  <2>1. q \in Reqs /\ q # p /\ req'[q] = req[q] /\ q \in Readers
    BY <1>3 DEF Readers, Idle
  <2>2. q \in behind \/ req[q].rows = View(req[q].key)
    BY <2>1 DEF IInv, ReadersKnow
  <2>3. q \in behind => q \in behind'
    BY <1>1, <2>1, NilAssumption DEF Set
  <2>4. QED
    BY <1>2, <2>1, <2>2, <2>3
<1>5. FreshUnlessRaced'
  <2> SUFFICES ASSUME NEW l \in Keys, Outdated(l)'
               PROVE  l \in behind' \/ Invalidating'
    BY DEF FreshUnlessRaced
  <2>1. CASE l = k
    <3>1. cache'[k].val = req[p].rows
      BY <1>1 DEF Set, TypeOK
    <3>2. req[p].rows # View(k)
      BY <1>2, <2>1, <3>1 DEF Outdated
    <3>3. p \in behind
      BY <3>2 DEF IInv, ReadersKnow, Readers, Set
    <3>4. QED
      BY <2>1, <3>3 DEF Set
  <2>2. CASE l # k
    <3>1. cache'[l] = cache[l]
      BY <1>1, <2>2 DEF Set, TypeOK
    <3>2. l \in behind \/ Invalidating
      BY <1>2, <3>1 DEF IInv, FreshUnlessRaced, Outdated
    <3>3. Invalidating => Invalidating'
      BY <1>3 DEF Invalidating, Set
    <3>4. l \in behind => l \in behind'
      BY <2>2, NilAssumption DEF Set
    <3>5. QED
      BY <3>2, <3>3, <3>4
  <2>3. QED
    BY <2>1, <2>2
<1>6. QED
  BY <1>4, <1>5

\* The answer to a write is lost, or the request ends with nothing done
LEMMA FreshFail ==
  ASSUME IInv, NEW p \in Reqs, Fail(p)
  PROVE  ReadersKnow' /\ FreshUnlessRaced'
<1>1. \A k : View(k)' = View(k)
  BY SameView DEF Fail
<1>2. req'[p] = Idle /\ \A q \in Reqs \ {p} : req'[q] = req[q]
  BY Becomes DEF IInv, Fail, Respond
<1>3. ReadersKnow'
  BY <1>1, <1>2 DEF IInv, ReadersKnow, Readers, Fail, Idle
<1>4. FreshUnlessRaced'
  <2> SUFFICES ASSUME NEW k \in Keys, Outdated(k)'
               PROVE  k \in behind' \/ Invalidating'
    BY DEF FreshUnlessRaced
  <2>1. Outdated(k)
    BY <1>1 DEF Outdated, Fail
  <2>2. k # p
    BY NilAssumption
  <2>3. CASE k \in behind
    BY <2>2, <2>3 DEF Fail
  <2>4. CASE Invalidating /\ req[p].at = "invalidate"
    BY <2>1, <2>4 DEF Fail, Outdated
  <2>5. CASE Invalidating /\ req[p].at # "invalidate"
    BY <1>2, <2>5 DEF Invalidating
  <2>6. QED
    BY <2>1, <2>3, <2>4, <2>5 DEF IInv, FreshUnlessRaced
<1>5. QED
  BY <1>3, <1>4

\* Time takes lists away and changes none
LEMMA FreshTick == ASSUME IInv, Tick PROVE ReadersKnow' /\ FreshUnlessRaced'
<1>1. \A k : View(k)' = View(k)
  BY SameView DEF Tick
<1>2. ReadersKnow'
  BY <1>1, NilAssumption DEF IInv, ReadersKnow, Readers, Tick
<1>3. FreshUnlessRaced'
  <2> SUFFICES ASSUME NEW k \in Keys, Outdated(k)'
               PROVE  k \in behind' \/ Invalidating'
    BY DEF FreshUnlessRaced
  <2>1. cache[k] \in Entry \cup {Nil} /\ cache'[k] = Older(cache[k])
    BY DEF IInv, TypeOK, Tick, Entry
  <2>2. cache'[k] # Nil /\ cache[k] # Nil /\ cache'[k].val = cache[k].val
    BY <2>1, OlderType DEF Outdated
  <2>3. Outdated(k)
    BY <1>1, <2>2 DEF Outdated
  <2>4. QED
    BY <2>2, <2>3 DEF IInv, FreshUnlessRaced, Tick, Invalidating
<1>4. QED
  BY <1>2, <1>3

LEMMA Step == ASSUME IInv, [Next]_vars PROVE IInv'
<1>1. TypeOK /\ TypeOK'
  BY TypeStep DEF IInv
<1> SUFFICES ReadersKnow' /\ FreshUnlessRaced'
  BY <1>1 DEF IInv
<1>2. ASSUME NEW p \in Reqs,
             \/ \E k \in Keys : Get(p, k)
             \/ \E i \in Ids : UpdateRead(p, i) \/ ToggleRead(p, i) \/ DeleteRead(p, i)
             \/ \E c \in Combos : ComboRead(p, c)
             \/ Query(p) \/ CreateRead(p) \/ ComboSave(p)
      PROVE  ReadersKnow' /\ FreshUnlessRaced'
  <2>1. PICK r : /\ Become(p, r)
                 /\ req[p].at # "invalidate"
                 /\ r.at = "set" => r.rows = View(r.key)
    <3>1. CASE \E k \in Keys : Get(p, k)
      BY <3>1 DEF Get
    <3>2. CASE \E i \in Ids : UpdateRead(p, i) \/ ToggleRead(p, i) \/ DeleteRead(p, i)
      BY <3>2 DEF UpdateRead, ToggleRead, DeleteRead
    <3>3. CASE \E c \in Combos : ComboRead(p, c)
      BY <3>3 DEF ComboRead
    <3>4. CASE Query(p)
      BY <3>4 DEF Query
    <3>5. CASE CreateRead(p) \/ ComboSave(p)
      BY <3>5 DEF CreateRead, ComboSave, Respond, Idle
    <3>6. QED
      BY <1>2, <3>1, <3>2, <3>3, <3>4, <3>5
  <2>2. req'[p] = r /\ \A q \in Reqs \ {p} : req'[q] = req[q]
    BY <1>1, <2>1, Becomes
  <2>3. UNCHANGED <<services, cache, behind>>
    BY <1>2 DEF Get, UpdateRead, ToggleRead, DeleteRead, ComboRead, Query, CreateRead,
                ComboSave, OnlyReq
  <2>4. QED
    BY <2>1, <2>2, <2>3, NothingWritten
<1>3. ASSUME NEW p \in Reqs, Set(p) PROVE ReadersKnow' /\ FreshUnlessRaced'
  BY <1>3, FreshSet
<1>4. ASSUME NEW p \in Reqs, Update(p) \/ Toggle(p) \/ Delete(p)
      PROVE  ReadersKnow' /\ FreshUnlessRaced'
  <2>1. Become(p, [at |-> "invalidate"]) /\ req[p].at # "set"
    BY <1>4 DEF Update, Toggle, Delete
  <2>2. UNCHANGED cache /\ Readers \subseteq behind'
    BY <1>4 DEF Update, Toggle, Delete
  <2>3. req'[p] = [at |-> "invalidate"] /\ \A q \in Reqs \ {p} : req'[q] = req[q]
    BY <1>1, <2>1, Becomes
  <2>4. QED
    BY <2>1, <2>2, <2>3, Written
<1>5. ASSUME NEW p \in Reqs, Insert(p) PROVE ReadersKnow' /\ FreshUnlessRaced'
  <2>1. req'[p] = Idle /\ \A q \in Reqs \ {p} : req'[q] = req[q]
    BY <1>1, <1>5, Becomes DEF Insert, Respond
  <2>2. QED
    BY <1>5, <2>1, Written DEF Insert, Idle
<1>6. ASSUME NEW p \in Reqs, Clear(p) \/ Invalidate(p)
      PROVE  ReadersKnow' /\ FreshUnlessRaced'
  <2>1. PICK r : Become(p, r) /\ r.at # "set"
    BY <1>6 DEF Clear, Invalidate, Respond, Idle
  <2>2. req'[p] = r /\ \A q \in Reqs \ {p} : req'[q] = req[q]
    BY <1>1, <2>1, Becomes
  <2>3. QED
    BY <1>6, <2>1, <2>2, NothingCached DEF Clear, Invalidate
<1>7. ASSUME NEW p \in Reqs, Fail(p) PROVE ReadersKnow' /\ FreshUnlessRaced'
  BY <1>7, FreshFail
<1>8. CASE Tick
  BY <1>8, FreshTick
<1>9. CASE Crash
  <2>1. \A q \in Reqs : req'[q] = Idle
    BY <1>9 DEF Crash
  <2>2. ReadersKnow'
    BY <2>1 DEF ReadersKnow, Readers, Idle
  <2>3. FreshUnlessRaced'
    BY <1>9 DEF Crash, Emptied, FreshUnlessRaced, Outdated
  <2>4. QED
    BY <2>2, <2>3
<1>10. CASE UNCHANGED vars
  <2>1. \A k : View(k)' = View(k)
    BY <1>10, SameView DEF vars
  <2>2. QED
    BY <1>10, <2>1 DEF vars, IInv, ReadersKnow, Readers, FreshUnlessRaced, Outdated,
                       Invalidating
<1>11. QED
  BY <1>2, <1>3, <1>4, <1>5, <1>6, <1>7, <1>8, <1>9, <1>10 DEF Next

LEMMA InitInv == Init => IInv
<1> SUFFICES ASSUME Init PROVE IInv
  OBVIOUS
<1>1. ReadersKnow
  BY DEF Init, ReadersKnow, Readers, Idle
<1>2. FreshUnlessRaced
  BY DEF Init, FreshUnlessRaced, Outdated
<1>3. QED
  BY <1>1, <1>2, TypeInit DEF IInv

\* A cached list that differs from the table is on its way out, was stored by a
\* reader that a write overtook, was there when a service was created, or is
\* left from a write whose answer was lost
THEOREM Fresh == Spec => []FreshUnlessRaced
<1>1. IInv => FreshUnlessRaced
  BY DEF IInv
<1>2. QED
  BY <1>1, InitInv, Step, PTL DEF Spec

\* Whatever the services, what the site says a combo takes is what a hold books,
\* if each of its services has a duration and one is not 0
THEOREM Booked == Spec => []ShownIsBooked
<1>1. ShownIsBooked
  <2> SUFFICES ASSUME NEW S, \A i \in S : services[i].dur # Nil, ViewMinutes(S) > 0
               PROVE  HoldMinutes(S) = ViewMinutes(S)
    BY DEF ShownIsBooked
  <2>1. [i \in S |-> IF services[i].dur = Nil THEN 30 ELSE services[i].dur]
          = [i \in S |-> IF services[i].dur = Nil THEN 0 ELSE services[i].dur]
    OBVIOUS
  <2>2. Minutes(S, 30) = Minutes(S, 0)
    BY <2>1 DEF Minutes
  <2>3. QED
    BY <2>2 DEF HoldMinutes, ViewMinutes
<1>2. QED
  BY <1>1, PTL
=============================================================================
