----------------------------- MODULE OneTimeCode -----------------------------
(***************************************************************************)
(* What a one-time code promises, with no Redis, TTLs or counters: a scope *)
(* has at most one code, the newest; a guest who knows it is let in with   *)
(* it, and then it is gone; nobody gets to know a code that is gone.       *)
(***************************************************************************)
EXTENDS Naturals

CONSTANTS Scopes,   \* what a code is asked for
          Guests    \* who may be let in

VARIABLES code,      \* the code of a scope, 0 for none
          last,      \* the number of codes it has had
          admitted,  \* the codes somebody was let in with
          seen       \* the code a guest has shown to be right, if any

vars == <<code, last, admitted, seen>>

TypeOK ==
  /\ code \in [Scopes -> Nat]
  /\ last \in [Scopes -> Nat]
  /\ admitted \in [Scopes -> SUBSET Nat]
  /\ seen \in [Guests -> SUBSET (Scopes \X Nat)]

Init ==
  /\ code = [s \in Scopes |-> 0]
  /\ last = [s \in Scopes |-> 0]
  /\ admitted = [s \in Scopes |-> {}]
  /\ seen = [g \in Guests |-> {}]

Send(s) ==
  /\ last' = [last EXCEPT ![s] = @ + 1]
  /\ code' = [code EXCEPT ![s] = last[s] + 1]
  /\ UNCHANGED <<admitted, seen>>

\* guest g shows the code scope s has now
Show(g, s) ==
  /\ seen[g] = {} /\ code[s] # 0
  /\ seen' = [seen EXCEPT ![g] = {<<s, code[s]>>}]
  /\ UNCHANGED <<code, last, admitted>>

\* and is let in with it, or is not; either way the scope's code may be gone
Enter(g, s, c) ==
  /\ seen[g] = {<<s, c>>}
  /\ \/ /\ admitted' = [admitted EXCEPT ![s] = @ \cup {c}]
        /\ code' = [code EXCEPT ![s] = 0]
     \/ /\ UNCHANGED admitted
        /\ code' \in {code, [code EXCEPT ![s] = 0]}
  /\ seen' = [seen EXCEPT ![g] = {}]
  /\ UNCHANGED last

\* codes run out
Lapse(S) ==
  /\ code' = [s \in Scopes |-> IF s \in S THEN 0 ELSE code[s]]
  /\ UNCHANGED <<last, admitted, seen>>

Next ==
  \/ \E s \in Scopes : Send(s)
  \/ \E g \in Guests, s \in Scopes :
       Show(g, s) \/ \E c \in 1..last[s] : Enter(g, s, c)
  \/ \E S \in SUBSET Scopes : Lapse(S)

Spec == Init /\ [][Next]_vars

\* nobody shows a code after somebody was let in with it
ShownBeforeUse ==
  [][\A g \in Guests, s \in Scopes : \A c \in admitted[s] :
       <<s, c>> \in seen'[g] => <<s, c>> \in seen[g]]_vars
=============================================================================
