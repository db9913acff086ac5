------------------------------ MODULE SlotLedger ------------------------------
(***************************************************************************)
(* What booking promises, with no rows, locks, requests or clocks: a       *)
(* booking has at most one slot, a slot at most one booking, and a slot    *)
(* passes from one booking to another only by being free in between.       *)
(***************************************************************************)
CONSTANTS Cells,    \* the slots
          Holders,  \* the bookings
          Nil       \* no slot

VARIABLE held

TypeOK == held \in [Holders -> Cells \cup {Nil}]

Init == held = [h \in Holders |-> Nil]

\* booking h gets the free slot c, and gives up the one it had
Take(h, c) ==
  /\ \A g \in Holders : held[g] # c
  /\ held' = [held EXCEPT ![h] = c]

\* some bookings give up their slots
Free(S) == held' = [h \in Holders |-> IF h \in S THEN Nil ELSE held[h]]

Next ==
  \/ \E S \in SUBSET Holders : Free(S)
  \/ \E h \in Holders, c \in Cells : Take(h, c)

Spec == Init /\ [][Next]_held

\* no slot is promised twice
NoneShared ==
  \A g, h \in Holders : g # h /\ held[g] = held[h] => held[g] = Nil
=============================================================================
