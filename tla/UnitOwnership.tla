---------------------------- MODULE UnitOwnership ----------------------------
(***************************************************************************)
(* What the handing-over of compilation units promises, with no C++ in it: *)
(* every slot holds one unit or none; a unit enters through the slot that  *)
(* creates it, changes hands only by a transfer that empties the giver,    *)
(* and leaves when its holder drops or replaces it.  A unit therefore      *)
(* never has two holders.                                                  *)
(***************************************************************************)
CONSTANTS Slots, Units, NoUnit

VARIABLE holding    \* slot -> the unit it holds, or NoUnit

Unheld(u) == \A s \in Slots : holding[s] # u

Init == holding = [s \in Slots |-> NoUnit]

Acquire(s, u) ==
  /\ Unheld(u)
  /\ holding' = [holding EXCEPT ![s] = u]

Transfer(to, from) ==
  /\ to # from
  /\ holding' = [holding EXCEPT ![to] = holding[from], ![from] = NoUnit]

Release(s) == holding' = [holding EXCEPT ![s] = NoUnit]

Next ==
  \/ \E s \in Slots, u \in Units : Acquire(s, u)
  \/ \E s, t \in Slots : Transfer(s, t)
  \/ \E s \in Slots : Release(s)

Spec == Init /\ [][Next]_holding
=============================================================================
