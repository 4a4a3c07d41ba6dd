------------------------------ MODULE SlotList ------------------------------
(***************************************************************************)
(* The intrusive free list of the two fixed-size pools of m_pool.cpp:      *)
(* capacity_ slots in one piece of memory, the free ones linked through    *)
(* their first word.  What it is for such a list to be intact is the same  *)
(* for both pools; they differ in how they keep it so.                     *)
(***************************************************************************)
EXTENDS Naturals

CONSTANTS
  Capacity,  \* capacity_: the count given to the constructor
  NULL       \* nullptr

Slots == 1 .. Capacity

\* A count of 0 makes "count - 1" wrap around in the constructors' loops.
ASSUME SlotListAssumption ==
  /\ Capacity \in Nat \ {0}
  /\ NULL \notin Slots

\* The constructors thread all slots onto the list in address order.
InitialLink(s) == IF s < Capacity THEN s + 1 ELSE NULL

\* c[n], c[n - 1], ..., c[1] is a list: top points to c[n], the links lead down
\* to c[1], whose link is nullptr; no slot is on it twice, and it holds every
\* slot that is not in off, and no other.
IsChain(n, c, top, link, off) ==
  /\ top = IF n = 0 THEN NULL ELSE c[n]
  /\ \A i \in 1 .. n : link[c[i]] = IF i = 1 THEN NULL ELSE c[i - 1]
  /\ \A i, j \in 1 .. n : c[i] = c[j] => i = j
  /\ \A s \in Slots : (\E i \in 1 .. n : c[i] = s) <=> s \notin off

Linked(top, link, off) ==
  \E n \in 0 .. Capacity : \E c \in [1 .. n -> Slots] : IsChain(n, c, top, link, off)
=============================================================================
