--------------------------- MODULE SlotListProofs ---------------------------
(***************************************************************************)
(* What happens to an intact free list when it is popped, pushed to, or    *)
(* left alone while slots that are not on it are written.  A list is a     *)
(* function from 1 .. n to slots, bottom first, so that a pop restricts    *)
(* it and a push extends it by one.                                        *)
(***************************************************************************)
EXTENDS SlotList, FiniteSetTheorems, TLAPS

\* The links of a list without repetition are no longer than the pool is large.
LEMMA ListFits ==
  ASSUME NEW n \in Nat, NEW c \in [1 .. n -> Slots],
         \A i, j \in 1 .. n : c[i] = c[j] => i = j
  PROVE  n <= Capacity
<1>1. SUFFICES ASSUME n > Capacity PROVE FALSE
  BY SlotListAssumption
<1>2. IsFiniteSet(1 .. n) /\ Cardinality(1 .. n) = n
  <2>1. 1 \in Int /\ n \in Int
    OBVIOUS
  <2>2. QED BY <2>1, FS_Interval, <1>1, SlotListAssumption
<1>3. IsFiniteSet(Slots) /\ Cardinality(Slots) = Capacity
  <2>1. 1 \in Int /\ Capacity \in Int
    BY SlotListAssumption
  <2>2. QED BY <2>1, FS_Interval, SlotListAssumption DEF Slots
<1>4. \E x, y \in 1 .. n : x # y /\ c[x] = c[y]
  <2>1. Cardinality(Slots) < Cardinality(1 .. n)
    BY <1>1, <1>2, <1>3, SlotListAssumption
  <2>2. QED BY <1>2, <1>3, <2>1, FS_PigeonHole
<1>5. QED BY <1>4

\* The list a constructor makes of all slots.
LEMMA ListInit ==
  ASSUME NEW link, \A s \in Slots : link[s] = InitialLink(s),
         NEW off, off = {}
  PROVE  Linked(1, link, off)
<1>. DEFINE c == [i \in 1 .. Capacity |-> Capacity + 1 - i]
<1>1. Capacity \in 0 .. Capacity /\ Capacity \in 1 .. Capacity /\ Capacity # 0
  BY SlotListAssumption
<1>2. \A i \in 1 .. Capacity : c[i] = Capacity + 1 - i /\ c[i] \in Slots
  BY SlotListAssumption DEF Slots
<1>3. c \in [1 .. Capacity -> Slots]
  BY <1>2
<1>4. 1 = c[Capacity]
  BY <1>1, <1>2, SlotListAssumption
<1>5. \A i \in 1 .. Capacity : link[c[i]] = IF i = 1 THEN NULL ELSE c[i - 1]
  <2>1. TAKE i \in 1 .. Capacity
  <2>2. link[c[i]] = IF c[i] < Capacity THEN c[i] + 1 ELSE NULL
    BY <1>2 DEF InitialLink
  <2>3. CASE i = 1
    BY <2>2, <2>3, <1>2, SlotListAssumption
  <2>4. CASE i # 1
    <3>1. i - 1 \in 1 .. Capacity /\ c[i] < Capacity /\ c[i - 1] = c[i] + 1
      BY <2>4, <1>2, SlotListAssumption
    <3>2. QED BY <3>1, <2>2, <2>4
  <2>5. QED BY <2>3, <2>4
<1>6. \A i, j \in 1 .. Capacity : c[i] = c[j] => i = j
  BY <1>2, SlotListAssumption
<1>7. \A s \in Slots : \E i \in 1 .. Capacity : c[i] = s
  <2>1. TAKE s \in Slots
  <2>2. Capacity + 1 - s \in 1 .. Capacity /\ Capacity + 1 - (Capacity + 1 - s) = s
    BY SlotListAssumption DEF Slots
  <2>3. QED BY <2>2, <1>2
<1>8. IsChain(Capacity, c, 1, link, off)
  BY <1>1, <1>4, <1>5, <1>6, <1>7 DEF IsChain
<1>9. QED BY <1>1, <1>3, <1>8 DEF Linked

\* The slot on top of the free list is nobody's, and its link is what may become
\* the top.
LEMMA ListTop ==
  ASSUME NEW top, NEW link, NEW off, Linked(top, link, off), top # NULL
  PROVE  top \in Slots \ off /\ link[top] \in Slots \cup {NULL}
<1>1. PICK n \in 0 .. Capacity : \E c \in [1 .. n -> Slots] : IsChain(n, c, top, link, off)
  BY DEF Linked
<1>2. PICK c \in [1 .. n -> Slots] : IsChain(n, c, top, link, off)
  BY <1>1
<1>3. n \in Nat /\ n \in 1 .. n /\ (n # 1 => n - 1 \in 1 .. n)
  BY <1>2, SlotListAssumption DEF IsChain
<1>4. top = c[n] /\ c[n] \in Slots
  BY <1>2, <1>3, SlotListAssumption DEF IsChain
<1>5. QED BY <1>2, <1>3, <1>4 DEF IsChain

\* No top, no free slot.
LEMMA ListEmpty ==
  ASSUME NEW link, NEW off, Linked(NULL, link, off)
  PROVE  Slots \subseteq off
<1>1. PICK n \in 0 .. Capacity : \E c \in [1 .. n -> Slots] : IsChain(n, c, NULL, link, off)
  BY DEF Linked
<1>2. PICK c \in [1 .. n -> Slots] : IsChain(n, c, NULL, link, off)
  BY <1>1
<1>3. n = 0
  <2>1. n # 0 => n \in 1 .. n
    BY SlotListAssumption
  <2>2. QED BY <1>2, <2>1, SlotListAssumption DEF IsChain
<1>4. QED BY <1>2, <1>3 DEF IsChain

\* A step that changes neither head_ nor the set of slots somebody has, nor the
\* link of any other slot, leaves the free list as it is.
LEMMA ListFrame ==
  ASSUME NEW top, NEW link, NEW off, Linked(top, link, off),
         NEW link2, NEW off2,
         \A s \in Slots : s \in off2 <=> s \in off,
         \A s \in Slots \ off : link2[s] = link[s]
  PROVE  Linked(top, link2, off2)
<1>1. PICK n \in 0 .. Capacity : \E c \in [1 .. n -> Slots] : IsChain(n, c, top, link, off)
  BY DEF Linked
<1>2. PICK c \in [1 .. n -> Slots] : IsChain(n, c, top, link, off)
  BY <1>1
<1>3. \A i \in 1 .. n : link2[c[i]] = link[c[i]]
  BY <1>2 DEF IsChain
<1>4. IsChain(n, c, top, link2, off2)
  BY <1>2, <1>3 DEF IsChain
<1>5. QED BY <1>4, <1>1 DEF Linked

\* Popping the top.
LEMMA ListPop ==
  ASSUME NEW top, NEW link, NEW off, Linked(top, link, off), top # NULL,
         NEW off2, \A s \in Slots : s \in off2 <=> s = top \/ s \in off
  PROVE  Linked(link[top], link, off2)
<1>1. PICK n \in 0 .. Capacity : \E c \in [1 .. n -> Slots] : IsChain(n, c, top, link, off)
  BY DEF Linked
<1>2. PICK c \in [1 .. n -> Slots] : IsChain(n, c, top, link, off)
  BY <1>1
<1>3. n \in 1 .. Capacity /\ n \in 1 .. n /\ top = c[n]
  BY <1>2, SlotListAssumption DEF IsChain
<1>. DEFINE m == n - 1
            d == [i \in 1 .. m |-> c[i]]
<1>4. m \in 0 .. Capacity /\ d \in [1 .. m -> Slots]
  BY <1>3, SlotListAssumption
<1>5. \A i \in 1 .. m : i \in 1 .. n /\ d[i] = c[i]
  BY <1>3, SlotListAssumption
<1>6. link[top] = IF m = 0 THEN NULL ELSE d[m]
  <2>1. link[c[n]] = IF n = 1 THEN NULL ELSE c[n - 1]
    BY <1>2, <1>3 DEF IsChain
  <2>2. CASE n = 1
    BY <2>1, <2>2, <1>3
  <2>3. CASE n # 1
    <3>1. m \in 1 .. m
      BY <2>3, <1>3, SlotListAssumption
    <3>2. QED BY <2>1, <2>3, <3>1, <1>3, <1>5
  <2>4. QED BY <2>2, <2>3
<1>7. \A i \in 1 .. m : link[d[i]] = IF i = 1 THEN NULL ELSE d[i - 1]
  <2>1. TAKE i \in 1 .. m
  <2>2. link[c[i]] = IF i = 1 THEN NULL ELSE c[i - 1]
    BY <1>2, <1>5 DEF IsChain
  <2>3. CASE i = 1
    BY <2>2, <2>3, <1>5
  <2>4. CASE i # 1
    <3>1. i - 1 \in 1 .. m
      BY <2>4, <1>3, SlotListAssumption
    <3>2. QED BY <2>2, <2>4, <3>1, <1>5
  <2>5. QED BY <2>3, <2>4
<1>8. \A i, j \in 1 .. m : d[i] = d[j] => i = j
  BY <1>2, <1>5 DEF IsChain
<1>9. \A s \in Slots : (\E i \in 1 .. m : d[i] = s) <=> s \notin off2
  <2>1. TAKE s \in Slots
  <2>2. ASSUME NEW i \in 1 .. m, d[i] = s
        PROVE  s \notin off2
    <3>1. s \notin off
      BY <2>2, <1>2, <1>5 DEF IsChain
    <3>2. s # top
      <4>1. i # n
        BY <1>3, SlotListAssumption
      <4>2. QED BY <4>1, <2>2, <1>2, <1>3, <1>5 DEF IsChain
    <3>3. QED BY <3>1, <3>2
  <2>3. ASSUME s \notin off2
        PROVE  \E i \in 1 .. m : d[i] = s
    <3>1. s # top /\ s \notin off
      BY <2>3
    <3>2. PICK i \in 1 .. n : c[i] = s
      BY <3>1, <1>2 DEF IsChain
    <3>3. i \in 1 .. m
      BY <3>1, <3>2, <1>3, SlotListAssumption
    <3>4. QED BY <3>2, <3>3, <1>5
  <2>4. QED BY <2>2, <2>3
<1>10. IsChain(m, d, link[top], link, off2)
  BY <1>6, <1>7, <1>8, <1>9 DEF IsChain
<1>11. QED BY <1>4, <1>10 DEF Linked

\* Pushing a slot that somebody had.
LEMMA ListPush ==
  ASSUME NEW top, NEW link, NEW off, Linked(top, link, off),
         NEW x \in Slots, x \in off, link[x] = top,
         NEW off2, \A s \in Slots : s \in off2 <=> s # x /\ s \in off
  PROVE  Linked(x, link, off2)
<1>1. PICK n \in 0 .. Capacity : \E c \in [1 .. n -> Slots] : IsChain(n, c, top, link, off)
  BY DEF Linked
<1>2. PICK c \in [1 .. n -> Slots] : IsChain(n, c, top, link, off)
  BY <1>1
<1>. DEFINE m == n + 1
            d == [i \in 1 .. m |-> IF i = m THEN x ELSE c[i]]
<1>3. n \in Nat /\ m \in Nat /\ m # 0 /\ m \in 1 .. m /\ m - 1 = n
  BY SlotListAssumption
<1>4. /\ d[m] = x
      /\ \A i \in 1 .. n : i \in 1 .. m /\ i # m /\ d[i] = c[i]
      /\ \A i \in 1 .. m : i = m \/ i \in 1 .. n
  BY <1>3
<1>5. \A i \in 1 .. n : c[i] # x
  BY <1>2 DEF IsChain
<1>6. d \in [1 .. m -> Slots]
  BY <1>4
<1>7. \A i, j \in 1 .. m : d[i] = d[j] => i = j
  BY <1>2, <1>4, <1>5 DEF IsChain
<1>8. m \in 0 .. Capacity
  <2>1. m <= Capacity
    BY <1>3, <1>6, <1>7, ListFits
  <2>2. QED BY <2>1, <1>3, SlotListAssumption
<1>9. x = IF m = 0 THEN NULL ELSE d[m]
  BY <1>3, <1>4
<1>10. \A i \in 1 .. m : link[d[i]] = IF i = 1 THEN NULL ELSE d[i - 1]
  <2>1. TAKE i \in 1 .. m
  <2>2. CASE i = m
    <3>1. link[d[i]] = top
      BY <2>2, <1>4
    <3>2. CASE n = 0
      BY <3>1, <3>2, <2>2, <1>2 DEF IsChain
    <3>3. CASE n # 0
      <4>1. n \in 1 .. n /\ i # 1 /\ i - 1 = n
        BY <3>3, <2>2, <1>3
      <4>2. QED BY <4>1, <3>1, <3>3, <1>2, <1>4 DEF IsChain
    <3>4. QED BY <3>2, <3>3
  <2>3. CASE i # m
    <3>1. i \in 1 .. n /\ (i # 1 => i - 1 \in 1 .. n)
      BY <2>3, <1>3
    <3>2. QED BY <3>1, <1>2, <1>4 DEF IsChain
  <2>4. QED BY <2>2, <2>3
<1>11. \A s \in Slots : (\E i \in 1 .. m : d[i] = s) <=> s \notin off2
  <2>1. TAKE s \in Slots
  <2>2. CASE s = x
    BY <2>2, <1>3, <1>4
  <2>3. CASE s # x
    <3>1. (\E i \in 1 .. m : d[i] = s) <=> \E i \in 1 .. n : c[i] = s
      BY <2>3, <1>4
    <3>2. QED BY <2>3, <3>1, <1>2 DEF IsChain
  <2>4. QED BY <2>2, <2>3
<1>12. IsChain(m, d, x, link, off2)
  BY <1>7, <1>9, <1>10, <1>11 DEF IsChain
<1>13. QED BY <1>6, <1>8, <1>12 DEF Linked
=============================================================================
