----------------------------- MODULE HeapProofs -----------------------------
(***************************************************************************)
(* Proofs about what lies in the memory that operator new returns.  First  *)
(* BlockLayout: where slots lie, for element types of any size and         *)
(* alignment, any number of slots and any address.  Then LeakDemos:        *)
(* which blocks the demonstrations of leaks touch, and which they lose.    *)
(***************************************************************************)
EXTENDS BlockLayout, LeakDemos, Integers, FiniteSetTheorems, SequenceTheorems, WellFoundedInduction, TLAPS

-----------------------------------------------------------------------------
\* Remainders and multiples

LEMMA Remainder ==
  ASSUME NEW x \in Int, NEW a \in Nat \ {0}
  PROVE  x % a \in 0 .. a - 1 /\ \E q \in Int : x = a * q + (x % a)
<1>1. x % a \in 0 .. a - 1 /\ x \div a \in Int /\ x = a * (x \div a) + (x % a)
  OBVIOUS
<1>2. \E q \in Int : x = a * q + (x % a)
  <2>1. WITNESS x \div a \in Int
  <2>2. QED BY <1>1
<1>3. QED BY <1>1, <1>2

LEMMA Quotient ==
  ASSUME NEW x \in Int, NEW a \in Nat \ {0}
  PROVE  \E r \in 0 .. a - 1, q \in Int : r = x % a /\ x = a * q + r
<1>1. PICK q \in Int : x = a * q + (x % a)
  BY Remainder
<1>2. x % a \in 0 .. a - 1
  BY Remainder
<1>3. x % a = x % a /\ x = a * q + (x % a)
  BY <1>1
<1>4. QED BY <1>2, <1>3, Zenon

LEMMA RemainderIs ==
  ASSUME NEW a \in Nat \ {0}, NEW q \in Int, NEW r \in 0 .. a - 1
  PROVE  (a * q + r) % a = r
OBVIOUS

\* What is left of a multiple is nothing, and the other way round.
LEMMA Multiple ==
  ASSUME NEW x \in Int, NEW a \in Nat \ {0}
  PROVE  x % a = 0 <=> \E q \in Int : x = a * q
<1>1. ASSUME x % a = 0 PROVE \E q \in Int : x = a * q
  <2>1. PICK q \in Int : x = a * q + (x % a)
    BY Remainder
  <2>2. x = a * q
    BY <1>1, <2>1
  <2>3. QED BY <2>2
<1>2. ASSUME NEW q \in Int, x = a * q PROVE x % a = 0
  <2>1. x = a * q + 0
    BY <1>2
  <2>2. 0 \in 0 .. a - 1
    OBVIOUS
  <2>3. QED BY <2>1, <2>2, RemainderIs
<1>3. QED BY <1>1, <1>2

LEMMA SumOfMultiples ==
  ASSUME NEW x \in Int, NEW y \in Int, NEW k \in Int, NEW a \in Nat \ {0}, x % a = 0, y % a = 0
  PROVE  (x + k * y) % a = 0
<1>1. PICK q \in Int : x = a * q
  BY Multiple
<1>2. PICK r \in Int : y = a * r
  BY Multiple
<1>3. x + k * y = a * (q + k * r)
  BY <1>1, <1>2
<1>4. q + k * r \in Int /\ x + k * y \in Int
  OBVIOUS
<1>5. QED BY <1>3, <1>4, Multiple

LEMMA AtLeastOnce ==
  ASSUME NEW x \in Nat \ {0}, NEW a \in Nat \ {0}, x % a = 0
  PROVE  x >= a
<1>1. PICK q \in Int : x = a * q
  BY Multiple
<1>2. q >= 1
  <2>1. SUFFICES ASSUME q <= 0 PROVE FALSE
    BY <1>1
  <2>2. a * q <= 0
    BY <2>1
  <2>3. QED BY <1>1, <2>2
<1>3. a * q >= a
  BY <1>2
<1>4. QED BY <1>1, <1>3

\* Rounding up gives the next multiple.
LEMMA RoundedUp ==
  ASSUME NEW x \in Nat, NEW a \in Nat \ {0}
  PROVE  RoundUp(x, a) \in Nat /\ RoundUp(x, a) >= x /\ RoundUp(x, a) % a = 0
<1>0. x \in Int
  OBVIOUS
<1>1. PICK r \in 0 .. a - 1, q \in Int : r = x % a /\ x = a * q + r
  BY <1>0, Quotient
<1>2. CASE r = 0
  <2>1. (a - r) % a = 0
    <3>1. a - r = a * 1 + 0 /\ 0 \in 0 .. a - 1
      BY <1>2
    <3>2. QED BY <3>1, RemainderIs
  <2>2. RoundUp(x, a) = x
    BY <1>1, <1>2, <2>1 DEF RoundUp
  <2>3. QED BY <1>1, <1>2, <2>2
<1>3. CASE r # 0
  <2>1. (a - r) % a = a - r
    <3>1. a - r = a * 0 + (a - r) /\ a - r \in 0 .. a - 1
      BY <1>3
    <3>2. QED BY <3>1, RemainderIs
  <2>2. RoundUp(x, a) = x + (a - r)
    BY <1>1, <2>1 DEF RoundUp
  <2>3. x + (a - r) = a * (q + 1)
    BY <1>1
  <2>4. (x + (a - r)) % a = 0
    <3>1. x + (a - r) \in Int /\ q + 1 \in Int
      OBVIOUS
    <3>2. QED BY <2>3, <3>1, Multiple
  <2>5. QED BY <2>2, <2>4
<1>4. QED BY <1>2, <1>3

\* A product does not decrease with its first factor.
LEMMA Monotone ==
  ASSUME NEW k \in Int, NEW m \in Int, NEW s \in Nat, k <= m
  PROVE  k * s <= m * s
<1>1. (m - k) * s >= 0
  OBVIOUS
<1>2. QED BY <1>1

LEMMA StrictlyMonotone ==
  ASSUME NEW k \in Int, NEW m \in Int, NEW s \in Nat \ {0}, k < m
  PROVE  k * s + s <= m * s
<1>1. (m - (k + 1)) * s >= 0
  OBVIOUS
<1>2. QED BY <1>1

-----------------------------------------------------------------------------
\* Types and addresses

\* The alignment of a slot is as large as that of the element, and a slot larger
\* than its alignment and a pointer together.
LEMMA SlotShape ==
  ASSUME NEW t \in Types
  PROVE  /\ SlotAlign(t) \in Nat \ {0} /\ SlotSize(t) \in Nat \ {0}
         /\ t.size \in Nat \ {0}
         /\ SlotSize(t) % SlotAlign(t) = 0
         /\ SlotSize(t) >= SlotAlign(t) + Pointer
         /\ SlotSize(t) >= t.size
<1> DEFINE A == SlotAlign(t)
           inner == RoundUp(t.size, Pointer)
<1>1. /\ Pointer \in Nat \ {0} /\ t.size \in Nat \ {0} /\ t.align \in Nat \ {0}
      /\ t.size % t.align = 0
  BY LayoutAssumption
<1>. t.flag \in Nat
  BY LayoutAssumption
<1>2. A \in Nat \ {0}
  BY <1>1 DEF SlotAlign
<1>3. inner \in Nat /\ inner >= t.size /\ inner % Pointer = 0
  BY <1>1, RoundedUp
<1> HIDE DEF inner
<1>4. inner >= A
  <2>1. t.size >= t.align
    BY <1>1, AtLeastOnce
  <2>2. inner >= Pointer
    <3>1. inner \in Nat \ {0}
      BY <1>1, <1>3
    <3>2. QED BY <1>1, <1>3, <3>1, AtLeastOnce, Zenon
  <2>3. QED BY <1>1, <1>3, <2>1, <2>2 DEF SlotAlign
<1>5. inner + Pointer + t.flag \in Nat /\ SlotSize(t) = RoundUp(inner + Pointer + t.flag, A)
  BY <1>1, <1>3 DEF SlotSize, inner
<1>6. SlotSize(t) \in Nat /\ SlotSize(t) >= inner + Pointer + t.flag /\ SlotSize(t) % A = 0
  BY <1>2, <1>5, RoundedUp
<1>7. QED BY <1>1, <1>2, <1>3, <1>4, <1>6

\* pad_pointer() answers what is missing to the next multiple.
LEMMA Padded ==
  ASSUME NEW p \in Nat, NEW a \in Nat \ {0}, p < Word, Word % a = 0
  PROVE  PadPointer(p, a) \in 0 .. a - 1 /\ (p + PadPointer(p, a)) % a = 0
<1>1. Word \in Nat \ {0}
  BY LayoutAssumption
<1>2. PICK w \in Int : Word = a * w
  BY <1>1, Multiple
<1> DEFINE m == (a + Word - p) % Word
<1>3. m \in 0 .. Word - 1 /\ PadPointer(p, a) = m % a
  BY <1>1, Remainder DEF PadPointer
<1>4. PICK v \in Int : a + Word - p = Word * v + m
  <2>1. a + Word - p \in Int
    BY <1>1
  <2>2. QED BY <1>1, <2>1, Remainder, Zenon
<1> HIDE DEF m
<1>5. PICK r \in 0 .. a - 1, q \in Int : r = m % a /\ m = a * q + r
  <2>1. m \in Int
    BY <1>1, <1>3
  <2>2. QED BY <2>1, Quotient, Zenon
<1>6. p + r = a + Word - Word * v - a * q
  BY <1>1, <1>3, <1>4, <1>5
<1>7. Word * v = a * (w * v)
  BY <1>2
<1>8. p + r = a * (1 + w - w * v - q)
  BY <1>2, <1>6, <1>7
<1>9. (p + r) % a = 0
  <2>1. 1 + w - w * v - q \in Int /\ p + r \in Int
    OBVIOUS
  <2>2. QED BY <1>8, <2>1, Multiple
<1>10. QED BY <1>5, <1>3, <1>9

\* The first slot of a pool is within the memory by less than a slot, and slots
\* are aligned from there on.
LEMMA Shapes ==
  ASSUME ParamsOK
  PROVE  /\ n \in Nat /\ buffer \in Nat /\ Distance \in Nat \ {0} /\ Beginning \in Nat
         /\ pool = "growing" => /\ buffer < Beginning /\ Beginning < buffer + Distance
                                /\ SlotAlign(type) \in Nat \ {0}
                                /\ Beginning % SlotAlign(type) = 0 /\ Distance % SlotAlign(type) = 0
         /\ pool = "fixed" => Beginning = buffer /\ Beginning % Pointer = 0
         /\ buffer + n * Distance + Distance < Word
         /\ Pointer \in Nat \ {0} /\ Word \in Nat \ {0}
<1>1. n \in Nat /\ n \in Counts /\ buffer \in Nat /\ buffer \in Buffers /\ type \in Types
      /\ Pointer \in Nat \ {0} /\ Word \in Nat \ {0}
  BY LayoutAssumption DEF ParamsOK
<1>2. /\ SlotAlign(type) \in Nat \ {0} /\ SlotSize(type) \in Nat \ {0}
      /\ type.size \in Nat \ {0}
      /\ SlotSize(type) % SlotAlign(type) = 0
      /\ SlotSize(type) >= SlotAlign(type) + Pointer
      /\ SlotSize(type) >= type.size
  BY <1>1, SlotShape
<1>3. buffer + (n + 1) * SlotSize(type) < Word /\ Word % SlotAlign(type) = 0 /\ buffer % Pointer = 0
  BY <1>1, LayoutAssumption
<1>4. (n + 1) * SlotSize(type) = n * SlotSize(type) + SlotSize(type) /\ n * SlotSize(type) \in Nat
  BY <1>1, <1>2
<1>5. CASE pool = "growing"
  <2>1. buffer + Pointer \in Nat /\ buffer + Pointer < Word
    BY <1>1, <1>2, <1>3, <1>4
  <2>2. /\ PadPointer(buffer + Pointer, SlotAlign(type)) \in 0 .. SlotAlign(type) - 1
        /\ (buffer + Pointer + PadPointer(buffer + Pointer, SlotAlign(type))) % SlotAlign(type) = 0
    BY <1>2, <1>3, <2>1, Padded
  <2>3. Distance = SlotSize(type)
        /\ Beginning = buffer + Pointer + PadPointer(buffer + Pointer, SlotAlign(type))
    BY <1>5 DEF Distance, Beginning
  <2>4. QED BY <1>1, <1>2, <1>3, <1>4, <1>5, <2>2, <2>3
<1>6. CASE pool = "fixed"
  <2>1. Distance = type.size /\ Beginning = buffer
    BY <1>6 DEF Distance, Beginning
  <2>2. n * type.size <= n * SlotSize(type)
    <3>1. n * (SlotSize(type) - type.size) >= 0
      BY <1>1, <1>2
    <3>2. QED BY <1>1, <1>2, <3>1
  <2>3. n * type.size \in Nat
    BY <1>1, <1>2
  <2>4. QED BY <1>1, <1>2, <1>3, <1>4, <1>6, <2>1, <2>2, <2>3
<1>7. QED BY <1>5, <1>6 DEF ParamsOK

-----------------------------------------------------------------------------
\* The invariant

LEMMA InitInv == Init => IInv
BY DEF Init, IInv, ParamsOK, LoopOK, TurnsOK, AllCarved, MisplacedOK

\* There is one more turn in the growing pool as long as two slots are left, and
\* in a fixed pool as long as one is.
LEMMA OneMore ==
  ASSUME IInv, pc = "loop"
  PROVE  /\ Enough => (More <=> i < n - 1)
         /\ ~Enough /\ pool = "growing" => ~More
<1>1. ParamsOK /\ i \in Nat /\ step = Distance /\ start = Beginning + i * step
  BY DEF IInv, ParamsOK, LoopOK
<1>2. /\ n \in Nat /\ buffer \in Nat /\ step \in Nat \ {0} /\ Beginning \in Nat
      /\ pool = "growing" => buffer < Beginning /\ Beginning < buffer + step
      /\ buffer + n * step + step < Word /\ Word \in Nat \ {0}
  BY <1>1, Shapes
<1>3. CASE pool = "growing"
  <2>1. More <=> start + step < buffer + n * step
    BY <1>3 DEF More, MoreGrowing
  <2>2. Enough <=> n >= 2
    BY <1>3 DEF Enough
  <2>3. i < n - 1 => start + step < buffer + n * step
    <3>1. SUFFICES ASSUME i < n - 1 PROVE start + step < buffer + n * step
      OBVIOUS
    <3>2. i * step + step <= (n - 1) * step
      BY <1>1, <1>2, <3>1, StrictlyMonotone
    <3>3. (n - 1) * step = n * step - step
      BY <1>2
    <3>4. i * step \in Int /\ n * step \in Int
      BY <1>1, <1>2
    <3>5. QED BY <1>1, <1>2, <1>3, <3>2, <3>3, <3>4
  <2>4. i >= n - 1 => ~(start + step < buffer + n * step)
    <3>1. SUFFICES ASSUME n - 1 <= i PROVE ~(start + step < buffer + n * step)
      BY <1>1, <1>2
    <3>2. (n - 1) * step <= i * step
      BY <1>1, <1>2, <3>1, Monotone
    <3>3. (n - 1) * step = n * step - step
      BY <1>2
    <3>4. i * step \in Int /\ n * step \in Int
      BY <1>1, <1>2
    <3>5. QED BY <1>1, <1>2, <1>3, <3>2, <3>3, <3>4
  <2>5. QED BY <1>1, <1>2, <2>1, <2>2, <2>3, <2>4
<1>4. CASE pool = "fixed"
  <2>1. SUFFICES ASSUME n >= 1 PROVE More <=> i < n - 1
    BY <1>4 DEF Enough
  <2>2. n < Word
    <3>1. n * step >= n
      BY <1>2
    <3>2. n * step \in Int
      BY <1>2
    <3>3. QED BY <1>2, <3>1, <3>2
  <2>3. (n + Word - 1) % Word = n - 1
    <3>1. n + Word - 1 = Word * 1 + (n - 1) /\ n - 1 \in 0 .. Word - 1
      BY <1>2, <2>1, <2>2
    <3>2. QED BY <1>2, <3>1, RemainderIs
  <2>4. More <=> i < (n + Word - 1) % Word
    BY <1>4 DEF More, MoreFixed
  <2>5. QED BY <2>3, <2>4
<1>5. QED BY <1>1, <1>3, <1>4 DEF ParamsOK

LEMMA BeginInv ==
  ASSUME IInv, BeginGrowing \/ BeginFixed
  PROVE  IInv'
<1>1. /\ pc = "begin" /\ pc' = "loop" /\ i = 0 /\ i' = i /\ links = {} /\ links' = links
      /\ pool' = pool /\ n' = n /\ type' = type /\ buffer' = buffer
      /\ ParamsOK
  BY DEF IInv, ParamsOK, LoopOK, BeginGrowing, BeginFixed, params
<1>2. step' = Distance' /\ first' = Beginning' /\ start' = Beginning'
  BY <1>1 DEF BeginGrowing, BeginFixed, Distance, Beginning
<1>3. ParamsOK'
  BY <1>1 DEF ParamsOK
<1>4. Distance = Distance' /\ Beginning = Beginning'
  BY <1>1 DEF Distance, Beginning
<1>5. Distance \in Nat /\ Beginning \in Nat /\ n \in Nat
  BY <1>1, Shapes
<1>6. LoopOK'
  <2>1. start' = first' + i' * step'
    <3>1. step' \in Nat /\ first' \in Nat /\ start' = first'
      BY <1>2, <1>4, <1>5
    <3>2. i' = 0
      BY <1>1
    <3>3. i' * step' = 0
      <4>1. \A x \in Nat : 0 * x = 0
        OBVIOUS
      <4>2. QED BY <3>1, <3>2, <4>1, Zenon
    <3>4. QED BY <3>1, <3>3
  <2>2. links' = {LinkOf(k)' : k \in 0 .. i' - 1}
    <3>1. 0 .. i' - 1 = {}
      BY <1>1
    <3>2. QED BY <1>1, <3>1
  <2>3. QED BY <1>1, <1>2, <2>1, <2>2 DEF LoopOK
<1>7. TurnsOK'
  BY <1>1, <1>5 DEF TurnsOK, Enough
<1>8. QED BY <1>1, <1>3, <1>6, <1>7 DEF IInv, AllCarved, MisplacedOK

\* The places of two slots differ.
LEMMA Apart ==
  ASSUME NEW a \in Int, NEW s \in Nat \ {0}, NEW k \in Int, NEW m \in Int, k < m
  PROVE  a + k * s # a + m * s
<1>1. k * s + s <= m * s
  BY StrictlyMonotone
<1>2. k * s \in Int /\ m * s \in Int
  OBVIOUS
<1>3. QED BY <1>1, <1>2

LEMMA TurnInv ==
  ASSUME IInv, Turn
  PROVE  IInv'
<1>1. /\ pc = "loop" /\ pc' = pc /\ i' = i + 1 /\ start' = start + step /\ step' = step /\ first' = first
      /\ pool' = pool /\ n' = n /\ type' = type /\ buffer' = buffer /\ More
      /\ links' = {l \in links : l.at # start} \cup {[at |-> start, to |-> start + step]}
  BY DEF Turn, params, SetLink
<1>2. /\ ParamsOK /\ i \in Nat /\ step = Distance /\ first = Beginning
      /\ start = first + i * step /\ links = {LinkOf(k) : k \in 0 .. i - 1} /\ TurnsOK
  BY <1>1 DEF IInv, ParamsOK, LoopOK
<1>3. step \in Nat \ {0} /\ first \in Nat /\ n \in Nat
  BY <1>2, Shapes
<1>4. Distance = Distance' /\ Beginning = Beginning' /\ (Enough <=> Enough')
  BY <1>1 DEF Distance, Beginning, Enough
<1>5. ParamsOK'
  BY <1>1, <1>2 DEF ParamsOK
<1>6. start + step = first + (i + 1) * step
  BY <1>2, <1>3
<1>7. LoopOK'
  <2>1. \A k \in 0 .. i - 1 : LinkOf(k).at # start
    <3>1. TAKE k \in 0 .. i - 1
    <3>2. first + k * step # first + i * step
      BY <1>2, <1>3, Apart
    <3>3. QED BY <1>2, <3>2 DEF LinkOf
  <2>2. {l \in links : l.at # start} = links
    BY <1>2, <2>1
  <2>3. LinkOf(i) = [at |-> start, to |-> start + step]
    BY <1>2, <1>6 DEF LinkOf
  <2>4. links' = {LinkOf(k) : k \in 0 .. i - 1} \cup {LinkOf(i)}
    BY <1>1, <1>2, <2>2, <2>3
  <2>5. 0 .. i' - 1 = (0 .. i - 1) \cup {i}
    BY <1>1, <1>2
  <2>6. links' = {LinkOf(k) : k \in 0 .. i' - 1}
    BY <2>4, <2>5
  <2>7. \A k : LinkOf(k)' = LinkOf(k)
    BY <1>1 DEF LinkOf
  <2>8. links' = {LinkOf(k)' : k \in 0 .. i' - 1}
    BY <2>6, <2>7
  <2>9. start' = first' + i' * step'
    <3>1. first + (i + 1) * step = first' + i' * step'
      BY <1>1, Zenon
    <3>2. QED BY <1>1, <1>6, <3>1
  <2>10. QED BY <1>1, <1>2, <1>4, <2>8, <2>9 DEF LoopOK
<1>8. TurnsOK'
  <2>1. Enough => i < n - 1
    BY <1>1, OneMore
  <2>2. ~Enough => pool # "growing"
    BY <1>1, OneMore
  <2>3. Enough => i + 1 <= n - 1
    BY <1>2, <1>3, <2>1
  <2>4. QED BY <1>1, <1>4, <2>2, <2>3 DEF TurnsOK
<1>9. QED BY <1>1, <1>5, <1>7, <1>8 DEF IInv, AllCarved, MisplacedOK

\* The last slot is the one at which the loop stands in a fixed pool, and the one
\* before it in the growing pool.
LEMMA WhereItEnds ==
  ASSUME IInv, pc = "loop", Enough, ~More
  PROVE  /\ i = n - 1
         /\ LastSlot = first + (IF pool = "growing" THEN n - 2 ELSE n - 1) * step
<1>1. ParamsOK /\ TurnsOK /\ i \in Nat /\ step = Distance /\ first = Beginning /\ start = first + i * step
  BY DEF IInv, ParamsOK, LoopOK
<1>2. /\ n \in Nat /\ buffer \in Nat /\ step \in Nat \ {0} /\ first \in Nat
      /\ pool = "growing" => buffer < first /\ first < buffer + step
      /\ buffer + n * step + step < Word /\ Word \in Nat \ {0}
  BY <1>1, Shapes
<1>3. i = n - 1
  <2>1. i <= n - 1
    BY <1>1 DEF TurnsOK
  <2>2. ~(i < n - 1)
    BY OneMore
  <2>3. QED BY <1>1, <1>2, <2>1, <2>2
<1>4. CASE pool = "growing"
  <2>1. n >= 2
    BY <1>4 DEF Enough
  <2>2. LastSlot = (start + Word - step) % Word
    BY <1>4 DEF LastSlot, Address
  <2>3. start - step = first + (n - 2) * step
    BY <1>1, <1>2, <1>3
  <2>4. (n - 2) * step \in Nat /\ (n - 2) * step <= n * step /\ n * step \in Nat
    BY <1>2, <2>1, Monotone
  <2>5. start - step \in 0 .. Word - 1
    BY <1>2, <1>4, <2>3, <2>4
  <2>6. start + Word - step = Word * 1 + (start - step)
    BY <1>2, <2>3, <2>4, <1>1, <1>3
  <2>7. (Word * 1 + (start - step)) % Word = start - step
    BY <1>2, <2>5, RemainderIs
  <2>8. LastSlot = start - step
    BY <2>2, <2>6, <2>7
  <2>9. QED BY <1>3, <1>4, <2>3, <2>8
<1>5. CASE pool = "fixed"
  <2>1. LastSlot = start
    BY <1>5 DEF LastSlot
  <2>2. QED BY <1>1, <1>3, <1>5, <2>1
<1>6. QED BY <1>1, <1>4, <1>5 DEF ParamsOK

LEMMA EndLoopInv ==
  ASSUME IInv, EndLoop
  PROVE  IInv'
<1>1. /\ pc = "loop" /\ pc' = "done" /\ i' = i /\ start' = start /\ step' = step /\ first' = first
      /\ pool' = pool /\ n' = n /\ type' = type /\ buffer' = buffer /\ ~More
      /\ links' = {l \in links : l.at # LastSlot} \cup {[at |-> LastSlot, to |-> NULL]}
  BY DEF EndLoop, params, SetLink
<1>2. /\ ParamsOK /\ i \in Nat /\ step = Distance /\ first = Beginning
      /\ start = first + i * step /\ links = {LinkOf(k) : k \in 0 .. i - 1} /\ TurnsOK
  BY <1>1 DEF IInv, ParamsOK, LoopOK
<1>3. step \in Nat \ {0} /\ first \in Nat /\ n \in Nat
  BY <1>2, Shapes
<1>4. Distance = Distance' /\ Beginning = Beginning' /\ (Enough <=> Enough') /\ LastSlot' = LastSlot
  BY <1>1 DEF Distance, Beginning, Enough, LastSlot, Address
<1>5. ParamsOK'
  BY <1>1, <1>2 DEF ParamsOK
<1>6. LoopOK'
  <2>1. start' = first' + i' * step'
    BY <1>1, <1>2, Zenon
  <2>2. QED BY <1>1, <1>2, <1>4, <2>1 DEF LoopOK
<1>7. Enough => i = n - 1
  BY <1>1, WhereItEnds
<1>8. TurnsOK'
  BY <1>1, <1>2, <1>4, <1>7 DEF TurnsOK
<1>9. MisplacedOK'
  BY <1>1, <1>4 DEF MisplacedOK
<1>10. ASSUME Enough
       PROVE  LET slots == IF pool = "growing" THEN n - 1 ELSE n
              IN links' = {[at |-> first + k * step,
                            to |-> IF k < slots - 1 THEN first + (k + 1) * step ELSE NULL] : k \in 0 .. slots - 1}
  <2> DEFINE slots == IF pool = "growing" THEN n - 1 ELSE n
             Carved(k) == [at |-> first + k * step,
                           to |-> IF k < slots - 1 THEN first + (k + 1) * step ELSE NULL]
  <2>1. /\ slots \in Nat \ {0} /\ i \in {slots, slots - 1}
        /\ slots - 1 = (IF pool = "growing" THEN n - 2 ELSE n - 1)
    BY <1>2, <1>3, <1>7, <1>10 DEF Enough, ParamsOK
  <2>2. LastSlot = first + (slots - 1) * step
    BY <1>1, <1>10, <2>1, WhereItEnds, Zenon
  <2> HIDE DEF slots
  <2>3. \A k \in 0 .. i - 1 : LinkOf(k).at # LastSlot <=> k \in 0 .. slots - 2
    <3>1. TAKE k \in 0 .. i - 1
    <3>2. LinkOf(k).at = first + k * step
      BY DEF LinkOf
    <3>3. k \in Int /\ k <= slots - 1 /\ k >= 0
      BY <1>2, <2>1
    <3>4. CASE k = slots - 1
      BY <2>1, <2>2, <3>2, <3>4
    <3>5. CASE k < slots - 1
      <4>1. first + k * step # first + (slots - 1) * step
        BY <1>3, <2>1, <3>3, <3>5, Apart
      <4>2. k \in 0 .. slots - 2
        BY <2>1, <3>3, <3>5
      <4>3. QED BY <2>2, <3>2, <4>1, <4>2
    <3>6. QED BY <2>1, <3>3, <3>4, <3>5
  <2>4. 0 .. slots - 2 \subseteq 0 .. i - 1
    BY <1>2, <2>1
  <2>5. {l \in links : l.at # LastSlot} = {LinkOf(k) : k \in 0 .. slots - 2}
    BY <1>2, <2>3, <2>4
  <2>6. \A k \in 0 .. slots - 2 : LinkOf(k) = Carved(k)
    BY <2>1 DEF LinkOf
  <2>7. Carved(slots - 1) = [at |-> LastSlot, to |-> NULL]
    BY <2>1, <2>2
  <2>8. 0 .. slots - 1 = (0 .. slots - 2) \cup {slots - 1}
    BY <2>1
  <2> HIDE DEF Carved
  <2>9. {LinkOf(k) : k \in 0 .. slots - 2} = {Carved(k) : k \in 0 .. slots - 2}
    BY <2>6
  <2>10. links' = {Carved(k) : k \in 0 .. slots - 2} \cup {Carved(slots - 1)}
    BY <1>1, <2>5, <2>7, <2>9
  <2>11. links' = {Carved(k) : k \in 0 .. slots - 1}
    BY <2>8, <2>10
  <2>12. QED BY <2>11, Zenon DEF Carved, slots
<1>11. AllCarved'
  BY <1>1, <1>4, <1>10, Zenon DEF AllCarved
<1>12. QED BY <1>5, <1>6, <1>8, <1>9, <1>11 DEF IInv

LEMMA StutterInv ==
  ASSUME IInv, UNCHANGED vars
  PROVE  IInv'
BY DEF IInv, ParamsOK, LoopOK, TurnsOK, AllCarved, MisplacedOK, vars, params, Distance, Beginning, Enough,
       LinkOf, LastSlot, Address

LEMMA StepInv == IInv /\ [Next]_vars => IInv'
BY BeginInv, TurnInv, EndLoopInv, StutterInv DEF Next, Done

\* The invariant that the properties follow from: what the loop that carves and
\* links the slots of a block, or of a fixed pool, has done so far.
THEOREM Invariance == Spec => []IInv
<1>1. QED BY InitInv, StepInv, PTL DEF Spec

\* Every slot of a pool is linked, in the order of addresses: block_size - 1 of
\* a block of memory_pool.h, count of the pools of m_pool.cpp.
THEOREM EverySlotIsCarved == Spec => []AllCarved
<1>1. IInv => AllCarved
  BY DEF IInv
<1>2. QED BY <1>1, Invariance, PTL

-----------------------------------------------------------------------------
\* The slots lie where they may

\* Every slot linked is one that starts a whole number of slots behind the first.
LEMMA LinksAt ==
  ASSUME IInv, pc # "begin", Enough
  PROVE  \A l \in links : \E k \in Nat :
           /\ l.at = first + k * step
           /\ pc = "done" => k <= (IF pool = "growing" THEN n - 2 ELSE n - 1)
<1> TAKE l \in links
<1>1. CASE pc = "loop"
  <2>1. links = {LinkOf(k) : k \in 0 .. i - 1} /\ i \in Nat
    BY <1>1 DEF IInv, LoopOK, ParamsOK
  <2>2. PICK k \in 0 .. i - 1 : l = LinkOf(k)
    BY <2>1
  <2>3. k \in Nat /\ l.at = first + k * step
    BY <2>1, <2>2 DEF LinkOf
  <2>4. QED BY <1>1, <2>3
<1>2. CASE pc = "done"
  <2> DEFINE slots == IF pool = "growing" THEN n - 1 ELSE n
  <2>1. links = {[at |-> first + k * step,
                  to |-> IF k < slots - 1 THEN first + (k + 1) * step ELSE NULL] : k \in 0 .. slots - 1}
    BY <1>2 DEF IInv, AllCarved
  <2>2. n \in Nat
    BY Shapes DEF IInv
  <2>3. slots \in Int /\ slots - 1 = (IF pool = "growing" THEN n - 2 ELSE n - 1)
    BY <2>2
  <2> HIDE DEF slots
  <2>4. PICK k \in 0 .. slots - 1 :
             l = [at |-> first + k * step, to |-> IF k < slots - 1 THEN first + (k + 1) * step ELSE NULL]
    BY <2>1
  <2>5. k \in Nat /\ k <= slots - 1 /\ l.at = first + k * step
    BY <2>3, <2>4
  <2>6. QED BY <2>3, <2>5
<1>3. QED BY <1>1, <1>2 DEF IInv, ParamsOK

LEMMA LinksInside ==
  ASSUME IInv, pc = "done", Enough, NEW l \in links
  PROVE  Slot(l.at)
<1>1. PICK k \in Nat : l.at = first + k * step /\ k <= (IF pool = "growing" THEN n - 2 ELSE n - 1)
  <2>1. pc # "begin"
    OBVIOUS
  <2>2. QED BY <2>1, LinksAt
<1>2. ParamsOK /\ step = Distance /\ first = Beginning
  BY DEF IInv, LoopOK
<1>3. /\ n \in Nat /\ buffer \in Nat /\ step \in Nat \ {0} /\ first \in Nat
      /\ pool = "growing" => buffer < first /\ first < buffer + step
      /\ pool = "fixed" => first = buffer
  BY <1>2, Shapes
<1>4. k * step \in Nat /\ n * step \in Nat
  BY <1>3
<1>5. CASE pool = "growing"
  <2>1. k < n - 1
    BY <1>1, <1>3, <1>5
  <2>2. k * step + step <= (n - 1) * step
    BY <1>3, <2>1, StrictlyMonotone
  <2>3. (n - 1) * step = n * step - step
    BY <1>3
  <2>4. QED BY <1>1, <1>3, <1>4, <1>5, <2>2, <2>3 DEF Slot
<1>6. CASE pool = "fixed"
  <2>1. k < n
    BY <1>1, <1>3, <1>6
  <2>2. k * step + step <= n * step
    BY <1>3, <2>1, StrictlyMonotone
  <2>3. QED BY <1>1, <1>3, <1>4, <1>6, <2>2 DEF Slot
<1>7. QED BY <1>2, <1>5, <1>6 DEF ParamsOK

\* Without room the end is marked outside: before the block, at an address that
\* wraps around, or behind the memory of a pool of no objects.
LEMMA LastOutside ==
  ASSUME IInv, pc = "done", ~Enough
  PROVE  ~Slot(LastSlot)
<1>1. ParamsOK /\ TurnsOK /\ i \in Nat /\ step = Distance /\ first = Beginning /\ start = first + i * step
  BY DEF IInv, LoopOK, ParamsOK
<1>2. /\ n \in Nat /\ buffer \in Nat /\ step \in Nat \ {0} /\ first \in Nat
      /\ pool = "growing" => buffer < first /\ first < buffer + step
      /\ pool = "fixed" => first = buffer
      /\ buffer + n * step + step < Word /\ Word \in Nat \ {0}
  BY <1>1, Shapes
<1>3. CASE pool = "growing"
  <2>1. n * step \in Nat /\ n * step <= step
    <3>1. n <= 1
      BY <1>2, <1>3 DEF Enough
    <3>2. n * step <= 1 * step
      BY <1>2, <3>1, Monotone
    <3>3. QED BY <1>2, <3>2
  <2>2. start = first
    <3>1. i = 0
      BY <1>1, <1>3 DEF TurnsOK
    <3>2. QED BY <1>1, <1>2, <3>1
  <2>3. LastSlot = (start + Word - step) % Word
    BY <1>3 DEF LastSlot, Address
  <2>4. CASE start >= step
    <3>1. start + Word - step = Word * 1 + (start - step) /\ start - step \in 0 .. Word - 1
      BY <1>2, <1>3, <2>1, <2>2, <2>4
    <3>2. LastSlot = start - step
      BY <1>2, <2>3, <3>1, RemainderIs, SMTT(30)
    <3>3. LastSlot < buffer
      BY <1>2, <1>3, <2>2, <3>2
    <3>4. LastSlot \in Int
      BY <3>1, <3>2
    <3>5. QED BY <1>2, <3>3, <3>4 DEF Slot
  <2>5. CASE start < step
    <3>1. start + Word - step = Word * 0 + (start + Word - step) /\ start + Word - step \in 0 .. Word - 1
      BY <1>2, <1>3, <2>1, <2>2, <2>5
    <3>2. LastSlot = start + Word - step
      BY <1>2, <2>3, <3>1, RemainderIs
    <3>3. LastSlot + step > buffer + n * step
      BY <1>2, <1>3, <2>1, <2>2, <3>2
    <3>4. LastSlot + step \in Int /\ buffer + n * step \in Int
      BY <1>2, <2>1, <2>2, <3>2
    <3>5. QED BY <3>3, <3>4 DEF Slot
  <2>6. QED BY <1>2, <2>2, <2>4, <2>5
<1>4. CASE pool = "fixed"
  <2>1. n = 0
    BY <1>2, <1>4 DEF Enough
  <2>2. LastSlot = first + i * step /\ i * step \in Nat
    BY <1>1, <1>2, <1>4 DEF LastSlot
  <2>3. n * step = 0
    BY <1>2, <2>1
  <2>4. LastSlot + step > buffer + n * step /\ LastSlot + step \in Int
    BY <1>2, <1>4, <2>2, <2>3
  <2>5. QED BY <1>2, <2>3, <2>4 DEF Slot
<1>5. QED BY <1>1, <1>3, <1>4 DEF ParamsOK

LEMMA LinksAligned ==
  ASSUME IInv, pc = "done", Enough, pool = "growing" \/ type.size % Pointer = 0 \/ n = 1
  PROVE  Aligned
<1>. SUFFICES ASSUME NEW l \in links
              PROVE  l.at % (IF pool = "growing" THEN SlotAlign(type) ELSE Pointer) = 0
  BY DEF Aligned
<1>1. PICK k \in Nat : l.at = first + k * step /\ k <= (IF pool = "growing" THEN n - 2 ELSE n - 1)
  BY LinksAt
<1>2. ParamsOK /\ step = Distance /\ first = Beginning
  BY DEF IInv, LoopOK
<1>3. /\ step \in Nat \ {0} /\ first \in Nat /\ Pointer \in Nat \ {0}
      /\ pool = "growing" => /\ SlotAlign(type) \in Nat \ {0}
                             /\ first % SlotAlign(type) = 0 /\ step % SlotAlign(type) = 0
      /\ pool = "fixed" => first % Pointer = 0
  BY <1>2, Shapes, Zenon
<1>4. step \in Int /\ first \in Int /\ k \in Int
  BY <1>3
<1>5. CASE pool = "growing"
  <2>1. (first + k * step) % SlotAlign(type) = 0
    BY <1>3, <1>4, <1>5, SumOfMultiples, Zenon
  <2>2. QED BY <1>1, <1>5, <2>1, Zenon
<1>6. CASE pool = "fixed" /\ type.size % Pointer = 0
  <2>1. step % Pointer = 0 /\ first % Pointer = 0
    BY <1>2, <1>3, <1>6, Zenon DEF Distance
  <2>2. (first + k * step) % Pointer = 0
    BY <1>3, <1>4, <2>1, SumOfMultiples, Zenon
  <2>3. QED BY <1>1, <1>6, <2>2, Zenon
<1>7. CASE pool = "fixed" /\ n = 1
  <2>1. k = 0
    BY <1>1, <1>7
  <2>2. l.at = first
    BY <1>1, <1>3, <2>1
  <2>3. QED BY <1>3, <1>7, <2>2
<1>8. QED BY <1>2, <1>5, <1>6, <1>7 DEF ParamsOK

\* The second object of a fixed pool is off the alignment by the size of the first.
LEMMA SizeFits ==
  ASSUME IInv, pc = "done", Enough, Aligned, pool = "fixed", n # 1
  PROVE  type.size % Pointer = 0
<1>1. ParamsOK /\ step = Distance /\ first = Beginning
  BY DEF IInv, LoopOK
<1>2. /\ n \in Nat /\ step \in Nat \ {0} /\ first \in Nat /\ Pointer \in Nat \ {0}
      /\ first % Pointer = 0 /\ step = type.size
  BY <1>1, Shapes DEF Distance
<1>3. 1 \in 0 .. n - 1
  BY <1>2 DEF Enough
<1>4. \E l \in links : l.at = first + 1 * step
  <2>1. links = {[at |-> first + k * step,
                  to |-> IF k < n - 1 THEN first + (k + 1) * step ELSE NULL] : k \in 0 .. n - 1}
    BY DEF IInv, AllCarved
  <2>2. [at |-> first + 1 * step, to |-> IF 1 < n - 1 THEN first + (1 + 1) * step ELSE NULL] \in links
    BY <1>3, <2>1
  <2>3. QED BY <2>2
<1>5. (first + step) % Pointer = 0
  <2>1. first + 1 * step = first + step
    BY <1>2
  <2>2. QED BY <1>4, <2>1 DEF Aligned
<1>6. ((first + step) + (-1) * first) % Pointer = 0
  <2>1. first + step \in Int /\ first \in Int /\ -1 \in Int
    BY <1>2
  <2>2. first % Pointer = 0 /\ Pointer \in Nat \ {0}
    BY <1>2, Zenon
  <2>3. QED BY <1>5, <2>1, <2>2, SumOfMultiples, ZenonT(60)
<1>7. (first + step) + (-1) * first = step
  BY <1>2
<1>8. QED BY <1>2, <1>6, <1>7

\* Links are written to memory that belongs to the pool exactly when the pool has
\* room for two slots, or one object.  Where a slot begins, in the growing pool an
\* element and its pointer may lie: the padding of allocate_block(), its strict
\* comparison and its step back are right for every type and every address.  In
\* the fixed pools a pointer may lie there exactly when the size of an element is
\* a multiple of its alignment, if there is more than one.
THEOREM SlotsAreWellPlaced == Spec => []WellPlaced
<1>1. ASSUME IInv PROVE WellPlaced
  <2>1. pc = "done" => (Enough <=> \A l \in links : Slot(l.at))
    <3>1. ASSUME pc = "done", ~Enough PROVE \E l \in links : ~Slot(l.at)
      <4>1. [at |-> LastSlot, to |-> NULL] \in links
        BY <1>1, <3>1 DEF IInv, MisplacedOK
      <4>2. QED BY <1>1, <3>1, <4>1, LastOutside
    <3>2. QED BY <1>1, <3>1, LinksInside
  <2>2. pc = "done" /\ Enough =>
          (Aligned <=> pool = "growing" \/ type.size % Pointer = 0 \/ n = 1)
    <3>1. pool = "growing" \/ pool = "fixed"
      BY <1>1 DEF IInv, ParamsOK
    <3>2. QED BY <1>1, <3>1, LinksAligned, SizeFits, Zenon
  <2>3. QED BY <2>1, <2>2, Zenon DEF WellPlaced
<1>2. IInv => WellPlaced
  BY <1>1
<1>3. QED BY <1>2, Invariance, PTL

-----------------------------------------------------------------------------
\* The demonstrations: loops and joined sequences of instructions

\* s is a sequence of length m.
Long(s, m) == m \in Nat /\ DOMAIN s = 1 .. m /\ Len(s) = m /\ s \in Seq({s[j] : j \in 1 .. m})

LEMMA OwnSequence ==
  ASSUME NEW c, NEW p \in Nat, c = [j \in 1 .. p |-> c[j]]
  PROVE  c \in Seq({c[j] : j \in 1 .. p}) /\ Len(c) = p
OBVIOUS

\* s is a, which is m long, followed by b, which is k long, and p long.
Joined(s, a, m, b, k, p) ==
  /\ Long(s, p)
  /\ \A j \in 1 .. m : s[j] = a[j]
  /\ \A j \in 1 .. k : s[m + j] = b[j]

LEMMA LongJoin ==
  ASSUME NEW a, NEW b, NEW m \in Nat, NEW k \in Nat, NEW p, NEW s,
         Long(a, m), Long(b, k), p = m + k, s = a \o b
  PROVE  Joined(s, a, m, b, k, p) /\ Long(s, p)
<1>. DEFINE A == {a[j] : j \in 1 .. m} \cup {b[j] : j \in 1 .. k}
<1>1. p \in Nat /\ Len(a) = m /\ Len(b) = k
  BY DEF Long
<1>2. a \in Seq(A) /\ b \in Seq(A)
  BY DEF Long
<1>. HIDE DEF A
<1>3. s \in Seq(A) /\ Len(s) = p
  BY <1>1, <1>2, ConcatProperties
<1>4. \A j \in 1 .. m + k : s[j] = IF j <= m THEN a[j] ELSE b[j - m]
  BY <1>1, <1>2, ConcatProperties
<1>5. (\A j \in 1 .. m : s[j] = a[j]) /\ \A j \in 1 .. k : s[m + j] = b[j]
  <2>1. \A j \in 1 .. k : m + j \in 1 .. m + k /\ ~(m + j <= m) /\ (m + j) - m = j
    OBVIOUS
  <2>2. \A j \in 1 .. m : j \in 1 .. m + k /\ j <= m
    OBVIOUS
  <2>3. QED BY <1>4, <2>1, <2>2
<1>6. DOMAIN s = 1 .. Len(s) /\ s \in [1 .. Len(s) -> A]
  BY <1>3, LenProperties
<1>7. DOMAIN s = 1 .. p /\ s \in [1 .. p -> A]
  BY <1>3, <1>6
<1>8. s = [j \in 1 .. p |-> s[j]]
  BY <1>7, Zenon
<1>9. s \in Seq({s[j] : j \in 1 .. p})
  BY <1>1, <1>8, OwnSequence
<1>10. Long(s, p)
  BY <1>1, <1>3, <1>7, <1>9 DEF Long
<1>11. QED BY <1>5, <1>10, Zenon DEF Joined

LEMMA LongCat ==
  ASSUME NEW a, NEW b, NEW m \in Nat, NEW k \in Nat, NEW p, Long(a, m), Long(b, k), p = m + k
  PROVE  Joined(a \o b, a, m, b, k, p) /\ Long(a \o b, p)
<1>. PICK s : s = a \o b
  OBVIOUS
<1>1. Joined(s, a, m, b, k, p) /\ Long(s, p)
  BY LongJoin, Zenon
<1>2. QED BY <1>1, Zenon

LEMMA LongOne ==
  ASSUME NEW x
  PROVE  Long(<<x>>, 1) /\ <<x>>[1] = x
BY DEF Long

LEMMA LongLoop ==
  ASSUME NEW turns \in Nat, NEW len \in Nat, NEW body, NEW m \in Nat, m = turns * len
  PROVE  /\ Long(Loop(turns, len, body), m)
         /\ \A j \in 1 .. m : Loop(turns, len, body)[j] = body[(j - 1) \div len + 1][((j - 1) % len) + 1]
<1>. PICK c : c = Loop(turns, len, body)
  OBVIOUS
<1>1. c = [j \in 1 .. m |-> body[(j - 1) \div len + 1][((j - 1) % len) + 1]]
  BY DEF Loop
<1>2. DOMAIN c = 1 .. m /\ \A j \in 1 .. m : c[j] = body[(j - 1) \div len + 1][((j - 1) % len) + 1]
  BY <1>1, Zenon
<1>3. c = [j \in 1 .. m |-> c[j]]
  BY <1>1, <1>2, Zenon
<1>4. Len(c) = m /\ c \in Seq({c[j] : j \in 1 .. m})
  BY <1>3
<1>5. Long(c, m)
  BY <1>2, <1>4 DEF Long
<1>6. QED BY <1>2, <1>5

Node(k) == IF k = 1 THEN "node1" ELSE IF k = 2 THEN "node2" ELSE "node3"

LEMMA SimpleScript ==
  /\ Len(SimpleMemoryLeak) = 3
  /\ \A j \in 1 .. 3 : SimpleMemoryLeak[j] =
       New(<<IF j = 1 THEN "leaked_int" ELSE IF j = 2 THEN "leaked_array" ELSE "leaked_string">>)
BY DEF SimpleMemoryLeak

\* Loops whose turns are one instruction, or two.
LEMMA LongOnes ==
  ASSUME NEW turns \in Nat, NEW body
  PROVE  /\ Long(Loop(turns, 1, body), turns)
         /\ \A j \in 1 .. turns : Loop(turns, 1, body)[j] = body[j][1]
<1>1. turns = turns * 1
  OBVIOUS
<1>2. \A j \in 1 .. turns : (j - 1) \div 1 + 1 = j /\ ((j - 1) % 1) + 1 = 1
  OBVIOUS
<1>3. QED BY <1>1, <1>2, LongLoop

LEMMA LongTwos ==
  ASSUME NEW turns \in Nat, NEW body, NEW m, m = 2 * turns
  PROVE  /\ Long(Loop(turns, 2, body), m)
         /\ \A k \in 1 .. turns : Loop(turns, 2, body)[2 * k - 1] = body[k][1] /\ Loop(turns, 2, body)[2 * k] = body[k][2]
<1>1. turns * 2 = 2 * turns /\ 2 * turns \in Nat
  OBVIOUS
<1>2. \A k \in 1 .. turns : /\ 2 * k - 1 \in 1 .. 2 * turns /\ 2 * k \in 1 .. 2 * turns
                        /\ (2 * k - 2) \div 2 + 1 = k /\ ((2 * k - 2) % 2) + 1 = 1
                        /\ (2 * k - 1) \div 2 + 1 = k /\ ((2 * k - 1) % 2) + 1 = 2
  OBVIOUS
<1>3. /\ Long(Loop(turns, 2, body), 2 * turns)
      /\ \A j \in 1 .. 2 * turns : Loop(turns, 2, body)[j] = body[(j - 1) \div 2 + 1][((j - 1) % 2) + 1]
  BY <1>1, LongLoop
<1>4. \A k \in 1 .. turns : (2 * k - 1) - 1 = 2 * k - 2
  OBVIOUS
<1>5. Long(Loop(turns, 2, body), m)
  BY <1>3
<1>6. ASSUME NEW k \in 1 .. turns
      PROVE  Loop(turns, 2, body)[2 * k - 1] = body[k][1] /\ Loop(turns, 2, body)[2 * k] = body[k][2]
  <2>1. /\ Loop(turns, 2, body)[2 * k - 1] = body[((2 * k - 1) - 1) \div 2 + 1][(((2 * k - 1) - 1) % 2) + 1]
        /\ Loop(turns, 2, body)[2 * k] = body[(2 * k - 1) \div 2 + 1][((2 * k - 1) % 2) + 1]
    BY <1>2, <1>3, Zenon
  <2>2. QED BY <1>2, <1>4, <2>1
<1>7. QED BY <1>5, <1>6

LEMMA ArrayScript ==
  /\ Len(ArrayMemoryLeak) = 20
  /\ \A k \in 1 .. 10 : /\ ArrayMemoryLeak[2 * k - 1] = New(<<"leaked_doubles">>)
                         /\ ArrayMemoryLeak[2 * k] = Forget(<<"leaked_doubles">>)
<1>. DEFINE body == [j \in 1 .. 10 |-> <<New(<<"leaked_doubles">>), Forget(<<"leaked_doubles">>)>>]
<1>1. ArrayMemoryLeak = Loop(10, 2, body)
  BY DEF ArrayMemoryLeak
<1>2. \A k \in 1 .. 10 : body[k][1] = New(<<"leaked_doubles">>) /\ body[k][2] = Forget(<<"leaked_doubles">>)
  OBVIOUS
<1>. HIDE DEF body
<1>3. 20 = 2 * 10
  OBVIOUS
<1>4. Long(Loop(10, 2, body), 20)
  BY <1>3, LongTwos, Zenon
<1>5. \A k \in 1 .. 10 : Loop(10, 2, body)[2 * k - 1] = body[k][1] /\ Loop(10, 2, body)[2 * k] = body[k][2]
  BY <1>3, LongTwos
<1>6. QED BY <1>1, <1>2, <1>4, <1>5 DEF Long

LEMMA ObjectScript ==
  /\ Len(ObjectMemoryLeak) = 10
  /\ \A k \in 1 .. 5 : /\ ObjectMemoryLeak[2 * k - 1] = NewWith(<<"obj">>, "data")
                        /\ ObjectMemoryLeak[2 * k] = Forget(<<"obj">>)
<1>. DEFINE body == [j \in 1 .. 5 |-> <<NewWith(<<"obj">>, "data"), Forget(<<"obj">>)>>]
<1>1. ObjectMemoryLeak = Loop(5, 2, body)
  BY DEF ObjectMemoryLeak
<1>2. \A k \in 1 .. 5 : body[k][1] = NewWith(<<"obj">>, "data") /\ body[k][2] = Forget(<<"obj">>)
  OBVIOUS
<1>. HIDE DEF body
<1>3. 10 = 2 * 5
  OBVIOUS
<1>4. Long(Loop(5, 2, body), 10)
  BY <1>3, LongTwos
<1>5. \A k \in 1 .. 5 : Loop(5, 2, body)[2 * k - 1] = body[k][1] /\ Loop(5, 2, body)[2 * k] = body[k][2]
  BY <1>3, LongTwos
<1>6. QED BY <1>1, <1>2, <1>4, <1>5 DEF Long

\* s is four sequences in a row, which are m, k, l and o long: the first two of
\* them end at p, the first three at q and all of them at r.
Row(s, a, m, b, k, c, l, d, o, p, q, r) ==
  /\ s = a \o b \o c \o d /\ Long(s, r)
  /\ \A j \in 1 .. m : s[j] = a[j]
  /\ \A j \in 1 .. k : s[m + j] = b[j]
  /\ \A j \in 1 .. l : s[p + j] = c[j]
  /\ \A j \in 1 .. o : s[q + j] = d[j]

LEMMA LongFour ==
  ASSUME NEW a, NEW b, NEW c, NEW d, NEW m \in Nat, NEW k \in Nat, NEW l \in Nat, NEW o \in Nat,
         NEW p, NEW q, NEW r, p = m + k, q = p + l, r = q + o,
         Long(a, m), Long(b, k), Long(c, l), Long(d, o)
  PROVE  \E s : Row(s, a, m, b, k, c, l, d, o, p, q, r)
<1>. p \in Nat /\ q \in Nat /\ r \in Nat
  OBVIOUS
<1>1. PICK ab : ab = a \o b /\ Joined(ab, a, m, b, k, p) /\ Long(ab, p)
  BY LongCat
<1>2. PICK abc : abc = ab \o c /\ Joined(abc, ab, p, c, l, q) /\ Long(abc, q)
  BY <1>1, LongCat
<1>3. PICK s : s = abc \o d /\ Joined(s, abc, q, d, o, r) /\ Long(s, r)
  BY <1>2, LongCat
<1>4. \A j \in 1 .. m : j \in 1 .. p /\ j \in 1 .. q
  OBVIOUS
<1>5. \A j \in 1 .. k : m + j \in 1 .. p /\ m + j \in 1 .. q
  OBVIOUS
<1>6. \A j \in 1 .. l : p + j \in 1 .. q
  OBVIOUS
<1>7. /\ \A j \in 1 .. m : ab[j] = a[j]
      /\ \A j \in 1 .. k : ab[m + j] = b[j]
  BY <1>1, Zenon DEF Joined
<1>8. /\ \A j \in 1 .. p : abc[j] = ab[j]
      /\ \A j \in 1 .. l : abc[p + j] = c[j]
  BY <1>2, Zenon DEF Joined
<1>9. /\ \A j \in 1 .. q : s[j] = abc[j]
      /\ \A j \in 1 .. o : s[q + j] = d[j]
  BY <1>3, Zenon DEF Joined
<1>10. \A j \in 1 .. m : s[j] = a[j]
  BY <1>4, <1>7, <1>8, <1>9, Zenon
<1>11. \A j \in 1 .. k : s[m + j] = b[j]
  BY <1>5, <1>7, <1>8, <1>9, Zenon
<1>12. \A j \in 1 .. l : s[p + j] = c[j]
  BY <1>6, <1>8, <1>9, Zenon
<1>13. s = a \o b \o c \o d
  BY <1>1, <1>2, <1>3
<1>14. Row(s, a, m, b, k, c, l, d, o, p, q, r)
  BY <1>3, <1>9, <1>10, <1>11, <1>12, <1>13, Zenon DEF Row
<1>15. QED BY <1>14, Zenon

LEMMA PartialScript ==
  /\ Len(PartialMemoryLeak) = 42
  /\ PartialMemoryLeak[1] = New(<<"pointers">>)
  /\ \A k \in 1 .. 20 : PartialMemoryLeak[1 + k] = New(Element(k))
  /\ \A k \in 1 .. 10 : /\ PartialMemoryLeak[20 + 2 * k] = Delete(Element(k))
                         /\ PartialMemoryLeak[21 + 2 * k] = Forget(Element(k))
  /\ PartialMemoryLeak[42] = Delete(<<"pointers">>)
<1>. DEFINE fill == [j \in 1 .. 20 |-> <<New(Element(j))>>]
            free == [j \in 1 .. 10 |-> <<Delete(Element(j)), Forget(Element(j))>>]
            oldest == <<New(<<"pointers">>)>>
            last == <<Delete(<<"pointers">>)>>
<1>1. Half(20) = 10
  BY DEF Half
<1>. PICK a, b, c, d : a = oldest /\ b = Loop(20, 1, fill) /\ c = Loop(10, 2, free) /\ d = last
  OBVIOUS
<1>2. PartialMemoryLeak = a \o b \o c \o d
  BY <1>1 DEF PartialMemoryLeak
<1>3. Long(b, 20) /\ \A k \in 1 .. 20 : b[k] = New(Element(k))
  <2>1. \A k \in 1 .. 20 : fill[k][1] = New(Element(k))
    OBVIOUS
  <2>. HIDE DEF fill
  <2>2. QED BY <2>1, LongOnes
<1>4. Long(c, 20) /\ \A k \in 1 .. 10 : c[2 * k - 1] = Delete(Element(k)) /\ c[2 * k] = Forget(Element(k))
  <2>1. \A k \in 1 .. 10 : free[k][1] = Delete(Element(k)) /\ free[k][2] = Forget(Element(k))
    OBVIOUS
  <2>. HIDE DEF free
  <2>2. 20 = 2 * 10
    OBVIOUS
  <2>3. QED BY <2>1, <2>2, LongTwos
<1>5. Long(a, 1) /\ a[1] = New(<<"pointers">>) /\ Long(d, 1) /\ d[1] = Delete(<<"pointers">>)
  BY LongOne
<1>. HIDE DEF oldest, last, fill, free
<1>6. 21 = 1 + 20 /\ 41 = 21 + 20 /\ 42 = 41 + 1 /\ 1 \in 1 .. 1
  OBVIOUS
<1>7. PICK s : Row(s, a, 1, b, 20, c, 20, d, 1, 21, 41, 42)
  <2>1. Long(a, 1) /\ Long(b, 20) /\ Long(c, 20) /\ Long(d, 1)
    BY <1>3, <1>4, <1>5
  <2>2. QED BY <1>6, <2>1, LongFour, ZenonT(60)
<1>8. /\ s = a \o b \o c \o d /\ Long(s, 42)
      /\ \A j \in 1 .. 1 : s[j] = a[j]
      /\ \A j \in 1 .. 20 : s[1 + j] = b[j]
      /\ \A j \in 1 .. 20 : s[21 + j] = c[j]
      /\ \A j \in 1 .. 1 : s[41 + j] = d[j]
  BY <1>7, Zenon DEF Row
<1>9. Len(s) = 42
  BY <1>8 DEF Long
<1>10. s[1] = New(<<"pointers">>) /\ s[42] = Delete(<<"pointers">>)
  <2>1. s[1] = a[1] /\ s[41 + 1] = d[1]
    BY <1>8, <1>6, Zenon
  <2>2. QED BY <1>5, <1>6, <2>1
<1>11. \A k \in 1 .. 20 : s[1 + k] = New(Element(k))
  BY <1>3, <1>8
<1>12. ASSUME NEW k \in 1 .. 10
       PROVE  s[20 + 2 * k] = Delete(Element(k)) /\ s[21 + 2 * k] = Forget(Element(k))
  <2>1. 20 + 2 * k = 21 + (2 * k - 1) /\ 2 * k - 1 \in 1 .. 20 /\ 2 * k \in 1 .. 20
    OBVIOUS
  <2>2. s[21 + (2 * k - 1)] = c[2 * k - 1] /\ s[21 + 2 * k] = c[2 * k]
    BY <1>8, <2>1, Zenon
  <2>3. s[20 + 2 * k] = c[2 * k - 1]
    BY <2>1, <2>2
  <2>4. QED BY <1>4, <2>2, <2>3
<1>13. QED BY <1>2, <1>8, <1>9, <1>10, <1>11, <1>12

LEMMA SleepingPartialScript ==
  /\ Long(SleepingPartialLeak, 32)
  /\ SleepingPartialLeak[1] = New(<<"pointers">>)
  /\ \A k \in 1 .. 20 : SleepingPartialLeak[1 + k] = New(Element(k))
  /\ \A k \in 1 .. 10 : SleepingPartialLeak[21 + k] = Delete(Element(k))
  /\ SleepingPartialLeak[32] = Delete(<<"pointers">>)
<1>. DEFINE fill == [j \in 1 .. 20 |-> <<New(Element(j))>>]
            free == [j \in 1 .. 10 |-> <<Delete(Element(j))>>]
            oldest == <<New(<<"pointers">>)>>
            last == <<Delete(<<"pointers">>)>>
<1>. PICK a, b, c, d : a = oldest /\ b = Loop(20, 1, fill) /\ c = Loop(10, 1, free) /\ d = last
  OBVIOUS
<1>1. SleepingPartialLeak = a \o b \o c \o d
  BY DEF SleepingPartialLeak
<1>2. Long(b, 20) /\ \A k \in 1 .. 20 : b[k] = New(Element(k))
  <2>1. \A k \in 1 .. 20 : fill[k][1] = New(Element(k))
    OBVIOUS
  <2>. HIDE DEF fill
  <2>2. QED BY <2>1, LongOnes
<1>3. Long(c, 10) /\ \A k \in 1 .. 10 : c[k] = Delete(Element(k))
  <2>1. \A k \in 1 .. 10 : free[k][1] = Delete(Element(k))
    OBVIOUS
  <2>. HIDE DEF free
  <2>2. QED BY <2>1, LongOnes
<1>4. Long(a, 1) /\ a[1] = New(<<"pointers">>) /\ Long(d, 1) /\ d[1] = Delete(<<"pointers">>)
  BY LongOne
<1>. HIDE DEF oldest, last, fill, free
<1>5. 21 = 1 + 20 /\ 31 = 21 + 10 /\ 32 = 31 + 1 /\ 1 \in 1 .. 1
  OBVIOUS
<1>6. PICK s : Row(s, a, 1, b, 20, c, 10, d, 1, 21, 31, 32)
  <2>1. Long(a, 1) /\ Long(b, 20) /\ Long(c, 10) /\ Long(d, 1)
    BY <1>2, <1>3, <1>4
  <2>2. QED BY <1>5, <2>1, LongFour, ZenonT(60)
<1>7. /\ s = a \o b \o c \o d /\ Long(s, 32)
      /\ \A j \in 1 .. 1 : s[j] = a[j]
      /\ \A j \in 1 .. 20 : s[1 + j] = b[j]
      /\ \A j \in 1 .. 10 : s[21 + j] = c[j]
      /\ \A j \in 1 .. 1 : s[31 + j] = d[j]
  BY <1>6, Zenon DEF Row
<1>8. s[1] = New(<<"pointers">>) /\ s[32] = Delete(<<"pointers">>)
  <2>1. s[1] = a[1] /\ s[31 + 1] = d[1]
    BY <1>7, <1>5, Zenon
  <2>2. QED BY <1>4, <1>5, <2>1
<1>9. \A k \in 1 .. 20 : s[1 + k] = New(Element(k))
  BY <1>2, <1>7
<1>10. \A k \in 1 .. 10 : s[21 + k] = Delete(Element(k))
  BY <1>3, <1>7, Zenon
<1>11. QED BY <1>1, <1>7, <1>8, <1>9, <1>10

LEMMA SleepingScript ==
  /\ Len(SleepingMain) = 63
  /\ SleepingMain[1] = New(<<"leaked_memory">>)
  /\ \A k \in 1 .. 10 : SleepingMain[2 * k] = New(<<"array">>) /\ SleepingMain[1 + 2 * k] = Forget(<<"array">>)
  /\ \A k \in 1 .. 5 : /\ SleepingMain[20 + 2 * k] = NewWith(<<"obj">>, "data")
                        /\ SleepingMain[21 + 2 * k] = Forget(<<"obj">>)
  /\ SleepingMain[32] = New(<<"pointers">>)
  /\ \A k \in 1 .. 20 : SleepingMain[32 + k] = New(Element(k))
  /\ \A k \in 1 .. 10 : SleepingMain[52 + k] = Delete(Element(k))
  /\ SleepingMain[63] = Delete(<<"pointers">>)
<1>. DEFINE arrays == [j \in 1 .. 10 |-> <<New(<<"array">>), Forget(<<"array">>)>>]
            objects == [j \in 1 .. 5 |-> <<NewWith(<<"obj">>, "data"), Forget(<<"obj">>)>>]
            oldest == <<New(<<"leaked_memory">>)>>
<1>. PICK a, b, c, d : /\ a = oldest /\ b = Loop(10, 2, arrays) /\ c = Loop(5, 2, objects)
                       /\ d = SleepingPartialLeak
  OBVIOUS
<1>1. SleepingMain = a \o b \o c \o d
  BY DEF SleepingMain
<1>2. Long(b, 20) /\ \A k \in 1 .. 10 : b[2 * k - 1] = New(<<"array">>) /\ b[2 * k] = Forget(<<"array">>)
  <2>1. \A k \in 1 .. 10 : arrays[k][1] = New(<<"array">>) /\ arrays[k][2] = Forget(<<"array">>)
    OBVIOUS
  <2>. HIDE DEF arrays
  <2>2. 20 = 2 * 10
    OBVIOUS
  <2>3. QED BY <2>1, <2>2, LongTwos
<1>3. Long(c, 10) /\ \A k \in 1 .. 5 : c[2 * k - 1] = NewWith(<<"obj">>, "data") /\ c[2 * k] = Forget(<<"obj">>)
  <2>1. \A k \in 1 .. 5 : objects[k][1] = NewWith(<<"obj">>, "data") /\ objects[k][2] = Forget(<<"obj">>)
    OBVIOUS
  <2>. HIDE DEF objects
  <2>2. 10 = 2 * 5
    OBVIOUS
  <2>3. QED BY <2>1, <2>2, LongTwos
<1>4. Long(a, 1) /\ a[1] = New(<<"leaked_memory">>) /\ Long(d, 32)
  BY LongOne, SleepingPartialScript
<1>. HIDE DEF oldest, arrays, objects
<1>5. 21 = 1 + 20 /\ 31 = 21 + 10 /\ 63 = 31 + 32 /\ 1 \in 1 .. 1
  OBVIOUS
<1>6. PICK s : Row(s, a, 1, b, 20, c, 10, d, 32, 21, 31, 63)
  <2>1. Long(a, 1) /\ Long(b, 20) /\ Long(c, 10) /\ Long(d, 32)
    BY <1>2, <1>3, <1>4
  <2>2. QED BY <1>5, <2>1, LongFour, ZenonT(60)
<1>7. /\ s = a \o b \o c \o d /\ Long(s, 63)
      /\ \A j \in 1 .. 1 : s[j] = a[j]
      /\ \A j \in 1 .. 20 : s[1 + j] = b[j]
      /\ \A j \in 1 .. 10 : s[21 + j] = c[j]
      /\ \A j \in 1 .. 32 : s[31 + j] = d[j]
  BY <1>6, Zenon DEF Row
<1>8. Len(s) = 63 /\ s[1] = New(<<"leaked_memory">>)
  <2>1. s[1] = a[1]
    BY <1>7, <1>5, Zenon
  <2>2. QED BY <1>4, <1>7, <2>1 DEF Long
<1>9. ASSUME NEW k \in 1 .. 10
      PROVE  s[2 * k] = New(<<"array">>) /\ s[1 + 2 * k] = Forget(<<"array">>)
  <2>1. 2 * k = 1 + (2 * k - 1) /\ 2 * k - 1 \in 1 .. 20 /\ 2 * k \in 1 .. 20
    OBVIOUS
  <2>2. s[1 + (2 * k - 1)] = b[2 * k - 1] /\ s[1 + 2 * k] = b[2 * k]
    BY <1>7, <2>1, Zenon
  <2>3. s[2 * k] = b[2 * k - 1]
    BY <2>1, <2>2
  <2>4. QED BY <1>2, <2>2, <2>3
<1>10. ASSUME NEW k \in 1 .. 5
       PROVE  s[20 + 2 * k] = NewWith(<<"obj">>, "data") /\ s[21 + 2 * k] = Forget(<<"obj">>)
  <2>1. 20 + 2 * k = 21 + (2 * k - 1) /\ 2 * k - 1 \in 1 .. 10 /\ 2 * k \in 1 .. 10
    OBVIOUS
  <2>2. s[21 + (2 * k - 1)] = c[2 * k - 1] /\ s[21 + 2 * k] = c[2 * k]
    BY <1>7, <2>1, Zenon
  <2>3. s[20 + 2 * k] = c[2 * k - 1]
    BY <2>1, <2>2
  <2>4. QED BY <1>3, <2>2, <2>3
<1>11. \A j \in 1 .. 32 : s[31 + j] = SleepingPartialLeak[j]
  BY <1>7, Zenon
<1>12. s[32] = New(<<"pointers">>) /\ s[63] = Delete(<<"pointers">>)
  <2>1. 32 = 31 + 1 /\ 63 = 31 + 32 /\ 1 \in 1 .. 32 /\ 32 \in 1 .. 32
    OBVIOUS
  <2>2. s[31 + 1] = SleepingPartialLeak[1] /\ s[31 + 32] = SleepingPartialLeak[32]
    BY <1>11, <2>1, Zenon
  <2>3. QED BY <2>1, <2>2, SleepingPartialScript
<1>13. ASSUME NEW k \in 1 .. 20
       PROVE  s[32 + k] = New(Element(k))
  <2>1. 32 + k = 31 + (1 + k) /\ 1 + k \in 1 .. 32
    OBVIOUS
  <2>2. s[32 + k] = SleepingPartialLeak[1 + k]
    BY <1>11, <2>1
  <2>3. QED BY <2>2, SleepingPartialScript
<1>14. ASSUME NEW k \in 1 .. 10
       PROVE  s[52 + k] = Delete(Element(k))
  <2>1. 52 + k = 31 + (21 + k) /\ 21 + k \in 1 .. 32
    OBVIOUS
  <2>2. s[52 + k] = SleepingPartialLeak[21 + k]
    BY <1>11, <2>1
  <2>3. QED BY <2>2, SleepingPartialScript
<1>15. QED BY <1>1, <1>7, <1>8, <1>9, <1>10, <1>12, <1>13, <1>14

LEMMA CircularScript ==
  /\ Len(CircularReferenceleak) = 9
  /\ \A j \in 1 .. 9 : CircularReferenceleak[j] =
       IF j <= 3 THEN New(<<Node(j)>>)
       ELSE IF j <= 6 THEN Link(<<Node(j - 3), "next">>, <<Node(IF j = 6 THEN 1 ELSE j - 2)>>)
                      ELSE Link(<<Node(j - 6), "prev">>, <<Node(IF j = 7 THEN 3 ELSE j - 7)>>)
BY DEF CircularReferenceleak, Node
-----------------------------------------------------------------------------
\* The invariant

HeapOK ==
  /\ Len(fields) \in Nat /\ DOMAIN fields = 1 .. Len(fields)
  /\ live \subseteq 1 .. Len(fields) /\ before \subseteq 1 .. Len(fields)
  /\ scene \in {"none"} \cup DOMAIN Script
  /\ IF scene = "none" THEN locals = <<>> ELSE ip \in 0 .. Len(Script[scene])

\* The blocks that the scenario has allocated and not released are m.
Counted(m) == IsFiniteSet(live \ before) /\ Cardinality(live \ before) = m

\* The vector is there, and the elements of it with the numbers in S are
\* different blocks of the scenario.
Vector(S) ==
  LET p == locals["pointers"] IN
  /\ "pointers" \in DOMAIN locals /\ p \in live \ before
  /\ \A j \in S : j \in DOMAIN fields[p] /\ fields[p][j] \in live \ before /\ fields[p][j] # p
  /\ \A j, l \in S : fields[p][j] = fields[p][l] => j = l

\* How many blocks these scenarios have allocated after ip instructions.
SimpleInv == scene = "simple" => Counted(ip)
ArrayInv  == scene = "array"  => Counted((ip + 1) \div 2)
ObjectInv == scene = "object" => Counted(2 * ((ip + 1) \div 2))

\* Elements 1 .. 20 are allocated by instructions 2 .. 21, and instruction
\* 20 + 2 * j releases the j-th of them.
Filled(m) == {j \in 1 .. 20 : j < m /\ m < 20 + 2 * j}

\* Until the vector goes its remaining elements are live.
PartialInv ==
  scene = "partial" =>
    /\ Counted(IF ip <= 21 THEN ip ELSE 21 - (ip - 20) \div 2)
    /\ ip \in 1 .. 41 => Vector(Filled(ip))

\* The nodes that are allocated are in the hands of the scenario.
CircularInv ==
  scene = "circular" =>
    /\ Counted(IF ip <= 3 THEN ip ELSE 3)
    /\ \A j \in 1 .. 3 : j <= ip => Node(j) \in DOMAIN locals /\ locals[Node(j)] \in live

\* The int of main() is a block of its own, and leads nowhere.
Kept ==
  /\ "leaked_memory" \in DOMAIN locals /\ locals["leaked_memory"] \in live \ before
  /\ DOMAIN fields[locals["leaked_memory"]] = {}

\* It is neither the vector nor one of the elements with the numbers in S.
Different(S) ==
  /\ locals["leaked_memory"] # locals["pointers"]
  /\ \A j \in S : fields[locals["pointers"]][j] # locals["leaked_memory"]

\* The other pointers among the local variables lead nowhere in the end.
Dropped(m) ==
  /\ DOMAIN locals \subseteq {"leaked_memory", "array", "obj", "pointers"}
  /\ m >= 21 /\ "array" \in DOMAIN locals => locals["array"] = nullptr
  /\ m >= 31 /\ "obj" \in DOMAIN locals => locals["obj"] = nullptr
  /\ m = 63 /\ "pointers" \in DOMAIN locals => locals["pointers"] \notin live

\* Elements 1 .. 20 are allocated by instructions 33 .. 52, and instruction
\* 52 + j releases the j-th of them.
Later(m) == {j \in 1 .. 20 : 32 + j <= m /\ m < 52 + j}

\* How many blocks main() has not released after m instructions.
Held(m) ==
  IF m = 0 THEN 0 ELSE IF m <= 21 THEN 1 + m \div 2 ELSE IF m <= 31 THEN 11 + 2 * ((m - 20) \div 2)
  ELSE IF m <= 52 THEN m - 10 ELSE 94 - m

SleepingInv ==
  scene = "sleeping" =>
    /\ Counted(Held(ip)) /\ Dropped(ip)
    /\ ip >= 1 => Kept
    /\ ip \in 32 .. 62 => Vector(Later(ip)) /\ Different(Later(ip))

\* The inductive invariant, one conjunct for each scenario.
DemoInv ==
  /\ HeapOK
  /\ SimpleInv /\ ArrayInv /\ ObjectInv /\ PartialInv /\ CircularInv /\ SleepingInv

-----------------------------------------------------------------------------
\* What the instructions do

\* The actions that execute an instruction.
Work == Allocate \/ SetPointer \/ SetNull \/ Deallocate

\* What all of them do.
Goes == scene # "none" /\ ip < Len(Script[scene]) /\ scene' = scene /\ before' = before /\ ip' = ip + 1

\* What is in the blocks stays, and there are m of them afterwards.
Keeps == \A c \in 1 .. Len(fields) : fields'[c] = fields[c]

Has(m) == Len(fields') = m /\ DOMAIN fields' = 1 .. m

\* The new block b is in v; with the block it owns; in the element j of the vector.
NewLocal(v, b) ==
  /\ Goes /\ b = Len(fields) + 1
  /\ live' = live \cup {b} /\ locals' = With(locals, v, b)
  /\ Has(b) /\ Keeps /\ DOMAIN fields'[b] = {}

NewTwo(v, b) ==
  /\ Goes /\ b = Len(fields) + 1
  /\ live' = live \cup {b, b + 1} /\ locals' = With(locals, v, b)
  /\ Has(b + 1) /\ Keeps

NewElement(j, b) ==
  /\ Goes /\ b = Len(fields) + 1
  /\ live' = live \cup {b} /\ locals' = locals
  /\ Has(b) /\ DOMAIN fields'[b] = {}
  /\ \A c \in 1 .. Len(fields) :
       fields'[c] = IF c = locals["pointers"] THEN With(fields[c], j, b) ELSE fields[c]

\* The pointer b goes to the field f of p; to the variable v; the block b goes.
Sets(p, f, b) ==
  /\ Goes
  /\ live' = live /\ locals' = locals /\ Has(Len(fields))
  /\ \A c \in 1 .. Len(fields) : fields'[c] = IF c = p THEN With(fields[c], f, b) ELSE fields[c]

SetsLocal(v, b) ==
  /\ Goes
  /\ live' = live /\ fields' = fields /\ locals' = With(locals, v, b)

Releases(b) ==
  /\ Goes
  /\ live' = live \ {b} /\ fields' = fields /\ locals' = locals

LEMMA NoParts == Cardinality({}) = 0 /\ \A x : Cardinality({x}) = 1
BY FS_EmptySet, FS_Singleton

\* Which action an instruction is for.
LEMMA DoNew ==
  ASSUME Work, NEW p, NEW u, Script[scene][ip + 1] = [do |-> "new", to |-> p, sub |-> u]
  PROVE  Allocate /\ To = p /\ Script[scene][ip + 1].sub = u /\ Goes
BY DEF Work, Allocate, SetPointer, SetNull, Deallocate, Step, To, Goes

LEMMA DoLink ==
  ASSUME Work, NEW p, NEW q, Script[scene][ip + 1] = Link(p, q)
  PROVE  SetPointer /\ To = p /\ Script[scene][ip + 1].from = q /\ Goes
BY DEF Work, Allocate, SetPointer, SetNull, Deallocate, Step, To, Goes, Link

LEMMA DoForget ==
  ASSUME Work, NEW p, Script[scene][ip + 1] = Forget(p)
  PROVE  SetNull /\ To = p /\ Goes
BY DEF Work, Allocate, SetPointer, SetNull, Deallocate, Step, To, Goes, Forget

LEMMA DoDelete ==
  ASSUME Work, NEW p, Script[scene][ip + 1] = Delete(p)
  PROVE  Deallocate /\ To = p /\ Goes
BY DEF Work, Allocate, SetPointer, SetNull, Deallocate, Step, To, Goes, Delete

\* The contents of the blocks after m blocks were added whose fields are sub.
LEMMA Added ==
  ASSUME HeapOK, NEW b, b = Len(fields) + 1, NEW m \in Nat, NEW sub, NEW fs,
         fs = [c \in 1 .. b + m |-> IF c < b THEN fields[c] ELSE IF c = b THEN [f \in sub |-> b + 1] ELSE <<>>]
  PROVE  /\ Len(fs) = b + m /\ DOMAIN fs = 1 .. b + m
         /\ \A c \in 1 .. Len(fields) : fs[c] = fields[c]
         /\ DOMAIN fs[b] = sub
<1>1. Len(fields) \in Nat /\ b \in Nat /\ b + m \in Nat
  BY DEF HeapOK
<1>2. Len(fs) = b + m /\ DOMAIN fs = 1 .. b + m
  BY <1>1
<1>3. \A c \in 1 .. Len(fields) : c \in 1 .. b + m /\ c < b
  BY <1>1
<1>4. b \in 1 .. b + m /\ ~(b < b)
  BY <1>1
<1>5. \A c \in 1 .. Len(fields) : fs[c] = fields[c]
  BY <1>3, Zenon
<1>6. fs[b] = [f \in sub |-> b + 1]
  BY <1>4, Zenon
<1>7. QED BY <1>2, <1>5, <1>6

LEMMA NewLocalStep ==
  ASSUME HeapOK, Work, NEW v, Script[scene][ip + 1] = New(<<v>>)
  PROVE  \E b : NewLocal(v, b)
<1>. PICK b : b = Len(fields) + 1
  OBVIOUS
<1>1. Allocate /\ To = <<v>> /\ Script[scene][ip + 1].sub = {} /\ Goes
  BY DoNew DEF New
<1>. PICK fs : fs = [c \in 1 .. b + 0 |-> IF c < b THEN fields[c] ELSE IF c = b THEN [f \in {} |-> b + 1] ELSE <<>>]
  OBVIOUS
<1>2. b \in Nat /\ b + 0 = b /\ b .. b + 0 = {b} /\ Cardinality({}) = 0 /\ 0 \in Nat
  BY NoParts DEF HeapOK
<1>3. live' = live \cup {b} /\ StoreIn(fs, <<v>>, b)
  BY <1>1, <1>2 DEF Allocate
<1>4. locals' = With(locals, v, b) /\ fields' = fs
  BY <1>3 DEF StoreIn
<1>5. /\ Len(fs) = b /\ DOMAIN fs = 1 .. b
      /\ \A c \in 1 .. Len(fields) : fs[c] = fields[c]
      /\ DOMAIN fs[b] = {}
  BY <1>2, Added
<1>6. NewLocal(v, b)
  BY <1>1, <1>3, <1>4, <1>5 DEF NewLocal, Has, Keeps
<1>7. QED BY <1>6

LEMMA NewTwoStep ==
  ASSUME HeapOK, Work, NEW v, NEW g, Script[scene][ip + 1] = NewWith(<<v>>, g)
  PROVE  \E b : NewTwo(v, b)
<1>. PICK b : b = Len(fields) + 1
  OBVIOUS
<1>1. Allocate /\ To = <<v>> /\ Script[scene][ip + 1].sub = {g} /\ Goes
  BY DoNew DEF NewWith
<1>. PICK fs : fs = [c \in 1 .. b + 1 |-> IF c < b THEN fields[c] ELSE IF c = b THEN [f \in {g} |-> b + 1] ELSE <<>>]
  OBVIOUS
<1>2. b \in Nat
  BY DEF HeapOK
<1>3. b .. b + 1 = {b, b + 1}
  BY <1>2
<1>4. b \in Nat /\ b .. b + 1 = {b, b + 1} /\ Cardinality({g}) = 1 /\ 1 \in Nat
  BY <1>2, <1>3, NoParts
<1>5. live' = live \cup {b, b + 1} /\ StoreIn(fs, <<v>>, b)
  BY <1>1, <1>4 DEF Allocate
<1>6. locals' = With(locals, v, b) /\ fields' = fs
  BY <1>5 DEF StoreIn
<1>7. /\ Len(fs) = b + 1 /\ DOMAIN fs = 1 .. b + 1
      /\ \A c \in 1 .. Len(fields) : fs[c] = fields[c]
  BY <1>4, Added
<1>8. NewTwo(v, b)
  BY <1>1, <1>5, <1>6, <1>7 DEF NewTwo, Has, Keeps
<1>9. QED BY <1>8

\* A pointer is stored in a block that is there.
LEMMA Stored ==
  ASSUME NEW m \in Nat, NEW fs, DOMAIN fs = 1 .. m, Len(fs) = m, NEW x \in 1 .. m, NEW f, NEW b, NEW gs,
         gs = [fs EXCEPT ![x] = With(@, f, b)]
  PROVE  /\ Len(gs) = m /\ DOMAIN gs = 1 .. m
         /\ \A c \in 1 .. m : gs[c] = IF c = x THEN With(fs[c], f, b) ELSE fs[c]
<1>1. gs = [c \in 1 .. m |-> IF c = x THEN With(fs[c], f, b) ELSE fs[c]]
  OBVIOUS
<1>2. DOMAIN gs = 1 .. m /\ \A c \in 1 .. m : gs[c] = IF c = x THEN With(fs[c], f, b) ELSE fs[c]
  BY <1>1, Zenon
<1>3. Len(gs) = m
  BY <1>1
<1>4. QED BY <1>2, <1>3

LEMMA NewElementStep ==
  ASSUME HeapOK, Work, NEW j, Script[scene][ip + 1] = New(Element(j)), locals["pointers"] \in live
  PROVE  \E b : NewElement(j, b)
<1>. PICK b : b = Len(fields) + 1
  OBVIOUS
<1>. PICK p : p = locals["pointers"]
  OBVIOUS
<1>1. Allocate /\ To = <<"pointers", j>> /\ Script[scene][ip + 1].sub = {} /\ Goes
  BY DoNew DEF New, Element
<1>. PICK fs : fs = [c \in 1 .. b + 0 |-> IF c < b THEN fields[c] ELSE IF c = b THEN [f \in {} |-> b + 1] ELSE <<>>]
  OBVIOUS
<1>2. b \in Nat /\ b + 0 = b /\ b .. b + 0 = {b} /\ Cardinality({}) = 0 /\ 0 \in Nat
  BY NoParts DEF HeapOK
<1>3. live' = live \cup {b} /\ StoreIn(fs, <<"pointers", j>>, b)
  BY <1>1, <1>2 DEF Allocate
<1>4. locals' = locals /\ fields' = [fs EXCEPT ![p] = With(@, j, b)]
  BY <1>3 DEF StoreIn
<1>5. /\ Len(fs) = b /\ DOMAIN fs = 1 .. b
      /\ \A c \in 1 .. Len(fields) : fs[c] = fields[c]
      /\ DOMAIN fs[b] = {}
  BY <1>2, Added
<1>6. Len(fields) \in Nat /\ p \in 1 .. Len(fields)
  BY DEF HeapOK
<1>7. p \in 1 .. Len(fields) /\ p \in 1 .. b /\ b # p /\ b \in 1 .. b /\ \A c \in 1 .. Len(fields) : c \in 1 .. b
  BY <1>6
<1>8. /\ Len(fields') = b /\ DOMAIN fields' = 1 .. b
      /\ \A c \in 1 .. b : fields'[c] = IF c = p THEN With(fs[c], j, b) ELSE fs[c]
  BY <1>2, <1>4, <1>5, <1>7, Stored
<1>9. NewElement(j, b)
  BY <1>1, <1>3, <1>4, <1>5, <1>7, <1>8 DEF NewElement, Has
<1>10. QED BY <1>9

LEMMA ForgetLocalStep ==
  ASSUME Work, NEW v, Script[scene][ip + 1] = Forget(<<v>>)
  PROVE  SetsLocal(v, nullptr)
<1>1. SetNull /\ To = <<v>> /\ Goes
  BY DoForget
<1>2. StoreIn(fields, <<v>>, nullptr) /\ live' = live
  BY <1>1 DEF SetNull
<1>3. QED BY <1>1, <1>2 DEF StoreIn, SetsLocal

LEMMA ForgetElementStep ==
  ASSUME HeapOK, Work, NEW j, Script[scene][ip + 1] = Forget(Element(j)), locals["pointers"] \in live
  PROVE  Sets(locals["pointers"], j, nullptr)
<1>. PICK p : p = locals["pointers"]
  OBVIOUS
<1>1. SetNull /\ To = <<"pointers", j>> /\ Goes
  BY DoForget DEF Element
<1>2. StoreIn(fields, <<"pointers", j>>, nullptr) /\ live' = live
  BY <1>1 DEF SetNull
<1>3. fields' = [fields EXCEPT ![p] = With(@, j, nullptr)] /\ locals' = locals
  BY <1>2 DEF StoreIn
<1>4. Len(fields) \in Nat /\ DOMAIN fields = 1 .. Len(fields) /\ p \in 1 .. Len(fields)
  BY DEF HeapOK
<1>5. /\ Len(fields') = Len(fields) /\ DOMAIN fields' = 1 .. Len(fields)
      /\ \A c \in 1 .. Len(fields) : fields'[c] = IF c = p THEN With(fields[c], j, nullptr) ELSE fields[c]
  BY <1>3, <1>4, Stored
<1>6. QED BY <1>1, <1>2, <1>3, <1>5 DEF Sets, Has

LEMMA LinkStep ==
  ASSUME HeapOK, Work, NEW v, NEW f, NEW u, Script[scene][ip + 1] = Link(<<v, f>>, <<u>>), locals[v] \in live
  PROVE  Sets(locals[v], f, locals[u])
<1>. PICK p : p = locals[v]
  OBVIOUS
<1>. PICK q : q = locals[u]
  OBVIOUS
<1>1. SetPointer /\ To = <<v, f>> /\ Script[scene][ip + 1].from = <<u>> /\ Goes
  BY DoLink
<1>2. StoreIn(fields, <<v, f>>, q) /\ live' = live
  BY <1>1 DEF SetPointer, Value
<1>3. fields' = [fields EXCEPT ![p] = With(@, f, q)] /\ locals' = locals
  BY <1>2 DEF StoreIn
<1>4. Len(fields) \in Nat /\ DOMAIN fields = 1 .. Len(fields) /\ p \in 1 .. Len(fields)
  BY DEF HeapOK
<1>5. /\ Len(fields') = Len(fields) /\ DOMAIN fields' = 1 .. Len(fields)
      /\ \A c \in 1 .. Len(fields) : fields'[c] = IF c = p THEN With(fields[c], f, q) ELSE fields[c]
  BY <1>3, <1>4, Stored
<1>6. QED BY <1>1, <1>2, <1>3, <1>5 DEF Sets, Has

LEMMA DeleteLocalStep ==
  ASSUME Work, NEW v, Script[scene][ip + 1] = Delete(<<v>>)
  PROVE  Releases(locals[v])
<1>1. Deallocate /\ To = <<v>> /\ Goes
  BY DoDelete
<1>2. Value(<<v>>) = locals[v]
  BY DEF Value
<1>3. QED BY <1>1, <1>2 DEF Deallocate, Releases

LEMMA DeleteElementStep ==
  ASSUME Work, NEW j, Script[scene][ip + 1] = Delete(Element(j))
  PROVE  Releases(fields[locals["pointers"]][j])
<1>1. Deallocate /\ To = <<"pointers", j>> /\ Goes
  BY DoDelete DEF Element
<1>2. Value(<<"pointers", j>>) = fields[locals["pointers"]][j]
  BY DEF Value
<1>3. QED BY <1>1, <1>2 DEF Deallocate, Releases

\* How the instructions change the number of blocks.
LEMMA CountNew ==
  ASSUME HeapOK, NEW m \in Nat, Counted(m), NEW b, b = Len(fields) + 1,
         live' = live \cup {b}, before' = before
  PROVE  Counted(m + 1)' /\ b \notin live /\ b \notin before /\ b \in live' \ before'
<1>1. b \notin live /\ b \notin before
  BY DEF HeapOK
<1>2. live' \ before' = (live \ before) \cup {b} /\ b \notin live \ before
  BY <1>1
<1>3. QED BY <1>1, <1>2, FS_AddElement DEF Counted

LEMMA CountTwo ==
  ASSUME HeapOK, NEW m \in Nat, Counted(m), NEW b, b = Len(fields) + 1,
         live' = live \cup {b, b + 1}, before' = before
  PROVE  Counted(m + 2)' /\ b \notin live
<1>1. b \notin live /\ b \notin before /\ b + 1 \notin live /\ b + 1 \notin before /\ b + 1 # b
  BY DEF HeapOK
<1>. DEFINE A == live \ before
            B == A \cup {b}
            C == B \cup {b + 1}
<1>2. live' \ before' = C /\ b \notin A /\ b + 1 \notin B
  BY <1>1
<1>3. IsFiniteSet(A) /\ Cardinality(A) = m
  BY DEF Counted
<1>. HIDE DEF A, B, C
<1>4. IsFiniteSet(B) /\ Cardinality(B) = m + 1
  BY <1>2, <1>3, FS_AddElement DEF B
<1>5. IsFiniteSet(C) /\ Cardinality(C) = m + 1 + 1
  BY <1>2, <1>4, FS_AddElement DEF C
<1>6. m + 1 + 1 = m + 2
  OBVIOUS
<1>7. QED BY <1>1, <1>2, <1>5, <1>6 DEF Counted

LEMMA CountDelete ==
  ASSUME NEW m \in Nat, Counted(m), NEW b \in live \ before,
         live' = live \ {b}, before' = before
  PROVE  Counted(m - 1)'
<1>1. live' \ before' = (live \ before) \ {b}
  OBVIOUS
<1>2. QED BY <1>1, FS_RemoveElement DEF Counted

LEMMA CountSame ==
  ASSUME NEW m, Counted(m), live' = live, before' = before
  PROVE  Counted(m)'
BY DEF Counted

LEMMA Scripts ==
  /\ DOMAIN Script = {"simple", "array", "object", "partial", "circular", "sleeping"}
  /\ Script["simple"] = SimpleMemoryLeak /\ Script["array"] = ArrayMemoryLeak
  /\ Script["object"] = ObjectMemoryLeak /\ Script["partial"] = PartialMemoryLeak
  /\ Script["circular"] = CircularReferenceleak /\ Script["sleeping"] = SleepingMain
BY DEF Script

LEMMA Lengths ==
  /\ Len(Script["simple"]) = 3 /\ Len(Script["array"]) = 20 /\ Len(Script["object"]) = 10
  /\ Len(Script["partial"]) = 42 /\ Len(Script["circular"]) = 9 /\ Len(Script["sleeping"]) = 63
BY Scripts, SimpleScript, ArrayScript, ObjectScript, PartialScript, CircularScript, SleepingScript

LEMMA Finite ==
  ASSUME NEW sc \in DOMAIN Script
  PROVE  Len(Script[sc]) \in Nat
BY Scripts, Lengths

LEMMA WorkGoes ==
  ASSUME Work
  PROVE  Goes
BY DEF Work, Allocate, SetPointer, SetNull, Deallocate, Step, Goes

LEMMA HeapKept ==
  ASSUME HeapOK, Goes, NEW m \in Nat, Has(m), Len(fields) <= m, live' \subseteq 1 .. m
  PROVE  HeapOK'
<1>1. Len(fields) \in Nat /\ scene \in DOMAIN Script /\ ip \in 0 .. Len(Script[scene])
  BY DEF HeapOK, Goes
<1>2. Len(Script[scene]) \in Nat
  BY <1>1, Finite
<1>3. ip' \in 0 .. Len(Script[scene]) /\ scene' = scene /\ scene # "none"
  BY <1>1, <1>2 DEF Goes
<1>4. before' \subseteq 1 .. m
  BY <1>1 DEF HeapOK, Goes
<1>5. Len(fields') = m /\ DOMAIN fields' = 1 .. m
  BY DEF Has
<1>6. QED BY <1>1, <1>3, <1>4, <1>5 DEF HeapOK

LEMMA HeapIs ==
  ASSUME HeapOK
  PROVE  Len(fields) \in Nat /\ live \subseteq 1 .. Len(fields) /\ before \subseteq 1 .. Len(fields)
BY DEF HeapOK

LEMMA Below ==
  ASSUME NEW m \in Nat, NEW A, A \subseteq 1 .. m, NEW b, b = m + 1
  PROVE  A \cup {b} \subseteq 1 .. b /\ A \cup {b, b + 1} \subseteq 1 .. b + 1
<1>1. \A c \in 1 .. m : c \in 1 .. b /\ c \in 1 .. b + 1
  OBVIOUS
<1>2. b \in 1 .. b /\ b \in 1 .. b + 1 /\ b + 1 \in 1 .. b + 1
  OBVIOUS
<1>3. \A c \in A : c \in 1 .. m
  OBVIOUS
<1>4. A \cup {b} \subseteq 1 .. b
  BY <1>1, <1>2, <1>3, Zenon
<1>5. QED BY <1>1, <1>2, <1>3, <1>4, Zenon

LEMMA HeapNewLocal ==
  ASSUME HeapOK, NEW v, NEW b, NewLocal(v, b)
  PROVE  HeapOK'
<1>1. Goes /\ Has(b) /\ b = Len(fields) + 1 /\ live' = live \cup {b}
  BY DEF NewLocal
<1>2. Len(fields) \in Nat /\ live \subseteq 1 .. Len(fields)
  BY HeapIs
<1>3. b \in Nat /\ Len(fields) <= b
  BY <1>1, <1>2
<1>4. live' \subseteq 1 .. b
  BY <1>1, <1>2, Below
<1>5. QED BY <1>1, <1>3, <1>4, HeapKept

LEMMA HeapNewElement ==
  ASSUME HeapOK, NEW j, NEW b, NewElement(j, b)
  PROVE  HeapOK'
<1>1. Goes /\ Has(b) /\ b = Len(fields) + 1 /\ live' = live \cup {b}
  BY DEF NewElement
<1>2. Len(fields) \in Nat /\ live \subseteq 1 .. Len(fields)
  BY HeapIs
<1>3. b \in Nat /\ Len(fields) <= b
  BY <1>1, <1>2
<1>4. live' \subseteq 1 .. b
  BY <1>1, <1>2, Below
<1>5. QED BY <1>1, <1>3, <1>4, HeapKept

LEMMA HeapNewTwo ==
  ASSUME HeapOK, NEW v, NEW b, NewTwo(v, b)
  PROVE  HeapOK'
<1>1. Goes /\ Has(b + 1) /\ b = Len(fields) + 1 /\ live' = live \cup {b, b + 1}
  BY DEF NewTwo
<1>2. Len(fields) \in Nat /\ live \subseteq 1 .. Len(fields)
  BY HeapIs
<1>3. b + 1 \in Nat /\ Len(fields) <= b + 1
  BY <1>1, <1>2
<1>4. live' \subseteq 1 .. b + 1
  BY <1>1, <1>2, Below
<1>5. QED BY <1>1, <1>3, <1>4, HeapKept

LEMMA HeapSets ==
  ASSUME HeapOK, NEW p, NEW f, NEW b, Sets(p, f, b)
  PROVE  HeapOK'
<1>1. Goes /\ Has(Len(fields)) /\ live' = live
  BY DEF Sets
<1>2. Len(fields) \in Nat /\ live \subseteq 1 .. Len(fields) /\ Len(fields) <= Len(fields)
  BY HeapIs
<1>3. live' \subseteq 1 .. Len(fields)
  BY <1>1, <1>2
<1>4. QED BY <1>1, <1>2, <1>3, HeapKept

LEMMA HeapSetsLocal ==
  ASSUME HeapOK, NEW v, NEW b, SetsLocal(v, b)
  PROVE  HeapOK'
<1>1. Goes /\ fields' = fields /\ live' = live
  BY DEF SetsLocal
<1>2. Goes /\ Has(Len(fields)) /\ live' \subseteq live
  BY <1>1 DEF Has, HeapOK
<1>3. Len(fields) \in Nat /\ live \subseteq 1 .. Len(fields) /\ Len(fields) <= Len(fields)
  BY HeapIs
<1>4. live' \subseteq 1 .. Len(fields)
  BY <1>2, <1>3
<1>5. QED BY <1>2, <1>3, <1>4, HeapKept

LEMMA HeapReleases ==
  ASSUME HeapOK, NEW b, Releases(b)
  PROVE  HeapOK'
<1>1. Goes /\ fields' = fields /\ live' = live \ {b}
  BY DEF Releases
<1>2. Goes /\ Has(Len(fields)) /\ live' \subseteq live
  BY <1>1 DEF Has, HeapOK
<1>3. Len(fields) \in Nat /\ live \subseteq 1 .. Len(fields) /\ Len(fields) <= Len(fields)
  BY HeapIs
<1>4. live' \subseteq 1 .. Len(fields)
  BY <1>2, <1>3
<1>5. QED BY <1>2, <1>3, <1>4, HeapKept

\* Every instruction of the first three scenarios is one of a few.
LEMMA SimpleStep ==
  ASSUME HeapOK, SimpleInv, Work, scene = "simple"
  PROVE  HeapOK' /\ SimpleInv'
<1>1. ip \in 0 .. 2 /\ scene' = "simple"
  BY WorkGoes, Lengths DEF HeapOK, Goes
<1>2. PICK v : Script[scene][ip + 1] = New(<<v>>)
  <2>1. ip + 1 \in 1 .. 3 /\ Script[scene] = SimpleMemoryLeak
    BY <1>1, Scripts
  <2>2. QED BY <2>1, SimpleScript
<1>3. PICK b : NewLocal(v, b)
  BY <1>2, NewLocalStep
<1>. PICK m : m = ip
  OBVIOUS
<1>4. Counted(m) /\ m \in Nat
  BY <1>1 DEF SimpleInv
<1>5. b = Len(fields) + 1 /\ live' = live \cup {b} /\ before' = before /\ ip' = m + 1
  BY <1>3 DEF NewLocal, Goes
<1>6. Counted(m + 1)'
  BY <1>4, <1>5, CountNew
<1>7. HeapOK'
  BY <1>3, HeapNewLocal
<1>8. Counted(ip)'
  BY <1>5, <1>6 DEF Counted
<1>9. QED BY <1>7, <1>8 DEF SimpleInv

LEMMA Parity ==
  ASSUME NEW x \in Nat
  PROVE  \E k \in Nat : x = 2 * k \/ x = 2 * k + 1
<1>1. x \div 2 \in Nat /\ (x = 2 * (x \div 2) \/ x = 2 * (x \div 2) + 1)
  OBVIOUS
<1>2. QED BY <1>1

LEMMA ArrayStep ==
  ASSUME HeapOK, ArrayInv, Work, scene = "array"
  PROVE  HeapOK' /\ ArrayInv'
<1>1. ip \in 0 .. 19 /\ scene' = scene /\ before' = before /\ ip' = ip + 1
  BY WorkGoes, Lengths DEF HeapOK, Goes
<1>. PICK m : m = ip
  OBVIOUS
<1>2. PICK k \in 0 .. 9 : m = 2 * k \/ m = 2 * k + 1
  BY <1>1, Parity
<1>3. k + 1 \in 1 .. 10 /\ Script[scene] = ArrayMemoryLeak
  BY Scripts
<1>4. /\ (2 * k + 1) \div 2 = k /\ (2 * k + 1 + 1) \div 2 = k + 1 /\ (2 * k + 1 + 1 + 1) \div 2 = k + 1
      /\ 2 * (k + 1) - 1 = 2 * k + 1 /\ 2 * (k + 1) = 2 * k + 1 + 1 /\ k \in Nat
  OBVIOUS
<1>5. CASE m = 2 * k
  <2>1. Script[scene][ip + 1] = New(<<"leaked_doubles">>)
    BY <1>3, <1>4, <1>5, ArrayScript
  <2>2. PICK b : NewLocal("leaked_doubles", b)
    BY <2>1, NewLocalStep
  <2>3. Counted(k) /\ k \in Nat
    BY <1>4, <1>5 DEF ArrayInv
  <2>4. b = Len(fields) + 1 /\ live' = live \cup {b} /\ before' = before
    BY <2>2 DEF NewLocal, Goes
  <2>5. Counted(k + 1)'
    BY <2>3, <2>4, CountNew
  <2>6. (ip' + 1) \div 2 = k + 1 /\ k + 1 = k + 1
    BY <1>1, <1>4, <1>5
  <2>7. ArrayInv'
    BY <2>5, <2>6 DEF ArrayInv, Counted
  <2>8. QED BY <2>2, <2>7, HeapNewLocal
<1>6. CASE m = 2 * k + 1
  <2>1. Script[scene][ip + 1] = Forget(<<"leaked_doubles">>)
    BY <1>3, <1>4, <1>6, ArrayScript
  <2>2. SetsLocal("leaked_doubles", nullptr)
    BY <2>1, ForgetLocalStep
  <2>3. Counted(k + 1)
    BY <1>4, <1>6 DEF ArrayInv
  <2>4. live' = live /\ before' = before
    BY <2>2 DEF SetsLocal, Goes
  <2>5. Counted(k + 1)'
    BY <2>3, <2>4, CountSame
  <2>6. (ip' + 1) \div 2 = k + 1
    BY <1>1, <1>4, <1>6
  <2>7. ArrayInv'
    BY <2>5, <2>6 DEF ArrayInv, Counted
  <2>8. QED BY <2>2, <2>7, HeapSetsLocal
<1>7. QED BY <1>2, <1>5, <1>6

LEMMA ObjectStep ==
  ASSUME HeapOK, ObjectInv, Work, scene = "object"
  PROVE  HeapOK' /\ ObjectInv'
<1>1. ip \in 0 .. 9 /\ scene' = scene /\ before' = before /\ ip' = ip + 1
  BY WorkGoes, Lengths DEF HeapOK, Goes
<1>. PICK m : m = ip
  OBVIOUS
<1>2. PICK k \in 0 .. 4 : m = 2 * k \/ m = 2 * k + 1
  BY <1>1, Parity
<1>3. k + 1 \in 1 .. 5 /\ Script[scene] = ObjectMemoryLeak
  BY Scripts
<1>4. /\ (2 * k + 1) \div 2 = k /\ (2 * k + 1 + 1) \div 2 = k + 1 /\ (2 * k + 1 + 1 + 1) \div 2 = k + 1
      /\ 2 * (k + 1) - 1 = 2 * k + 1 /\ 2 * (k + 1) = 2 * k + 1 + 1 /\ k \in Nat
  OBVIOUS
<1>5. CASE m = 2 * k
  <2>1. Script[scene][ip + 1] = NewWith(<<"obj">>, "data")
    BY <1>3, <1>4, <1>5, ObjectScript
  <2>2. PICK b : NewTwo("obj", b)
    BY <2>1, NewTwoStep
  <2>3. Counted(2 * k) /\ 2 * k \in Nat
    BY <1>4, <1>5 DEF ObjectInv
  <2>4. b = Len(fields) + 1 /\ live' = live \cup {b, b + 1} /\ before' = before
    BY <2>2 DEF NewTwo, Goes
  <2>5. Counted(2 * k + 2)'
    BY <2>3, <2>4, CountTwo
  <2>6. (ip' + 1) \div 2 = k + 1 /\ 2 * k + 2 = 2 * (k + 1)
    BY <1>1, <1>4, <1>5
  <2>7. ObjectInv'
    BY <2>5, <2>6 DEF ObjectInv, Counted
  <2>8. QED BY <2>2, <2>7, HeapNewTwo
<1>6. CASE m = 2 * k + 1
  <2>1. Script[scene][ip + 1] = Forget(<<"obj">>)
    BY <1>3, <1>4, <1>6, ObjectScript
  <2>2. SetsLocal("obj", nullptr)
    BY <2>1, ForgetLocalStep
  <2>3. Counted(2 * (k + 1))
    BY <1>4, <1>6 DEF ObjectInv
  <2>4. live' = live /\ before' = before
    BY <2>2 DEF SetsLocal, Goes
  <2>5. Counted(2 * (k + 1))'
    BY <2>3, <2>4, CountSame
  <2>6. (ip' + 1) \div 2 = k + 1
    BY <1>1, <1>4, <1>6
  <2>7. ObjectInv'
    BY <2>5, <2>6 DEF ObjectInv, Counted
  <2>8. QED BY <2>2, <2>7, HeapSetsLocal
<1>7. QED BY <1>2, <1>5, <1>6

LEMMA CircularLink ==
  ASSUME NEW m \in 3 .. 8
  PROVE  \E j, f, u : j \in 1 .. 3 /\ CircularReferenceleak[m + 1] = Link(<<Node(j), f>>, <<u>>)
<1>1. CASE m + 1 <= 6
  <2>1. CircularReferenceleak[m + 1] = Link(<<Node(m + 1 - 3), "next">>, <<Node(IF m + 1 = 6 THEN 1 ELSE m + 1 - 2)>>)
    BY <1>1, CircularScript
  <2>2. m + 1 - 3 \in 1 .. 3
    BY <1>1
  <2>3. QED BY <2>1, <2>2
<1>2. CASE m + 1 > 6
  <2>1. CircularReferenceleak[m + 1] = Link(<<Node(m + 1 - 6), "prev">>, <<Node(IF m + 1 = 7 THEN 3 ELSE m + 1 - 7)>>)
    BY <1>2, CircularScript
  <2>2. m + 1 - 6 \in 1 .. 3
    BY <1>2
  <2>3. QED BY <2>1, <2>2
<1>3. m + 1 <= 6 \/ m + 1 > 6
  OBVIOUS
<1>4. QED BY <1>1, <1>2, <1>3, Zenon

\* The nodes stay in the hands of the scenario.
LEMMA CircularStep ==
  ASSUME HeapOK, CircularInv, Work, scene = "circular"
  PROVE  HeapOK' /\ CircularInv'
<1>1. ip \in 0 .. 8 /\ scene' = scene /\ before' = before /\ ip' = ip + 1
  BY WorkGoes, Lengths DEF HeapOK, Goes
<1>. PICK m : m = ip
  OBVIOUS
<1>2. /\ Counted(IF m <= 3 THEN m ELSE 3)
      /\ \A j \in 1 .. 3 : j <= m => Node(j) \in DOMAIN locals /\ locals[Node(j)] \in live
  BY DEF CircularInv
<1>3. m \in 0 .. 8 /\ m + 1 \in 1 .. 9 /\ Script[scene] = CircularReferenceleak /\ ip' = m + 1
  BY <1>1, Scripts
<1>4. CASE m <= 2
  <2>1. Script[scene][ip + 1] = New(<<Node(m + 1)>>) /\ m + 1 \in 1 .. 3 /\ m \in Nat /\ m <= 3 /\ m + 1 <= 3
    BY <1>1, <1>3, <1>4, CircularScript
  <2>. PICK v : v = Node(m + 1)
    OBVIOUS
  <2>2. PICK b : NewLocal(v, b)
    BY <2>1, NewLocalStep
  <2>3. Counted(m)
    BY <1>2, <2>1
  <2>4. b = Len(fields) + 1 /\ live' = live \cup {b} /\ before' = before /\ locals' = With(locals, v, b)
    BY <2>2 DEF NewLocal, Goes
  <2>5. Counted(m + 1)'
    BY <2>1, <2>3, <2>4, CountNew
  <2>6. /\ v \in DOMAIN locals' /\ locals'[v] = b
        /\ \A y \in DOMAIN locals : y \in DOMAIN locals' /\ (y # v => locals'[y] = locals[y])
    BY <2>4 DEF With
  <2>7. ASSUME NEW j \in 1 .. 3, j <= m + 1
        PROVE  Node(j) \in DOMAIN locals' /\ locals'[Node(j)] \in live'
    <3>1. CASE j = m + 1
      BY <2>4, <2>6, <3>1
    <3>2. CASE j <= m
      <4>1. Node(j) \in DOMAIN locals /\ locals[Node(j)] \in live
        BY <1>2, <3>2
      <4>2. Node(j) # v
        BY <2>1, <3>2 DEF Node
      <4>3. QED BY <2>4, <2>6, <4>1, <4>2
    <3>3. QED BY <2>1, <2>7, <3>1, <3>2
  <2>8. CircularInv'
    BY <1>3, <2>1, <2>5, <2>7 DEF CircularInv, Counted
  <2>9. QED BY <2>2, <2>8, HeapNewLocal
<1>5. CASE m >= 3
  <2>1. PICK j, f, u : j \in 1 .. 3 /\ Script[scene][ip + 1] = Link(<<Node(j), f>>, <<u>>)
    <3>1. m \in 3 .. 8 /\ ip + 1 = m + 1
      BY <1>3, <1>5
    <3>2. PICK j, f, u : j \in 1 .. 3 /\ CircularReferenceleak[m + 1] = Link(<<Node(j), f>>, <<u>>)
      BY <3>1, CircularLink
    <3>3. Script[scene][ip + 1] = Link(<<Node(j), f>>, <<u>>)
      BY <1>3, <3>1, <3>2
    <3>4. QED BY <3>2, <3>3, Zenon
  <2>2. \A l \in 1 .. 3 : Node(l) \in DOMAIN locals /\ locals[Node(l)] \in live
    BY <1>2, <1>3, <1>5
  <2>3. Sets(locals[Node(j)], f, locals[u])
    BY <2>1, <2>2, LinkStep
  <2>4. live' = live /\ locals' = locals
    BY <2>3 DEF Sets
  <2>5. Counted(3)
    BY <1>2, <1>3, <1>5
  <2>6. Counted(3)'
    BY <1>1, <2>4, <2>5, CountSame
  <2>7. ~(ip' <= 3)
    BY <1>3, <1>5
  <2>8. CircularInv'
    BY <2>2, <2>4, <2>6, <2>7 DEF CircularInv, Counted
  <2>9. QED BY <2>3, <2>8, HeapSets
<1>6. QED BY <1>3, <1>4, <1>5

\* What happens to the elements of a vector.
LEMMA VectorNew ==
  ASSUME HeapOK, NEW b, NewLocal("pointers", b), NEW S, S = {}
  PROVE  Vector(S)'
<1>1. b \notin before /\ locals' = With(locals, "pointers", b) /\ before' = before /\ live' = live \cup {b}
  BY HeapIs DEF NewLocal, Goes
<1>2. "pointers" \in DOMAIN locals' /\ locals'["pointers"] = b
  BY <1>1 DEF With
<1>3. QED BY <1>1, <1>2 DEF Vector

LEMMA VectorFill ==
  ASSUME HeapOK, NEW S, NEW T, NEW j, NEW b, Vector(S), NewElement(j, b), T \subseteq S \cup {j}
  PROVE  Vector(T)'
<1>. PICK p : p = locals["pointers"]
  OBVIOUS
<1>1. /\ "pointers" \in DOMAIN locals /\ p \in live \ before
      /\ \A l \in S : l \in DOMAIN fields[p] /\ fields[p][l] \in live \ before /\ fields[p][l] # p
      /\ \A l, o \in S : fields[p][l] = fields[p][o] => l = o
  BY DEF Vector
<1>2. b \notin before /\ b \notin live /\ p \in 1 .. Len(fields) /\ b # p
  BY <1>1, HeapIs DEF NewElement
<1>3. locals' = locals /\ before' = before /\ live' = live \cup {b} /\ fields'[p] = With(fields[p], j, b)
  BY <1>2 DEF NewElement, Goes
<1>4. j \in DOMAIN fields'[p] /\ fields'[p][j] = b
  BY <1>3 DEF With
<1>5. \A l \in S : l # j => l \in DOMAIN fields'[p] /\ fields'[p][l] = fields[p][l]
  BY <1>1, <1>3 DEF With
<1>6. \A l \in T : l \in DOMAIN fields'[p] /\ fields'[p][l] \in live' \ before' /\ fields'[p][l] # p
  BY <1>1, <1>2, <1>3, <1>4, <1>5
<1>7. \A l, o \in T : fields'[p][l] = fields'[p][o] => l = o
  BY <1>1, <1>2, <1>4, <1>5
<1>8. "pointers" \in DOMAIN locals' /\ locals'["pointers"] = p /\ p \in live' \ before'
  BY <1>1, <1>3
<1>9. QED BY <1>6, <1>7, <1>8 DEF Vector

LEMMA VectorRelease ==
  ASSUME NEW S, NEW T, NEW j \in S, Vector(S), Releases(fields[locals["pointers"]][j]), T \subseteq S \ {j}
  PROVE  Vector(T)' /\ fields[locals["pointers"]][j] \in live \ before
<1>. PICK p : p = locals["pointers"]
  OBVIOUS
<1>1. /\ "pointers" \in DOMAIN locals /\ p \in live \ before
      /\ \A l \in S : l \in DOMAIN fields[p] /\ fields[p][l] \in live \ before /\ fields[p][l] # p
      /\ \A l, o \in S : fields[p][l] = fields[p][o] => l = o
  BY DEF Vector
<1>2. live' = live \ {fields[p][j]} /\ fields' = fields /\ locals' = locals /\ before' = before
  BY DEF Releases, Goes
<1>3. p \in live' \ before'
  BY <1>1, <1>2
<1>4. \A l \in T : l \in DOMAIN fields[p] /\ fields[p][l] \in live' \ before' /\ fields[p][l] # p
  BY <1>1, <1>2
<1>5. Vector(T)'
  BY <1>1, <1>2, <1>3, <1>4 DEF Vector
<1>6. QED BY <1>1, <1>5

LEMMA VectorForget ==
  ASSUME HeapOK, NEW S, NEW T, NEW j, Vector(S), Sets(locals["pointers"], j, nullptr), T \subseteq S \ {j}
  PROVE  Vector(T)'
<1>. PICK p : p = locals["pointers"]
  OBVIOUS
<1>1. /\ "pointers" \in DOMAIN locals /\ p \in live \ before
      /\ \A l \in S : l \in DOMAIN fields[p] /\ fields[p][l] \in live \ before /\ fields[p][l] # p
      /\ \A l, o \in S : fields[p][l] = fields[p][o] => l = o
  BY DEF Vector
<1>2. p \in 1 .. Len(fields)
  BY <1>1, HeapIs
<1>3. live' = live /\ locals' = locals /\ before' = before /\ fields'[p] = With(fields[p], j, nullptr)
  BY <1>2 DEF Sets, Goes
<1>4. \A l \in T : l \in S /\ l \in DOMAIN fields'[p] /\ fields'[p][l] = fields[p][l]
  BY <1>1, <1>3 DEF With
<1>5. QED BY <1>1, <1>3, <1>4 DEF Vector

\* The instruction after the first m ones.
LEMMA PartialInstruction ==
  ASSUME NEW m \in 0 .. 41
  PROVE  \/ m = 0 /\ PartialMemoryLeak[m + 1] = New(<<"pointers">>)
         \/ \E k \in 1 .. 20 : m = k /\ PartialMemoryLeak[m + 1] = New(Element(k))
         \/ \E k \in 1 .. 10 : m = 19 + 2 * k /\ PartialMemoryLeak[m + 1] = Delete(Element(k))
         \/ \E k \in 1 .. 10 : m = 20 + 2 * k /\ PartialMemoryLeak[m + 1] = Forget(Element(k))
         \/ m = 41 /\ PartialMemoryLeak[m + 1] = Delete(<<"pointers">>)
<1>1. CASE m = 0
  BY <1>1, PartialScript
<1>2. CASE m \in 1 .. 20
  <2>1. m + 1 = 1 + m
    OBVIOUS
  <2>2. PartialMemoryLeak[m + 1] = New(Element(m))
    BY <1>2, <2>1, PartialScript
  <2>3. QED BY <1>2, <2>2
<1>3. CASE m \in 21 .. 40
  <2>1. m - 21 \in Nat
    BY <1>3
  <2>2. PICK j \in Nat : m - 21 = 2 * j \/ m - 21 = 2 * j + 1
    BY <2>1, Parity
  <2>. PICK k : k = j + 1
    OBVIOUS
  <2>3. k \in 1 .. 10 /\ (m = 19 + 2 * k \/ m = 20 + 2 * k)
    BY <1>3, <2>2
  <2>4. CASE m = 19 + 2 * k
    <3>1. m + 1 = 20 + 2 * k
      BY <2>3, <2>4
    <3>2. PartialMemoryLeak[m + 1] = Delete(Element(k))
      BY <2>3, <3>1, PartialScript
    <3>3. QED BY <2>3, <2>4, <3>2
  <2>5. CASE m = 20 + 2 * k
    <3>1. m + 1 = 21 + 2 * k
      BY <2>3, <2>5
    <3>2. PartialMemoryLeak[m + 1] = Forget(Element(k))
      BY <2>3, <3>1, PartialScript
    <3>3. QED BY <2>3, <2>5, <3>2
  <2>6. QED BY <2>3, <2>4, <2>5
<1>4. CASE m = 41
  BY <1>4, PartialScript
<1>5. m = 0 \/ m \in 1 .. 20 \/ m \in 21 .. 40 \/ m = 41
  OBVIOUS
<1>6. QED BY <1>1, <1>2, <1>3, <1>4, <1>5

PartialNext(m) ==
  /\ HeapOK'
  /\ Counted(IF m + 1 <= 21 THEN m + 1 ELSE 21 - (m + 1 - 20) \div 2)'
  /\ m + 1 \in 1 .. 41 => Vector(Filled(m + 1))'

LEMMA PartialStep ==
  ASSUME HeapOK, PartialInv, Work, scene = "partial"
  PROVE  HeapOK' /\ PartialInv'
<1>. PICK m : m = ip
  OBVIOUS
<1>1. m \in 0 .. 41 /\ scene' = scene /\ before' = before /\ ip' = m + 1
  BY WorkGoes, Lengths DEF HeapOK, Goes
<1>2. /\ Counted(IF m <= 21 THEN m ELSE 21 - (m - 20) \div 2)
      /\ m \in 1 .. 41 => Vector(Filled(m))
  BY DEF PartialInv, Filled
<1>3. /\ Script[scene] = PartialMemoryLeak
      /\ \/ m = 0 /\ PartialMemoryLeak[m + 1] = New(<<"pointers">>)
         \/ \E k \in 1 .. 20 : m = k /\ PartialMemoryLeak[m + 1] = New(Element(k))
         \/ \E k \in 1 .. 10 : m = 19 + 2 * k /\ PartialMemoryLeak[m + 1] = Delete(Element(k))
         \/ \E k \in 1 .. 10 : m = 20 + 2 * k /\ PartialMemoryLeak[m + 1] = Forget(Element(k))
         \/ m = 41 /\ PartialMemoryLeak[m + 1] = Delete(<<"pointers">>)
  BY <1>1, Scripts, PartialInstruction
<1>. PICK p : p = locals["pointers"]
  OBVIOUS
<1>4. m \in 1 .. 41 => p \in live
  BY <1>2 DEF Vector
<1>. SUFFICES PartialNext(m)
  BY <1>1 DEF PartialNext, PartialInv, Filled, Counted, Vector
<1>5. ASSUME m = 0, PartialMemoryLeak[m + 1] = New(<<"pointers">>)
      PROVE  PartialNext(m)
  <2>1. Script[scene][ip + 1] = New(<<"pointers">>)
    BY <1>3, <1>5
  <2>2. PICK b : NewLocal("pointers", b)
    BY <2>1, NewLocalStep
  <2>3. Filled(m + 1) = {} /\ m <= 21 /\ m + 1 <= 21 /\ m \in Nat
    BY <1>5 DEF Filled
  <2>4. Vector(Filled(m + 1))'
    BY <2>2, <2>3, VectorNew
  <2>5. b = Len(fields) + 1 /\ live' = live \cup {b}
    BY <2>2 DEF NewLocal
  <2>6. Counted(m + 1)'
    BY <1>1, <1>2, <2>3, <2>5, CountNew
  <2>7. HeapOK'
    BY <2>2, HeapNewLocal
  <2>8. QED BY <2>3, <2>4, <2>6, <2>7 DEF PartialNext
<1>6. ASSUME NEW k \in 1 .. 20, m = k, PartialMemoryLeak[m + 1] = New(Element(k))
      PROVE  PartialNext(m)
  <2>1. Script[scene][ip + 1] = New(Element(m))
    BY <1>3, <1>6
  <2>2. PICK b : NewElement(m, b)
    BY <1>4, <1>6, <2>1, NewElementStep
  <2>3. Filled(m + 1) \subseteq Filled(m) \cup {m} /\ m <= 21 /\ m + 1 <= 21 /\ m \in Nat /\ m \in 1 .. 41
    BY <1>6 DEF Filled
  <2>4. Vector(Filled(m + 1))'
    BY <1>2, <2>2, <2>3, VectorFill
  <2>5. b = Len(fields) + 1 /\ live' = live \cup {b}
    BY <2>2 DEF NewElement
  <2>6. Counted(m + 1)'
    BY <1>1, <1>2, <2>3, <2>5, CountNew
  <2>7. HeapOK'
    BY <2>2, HeapNewElement
  <2>8. QED BY <2>3, <2>4, <2>6, <2>7 DEF PartialNext
<1>7. ASSUME NEW k \in 1 .. 10, m = 19 + 2 * k, PartialMemoryLeak[m + 1] = Delete(Element(k))
      PROVE  PartialNext(m)
  <2>1. Script[scene][ip + 1] = Delete(Element(k))
    BY <1>3, <1>7
  <2>2. Releases(fields[p][k])
    BY <2>1, DeleteElementStep
  <2>3. m \in 1 .. 41 /\ k \in Filled(m) /\ Filled(m + 1) \subseteq Filled(m) \ {k}
    BY <1>7 DEF Filled
  <2>4. Vector(Filled(m + 1))' /\ fields[p][k] \in live \ before
    BY <1>2, <2>2, <2>3, VectorRelease
  <2>5. (IF m <= 21 THEN m ELSE 21 - (m - 20) \div 2) = 22 - k /\ 22 - k \in Nat
    BY <1>7
  <2>6. (IF m + 1 <= 21 THEN m + 1 ELSE 21 - (m + 1 - 20) \div 2) = 22 - k - 1
    BY <1>7
  <2>7. Counted(22 - k - 1)'
    BY <1>1, <1>2, <2>2, <2>4, <2>5, CountDelete DEF Releases
  <2>8. HeapOK'
    BY <2>2, HeapReleases
  <2>9. QED BY <2>4, <2>6, <2>7, <2>8 DEF PartialNext
<1>8. ASSUME NEW k \in 1 .. 10, m = 20 + 2 * k, PartialMemoryLeak[m + 1] = Forget(Element(k))
      PROVE  PartialNext(m)
  <2>1. Script[scene][ip + 1] = Forget(Element(k))
    BY <1>3, <1>8
  <2>2. m \in 1 .. 41 /\ Filled(m + 1) \subseteq Filled(m) \ {k}
    BY <1>8 DEF Filled
  <2>3. Sets(p, k, nullptr)
    BY <1>4, <2>1, <2>2, ForgetElementStep
  <2>4. Vector(Filled(m + 1))'
    BY <1>2, <2>2, <2>3, VectorForget
  <2>5. /\ (IF m <= 21 THEN m ELSE 21 - (m - 20) \div 2) = 21 - k
        /\ (IF m + 1 <= 21 THEN m + 1 ELSE 21 - (m + 1 - 20) \div 2) = 21 - k
    BY <1>8
  <2>6. Counted(21 - k)'
    BY <1>1, <1>2, <2>3, <2>5, CountSame DEF Sets
  <2>7. HeapOK'
    BY <2>3, HeapSets
  <2>8. QED BY <2>4, <2>5, <2>6, <2>7 DEF PartialNext
<1>9. ASSUME m = 41, PartialMemoryLeak[m + 1] = Delete(<<"pointers">>)
      PROVE  PartialNext(m)
  <2>1. Script[scene][ip + 1] = Delete(<<"pointers">>)
    BY <1>3, <1>9
  <2>2. Releases(p)
    BY <2>1, DeleteLocalStep
  <2>3. p \in live \ before /\ ~(m + 1 \in 1 .. 41)
    BY <1>2, <1>9 DEF Vector
  <2>4. /\ (IF m <= 21 THEN m ELSE 21 - (m - 20) \div 2) = 11 /\ 11 \in Nat
        /\ (IF m + 1 <= 21 THEN m + 1 ELSE 21 - (m + 1 - 20) \div 2) = 11 - 1
    BY <1>9
  <2>5. Counted(11 - 1)'
    BY <1>1, <1>2, <2>2, <2>3, <2>4, CountDelete DEF Releases
  <2>6. HeapOK'
    BY <2>2, HeapReleases
  <2>7. QED BY <2>3, <2>4, <2>5, <2>6 DEF PartialNext
<1>10. QED BY <1>3, <1>5, <1>6, <1>7, <1>8, <1>9

\* How the instructions leave the int of main() alone.
LEMMA KeptNewLocal ==
  ASSUME HeapOK, Kept, NEW v, v # "leaked_memory", NEW b, NewLocal(v, b), NEW S, S = {}
  PROVE  Kept' /\ (v = "pointers" => Different(S)')
<1>. PICK q : q = locals["leaked_memory"]
  OBVIOUS
<1>1. "leaked_memory" \in DOMAIN locals /\ q \in live \ before /\ DOMAIN fields[q] = {}
  BY DEF Kept
<1>2. q \in 1 .. Len(fields) /\ b \notin live
  BY <1>1, HeapIs DEF NewLocal
<1>3. locals' = With(locals, v, b) /\ before' = before /\ live' = live \cup {b} /\ fields'[q] = fields[q]
  BY <1>2 DEF NewLocal, Goes, Keeps
<1>4. "leaked_memory" \in DOMAIN locals' /\ locals'["leaked_memory"] = q /\ locals'[v] = b
  BY <1>1, <1>3 DEF With
<1>5. Kept'
  BY <1>1, <1>3, <1>4 DEF Kept
<1>6. b # q
  BY <1>1, <1>2
<1>7. v = "pointers" => Different(S)'
  BY <1>4, <1>6 DEF Different
<1>8. QED BY <1>5, <1>7

LEMMA KeptNewTwo ==
  ASSUME HeapOK, Kept, NEW v, v # "leaked_memory", NEW b, NewTwo(v, b)
  PROVE  Kept'
<1>. PICK q : q = locals["leaked_memory"]
  OBVIOUS
<1>1. "leaked_memory" \in DOMAIN locals /\ q \in live \ before /\ DOMAIN fields[q] = {}
  BY DEF Kept
<1>2. q \in 1 .. Len(fields)
  BY <1>1, HeapIs
<1>3. locals' = With(locals, v, b) /\ before' = before /\ live \subseteq live' /\ fields'[q] = fields[q]
  BY <1>2 DEF NewTwo, Goes, Keeps
<1>4. "leaked_memory" \in DOMAIN locals' /\ locals'["leaked_memory"] = q
  BY <1>1, <1>3 DEF With
<1>5. QED BY <1>1, <1>3, <1>4 DEF Kept

LEMMA KeptSetsLocal ==
  ASSUME Kept, NEW v, v # "leaked_memory", NEW b, SetsLocal(v, b)
  PROVE  Kept'
<1>1. locals' = With(locals, v, b) /\ before' = before /\ live' = live /\ fields' = fields
  BY DEF SetsLocal, Goes
<1>2. "leaked_memory" \in DOMAIN locals' /\ locals'["leaked_memory"] = locals["leaked_memory"]
  BY <1>1 DEF Kept, With
<1>3. QED BY <1>1, <1>2 DEF Kept

LEMMA KeptNewElement ==
  ASSUME HeapOK, Kept, NEW S, NEW T, NEW j, NEW b, Vector(S), Different(S), NewElement(j, b), T \subseteq S \cup {j}
  PROVE  Kept' /\ Different(T)'
<1>. PICK q : q = locals["leaked_memory"]
  OBVIOUS
<1>. PICK p : p = locals["pointers"]
  OBVIOUS
<1>1. "leaked_memory" \in DOMAIN locals /\ q \in live \ before /\ DOMAIN fields[q] = {}
  BY DEF Kept
<1>2. /\ p \in live /\ \A l \in S : l \in DOMAIN fields[p]
      /\ q # p /\ \A l \in S : fields[p][l] # q
  BY DEF Vector, Different
<1>3. q \in 1 .. Len(fields) /\ p \in 1 .. Len(fields) /\ b \notin live
  BY <1>1, <1>2, HeapIs DEF NewElement
<1>4. /\ locals' = locals /\ before' = before /\ live' = live \cup {b}
      /\ fields'[q] = fields[q] /\ fields'[p] = With(fields[p], j, b)
  BY <1>2, <1>3 DEF NewElement, Goes
<1>5. Kept'
  BY <1>1, <1>4 DEF Kept
<1>6. fields'[p][j] = b /\ \A l \in S : l # j => fields'[p][l] = fields[p][l]
  BY <1>2, <1>4 DEF With
<1>7. b # q
  BY <1>1, <1>3
<1>8. \A l \in T : fields'[p][l] # q
  BY <1>2, <1>6, <1>7
<1>9. Different(T)'
  BY <1>2, <1>4, <1>8 DEF Different
<1>10. QED BY <1>5, <1>9

LEMMA KeptReleases ==
  ASSUME Kept, NEW x, Releases(x), x # locals["leaked_memory"], NEW S, NEW T, Different(S), T \subseteq S
  PROVE  Kept' /\ Different(T)'
<1>1. locals' = locals /\ before' = before /\ live' = live \ {x} /\ fields' = fields
  BY DEF Releases, Goes
<1>2. Kept'
  BY <1>1 DEF Kept
<1>3. Different(T)'
  BY <1>1 DEF Different
<1>4. QED BY <1>2, <1>3

\* After m instructions the local variable v may get the pointer b.
MayGet(m, v, b) ==
  /\ m \in 0 .. 61 /\ v \in {"leaked_memory", "array", "obj", "pointers"}
  /\ m = 20 => v = "array"
  /\ m = 30 => v = "obj"
  /\ v = "array" /\ m >= 20 => b = nullptr
  /\ v = "obj" /\ m >= 30 => b = nullptr

LEMMA DroppedWith ==
  ASSUME NEW m, Dropped(m), NEW v, NEW b, MayGet(m, v, b), locals' = With(locals, v, b)
  PROVE  Dropped(m + 1)'
<1>1. /\ m \in 0 .. 61 /\ v \in {"leaked_memory", "array", "obj", "pointers"}
      /\ m = 20 => v = "array"
      /\ m = 30 => v = "obj"
      /\ v = "array" /\ m >= 20 => b = nullptr
      /\ v = "obj" /\ m >= 30 => b = nullptr
  BY DEF MayGet
<1>2. /\ DOMAIN locals \subseteq {"leaked_memory", "array", "obj", "pointers"}
      /\ m >= 21 /\ "array" \in DOMAIN locals => locals["array"] = nullptr
      /\ m >= 31 /\ "obj" \in DOMAIN locals => locals["obj"] = nullptr
  BY DEF Dropped
<1>3. /\ DOMAIN locals' = DOMAIN locals \cup {v} /\ locals'[v] = b
      /\ \A u \in DOMAIN locals : u # v => locals'[u] = locals[u]
  BY DEF With
<1>4. m + 1 >= 21 /\ "array" \in DOMAIN locals' => locals'["array"] = nullptr
  BY <1>2, <1>3, <1>1
<1>5. m + 1 >= 31 /\ "obj" \in DOMAIN locals' => locals'["obj"] = nullptr
  BY <1>2, <1>3, <1>1
<1>6. m + 1 # 63
  BY <1>1
<1>7. DOMAIN locals' \subseteq {"leaked_memory", "array", "obj", "pointers"}
  BY <1>2, <1>3, <1>1
<1>8. QED BY <1>4, <1>5, <1>6, <1>7 DEF Dropped

LEMMA DroppedSame ==
  ASSUME NEW m \in 31 .. 62, Dropped(m), locals' = locals, m = 62 => locals["pointers"] \notin live'
  PROVE  Dropped(m + 1)'
<1>1. m >= 21 /\ m >= 31 /\ (m + 1 = 63 => m = 62)
  OBVIOUS
<1>2. QED BY <1>1 DEF Dropped

\* What a step of main() leaves behind when m instructions were done before it.
SleepingNext(m) ==
  /\ HeapOK' /\ Counted(Held(m + 1))' /\ Dropped(m + 1)' /\ Kept'
  /\ m + 1 \in 32 .. 62 => Vector(Later(m + 1))' /\ Different(Later(m + 1))'

\* A local variable gets a block, or one with a part of its own, or nullptr.
LEMMA SleepingNewLocal ==
  ASSUME HeapOK, NEW m \in 0 .. 31, Counted(Held(m)), Dropped(m), m >= 1 => Kept,
         NEW v \in {"leaked_memory", "array", "pointers"}, NEW b, NewLocal(v, b),
         m = 0 <=> v = "leaked_memory", v = "array" => m <= 19, m = 31 <=> v = "pointers", m # 20, m # 30,
         Held(m) \in Nat, Held(m + 1) = Held(m) + 1
  PROVE  SleepingNext(m)
<1>1. /\ b = Len(fields) + 1 /\ live' = live \cup {b} /\ before' = before /\ locals' = With(locals, v, b)
      /\ Keeps /\ DOMAIN fields'[b] = {}
  BY DEF NewLocal, Goes
<1>2. Counted(Held(m) + 1)' /\ b \in live' \ before'
  BY <1>1, CountNew
<1>3. Counted(Held(m + 1))'
  BY <1>2
<1>4. HeapOK'
  BY HeapNewLocal
<1>5. Dropped(m + 1)'
  <2>1. MayGet(m, v, b)
    BY DEF MayGet
  <2>2. QED BY <1>1, <2>1, DroppedWith
<1>6. CASE m = 0
  <2>1. v = "leaked_memory" /\ locals'["leaked_memory"] = b /\ "leaked_memory" \in DOMAIN locals'
    BY <1>1, <1>6 DEF With
  <2>2. Kept'
    BY <1>1, <1>2, <2>1 DEF Kept
  <2>3. ~(m + 1 \in 32 .. 62)
    BY <1>6
  <2>4. QED BY <1>3, <1>4, <1>5, <2>2, <2>3 DEF SleepingNext
<1>7. CASE m # 0
  <2>1. v # "leaked_memory" /\ Kept
    BY <1>7
  <2>. DEFINE none == {}
  <2>2. Kept' /\ (v = "pointers" => Different(none)')
    BY <2>1, KeptNewLocal
  <2>3. v = "pointers" => Vector(none)'
    BY VectorNew
  <2>4. m + 1 \in 32 .. 62 => v = "pointers" /\ Later(m + 1) = none
    BY DEF Later
  <2>. HIDE DEF none
  <2>5. m + 1 \in 32 .. 62 => Vector(Later(m + 1))' /\ Different(Later(m + 1))'
    BY <2>2, <2>3, <2>4
  <2>6. QED BY <1>3, <1>4, <1>5, <2>2, <2>5 DEF SleepingNext
<1>8. QED BY <1>6, <1>7

LEMMA SleepingNewTwo ==
  ASSUME HeapOK, NEW m \in 21 .. 30, Counted(Held(m)), Dropped(m), Kept, NEW b, NewTwo("obj", b), m # 30,
         Held(m) \in Nat, Held(m + 1) = Held(m) + 2
  PROVE  SleepingNext(m)
<1>1. /\ b = Len(fields) + 1 /\ live' = live \cup {b, b + 1} /\ before' = before
      /\ locals' = With(locals, "obj", b)
  BY DEF NewTwo, Goes
<1>2. Counted(Held(m) + 2)'
  BY <1>1, CountTwo
<1>3. Counted(Held(m + 1))'
  BY <1>2
<1>4. HeapOK'
  BY HeapNewTwo
<1>5. Dropped(m + 1)'
  <2>1. MayGet(m, "obj", b)
    BY DEF MayGet
  <2>2. QED BY <1>1, <2>1, DroppedWith
<1>6. Kept' /\ ~(m + 1 \in 32 .. 62)
  BY KeptNewTwo
<1>7. QED BY <1>3, <1>4, <1>5, <1>6 DEF SleepingNext

LEMMA SleepingForget ==
  ASSUME HeapOK, NEW m \in 1 .. 30, Counted(Held(m)), Dropped(m), Kept,
         NEW v \in {"array", "obj"}, SetsLocal(v, nullptr), m = 20 => v = "array", m = 30 => v = "obj",
         Held(m + 1) = Held(m)
  PROVE  SleepingNext(m)
<1>1. live' = live /\ before' = before /\ locals' = With(locals, v, nullptr)
  BY DEF SetsLocal, Goes
<1>2. Counted(Held(m))'
  BY <1>1, CountSame
<1>3. Counted(Held(m + 1))'
  BY <1>2
<1>4. HeapOK'
  BY HeapSetsLocal
<1>5. Dropped(m + 1)'
  <2>1. MayGet(m, v, nullptr)
    BY DEF MayGet
  <2>2. QED BY <1>1, <2>1, DroppedWith
<1>6. Kept' /\ ~(m + 1 \in 32 .. 62)
  BY KeptSetsLocal
<1>7. QED BY <1>3, <1>4, <1>5, <1>6 DEF SleepingNext

LEMMA SleepingFill ==
  ASSUME HeapOK, NEW k \in 1 .. 20, NEW m, m = 31 + k, Counted(Held(m)), Dropped(m), Kept,
         Vector(Later(m)), Different(Later(m)), NEW b, NewElement(k, b),
         Held(m) \in Nat, Held(m + 1) = Held(m) + 1
  PROVE  SleepingNext(m)
<1>1. b = Len(fields) + 1 /\ live' = live \cup {b} /\ before' = before /\ locals' = locals
  BY DEF NewElement, Goes
<1>2. Counted(Held(m) + 1)'
  BY <1>1, CountNew
<1>3. Counted(Held(m + 1))'
  BY <1>2
<1>4. HeapOK'
  BY HeapNewElement
<1>5. m \in 31 .. 62 /\ m # 62 /\ Later(m + 1) \subseteq Later(m) \cup {k}
  BY DEF Later
<1>6. Dropped(m + 1)'
  BY <1>1, <1>5, DroppedSame
<1>7. Kept' /\ Different(Later(m + 1))'
  BY <1>5, KeptNewElement
<1>8. Vector(Later(m + 1))'
  BY <1>5, VectorFill
<1>9. QED BY <1>3, <1>4, <1>6, <1>7, <1>8 DEF SleepingNext

LEMMA SleepingRelease ==
  ASSUME HeapOK, NEW k \in 1 .. 10, NEW m, m = 51 + k, Counted(Held(m)), Dropped(m), Kept,
         Vector(Later(m)), Different(Later(m)), Releases(fields[locals["pointers"]][k]),
         Held(m) \in Nat, Held(m + 1) = Held(m) - 1
  PROVE  SleepingNext(m)
<1>. PICK x : x = fields[locals["pointers"]][k]
  OBVIOUS
<1>1. live' = live \ {x} /\ before' = before /\ locals' = locals
  BY DEF Releases, Goes
<1>2. m \in 31 .. 62 /\ m # 62 /\ k \in Later(m) /\ Later(m + 1) \subseteq Later(m) \ {k}
  BY DEF Later
<1>3. Vector(Later(m + 1))' /\ x \in live \ before
  BY <1>2, VectorRelease
<1>4. Counted(Held(m) - 1)'
  BY <1>1, <1>3, CountDelete
<1>5. Counted(Held(m + 1))'
  BY <1>4
<1>6. HeapOK'
  BY HeapReleases
<1>7. Dropped(m + 1)'
  BY <1>1, <1>2, DroppedSame
<1>8. x # locals["leaked_memory"] /\ Later(m + 1) \subseteq Later(m)
  BY <1>2 DEF Different
<1>9. Kept' /\ Different(Later(m + 1))'
  BY <1>8, KeptReleases
<1>10. QED BY <1>3, <1>5, <1>6, <1>7, <1>9 DEF SleepingNext

LEMMA SleepingLast ==
  ASSUME HeapOK, NEW m, m = 62, Counted(Held(m)), Dropped(m), Kept,
         Vector(Later(m)), Different(Later(m)), Releases(locals["pointers"]),
         Held(m) \in Nat, Held(m + 1) = Held(m) - 1
  PROVE  SleepingNext(m)
<1>. PICK x : x = locals["pointers"]
  OBVIOUS
<1>1. live' = live \ {x} /\ before' = before /\ locals' = locals
  BY DEF Releases, Goes
<1>2. x \in live \ before /\ x # locals["leaked_memory"]
  BY DEF Vector, Different
<1>3. Counted(Held(m) - 1)'
  BY <1>1, <1>2, CountDelete
<1>4. Counted(Held(m + 1))'
  BY <1>3
<1>5. HeapOK'
  BY HeapReleases
<1>6. m \in 31 .. 62 /\ ~(m + 1 \in 32 .. 62) /\ locals["pointers"] \notin live'
  BY <1>1
<1>7. Dropped(m + 1)'
  BY <1>1, <1>6, DroppedSame
<1>8. Later(m) \subseteq Later(m)
  OBVIOUS
<1>9. Kept'
  BY <1>2, <1>8, KeptReleases
<1>10. QED BY <1>4, <1>5, <1>6, <1>7, <1>9 DEF SleepingNext

\* How many blocks are held before and after an instruction.
LEMMA HeldIs ==
  ASSUME NEW m \in 0 .. 62
  PROVE  /\ Held(m) \in Nat
         /\ m = 0 => Held(m + 1) = Held(m) + 1
         /\ \A k \in 1 .. 10 : m = 2 * k - 1 => Held(m + 1) = Held(m) + 1
         /\ \A k \in 1 .. 10 : m = 2 * k => Held(m + 1) = Held(m)
         /\ \A k \in 1 .. 5 : m = 19 + 2 * k => Held(m + 1) = Held(m) + 2
         /\ \A k \in 1 .. 5 : m = 20 + 2 * k => Held(m + 1) = Held(m)
         /\ m \in 31 .. 51 => Held(m + 1) = Held(m) + 1
         /\ m \in 52 .. 62 => Held(m + 1) = Held(m) - 1
<1>1. Held(m) \in Nat /\ (m = 0 => Held(m + 1) = Held(m) + 1)
  BY DEF Held
<1>2. ASSUME NEW k \in 1 .. 10
      PROVE  /\ m = 2 * k - 1 => Held(m + 1) = Held(m) + 1
             /\ m = 2 * k => Held(m + 1) = Held(m)
  <2>1. /\ (2 * k - 1) \div 2 = k - 1 /\ (2 * k) \div 2 = k /\ (2 * k + 1) \div 2 = k
        /\ 2 * k - 1 + 1 = 2 * k
    OBVIOUS
  <2>2. CASE m = 2 * k - 1
    BY <2>1, <2>2 DEF Held
  <2>3. CASE m = 2 * k
    BY <2>1, <2>3 DEF Held
  <2>4. QED BY <2>2, <2>3
<1>3. ASSUME NEW k \in 1 .. 5
      PROVE  /\ m = 19 + 2 * k => Held(m + 1) = Held(m) + 2
             /\ m = 20 + 2 * k => Held(m + 1) = Held(m)
  BY DEF Held
<1>4. m \in 31 .. 51 => Held(m + 1) = Held(m) + 1
  BY DEF Held
<1>5. m \in 52 .. 62 => Held(m + 1) = Held(m) - 1
  BY DEF Held
<1>6. QED BY <1>1, <1>2, <1>3, <1>4, <1>5

LEMMA SleepingInstruction ==
  ASSUME NEW m \in 0 .. 62
  PROVE  \/ m = 0 /\ SleepingMain[m + 1] = New(<<"leaked_memory">>)
         \/ \E k \in 1 .. 10 : m = 2 * k - 1 /\ SleepingMain[m + 1] = New(<<"array">>)
         \/ \E k \in 1 .. 10 : m = 2 * k /\ SleepingMain[m + 1] = Forget(<<"array">>)
         \/ \E k \in 1 .. 5 : m = 19 + 2 * k /\ SleepingMain[m + 1] = NewWith(<<"obj">>, "data")
         \/ \E k \in 1 .. 5 : m = 20 + 2 * k /\ SleepingMain[m + 1] = Forget(<<"obj">>)
         \/ m = 31 /\ SleepingMain[m + 1] = New(<<"pointers">>)
         \/ \E k \in 1 .. 20 : m = 31 + k /\ SleepingMain[m + 1] = New(Element(k))
         \/ \E k \in 1 .. 10 : m = 51 + k /\ SleepingMain[m + 1] = Delete(Element(k))
         \/ m = 62 /\ SleepingMain[m + 1] = Delete(<<"pointers">>)
<1>1. CASE m = 0
  BY <1>1, SleepingScript
<1>2. CASE m \in 1 .. 30
  <2>1. PICK j \in Nat : m = 2 * j \/ m = 2 * j + 1
    <3>1. m \in Nat
      OBVIOUS
    <3>2. QED BY <3>1, Parity, Zenon
  <2>2. CASE m <= 20 /\ m = 2 * j
    <3>1. j \in 1 .. 10 /\ m + 1 = 1 + 2 * j
      BY <1>2, <2>2
    <3>2. SleepingMain[m + 1] = Forget(<<"array">>)
      BY <3>1, SleepingScript
    <3>3. QED BY <2>2, <3>1, <3>2
  <2>3. CASE m <= 20 /\ m = 2 * j + 1
    <3>. PICK k : k = j + 1
      OBVIOUS
    <3>1. k \in 1 .. 10 /\ m + 1 = 2 * k /\ m = 2 * k - 1
      BY <1>2, <2>3
    <3>2. SleepingMain[m + 1] = New(<<"array">>)
      BY <3>1, SleepingScript
    <3>3. QED BY <3>1, <3>2
  <2>4. CASE m > 20 /\ m = 2 * j
    <3>. PICK k : k = j - 10
      OBVIOUS
    <3>1. k \in 1 .. 5 /\ m + 1 = 21 + 2 * k /\ m = 20 + 2 * k
      BY <1>2, <2>4
    <3>2. SleepingMain[m + 1] = Forget(<<"obj">>)
      BY <3>1, SleepingScript
    <3>3. QED BY <3>1, <3>2
  <2>5. CASE m > 20 /\ m = 2 * j + 1
    <3>. PICK k : k = j - 9
      OBVIOUS
    <3>1. k \in 1 .. 5 /\ m + 1 = 20 + 2 * k /\ m = 19 + 2 * k
      BY <1>2, <2>5
    <3>2. SleepingMain[m + 1] = NewWith(<<"obj">>, "data")
      BY <3>1, SleepingScript
    <3>3. QED BY <3>1, <3>2
  <2>6. m <= 20 \/ m > 20
    BY <1>2
  <2>7. QED BY <2>1, <2>2, <2>3, <2>4, <2>5, <2>6, Zenon
<1>3. CASE m = 31
  BY <1>3, SleepingScript
<1>4. CASE m \in 32 .. 51
  <2>. PICK k : k = m - 31
    OBVIOUS
  <2>1. k \in 1 .. 20 /\ m + 1 = 32 + k /\ m = 31 + k
    BY <1>4
  <2>2. SleepingMain[m + 1] = New(Element(k))
    BY <2>1, SleepingScript
  <2>3. QED BY <2>1, <2>2
<1>5. CASE m \in 52 .. 61
  <2>. PICK k : k = m - 51
    OBVIOUS
  <2>1. k \in 1 .. 10 /\ m + 1 = 52 + k /\ m = 51 + k
    BY <1>5
  <2>2. SleepingMain[m + 1] = Delete(Element(k))
    BY <2>1, SleepingScript
  <2>3. QED BY <2>1, <2>2
<1>6. CASE m = 62
  BY <1>6, SleepingScript
<1>7. m = 0 \/ m \in 1 .. 30 \/ m = 31 \/ m \in 32 .. 51 \/ m \in 52 .. 61 \/ m = 62
  OBVIOUS
<1>8. QED BY <1>1, <1>2, <1>3, <1>4, <1>5, <1>6, <1>7

LEMMA SleepingStep ==
  ASSUME HeapOK, SleepingInv, Work, scene = "sleeping"
  PROVE  HeapOK' /\ SleepingInv'
<1>. PICK m : m = ip
  OBVIOUS
<1>1. m \in 0 .. 62 /\ scene' = scene /\ ip' = m + 1
  BY WorkGoes, Lengths DEF HeapOK, Goes
<1>2. /\ Counted(Held(m)) /\ Dropped(m) /\ (m >= 1 => Kept)
      /\ m \in 32 .. 62 => Vector(Later(m)) /\ Different(Later(m))
  BY DEF SleepingInv
<1>3. /\ Script[scene] = SleepingMain /\ ip + 1 = m + 1
      /\ \/ m = 0 /\ SleepingMain[m + 1] = New(<<"leaked_memory">>)
         \/ \E k \in 1 .. 10 : m = 2 * k - 1 /\ SleepingMain[m + 1] = New(<<"array">>)
         \/ \E k \in 1 .. 10 : m = 2 * k /\ SleepingMain[m + 1] = Forget(<<"array">>)
         \/ \E k \in 1 .. 5 : m = 19 + 2 * k /\ SleepingMain[m + 1] = NewWith(<<"obj">>, "data")
         \/ \E k \in 1 .. 5 : m = 20 + 2 * k /\ SleepingMain[m + 1] = Forget(<<"obj">>)
         \/ m = 31 /\ SleepingMain[m + 1] = New(<<"pointers">>)
         \/ \E k \in 1 .. 20 : m = 31 + k /\ SleepingMain[m + 1] = New(Element(k))
         \/ \E k \in 1 .. 10 : m = 51 + k /\ SleepingMain[m + 1] = Delete(Element(k))
         \/ m = 62 /\ SleepingMain[m + 1] = Delete(<<"pointers">>)
  BY <1>1, Scripts, SleepingInstruction
<1>4. m \in 32 .. 62 => locals["pointers"] \in live
  BY <1>2 DEF Vector
<1>5. SleepingNext(m)
  <2>1. ASSUME m = 0, SleepingMain[m + 1] = New(<<"leaked_memory">>)
        PROVE  SleepingNext(m)
    <3>1. Script[scene][ip + 1] = New(<<"leaked_memory">>)
      BY <1>3, <2>1
    <3>2. PICK b : NewLocal("leaked_memory", b)
      BY <3>1, NewLocalStep
    <3>3. /\ m \in 0 .. 31 /\ m # 20 /\ m # 30 /\ m # 31 /\ "leaked_memory" # "array" /\ "leaked_memory" # "pointers"
          /\ Held(m) \in Nat /\ Held(m + 1) = Held(m) + 1
      BY <1>1, <2>1, HeldIs
    <3>4. QED BY <1>2, <2>1, <3>2, <3>3, SleepingNewLocal
  <2>2. ASSUME NEW k \in 1 .. 10, m = 2 * k - 1, SleepingMain[m + 1] = New(<<"array">>)
        PROVE  SleepingNext(m)
    <3>1. Script[scene][ip + 1] = New(<<"array">>)
      BY <1>3, <2>2
    <3>2. PICK b : NewLocal("array", b)
      BY <3>1, NewLocalStep
    <3>3. /\ m \in 0 .. 31 /\ m # 0 /\ m >= 1 /\ m <= 19 /\ m # 20 /\ m # 30 /\ m # 31
          /\ "array" # "leaked_memory" /\ "array" # "pointers"
      BY <2>2
    <3>4. Held(m) \in Nat /\ Held(m + 1) = Held(m) + 1
      BY <1>1, <2>2, HeldIs
    <3>5. QED BY <1>2, <3>2, <3>3, <3>4, SleepingNewLocal
  <2>3. ASSUME NEW k \in 1 .. 10, m = 2 * k, SleepingMain[m + 1] = Forget(<<"array">>)
        PROVE  SleepingNext(m)
    <3>1. Script[scene][ip + 1] = Forget(<<"array">>)
      BY <1>3, <2>3
    <3>2. SetsLocal("array", nullptr)
      BY <3>1, ForgetLocalStep
    <3>3. m \in 1 .. 30 /\ m >= 1 /\ m # 30 /\ Held(m + 1) = Held(m)
      BY <1>1, <2>3, HeldIs
    <3>4. QED BY <1>2, <3>2, <3>3, SleepingForget
  <2>4. ASSUME NEW k \in 1 .. 5, m = 19 + 2 * k, SleepingMain[m + 1] = NewWith(<<"obj">>, "data")
        PROVE  SleepingNext(m)
    <3>1. Script[scene][ip + 1] = NewWith(<<"obj">>, "data")
      BY <1>3, <2>4
    <3>2. PICK b : NewTwo("obj", b)
      BY <3>1, NewTwoStep
    <3>3. m \in 21 .. 30 /\ m >= 1 /\ m # 30
      BY <2>4
    <3>4. Held(m) \in Nat /\ Held(m + 1) = Held(m) + 2
      BY <1>1, <2>4, HeldIs
    <3>5. QED BY <1>2, <3>2, <3>3, <3>4, SleepingNewTwo
  <2>5. ASSUME NEW k \in 1 .. 5, m = 20 + 2 * k, SleepingMain[m + 1] = Forget(<<"obj">>)
        PROVE  SleepingNext(m)
    <3>1. Script[scene][ip + 1] = Forget(<<"obj">>)
      BY <1>3, <2>5
    <3>2. SetsLocal("obj", nullptr)
      BY <3>1, ForgetLocalStep
    <3>3. m \in 1 .. 30 /\ m >= 1 /\ m # 20 /\ Held(m + 1) = Held(m)
      BY <1>1, <2>5, HeldIs
    <3>4. QED BY <1>2, <3>2, <3>3, SleepingForget
  <2>6. ASSUME m = 31, SleepingMain[m + 1] = New(<<"pointers">>)
        PROVE  SleepingNext(m)
    <3>1. Script[scene][ip + 1] = New(<<"pointers">>)
      BY <1>3, <2>6
    <3>2. PICK b : NewLocal("pointers", b)
      BY <3>1, NewLocalStep
    <3>3. /\ m \in 0 .. 31 /\ m # 0 /\ m >= 1 /\ m # 20 /\ m # 30
          /\ "pointers" # "array" /\ "pointers" # "leaked_memory"
          /\ Held(m) \in Nat /\ Held(m + 1) = Held(m) + 1
      BY <1>1, <2>6, HeldIs
    <3>4. QED BY <1>2, <2>6, <3>2, <3>3, SleepingNewLocal
  <2>7. ASSUME NEW k \in 1 .. 20, m = 31 + k, SleepingMain[m + 1] = New(Element(k))
        PROVE  SleepingNext(m)
    <3>1. Script[scene][ip + 1] = New(Element(k))
      BY <1>3, <2>7
    <3>2. m >= 1 /\ m \in 32 .. 62 /\ m \in 31 .. 51
      BY <2>7
    <3>3. PICK b : NewElement(k, b)
      BY <1>4, <3>1, <3>2, NewElementStep
    <3>4. Held(m) \in Nat /\ Held(m + 1) = Held(m) + 1
      BY <1>1, <3>2, HeldIs
    <3>5. QED BY <1>2, <2>7, <3>2, <3>3, <3>4, SleepingFill
  <2>8. ASSUME NEW k \in 1 .. 10, m = 51 + k, SleepingMain[m + 1] = Delete(Element(k))
        PROVE  SleepingNext(m)
    <3>1. Script[scene][ip + 1] = Delete(Element(k))
      BY <1>3, <2>8
    <3>2. m >= 1 /\ m \in 32 .. 62 /\ m \in 52 .. 62
      BY <2>8
    <3>3. Releases(fields[locals["pointers"]][k])
      BY <3>1, DeleteElementStep
    <3>4. Held(m) \in Nat /\ Held(m + 1) = Held(m) - 1
      BY <1>1, <3>2, HeldIs
    <3>5. QED BY <1>2, <2>8, <3>2, <3>3, <3>4, SleepingRelease
  <2>9. ASSUME m = 62, SleepingMain[m + 1] = Delete(<<"pointers">>)
        PROVE  SleepingNext(m)
    <3>1. Script[scene][ip + 1] = Delete(<<"pointers">>)
      BY <1>3, <2>9
    <3>2. Releases(locals["pointers"])
      BY <3>1, DeleteLocalStep
    <3>3. m >= 1 /\ m \in 32 .. 62 /\ m \in 52 .. 62 /\ Held(m) \in Nat /\ Held(m + 1) = Held(m) - 1
      BY <1>1, <2>9, HeldIs
    <3>4. QED BY <1>2, <2>9, <3>2, <3>3, SleepingLast
  <2>10. QED BY <1>3, <2>1, <2>2, <2>3, <2>4, <2>5, <2>6, <2>7, <2>8, <2>9
<1>6. SleepingInv'
  <2>1. ip' = m + 1
    BY <1>1
  <2>2. /\ Counted(Held(ip))' /\ Dropped(ip)' /\ Kept'
        /\ ip' \in 32 .. 62 => Vector(Later(ip))' /\ Different(Later(ip))'
    BY <1>5, <2>1 DEF SleepingNext, Counted, Dropped, Vector, Different
  <2>3. QED BY <2>2 DEF SleepingInv
<1>7. QED BY <1>5, <1>6 DEF SleepingNext

-----------------------------------------------------------------------------
\* Only live blocks are written to and released.

Careful ==
  /\ Len(To) = 2 => locals[To[1]] \in live
  /\ Script[scene][ip + 1].do = "delete" => Value(To) \in live

LEMMA CarefulLocal ==
  ASSUME NEW v, \/ Script[scene][ip + 1] = New(<<v>>) \/ Script[scene][ip + 1] = Forget(<<v>>)
                \/ \E f : Script[scene][ip + 1] = NewWith(<<v>>, f)
  PROVE  Careful
<1>1. CASE Script[scene][ip + 1] = New(<<v>>)
  BY <1>1 DEF Careful, To, New
<1>2. CASE Script[scene][ip + 1] = Forget(<<v>>)
  BY <1>2 DEF Careful, To, Forget
<1>3. ASSUME NEW f, Script[scene][ip + 1] = NewWith(<<v>>, f)
      PROVE  Careful
  BY <1>3 DEF Careful, To, NewWith
<1>4. QED BY <1>1, <1>2, <1>3

LEMMA CarefulElement ==
  ASSUME NEW j, Script[scene][ip + 1] = New(Element(j)) \/ Script[scene][ip + 1] = Forget(Element(j)),
         locals["pointers"] \in live
  PROVE  Careful
<1>1. To = <<"pointers", j>> /\ Script[scene][ip + 1].do # "delete"
  BY DEF To, New, Forget, Element
<1>2. QED BY <1>1 DEF Careful

LEMMA CarefulLink ==
  ASSUME NEW v, NEW f, NEW q, Script[scene][ip + 1] = Link(<<v, f>>, q), locals[v] \in live
  PROVE  Careful
<1>1. To = <<v, f>> /\ Script[scene][ip + 1].do # "delete"
  BY DEF To, Link
<1>2. QED BY <1>1 DEF Careful

LEMMA CarefulDelete ==
  ASSUME NEW v, Script[scene][ip + 1] = Delete(<<v>>), locals[v] \in live
  PROVE  Careful
<1>1. To = <<v>> /\ Len(<<v>>) = 1
  BY DEF To, Delete
<1>2. Value(<<v>>) = locals[v]
  BY DEF Value
<1>3. QED BY <1>1, <1>2 DEF Careful

LEMMA CarefulRelease ==
  ASSUME NEW j, Script[scene][ip + 1] = Delete(Element(j)),
         NEW S, j \in S, Vector(S)
  PROVE  Careful
<1>1. To = <<"pointers", j>>
  BY DEF To, Delete, Element
<1>2. Value(<<"pointers", j>>) = fields[locals["pointers"]][j]
  BY DEF Value
<1>3. locals["pointers"] \in live /\ fields[locals["pointers"]][j] \in live
  BY DEF Vector
<1>4. QED BY <1>1, <1>2, <1>3 DEF Careful

LEMMA PartialCareful ==
  ASSUME PartialInv, scene = "partial", NEW m \in 0 .. 41, m = ip
  PROVE  Careful
<1>1. /\ Script[scene] = PartialMemoryLeak
      /\ m \in 1 .. 41 => Vector(Filled(m)) /\ locals["pointers"] \in live
  BY Scripts DEF PartialInv, Vector
<1>2. CASE m = 0 /\ PartialMemoryLeak[m + 1] = New(<<"pointers">>)
  BY <1>1, <1>2, CarefulLocal
<1>3. ASSUME NEW k \in 1 .. 20, m = k, PartialMemoryLeak[m + 1] = New(Element(k))
      PROVE  Careful
  BY <1>1, <1>3, CarefulElement
<1>4. ASSUME NEW k \in 1 .. 10, m = 19 + 2 * k, PartialMemoryLeak[m + 1] = Delete(Element(k))
      PROVE  Careful
  <2>1. m \in 1 .. 41 /\ k \in Filled(m)
    BY <1>4 DEF Filled
  <2>2. QED BY <1>1, <1>4, <2>1, CarefulRelease
<1>5. ASSUME NEW k \in 1 .. 10, m = 20 + 2 * k, PartialMemoryLeak[m + 1] = Forget(Element(k))
      PROVE  Careful
  <2>1. m \in 1 .. 41
    BY <1>5
  <2>2. QED BY <1>1, <1>5, <2>1, CarefulElement
<1>6. CASE m = 41 /\ PartialMemoryLeak[m + 1] = Delete(<<"pointers">>)
  BY <1>1, <1>6, CarefulDelete
<1>7. QED BY <1>2, <1>3, <1>4, <1>5, <1>6, PartialInstruction

LEMMA SleepingCareful ==
  ASSUME SleepingInv, scene = "sleeping", NEW m \in 0 .. 62, m = ip
  PROVE  Careful
<1>1. /\ Script[scene] = SleepingMain
      /\ m \in 32 .. 62 => Vector(Later(m)) /\ locals["pointers"] \in live
  BY Scripts DEF SleepingInv, Vector
<1>. PICK a : a = SleepingMain[m + 1]
  OBVIOUS
<1>2. Script[scene][ip + 1] = a
  BY <1>1
<1>3. CASE \/ \E v : a = New(<<v>>) \/ a = Forget(<<v>>)
           \/ \E v, f : a = NewWith(<<v>>, f)
  BY <1>2, <1>3, CarefulLocal
<1>4. ASSUME NEW k \in 1 .. 20, m = 31 + k, a = New(Element(k))
      PROVE  Careful
  <2>1. m \in 32 .. 62
    BY <1>4
  <2>2. QED BY <1>1, <1>2, <1>4, <2>1, CarefulElement
<1>5. ASSUME NEW k \in 1 .. 10, m = 51 + k, a = Delete(Element(k))
      PROVE  Careful
  <2>1. m \in 32 .. 62 /\ k \in Later(m)
    BY <1>5 DEF Later
  <2>2. QED BY <1>1, <1>2, <1>5, <2>1, CarefulRelease
<1>6. CASE m = 62 /\ a = Delete(<<"pointers">>)
  <2>1. m \in 32 .. 62
    BY <1>6
  <2>2. QED BY <1>1, <1>2, <1>6, <2>1, CarefulDelete
<1>7. \/ \E v : a = New(<<v>>) \/ a = Forget(<<v>>)
      \/ \E v, f : a = NewWith(<<v>>, f)
      \/ \E k \in 1 .. 20 : m = 31 + k /\ a = New(Element(k))
      \/ \E k \in 1 .. 10 : m = 51 + k /\ a = Delete(Element(k))
      \/ m = 62 /\ a = Delete(<<"pointers">>)
  BY SleepingInstruction
<1>8. QED BY <1>3, <1>4, <1>5, <1>6, <1>7

LEMMA CircularCareful ==
  ASSUME CircularInv, scene = "circular", NEW m \in 0 .. 8, m = ip
  PROVE  Careful
<1>1. /\ Script[scene] = CircularReferenceleak
      /\ m >= 3 => \A j \in 1 .. 3 : locals[Node(j)] \in live
  BY Scripts DEF CircularInv
<1>2. CASE m <= 2
  <2>1. CircularReferenceleak[m + 1] = New(<<Node(m + 1)>>)
    BY <1>2, CircularScript
  <2>2. QED BY <1>1, <2>1, CarefulLocal
<1>3. CASE m >= 3
  <2>1. PICK j, f, u : j \in 1 .. 3 /\ CircularReferenceleak[m + 1] = Link(<<Node(j), f>>, <<u>>)
    <3>1. m \in 3 .. 8
      BY <1>3
    <3>2. QED BY <3>1, CircularLink, Zenon
  <2>2. QED BY <1>1, <1>3, <2>1, CarefulLink
<1>4. QED BY <1>2, <1>3

LEMMA DemoCareful ==
  ASSUME DemoInv
  PROVE  OnlyLiveBlocks
<1>. SUFFICES ASSUME scene # "none", ip < Len(Script[scene]) PROVE Careful
  BY DEF OnlyLiveBlocks, Careful
<1>1. scene \in DOMAIN Script /\ ip \in 0 .. Len(Script[scene])
  BY DEF DemoInv, HeapOK
<1>2. CASE scene = "simple"
  <2>1. Script[scene] = SimpleMemoryLeak /\ ip + 1 \in 1 .. 3
    BY <1>1, <1>2, Scripts, Lengths
  <2>2. PICK v : Script[scene][ip + 1] = New(<<v>>)
    BY <2>1, SimpleScript
  <2>3. QED BY <2>2, CarefulLocal
<1>3. CASE scene = "array"
  <2>1. Script[scene] = ArrayMemoryLeak /\ ip \in 0 .. 19
    BY <1>1, <1>3, Scripts, Lengths
  <2>2. PICK v : Script[scene][ip + 1] = New(<<v>>) \/ Script[scene][ip + 1] = Forget(<<v>>)
    <3>. PICK m \in 0 .. 19 : m = ip
      BY <2>1
    <3>4. m \in Nat
      OBVIOUS
    <3>1. PICK k \in Nat : m = 2 * k \/ m = 2 * k + 1
      BY <3>4, Parity, Zenon
    <3>2. k + 1 \in 1 .. 10 /\ (m + 1 = 2 * (k + 1) - 1 \/ m + 1 = 2 * (k + 1))
      BY <3>1
    <3>3. QED BY <2>1, <3>2, ArrayScript
  <2>3. QED BY <2>2, CarefulLocal
<1>4. CASE scene = "object"
  <2>1. Script[scene] = ObjectMemoryLeak /\ ip \in 0 .. 9
    BY <1>1, <1>4, Scripts, Lengths
  <2>2. PICK v, f : Script[scene][ip + 1] = NewWith(<<v>>, f) \/ Script[scene][ip + 1] = Forget(<<v>>)
    <3>. PICK m \in 0 .. 9 : m = ip
      BY <2>1
    <3>4. m \in Nat
      OBVIOUS
    <3>1. PICK k \in Nat : m = 2 * k \/ m = 2 * k + 1
      BY <3>4, Parity, Zenon
    <3>2. k + 1 \in 1 .. 5 /\ (m + 1 = 2 * (k + 1) - 1 \/ m + 1 = 2 * (k + 1))
      BY <3>1
    <3>3. QED BY <2>1, <3>2, ObjectScript
  <2>3. QED BY <2>2, CarefulLocal
<1>5. CASE scene = "partial"
  <2>1. PICK m \in 0 .. 41 : m = ip
    BY <1>1, <1>5, Lengths
  <2>2. QED BY <1>5, <2>1, PartialCareful DEF DemoInv
<1>6. CASE scene = "circular"
  <2>1. PICK m \in 0 .. 8 : m = ip
    BY <1>1, <1>6, Lengths
  <2>2. QED BY <1>6, <2>1, CircularCareful DEF DemoInv
<1>7. CASE scene = "sleeping"
  <2>1. PICK m \in 0 .. 62 : m = ip
    BY <1>1, <1>7, Lengths
  <2>2. QED BY <1>7, <2>1, SleepingCareful DEF DemoInv
<1>8. QED BY <1>1, <1>2, <1>3, <1>4, <1>5, <1>6, <1>7, Scripts

-----------------------------------------------------------------------------
\* What can be reached when the blocks that the variables point to lead nowhere
\* else.

LessThan == {q \in Nat \X Nat : q[1] < q[2]}

LEMMA LessThanWellFounded == IsWellFoundedOn(LessThan, Nat)
<1>1. OpToRel(<, Nat) = LessThan
  BY DEF OpToRel, LessThan
<1>. HIDE DEF LessThan
<1>2. QED BY <1>1, NatLessThanWellFounded, Zenon

LEMMA LeastOf ==
  ASSUME NEW T \in SUBSET Nat, T # {}
  PROVE  \E x \in T : \A y \in T : x <= y
<1>1. PICK x \in T : \A y \in T : ~(<<y, x>> \in LessThan)
  BY LessThanWellFounded, WFMin
<1>2. \A y \in T : ~(y < x)
  BY <1>1 DEF LessThan
<1>3. QED BY <1>2

\* One turn from a set of blocks that lead nowhere else.
NextRound(R, fs, lv) == UNION {{b} \cup (Pointers(fs[b]) \cap lv) : b \in R}

LEMMA ReachIs ==
  ASSUME NEW ls, NEW fs, NEW lv, NEW m \in Nat, Len(fs) = m,
         NEW R, R = Pointers(ls) \cap lv, NextRound(R, fs, lv) = R
  PROVE  Reach(ls, fs, lv) = R
<1>. DEFINE F(g) == [k \in 0 .. m |-> IF k = 0 THEN R ELSE NextRound(g[k - 1], fs, lv)]
            c == [k \in 0 .. m |-> R]
            reach == CHOOSE g : g = F(g)
<1>1. c = F(c)
  <2>1. \A k \in 0 .. m : k # 0 => k - 1 \in 0 .. m
    OBVIOUS
  <2>2. \A k \in 0 .. m : R = IF k = 0 THEN R ELSE NextRound(c[k - 1], fs, lv)
    BY <2>1
  <2>3. QED BY <2>2
<1>2. reach = F(reach)
  <2>. HIDE DEF F, c
  <2>1. \E g : g = F(g)
    BY <1>1
  <2>2. QED BY <2>1, Zenon
<1>. PICK g : g = reach
  OBVIOUS
<1>3. g = F(g)
  <2>. HIDE DEF F, reach
  <2>1. QED BY <1>2
<1>. HIDE DEF reach
<1>4. g = [k \in 0 .. m |-> IF k = 0 THEN R ELSE NextRound(g[k - 1], fs, lv)]
  BY <1>3
<1>5. \A k \in 0 .. m : g[k] = IF k = 0 THEN R ELSE NextRound(g[k - 1], fs, lv)
  BY <1>4, Zenon
<1>6. g[0] = R /\ \A k \in 0 .. m : k # 0 => g[k] = NextRound(g[k - 1], fs, lv)
  <2>1. 0 \in 0 .. m
    OBVIOUS
  <2>2. QED BY <1>5, <2>1, Zenon
<1>. DEFINE T == {k \in 0 .. m : g[k] # R}
<1>7. T = {}
  <2>1. SUFFICES ASSUME T # {} PROVE FALSE
    OBVIOUS
  <2>2. T \in SUBSET Nat
    OBVIOUS
  <2>3. PICK k \in T : \A y \in T : k <= y
    BY <2>1, <2>2, LeastOf
  <2>4. k \in 0 .. m /\ g[k] # R /\ k # 0
    BY <1>6, <2>3
  <2>5. k - 1 \in 0 .. m /\ ~(k <= k - 1)
    BY <2>4
  <2>6. g[k - 1] = R
    BY <2>3, <2>5
  <2>7. QED BY <1>6, <2>4, <2>6
<1>8. g[m] = R
  BY <1>7
<1>9. Reach(ls, fs, lv) = reach[m]
  BY Zenon DEF Reach, NextRound, reach
<1>10. QED BY <1>8, <1>9

-----------------------------------------------------------------------------
\* The invariant holds, and the scenarios leak what they announce.

LEMMA DemoStart ==
  ASSUME DemoInit
  PROVE  DemoInv
<1>1. Len(<<>>) = 0 /\ DOMAIN <<>> = 1 .. 0 /\ 0 \in Nat
  OBVIOUS
<1>2. HeapOK /\ scene = "none"
  BY <1>1 DEF DemoInit, HeapOK
<1>3. QED BY <1>2 DEF DemoInv, SimpleInv, ArrayInv, ObjectInv, PartialInv, CircularInv, SleepingInv

LEMMA DemoCall ==
  ASSUME DemoInv, Call
  PROVE  DemoInv'
<1>1. /\ scene = "none" /\ scene' \in DOMAIN Script /\ ip' = 0 /\ before' = live
      /\ live' = live /\ fields' = fields /\ locals' = locals
  BY DEF Call, heap
<1>2. locals' = <<>> /\ DOMAIN locals' = {}
  <2>1. locals = <<>>
    BY <1>1 DEF DemoInv, HeapOK
  <2>2. QED BY <1>1, <2>1
<1>3. Len(Script[scene']) \in Nat
  BY <1>1, Finite
<1>4. 0 \in 0 .. Len(Script[scene'])
  BY <1>3
<1>5. HeapOK'
  <2>1. Len(fields) \in Nat /\ DOMAIN fields = 1 .. Len(fields) /\ live \subseteq 1 .. Len(fields)
    BY DEF DemoInv, HeapOK
  <2>2. QED BY <1>1, <1>2, <1>4, <2>1 DEF HeapOK
<1>. DEFINE own == live' \ before'
<1>6. IsFiniteSet(own) /\ Cardinality(own) = 0
  <2>1. own = {}
    BY <1>1
  <2>2. QED BY <2>1, FS_EmptySet
<1>. HIDE DEF own
<1>7. ip' <= 21 /\ ip' <= 3 /\ ip' + 1 = 1 /\ 1 \div 2 = 0 /\ 2 * 0 = 0 /\ ~(ip' \in 1 .. 41)
  BY <1>1
<1>8. SimpleInv' /\ ArrayInv' /\ ObjectInv'
  BY <1>1, <1>6, <1>7 DEF SimpleInv, ArrayInv, ObjectInv, Counted, own
<1>9. PartialInv'
  BY <1>1, <1>6, <1>7 DEF PartialInv, Counted, own
<1>10. CircularInv'
  BY <1>1, <1>6, <1>7 DEF CircularInv, Counted, own
<1>11. SleepingInv'
  <2>1. Counted(Held(ip))'
    BY <1>1, <1>6 DEF Counted, Held, own
  <2>2. Dropped(ip)'
    BY <1>1, <1>2 DEF Dropped
  <2>3. ~(ip' >= 1) /\ ~(ip' \in 32 .. 62)
    BY <1>1
  <2>4. QED BY <2>1, <2>2, <2>3 DEF SleepingInv
<1>12. QED BY <1>5, <1>8, <1>9, <1>10, <1>11 DEF DemoInv

LEMMA DemoReturn ==
  ASSUME DemoInv, Return
  PROVE  DemoInv'
<1>1. scene' = "none" /\ locals' = <<>> /\ live' = live /\ fields' = fields /\ before' = before
  BY DEF Return
<1>2. HeapOK'
  BY <1>1 DEF DemoInv, HeapOK
<1>3. QED BY <1>1, <1>2 DEF DemoInv, SimpleInv, ArrayInv, ObjectInv, PartialInv, CircularInv, SleepingInv

LEMMA DemoWork ==
  ASSUME DemoInv, Work
  PROVE  DemoInv'
<1>1. scene \in DOMAIN Script /\ scene' = scene
  BY WorkGoes DEF Goes, DemoInv, HeapOK
<1>. USE Scripts DEF DemoInv
<1>2. CASE scene = "simple"
  BY <1>1, <1>2, SimpleStep DEF ArrayInv, ObjectInv, PartialInv, CircularInv, SleepingInv
<1>3. CASE scene = "array"
  BY <1>1, <1>3, ArrayStep DEF SimpleInv, ObjectInv, PartialInv, CircularInv, SleepingInv
<1>4. CASE scene = "object"
  BY <1>1, <1>4, ObjectStep DEF SimpleInv, ArrayInv, PartialInv, CircularInv, SleepingInv
<1>5. CASE scene = "partial"
  BY <1>1, <1>5, PartialStep DEF SimpleInv, ArrayInv, ObjectInv, CircularInv, SleepingInv
<1>6. CASE scene = "circular"
  BY <1>1, <1>6, CircularStep DEF SimpleInv, ArrayInv, ObjectInv, PartialInv, SleepingInv
<1>7. CASE scene = "sleeping"
  BY <1>1, <1>7, SleepingStep DEF SimpleInv, ArrayInv, ObjectInv, PartialInv, CircularInv
<1>8. QED BY <1>1, <1>2, <1>3, <1>4, <1>5, <1>6, <1>7

LEMMA DemoStep ==
  ASSUME DemoInv, [DemoNext]_demoVars
  PROVE  DemoInv'
<1>1. CASE Call
  BY <1>1, DemoCall
<1>2. CASE Work
  BY <1>2, DemoWork
<1>3. CASE Return
  BY <1>3, DemoReturn
<1>4. CASE UNCHANGED demoVars
  <2>1. /\ live' = live /\ fields' = fields /\ locals' = locals
        /\ scene' = scene /\ ip' = ip /\ before' = before
    BY <1>4 DEF demoVars, heap
  <2>2. HeapOK'
    BY <2>1 DEF DemoInv, HeapOK
  <2>3. SimpleInv' /\ ArrayInv' /\ ObjectInv'
    BY <2>1 DEF DemoInv, SimpleInv, ArrayInv, ObjectInv, Counted
  <2>4. PartialInv'
    BY <2>1 DEF DemoInv, PartialInv, Counted, Vector
  <2>5. CircularInv'
    BY <2>1 DEF DemoInv, CircularInv, Counted
  <2>6. SleepingInv'
    BY <2>1 DEF DemoInv, SleepingInv, Counted, Vector, Kept, Different, Dropped
  <2>7. QED BY <2>2, <2>3, <2>4, <2>5, <2>6 DEF DemoInv
<1>5. QED BY <1>1, <1>2, <1>3, <1>4 DEF DemoNext, Work, Ended

LEMMA DemoInvariant == DemoSpec => []DemoInv
<1>1. DemoInit => DemoInv
  BY DemoStart
<1>2. DemoInv /\ [DemoNext]_demoVars => DemoInv'
  BY DemoStep
<1>3. QED BY <1>1, <1>2, PTL DEF DemoSpec

\* None of the two programs writes to, or releases, a block that is not live:
\* however many scenarios are called and in whatever order, the vectors of
\* pointers are only used while they are there, and each element is released once.
THEOREM DemosTouchLiveBlocks == DemoSpec => []OnlyLiveBlocks
<1>1. DemoInv => OnlyLiveBlocks
  BY DemoCareful
<1>2. QED BY <1>1, DemoInvariant, PTL

\* At the end of a scenario it holds what it has announced, and main() an int more.
LEMMA HeldAtEnd ==
  ASSUME DemoInv, scene \in DOMAIN Script, ip = Len(Script[scene])
  PROVE  Counted(Announced[scene] + (IF scene = "sleeping" THEN 1 ELSE 0))
<1>1. /\ scene = "simple" => ip = 3 /\ Counted(ip)
      /\ scene = "array" => ip = 20 /\ Counted((ip + 1) \div 2)
      /\ scene = "object" => ip = 10 /\ Counted(2 * ((ip + 1) \div 2))
  BY Lengths DEF DemoInv, SimpleInv, ArrayInv, ObjectInv
<1>2. /\ scene = "partial" => ip = 42 /\ Counted(IF ip <= 21 THEN ip ELSE 21 - (ip - 20) \div 2)
      /\ scene = "circular" => ip = 9 /\ Counted(IF ip <= 3 THEN ip ELSE 3)
      /\ scene = "sleeping" => ip = 63 /\ Counted(Held(ip))
  BY Lengths DEF DemoInv, PartialInv, CircularInv, SleepingInv
<1>3. /\ (20 + 1) \div 2 = 10 /\ 2 * ((10 + 1) \div 2) = 10 /\ 21 - (42 - 20) \div 2 = 10 /\ Held(63) = 31
      /\ ~(42 <= 21) /\ ~(9 <= 3)
  BY DEF Held
<1>4. /\ scene = "simple" => Counted(3)
      /\ scene = "array" => Counted(10)
      /\ scene = "object" => Counted(10)
      /\ scene = "partial" => Counted(10)
      /\ scene = "circular" => Counted(3)
      /\ scene = "sleeping" => Counted(31)
  <2>1. scene = "simple" => Counted(3)
    BY <1>1
  <2>2. scene = "array" => Counted(10)
    BY <1>1, <1>3 DEF Counted
  <2>3. scene = "object" => Counted(10)
    BY <1>1, <1>3 DEF Counted
  <2>4. scene = "partial" => Counted(10)
    BY <1>2, <1>3 DEF Counted
  <2>5. scene = "circular" => Counted(3)
    BY <1>2, <1>3 DEF Counted
  <2>6. ASSUME scene = "sleeping" PROVE Counted(31)
    <3>1. ip = 63 /\ Counted(Held(ip))
      BY <1>2, <2>6, Zenon
    <3>2. Held(ip) = 31
      BY <1>3, <3>1
    <3>3. QED BY <3>1, <3>2, Zenon
  <2>7. QED BY <2>1, <2>2, <2>3, <2>4, <2>5, <2>6
<1>5. /\ Announced["simple"] = 3 /\ Announced["array"] = 10 /\ Announced["object"] = 10
      /\ Announced["partial"] = 10 /\ Announced["circular"] = 3 /\ Announced["sleeping"] = 30
  BY DEF Announced
<1>. PICK a : a = Announced[scene] + (IF scene = "sleeping" THEN 1 ELSE 0)
  OBVIOUS
<1>. SUFFICES Counted(a)
  BY Zenon
<1>6. CASE scene = "simple"
  <2>1. a = 3 BY <1>5, <1>6
  <2>2. QED BY <1>4, <1>6, <2>1
<1>7. CASE scene = "array"
  <2>1. a = 10 BY <1>5, <1>7
  <2>2. QED BY <1>4, <1>7, <2>1
<1>8. CASE scene = "object"
  <2>1. a = 10 BY <1>5, <1>8
  <2>2. QED BY <1>4, <1>8, <2>1
<1>9. CASE scene = "partial"
  <2>1. a = 10 BY <1>5, <1>9
  <2>2. QED BY <1>4, <1>9, <2>1
<1>10. CASE scene = "circular"
  <2>1. a = 3 BY <1>5, <1>10
  <2>2. QED BY <1>4, <1>10, <2>1
<1>11. CASE scene = "sleeping"
  <2>1. a = 31 BY <1>5, <1>11
  <2>2. QED BY <1>4, <1>11, <2>1
<1>12. scene \in {"simple", "array", "object", "partial", "circular", "sleeping"}
  BY Scripts
<1>13. QED BY <1>6, <1>7, <1>8, <1>9, <1>10, <1>11, <1>12

LEMMA NothingReached ==
  ASSUME NEW fs, NEW lv, Len(fs) \in Nat
  PROVE  Reach(<<>>, fs, lv) = {}
<1>. PICK m \in Nat : m = Len(fs)
  OBVIOUS
<1>. PICK R : R = {}
  OBVIOUS
<1>1. R = Pointers(<<>>) \cap lv
  BY DEF Pointers
<1>2. NextRound(R, fs, lv) = R
  BY DEF NextRound
<1>3. Reach(<<>>, fs, lv) = R
  BY <1>1, <1>2, ReachIs
<1>4. QED BY <1>3

\* While main() sleeps only the int of its first scenario is in its hands.
LEMMA SleepingReached ==
  ASSUME nullptr \notin Nat, DemoInv, scene = "sleeping", ip = 63
  PROVE  /\ locals["leaked_memory"] \in live \ before
         /\ Reachable = {locals["leaked_memory"]}
<1>. PICK q : q = locals["leaked_memory"]
  OBVIOUS
<1>1. "leaked_memory" \in DOMAIN locals /\ q \in live \ before /\ DOMAIN fields[q] = {}
  BY DEF DemoInv, SleepingInv, Kept
<1>2. /\ DOMAIN locals \subseteq {"leaked_memory", "array", "obj", "pointers"}
      /\ "array" \in DOMAIN locals => locals["array"] = nullptr
      /\ "obj" \in DOMAIN locals => locals["obj"] = nullptr
      /\ "pointers" \in DOMAIN locals => locals["pointers"] \notin live
  BY DEF DemoInv, SleepingInv, Dropped
<1>3. Len(fields) \in Nat /\ live \subseteq 1 .. Len(fields)
  BY HeapIs DEF DemoInv
<1>4. nullptr \notin live
  <2>1. 1 .. Len(fields) \subseteq Nat
    BY <1>3
  <2>2. QED BY <1>3, <2>1
<1>. PICK m \in Nat : m = Len(fields)
  BY <1>3
<1>. PICK R : R = {q}
  OBVIOUS
<1>5. R = Pointers(locals) \cap live
  BY <1>1, <1>2, <1>4 DEF Pointers
<1>6. NextRound(R, fields, live) = R
  <2>1. Pointers(fields[q]) = {}
    BY <1>1 DEF Pointers
  <2>2. QED BY <2>1 DEF NextRound
<1>7. Reach(locals, fields, live) = R
  BY <1>5, <1>6, ReachIs
<1>8. QED BY <1>1, <1>7 DEF Reachable

LEMMA ReturnLeaks ==
  ASSUME nullptr \notin Nat, DemoInv, DemoNext, scene # "none", scene' = "none"
  PROVE  LET lost == IF scene = "sleeping" THEN live \ Reachable ELSE (live \ Reachable)'
         IN Cardinality(lost \ before) = Announced[scene]
<1>1. Return
  BY DEF DemoNext, Call, Allocate, SetPointer, SetNull, Deallocate, Step, Ended, Script
<1>2. ip = Len(Script[scene]) /\ scene \in DOMAIN Script /\ Len(fields) \in Nat
  BY <1>1 DEF Return, DemoInv, HeapOK
<1>3. Counted(Announced[scene] + (IF scene = "sleeping" THEN 1 ELSE 0))
  BY <1>2, HeldAtEnd
<1>4. Announced[scene] \in Nat
  BY <1>2, Scripts DEF Announced
<1>5. CASE scene = "sleeping"
  <2>1. ip = 63
    BY <1>2, <1>5, Lengths
  <2>. PICK q : q = locals["leaked_memory"]
    OBVIOUS
  <2>2. q \in live \ before /\ Reachable = {q}
    BY <1>5, <2>1, SleepingReached
  <2>. DEFINE own == live \ before
  <2>3. (live \ Reachable) \ before = own \ {q} /\ q \in own
    BY <2>2
  <2>. PICK k \in Nat : k = Announced[scene]
    BY <1>4
  <2>4. IsFiniteSet(own) /\ Cardinality(own) = k + 1
    BY <1>3, <1>5 DEF Counted
  <2>. HIDE DEF own
  <2>5. Cardinality(own \ {q}) = Cardinality(own) - 1
    BY <2>3, <2>4, FS_RemoveElement
  <2>6. Cardinality(own \ {q}) = k
    BY <2>4, <2>5
  <2>7. Cardinality((live \ Reachable) \ before) = Announced[scene]
    BY <2>3, <2>6
  <2>8. QED BY <1>5, <2>7
<1>6. CASE scene # "sleeping"
  <2>1. live' = live /\ fields' = fields /\ locals' = <<>>
    BY <1>1 DEF Return
  <2>2. Reachable' = {}
    BY <1>2, <2>1, NothingReached DEF Reachable
  <2>3. (live \ Reachable)' \ before = live \ before
    BY <2>1, <2>2
  <2>4. Cardinality(live \ before) = Announced[scene]
    BY <1>3, <1>4, <1>6 DEF Counted
  <2>5. QED BY <1>6, <2>3, <2>4
<1>7. QED BY <1>5, <1>6

\* What a scenario leaves behind is what the text it writes announces, after any
\* number of other scenarios: when its locals are gone nothing that is live can
\* be reached, and while main() of the other program sleeps, all but one block
\* is lost, the int that it still points to.
THEOREM DemosLeakAsAnnounced == DemoSpec => LeaksAsAnnounced
<1>1. DemoInv /\ [DemoNext]_demoVars =>
        [scene # "none" /\ scene' = "none" =>
           LET lost == IF scene = "sleeping" THEN live \ Reachable ELSE (live \ Reachable)'
           IN Cardinality(lost \ before) = Announced[scene]]_demoVars
  BY ReturnLeaks, DemoAssumption
<1>2. QED BY <1>1, DemoInvariant, PTL DEF DemoSpec, LeaksAsAnnounced
=============================================================================
