---------------------------- MODULE BlockLayout ----------------------------
(***************************************************************************)
(* Where the slots of a pool lie in the memory it has got: allocate_block()*)
(* of memory_pool.h, which pads, carves and links the slots of a block,    *)
(* and the constructors of the two pools of m_pool.cpp, which link nodes   *)
(* every sizeof(T) bytes.  Memory is addressed by the byte.                *)
(***************************************************************************)
EXTENDS Naturals, FiniteSets

CONSTANTS
  Pointer,   \* sizeof(slot_t *), which is also its alignment
  Word,      \* size_t counts modulo Word
  Counts,    \* the values of block_size and of count
  Types,     \* the element types, as [size |-> sizeof(T), align |-> alignof(T)], each
             \* with flag, the size of slot_t::allocated: 0 without _MEM_POOL_DEBUG_
  Buffers,   \* what operator new may return
  NULL       \* nullptr

\* The size and the alignment of slot_t: an element, behind it a pointer, and in
\* the debug build a flag.
RoundUp(x, a) == x + ((a - (x % a)) % a)
SlotAlign(t)  == IF t.align > Pointer THEN t.align ELSE Pointer
SlotSize(t)   == RoundUp(RoundUp(t.size, Pointer) + Pointer + t.flag, SlotAlign(t))

\* Sizes are multiples of alignments, operator new aligns for a pointer, and no
\* address reaches the end of the memory.
ASSUME LayoutAssumption ==
  /\ {Pointer, Word} \subseteq Nat \ {0}
  /\ Counts \subseteq Nat /\ Buffers \subseteq Nat
  /\ \A t \in Types : /\ {t.size, t.align} \subseteq Nat \ {0} /\ t.flag \in Nat
                      /\ t.size % t.align = 0 /\ Word % SlotAlign(t) = 0
  /\ \A b \in Buffers : b % Pointer = 0
  /\ \A n \in Counts, t \in Types, b \in Buffers : b + (n + 1) * SlotSize(t) < Word

VARIABLES
  pool,    \* "growing" for MemoryPool, "fixed" for the pools of m_pool.cpp
  n,       \* block_size, or count
  type,    \* T
  buffer,  \* the memory, from operator new
  step,    \* the distance between two slots
  start,   \* start, or current
  i,       \* the number of turns the loop has made
  links,   \* the links that were written: address, and what is there now
  first,   \* the slot that is published as the top of the free list
  pc

params == <<pool, n, type, buffer>>
vars == <<params, step, start, i, links, first, pc>>

Init ==
  /\ pool \in {"growing", "fixed"}
  /\ n \in Counts /\ type \in Types /\ buffer \in Buffers
  /\ pool = "fixed" => type.size >= Pointer \* which the constructors assert
  /\ step = 0 /\ start = 0 /\ i = 0 /\ first = NULL
  /\ links = {}
  /\ pc = "begin"

Address(x) == x % Word

\* Padding by what is too much instead of what is missing.
PadPointerSlip(p, align) == p % align

\* pad_pointer()
PadPointer(p, align) == ((align + Word - p) % Word) % align

BeginGrowing ==
  /\ pool = "growing" /\ pc = "begin"
  /\ LET body == buffer + Pointer
     IN start' = body + PadPointer(body, SlotAlign(type))
  /\ step' = SlotSize(type)
  /\ first' = start'
  /\ pc' = "loop"
  /\ UNCHANGED <<params, i, links>>

BeginFixed ==
  /\ pool = "fixed" /\ pc = "begin"
  /\ start' = buffer /\ first' = buffer
  /\ step' = type.size
  /\ pc' = "loop"
  /\ UNCHANGED <<params, i, links>>

\* Looking at where the next slot begins instead of where it ends.
MoreGrowingSlip == start < buffer + n * step

\* Whether the loop makes another turn; a count of 0 wraps around.
MoreGrowing == start + step < buffer + n * step
MoreFixed   == i < (n + Word - 1) % Word
More == IF pool = "growing" THEN MoreGrowing ELSE MoreFixed

SetLink(a, p) == links' = {l \in links : l.at # a} \cup {[at |-> a, to |-> p]}

Turn ==
  /\ pc = "loop" /\ More
  /\ SetLink(start, start + step)
  /\ start' = start + step
  /\ i' = i + 1
  /\ UNCHANGED <<params, step, first, pc>>

\* The last slot: one step back in the growing pool, whose loop links every slot
\* and leaves start behind the last one.
LastSlot == IF pool = "growing" THEN Address(start + Word - step) ELSE start

EndLoop ==
  /\ pc = "loop" /\ ~More
  /\ SetLink(LastSlot, NULL)
  /\ pc' = "done"
  /\ UNCHANGED <<params, step, start, i, first>>

Done == pc = "done" /\ UNCHANGED vars

Next == BeginGrowing \/ BeginFixed \/ Turn \/ EndLoop \/ Done

Spec == Init /\ [][Next]_vars

-----------------------------------------------------------------------------
\* Properties

\* A block of one slot has none left for the padding; a pool of no objects
\* counts down from 0.
Enough == n >= IF pool = "growing" THEN 2 ELSE 1

Slot(a) == a >= buffer /\ a + step <= buffer + n * step

\* Every link is where a slot may lie: in the growing pool one with its element,
\* in the fixed pools a pointer.
Aligned == \A l \in links : l.at % (IF pool = "growing" THEN SlotAlign(type) ELSE Pointer) = 0

\* Every link is written to a slot that lies in the memory, if and only if there are
\* two slots in a block, or one object.  And it is aligned, in the growing pool for
\* every element type and every address that operator new returns, in the fixed
\* pools if and only if the size of T is a multiple of the alignment of a pointer
\* or there is but one object.
WellPlaced ==
  /\ pc = "done" => (Enough <=> \A l \in links : Slot(l.at))
  /\ pc = "done" /\ Enough =>
       (Aligned <=> pool = "growing" \/ type.size % Pointer = 0 \/ n = 1)

\* "We'll never get exactly the number of objects requested, but it should be
\* close": a block has block_size - 1 slots, a fixed pool count, and the free
\* list that is published runs through all of them in the order of their
\* addresses.
AllCarved ==
  pc = "done" /\ Enough =>
    LET slots == IF pool = "growing" THEN n - 1 ELSE n
    IN links = {[at |-> first + k * step,
                 to |-> IF k < slots - 1 THEN first + (k + 1) * step ELSE NULL] : k \in 0 .. slots - 1}

-----------------------------------------------------------------------------
\* The invariant from which the proofs derive the properties

\* Where the first slot is, how far apart slots are, and what is written about
\* slot k by the loop.
Distance  == IF pool = "growing" THEN SlotSize(type) ELSE type.size
Beginning == IF pool = "growing"
             THEN buffer + Pointer + PadPointer(buffer + Pointer, SlotAlign(type))
             ELSE buffer
LinkOf(k) == [at |-> first + k * step, to |-> first + (k + 1) * step]

ParamsOK ==
  /\ pool \in {"growing", "fixed"} /\ n \in Counts /\ type \in Types /\ buffer \in Buffers
  /\ pc \in {"begin", "loop", "done"} /\ i \in Nat

\* The loop is at slot i, and has linked those before it.
LoopOK ==
  /\ pc = "begin" => i = 0 /\ links = {}
  /\ pc # "begin" => step = Distance /\ first = Beginning /\ start = first + i * step
  /\ pc = "loop" => links = {LinkOf(k) : k \in 0 .. i - 1}

\* It turns n - 1 times, or not at all when there is no room in a block.
TurnsOK ==
  /\ pc # "begin" /\ Enough => i <= n - 1
  /\ pc # "begin" /\ ~Enough /\ pool = "growing" => i = 0
  /\ pc = "done" /\ Enough => i = n - 1

\* When there is no room, the end is marked outside of it.
MisplacedOK == pc = "done" /\ ~Enough => [at |-> LastSlot, to |-> NULL] \in links

IInv == ParamsOK /\ LoopOK /\ TurnsOK /\ AllCarved /\ MisplacedOK
=============================================================================
