---------------------------- MODULE LockFreePool ----------------------------
(***************************************************************************)
(* LockFreeMemoryPool<T> of m_pool.cpp: a fixed array of slots whose free  *)
(* slots form a stack, linked through the first word of each slot, with a  *)
(* tagged top-of-stack pointer changed by compare_exchange_weak only.      *)
(*                                                                         *)
(* The link of a free slot lives in the object's own storage (the slot is  *)
(* a Node while free and a T while held), so the holder overwrites it, and *)
(* a thread that stalls inside allocate() may read it after that.  One     *)
(* action is one access to shared memory: the load of head_, the read or   *)
(* write of a link, the compare-and-swap.                                  *)
(*                                                                         *)
(* The client is the most general one the interface admits: any thread     *)
(* may call allocate() at any time and may deallocate() any slot that is   *)
(* held, its own or one that another thread passed to it.                  *)
(***************************************************************************)
EXTENDS SlotList, FiniteSets

CONSTANTS
  Threads,   \* the threads that call the pool
  UserData,  \* what a holder's writes may leave in the first word of its slot
  MaxTag     \* bound on the tag: the largest value uintptr_t can hold

ASSUME PoolAssumption == MaxTag \in Nat

VARIABLES
  head,      \* head_, a TaggedPointer
  next,      \* next[s]: the first word of slot s, as a Node*
  pc,        \* pc[t]: where thread t is in allocate() or deallocate()
  old,       \* old[t]: its local old_head
  new,       \* new[t]: its local new_head
  node,      \* node[t]: new_node, the slot it is deallocating
  held       \* the slots handed out by allocate() and not passed back

locals == <<pc, old, new, node>>
vars == <<head, next, pc, old, new, node, held>>

Nil == [ptr |-> NULL, tag |-> 0]

AllocLabels == {"alloc_load", "alloc_next", "alloc_cas"}
FreeLabels  == {"free_load", "free_link", "free_cas"}

\* The slots a deallocate() in progress is still to push.
InTransit == {node[t] : t \in {u \in Threads : pc[u] \in FreeLabels}}

-----------------------------------------------------------------------------
\* The slips named ...Slip are not part of the model: each is a plausible
\* mistake in the definition it precedes, and a property has to notice it.

TagSlip(k) == k

\* Every change of head_ gets a new tag.
IncTag(k) == k + 1

\* The constructor threads all slots onto the free list in address order.
Init ==
  /\ head = [ptr |-> 1, tag |-> 0]
  /\ next = [s \in Slots |-> InitialLink(s)]
  /\ pc   = [t \in Threads |-> "idle"]
  /\ old  = [t \in Threads |-> Nil]
  /\ new  = [t \in Threads |-> Nil]
  /\ node = [t \in Threads |-> NULL]
  /\ held = {}

\* The call is over and its locals are gone.
Return(t) ==
  /\ pc'   = [pc EXCEPT ![t] = "idle"]
  /\ old'  = [old EXCEPT ![t] = Nil]
  /\ new'  = [new EXCEPT ![t] = Nil]
  /\ node' = [node EXCEPT ![t] = NULL]

\* A successful compare_exchange_weak(old_head, new_head).
Swap(t) ==
  /\ head = old[t]
  /\ new[t].tag <= MaxTag
  /\ head' = new[t]

\* allocate(): pop the top of the stack.

CallAllocate(t) ==
  /\ pc[t] = "idle"
  /\ pc' = [pc EXCEPT ![t] = "alloc_load"]
  /\ UNCHANGED <<head, next, old, new, node, held>>

AllocLoad(t) ==
  /\ pc[t] = "alloc_load"
  /\ head.ptr # NULL
  /\ old' = [old EXCEPT ![t] = head]
  /\ pc' = [pc EXCEPT ![t] = "alloc_next"]
  /\ UNCHANGED <<head, next, new, node, held>>

\* Taking a stack of one slot, whose link is nullptr, for an empty one.
AllocEmptySlip(t) ==
  /\ pc[t] = "alloc_load"
  /\ head.ptr \in {NULL} \cup {s \in Slots : next[s] = NULL}
  /\ Return(t)
  /\ UNCHANGED <<head, next, held>>

\* The stack is empty: allocate() returns nullptr.
AllocEmpty(t) ==
  /\ pc[t] = "alloc_load"
  /\ head.ptr = NULL
  /\ Return(t)
  /\ UNCHANGED <<head, next, held>>

\* The slot may no longer be free: what is read may be the holder's data.
AllocNext(t) ==
  /\ pc[t] = "alloc_next"
  /\ new' = [new EXCEPT ![t] = [ptr |-> next[old[t].ptr],
                                tag |-> IncTag(old[t].tag)]]
  /\ pc' = [pc EXCEPT ![t] = "alloc_cas"]
  /\ UNCHANGED <<head, next, old, node, held>>

AllocCas(t) ==
  /\ pc[t] = "alloc_cas"
  /\ Swap(t)
  /\ held' = held \cup {old[t].ptr}
  /\ Return(t)
  /\ UNCHANGED next

\* Giving up instead of trying again.
AllocRetrySlip(t) ==
  /\ pc[t] = "alloc_cas"
  /\ Return(t)
  /\ UNCHANGED <<head, next, held>>

\* Not looking at the answer of the compare-and-swap.
AllocUncheckedSlip(t) ==
  /\ pc[t] = "alloc_cas"
  /\ held' = held \cup {old[t].ptr}
  /\ Return(t)
  /\ UNCHANGED <<head, next>>

\* The weak compare-and-swap failed, because head_ moved or spuriously.
AllocRetry(t) ==
  /\ pc[t] = "alloc_cas"
  /\ pc' = [pc EXCEPT ![t] = "alloc_load"]
  /\ UNCHANGED <<head, next, old, new, node, held>>

\* deallocate(s): push s.

CallDeallocate(t, s) ==
  /\ pc[t] = "idle"
  /\ s \in held
  /\ held' = held \ {s}
  /\ node' = [node EXCEPT ![t] = s]
  /\ pc' = [pc EXCEPT ![t] = "free_load"]
  /\ UNCHANGED <<head, next, old, new>>

FreeLoad(t) ==
  /\ pc[t] = "free_load"
  /\ old' = [old EXCEPT ![t] = head]
  /\ pc' = [pc EXCEPT ![t] = "free_link"]
  /\ UNCHANGED <<head, next, new, node, held>>

\* Linking the old top to the slot instead of the slot to the old top.
FreeLinkSlip(t) ==
  /\ pc[t] = "free_link"
  /\ next' = [s \in Slots |-> IF s = old[t].ptr THEN node[t] ELSE next[s]]
  /\ new' = [new EXCEPT ![t] = [ptr |-> node[t], tag |-> IncTag(old[t].tag)]]
  /\ pc' = [pc EXCEPT ![t] = "free_cas"]
  /\ UNCHANGED <<head, old, node, held>>

FreeLink(t) ==
  /\ pc[t] = "free_link"
  /\ next' = [next EXCEPT ![node[t]] = old[t].ptr]
  /\ new' = [new EXCEPT ![t] = [ptr |-> node[t], tag |-> IncTag(old[t].tag)]]
  /\ pc' = [pc EXCEPT ![t] = "free_cas"]
  /\ UNCHANGED <<head, old, node, held>>

FreeCas(t) ==
  /\ pc[t] = "free_cas"
  /\ Swap(t)
  /\ Return(t)
  /\ UNCHANGED <<next, held>>

\* Reloading old_head but not linking the slot to it again.
FreeRetrySlip(t) ==
  /\ pc[t] = "free_cas"
  /\ old' = [old EXCEPT ![t] = head]
  /\ new' = [new EXCEPT ![t].tag = IncTag(head.tag)]
  /\ UNCHANGED <<head, next, pc, node, held>>

FreeRetry(t) ==
  /\ pc[t] = "free_cas"
  /\ pc' = [pc EXCEPT ![t] = "free_load"]
  /\ UNCHANGED <<head, next, old, new, node, held>>

\* A holder writes its object, and with it the word that was the link.
UserWrite(s, v) ==
  /\ s \in held
  /\ next' = [next EXCEPT ![s] = v]
  /\ UNCHANGED <<head, pc, old, new, node, held>>

Step(t) ==
  \/ AllocLoad(t) \/ AllocEmpty(t) \/ AllocNext(t) \/ AllocCas(t) \/ AllocRetry(t)
  \/ FreeLoad(t) \/ FreeLink(t) \/ FreeCas(t) \/ FreeRetry(t)

Next ==
  \/ \E t \in Threads :
       \/ CallAllocate(t)
       \/ \E s \in Slots : CallDeallocate(t, s)
       \/ Step(t)
  \/ \E s \in Slots, v \in UserData : UserWrite(s, v)

Spec == Init /\ [][Next]_vars

-----------------------------------------------------------------------------
\* Properties

Words == Slots \cup {NULL} \cup UserData

\* The shape of the state.  Its one deep conjunct is that head_ and every
\* old_head are always a slot or nullptr: the word a stalled allocate() reads
\* out of a slot that has meanwhile become somebody's object never gets into
\* head_, where the next allocate() would dereference it.
TypeOK ==
  /\ head \in [ptr : Slots \cup {NULL}, tag : 0 .. MaxTag]
  /\ next \in [Slots -> Words]
  /\ pc \in [Threads -> {"idle"} \cup AllocLabels \cup FreeLabels]
  /\ old \in [Threads -> [ptr : Slots \cup {NULL}, tag : 0 .. MaxTag]]
  /\ new \in [Threads -> [ptr : Words, tag : Nat]]
  /\ node \in [Threads -> Slots \cup {NULL}]
  /\ held \subseteq Slots

\* Conservation: at every moment, however the calls interleave, the slots
\* nobody has are exactly those linked from head_, once each.  No slot is lost,
\* none is on the list while a caller has it, and the list has no cycle.
FreeListIntact == Linked(head.ptr, next, held \cup InTransit)

\* The ABA problem (the comment on TaggedPointer): a thread whose
\* compare-and-swap would succeed now is about to install a link that is
\* correct now, although it was read at some earlier time.
NoStaleSwap ==
  \A t \in Threads :
    /\ pc[t] = "alloc_cas" /\ head = old[t] => new[t].ptr = next[old[t].ptr]
    /\ pc[t] = "free_cas" /\ head = old[t] => next[node[t]] = head.ptr

\* allocate() never returns a slot that a caller still has, or that a caller
\* is in the middle of giving back.
NoDoubleAllocation ==
  [][\A t \in Threads :
       pc[t] = "alloc_cas" /\ pc'[t] = "idle"
         => old[t].ptr \notin held \cup InTransit]_vars

\* The pool never writes a slot while it is handed out: a step of allocate()
\* or deallocate() leaves the first word of every held slot alone.
HandedOutUntouched ==
  [][pc' # pc => \A s \in held \cap held' : next'[s] = next[s]]_vars

\* The lock-free pool implements ObjectPool: a call takes effect at its
\* successful compare-and-swap, or at the load that finds the stack empty.
Abstract == INSTANCE ObjectPool WITH
  free <- Slots \ (held \cup InTransit),
  call <- [t \in Threads |->
             [op   |-> IF pc[t] \in AllocLabels THEN "allocate"
                       ELSE IF pc[t] \in FreeLabels THEN "deallocate" ELSE "none",
              slot |-> node[t]]]

RefinesObjectPool == Abstract!Spec

-----------------------------------------------------------------------------
\* The inductive invariant of LockFreePoolProofs

\* A slot on its way back is in the hands of one call only.
TransitOK ==
  /\ \A t \in Threads : pc[t] \in FreeLabels => node[t] \in Slots \ held
  /\ \A t \in Threads : pc[t] \notin FreeLabels => node[t] = NULL
  /\ \A t, u \in Threads :
       pc[t] \in FreeLabels /\ pc[u] \in FreeLabels /\ node[t] = node[u] => t = u

\* The tags: a call that has read head_ has read no tag above the present one,
\* and the same tag means that head_ has not changed since.
TagsOK ==
  \A t \in Threads : pc[t] \in {"alloc_next", "alloc_cas", "free_link", "free_cas"} =>
    /\ old[t].tag <= head.tag
    /\ old[t].tag = head.tag => old[t].ptr = head.ptr

\* What a call is about to install is right as long as head_ has not changed.
PreparedOK ==
  \A t \in Threads :
    /\ pc[t] \in {"alloc_next", "alloc_cas"} => old[t].ptr \in Slots
    /\ pc[t] = "alloc_cas" =>
         /\ new[t].tag = old[t].tag + 1
         /\ old[t].tag = head.tag => new[t].ptr = next[old[t].ptr]
    /\ pc[t] = "free_cas" =>
         /\ new[t] = [ptr |-> node[t], tag |-> old[t].tag + 1]
         /\ next[node[t]] = old[t].ptr

\* What holds in every state and is kept by every step.
IInv == TypeOK /\ TransitOK /\ TagsOK /\ PreparedOK /\ FreeListIntact
=============================================================================
