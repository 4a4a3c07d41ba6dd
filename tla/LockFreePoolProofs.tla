------------------------- MODULE LockFreePoolProofs -------------------------
(***************************************************************************)
(* Proofs about LockFreePool, for any set of threads, any capacity, any    *)
(* contents a holder may leave in its slot and any bound on the tag.       *)
(*                                                                         *)
(* The argument is that of the tag: head_ changes only by a swap, a swap   *)
(* makes the tag larger, and so a call that still sees the tag it has read *)
(* knows that head_ has not changed at all in between.  Then the slot on   *)
(* top was free all the time, nobody wrote its link, and the link the call *)
(* has read, perhaps long ago, is still the link.  IInv says this and that *)
(* the free list is intact, and every step keeps it.                       *)
(***************************************************************************)
EXTENDS LockFreePool, SlotListProofs

-----------------------------------------------------------------------------
\* The sets of the module.

\* What it is to be on the way back.
LEMMA InTransitDef ==
  \A s : s \in InTransit <=> \E t \in Threads : pc[t] \in FreeLabels /\ node[t] = s
BY DEF InTransit

-----------------------------------------------------------------------------
\* The free list.

\* The slot on top of the free list is nobody's.
LEMMA TopIsFree ==
  ASSUME FreeListIntact, head.ptr # NULL
  PROVE  head.ptr \in Slots /\ head.ptr \notin held \cup InTransit
BY ListTop DEF FreeListIntact

\* A step that changes neither head_ nor the set of slots somebody has, nor the
\* link of any other slot, leaves the free list as it is.
LEMMA FreeListFrame ==
  ASSUME FreeListIntact,
         head'.ptr = head.ptr,
         \A s \in Slots : s \in held' \cup InTransit' <=> s \in held \cup InTransit,
         \A s \in Slots \ (held \cup InTransit) : next'[s] = next[s]
  PROVE  FreeListIntact'
BY ListFrame DEF FreeListIntact

\* Popping the top.
LEMMA FreeListPop ==
  ASSUME FreeListIntact,
         head.ptr # NULL,
         head'.ptr = next[head.ptr],
         \A s \in Slots : s \in held' \cup InTransit' <=>
                            s = head.ptr \/ s \in held \cup InTransit,
         next' = next
  PROVE  FreeListIntact'
BY ListPop DEF FreeListIntact

\* Pushing a slot that somebody had.
LEMMA FreeListPush ==
  ASSUME FreeListIntact,
         NEW x \in Slots, x \in held \cup InTransit,
         head'.ptr = x,
         next[x] = head.ptr,
         \A s \in Slots : s \in held' \cup InTransit' <=>
                            s # x /\ s \in held \cup InTransit,
         next' = next
  PROVE  FreeListIntact'
BY ListPush DEF FreeListIntact

-----------------------------------------------------------------------------
\* The inductive invariant holds at first.
LEMMA InitInv == Init => IInv
<1>. SUFFICES ASSUME Init PROVE IInv
  OBVIOUS
<1>1. TypeOK
  BY PoolAssumption, SlotListAssumption
  DEF Init, TypeOK, InitialLink, Slots, Words, Nil, AllocLabels, FreeLabels
<1>2. TransitOK /\ TagsOK /\ PreparedOK
  BY DEF Init, TransitOK, TagsOK, PreparedOK, FreeLabels
<1>3. InTransit = {} /\ held = {}
  BY InTransitDef DEF Init, FreeLabels
<1>4. FreeListIntact
  <2>1. \A s \in Slots : next[s] = InitialLink(s)
    BY DEF Init
  <2>2. held \cup InTransit = {} /\ head.ptr = 1
    BY <1>3 DEF Init
  <2>3. QED BY <2>1, <2>2, ListInit DEF FreeListIntact
<1>5. QED BY <1>1, <1>2, <1>4 DEF IInv

-----------------------------------------------------------------------------
\* How the steps move slots in and out of transit.

LEMMA InTransitDefNext ==
  \A s : s \in InTransit' <=> \E t \in Threads : pc'[t] \in FreeLabels /\ node'[t] = s
BY DEF InTransit

\* A step that starts and ends no deallocate().
LEMMA TransitSame ==
  ASSUME \A t \in Threads :
           /\ pc'[t] \in FreeLabels <=> pc[t] \in FreeLabels
           /\ pc[t] \in FreeLabels => node'[t] = node[t]
  PROVE  \A s : s \in InTransit' <=> s \in InTransit
BY InTransitDef, InTransitDefNext

\* A step that changes no slot, no owner and not head_ keeps the free list.
LEMMA FreeListQuiet ==
  ASSUME FreeListIntact, UNCHANGED <<head, next, held>>,
         \A t \in Threads :
           /\ pc'[t] \in FreeLabels <=> pc[t] \in FreeLabels
           /\ pc[t] \in FreeLabels => node'[t] = node[t]
  PROVE  FreeListIntact'
BY TransitSame, FreeListFrame

\* A swap within the bound on the tag puts a well-typed word into head_.
LEMMA SwapType ==
  ASSUME TypeOK, NEW t \in Threads, Swap(t), new[t].ptr \in Slots \cup {NULL}
  PROVE  head' \in [ptr : Slots \cup {NULL}, tag : 0 .. MaxTag]
<1>1. new[t] \in [ptr : Words, tag : Nat]
  BY DEF TypeOK
<1>2. new[t] = [ptr |-> new[t].ptr, tag |-> new[t].tag] /\ new[t].tag \in 0 .. MaxTag
  BY <1>1, SlotListAssumption DEF Swap
<1>3. QED BY <1>2 DEF Swap

\* The locals of a call that is over have their types.
LEMMA ReturnType ==
  ASSUME TypeOK, NEW t \in Threads, Return(t)
  PROVE  /\ pc' \in [Threads -> {"idle"} \cup AllocLabels \cup FreeLabels]
         /\ old' \in [Threads -> [ptr : Slots \cup {NULL}, tag : 0 .. MaxTag]]
         /\ new' \in [Threads -> [ptr : Words, tag : Nat]]
         /\ node' \in [Threads -> Slots \cup {NULL}]
<1>1. Nil \in [ptr : Slots \cup {NULL}, tag : 0 .. MaxTag] /\ Nil \in [ptr : Words, tag : Nat]
  BY PoolAssumption DEF Nil, Words
<1>2. QED BY <1>1 DEF TypeOK, Return

-----------------------------------------------------------------------------
\* Each step keeps the inductive invariant.  The steps of allocate():

LEMMA CallAllocateInv ==
  ASSUME IInv, NEW t \in Threads, CallAllocate(t)
  PROVE  IInv'
<1>. USE DEF IInv, CallAllocate
<1>1. TypeOK'
  BY DEF TypeOK, AllocLabels
<1>2. TransitOK' /\ TagsOK' /\ PreparedOK'
  BY DEF TypeOK, TransitOK, TagsOK, PreparedOK, FreeLabels
<1>3. FreeListIntact'
  BY FreeListQuiet DEF TypeOK, FreeLabels
<1>4. QED BY <1>1, <1>2, <1>3

LEMMA AllocLoadInv ==
  ASSUME IInv, NEW t \in Threads, AllocLoad(t)
  PROVE  IInv'
<1>. USE DEF IInv, AllocLoad
<1>1. TypeOK'
  BY DEF TypeOK, AllocLabels
<1>2. TransitOK'
  BY DEF TypeOK, TransitOK, FreeLabels
<1>3. TagsOK' /\ PreparedOK'
  BY DEF TypeOK, TagsOK, PreparedOK
<1>4. FreeListIntact'
  BY FreeListQuiet DEF TypeOK, FreeLabels
<1>5. QED BY <1>1, <1>2, <1>3, <1>4

LEMMA AllocEmptyInv ==
  ASSUME IInv, NEW t \in Threads, AllocEmpty(t)
  PROVE  IInv'
<1>. USE DEF IInv, AllocEmpty, Return
<1>1. TypeOK'
  BY ReturnType DEF TypeOK
<1>2. TransitOK'
  BY DEF TypeOK, TransitOK, FreeLabels
<1>3. TagsOK' /\ PreparedOK'
  BY DEF TypeOK, TagsOK, PreparedOK
<1>4. FreeListIntact'
  BY FreeListQuiet DEF TypeOK, FreeLabels
<1>5. QED BY <1>1, <1>2, <1>3, <1>4

\* Whatever is read here, it is the link if head_ is still what it was.
LEMMA AllocNextInv ==
  ASSUME IInv, NEW t \in Threads, AllocNext(t)
  PROVE  IInv'
<1>. USE DEF IInv, AllocNext
<1>1. TypeOK'
  BY DEF TypeOK, PreparedOK, AllocLabels, IncTag
<1>2. TransitOK'
  BY DEF TypeOK, TransitOK, FreeLabels
<1>3. TagsOK' /\ PreparedOK'
  BY DEF TypeOK, TagsOK, PreparedOK, IncTag
<1>4. FreeListIntact'
  BY FreeListQuiet DEF TypeOK, FreeLabels
<1>5. QED BY <1>1, <1>2, <1>3, <1>4

LEMMA AllocRetryInv ==
  ASSUME IInv, NEW t \in Threads, AllocRetry(t)
  PROVE  IInv'
<1>. USE DEF IInv, AllocRetry
<1>1. TypeOK'
  BY DEF TypeOK, AllocLabels
<1>2. TransitOK' /\ TagsOK' /\ PreparedOK'
  BY DEF TypeOK, TransitOK, TagsOK, PreparedOK, FreeLabels
<1>3. FreeListIntact'
  BY FreeListQuiet DEF TypeOK, FreeLabels
<1>4. QED BY <1>1, <1>2, <1>3

\* The new tag is above every tag a call has read: whoever has prepared a swap
\* has to start again.
LEMMA AllocCasInv ==
  ASSUME IInv, NEW t \in Threads, AllocCas(t)
  PROVE  IInv'
<1>. USE DEF IInv, AllocCas, Swap, Return
<1>1. /\ old[t] = head /\ head.ptr \in Slots /\ head.ptr # NULL
      /\ head' = new[t] /\ head'.ptr = next[head.ptr] /\ head'.tag = head.tag + 1
  BY SlotListAssumption DEF TypeOK, PreparedOK
<1>2. head.ptr \notin held \cup InTransit
  BY <1>1, TopIsFree
<1>3. next[head.ptr] \in Slots \cup {NULL}
  BY <1>1, ListTop DEF FreeListIntact
<1>4. TypeOK'
  BY <1>1, <1>3, SwapType, ReturnType DEF TypeOK
<1>5. TransitOK'
  <2>1. \A u \in Threads : pc[u] \in FreeLabels => node[u] # head.ptr
    BY <1>2, InTransitDef
  <2>2. QED BY <1>1, <2>1 DEF TypeOK, TransitOK, FreeLabels
<1>6. TagsOK'
  BY <1>1 DEF TypeOK, TagsOK
<1>7. PreparedOK'
  BY <1>1 DEF TypeOK, TagsOK, PreparedOK
<1>8. FreeListIntact'
  <2>1. \A s : s \in InTransit' <=> s \in InTransit
    BY TransitSame DEF TypeOK, FreeLabels
  <2>2. QED BY <1>1, <2>1, FreeListPop
<1>9. QED BY <1>4, <1>5, <1>6, <1>7, <1>8

-----------------------------------------------------------------------------
\* The steps of deallocate():

LEMMA CallDeallocateInv ==
  ASSUME IInv, NEW t \in Threads, NEW s \in Slots, CallDeallocate(t, s)
  PROVE  IInv'
<1>. USE DEF IInv, CallDeallocate
<1>1. TypeOK'
  BY DEF TypeOK, FreeLabels
<1>2. TransitOK'
  BY DEF TypeOK, TransitOK, FreeLabels
<1>3. TagsOK' /\ PreparedOK'
  BY DEF TypeOK, TagsOK, PreparedOK
<1>4. FreeListIntact'
  <2>1. \A x : x \in InTransit' <=> x = s \/ x \in InTransit
    BY InTransitDef, InTransitDefNext DEF TypeOK, FreeLabels
  <2>2. \A x : x \in held' \cup InTransit' <=> x \in held \cup InTransit
    BY <2>1
  <2>3. QED BY <2>2, FreeListFrame
<1>5. QED BY <1>1, <1>2, <1>3, <1>4

LEMMA FreeLoadInv ==
  ASSUME IInv, NEW t \in Threads, FreeLoad(t)
  PROVE  IInv'
<1>. USE DEF IInv, FreeLoad
<1>1. TypeOK'
  BY DEF TypeOK, FreeLabels
<1>2. TransitOK'
  BY DEF TypeOK, TransitOK, FreeLabels
<1>3. TagsOK' /\ PreparedOK'
  BY DEF TypeOK, TagsOK, PreparedOK
<1>4. FreeListIntact'
  BY FreeListQuiet DEF TypeOK, FreeLabels
<1>5. QED BY <1>1, <1>2, <1>3, <1>4

\* The link that is written belongs to a slot nobody else is concerned with.
LEMMA FreeLinkInv ==
  ASSUME IInv, NEW t \in Threads, FreeLink(t)
  PROVE  IInv'
<1>. USE DEF IInv, FreeLink
<1>1. /\ node[t] \in Slots \ held /\ node[t] \in InTransit
      /\ \A s \in Slots : s # node[t] => next'[s] = next[s]
      /\ next'[node[t]] = old[t].ptr
  BY InTransitDef DEF TypeOK, TransitOK, FreeLabels
<1>2. TypeOK'
  BY <1>1 DEF TypeOK, FreeLabels, IncTag, Words
<1>3. TransitOK'
  BY DEF TypeOK, TransitOK, FreeLabels
<1>4. TagsOK'
  BY DEF TypeOK, TagsOK
<1>5. head.ptr # NULL => head.ptr # node[t]
  BY <1>1, TopIsFree
<1>6. PreparedOK'
  <2>1. SUFFICES ASSUME NEW u \in Threads
                 PROVE  /\ pc'[u] \in {"alloc_next", "alloc_cas"} => old'[u].ptr \in Slots
                        /\ pc'[u] = "alloc_cas" =>
                             /\ new'[u].tag = old'[u].tag + 1
                             /\ old'[u].tag = head'.tag => new'[u].ptr = next'[old'[u].ptr]
                        /\ pc'[u] = "free_cas" =>
                             /\ new'[u] = [ptr |-> node'[u], tag |-> old'[u].tag + 1]
                             /\ next'[node'[u]] = old'[u].ptr
    BY DEF PreparedOK
  <2>2. CASE u = t
    BY <2>2, <1>1 DEF TypeOK, IncTag
  <2>3. CASE u # t
    <3>1. pc'[u] = pc[u] /\ new'[u] = new[u] /\ old' = old /\ head' = head /\ node' = node
      BY <2>3 DEF TypeOK
    <3>2. pc[u] = "alloc_cas" /\ old[u].tag = head.tag => next'[old[u].ptr] = next[old[u].ptr]
      BY <1>1, <1>5, SlotListAssumption DEF TagsOK, PreparedOK
    <3>3. pc[u] = "free_cas" => next'[node[u]] = next[node[u]]
      BY <2>3, <1>1 DEF TransitOK, FreeLabels
    <3>4. QED BY <3>1, <3>2, <3>3 DEF PreparedOK
  <2>4. QED BY <2>2, <2>3
<1>7. FreeListIntact'
  <2>1. \A s : s \in InTransit' <=> s \in InTransit
    BY TransitSame DEF TypeOK, FreeLabels
  <2>2. \A s \in Slots \ (held \cup InTransit) : next'[s] = next[s]
    BY <1>1
  <2>3. QED BY <2>1, <2>2, FreeListFrame
<1>8. QED BY <1>2, <1>3, <1>4, <1>6, <1>7

LEMMA FreeRetryInv ==
  ASSUME IInv, NEW t \in Threads, FreeRetry(t)
  PROVE  IInv'
<1>. USE DEF IInv, FreeRetry
<1>1. TypeOK'
  BY DEF TypeOK, FreeLabels
<1>2. TransitOK' /\ TagsOK' /\ PreparedOK'
  BY DEF TypeOK, TransitOK, TagsOK, PreparedOK, FreeLabels
<1>3. FreeListIntact'
  BY FreeListQuiet DEF TypeOK, FreeLabels
<1>4. QED BY <1>1, <1>2, <1>3

LEMMA FreeCasInv ==
  ASSUME IInv, NEW t \in Threads, FreeCas(t)
  PROVE  IInv'
<1>. USE DEF IInv, FreeCas, Swap, Return
<1>1. /\ old[t] = head
      /\ node[t] \in Slots /\ node[t] \in InTransit
      /\ head' = new[t] /\ head'.ptr = node[t] /\ head'.tag = head.tag + 1
      /\ next[node[t]] = head.ptr
  BY InTransitDef DEF TypeOK, TransitOK, PreparedOK, FreeLabels
<1>2. TypeOK'
  BY <1>1, SwapType, ReturnType DEF TypeOK
<1>3. TransitOK'
  BY DEF TypeOK, TransitOK, FreeLabels
<1>4. TagsOK'
  BY <1>1 DEF TypeOK, TagsOK
<1>5. PreparedOK'
  BY <1>1 DEF TypeOK, TagsOK, PreparedOK
<1>6. FreeListIntact'
  <2>1. \A s : s \in InTransit' <=> s # node[t] /\ s \in InTransit
    BY <1>1, InTransitDef, InTransitDefNext DEF TypeOK, TransitOK, FreeLabels
  <2>2. node[t] \notin held
    BY DEF TransitOK, FreeLabels
  <2>3. QED BY <1>1, <2>1, <2>2, FreeListPush
<1>7. QED BY <1>2, <1>3, <1>4, <1>5, <1>6

-----------------------------------------------------------------------------
\* The holders' writes: a held slot is not on the free list.
LEMMA UserWriteInv ==
  ASSUME IInv, NEW s \in Slots, NEW v \in UserData, UserWrite(s, v)
  PROVE  IInv'
<1>. USE DEF IInv, UserWrite
<1>1. \A x \in Slots : x # s => next'[x] = next[x]
  BY DEF TypeOK
<1>2. TypeOK'
  BY DEF TypeOK, Words
<1>3. TransitOK' /\ TagsOK'
  BY DEF TransitOK, TagsOK
<1>4. PreparedOK'
  <2>1. head.ptr # NULL => head.ptr # s
    BY TopIsFree
  <2>2. \A u \in Threads : pc[u] = "alloc_cas" /\ old[u].tag = head.tag
                             => next'[old[u].ptr] = next[old[u].ptr]
    BY <1>1, <2>1, SlotListAssumption DEF TagsOK, PreparedOK
  <2>3. \A u \in Threads : pc[u] = "free_cas" => next'[node[u]] = next[node[u]]
    BY <1>1 DEF TransitOK, FreeLabels
  <2>4. QED BY <2>2, <2>3 DEF PreparedOK
<1>5. FreeListIntact'
  <2>1. \A x : x \in InTransit' <=> x \in InTransit
    BY TransitSame
  <2>2. QED BY <1>1, <2>1, FreeListFrame
<1>6. QED BY <1>2, <1>3, <1>4, <1>5

LEMMA StutterInv ==
  ASSUME IInv, UNCHANGED vars
  PROVE  IInv'
<1>. USE DEF IInv, vars
<1>1. TypeOK' /\ TransitOK' /\ TagsOK' /\ PreparedOK'
  BY DEF TypeOK, TransitOK, TagsOK, PreparedOK
<1>2. FreeListIntact'
  BY FreeListQuiet
<1>3. QED BY <1>1, <1>2

LEMMA StepInv == IInv /\ [Next]_vars => IInv'
<1>. SUFFICES ASSUME IInv, [Next]_vars PROVE IInv'
  OBVIOUS
<1>1. CASE UNCHANGED vars
  BY <1>1, StutterInv
<1>2. ASSUME NEW t \in Threads, CallAllocate(t) PROVE IInv'
  BY <1>2, CallAllocateInv
<1>3. ASSUME NEW t \in Threads, NEW s \in Slots, CallDeallocate(t, s) PROVE IInv'
  BY <1>3, CallDeallocateInv
<1>4. ASSUME NEW t \in Threads, Step(t) PROVE IInv'
  BY <1>4, AllocLoadInv, AllocEmptyInv, AllocNextInv, AllocCasInv, AllocRetryInv,
     FreeLoadInv, FreeLinkInv, FreeCasInv, FreeRetryInv DEF Step
<1>5. ASSUME NEW s \in Slots, NEW v \in UserData, UserWrite(s, v) PROVE IInv'
  BY <1>5, UserWriteInv
<1>6. QED BY <1>1, <1>2, <1>3, <1>4, <1>5 DEF Next

-----------------------------------------------------------------------------
\* The theorems

\* The inductive invariant holds in every reachable state.
THEOREM Invariance == Spec => []IInv
<1>1. Init => IInv
  BY InitInv
<1>2. IInv /\ [Next]_vars => IInv'
  BY StepInv
<1>3. QED BY <1>1, <1>2, PTL DEF Spec

\* head_ and every local copy of it are slots or nullptr: the data of an object
\* that a stalled allocate() has read as a link never becomes the top.
THEOREM TypeCorrect == Spec => []TypeOK
<1>1. IInv => TypeOK
  BY DEF IInv
<1>2. QED BY <1>1, Invariance, PTL

\* However the calls interleave, the slots nobody has are exactly those linked
\* from head_, once each.
THEOREM FreeListAlwaysIntact == Spec => []FreeListIntact
<1>1. IInv => FreeListIntact
  BY DEF IInv
<1>2. QED BY <1>1, Invariance, PTL

\* The tag does what it is there for: no swap that would succeed installs a
\* link that is out of date.
THEOREM NoSwapIsStale == Spec => []NoStaleSwap
<1>1. IInv => NoStaleSwap
  BY DEF IInv, NoStaleSwap, TagsOK, PreparedOK, TypeOK
<1>2. QED BY <1>1, Invariance, PTL

\* allocate() never returns a slot that somebody has.
THEOREM NeverAllocatedTwice == Spec => NoDoubleAllocation
<1>. DEFINE A == \A t \in Threads : pc[t] = "alloc_cas" /\ pc'[t] = "idle"
                                      => old[t].ptr \notin held \cup InTransit
<1>1. IInv /\ [Next]_vars => [A]_vars
  <2>. SUFFICES ASSUME IInv, Next, NEW t \in Threads, pc[t] = "alloc_cas", pc'[t] = "idle"
                PROVE  old[t].ptr \notin held \cup InTransit
    OBVIOUS
  <2>. USE DEF IInv
  <2>1. AllocCas(t)
    <3>1. ASSUME NEW u \in Threads, CallAllocate(u) \/ \E s \in Slots : CallDeallocate(u, s)
          PROVE  FALSE
      BY <3>1 DEF TypeOK, CallAllocate, CallDeallocate
    <3>2. ASSUME NEW u \in Threads, Step(u)
          PROVE  u = t
      BY <3>2 DEF Step, TypeOK, Return, AllocLoad, AllocEmpty, AllocNext, AllocCas, AllocRetry,
                  FreeLoad, FreeLink, FreeCas, FreeRetry
    <3>3. Step(t)
      BY <3>1, <3>2 DEF Next, UserWrite
    <3>4. QED
      BY <3>3 DEF Step, TypeOK, AllocLoad, AllocEmpty, AllocNext, AllocRetry,
                  FreeLoad, FreeLink, FreeCas, FreeRetry
  <2>2. old[t] = head /\ head.ptr # NULL
    BY <2>1, SlotListAssumption DEF AllocCas, Swap, PreparedOK
  <2>3. QED BY <2>2, TopIsFree
<1>2. QED BY <1>1, Invariance, PTL DEF Spec, NoDoubleAllocation

\* No step of the pool writes the first word of a slot that is handed out.
THEOREM HeldSlotsAreNotWritten == Spec => HandedOutUntouched
<1>. DEFINE A == pc' # pc => \A s \in held \cap held' : next'[s] = next[s]
<1>1. IInv /\ [Next]_vars => [A]_vars
  <2>. SUFFICES ASSUME IInv, Next, pc' # pc, NEW s \in held, s \in held'
                PROVE  next'[s] = next[s]
    OBVIOUS
  <2>1. ASSUME NEW t \in Threads, FreeLink(t)
        PROVE  next'[s] = next[s]
    BY <2>1 DEF IInv, TypeOK, TransitOK, FreeLink, FreeLabels
  <2>2. ASSUME NEW t \in Threads, Step(t), ~FreeLink(t)
        PROVE  next' = next
    BY <2>2 DEF Step, AllocLoad, AllocEmpty, AllocNext, AllocCas, AllocRetry,
                FreeLoad, FreeCas, FreeRetry
  <2>3. QED BY <2>1, <2>2 DEF Next, CallAllocate, CallDeallocate, UserWrite
<1>2. QED BY <1>1, Invariance, PTL DEF Spec, HandedOutUntouched

-----------------------------------------------------------------------------
\* LockFreePool implements ObjectPool.  The abstract pool's free slots are those
\* neither held nor in transit, and its call of a thread is read off pc and node.

AbstractFree == Slots \ (held \cup InTransit)
AbstractCall == [t \in Threads |->
                   [op   |-> IF pc[t] \in AllocLabels THEN "allocate"
                             ELSE IF pc[t] \in FreeLabels THEN "deallocate" ELSE "none",
                    slot |-> node[t]]]

\* The implementation starts as the abstract pool does.
LEMMA RefinementInit == Init => Abstract!Init
<1>. SUFFICES ASSUME Init PROVE Abstract!Init
  OBVIOUS
<1>1. InTransit = {}
  BY InTransitDef DEF Init, FreeLabels
<1>2. QED BY <1>1 DEF Init, Abstract!Init, Abstract!NoCall, AllocLabels, FreeLabels

\* A step that moves t from label to label of the same call, and nothing else the
\* abstract pool can see, is no step of it.
LEMMA RefinementStutter ==
  ASSUME TypeOK, UNCHANGED <<held, node>>, NEW t \in Threads, NEW label,
         pc' = [pc EXCEPT ![t] = label],
         \/ pc[t] \in AllocLabels /\ label \in AllocLabels
         \/ pc[t] \in FreeLabels /\ label \in FreeLabels
  PROVE  UNCHANGED Abstract!vars
<1>1. \A u \in Threads : /\ pc'[u] \in AllocLabels <=> pc[u] \in AllocLabels
                         /\ pc'[u] \in FreeLabels <=> pc[u] \in FreeLabels
  BY DEF TypeOK, AllocLabels, FreeLabels
<1>2. AbstractCall' = AbstractCall
  BY <1>1 DEF AbstractCall
<1>3. InTransit' = InTransit
  BY <1>1, TransitSame
<1>4. QED BY <1>2, <1>3 DEF Abstract!vars, AbstractCall

\* The stack is empty only when every slot is somebody's.
LEMMA EmptyMeansNone ==
  ASSUME FreeListIntact, head.ptr = NULL
  PROVE  AbstractFree = {}
BY ListEmpty DEF FreeListIntact, AbstractFree

\* Every step of the lock-free pool is a step of the abstract pool, or none.
LEMMA RefinementStep == IInv /\ [Next]_vars => [Abstract!Next]_(Abstract!vars)
<1>. SUFFICES ASSUME IInv, [Next]_vars PROVE Abstract!Next \/ UNCHANGED Abstract!vars
  OBVIOUS
<1>. USE DEF IInv
<1>1. ASSUME NEW t \in Threads, CallAllocate(t)
      PROVE  Abstract!CallAllocate(t)
  <2>1. AbstractCall[t] = Abstract!NoCall
    BY <1>1 DEF AbstractCall, Abstract!NoCall, CallAllocate, TransitOK, AllocLabels, FreeLabels
  <2>2. AbstractCall' = [AbstractCall EXCEPT ![t] = [op |-> "allocate", slot |-> NULL]]
    BY <1>1 DEF AbstractCall, CallAllocate, TypeOK, TransitOK, AllocLabels, FreeLabels
  <2>3. InTransit' = InTransit
    BY <1>1, TransitSame DEF CallAllocate, TypeOK, FreeLabels
  <2>4. QED BY <1>1, <2>1, <2>2, <2>3 DEF Abstract!CallAllocate, AbstractCall, CallAllocate
<1>2. ASSUME NEW t \in Threads, AllocLoad(t) \/ AllocNext(t) \/ AllocRetry(t)
      PROVE  UNCHANGED Abstract!vars
  <2>1. UNCHANGED <<held, node>> /\ pc[t] \in AllocLabels
    BY <1>2 DEF AllocLoad, AllocNext, AllocRetry, AllocLabels
  <2>2. PICK label \in AllocLabels : pc' = [pc EXCEPT ![t] = label]
    BY <1>2 DEF AllocLoad, AllocNext, AllocRetry, AllocLabels
  <2>3. QED BY <2>1, <2>2, RefinementStutter
<1>3. ASSUME NEW t \in Threads, AllocEmpty(t)
      PROVE  Abstract!AllocateFails(t)
  <2>1. AbstractCall[t].op = "allocate"
    BY <1>3 DEF AbstractCall, AllocEmpty, AllocLabels
  <2>2. AbstractCall' = [AbstractCall EXCEPT ![t] = Abstract!NoCall]
    BY <1>3 DEF AbstractCall, AllocEmpty, Return, TypeOK, AllocLabels, FreeLabels, Abstract!NoCall
  <2>3. InTransit' = InTransit /\ held' = held
    BY <1>3, TransitSame DEF AllocEmpty, Return, TypeOK, FreeLabels
  <2>4. AbstractFree = {}
    BY <1>3, EmptyMeansNone DEF AllocEmpty
  <2>5. QED BY <2>1, <2>2, <2>3, <2>4 DEF Abstract!AllocateFails, AbstractCall, AbstractFree
<1>4. ASSUME NEW t \in Threads, AllocCas(t)
      PROVE  Abstract!Allocate(t)
  <2>1. AbstractCall[t].op = "allocate"
    BY <1>4 DEF AbstractCall, AllocCas, AllocLabels
  <2>2. AbstractCall' = [AbstractCall EXCEPT ![t] = Abstract!NoCall]
    BY <1>4 DEF AbstractCall, AllocCas, Return, TypeOK, AllocLabels, FreeLabels, Abstract!NoCall
  <2>3. InTransit' = InTransit /\ held' = held \cup {head.ptr}
    BY <1>4, TransitSame DEF AllocCas, Swap, Return, TypeOK, FreeLabels
  <2>4. head.ptr \in AbstractFree
    BY <1>4, TopIsFree, SlotListAssumption DEF AllocCas, Swap, PreparedOK, AbstractFree
  <2>5. AbstractFree' = AbstractFree \ {head.ptr}
    BY <2>3 DEF AbstractFree
  <2>6. QED BY <2>1, <2>2, <2>3, <2>4, <2>5 DEF Abstract!Allocate, AbstractCall, AbstractFree
<1>5. ASSUME NEW t \in Threads, NEW s \in Slots, CallDeallocate(t, s)
      PROVE  Abstract!CallDeallocate(t, s)
  <2>1. AbstractCall[t] = Abstract!NoCall
    BY <1>5 DEF AbstractCall, Abstract!NoCall, CallDeallocate, TransitOK, AllocLabels, FreeLabels
  <2>2. AbstractCall' = [AbstractCall EXCEPT ![t] = [op |-> "deallocate", slot |-> s]]
    BY <1>5 DEF AbstractCall, CallDeallocate, TypeOK, AllocLabels, FreeLabels
  <2>3. \A x : x \in InTransit' <=> x = s \/ x \in InTransit
    BY <1>5, InTransitDef, InTransitDefNext DEF CallDeallocate, TypeOK, FreeLabels
  <2>4. s \in held /\ held' = held \ {s}
    BY <1>5 DEF CallDeallocate
  <2>5. AbstractFree' = AbstractFree
    BY <2>3, <2>4 DEF AbstractFree
  <2>6. QED BY <2>1, <2>2, <2>4, <2>5 DEF Abstract!CallDeallocate, AbstractCall, AbstractFree
<1>6. ASSUME NEW t \in Threads, FreeLoad(t) \/ FreeLink(t) \/ FreeRetry(t)
      PROVE  UNCHANGED Abstract!vars
  <2>1. UNCHANGED <<held, node>> /\ pc[t] \in FreeLabels
    BY <1>6 DEF FreeLoad, FreeLink, FreeRetry, FreeLabels
  <2>2. PICK label \in FreeLabels : pc' = [pc EXCEPT ![t] = label]
    BY <1>6 DEF FreeLoad, FreeLink, FreeRetry, FreeLabels
  <2>3. QED BY <2>1, <2>2, RefinementStutter
<1>7. ASSUME NEW t \in Threads, FreeCas(t)
      PROVE  Abstract!Deallocate(t)
  <2>1. AbstractCall[t] = [op |-> "deallocate", slot |-> node[t]]
    BY <1>7 DEF AbstractCall, FreeCas, AllocLabels, FreeLabels
  <2>2. AbstractCall' = [AbstractCall EXCEPT ![t] = Abstract!NoCall]
    BY <1>7 DEF AbstractCall, FreeCas, Return, TypeOK, AllocLabels, FreeLabels, Abstract!NoCall
  <2>3. /\ \A x : x \in InTransit' <=> x # node[t] /\ x \in InTransit
        /\ node[t] \in Slots \ held /\ held' = held
    BY <1>7, InTransitDef, InTransitDefNext
    DEF FreeCas, Return, TypeOK, TransitOK, FreeLabels
  <2>4. AbstractFree' = AbstractFree \cup {node[t]}
    BY <2>3 DEF AbstractFree
  <2>5. QED BY <2>1, <2>2, <2>3, <2>4 DEF Abstract!Deallocate, AbstractCall, AbstractFree
<1>8. ASSUME UNCHANGED <<pc, node, held>>
      PROVE  UNCHANGED Abstract!vars
  BY <1>8, TransitSame DEF Abstract!vars, InTransit
<1>9. QED
  BY <1>1, <1>2, <1>3, <1>4, <1>5, <1>6, <1>7, <1>8
  DEF Next, Step, Abstract!Next, UserWrite, vars

\* The lock-free pool is an object pool: each call takes effect at one instant,
\* hands out only what is free, and fails only when nothing is.
THEOREM ImplementsObjectPool == Spec => RefinesObjectPool
<1>1. Init => Abstract!Init
  BY RefinementInit
<1>2. IInv /\ [Next]_vars => [Abstract!Next]_(Abstract!vars)
  BY RefinementStep
<1>3. QED BY <1>1, <1>2, Invariance, PTL DEF Spec, RefinesObjectPool, Abstract!Spec
=============================================================================
