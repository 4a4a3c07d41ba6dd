-------------------------- MODULE MutexPoolProofs --------------------------
(***************************************************************************)
(* Proofs about MutexPool, for any set of threads, any capacity and any    *)
(* contents a holder may leave in its slot.                                *)
(*                                                                         *)
(* The argument is mutual exclusion.  Only the thread inside a critical    *)
(* section touches head_ and the links of the slots nobody has, so what    *)
(* it has read or written a step ago is still there.  In the middle of a   *)
(* critical section the list lacks a slot that no caller has yet, or has   *)
(* one that a caller is still giving back; OffList says which.             *)
(***************************************************************************)
EXTENDS MutexPool, SlotListProofs

-----------------------------------------------------------------------------
\* The sets of the module.

LEMMA InTransitDef ==
  \A s : s \in InTransit <=> \E t \in Threads : pc[t] \in FreeLabels /\ node[t] = s
BY DEF InTransit

LEMMA InTransitDefNext ==
  \A s : s \in InTransit' <=> \E t \in Threads : pc'[t] \in FreeLabels /\ node'[t] = s
BY DEF InTransit

\* Whose slot it is that is off the list.
OffOf(t, s) ==
  \/ pc[t] \in FreeLabels \ {"free_unlock"} /\ node[t] = s
  \/ pc[t] = "alloc_unlock" /\ result[t] = s

LEMMA OffListDef ==
  \A s : s # NULL => (s \in OffList <=> s \in held \/ \E t \in Threads : OffOf(t, s))
BY DEF OffList, OffOf

LEMMA OffListDefNext ==
  \A s : s # NULL => (s \in OffList' <=> s \in held' \/ \E t \in Threads : OffOf(t, s)')
BY DEF OffList, OffOf

\* A step that starts and ends no deallocate().
LEMMA TransitSame ==
  ASSUME \A t \in Threads :
           /\ pc'[t] \in FreeLabels <=> pc[t] \in FreeLabels
           /\ pc[t] \in FreeLabels => node'[t] = node[t]
  PROVE  InTransit' = InTransit
BY InTransitDef, InTransitDefNext

\* A slot that nobody holds, allocates or gives back stays on the list as it is.
LEMMA FreeListFrame ==
  ASSUME FreeListIntact, head' = head,
         \A s \in Slots : s \in OffList' <=> s \in OffList,
         \A s \in Slots \ OffList : next'[s] = next[s]
  PROVE  FreeListIntact'
BY ListFrame DEF FreeListIntact

\* A step of one thread that leaves its slot where it was.
LEMMA FreeListQuiet ==
  ASSUME FreeListIntact, UNCHANGED <<head, next, held>>,
         \A t \in Threads, s \in Slots : OffOf(t, s)' <=> OffOf(t, s)
  PROVE  FreeListIntact'
<1>1. \A s \in Slots : s \in OffList' <=> s \in OffList
  BY OffListDef, OffListDefNext, SlotListAssumption
<1>2. QED BY <1>1, FreeListFrame

\* What is in transit and not pushed yet, or held, is off the list.
LEMMA TopIsFree ==
  ASSUME FreeListIntact, head # NULL
  PROVE  head \in Slots \ OffList /\ next[head] \in Slots \cup {NULL}
BY ListTop DEF FreeListIntact

-----------------------------------------------------------------------------
\* The inductive invariant holds at first.
LEMMA InitInv == Init => IInv
<1>. SUFFICES ASSUME Init PROVE IInv
  OBVIOUS
<1>1. TypeOK
  BY SlotListAssumption DEF Init, TypeOK, InitialLink, Slots, AllocLabels, FreeLabels
<1>2. LockOK /\ TransitOK /\ PreparedOK
  BY MutexPoolAssumption DEF Init, LockOK, TransitOK, PreparedOK, FreeLabels
<1>3. FreeListIntact
  <2>1. OffList = {}
    BY DEF Init, OffList, FreeLabels
  <2>2. \A s \in Slots : next[s] = InitialLink(s)
    BY DEF Init
  <2>3. head = 1
    BY DEF Init
  <2>4. QED BY <2>1, <2>2, <2>3, ListInit DEF FreeListIntact
<1>4. QED BY <1>1, <1>2, <1>3 DEF IInv

-----------------------------------------------------------------------------
\* Each step keeps the inductive invariant.  The steps of allocate():

LEMMA CallAllocateInv ==
  ASSUME IInv, NEW t \in Threads, CallAllocate(t)
  PROVE  IInv'
<1>. USE DEF IInv, CallAllocate, Goto
<1>1. TypeOK' /\ LockOK'
  BY DEF TypeOK, LockOK, AllocLabels
<1>2. TransitOK'
  BY DEF TypeOK, TransitOK, FreeLabels
<1>3. InTransit' = InTransit
  BY TransitSame DEF TypeOK, FreeLabels
<1>4. PreparedOK'
  BY <1>3 DEF TypeOK, PreparedOK
<1>5. FreeListIntact'
  BY FreeListQuiet DEF TypeOK, OffOf, FreeLabels
<1>6. QED BY <1>1, <1>2, <1>4, <1>5

LEMMA AllocLockInv ==
  ASSUME IInv, NEW t \in Threads, AllocLock(t)
  PROVE  IInv'
<1>. USE DEF IInv, AllocLock, Lock, Goto
<1>1. TypeOK' /\ LockOK'
  BY MutexPoolAssumption DEF TypeOK, LockOK, AllocLabels
<1>2. TransitOK'
  BY DEF TypeOK, TransitOK, FreeLabels
<1>3. InTransit' = InTransit
  BY TransitSame DEF TypeOK, FreeLabels
<1>4. PreparedOK'
  BY <1>3 DEF TypeOK, PreparedOK
<1>5. FreeListIntact'
  BY FreeListQuiet DEF TypeOK, OffOf, FreeLabels
<1>6. QED BY <1>1, <1>2, <1>4, <1>5

LEMMA AllocEmptyInv ==
  ASSUME IInv, NEW t \in Threads, AllocEmpty(t)
  PROVE  IInv'
<1>. USE DEF IInv, AllocEmpty, Goto
<1>1. TypeOK' /\ LockOK'
  BY DEF TypeOK, LockOK, AllocLabels
<1>2. TransitOK'
  BY DEF TypeOK, TransitOK, FreeLabels
<1>3. InTransit' = InTransit
  BY TransitSame DEF TypeOK, FreeLabels
<1>4. PreparedOK'
  BY <1>3 DEF TypeOK, TransitOK, PreparedOK
<1>5. FreeListIntact'
  BY FreeListQuiet, SlotListAssumption DEF TypeOK, TransitOK, OffOf, FreeLabels
<1>6. QED BY <1>1, <1>2, <1>4, <1>5

LEMMA AllocTakeInv ==
  ASSUME IInv, NEW t \in Threads, AllocTake(t)
  PROVE  IInv'
<1>. USE DEF IInv, AllocTake, Goto
<1>1. TypeOK' /\ LockOK'
  BY DEF TypeOK, LockOK, AllocLabels
<1>2. TransitOK'
  BY DEF TypeOK, TransitOK, FreeLabels
<1>3. InTransit' = InTransit
  BY TransitSame DEF TypeOK, FreeLabels
<1>4. PreparedOK'
  BY <1>3 DEF TypeOK, PreparedOK
<1>5. FreeListIntact'
  BY FreeListQuiet DEF TypeOK, OffOf, FreeLabels
<1>6. QED BY <1>1, <1>2, <1>4, <1>5

\* While t is inside, no deallocate() has pushed its slot and not returned yet:
\* what is off the list is what somebody has.
LEMMA AllocNextInv ==
  ASSUME IInv, NEW t \in Threads, AllocNext(t)
  PROVE  IInv'
<1>. USE DEF IInv, AllocNext, Goto
<1>1. head # NULL /\ result[t] = head
  BY DEF PreparedOK
<1>2. head \in Slots \ OffList /\ next[head] \in Slots \cup {NULL}
  BY <1>1, TopIsFree
<1>3. \A u \in Threads : pc[u] \in {"alloc_check", "alloc_next", "alloc_unlock",
                                    "free_link", "free_push", "free_unlock"} => u = t
  BY DEF LockOK
<1>4. TypeOK' /\ LockOK'
  BY <1>2 DEF TypeOK, LockOK, AllocLabels
<1>5. TransitOK'
  BY DEF TypeOK, TransitOK, FreeLabels
<1>6. InTransit' = InTransit
  BY TransitSame DEF TypeOK, FreeLabels
<1>7. head \notin held \cup InTransit
  BY <1>2, <1>3, InTransitDef, OffListDef, SlotListAssumption DEF OffOf, FreeLabels
<1>8. PreparedOK'
  BY <1>1, <1>3, <1>6, <1>7 DEF TypeOK, PreparedOK
<1>9. FreeListIntact'
  <2>1. \A u \in Threads, s \in Slots : OffOf(u, s)' <=> OffOf(u, s) \/ (u = t /\ s = head)
    BY <1>1 DEF TypeOK, OffOf, FreeLabels
  <2>2. \A s \in Slots : s \in OffList' <=> s = head \/ s \in OffList
    BY <2>1, OffListDef, OffListDefNext, SlotListAssumption
  <2>3. QED BY <1>1, <2>2, ListPop DEF FreeListIntact
<1>10. QED BY <1>4, <1>5, <1>8, <1>9

LEMMA AllocReturnInv ==
  ASSUME IInv, NEW t \in Threads, AllocReturn(t)
  PROVE  IInv'
<1>. USE DEF IInv, AllocReturn, Unlock, Goto
<1>1. \A u \in Threads : pc[u] \in {"alloc_check", "alloc_next", "alloc_unlock",
                                    "free_link", "free_push", "free_unlock"} => u = t
  BY DEF LockOK
<1>2. TypeOK' /\ LockOK'
  BY <1>1, MutexPoolAssumption DEF TypeOK, LockOK
<1>3. InTransit' = InTransit
  BY TransitSame DEF TypeOK, FreeLabels
<1>4. TransitOK'
  <2>1. \A u \in Threads : pc[u] \in FreeLabels /\ result[t] # NULL => node[u] # result[t]
    BY InTransitDef DEF PreparedOK
  <2>2. QED BY <2>1 DEF TypeOK, TransitOK, FreeLabels
<1>5. PreparedOK'
  BY <1>1 DEF TypeOK, PreparedOK
<1>6. FreeListIntact'
  <2>1. \A u \in Threads, s \in Slots : OffOf(u, s) <=> OffOf(u, s)' \/ (u = t /\ s = result[t])
    BY SlotListAssumption DEF TypeOK, OffOf, FreeLabels
  <2>2. \A s \in Slots : s \in OffList' <=> s \in OffList
    BY <2>1, OffListDef, OffListDefNext, SlotListAssumption
  <2>3. QED BY <2>2, FreeListFrame
<1>7. QED BY <1>2, <1>4, <1>5, <1>6

-----------------------------------------------------------------------------
\* The steps of deallocate():

LEMMA CallDeallocateInv ==
  ASSUME IInv, NEW t \in Threads, NEW x \in Slots, CallDeallocate(t, x)
  PROVE  IInv'
<1>. USE DEF IInv, CallDeallocate, Goto
<1>1. TypeOK' /\ LockOK'
  BY DEF TypeOK, LockOK, FreeLabels
<1>2. TransitOK'
  BY DEF TypeOK, TransitOK, FreeLabels
<1>3. \A s : s \in InTransit' <=> s = x \/ s \in InTransit
  BY InTransitDef, InTransitDefNext DEF TypeOK, FreeLabels
<1>4. PreparedOK'
  BY <1>3 DEF TypeOK, PreparedOK
<1>5. FreeListIntact'
  <2>1. \A u \in Threads, s \in Slots : OffOf(u, s)' <=> OffOf(u, s) \/ (u = t /\ s = x)
    BY DEF TypeOK, OffOf, FreeLabels
  <2>2. \A s \in Slots : s \in OffList' <=> s \in OffList
    BY <2>1, OffListDef, OffListDefNext, SlotListAssumption
  <2>3. QED BY <2>2, FreeListFrame
<1>6. QED BY <1>1, <1>2, <1>4, <1>5

LEMMA FreeLockInv ==
  ASSUME IInv, NEW t \in Threads, FreeLock(t)
  PROVE  IInv'
<1>. USE DEF IInv, FreeLock, Lock, Goto
<1>1. TypeOK' /\ LockOK'
  BY MutexPoolAssumption DEF TypeOK, LockOK, FreeLabels
<1>2. TransitOK'
  BY DEF TypeOK, TransitOK, FreeLabels
<1>3. InTransit' = InTransit
  BY TransitSame DEF TypeOK, FreeLabels
<1>4. PreparedOK'
  BY <1>3 DEF TypeOK, PreparedOK
<1>5. FreeListIntact'
  BY FreeListQuiet DEF TypeOK, OffOf, FreeLabels
<1>6. QED BY <1>1, <1>2, <1>4, <1>5

\* The slot is off the list while its link is written.
LEMMA FreeLinkInv ==
  ASSUME IInv, NEW t \in Threads, FreeLink(t)
  PROVE  IInv'
<1>. USE DEF IInv, FreeLink, Goto
<1>1. node[t] \in Slots /\ node[t] \in OffList
  BY OffListDef, SlotListAssumption DEF TransitOK, OffOf, FreeLabels
<1>2. TypeOK' /\ LockOK'
  BY DEF TypeOK, LockOK, FreeLabels
<1>3. TransitOK'
  BY DEF TypeOK, TransitOK, FreeLabels
<1>4. InTransit' = InTransit
  BY TransitSame DEF TypeOK, FreeLabels
<1>5. PreparedOK'
  <2>1. \A u \in Threads : u # t => pc[u] # "free_push"
    BY DEF LockOK
  <2>2. QED BY <1>1, <1>4, <2>1 DEF TypeOK, PreparedOK
<1>6. FreeListIntact'
  <2>1. \A u \in Threads, s \in Slots : OffOf(u, s)' <=> OffOf(u, s)
    BY DEF TypeOK, OffOf, FreeLabels
  <2>2. \A s \in Slots : s \in OffList' <=> s \in OffList
    BY <2>1, OffListDef, OffListDefNext, SlotListAssumption
  <2>3. \A s \in Slots \ OffList : next'[s] = next[s]
    BY <1>1 DEF TypeOK
  <2>4. QED BY <2>2, <2>3, FreeListFrame
<1>7. QED BY <1>2, <1>3, <1>5, <1>6

LEMMA FreePushInv ==
  ASSUME IInv, NEW t \in Threads, FreePush(t)
  PROVE  IInv'
<1>. USE DEF IInv, FreePush, Goto
<1>1. \A u \in Threads : pc[u] \in {"alloc_check", "alloc_next", "alloc_unlock",
                                    "free_link", "free_push", "free_unlock"} => u = t
  BY DEF LockOK
<1>2. node[t] \in Slots \ held /\ next[node[t]] = head /\ node[t] \in OffList
  BY OffListDef, SlotListAssumption DEF TransitOK, PreparedOK, OffOf, FreeLabels
<1>3. TypeOK' /\ LockOK'
  BY <1>2 DEF TypeOK, LockOK, FreeLabels
<1>4. TransitOK'
  BY DEF TypeOK, TransitOK, FreeLabels
<1>5. InTransit' = InTransit
  BY TransitSame DEF TypeOK, FreeLabels
<1>6. PreparedOK'
  BY <1>1, <1>5 DEF TypeOK, PreparedOK
<1>7. FreeListIntact'
  <2>1. \A u \in Threads, s \in Slots : OffOf(u, s)' <=> OffOf(u, s) /\ s # node[t]
    BY <1>1 DEF TypeOK, TransitOK, OffOf, FreeLabels
  <2>2. \A s \in Slots : s \in OffList' <=> s # node[t] /\ s \in OffList
    BY <1>2, <2>1, OffListDef, OffListDefNext, SlotListAssumption
  <2>3. QED BY <1>2, <2>2, ListPush DEF FreeListIntact
<1>8. QED BY <1>3, <1>4, <1>6, <1>7

LEMMA FreeReturnInv ==
  ASSUME IInv, NEW t \in Threads, FreeReturn(t)
  PROVE  IInv'
<1>. USE DEF IInv, FreeReturn, Unlock, Goto
<1>1. \A u \in Threads : pc[u] \in {"alloc_check", "alloc_next", "alloc_unlock",
                                    "free_link", "free_push", "free_unlock"} => u = t
  BY DEF LockOK
<1>2. TypeOK' /\ LockOK'
  BY <1>1, MutexPoolAssumption DEF TypeOK, LockOK
<1>3. TransitOK'
  BY DEF TypeOK, TransitOK, FreeLabels
<1>4. PreparedOK'
  BY <1>1 DEF TypeOK, PreparedOK
<1>5. FreeListIntact'
  BY FreeListQuiet DEF TypeOK, OffOf, FreeLabels
<1>6. QED BY <1>2, <1>3, <1>4, <1>5

-----------------------------------------------------------------------------
\* The holders' writes: a held slot is not on the free list, and nobody who is
\* about to push it.
LEMMA UserWriteInv ==
  ASSUME IInv, NEW x \in Slots, NEW v \in UserData, UserWrite(x, v)
  PROVE  IInv'
<1>. USE DEF IInv, UserWrite
<1>1. \A s \in Slots : s # x => next'[s] = next[s]
  BY DEF TypeOK
<1>2. TypeOK' /\ LockOK' /\ TransitOK'
  BY DEF TypeOK, LockOK, TransitOK
<1>3. InTransit' = InTransit
  BY TransitSame
<1>4. PreparedOK'
  BY <1>1, <1>3 DEF PreparedOK, TransitOK, FreeLabels
<1>5. FreeListIntact'
  <2>1. \A s \in Slots : s \in OffList' <=> s \in OffList
    BY OffListDef, OffListDefNext, SlotListAssumption DEF OffOf
  <2>2. x \in OffList
    BY OffListDef, SlotListAssumption
  <2>3. QED BY <1>1, <2>1, <2>2, FreeListFrame
<1>6. QED BY <1>2, <1>4, <1>5

LEMMA StutterInv ==
  ASSUME IInv, UNCHANGED vars
  PROVE  IInv'
<1>. USE DEF IInv, vars
<1>1. TypeOK' /\ LockOK' /\ TransitOK'
  BY DEF TypeOK, LockOK, TransitOK
<1>2. InTransit' = InTransit
  BY TransitSame
<1>3. PreparedOK'
  BY <1>2 DEF PreparedOK
<1>4. FreeListIntact'
  BY FreeListQuiet DEF OffOf
<1>5. QED BY <1>1, <1>3, <1>4

LEMMA StepInv == IInv /\ [Next]_vars => IInv'
<1>. SUFFICES ASSUME IInv, [Next]_vars PROVE IInv'
  OBVIOUS
<1>1. CASE UNCHANGED vars
  BY <1>1, StutterInv
<1>2. ASSUME NEW t \in Threads, CallAllocate(t) PROVE IInv'
  BY <1>2, CallAllocateInv
<1>3. ASSUME NEW t \in Threads, NEW s \in Slots, CallDeallocate(t, s) PROVE IInv'
  BY <1>3, CallDeallocateInv
<1>4. ASSUME NEW t \in Threads, Step(t) PROVE IInv'
  BY <1>4, AllocLockInv, AllocEmptyInv, AllocTakeInv, AllocNextInv, AllocReturnInv,
     FreeLockInv, FreeLinkInv, FreePushInv, FreeReturnInv DEF Step
<1>5. ASSUME NEW s \in Slots, NEW v \in UserData, UserWrite(s, v) PROVE IInv'
  BY <1>5, UserWriteInv
<1>6. QED BY <1>1, <1>2, <1>3, <1>4, <1>5 DEF Next

-----------------------------------------------------------------------------
\* The theorems

\* The inductive invariant holds in every reachable state.
THEOREM Invariance == Spec => []IInv
<1>1. Init => IInv
  BY InitInv
<1>2. IInv /\ [Next]_vars => IInv'
  BY StepInv
<1>3. QED BY <1>1, <1>2, PTL DEF Spec

\* head_ is always a slot or nullptr: what holders write never becomes the top.
THEOREM TypeCorrect == Spec => []TypeOK
<1>1. IInv => TypeOK
  BY DEF IInv
<1>2. QED BY <1>1, Invariance, PTL

\* With nobody inside, no slot is half pushed or half popped.
LEMMA OffListUnlocked ==
  ASSUME IInv, mutex = NULL
  PROVE  \A s \in Slots : s \in OffList <=> s \in held \cup InTransit
<1>1. \A t \in Threads : pc[t] \notin {"alloc_unlock", "free_unlock"}
  BY MutexPoolAssumption DEF IInv, LockOK
<1>2. QED BY <1>1, OffListDef, InTransitDef, SlotListAssumption DEF OffOf, FreeLabels

\* Between the critical sections the slots nobody has are exactly those linked
\* from head_, once each.
THEOREM FreeListIntactWhenUnlocked == Spec => []FreeListWhenUnlocked
<1>1. ASSUME IInv PROVE FreeListWhenUnlocked
  <2>. SUFFICES ASSUME mutex = NULL PROVE Linked(head, next, held \cup InTransit)
    BY DEF FreeListWhenUnlocked
  <2>1. QED BY <1>1, OffListUnlocked, ListFrame DEF IInv, FreeListIntact
<1>2. QED BY <1>1, Invariance, PTL

\* No step of the pool writes the first word of a slot that is handed out.
THEOREM HeldSlotsAreNotWritten == Spec => HandedOutUntouched
<1>. DEFINE A == pc' # pc => \A s \in held \cap held' : next'[s] = next[s]
<1>1. IInv /\ [Next]_vars => [A]_vars
  <2>. SUFFICES ASSUME IInv, Next, pc' # pc, NEW s \in held, s \in held'
                PROVE  next'[s] = next[s]
    OBVIOUS
  <2>1. ASSUME NEW t \in Threads, FreeLink(t)
        PROVE  next'[s] = next[s]
    BY <2>1 DEF IInv, TypeOK, TransitOK, FreeLink, FreeLabels
  <2>2. ASSUME NEW t \in Threads, Step(t), ~FreeLink(t)
        PROVE  next' = next
    BY <2>2 DEF Step, AllocLock, AllocEmpty, AllocTake, AllocNext, AllocReturn,
                FreeLock, FreePush, FreeReturn
  <2>3. QED BY <2>1, <2>2 DEF Next, CallAllocate, CallDeallocate, UserWrite
<1>2. QED BY <1>1, Invariance, PTL DEF Spec, HandedOutUntouched

-----------------------------------------------------------------------------
\* MutexPool implements ObjectPool: a call takes effect when it unlocks, and
\* whatever happens before is a stutter.

AbstractFree == Slots \ (held \cup InTransit)
AbstractCall == [t \in Threads |->
                   [op   |-> IF pc[t] \in AllocLabels THEN "allocate"
                             ELSE IF pc[t] \in FreeLabels THEN "deallocate" ELSE "none",
                    slot |-> node[t]]]

\* The implementation starts as the abstract pool does.
LEMMA RefinementInit == Init => Abstract!Init
<1>. SUFFICES ASSUME Init PROVE Abstract!Init
  OBVIOUS
<1>1. InTransit = {}
  BY InTransitDef DEF Init, FreeLabels
<1>2. QED BY <1>1 DEF Init, Abstract!Init, Abstract!NoCall, AllocLabels, FreeLabels

\* A step that moves t from label to label of the same call, and nothing else the
\* abstract pool can see, is no step of it.
LEMMA RefinementStutter ==
  ASSUME TypeOK, UNCHANGED <<held, node>>, NEW t \in Threads, NEW label,
         pc' = [pc EXCEPT ![t] = label],
         \/ pc[t] \in AllocLabels /\ label \in AllocLabels
         \/ pc[t] \in FreeLabels /\ label \in FreeLabels
  PROVE  UNCHANGED Abstract!vars
<1>1. \A u \in Threads : /\ pc'[u] \in AllocLabels <=> pc[u] \in AllocLabels
                         /\ pc'[u] \in FreeLabels <=> pc[u] \in FreeLabels
  BY DEF TypeOK, AllocLabels, FreeLabels
<1>2. AbstractCall' = AbstractCall
  BY <1>1 DEF AbstractCall
<1>3. InTransit' = InTransit
  BY <1>1, TransitSame
<1>4. QED BY <1>2, <1>3 DEF Abstract!vars, AbstractCall

\* The call of t is over.
LEMMA CallEnds ==
  ASSUME TypeOK, TransitOK, NEW t \in Threads, pc' = [pc EXCEPT ![t] = "idle"],
         node' = [node EXCEPT ![t] = NULL]
  PROVE  AbstractCall' = [AbstractCall EXCEPT ![t] = Abstract!NoCall]
BY DEF AbstractCall, TypeOK, AllocLabels, FreeLabels, Abstract!NoCall

\* What allocate() returns is free, and nullptr only if nothing is.
LEMMA AllocReturnRefines ==
  ASSUME IInv, NEW t \in Threads, AllocReturn(t)
  PROVE  Abstract!Allocate(t) \/ Abstract!AllocateFails(t)
<1>. USE DEF IInv, AllocReturn, Unlock, Goto
<1>1. AbstractCall[t].op = "allocate"
  BY DEF AbstractCall, AllocLabels
<1>2. node[t] = NULL
  BY DEF TransitOK, FreeLabels
<1>3. AbstractCall' = [AbstractCall EXCEPT ![t] = Abstract!NoCall]
  <2>1. node' = [node EXCEPT ![t] = NULL]
    BY <1>2 DEF TypeOK
  <2>2. QED BY <2>1, CallEnds
<1>4. InTransit' = InTransit
  BY TransitSame DEF TypeOK, FreeLabels
<1>5. CASE result[t] = NULL
  <2>1. held' = held
    BY <1>5
  <2>2. \A u \in Threads : pc[u] = "alloc_unlock" \/ pc[u] = "free_unlock" => u = t
    BY DEF LockOK
  <2>3. Slots \subseteq OffList
    BY <1>5, ListEmpty DEF PreparedOK, FreeListIntact
  <2>4. \A s \in Slots : s \in OffList => s \in held \cup InTransit
    BY <1>5, <2>2, OffListDef, InTransitDef, SlotListAssumption DEF OffOf, FreeLabels
  <2>5. AbstractFree = {}
    BY <2>3, <2>4 DEF AbstractFree
  <2>6. QED BY <1>1, <1>3, <1>4, <2>1, <2>5 DEF Abstract!AllocateFails, AbstractCall, AbstractFree
<1>6. CASE result[t] # NULL
  <2>1. held' = held \cup {result[t]}
    BY <1>6
  <2>2. result[t] \in AbstractFree
    BY <1>6 DEF TypeOK, PreparedOK, AbstractFree
  <2>3. AbstractFree' = AbstractFree \ {result[t]}
    BY <1>4, <2>1 DEF AbstractFree
  <2>4. QED BY <1>1, <1>3, <2>1, <2>2, <2>3 DEF Abstract!Allocate, AbstractCall, AbstractFree
<1>7. QED BY <1>5, <1>6

\* Every step of the mutex pool is a step of the abstract pool, or none.
LEMMA RefinementStep == IInv /\ [Next]_vars => [Abstract!Next]_(Abstract!vars)
<1>. SUFFICES ASSUME IInv, [Next]_vars PROVE Abstract!Next \/ UNCHANGED Abstract!vars
  OBVIOUS
<1>. USE DEF IInv, Goto
<1>1. ASSUME NEW t \in Threads, CallAllocate(t)
      PROVE  Abstract!CallAllocate(t)
  <2>1. AbstractCall[t] = Abstract!NoCall
    BY <1>1 DEF AbstractCall, Abstract!NoCall, CallAllocate, TransitOK, AllocLabels, FreeLabels
  <2>2. AbstractCall' = [AbstractCall EXCEPT ![t] = [op |-> "allocate", slot |-> NULL]]
    BY <1>1 DEF AbstractCall, CallAllocate, TypeOK, TransitOK, AllocLabels, FreeLabels
  <2>3. InTransit' = InTransit
    BY <1>1, TransitSame DEF CallAllocate, TypeOK, FreeLabels
  <2>4. QED BY <1>1, <2>1, <2>2, <2>3 DEF Abstract!CallAllocate, AbstractCall, CallAllocate
<1>2. ASSUME NEW t \in Threads,
             AllocLock(t) \/ AllocEmpty(t) \/ AllocTake(t) \/ AllocNext(t)
      PROVE  UNCHANGED Abstract!vars
  <2>1. UNCHANGED <<held, node>> /\ pc[t] \in AllocLabels
    BY <1>2 DEF AllocLock, AllocEmpty, AllocTake, AllocNext, AllocLabels
  <2>2. PICK label \in AllocLabels : pc' = [pc EXCEPT ![t] = label]
    BY <1>2 DEF AllocLock, AllocEmpty, AllocTake, AllocNext, AllocLabels
  <2>3. QED BY <2>1, <2>2, RefinementStutter
<1>3. ASSUME NEW t \in Threads, AllocReturn(t)
      PROVE  Abstract!Allocate(t) \/ Abstract!AllocateFails(t)
  BY <1>3, AllocReturnRefines
<1>4. ASSUME NEW t \in Threads, NEW s \in Slots, CallDeallocate(t, s)
      PROVE  Abstract!CallDeallocate(t, s)
  <2>1. AbstractCall[t] = Abstract!NoCall
    BY <1>4 DEF AbstractCall, Abstract!NoCall, CallDeallocate, TransitOK, AllocLabels, FreeLabels
  <2>2. AbstractCall' = [AbstractCall EXCEPT ![t] = [op |-> "deallocate", slot |-> s]]
    BY <1>4 DEF AbstractCall, CallDeallocate, TypeOK, AllocLabels, FreeLabels
  <2>3. \A x : x \in InTransit' <=> x = s \/ x \in InTransit
    BY <1>4, InTransitDef, InTransitDefNext DEF CallDeallocate, TypeOK, FreeLabels
  <2>4. s \in held /\ held' = held \ {s}
    BY <1>4 DEF CallDeallocate
  <2>5. AbstractFree' = AbstractFree
    BY <2>3, <2>4 DEF AbstractFree
  <2>6. QED BY <2>1, <2>2, <2>4, <2>5 DEF Abstract!CallDeallocate, AbstractCall, AbstractFree
<1>5. ASSUME NEW t \in Threads, FreeLock(t) \/ FreeLink(t) \/ FreePush(t)
      PROVE  UNCHANGED Abstract!vars
  <2>1. UNCHANGED <<held, node>> /\ pc[t] \in FreeLabels
    BY <1>5 DEF FreeLock, FreeLink, FreePush, FreeLabels
  <2>2. PICK label \in FreeLabels : pc' = [pc EXCEPT ![t] = label]
    BY <1>5 DEF FreeLock, FreeLink, FreePush, FreeLabels
  <2>3. QED BY <2>1, <2>2, RefinementStutter
<1>6. ASSUME NEW t \in Threads, FreeReturn(t)
      PROVE  Abstract!Deallocate(t)
  <2>1. AbstractCall[t] = [op |-> "deallocate", slot |-> node[t]]
    BY <1>6 DEF AbstractCall, FreeReturn, AllocLabels, FreeLabels
  <2>2. AbstractCall' = [AbstractCall EXCEPT ![t] = Abstract!NoCall]
    BY <1>6, CallEnds DEF FreeReturn
  <2>3. /\ \A x : x \in InTransit' <=> x # node[t] /\ x \in InTransit
        /\ node[t] \in Slots \ held /\ held' = held
    BY <1>6, InTransitDef, InTransitDefNext DEF FreeReturn, TypeOK, TransitOK, FreeLabels
  <2>4. AbstractFree' = AbstractFree \cup {node[t]}
    BY <2>3 DEF AbstractFree
  <2>5. QED BY <2>1, <2>2, <2>3, <2>4 DEF Abstract!Deallocate, AbstractCall, AbstractFree
<1>7. ASSUME UNCHANGED <<pc, node, held>>
      PROVE  UNCHANGED Abstract!vars
  BY <1>7, TransitSame DEF Abstract!vars
<1>8. QED
  BY <1>1, <1>2, <1>3, <1>4, <1>5, <1>6, <1>7
  DEF Next, Step, Abstract!Next, UserWrite, vars

\* The mutex pool is an object pool: each call takes effect at one instant, hands
\* out only what is free, and fails only when nothing is.
THEOREM ImplementsObjectPool == Spec => RefinesObjectPool
<1>1. Init => Abstract!Init
  BY RefinementInit
<1>2. IInv /\ [Next]_vars => [Abstract!Next]_(Abstract!vars)
  BY RefinementStep
<1>3. QED BY <1>1, <1>2, Invariance, PTL DEF Spec, RefinesObjectPool, Abstract!Spec
=============================================================================
