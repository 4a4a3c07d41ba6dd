--------------------------- MODULE PoolTestProofs ---------------------------
(***************************************************************************)
(* Proofs about PoolTest, the program of m_pool.cpp, for any number of     *)
(* workers, any number of allocations each makes, any capacity up to what  *)
(* they ask for together, and with either implementation of the pool.      *)
(*                                                                         *)
(* First what each call does for its caller, whichever pool was built:     *)
(* this is where the invariants of LockFreePoolProofs and MutexPoolProofs  *)
(* are used, and all the program sees of them.  Then the program: who has  *)
(* which slot (OwnersOK), that a worker is turned away only when all slots *)
(* are with the threads (CountsOK), and what main() finds (RecountOK).     *)
(* Last, from the same facts about the calls, that the program runs on an  *)
(* ObjectPool.                                                             *)
(***************************************************************************)
EXTENDS PoolTest, FiniteSetTheorems, TLAPS

LFP == INSTANCE LockFreePoolProofs WITH head <- lfHead
MXP == INSTANCE MutexPoolProofs WITH head <- mxHead

-----------------------------------------------------------------------------
\* The instances of the two pools in AdaptivePool and those of their proofs.

LEMMA LockFreeSame ==
  /\ (LF!IInv <=> LFP!IInv) /\ (LF!IInv <=> LFP!IInv)'
  /\ LF!Init => LFP!Init
BY DEF LF!IInv, LF!TypeOK, LF!TransitOK, LF!TagsOK, LF!PreparedOK, LF!FreeListIntact,
       LF!Linked, LF!IsChain, LF!Slots, LF!Words, LF!InTransit, LF!AllocLabels, LF!FreeLabels,
       LF!Init, LF!InitialLink, LF!Nil,
       LFP!IInv, LFP!TypeOK, LFP!TransitOK, LFP!TagsOK, LFP!PreparedOK, LFP!FreeListIntact,
       LFP!Linked, LFP!IsChain, LFP!Slots, LFP!Words, LFP!InTransit, LFP!AllocLabels,
       LFP!FreeLabels, LFP!Init, LFP!InitialLink, LFP!Nil

LEMMA MutexSame ==
  /\ (MX!IInv <=> MXP!IInv) /\ (MX!IInv <=> MXP!IInv)'
  /\ MX!Init => MXP!Init
BY DEF MX!IInv, MX!TypeOK, MX!TransitOK, MX!LockOK, MX!PreparedOK, MX!FreeListIntact,
       MX!Linked, MX!IsChain, MX!Slots, MX!InTransit, MX!OffList, MX!AllocLabels, MX!FreeLabels,
       MX!Init, MX!InitialLink,
       MXP!IInv, MXP!TypeOK, MXP!TransitOK, MXP!LockOK, MXP!PreparedOK, MXP!FreeListIntact,
       MXP!Linked, MXP!IsChain, MXP!Slots, MXP!InTransit, MXP!OffList, MXP!AllocLabels,
       MXP!FreeLabels, MXP!Init, MXP!InitialLink

LEMMA LockFreeStepSame ==
  /\ LF!Next => LFP!Next
  /\ UNCHANGED LF!vars => UNCHANGED LFP!vars
BY DEF LF!Next, LF!Step, LF!CallAllocate, LF!AllocLoad, LF!AllocEmpty, LF!AllocNext, LF!AllocCas,
       LF!AllocRetry, LF!CallDeallocate, LF!FreeLoad, LF!FreeLink, LF!FreeCas, LF!FreeRetry,
       LF!UserWrite, LF!Swap, LF!Return, LF!Nil, LF!IncTag, LF!Slots, LF!vars,
       LFP!Next, LFP!Step, LFP!CallAllocate, LFP!AllocLoad, LFP!AllocEmpty, LFP!AllocNext,
       LFP!AllocCas, LFP!AllocRetry, LFP!CallDeallocate, LFP!FreeLoad, LFP!FreeLink, LFP!FreeCas,
       LFP!FreeRetry, LFP!UserWrite, LFP!Swap, LFP!Return, LFP!Nil, LFP!IncTag, LFP!Slots, LFP!vars

LEMMA MutexStepSame ==
  /\ MX!Next => MXP!Next
  /\ UNCHANGED MX!vars => UNCHANGED MXP!vars
BY DEF MX!Next, MX!Step, MX!CallAllocate, MX!AllocLock, MX!AllocEmpty, MX!AllocTake, MX!AllocNext,
       MX!AllocReturn, MX!CallDeallocate, MX!FreeLock, MX!FreeLink, MX!FreePush, MX!FreeReturn,
       MX!UserWrite, MX!Goto, MX!Lock, MX!Unlock, MX!Slots, MX!vars,
       MXP!Next, MXP!Step, MXP!CallAllocate, MXP!AllocLock, MXP!AllocEmpty, MXP!AllocTake,
       MXP!AllocNext, MXP!AllocReturn, MXP!CallDeallocate, MXP!FreeLock, MXP!FreeLink,
       MXP!FreePush, MXP!FreeReturn, MXP!UserWrite, MXP!Goto, MXP!Lock, MXP!Unlock, MXP!Slots,
       MXP!vars

\* Each pool keeps its invariant.
LEMMA LockFreeStep ==
  ASSUME LF!IInv, LF!Next PROVE LF!IInv'
BY LockFreeSame, LockFreeStepSame, AdaptiveAssumption, LFP!StepInv DEF LFP!Slots

LEMMA MutexStep ==
  ASSUME MX!IInv, MX!Next PROVE MX!IInv'
BY MutexSame, MutexStepSame, AdaptiveAssumption, MXP!StepInv DEF MXP!Slots
-----------------------------------------------------------------------------
\* What a call does for its caller, whichever pool was built.

OthersStay(t) == \A u \in Threads \ {t} : pc'[u] = pc[u] /\ node'[u] = node[u]

LEMMA InTransitDef ==
  \A s : s \in InTransit <=> \E t \in Threads : Returning(t) /\ node[t] = s
BY DEF InTransit

LEMMA Labels ==
  /\ LF!AllocLabels = {"alloc_load", "alloc_next", "alloc_cas"}
  /\ LF!FreeLabels = {"free_load", "free_link", "free_cas"}
  /\ MX!AllocLabels = {"alloc_lock", "alloc_check", "alloc_next", "alloc_unlock"}
  /\ MX!FreeLabels = {"free_lock", "free_link", "free_push", "free_unlock"}
BY DEF LF!AllocLabels, LF!FreeLabels, MX!AllocLabels, MX!FreeLabels

\* A thread is in one call at a time, and only who gives a slot back has one.
LEMMA PoolFacts ==
  ASSUME PoolInv
  PROVE  /\ held \subseteq 1 .. Capacity
         /\ \A t \in Threads :
              /\ Requesting(t) => ~Returning(t) /\ pc[t] # "idle"
              /\ Returning(t) => pc[t] # "idle" /\ node[t] \in (1 .. Capacity) \ held
              /\ pc[t] # "idle" => Requesting(t) \/ Returning(t)
<1>1. CASE impl = "lockfree"
  BY <1>1, Labels DEF PoolInv, LF!IInv, LF!TypeOK, LF!TransitOK, LF!Slots,
                      Requesting, Returning
<1>2. CASE impl = "mutex"
  BY <1>2, Labels DEF PoolInv, MX!IInv, MX!TypeOK, MX!TransitOK, MX!Slots,
                      Requesting, Returning
<1>3. QED BY <1>1, <1>2 DEF PoolInv

\* Every step of the pool that was built keeps its invariant.
LEMMA ForwardInv ==
  ASSUME PoolInv, UNCHANGED <<supported, impl>>,
         (impl = "lockfree" /\ LF!Next) \/ (impl = "mutex" /\ MX!Next)
  PROVE  PoolInv'
BY LockFreeStep, MutexStep DEF PoolInv

\* And so does a step that leaves the pool alone.
LEMMA PoolStutter ==
  ASSUME PoolInv, UNCHANGED LF!vars, UNCHANGED MX!vars, UNCHANGED impl
  PROVE  PoolInv'
<1>1. LF!IInv => LF!IInv'
  BY LockFreeSame, LockFreeStepSame, AdaptiveAssumption, LFP!StepInv DEF LFP!Slots
<1>2. MX!IInv => MX!IInv'
  BY MutexSame, MutexStepSame, AdaptiveAssumption, MXP!StepInv DEF MXP!Slots
<1>3. QED BY <1>1, <1>2 DEF PoolInv

\* The pool works when it has been built.
LEMMA PoolInitInv == PoolInit => PoolInv
<1>1. PoolInit => impl \in {"lockfree", "mutex"} /\ LF!Init /\ MX!Init
  BY DEF PoolInit, Choose
<1>2. LF!Init => LF!IInv
  BY LockFreeSame, AdaptiveAssumption, LFP!InitInv DEF LFP!Slots
<1>3. MX!Init => MX!IInv
  BY MutexSame, AdaptiveAssumption, MXP!InitInv DEF MXP!Slots
<1>4. QED BY <1>1, <1>2, <1>3 DEF PoolInv

LEMMA CallAllocateStep ==
  ASSUME PoolInv, NEW t \in Threads, CallAllocate(t)
  PROVE  /\ PoolInv'
         /\ pc[t] = "idle" /\ Requesting(t)' /\ OthersStay(t)
         /\ held' = held /\ next' = next
<1>1. PoolInv'
  <2>1. /\ UNCHANGED <<supported, impl>>
        /\ (impl = "lockfree" /\ LF!Next) \/ (impl = "mutex" /\ MX!Next)
    BY DEF CallAllocate, Forward, LF!Next, MX!Next
  <2>2. QED BY <2>1, ForwardInv
<1>2. CASE impl = "lockfree"
  BY <1>1, <1>2, Labels DEF CallAllocate, Forward, LF!CallAllocate, PoolInv, LF!IInv, LF!TypeOK,
                      Requesting, OthersStay
<1>3. CASE impl = "mutex"
  BY <1>1, <1>3, Labels DEF CallAllocate, Forward, MX!CallAllocate, MX!Goto, PoolInv, MX!IInv, MX!TypeOK,
                      Requesting, OthersStay
<1>4. QED BY <1>2, <1>3 DEF PoolInv

LEMMA CallDeallocateStep ==
  ASSUME PoolInv, NEW t \in Threads, NEW s \in 1 .. Capacity, CallDeallocate(t, s)
  PROVE  /\ PoolInv'
         /\ pc[t] = "idle" /\ Returning(t)' /\ OthersStay(t)
         /\ s \in held /\ held' = held \ {s} /\ node'[t] = s /\ next' = next
<1>1. PoolInv'
  <2>1. /\ UNCHANGED <<supported, impl>>
        /\ (impl = "lockfree" /\ LF!Next) \/ (impl = "mutex" /\ MX!Next)
    BY DEF CallDeallocate, Forward, LF!Next, MX!Next, LF!Slots, MX!Slots
  <2>2. QED BY <2>1, ForwardInv
<1>2. CASE impl = "lockfree"
  BY <1>1, <1>2, Labels DEF CallDeallocate, Forward, LF!CallDeallocate, PoolInv, LF!IInv, LF!TypeOK,
                      Returning, OthersStay
<1>3. CASE impl = "mutex"
  BY <1>1, <1>3, Labels DEF CallDeallocate, Forward, MX!CallDeallocate, MX!Goto, PoolInv, MX!IInv,
                      MX!TypeOK, Returning, OthersStay
<1>4. QED BY <1>2, <1>3 DEF PoolInv

\* Inside a call no slot changes hands, and no held slot is written.
LEMMA InsideStep ==
  ASSUME PoolInv, NEW t \in Threads, Inside(t)
  PROVE  /\ PoolInv'
         /\ (Requesting(t) /\ Requesting(t)') \/ (Returning(t) /\ Returning(t)')
         /\ OthersStay(t) /\ node'[t] = node[t]
         /\ held' = held /\ \A s \in held : next'[s] = next[s]
<1>1. PoolInv'
  <2>1. /\ UNCHANGED <<supported, impl>>
        /\ (impl = "lockfree" /\ LF!Next) \/ (impl = "mutex" /\ MX!Next)
    BY DEF Inside, Forward, LF!Next, MX!Next, LF!Step, MX!Step
  <2>2. QED BY <2>1, ForwardInv
<1>2. CASE impl = "lockfree"
  <2>. USE <1>2, Labels DEF PoolInv, LF!IInv, LF!TypeOK, Requesting, Returning, OthersStay
  <2>1. ASSUME LF!AllocLoad(t) \/ LF!AllocNext(t) \/ LF!AllocRetry(t)
        PROVE  /\ Requesting(t) /\ Requesting(t)' /\ OthersStay(t) /\ UNCHANGED <<node, held, next>>
    BY <2>1 DEF LF!AllocLoad, LF!AllocNext, LF!AllocRetry
  <2>2. ASSUME LF!FreeLoad(t) \/ LF!FreeRetry(t)
        PROVE  /\ Returning(t) /\ Returning(t)' /\ OthersStay(t) /\ UNCHANGED <<node, held, next>>
    BY <2>2 DEF LF!FreeLoad, LF!FreeRetry
  <2>3. ASSUME LF!FreeLink(t)
        PROVE  /\ Returning(t) /\ Returning(t)' /\ OthersStay(t) /\ UNCHANGED <<node, held>>
               /\ \A s \in held : next'[s] = next[s]
    BY <2>3 DEF LF!FreeLink, LF!TransitOK, LF!Slots
  <2>4. \/ LF!AllocLoad(t) \/ LF!AllocNext(t) \/ LF!AllocRetry(t)
        \/ LF!FreeLoad(t) \/ LF!FreeLink(t) \/ LF!FreeRetry(t)
    BY DEF Inside, Forward
  <2>5. QED BY <2>1, <2>2, <2>3, <2>4, <1>1
<1>3. CASE impl = "mutex"
  <2>. USE <1>3, Labels DEF PoolInv, MX!IInv, MX!TypeOK, Requesting, Returning, OthersStay
  <2>1. ASSUME MX!AllocLock(t) \/ MX!AllocEmpty(t) \/ MX!AllocTake(t) \/ MX!AllocNext(t)
        PROVE  /\ Requesting(t) /\ Requesting(t)' /\ OthersStay(t) /\ UNCHANGED <<node, held, next>>
    BY <2>1 DEF MX!AllocLock, MX!AllocEmpty, MX!AllocTake, MX!AllocNext, MX!Goto
  <2>2. ASSUME MX!FreeLock(t) \/ MX!FreePush(t)
        PROVE  /\ Returning(t) /\ Returning(t)' /\ OthersStay(t) /\ UNCHANGED <<node, held, next>>
    BY <2>2 DEF MX!FreeLock, MX!FreePush, MX!Goto
  <2>3. ASSUME MX!FreeLink(t)
        PROVE  /\ Returning(t) /\ Returning(t)' /\ OthersStay(t) /\ UNCHANGED <<node, held>>
               /\ \A s \in held : next'[s] = next[s]
    BY <2>3 DEF MX!FreeLink, MX!Goto, MX!TransitOK, MX!Slots
  <2>4. \/ MX!AllocLock(t) \/ MX!AllocEmpty(t) \/ MX!AllocTake(t) \/ MX!AllocNext(t)
        \/ MX!FreeLock(t) \/ MX!FreeLink(t) \/ MX!FreePush(t)
    BY DEF Inside, Forward
  <2>5. QED BY <2>1, <2>2, <2>3, <2>4, <1>1
<1>4. QED BY <1>1, <1>2, <1>3 DEF PoolInv

\* allocate() returns a slot that no thread has, or nullptr when the threads have
\* them all.
LEMMA AllocateReturnsStep ==
  ASSUME PoolInv, NEW t \in Threads, NEW p \in (1 .. Capacity) \cup {NULL}, AllocateReturns(t, p)
  PROVE  /\ PoolInv'
         /\ Requesting(t) /\ pc'[t] = "idle" /\ OthersStay(t)
         /\ next' = next
         /\ p # NULL => p \notin held \cup InTransit /\ held' = held \cup {p}
         /\ p = NULL => 1 .. Capacity \subseteq held \cup InTransit /\ held' = held
<1>1. PoolInv'
  <2>1. /\ UNCHANGED <<supported, impl>>
        /\ (impl = "lockfree" /\ LF!Next) \/ (impl = "mutex" /\ MX!Next)
    BY DEF AllocateReturns, Forward, LF!Next, MX!Next, LF!Step, MX!Step
  <2>2. QED BY <2>1, ForwardInv
<1>2. CASE impl = "lockfree"
  <2>. USE <1>2, Labels DEF PoolInv, LF!IInv, LF!TypeOK, Requesting, OthersStay
  <2>1. (LF!AllocCas(t) /\ p = old[t].ptr) \/ (LF!AllocEmpty(t) /\ p = NULL)
    BY DEF AllocateReturns, Forward
  <2>2. \A s : s \in InTransit <=> s \in LFP!InTransit
    BY DEF InTransit, Returning, LFP!InTransit, LFP!FreeLabels
  <2>3. LFP!FreeListIntact
    BY LockFreeSame DEF LFP!IInv
  <2>4. CASE LF!AllocCas(t) /\ p = old[t].ptr
    <3>1. p = lfHead.ptr /\ p \in 1 .. Capacity
      BY <2>4 DEF LF!AllocCas, LF!Swap, LF!PreparedOK, LF!Slots
    <3>2. p \notin held \cup LFP!InTransit
      BY <2>3, <3>1, AdaptiveAssumption, LFP!TopIsFree DEF LFP!Slots
    <3>3. QED BY <1>1, <2>2, <2>4, <3>1, <3>2, AdaptiveAssumption, SMTT(30) DEF LF!AllocCas, LF!Return, LF!TransitOK
  <2>5. CASE LF!AllocEmpty(t) /\ p = NULL
    <3>1. LFP!AbstractFree = {}
      BY <2>3, <2>5, AdaptiveAssumption, LFP!EmptyMeansNone DEF LF!AllocEmpty, LFP!Slots
    <3>2. 1 .. Capacity \subseteq held \cup InTransit
      BY <3>1, <2>2 DEF LFP!AbstractFree, LFP!Slots
    <3>3. QED BY <1>1, <2>5, <3>2, SMTT(30) DEF LF!AllocEmpty, LF!Return, LF!TransitOK
  <2>6. QED BY <2>1, <2>4, <2>5
<1>3. CASE impl = "mutex"
  <2>. USE <1>3, Labels DEF PoolInv, MX!IInv, MX!TypeOK, Requesting, OthersStay
  <2>1. MX!AllocReturn(t) /\ p = result[t]
    BY DEF AllocateReturns, Forward
  <2>2. \A s : s \in InTransit <=> s \in MX!InTransit
    BY DEF InTransit, Returning, MX!InTransit, LF!TypeOK
  <2>3. p # NULL => p \notin held \cup InTransit
    BY <2>1, <2>2 DEF MX!AllocReturn, MX!PreparedOK
  <2>4. p = NULL => 1 .. Capacity \subseteq held \cup InTransit
    <3>. HAVE p = NULL
    <3>1. \A u \in Threads : pc[u] = "alloc_unlock" \/ pc[u] = "free_unlock" => u = t
      BY <2>1 DEF MX!AllocReturn, MX!LockOK
    <3>2. MXP!FreeListIntact /\ mxHead = NULL
      BY <2>1, MutexSame DEF MXP!IInv, MX!AllocReturn, MX!PreparedOK
    <3>3. 1 .. Capacity \subseteq MXP!OffList
      BY <3>2, AdaptiveAssumption, MXP!ListEmpty DEF MXP!FreeListIntact, MXP!Slots
    <3>4. MXP!OffList \subseteq held \cup InTransit
      BY <2>1, <3>1, InTransitDef DEF MXP!OffList, MXP!FreeLabels, Returning, MX!AllocReturn
    <3>5. QED BY <3>3, <3>4
  <2>5. QED BY <1>1, <2>1, <2>3, <2>4 DEF MX!AllocReturn, MX!Goto
<1>4. QED BY <1>2, <1>3 DEF PoolInv

LEMMA DeallocateReturnsStep ==
  ASSUME PoolInv, NEW t \in Threads, DeallocateReturns(t)
  PROVE  /\ PoolInv'
         /\ Returning(t) /\ pc'[t] = "idle" /\ OthersStay(t)
         /\ held' = held /\ next' = next
<1>1. PoolInv'
  <2>1. /\ UNCHANGED <<supported, impl>>
        /\ (impl = "lockfree" /\ LF!Next) \/ (impl = "mutex" /\ MX!Next)
    BY DEF DeallocateReturns, Forward, LF!Next, MX!Next, LF!Step, MX!Step
  <2>2. QED BY <2>1, ForwardInv
<1>2. CASE impl = "lockfree"
  BY <1>2, <1>1, Labels DEF DeallocateReturns, Forward, LF!FreeCas, LF!Return, PoolInv, LF!IInv,
                      LF!TypeOK, Returning, OthersStay
<1>3. CASE impl = "mutex"
  BY <1>3, <1>1, Labels DEF DeallocateReturns, Forward, MX!FreeReturn, MX!Goto, PoolInv, MX!IInv,
                      MX!TypeOK, Returning, OthersStay
<1>4. QED BY <1>2, <1>3 DEF PoolInv

LEMMA UserWriteStep ==
  ASSUME PoolInv, NEW s \in 1 .. Capacity, NEW v \in UserData, UserWrite(s, v)
  PROVE  /\ PoolInv'
         /\ UNCHANGED <<pc, node, held>>
         /\ next'[s] = v /\ \A x \in (1 .. Capacity) \ {s} : next'[x] = next[x]
<1>1. PoolInv'
  <2>1. /\ UNCHANGED <<supported, impl>>
        /\ (impl = "lockfree" /\ LF!Next) \/ (impl = "mutex" /\ MX!Next)
    BY DEF UserWrite, Forward, LF!Next, MX!Next, LF!Slots, MX!Slots
  <2>2. QED BY <2>1, ForwardInv
<1>2. CASE impl = "lockfree"
  BY <1>2, <1>1 DEF UserWrite, Forward, LF!UserWrite, PoolInv, LF!IInv, LF!TypeOK, LF!Slots
<1>3. CASE impl = "mutex"
  BY <1>3, <1>1 DEF UserWrite, Forward, MX!UserWrite, PoolInv, MX!IInv, MX!TypeOK, MX!Slots
<1>4. QED BY <1>2, <1>3 DEF PoolInv

-----------------------------------------------------------------------------
\* The state of the program.

LEMMA ThreadFacts ==
  /\ Threads = Workers \cup {Main} /\ Main \notin Workers /\ Main \in Threads
  /\ NULL \notin Threads /\ UserData = Workers /\ PerThread \in Nat
BY TestAssumption, AdaptiveAssumption

\* What the others ask for together, and all of them.
LEMMA DemandFacts ==
  /\ Demand \in Nat /\ Capacity <= Demand /\ Capacity \in Nat \ {0}
  /\ \A t \in Workers : /\ PerThread <= Demand
                        /\ IsFiniteSet(Workers \ {t})
                        /\ Cardinality(Workers \ {t}) \in Nat
                        /\ Demand - PerThread = Cardinality(Workers \ {t}) * PerThread
<1>1. Cardinality(Workers) \in Nat /\ PerThread \in Nat
  BY TestAssumption, FS_CardinalityType
<1>2. ASSUME NEW n \in Nat, NEW m \in Nat PROVE n * m \in Nat
  OBVIOUS
<1>3. Demand \in Nat
  BY <1>1, <1>2 DEF Demand
<1>4. ASSUME NEW t \in Workers
      PROVE  /\ PerThread <= Demand
             /\ IsFiniteSet(Workers \ {t})
             /\ Cardinality(Workers \ {t}) \in Nat
             /\ Demand - PerThread = Cardinality(Workers \ {t}) * PerThread
  <2>1. IsFiniteSet(Workers \ {t}) /\ Cardinality(Workers \ {t}) = Cardinality(Workers) - 1
    BY TestAssumption, FS_RemoveElement
  <2>2. Cardinality(Workers \ {t}) \in Nat
    BY <2>1, FS_CardinalityType
  <2>3. ASSUME NEW n \in Nat, NEW m \in Nat, NEW q \in Nat, q = n - 1
        PROVE  n * m - m = q * m /\ q * m \in Nat
    BY <2>3
  <2>4. Demand - PerThread = Cardinality(Workers \ {t}) * PerThread
        /\ Cardinality(Workers \ {t}) * PerThread \in Nat
    BY <1>1, <2>1, <2>2, <2>3 DEF Demand
  <2>5. QED BY <1>1, <1>3, <2>1, <2>2, <2>4
<1>5. QED BY <1>3, <1>4, TestAssumption, AdaptiveAssumption

LEMMA WorkerFacts ==
  ASSUME TypeOK, NEW t \in Workers
  PROVE  /\ objs[t] \in Seq(1 .. Capacity)
         /\ Len(objs[t]) \in Nat /\ i[t] \in Nat
         /\ DOMAIN objs[t] = 1 .. Len(objs[t])
         /\ \A k \in 1 .. Len(objs[t]) : objs[t][k] \in 1 .. Capacity
BY ThreadFacts, DemandFacts, SMTT(30) DEF TypeOK

LEMMA MainFacts ==
  ASSUME TypeOK
  PROVE  /\ objs[Main] \in Seq((1 .. Capacity) \cup {NULL})
         /\ Len(objs[Main]) \in Nat /\ i[Main] \in Nat
         /\ DOMAIN objs[Main] = 1 .. Len(objs[Main])
BY ThreadFacts, DemandFacts DEF TypeOK

LEMMA KeptFacts ==
  ASSUME TypeOK
  PROVE  \A t \in Workers : /\ Kept(t) \subseteq 1 .. Len(objs[t])
                            /\ Filled(t) \subseteq Kept(t)
<1>. SUFFICES ASSUME NEW t \in Workers
              PROVE  Kept(t) \subseteq 1 .. Len(objs[t]) /\ Filled(t) \subseteq Kept(t)
  OBVIOUS
<1>1. phase[t] \in Phases /\ t # Main
  BY ThreadFacts DEF TypeOK
<1>2. QED BY <1>1, WorkerFacts DEF Kept, Filled, Phases

-----------------------------------------------------------------------------
\* How each part of the invariant is kept.

\* No slot changes hands.
LEMMA OwnersSame ==
  ASSUME OwnersOK, held' = held,
         \A t \in Threads : /\ Kept(t)' = Kept(t)
                            /\ \A k \in Kept(t) : objs'[t][k] = objs[t][k]
  PROVE  OwnersOK'
BY DEF OwnersOK

\* Thread t gets slot s, which nobody had, as its n-th object.
LEMMA OwnersGain ==
  ASSUME OwnersOK, NEW t \in Threads, NEW n, NEW s, s \notin held, held' = held \cup {s},
         \A u \in Threads \ {t} : Kept(u)' = Kept(u) /\ objs'[u] = objs[u],
         Kept(t)' = Kept(t) \cup {n}, n \notin Kept(t),
         \A k \in Kept(t) : objs'[t][k] = objs[t][k],
         objs'[t][n] = s
  PROVE  OwnersOK'
<1>1. \A u \in Threads : \A k \in Kept(u)' :
        \/ k \in Kept(u) /\ objs'[u][k] = objs[u][k]
        \/ u = t /\ k = n /\ objs'[u][k] = s
  OBVIOUS
<1>2. \A u \in Threads : \A k \in Kept(u) : objs[u][k] # s
  BY DEF OwnersOK
<1>3. \A u \in Threads : \A k \in Kept(u)' : objs'[u][k] \in held'
  BY <1>1 DEF OwnersOK
<1>4. \A x \in held' : \E u \in Threads : \E k \in Kept(u)' : objs'[u][k] = x
  <2>1. ASSUME NEW x \in held PROVE \E u \in Threads : \E k \in Kept(u)' : objs'[u][k] = x
    <3>1. PICK u \in Threads : \E k \in Kept(u) : objs[u][k] = x
      BY DEF OwnersOK
    <3>2. PICK k \in Kept(u) : objs[u][k] = x
      BY <3>1
    <3>3. k \in Kept(u)' /\ objs'[u][k] = x
      BY <3>2
    <3>4. QED BY <3>3
  <2>2. QED BY <2>1
<1>5. \A u, v \in Threads : \A k \in Kept(u)', l \in Kept(v)' :
        objs'[u][k] = objs'[v][l] => u = v /\ k = l
  <2>. SUFFICES ASSUME NEW u \in Threads, NEW v \in Threads, NEW k \in Kept(u)', NEW l \in Kept(v)',
                       objs'[u][k] = objs'[v][l]
                PROVE  u = v /\ k = l
    OBVIOUS
  <2>1. CASE k \in Kept(u) /\ l \in Kept(v) /\ objs'[u][k] = objs[u][k] /\ objs'[v][l] = objs[v][l]
    <3>1. objs[u][k] = objs[v][l]
      BY <2>1
    <3>2. QED BY <2>1, <3>1 DEF OwnersOK
  <2>2. CASE k \in Kept(u) /\ objs'[u][k] = objs[u][k] /\ v = t /\ l = n /\ objs'[v][l] = s
    BY <2>2, <1>2
  <2>3. CASE u = t /\ k = n /\ objs'[u][k] = s /\ l \in Kept(v) /\ objs'[v][l] = objs[v][l]
    BY <2>3, <1>2
  <2>4. CASE u = t /\ k = n /\ v = t /\ l = n
    BY <2>4
  <2>5. \/ k \in Kept(u) /\ objs'[u][k] = objs[u][k]
        \/ u = t /\ k = n /\ objs'[u][k] = s
    BY <1>1
  <2>6. \/ l \in Kept(v) /\ objs'[v][l] = objs[v][l]
        \/ v = t /\ l = n /\ objs'[v][l] = s
    BY <1>1
  <2>7. QED BY <2>1, <2>2, <2>3, <2>4, <2>5, <2>6
<1>6. QED BY <1>3, <1>4, <1>5 DEF OwnersOK

\* Thread t gives its n-th object back.
LEMMA OwnersLose ==
  ASSUME OwnersOK, NEW t \in Threads, NEW n \in Kept(t), held' = held \ {objs[t][n]},
         objs' = objs,
         \A u \in Threads \ {t} : Kept(u)' = Kept(u),
         Kept(t)' = Kept(t) \ {n}
  PROVE  OwnersOK'
<1>1. \A u \in Threads : \A k \in Kept(u)' : k \in Kept(u) /\ (u # t \/ k # n)
  OBVIOUS
<1>2. \A u \in Threads : \A k \in Kept(u)' : objs'[u][k] \in held'
  BY <1>1 DEF OwnersOK
<1>3. \A x \in held' : \E u \in Threads : \E k \in Kept(u)' : objs'[u][k] = x
  <2>. SUFFICES ASSUME NEW x \in held'
                PROVE  \E u \in Threads : \E k \in Kept(u)' : objs'[u][k] = x
    OBVIOUS
  <2>1. PICK u \in Threads : \E k \in Kept(u) : objs[u][k] = x
    BY DEF OwnersOK
  <2>2. PICK k \in Kept(u) : objs[u][k] = x
    BY <2>1
  <2>3. k \in Kept(u)' /\ objs'[u][k] = x
    BY <2>2
  <2>4. QED BY <2>3
<1>4. QED BY <1>1, <1>2, <1>3 DEF OwnersOK

\* A step that fills in no object and writes none that is held.
LEMMA DataSame ==
  ASSUME TypeOK, OwnersOK, DataIntact, \A s \in held : next'[s] = next[s],
         \A t \in Workers : /\ Filled(t)' \subseteq Filled(t)
                            /\ \A k \in Filled(t) : objs'[t][k] = objs[t][k]
  PROVE  DataIntact'
<1>1. \A t \in Workers : \A k \in Filled(t) : objs[t][k] \in held
  BY KeptFacts, ThreadFacts DEF OwnersOK
<1>2. QED BY <1>1 DEF DataIntact

\* As long as a worker has not ended, main() waits.
LEMMA MainWaits ==
  ASSUME TypeOK, RecountOK, CallsOK, NEW t \in Workers, phase[t] # "done"
  PROVE  phase[Main] = "join" /\ objs[Main] = <<>>
BY DEF RecountOK

LEMMA RecountWaits ==
  ASSUME phase'[Main] = "join", objs'[Main] = <<>>
  PROVE  RecountOK'
BY DEF RecountOK

\* A step of the pool that the program does not see.
LEMMA UnseenInv ==
  ASSUME IInv, PoolInv', UNCHANGED testVars, held' = held, \A s \in held : next'[s] = next[s],
         CallsOK'
  PROVE  IInv'
<1>. USE DEF IInv, testVars
<1>1. TypeOK' /\ objs' \in [Threads -> Seq((1 .. Capacity) \cup {NULL})]
  BY DEF TypeOK
<1>2. \A t \in Threads : Kept(t)' = Kept(t) /\ Filled(t)' = Filled(t) /\ Asked(t)' = Asked(t)
  BY DEF Kept, Filled, Asked
<1>3. OwnersOK'
  BY <1>2, OwnersSame
<1>4. CountsOK'
  BY <1>2, ThreadFacts DEF CountsOK, CountOK
<1>5. RecountOK'
  BY DEF RecountOK
<1>6. DataIntact'
  BY <1>2, ThreadFacts, DataSame
<1>7. QED BY <1>1, <1>3, <1>4, <1>5, <1>6

-----------------------------------------------------------------------------
\* When allocate() returns nullptr.

\* While a worker is still allocating, every slot that is not free is, or was, an
\* object of some worker.
LEMMA WhoHas ==
  ASSUME IInv, NEW t \in Workers, phase[t] # "done", NEW s \in held \cup InTransit
  PROVE  \E u \in Workers : \E k \in 1 .. Len(objs[u]) : objs[u][k] = s
<1>. USE DEF IInv
<1>1. objs[Main] = <<>>
  BY MainWaits
<1>2. CASE s \in held
  <2>1. PICK u \in Threads : \E k \in Kept(u) : objs[u][k] = s
    BY <1>2 DEF OwnersOK
  <2>2. u # Main
    BY <1>1, <2>1 DEF Kept
  <2>3. QED BY <2>1, <2>2, KeptFacts, ThreadFacts
<1>3. CASE s \in InTransit
  <2>1. PICK u \in Threads : Returning(u) /\ node[u] = s
    BY <1>3, InTransitDef
  <2>2. ~Requesting(u) /\ pc[u] # "idle"
    BY <2>1, PoolFacts
  <2>3. u # Main
    BY <2>2 DEF CallsOK
  <2>4. u \in Workers
    BY <2>3, ThreadFacts
  <2>5. i[u] # 0 /\ i[u] <= Len(objs[u]) /\ objs[u][i[u]] = s
    BY <2>1, <2>2, <2>4 DEF CallsOK, CallOK
  <2>6. i[u] \in 1 .. Len(objs[u])
    BY <2>4, <2>5, WorkerFacts
  <2>7. QED BY <2>4, <2>5, <2>6
<1>4. QED BY <1>2, <1>3

\* A worker that is given nullptr has what the others cannot have.
LEMMA TurnedAway ==
  ASSUME IInv, NEW t \in Workers, phase[t] # "done", 1 .. Capacity \subseteq held \cup InTransit
  PROVE  Len(objs[t]) >= Capacity - (Demand - PerThread)
<1>. DEFINE Others == (Workers \ {t}) \X (1 .. PerThread)
            Own    == {t} \X (1 .. Len(objs[t]))
            Gave(s, p) == objs[p[1]][p[2]] = s
            f == [s \in 1 .. Capacity |-> CHOOSE p \in Others \cup Own : Gave(s, p)]
<1>1. \A s \in 1 .. Capacity : \E p \in Others \cup Own : Gave(s, p)
  <2>. SUFFICES ASSUME NEW s \in 1 .. Capacity PROVE \E p \in Others \cup Own : Gave(s, p)
    OBVIOUS
  <2>1. PICK u \in Workers : \E k \in 1 .. Len(objs[u]) : objs[u][k] = s
    BY WhoHas
  <2>2. PICK k \in 1 .. Len(objs[u]) : objs[u][k] = s
    BY <2>1
  <2>3. Len(objs[u]) \in Nat /\ Len(objs[u]) <= PerThread /\ PerThread \in Nat
    BY WorkerFacts, ThreadFacts DEF IInv, TypeOK
  <2>4. k \in 1 .. PerThread
    BY <2>3
  <2>5. <<u, k>> \in Others \cup Own
    BY <2>4
  <2>6. QED BY <2>2, <2>5
<1>2. \A s \in 1 .. Capacity : f[s] \in Others \cup Own /\ Gave(s, f[s])
  BY <1>1
<1>3. f \in Injection(1 .. Capacity, Others \cup Own)
  <2>1. f \in [1 .. Capacity -> Others \cup Own]
    BY <1>2
  <2>2. \A a, b \in 1 .. Capacity : f[a] = f[b] => a = b
    BY <1>2
  <2>3. QED BY <2>1, <2>2 DEF Injection, IsInjective
<1>4. /\ Len(objs[t]) \in Nat /\ PerThread \in Nat /\ Capacity \in Nat
      /\ IsFiniteSet(1 .. PerThread) /\ Cardinality(1 .. PerThread) = PerThread
      /\ IsFiniteSet(1 .. Len(objs[t])) /\ Cardinality(1 .. Len(objs[t])) = Len(objs[t])
      /\ IsFiniteSet(1 .. Capacity) /\ Cardinality(1 .. Capacity) = Capacity
  <2>1. \A n \in Nat : IsFiniteSet(1 .. n) /\ Cardinality(1 .. n) = n
    <3>. TAKE n \in Nat
    <3>1. IsFiniteSet(1 .. n) /\ Cardinality(1 .. n) = IF 1 > n THEN 0 ELSE n - 1 + 1
      BY FS_Interval
    <3>2. QED BY <3>1
  <2>2. Len(objs[t]) \in Nat /\ PerThread \in Nat /\ Capacity \in Nat
    BY WorkerFacts, ThreadFacts, DemandFacts DEF IInv
  <2>3. QED BY <2>1, <2>2
<1>5. IsFiniteSet(Others) /\ Cardinality(Others) = Demand - PerThread
  BY <1>4, DemandFacts, FS_Product, ZenonT(30)
<1>6. IsFiniteSet(Own) /\ Cardinality(Own) = Len(objs[t])
  <2>1. IsFiniteSet({t}) /\ Cardinality({t}) = 1
    BY FS_Singleton
  <2>2. IsFiniteSet(Own) /\ Cardinality(Own) = Cardinality({t}) * Cardinality(1 .. Len(objs[t]))
    BY <1>4, <2>1, FS_Product
  <2>3. QED BY <1>4, <2>1, <2>2
<1>7. /\ IsFiniteSet(Others \cup Own)
      /\ Cardinality(Others \cup Own) <= (Demand - PerThread) + Len(objs[t])
  <2>. HIDE DEF Others, Own
  <2>1. /\ IsFiniteSet(Others \cup Own)
        /\ Cardinality(Others \cup Own) = Cardinality(Others) + Cardinality(Own) - Cardinality(Others \cap Own)
    BY <1>5, <1>6, FS_Union
  <2>2. Cardinality(Others \cap Own) \in Nat
    BY <1>5, FS_Intersection, FS_CardinalityType
  <2>3. QED BY <1>4, <1>5, <1>6, <2>1, <2>2, DemandFacts, ThreadFacts
<1>8. Capacity <= Cardinality(Others \cup Own)
  BY <1>3, <1>4, <1>7, FS_Injection
<1>9. Cardinality(Others \cup Own) \in Nat
  BY <1>7, FS_CardinalityType
<1>10. QED
  <2>. HIDE DEF Others, Own
  <2>1. QED BY <1>4, <1>7, <1>8, <1>9, DemandFacts, ThreadFacts

\* Nothing is on its way back when main() counts.
LEMMA NothingInTransit ==
  ASSUME IInv, phase[Main] # "join"
  PROVE  InTransit = {}
<1>1. \A u \in Threads : ~Returning(u)
  BY PoolFacts, ThreadFacts DEF IInv, CallsOK, CallOK, RecountOK
<1>2. QED BY <1>1, InTransitDef

\* main() has as many slots as it has made calls, until it has been given nullptr.
LEMMA NothingLeft ==
  ASSUME IInv, phase[Main] = "recount", i[Main] = Demand,
         NEW p \in 1 .. Capacity, p \notin held
  PROVE  FALSE
<1>. USE DEF IInv
<1>. DEFINE got == objs[Main]
            rest == (1 .. Capacity) \ {p}
<1>1. \A k \in DOMAIN got : got[k] # NULL
  BY DEF RecountOK
<1>2. DOMAIN got = 1 .. Demand /\ Kept(Main) = 1 .. Demand
  BY <1>1, MainFacts DEF RecountOK, Kept
<1>3. \A k \in 1 .. Demand : got[k] \in rest
  <2>1. \A k \in Kept(Main) : objs[Main][k] \in held
    BY ThreadFacts DEF OwnersOK
  <2>2. held \subseteq rest
    BY PoolFacts
  <2>3. QED BY <1>2, <2>1, <2>2
<1>4. \A k, l \in 1 .. Demand : got[k] = got[l] => k = l
  <2>1. \A k, l \in Kept(Main) : objs[Main][k] = objs[Main][l] => k = l
    BY ThreadFacts DEF OwnersOK
  <2>2. QED BY <1>2, <2>1
<1>5. got \in Injection(1 .. Demand, rest)
  <2>1. got \in [1 .. Demand -> rest]
    BY <1>2, <1>3, MainFacts
  <2>2. QED BY <1>4, <2>1 DEF Injection, IsInjective
<1>6. Demand \in Nat /\ Capacity \in Nat /\ Capacity <= Demand
  BY DemandFacts
<1>7. IsFiniteSet(rest) /\ Cardinality(rest) = Capacity - 1
  <2>1. IsFiniteSet(1 .. Capacity) /\ Cardinality(1 .. Capacity) = Capacity
    BY <1>6, DemandFacts, FS_Interval
  <2>2. QED BY <2>1, FS_RemoveElement
<1>8. Cardinality(1 .. Demand) = Demand /\ IsFiniteSet(1 .. Demand)
  BY <1>6, FS_Interval
<1>9. Demand <= Capacity - 1
  BY <1>5, <1>7, <1>8, FS_Injection
<1>10. QED BY <1>6, <1>9

-----------------------------------------------------------------------------
\* The steps of a worker.

OthersSame(t) == \A u \in Threads \ {t} : phase'[u] = phase[u] /\ i'[u] = i[u] /\ objs'[u] = objs[u]

LEMMA OthersKeep ==
  ASSUME NEW t, OthersSame(t)
  PROVE  \A u \in Threads \ {t} : Kept(u)' = Kept(u) /\ Filled(u)' = Filled(u) /\ Asked(u)' = Asked(u)
BY DEF OthersSame, Kept, Filled, Asked

\* What is left to show of a step of worker t.
LEMMA WorkerStep ==
  ASSUME IInv, PoolInv', NEW t \in Workers, phase[t] # "done", OthersSame(t),
         OthersStay(t),
         phase' \in [Threads -> Phases], i' \in [Threads -> 0 .. Demand],
         objs' \in [Threads -> Seq((1 .. Capacity) \cup {NULL})], objs'[t] \in Seq(1 .. Capacity),
         CallOK(t)', CountOK(t)', OwnersOK', DataIntact'
  PROVE  IInv'
<1>. USE DEF IInv
<1>1. \A u \in Workers \ {t} : CallOK(u)' /\ CountOK(u)'
  <2>. SUFFICES ASSUME NEW u \in Workers \ {t} PROVE CallOK(u)' /\ CountOK(u)'
    OBVIOUS
  <2>1. /\ pc'[u] = pc[u] /\ node'[u] = node[u]
        /\ phase'[u] = phase[u] /\ i'[u] = i[u] /\ objs'[u] = objs[u] /\ Asked(u)' = Asked(u)
        /\ (Requesting(u)' <=> Requesting(u)) /\ (Returning(u)' <=> Returning(u))
    BY ThreadFacts, OthersKeep DEF OthersSame, OthersStay, Requesting, Returning
  <2>2. CallOK(u)'
    BY <2>1 DEF CallsOK, CallOK
  <2>3. CountOK(u)'
    BY <2>1 DEF CountsOK, CountOK
  <2>4. QED BY <2>2, <2>3
<1>2. /\ phase'[Main] = phase[Main] /\ i'[Main] = i[Main] /\ objs'[Main] = objs[Main]
      /\ pc'[Main] = pc[Main] /\ (Requesting(Main)' <=> Requesting(Main))
  BY ThreadFacts DEF OthersSame, OthersStay, Requesting
<1>3. CallsOK' /\ CountsOK'
  BY <1>1, <1>2 DEF CallsOK, CountsOK
<1>4. RecountOK'
  BY <1>2, MainWaits, RecountWaits
<1>5. TypeOK'
  <2>1. Len(objs'[t]) <= PerThread
    <3>1. i'[t] \in Nat /\ PerThread \in Nat /\ Len(objs'[t]) \in Nat /\ phase'[t] \in Phases
      BY ThreadFacts, DemandFacts
    <3>2. Asked(t)' \in Nat
      BY <3>1 DEF Asked
    <3>3. QED BY <3>1, <3>2 DEF CountOK
  <2>2. \A u \in Workers : objs'[u] \in Seq(1 .. Capacity) /\ Len(objs'[u]) <= PerThread
    BY <2>1, ThreadFacts DEF TypeOK, OthersSame
  <2>3. QED BY <2>2, <1>2 DEF TypeOK
<1>6. QED BY <1>3, <1>4, <1>5

LEMMA RequestObjectInv ==
  ASSUME IInv, NEW t \in Workers, RequestObject(t)
  PROVE  IInv'
<1>. USE DEF IInv, RequestObject, testVars
<1>1. /\ PoolInv' /\ pc[t] = "idle" /\ Requesting(t)' /\ OthersStay(t)
      /\ held' = held /\ next' = next
  BY CallAllocateStep, ThreadFacts
<1>2. CallsOK'
  <2>1. ASSUME NEW u \in Workers, u # t PROVE CallOK(u)'
    BY <1>1, <2>1, ThreadFacts DEF CallsOK, CallOK, OthersStay, Requesting, Returning
  <2>2. CallOK(t)'
    BY <1>1, ThreadFacts DEF CallsOK, CallOK
  <2>3. QED BY <1>1, <2>1, <2>2, ThreadFacts DEF CallsOK, OthersStay, Requesting
<1>3. QED BY <1>1, <1>2, UnseenInv

LEMMA GetNothingInv ==
  ASSUME IInv, NEW t \in Workers, GetNothing(t)
  PROVE  IInv'
<1>. USE DEF IInv, GetNothing
<1>1. /\ PoolInv' /\ Requesting(t) /\ pc'[t] = "idle" /\ OthersStay(t)
      /\ held' = held /\ next' = next /\ 1 .. Capacity \subseteq held \cup InTransit
  BY AllocateReturnsStep, ThreadFacts
<1>2. i[t] < PerThread /\ i[t] \in Nat /\ PerThread \in Nat /\ PerThread <= Demand /\ Demand \in Nat
  BY <1>1, PoolFacts, WorkerFacts, DemandFacts, ThreadFacts DEF CallsOK, CallOK
<1>3. i' \in [Threads -> 0 .. Demand] /\ i'[t] = i[t] + 1
  BY <1>2, ThreadFacts DEF TypeOK
<1>4. OthersSame(t)
  BY DEF OthersSame, TypeOK
<1>5. Len(objs[t]) >= Capacity - (Demand - PerThread)
  BY <1>1, TurnedAway
<1>6. CountOK(t)'
  BY <1>2, <1>3, <1>5, WorkerFacts DEF CountsOK, CountOK, Asked
<1>7. CallOK(t)'
  BY <1>1 DEF CallsOK, CallOK
<1>8. Kept(t)' = Kept(t) /\ Filled(t)' = Filled(t)
  BY ThreadFacts DEF Kept, Filled
<1>9. OwnersOK'
  BY <1>1, <1>4, <1>8, OthersKeep, OwnersSame
<1>10. DataIntact'
  BY <1>1, <1>4, <1>8, OthersKeep, DataSame, ThreadFacts
<1>11. QED
  BY <1>1, <1>3, <1>4, <1>6, <1>7, <1>9, <1>10, WorkerStep, WorkerFacts DEF TypeOK

\* A slot that no thread had becomes the next object of t.
LEMMA GetObjectInv ==
  ASSUME IInv, NEW t \in Workers, GetObject(t)
  PROVE  IInv'
<1>. USE DEF IInv, GetObject
<1>1. PICK s \in 1 .. Capacity : AllocateReturns(t, s) /\ objs' = [objs EXCEPT ![t] = Append(@, s)]
  OBVIOUS
<1>2. s # NULL
  BY AdaptiveAssumption
<1>3. /\ PoolInv' /\ Requesting(t) /\ pc'[t] = "idle" /\ OthersStay(t)
      /\ next' = next /\ s \notin held /\ held' = held \cup {s}
  BY <1>1, <1>2, AllocateReturnsStep, ThreadFacts
<1>4. i[t] < PerThread /\ i[t] \in Nat /\ PerThread \in Nat
  BY <1>3, PoolFacts, WorkerFacts, ThreadFacts DEF CallsOK, CallOK
<1>. DEFINE n == Len(objs[t]) + 1
<1>5. /\ objs'[t] \in Seq(1 .. Capacity) /\ Len(objs'[t]) = n /\ n \in Nat \ {0}
      /\ objs'[t][n] = s /\ \A k \in 1 .. Len(objs[t]) : objs'[t][k] = objs[t][k]
      /\ DOMAIN objs'[t] = 1 .. n /\ DOMAIN objs[t] = 1 .. Len(objs[t])
      /\ Len(objs[t]) \in Nat
  BY <1>1, WorkerFacts, ThreadFacts
<1>6. /\ objs' \in [Threads -> Seq((1 .. Capacity) \cup {NULL})]
      /\ phase' \in [Threads -> Phases] /\ phase'[t] = "fill" /\ OthersSame(t)
  BY <1>1, <1>5, ThreadFacts DEF TypeOK, Phases, OthersSame
<1>7. CountOK(t)'
  <2>1. Asked(t) = i[t] /\ Asked(t)' = i[t] + 1
    BY <1>6, ThreadFacts DEF Asked, OthersSame
  <2>2. /\ Len(objs[t]) <= i[t]
        /\ Len(objs[t]) = i[t] \/ Len(objs[t]) >= Capacity - (Demand - PerThread)
    BY <2>1 DEF CountsOK, CountOK
  <2>3. Capacity \in Nat /\ Demand \in Nat
    BY DemandFacts
  <2>4. QED BY <1>4, <1>5, <2>1, <2>2, <2>3, SMTT(30) DEF CountOK
<1>8. CallOK(t)'
  <2>1. objs'[t] # <<>>
    BY <1>5
  <2>2. QED BY <1>3, <1>6, <2>1 DEF CallOK
<1>9. /\ Kept(t) = 1 .. Len(objs[t]) /\ Kept(t)' = 1 .. n
      /\ Filled(t) = 1 .. Len(objs[t]) /\ Filled(t)' = 1 .. Len(objs[t])
  BY <1>5, <1>6, ThreadFacts DEF Kept, Filled
<1>10. Kept(t)' = Kept(t) \cup {n} /\ n \notin Kept(t)
  BY <1>5, <1>9
<1>11. OwnersOK'
  <2>. HIDE DEF n
  <2>1. \A u \in Threads \ {t} : Kept(u)' = Kept(u) /\ objs'[u] = objs[u]
    BY <1>6, OthersKeep DEF OthersSame
  <2>2. QED BY <1>3, <1>5, <1>9, <1>10, <2>1, OwnersGain, ThreadFacts
<1>12. DataIntact'
  <2>1. \A u \in Workers : /\ Filled(u)' \subseteq Filled(u)
                           /\ \A k \in Filled(u) : objs'[u][k] = objs[u][k]
    <3>1. ASSUME NEW u \in Workers \ {t}
          PROVE  Filled(u)' = Filled(u) /\ objs'[u] = objs[u]
      BY <1>6, OthersKeep, ThreadFacts DEF OthersSame
    <3>2. QED BY <1>5, <1>9, <3>1
  <2>2. QED BY <1>3, <2>1, DataSame
<1>13. QED
  BY <1>3, <1>5, <1>6, <1>7, <1>8, <1>11, <1>12, WorkerStep DEF TypeOK

\* t writes its own name into its last object, and no other object is touched.
LEMMA FillObjectInv ==
  ASSUME IInv, NEW t \in Workers, FillObject(t)
  PROVE  IInv'
<1>. USE DEF IInv, FillObject
<1>. DEFINE n == Len(objs[t])
<1>1. n \in 1 .. n /\ n \in Nat /\ objs[t][n] \in 1 .. Capacity /\ DOMAIN objs[t] = 1 .. n
  <2>1. objs[t] # <<>> /\ objs[t] \in Seq(1 .. Capacity)
    BY WorkerFacts DEF CallsOK, CallOK
  <2>2. n # 0 /\ n \in Nat
    BY <2>1
  <2>3. QED BY <2>2, WorkerFacts
<1>2. /\ PoolInv' /\ UNCHANGED <<pc, node, held>>
      /\ next'[objs[t][n]] = t
      /\ \A x \in (1 .. Capacity) \ {objs[t][n]} : next'[x] = next[x]
  BY <1>1, UserWriteStep, ThreadFacts
<1>3. /\ phase' \in [Threads -> Phases] /\ phase'[t] = "allocate"
      /\ i' \in [Threads -> 0 .. Demand] /\ i'[t] = i[t] + 1 /\ i[t] \in Nat
      /\ OthersSame(t)
  <2>1. i[t] + 1 <= PerThread /\ i[t] \in Nat
    BY WorkerFacts DEF CountsOK, CountOK, Asked
  <2>2. i[t] + 1 \in 0 .. Demand
    <3>1. PerThread \in Nat /\ Demand \in Nat /\ PerThread <= Demand
      BY DemandFacts, ThreadFacts
    <3>2. QED BY <2>1, <3>1
  <2>3. QED BY <2>1, <2>2, ThreadFacts DEF TypeOK, OthersSame, Phases
<1>4. CountOK(t)'
  BY <1>3 DEF CountsOK, CountOK, Asked
<1>5. CallOK(t)' /\ OthersStay(t)
  <2>1. pc[t] = "idle"
    BY DEF CallsOK, CallOK
  <2>2. QED BY <1>2, <1>3, <2>1 DEF CallOK, OthersStay
<1>6. /\ Kept(t) = 1 .. n /\ Kept(t)' = 1 .. n
      /\ Filled(t) = 1 .. n - 1 /\ Filled(t)' = 1 .. n
  BY <1>1, <1>3, ThreadFacts DEF Kept, Filled
<1>7. OwnersOK'
  BY <1>2, <1>3, <1>6, OthersKeep, OwnersSame
<1>8. DataIntact'
  <2>. SUFFICES ASSUME NEW u \in Workers, NEW k \in Filled(u)' PROVE next'[objs[u][k]] = u
    BY DEF DataIntact
  <2>1. CASE u = t /\ k = n
    BY <2>1, <1>2
  <2>2. CASE u # t \/ k # n
    <3>1. k \in Filled(u)
      BY <2>2, <1>1, <1>3, <1>6, OthersKeep, ThreadFacts
    <3>2. k \in Kept(u) /\ n \in Kept(t) /\ objs[u][k] \in 1 .. Capacity
      BY <3>1, <1>1, <1>6, KeptFacts, WorkerFacts
    <3>3. objs[u][k] # objs[t][n]
      BY <2>2, <3>2, ThreadFacts DEF OwnersOK
    <3>4. QED BY <1>2, <3>1, <3>2, <3>3 DEF DataIntact
  <2>3. QED BY <2>1, <2>2
<1>9. QED
  BY <1>2, <1>3, <1>4, <1>5, <1>7, <1>8, WorkerStep, WorkerFacts DEF TypeOK


LEMMA StartReturningInv ==
  ASSUME IInv, NEW t \in Workers, StartReturning(t)
  PROVE  IInv'
<1>. USE DEF IInv, StartReturning, EnterPhase, poolVars, Idle
<1>1. PoolInv' /\ UNCHANGED <<pc, node, held, next>> /\ OthersStay(t)
  <2>1. UNCHANGED LF!vars /\ UNCHANGED MX!vars /\ UNCHANGED impl
    BY DEF LF!vars, MX!vars
  <2>2. PoolInv'
    BY <2>1, PoolStutter
  <2>3. QED BY <2>2 DEF OthersStay
<1>2. /\ phase' \in [Threads -> Phases] /\ phase'[t] = "deallocate"
      /\ i' \in [Threads -> 0 .. Demand] /\ i'[t] = 0 /\ OthersSame(t)
  <2>1. 0 \in 0 .. Demand
    BY DemandFacts
  <2>2. QED BY <2>1, ThreadFacts DEF TypeOK, OthersSame, Phases
<1>3. CountOK(t)'
  BY <1>2, ThreadFacts DEF CountsOK, CountOK, Asked
<1>4. CallOK(t)'
  BY <1>1, <1>2, WorkerFacts DEF CallOK
<1>5. Kept(t) = 1 .. Len(objs[t]) /\ Kept(t)' = 1 .. Len(objs[t])
      /\ Filled(t) = 1 .. Len(objs[t]) /\ Filled(t)' = 1 .. Len(objs[t])
  BY <1>2, WorkerFacts, ThreadFacts DEF Kept, Filled
<1>6. OwnersOK'
  BY <1>1, <1>2, <1>5, OthersKeep, OwnersSame
<1>7. DataIntact'
  BY <1>1, <1>2, <1>5, OthersKeep, DataSame, ThreadFacts
<1>8. QED
  BY <1>1, <1>2, <1>3, <1>4, <1>6, <1>7, WorkerStep, WorkerFacts DEF TypeOK

LEMMA ReturnObjectInv ==
  ASSUME IInv, NEW t \in Workers, ReturnObject(t)
  PROVE  IInv'
<1>. USE DEF IInv, ReturnObject, Idle
<1>. DEFINE n == i[t] + 1
<1>1. /\ n \in 1 .. Len(objs[t]) /\ n \in Nat /\ i[t] \in Nat /\ Len(objs[t]) \in Nat
      /\ objs[t][n] \in 1 .. Capacity /\ Len(objs[t]) <= PerThread
  BY WorkerFacts DEF TypeOK
<1>2. /\ PoolInv' /\ pc[t] = "idle" /\ Returning(t)' /\ OthersStay(t)
      /\ held' = held \ {objs[t][n]} /\ node'[t] = objs[t][n] /\ next' = next
  BY <1>1, CallDeallocateStep, ThreadFacts
<1>3. i' \in [Threads -> 0 .. Demand] /\ i'[t] = n /\ OthersSame(t)
  <2>1. n \in 0 .. Demand
    <3>1. PerThread \in Nat /\ Demand \in Nat /\ PerThread <= Demand
      BY DemandFacts, ThreadFacts
    <3>2. QED BY <1>1, <3>1
  <2>2. QED BY <2>1, ThreadFacts DEF TypeOK, OthersSame
<1>4. CountOK(t)'
  BY DEF CountsOK, CountOK, Asked
<1>5. CallOK(t)'
  BY <1>1, <1>2, <1>3 DEF CallOK
<1>6. /\ Kept(t) = n .. Len(objs[t]) /\ Kept(t)' = n + 1 .. Len(objs[t])
      /\ Filled(t) = n .. Len(objs[t]) /\ Filled(t)' = n + 1 .. Len(objs[t])
  BY <1>3, ThreadFacts DEF Kept, Filled
<1>7. n \in Kept(t) /\ Kept(t)' = Kept(t) \ {n} /\ Filled(t)' \subseteq Filled(t)
  BY <1>1, <1>6
<1>8. OwnersOK'
  <2>. HIDE DEF n
  <2>1. QED BY <1>2, <1>3, <1>7, OthersKeep, OwnersLose, ThreadFacts
<1>9. DataIntact'
  BY <1>2, <1>3, <1>7, OthersKeep, DataSame, ThreadFacts
<1>10. QED
  BY <1>2, <1>3, <1>4, <1>5, <1>8, <1>9, WorkerStep, WorkerFacts DEF TypeOK

LEMMA ObjectReturnedInv ==
  ASSUME IInv, NEW t \in Workers, ObjectReturned(t)
  PROVE  IInv'
<1>. USE DEF IInv, ObjectReturned, testVars
<1>1. /\ PoolInv' /\ pc'[t] = "idle" /\ OthersStay(t) /\ held' = held /\ next' = next
  BY DeallocateReturnsStep, ThreadFacts
<1>2. CallsOK'
  <2>1. ASSUME NEW u \in Workers, u # t PROVE CallOK(u)'
    BY <1>1, <2>1, ThreadFacts DEF CallsOK, CallOK, OthersStay, Requesting, Returning
  <2>2. CallOK(t)'
    BY <1>1, ThreadFacts DEF CallsOK, CallOK
  <2>3. QED BY <1>1, <2>1, <2>2, ThreadFacts DEF CallsOK, OthersStay, Requesting
<1>3. QED BY <1>1, <1>2, UnseenInv

LEMMA FinishInv ==
  ASSUME IInv, NEW t \in Workers, Finish(t)
  PROVE  IInv'
<1>. USE DEF IInv, Finish, EnterPhase, poolVars, Idle
<1>1. PoolInv' /\ UNCHANGED <<pc, node, held, next>> /\ OthersStay(t)
  <2>1. UNCHANGED LF!vars /\ UNCHANGED MX!vars /\ UNCHANGED impl
    BY DEF LF!vars, MX!vars
  <2>2. PoolInv'
    BY <2>1, PoolStutter
  <2>3. QED BY <2>2 DEF OthersStay
<1>2. /\ phase' \in [Threads -> Phases] /\ phase'[t] = "done"
      /\ i' \in [Threads -> 0 .. Demand] /\ OthersSame(t)
  <2>1. 0 \in 0 .. Demand
    BY DemandFacts
  <2>2. QED BY <2>1, ThreadFacts DEF TypeOK, OthersSame, Phases
<1>3. CountOK(t)'
  BY <1>2 DEF CountsOK, CountOK, Asked
<1>4. CallOK(t)'
  BY <1>1, <1>2 DEF CallOK
<1>5. Kept(t) = {} /\ Kept(t)' = {} /\ Filled(t)' = {}
  BY <1>2, WorkerFacts, ThreadFacts DEF Kept, Filled
<1>6. OwnersOK'
  BY <1>1, <1>2, <1>5, OthersKeep, OwnersSame
<1>7. DataIntact'
  BY <1>1, <1>2, <1>5, OthersKeep, DataSame, ThreadFacts
<1>8. QED
  BY <1>1, <1>2, <1>3, <1>4, <1>6, <1>7, WorkerStep, WorkerFacts DEF TypeOK

LEMMA WorkerInv ==
  ASSUME IInv, NEW t \in Workers, Worker(t)
  PROVE  IInv'
BY RequestObjectInv, GetNothingInv, GetObjectInv, FillObjectInv, StartReturningInv,
   ReturnObjectInv, ObjectReturnedInv, FinishInv DEF Worker

-----------------------------------------------------------------------------
\* The steps of main(), and those inside the pool.

\* What is left to show of a step of main(), which writes no object.
LEMMA MainStep ==
  ASSUME IInv, PoolInv', OthersSame(Main), OthersStay(Main), next' = next,
         phase' \in [Threads -> Phases], i' \in [Threads -> 0 .. Demand],
         objs' \in [Threads -> Seq((1 .. Capacity) \cup {NULL})], Len(objs'[Main]) <= Demand,
         phase'[Main] \in {"recount", "done"},
         pc'[Main] = "idle", OwnersOK', RecountOK'
  PROVE  IInv'
<1>. USE DEF IInv
<1>1. ASSUME NEW u \in Workers
      PROVE  /\ CallOK(u)' /\ CountOK(u)'
             /\ Filled(u)' = Filled(u) /\ objs'[u] = objs[u]
  <2>1. /\ pc'[u] = pc[u] /\ node'[u] = node[u]
        /\ phase'[u] = phase[u] /\ i'[u] = i[u] /\ objs'[u] = objs[u]
        /\ Asked(u)' = Asked(u) /\ Filled(u)' = Filled(u)
        /\ (Requesting(u)' <=> Requesting(u)) /\ (Returning(u)' <=> Returning(u))
    <3>1. u \in Threads \ {Main}
      BY ThreadFacts
    <3>2. pc'[u] = pc[u] /\ node'[u] = node[u]
      BY <3>1 DEF OthersStay
    <3>3. phase'[u] = phase[u] /\ i'[u] = i[u] /\ objs'[u] = objs[u]
      BY <3>1 DEF OthersSame
    <3>4. Asked(u)' = Asked(u) /\ Filled(u)' = Filled(u)
      BY <3>1, OthersKeep
    <3>5. QED BY <3>2, <3>3, <3>4 DEF Requesting, Returning
  <2>2. CallOK(u)'
    BY <2>1 DEF CallsOK, CallOK
  <2>3. CountOK(u)'
    BY <2>1 DEF CountsOK, CountOK
  <2>4. QED BY <2>1, <2>2, <2>3
<1>2. CallsOK' /\ CountsOK'
  BY <1>1 DEF CallsOK, CountsOK
<1>3. TypeOK'
  BY <1>1, ThreadFacts DEF TypeOK
<1>4. DataIntact'
  BY <1>1, DataSame
<1>5. QED BY <1>2, <1>3, <1>4

LEMMA JoinInv ==
  ASSUME IInv, Join
  PROVE  IInv'
<1>. USE DEF IInv, Join, EnterPhase, poolVars
<1>1. PoolInv' /\ UNCHANGED <<pc, node, held, next>> /\ OthersStay(Main)
  <2>1. UNCHANGED LF!vars /\ UNCHANGED MX!vars /\ UNCHANGED impl
    BY DEF LF!vars, MX!vars
  <2>2. PoolInv'
    BY <2>1, PoolStutter
  <2>3. QED BY <2>2 DEF OthersStay
<1>2. /\ phase' \in [Threads -> Phases] /\ phase'[Main] = "recount"
      /\ i' \in [Threads -> 0 .. Demand] /\ i'[Main] = 0 /\ OthersSame(Main)
  <2>1. 0 \in 0 .. Demand
    BY DemandFacts
  <2>2. QED BY <2>1, ThreadFacts DEF TypeOK, OthersSame, Phases
<1>3. objs[Main] = <<>>
  BY DEF RecountOK
<1>4. RecountOK'
  BY <1>2, <1>3, ThreadFacts DEF RecountOK, OthersSame
<1>5. OwnersOK'
  <2>1. Kept(Main)' = Kept(Main)
    BY DEF Kept
  <2>2. QED BY <1>1, <1>2, <2>1, OthersKeep, OwnersSame
<1>6. pc'[Main] = "idle"
  BY <1>1 DEF CallsOK
<1>7. QED BY <1>1, <1>2, <1>4, <1>5, <1>6, MainStep DEF TypeOK

LEMMA RequestAgainInv ==
  ASSUME IInv, RequestAgain
  PROVE  IInv'
<1>. USE DEF IInv, RequestAgain, testVars
<1>1. /\ PoolInv' /\ pc[Main] = "idle" /\ Requesting(Main)' /\ OthersStay(Main)
      /\ held' = held /\ next' = next
  BY CallAllocateStep, ThreadFacts
<1>2. CallsOK'
  BY <1>1, ThreadFacts DEF CallsOK, CallOK, OthersStay, Requesting, Returning
<1>3. QED BY <1>1, <1>2, UnseenInv

LEMMA GetAgainInv ==
  ASSUME IInv, GetAgain
  PROVE  IInv'
<1>. USE DEF IInv, GetAgain
<1>1. PICK p \in (1 .. Capacity) \cup {NULL} :
        AllocateReturns(Main, p) /\ objs' = [objs EXCEPT ![Main] = Append(@, p)]
  OBVIOUS
<1>2. /\ PoolInv' /\ pc'[Main] = "idle" /\ OthersStay(Main) /\ next' = next
      /\ p # NULL => p \notin held \cup InTransit /\ held' = held \cup {p}
      /\ p = NULL => 1 .. Capacity \subseteq held \cup InTransit /\ held' = held
  BY <1>1, AllocateReturnsStep, ThreadFacts
<1>3. /\ Len(objs[Main]) = i[Main] /\ i[Main] \in Nat
      /\ DOMAIN objs[Main] = 1 .. i[Main] /\ Demand \in Nat
  BY MainFacts, DemandFacts DEF RecountOK
<1>. DEFINE n == i[Main] + 1
<1>4. /\ objs'[Main] \in Seq((1 .. Capacity) \cup {NULL}) /\ Len(objs'[Main]) = n /\ n \in Nat \ {0}
      /\ objs'[Main][n] = p /\ \A k \in 1 .. i[Main] : objs'[Main][k] = objs[Main][k]
      /\ DOMAIN objs'[Main] = 1 .. n
  BY <1>1, <1>3, MainFacts, ThreadFacts
<1>5. /\ objs' \in [Threads -> Seq((1 .. Capacity) \cup {NULL})] /\ OthersSame(Main)
      /\ i'[Main] = n /\ i' \in [Threads -> 0 .. Demand] /\ n <= Demand
  <2>1. n \in 0 .. Demand /\ n <= Demand
    BY <1>3
  <2>2. QED BY <1>1, <1>4, <2>1, ThreadFacts DEF TypeOK, OthersSame
<1>6. /\ Kept(Main) = {k \in 1 .. i[Main] : objs[Main][k] # NULL}
      /\ Kept(Main)' = {k \in 1 .. n : objs'[Main][k] # NULL}
      /\ 1 .. n = 1 .. i[Main] \cup {n} /\ n \notin 1 .. i[Main]
  BY <1>3, <1>4, SMTT(30) DEF Kept
<1>7. CASE p = NULL
  <2>1. held' = held /\ held = 1 .. Capacity
    BY <1>2, <1>7, NothingInTransit, PoolFacts
  <2>2. OwnersOK'
    <3>1. Kept(Main)' = Kept(Main) /\ \A k \in Kept(Main) : objs'[Main][k] = objs[Main][k]
      BY <1>4, <1>6, <1>7
    <3>2. \A u \in Threads \ {Main} : Kept(u)' = Kept(u) /\ objs'[u] = objs[u]
      BY <1>5, OthersKeep DEF OthersSame
    <3>3. QED BY <2>1, <3>1, <3>2, OwnersSame
  <2>3. RecountOK'
    BY <1>4, <1>5, <2>1, ThreadFacts DEF RecountOK, OthersSame
  <2>4. QED BY <1>2, <1>4, <1>5, <2>2, <2>3, MainStep DEF TypeOK
<1>8. CASE p # NULL
  <2>1. OwnersOK'
    <3>. HIDE DEF n
    <3>1. /\ Kept(Main)' = Kept(Main) \cup {n} /\ n \notin Kept(Main)
          /\ \A k \in Kept(Main) : objs'[Main][k] = objs[Main][k]
      BY <1>4, <1>6, <1>8
    <3>2. \A u \in Threads \ {Main} : Kept(u)' = Kept(u) /\ objs'[u] = objs[u]
      BY <1>5, OthersKeep DEF OthersSame
    <3>3. p \notin held /\ held' = held \cup {p} /\ objs'[Main][n] = p
      BY <1>2, <1>4, <1>8
    <3>4. QED BY <3>1, <3>2, <3>3, OwnersGain, ThreadFacts
  <2>2. ~ \E k \in DOMAIN objs'[Main] : objs'[Main][k] = NULL
    <3>1. \A k \in 1 .. i[Main] : objs[Main][k] # NULL
      BY <1>2, <1>3, <1>8 DEF RecountOK
    <3>2. QED BY <1>3, <1>4, <1>8, <3>1
  <2>3. RecountOK'
    BY <1>4, <1>5, <2>2, ThreadFacts DEF RecountOK, OthersSame
  <2>4. QED BY <1>2, <1>4, <1>5, <2>1, <2>3, MainStep DEF TypeOK
<1>9. QED BY <1>7, <1>8

LEMMA AssertEmptyInv ==
  ASSUME IInv, AssertEmpty
  PROVE  IInv'
<1>. USE DEF IInv, AssertEmpty
<1>1. PICK p \in (1 .. Capacity) \cup {NULL} :
        /\ AllocateReturns(Main, p)
        /\ phase' = [phase EXCEPT ![Main] = IF p = NULL THEN "done" ELSE "aborted"]
  OBVIOUS
<1>2. /\ PoolInv' /\ pc'[Main] = "idle" /\ OthersStay(Main) /\ next' = next
      /\ p # NULL => p \notin held \cup InTransit /\ held' = held \cup {p}
      /\ p = NULL => 1 .. Capacity \subseteq held \cup InTransit /\ held' = held
  BY <1>1, AllocateReturnsStep, ThreadFacts
<1>3. p = NULL
  BY <1>2, NothingLeft
<1>4. held' = held /\ held = 1 .. Capacity
  BY <1>2, <1>3, NothingInTransit, PoolFacts
<1>5. phase' \in [Threads -> Phases] /\ phase'[Main] = "done" /\ OthersSame(Main)
  BY <1>1, <1>3, ThreadFacts DEF TypeOK, OthersSame, Phases
<1>6. OwnersOK'
  <2>1. Kept(Main)' = Kept(Main)
    BY DEF Kept
  <2>2. QED BY <1>4, <1>5, <2>1, OthersKeep, OwnersSame
<1>7. RecountOK'
  BY <1>4, <1>5, ThreadFacts DEF RecountOK, OthersSame
<1>8. QED BY <1>2, <1>5, <1>6, <1>7, MainStep DEF TypeOK

LEMMA MainInv ==
  ASSUME IInv, MainThread
  PROVE  IInv'
BY JoinInv, RequestAgainInv, GetAgainInv, AssertEmptyInv DEF MainThread

LEMMA InsideInv ==
  ASSUME IInv, NEW t \in Threads, Inside(t), UNCHANGED testVars
  PROVE  IInv'
<1>. USE DEF IInv, testVars
<1>1. /\ PoolInv' /\ OthersStay(t) /\ node'[t] = node[t]
      /\ (Requesting(t) /\ Requesting(t)') \/ (Returning(t) /\ Returning(t)')
      /\ held' = held /\ \A s \in held : next'[s] = next[s]
  BY InsideStep
<1>2. /\ Requesting(t) => ~Returning(t) /\ pc[t] # "idle"
      /\ Returning(t) => ~Requesting(t) /\ pc[t] # "idle"
  BY PoolFacts
<1>3. \A u \in Workers : CallOK(u)'
  BY <1>1, <1>2, ThreadFacts DEF CallsOK, CallOK, OthersStay, Requesting, Returning
<1>4. CallsOK'
  BY <1>1, <1>2, <1>3, ThreadFacts DEF CallsOK, OthersStay, Requesting, Returning
<1>5. QED BY <1>1, <1>4, UnseenInv

-----------------------------------------------------------------------------
\* The theorems.

LEMMA InitInv == Init => IInv
<1>. SUFFICES ASSUME Init PROVE IInv
  OBVIOUS
<1>. USE DEF Init
<1>1. PoolInv
  BY PoolInitInv
<1>2. held = {} /\ \A t \in Threads : pc[t] = "idle"
  BY DEF PoolInit, LF!Init
<1>3. /\ phase \in [Threads -> Phases] /\ phase[Main] = "join"
      /\ \A t \in Workers : phase[t] = "allocate" /\ t # Main
      /\ \A t \in Threads : objs[t] = <<>> /\ i[t] = 0
      /\ objs \in [Threads -> Seq((1 .. Capacity) \cup {NULL})]
  BY ThreadFacts DEF Phases
<1>4. TypeOK
  BY <1>3, ThreadFacts, DemandFacts DEF TypeOK
<1>5. CallsOK
  BY <1>2, <1>3, ThreadFacts DEF CallsOK, CallOK
<1>6. \A t \in Threads : Kept(t) = {} /\ (t # Main => Filled(t) = {})
  BY <1>3, ThreadFacts DEF Kept, Filled
<1>7. OwnersOK /\ DataIntact
  BY <1>2, <1>6, ThreadFacts DEF OwnersOK, DataIntact
<1>8. CountsOK
  BY <1>3, ThreadFacts DEF CountsOK, CountOK, Asked
<1>9. RecountOK
  BY <1>3, ThreadFacts DEF RecountOK
<1>10. QED BY <1>1, <1>3, <1>4, <1>5, <1>7, <1>8, <1>9 DEF IInv

LEMMA StepInv == IInv /\ [Next]_vars => IInv'
<1>. SUFFICES ASSUME IInv, [Next]_vars PROVE IInv'
  OBVIOUS
<1>1. CASE UNCHANGED vars
  <2>1. UNCHANGED LF!vars /\ UNCHANGED MX!vars /\ UNCHANGED impl /\ UNCHANGED testVars
    BY <1>1 DEF LF!vars, MX!vars, vars, poolVars
  <2>2. PoolInv' /\ UNCHANGED <<pc, node, held, next>>
    BY <1>1, <2>1, PoolStutter DEF IInv, vars, poolVars
  <2>3. CallsOK'
    BY <2>1, <2>2 DEF IInv, CallsOK, CallOK, Requesting, Returning, testVars
  <2>4. QED BY <2>1, <2>2, <2>3, UnseenInv
<1>2. ASSUME NEW t \in Threads, ThreadStep(t) PROVE IInv'
  BY <1>2, WorkerInv, MainInv, InsideInv DEF ThreadStep
<1>3. QED BY <1>1, <1>2 DEF Next, Ended

\* The inductive invariant holds in every state of the program.
THEOREM Invariance == Spec => []IInv
<1>1. Init => IInv
  BY InitInv
<1>2. IInv /\ [Next]_vars => IInv'
  BY StepInv
<1>3. QED BY <1>1, <1>2, PTL DEF Spec

\* A worker's list holds slots only, and no more than it has asked for.
THEOREM TypeCorrect == Spec => []TypeOK
<1>1. IInv => TypeOK
  BY DEF IInv
<1>2. QED BY <1>1, Invariance, PTL

\* What a worker has written into its objects is there until it gives them back:
\* neither another worker nor a link of the pool ever lands in them.
THEOREM DataStaysIntact == Spec => []DataIntact
<1>1. IInv => DataIntact
  BY DEF IInv
<1>2. QED BY <1>1, Invariance, PTL

\* A worker is turned away only when the others have, or may still have, all that
\* it does not get.
THEOREM WorkersAreServed == Spec => []NeverTurnedAway
<1>1. IInv => NeverTurnedAway
  BY DEF IInv, CountsOK, CountOK, Asked, NeverTurnedAway
<1>2. QED BY <1>1, Invariance, PTL

\* When main() has ended it has everything, once.
LEMMA Recounted ==
  ASSUME IInv
  PROVE  AllComeBack
<1>. USE DEF IInv
<1>. SUFFICES ASSUME phase[Main] \in {"done", "aborted"}
              PROVE  /\ phase[Main] = "done"
                     /\ \A s \in 1 .. Capacity :
                          Cardinality({k \in DOMAIN objs[Main] : objs[Main][k] = s}) = 1
  BY DEF AllComeBack
<1>1. phase[Main] = "done" /\ held = 1 .. Capacity /\ \A t \in Workers : phase[t] = "done"
  <2>1. phase[Main] = "done"
    BY DEF CallsOK
  <2>2. QED BY <2>1 DEF RecountOK
<1>2. \A t \in Workers : Kept(t) = {}
  BY <1>1, ThreadFacts DEF Kept
<1>3. ASSUME NEW s \in 1 .. Capacity
      PROVE  Cardinality({k \in DOMAIN objs[Main] : objs[Main][k] = s}) = 1
  <2>1. PICK u \in Threads : \E k \in Kept(u) : objs[u][k] = s
    <3>1. s \in held
      BY <1>1
    <3>2. QED BY <3>1 DEF OwnersOK
  <2>2. u = Main
    BY <1>2, <2>1, ThreadFacts
  <2>3. PICK n \in Kept(Main) : objs[Main][n] = s
    BY <2>1, <2>2
  <2>4. \A k \in DOMAIN objs[Main] : objs[Main][k] = s => k \in Kept(Main)
    BY AdaptiveAssumption DEF Kept
  <2>5. \A k \in DOMAIN objs[Main] : objs[Main][k] = s => k = n
    <3>1. \A k, l \in Kept(Main) : objs[Main][k] = objs[Main][l] => k = l
      BY ThreadFacts DEF OwnersOK
    <3>2. QED BY <2>3, <2>4, <3>1
  <2>6. {k \in DOMAIN objs[Main] : objs[Main][k] = s} = {n}
    BY <2>3, <2>5 DEF Kept
  <2>7. QED BY <2>6, FS_Singleton
<1>4. QED BY <1>1, <1>3

\* main() finds every slot exactly once, and its assertion holds.
THEOREM EverySlotComesBack == Spec => []AllComeBack
<1>1. IInv => AllComeBack
  BY Recounted
<1>2. QED BY <1>1, Invariance, PTL

-----------------------------------------------------------------------------
\* The program runs on an ObjectPool.  Its free slots are those that are neither
\* handed out nor on their way back, and its calls those the threads are in.

AbstractFree == (1 .. Capacity) \ (held \cup InTransit)
AbstractCall == [t \in Threads |->
                   [op   |-> IF Requesting(t) THEN "allocate"
                             ELSE IF Returning(t) THEN "deallocate" ELSE "none",
                    slot |-> node[t]]]

\* A thread is in one call at most, only who gives a slot back has one in its
\* hands, and nobody else has the same.
CallsApart ==
  /\ \A t \in Threads :
       /\ ~(Requesting(t) /\ Returning(t))
       /\ (pc[t] = "idle") <=> ~(Requesting(t) \/ Returning(t))
       /\ Returning(t) => node[t] \in (1 .. Capacity) \ held
       /\ ~Returning(t) => node[t] = NULL
  /\ \A t, u \in Threads : Returning(t) /\ Returning(u) /\ node[t] = node[u] => t = u

LEMMA ApartNow == PoolInv => CallsApart
<1>1. ASSUME PoolInv, impl = "lockfree" PROVE CallsApart
  BY <1>1, Labels DEF PoolInv, LF!IInv, LF!TypeOK, LF!TransitOK, LF!Slots, Returning, Requesting, CallsApart
<1>2. ASSUME PoolInv, impl = "mutex" PROVE CallsApart
  BY <1>2, Labels DEF PoolInv, MX!IInv, MX!TypeOK, MX!TransitOK, MX!Slots, Returning, Requesting, CallsApart
<1>3. QED BY <1>1, <1>2 DEF PoolInv

LEMMA ApartNext == PoolInv' => CallsApart'
<1>1. ASSUME PoolInv', impl' = "lockfree" PROVE CallsApart'
  BY <1>1, Labels DEF PoolInv, LF!IInv, LF!TypeOK, LF!TransitOK, LF!Slots, Returning, Requesting, CallsApart
<1>2. ASSUME PoolInv', impl' = "mutex" PROVE CallsApart'
  BY <1>2, Labels DEF PoolInv, MX!IInv, MX!TypeOK, MX!TransitOK, MX!Slots, Returning, Requesting, CallsApart
<1>3. QED BY <1>1, <1>2 DEF PoolInv

LEMMA OthersCalls ==
  ASSUME NEW t \in Threads, OthersStay(t)
  PROVE  /\ \A u \in Threads \ {t} : /\ (Returning(u)' <=> Returning(u))
                                      /\ (Requesting(u)' <=> Requesting(u))
                                      /\ node'[u] = node[u]
         /\ \A c : AbstractCall'[t] = c => AbstractCall' = [AbstractCall EXCEPT ![t] = c]
<1>1. \A u \in Threads \ {t} : /\ (Returning(u)' <=> Returning(u))
                               /\ (Requesting(u)' <=> Requesting(u))
                               /\ node'[u] = node[u]
  BY DEF OthersStay, Returning, Requesting
<1>2. \A u \in Threads \ {t} : AbstractCall'[u] = AbstractCall[u]
  BY <1>1 DEF AbstractCall
<1>3. QED BY <1>1, <1>2 DEF AbstractCall

\* What is in transit is what was, but for the slot of the thread that moves.
LEMMA TransitOfOthers ==
  ASSUME NEW t \in Threads, OthersStay(t), NEW s
  PROVE  s \in InTransit' <=> \/ Returning(t)' /\ node'[t] = s
                              \/ \E u \in Threads \ {t} : Returning(u) /\ node[u] = s
<1>1. s \in InTransit' <=> \E u \in Threads : Returning(u)' /\ node'[u] = s
  BY DEF InTransit
<1>2. QED BY <1>1, OthersCalls

LEMMA TransitBefore ==
  ASSUME NEW t \in Threads, NEW s
  PROVE  s \in InTransit <=> \/ Returning(t) /\ node[t] = s
                             \/ \E u \in Threads \ {t} : Returning(u) /\ node[u] = s
BY InTransitDef

\* The calls of a thread, each with what it means for an ObjectPool.
LEMMA AbstractCallAllocate ==
  ASSUME PoolInv, NEW t \in Threads, CallAllocate(t)
  PROVE  Abstract!CallAllocate(t)
<1>1. PoolInv' /\ pc[t] = "idle" /\ Requesting(t)' /\ OthersStay(t) /\ held' = held
  BY CallAllocateStep
<1>2. ~Returning(t) /\ ~Returning(t)' /\ ~Requesting(t)
  BY <1>1, ApartNow, ApartNext DEF CallsApart
<1>3. AbstractCall[t] = Abstract!NoCall
  BY <1>1, <1>2, ApartNow DEF AbstractCall, CallsApart, Abstract!NoCall
<1>4. AbstractCall'[t] = [op |-> "allocate", slot |-> NULL]
  BY <1>1, <1>2, ApartNext DEF AbstractCall, CallsApart
<1>5. AbstractCall' = [AbstractCall EXCEPT ![t] = [op |-> "allocate", slot |-> NULL]]
  BY <1>1, <1>4, OthersCalls
<1>6. AbstractFree' = AbstractFree
  BY <1>1, <1>2, TransitOfOthers, TransitBefore DEF AbstractFree
<1>7. QED BY <1>1, <1>3, <1>5, <1>6 DEF Abstract!CallAllocate, AbstractCall, AbstractFree

LEMMA AbstractInside ==
  ASSUME PoolInv, NEW t \in Threads, Inside(t)
  PROVE  UNCHANGED Abstract!vars
<1>1. /\ PoolInv' /\ OthersStay(t) /\ node'[t] = node[t] /\ held' = held
      /\ (Requesting(t) /\ Requesting(t)') \/ (Returning(t) /\ Returning(t)')
  BY InsideStep
<1>2. (Requesting(t)' <=> Requesting(t)) /\ (Returning(t)' <=> Returning(t))
  BY <1>1, ApartNow, ApartNext DEF CallsApart
<1>3. AbstractCall'[t] = AbstractCall[t]
  BY <1>1, <1>2 DEF AbstractCall
<1>4. AbstractCall' = AbstractCall
  BY <1>1, <1>3, OthersCalls DEF AbstractCall
<1>5. AbstractFree' = AbstractFree
  BY <1>1, <1>2, TransitOfOthers, TransitBefore DEF AbstractFree
<1>6. QED BY <1>1, <1>4, <1>5 DEF Abstract!vars, AbstractCall, AbstractFree

LEMMA AbstractAllocateReturns ==
  ASSUME PoolInv, NEW t \in Threads, NEW p \in (1 .. Capacity) \cup {NULL}, AllocateReturns(t, p)
  PROVE  Abstract!Allocate(t) \/ Abstract!AllocateFails(t)
<1>1. /\ PoolInv' /\ Requesting(t) /\ pc'[t] = "idle" /\ OthersStay(t)
      /\ p # NULL => p \notin held \cup InTransit /\ held' = held \cup {p}
      /\ p = NULL => 1 .. Capacity \subseteq held \cup InTransit /\ held' = held
  BY AllocateReturnsStep
<1>2. ~Returning(t) /\ ~Returning(t)' /\ ~Requesting(t)'
  BY <1>1, ApartNow, ApartNext DEF CallsApart
<1>3. AbstractCall[t].op = "allocate"
  BY <1>1 DEF AbstractCall
<1>4. AbstractCall'[t] = Abstract!NoCall
  BY <1>1, <1>2, ApartNext DEF AbstractCall, CallsApart, Abstract!NoCall
<1>5. AbstractCall' = [AbstractCall EXCEPT ![t] = Abstract!NoCall]
  BY <1>1, <1>4, OthersCalls
<1>6. \A s : s \in InTransit' <=> s \in InTransit
  BY <1>1, <1>2, TransitOfOthers, TransitBefore
<1>7. CASE p = NULL
  <2>1. AbstractFree = {} /\ AbstractFree' = {} /\ held' = held
    BY <1>1, <1>6, <1>7 DEF AbstractFree
  <2>2. QED BY <1>3, <1>5, <2>1 DEF Abstract!AllocateFails, AbstractCall, AbstractFree
<1>8. CASE p # NULL
  <2>1. p \in AbstractFree /\ AbstractFree' = AbstractFree \ {p} /\ held' = held \cup {p}
    BY <1>1, <1>6, <1>8 DEF AbstractFree
  <2>2. QED BY <1>3, <1>5, <2>1 DEF Abstract!Allocate, AbstractCall, AbstractFree
<1>9. QED BY <1>7, <1>8

LEMMA AbstractCallDeallocate ==
  ASSUME PoolInv, NEW t \in Threads, NEW s \in 1 .. Capacity, CallDeallocate(t, s)
  PROVE  Abstract!CallDeallocate(t, s)
<1>1. /\ PoolInv' /\ pc[t] = "idle" /\ Returning(t)' /\ OthersStay(t)
      /\ s \in held /\ held' = held \ {s} /\ node'[t] = s
  BY CallDeallocateStep
<1>2. ~Returning(t) /\ ~Requesting(t) /\ ~Requesting(t)'
  BY <1>1, ApartNow, ApartNext DEF CallsApart
<1>3. AbstractCall[t] = Abstract!NoCall
  BY <1>1, <1>2, ApartNow DEF AbstractCall, CallsApart, Abstract!NoCall
<1>4. AbstractCall'[t] = [op |-> "deallocate", slot |-> s]
  BY <1>1, <1>2 DEF AbstractCall
<1>5. AbstractCall' = [AbstractCall EXCEPT ![t] = [op |-> "deallocate", slot |-> s]]
  BY <1>1, <1>4, OthersCalls
<1>6. \A x : x \in InTransit' <=> x = s \/ x \in InTransit
  BY <1>1, <1>2, TransitOfOthers, TransitBefore
<1>7. AbstractFree' = AbstractFree
  BY <1>1, <1>6 DEF AbstractFree
<1>8. QED BY <1>1, <1>3, <1>5, <1>7 DEF Abstract!CallDeallocate, AbstractCall, AbstractFree

LEMMA AbstractDeallocateReturns ==
  ASSUME PoolInv, NEW t \in Threads, DeallocateReturns(t)
  PROVE  Abstract!Deallocate(t)
<1>1. PoolInv' /\ Returning(t) /\ pc'[t] = "idle" /\ OthersStay(t) /\ held' = held
  BY DeallocateReturnsStep
<1>2. ~Returning(t)' /\ ~Requesting(t)' /\ ~Requesting(t) /\ node[t] \in (1 .. Capacity) \ held
  BY <1>1, ApartNow, ApartNext DEF CallsApart
<1>3. AbstractCall[t] = [op |-> "deallocate", slot |-> node[t]]
  BY <1>1, <1>2 DEF AbstractCall
<1>4. AbstractCall'[t] = Abstract!NoCall
  BY <1>1, <1>2, ApartNext DEF AbstractCall, CallsApart, Abstract!NoCall
<1>5. AbstractCall' = [AbstractCall EXCEPT ![t] = Abstract!NoCall]
  BY <1>1, <1>4, OthersCalls
<1>6. \A x : x \in InTransit' <=> x # node[t] /\ x \in InTransit
  BY <1>1, <1>2, ApartNow, TransitOfOthers, TransitBefore DEF CallsApart
<1>7. AbstractFree' = AbstractFree \cup {node[t]}
  BY <1>1, <1>2, <1>6 DEF AbstractFree
<1>8. QED BY <1>1, <1>3, <1>5, <1>7 DEF Abstract!Deallocate, AbstractCall, AbstractFree

LEMMA AbstractStutter ==
  ASSUME UNCHANGED <<pc, node, held>>
  PROVE  UNCHANGED Abstract!vars
<1>1. \A t : (Requesting(t)' <=> Requesting(t)) /\ (Returning(t)' <=> Returning(t))
  BY DEF Requesting, Returning
<1>2. AbstractCall' = AbstractCall
  BY <1>1 DEF AbstractCall
<1>3. InTransit' = InTransit
  BY <1>1 DEF InTransit
<1>4. QED BY <1>2, <1>3 DEF Abstract!vars, AbstractCall

LEMMA RefinementInit == Init => Abstract!Init
<1>. SUFFICES ASSUME Init PROVE Abstract!Init
  OBVIOUS
<1>1. held = {} /\ \A t \in Threads : pc[t] = "idle" /\ node[t] = NULL
  BY DEF Init, PoolInit, LF!Init
<1>2. \A t \in Threads : ~Requesting(t) /\ ~Returning(t)
  BY <1>1, Labels DEF Requesting, Returning
<1>3. InTransit = {}
  BY <1>2 DEF InTransit
<1>4. QED BY <1>1, <1>2, <1>3 DEF Abstract!Init, Abstract!NoCall

LEMMA RefinementStep == IInv /\ [Next]_vars => [Abstract!Next]_(Abstract!vars)
<1>. SUFFICES ASSUME IInv, [Next]_vars PROVE Abstract!Next \/ UNCHANGED Abstract!vars
  OBVIOUS
<1>0. PoolInv /\ \A t \in Workers : t \in Threads /\ t \in UserData
  BY ThreadFacts, TestAssumption DEF IInv
<1>1. ASSUME UNCHANGED poolVars PROVE UNCHANGED Abstract!vars
  BY <1>1, AbstractStutter DEF poolVars
<1>2. ASSUME NEW t \in Threads, CallAllocate(t) PROVE Abstract!Next
  BY <1>0, <1>2, AbstractCallAllocate DEF Abstract!Next
<1>3. ASSUME NEW t \in Threads, NEW p \in (1 .. Capacity) \cup {NULL}, AllocateReturns(t, p)
      PROVE  Abstract!Next
  BY <1>0, <1>3, AbstractAllocateReturns DEF Abstract!Next
<1>4. ASSUME NEW t \in Threads, NEW s \in 1 .. Capacity, CallDeallocate(t, s) PROVE Abstract!Next
  BY <1>0, <1>4, AbstractCallDeallocate DEF Abstract!Next
<1>5. ASSUME NEW t \in Threads, DeallocateReturns(t) PROVE Abstract!Next
  BY <1>0, <1>5, AbstractDeallocateReturns DEF Abstract!Next
<1>6. ASSUME NEW t \in Workers, Worker(t) PROVE Abstract!Next \/ UNCHANGED Abstract!vars
  <2>1. t \in Threads
    BY <1>0
  <2>2. CASE RequestObject(t)
    BY <1>2, <2>1, <2>2 DEF RequestObject
  <2>3. CASE GetNothing(t) \/ GetObject(t)
    BY <1>3, <2>1, <2>3 DEF GetNothing, GetObject
  <2>4. CASE FillObject(t)
    <3>1. UNCHANGED <<pc, node, held>>
      BY <2>4 DEF FillObject, UserWrite, Forward, LF!UserWrite, MX!UserWrite
    <3>2. QED BY <3>1, AbstractStutter
  <2>5. CASE StartReturning(t) \/ Finish(t)
    BY <1>1, <2>5 DEF StartReturning, Finish, EnterPhase
  <2>6. CASE ReturnObject(t)
    <3>1. objs[t][i[t] + 1] \in 1 .. Capacity
      <4>1. /\ i[t] \in Nat /\ Len(objs[t]) \in Nat /\ i[t] < Len(objs[t])
            /\ \A k \in 1 .. Len(objs[t]) : objs[t][k] \in 1 .. Capacity
        BY <1>6, <2>6, WorkerFacts DEF IInv, ReturnObject
      <4>2. i[t] + 1 \in 1 .. Len(objs[t])
        BY <4>1
      <4>3. QED BY <4>1, <4>2
    <3>2. QED BY <1>4, <2>1, <2>6, <3>1 DEF ReturnObject
  <2>7. CASE ObjectReturned(t)
    BY <1>5, <2>1, <2>7 DEF ObjectReturned
  <2>8. QED BY <1>6, <2>2, <2>3, <2>4, <2>5, <2>6, <2>7 DEF Worker
<1>7. ASSUME MainThread PROVE Abstract!Next \/ UNCHANGED Abstract!vars
  <2>1. Main \in Threads
    BY ThreadFacts
  <2>2. CASE Join
    BY <1>1, <2>2 DEF Join, EnterPhase
  <2>3. CASE RequestAgain
    BY <1>2, <2>1, <2>3 DEF RequestAgain
  <2>4. CASE GetAgain \/ AssertEmpty
    BY <1>3, <2>1, <2>4 DEF GetAgain, AssertEmpty
  <2>5. QED BY <1>7, <2>2, <2>3, <2>4 DEF MainThread
<1>8. ASSUME NEW t \in Threads, Inside(t) PROVE UNCHANGED Abstract!vars
  BY <1>0, <1>8, AbstractInside
<1>9. QED BY <1>1, <1>6, <1>7, <1>8 DEF Next, ThreadStep, Ended, vars

\* Whatever the program does, the AdaptiveMemoryPool it calls is an object pool:
\* each call takes effect at one instant, hands out only what is free, and fails
\* only when nothing is, whichever pool was built.
THEOREM RunsOnAnObjectPool == Spec => RefinesObjectPool
<1>1. Init => Abstract!Init
  BY RefinementInit
<1>2. IInv /\ [Next]_vars => [Abstract!Next]_(Abstract!vars)
  BY RefinementStep
<1>3. QED BY <1>1, <1>2, Invariance, PTL DEF Spec, RefinesObjectPool, Abstract!Spec
=============================================================================
