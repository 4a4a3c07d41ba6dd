-------------------------- MODULE MemoryPoolProofs --------------------------
(***************************************************************************)
(* Proofs about MemoryPool, for any threads, any number and size of blocks,*)
(* any threshold, and whatever fails: operator new, a constructor, an      *)
(* assertion.                                                              *)
(*                                                                         *)
(* The first part is what the spin lock of allocate_block() protects.  It  *)
(* does not protect m_free and the links, which are not correct in every   *)
(* state; the second part, the quiet, proves what is true of them as long  *)
(* as growing does not meet a pop or a push, however often the pool is     *)
(* empty.                                                                  *)
(***************************************************************************)
EXTENDS QuietMemoryPool, WellFoundedInduction, TLAPS

Locked == BlockLabels \ {"lock"}

-----------------------------------------------------------------------------
\* How slots are numbered.

LEMMA Constants ==
  /\ BlockSlots \in Nat /\ BlockSlots >= 1
  /\ MaxBlocks \in Nat /\ Threshold \in Nat /\ MaxClock \in Nat
  /\ MaxBlocks * BlockSlots \in Nat
BY MemoryPoolAssumption

LEMMA BlockNumbering ==
  ASSUME NEW b \in 1 .. MaxBlocks
  PROVE  /\ First(b) \in Nat /\ Last(b) \in Nat
         /\ 1 <= First(b) /\ First(b) <= Last(b) /\ Last(b) <= MaxBlocks * BlockSlots
         /\ First(b) = (b - 1) * BlockSlots + 1 /\ Last(b) = b * BlockSlots
         /\ First(b) .. Last(b) \subseteq Addr
<1>1. (MaxBlocks - b) * BlockSlots >= 0
  BY Constants
<1>2. b * BlockSlots <= MaxBlocks * BlockSlots
  BY <1>1, Constants
<1>3. (b - 1) * BlockSlots \in Nat /\ b * BlockSlots = (b - 1) * BlockSlots + BlockSlots
  BY Constants
<1>4. QED BY <1>2, <1>3, Constants DEF First, Last, Addr

-----------------------------------------------------------------------------
\* Steps that have nothing to do with allocate_block()

\* No thread gets past the lock, and nothing that the lock protects changes.
LEMMA BlockQuiet ==
  ASSUME LockOK, GrowingOK, BlocksConsistent, TimeOK, ThrottleKept,
         UNCHANGED <<blockVars, clock>>,
         \A t \in Threads : pc'[t] \in Locked => pc'[t] = pc[t]
  PROVE  LockOK' /\ GrowingOK' /\ BlocksConsistent' /\ TimeOK' /\ ThrottleKept'
<1>. USE DEF blockVars
<1>1. LockOK'
  BY DEF LockOK, Locked
<1>2. GrowingOK'
  BY DEF GrowingOK, SizesMatch, Locked, BlockLabels
<1>3. BlocksConsistent' /\ ThrottleKept'
  BY DEF BlocksConsistent, SizesMatch, ThrottleKept
<1>4. TimeOK'
  BY DEF TimeOK, Locked, BlockLabels
<1>5. QED BY <1>1, <1>2, <1>3, <1>4

LEMMA InitInv == Init => IInv
<1>. SUFFICES ASSUME Init PROVE IInv
  OBVIOUS
<1>. USE DEF Init
<1>1. TypeOK
  BY Constants, MemoryPoolAssumption DEF TypeOK, Nil, Word, Pointers
<1>2. LockOK /\ PreparedOK /\ GrowingOK
  BY DEF LockOK, PreparedOK, GrowingOK, AllocLabels, BlockLabels, FreeLabels
<1>3. BlocksConsistent /\ TimeOK /\ ThrottleKept
  BY Constants DEF BlocksConsistent, SizesMatch, TimeOK, ThrottleKept
<1>4. QED BY <1>1, <1>2, <1>3 DEF IInv

\* A pop, a push or a call of either begins, goes on or ends.
LEMMA CallInv ==
  ASSUME IInv, NEW t \in Threads, CallAllocate(t) \/ \E s \in Addr : CallDeallocate(t, s)
  PROVE  IInv'
<1>. USE DEF IInv, CallAllocate, CallDeallocate, Goto
<1>1. TypeOK'
  <2>1. CASE CallAllocate(t)
    BY <2>1 DEF TypeOK, AllocLabels, freeVars, blockVars, localVars, userVars
  <2>2. ASSUME NEW s \in Addr, CallDeallocate(t, s)
        PROVE  TypeOK'
    <3>1. held[t] \ {s} \in SUBSET Addr
      BY DEF TypeOK
    <3>2. held' \in [Threads -> SUBSET Addr]
      BY <2>2, <3>1 DEF TypeOK
    <3>3. node' \in [Threads -> Addr \cup {NULL}]
      BY <2>2 DEF TypeOK
    <3>4. QED BY <2>2, <3>2, <3>3 DEF TypeOK, FreeLabels, freeVars, blockVars
  <2>3. QED BY <2>1, <2>2
<1>2. PreparedOK'
  BY DEF TypeOK, PreparedOK, AllocLabels, FreeLabels, localVars
<1>3. \A u \in Threads : pc'[u] \in Locked => pc'[u] = pc[u]
  BY DEF TypeOK, Locked, BlockLabels
<1>4. UNCHANGED <<blockVars, clock>>
  OBVIOUS
<1>5. QED BY <1>1, <1>2, <1>3, <1>4, BlockQuiet

LEMMA AllocateInv ==
  ASSUME IInv, NEW t \in Threads, Allocate(t)
  PROVE  IInv'
<1>. USE DEF IInv, Goto, LoadFree, AfterLoad, Return
<1>1. CASE Load(t) \/ PopFails(t)
  <2>1. TypeOK'
    BY <1>1, ZenonT(30) DEF Load, PopFails, TypeOK, AllocLabels, BlockLabels, freeVars, blockVars, userVars
  <2>2. PreparedOK'
    BY <1>1 DEF Load, PopFails, TypeOK, PreparedOK, AllocLabels, FreeLabels
  <2>3. \A u \in Threads : pc'[u] \in Locked => pc'[u] = pc[u]
    BY <1>1 DEF Load, PopFails, TypeOK, Locked, BlockLabels
  <2>4. UNCHANGED <<blockVars, clock>>
    BY <1>1 DEF Load, PopFails
  <2>5. QED BY <2>1, <2>2, <2>3, <2>4, BlockQuiet
<1>2. CASE ReadNext(t)
  <2>1. orig[t].node \in Addr /\ orig[t].aba + 1 \in Nat
    BY <1>2 DEF ReadNext, TypeOK, PreparedOK, Word, Pointers
  <2>2. next[orig[t].node] \in Pointers
    BY <2>1 DEF TypeOK
  <2>3. [node |-> next[orig[t].node], aba |-> NextAba(orig[t].aba), stamp |-> 0] \in Word
    BY <2>1, <2>2 DEF Word, NextAba
  <2>4. TypeOK'
    BY <1>2, <2>3 DEF ReadNext, TypeOK, AllocLabels, freeVars, blockVars, userVars
  <2>5. PreparedOK'
    BY <1>2 DEF ReadNext, TypeOK, PreparedOK, AllocLabels, FreeLabels
  <2>6. \A u \in Threads : pc'[u] \in Locked => pc'[u] = pc[u]
    BY <1>2 DEF ReadNext, TypeOK, Locked, BlockLabels
  <2>7. UNCHANGED <<blockVars, clock>>
    BY <1>2 DEF ReadNext
  <2>8. QED BY <2>4, <2>5, <2>6, <2>7, BlockQuiet
<1>3. CASE Pop(t)
  <2>1. orig[t].node \in Addr
    BY <1>3 DEF Pop, TypeOK, PreparedOK, Word, Pointers
  <2>2. free' \in Word
    BY <1>3 DEF Pop, SetFree, TypeOK, Word
  <2>3. TypeOK'
    BY <1>3, <2>1, <2>2 DEF Pop, TypeOK, AllocLabels, blockVars, userVars
  <2>4. PreparedOK'
    BY <1>3, <2>1 DEF Pop, TypeOK, PreparedOK, AllocLabels, FreeLabels
  <2>5. \A u \in Threads : pc'[u] \in Locked => pc'[u] = pc[u]
    BY <1>3 DEF Pop, TypeOK, Locked, BlockLabels
  <2>6. UNCHANGED <<blockVars, clock>>
    BY <1>3 DEF Pop
  <2>7. QED BY <2>3, <2>4, <2>5, <2>6, BlockQuiet
<1>4. CASE Construct(t) \/ ConstructThrows(t)
  <2>1. node[t] \in Addr
    BY <1>4 DEF Construct, ConstructThrows, PreparedOK
  <2>2. flag' \in [Addr -> {TRUE, FALSE, Garbage}]
    BY <1>4 DEF Construct, ConstructThrows, SetFlag, TypeOK
  <2>3. Nil \in Word
    BY DEF Nil, Word, Pointers
  <2>4. TypeOK'
    <3>1. orig' \in [Threads -> Word] /\ nxt' \in [Threads -> Word]
          /\ node' \in [Threads -> Addr \cup {NULL}]
      BY <1>4, <2>3, SMTT(30) DEF Construct, ConstructThrows, TypeOK
    <3>2. held[t] \cup {node[t]} \in SUBSET Addr
      BY <2>1 DEF TypeOK
    <3>3. held' \in [Threads -> SUBSET Addr] /\ orphans' \subseteq Addr
      BY <1>4, <2>1, <3>2, SMTT(30) DEF Construct, ConstructThrows, TypeOK
    <3>4. pc' = [pc EXCEPT ![t] = "idle"]
      BY <1>4 DEF Construct, ConstructThrows
    <3>5. UNCHANGED <<free, next, blockVars, clock>>
      BY <1>4 DEF Construct, ConstructThrows
    <3>6. QED BY <2>2, <3>1, <3>3, <3>4, <3>5 DEF TypeOK, blockVars
  <2>5. PreparedOK'
    BY <1>4 DEF Construct, ConstructThrows, TypeOK, PreparedOK, FreeLabels
  <2>6. \A u \in Threads : pc'[u] \in Locked => pc'[u] = pc[u]
    BY <1>4 DEF Construct, ConstructThrows, TypeOK, Locked, BlockLabels
  <2>7. UNCHANGED <<blockVars, clock>>
    BY <1>4 DEF Construct, ConstructThrows
  <2>8. QED BY <2>4, <2>5, <2>6, <2>7, BlockQuiet
<1>5. QED BY <1>1, <1>2, <1>3, <1>4 DEF Allocate

LEMMA DeallocateInv ==
  ASSUME IInv, NEW t \in Threads, Deallocate(t)
  PROVE  IInv'
<1>. USE DEF IInv, Goto, LoadFree, Return
<1>0. node[t] \in Addr
  BY DEF Deallocate, FreeLoad, LinkFreed, Push, PushFails, PreparedOK, FreeLabels
<1>1. CASE FreeLoad(t) \/ PushFails(t)
  <2>1. flag' \in [Addr -> {TRUE, FALSE, Garbage}]
    BY <1>1 DEF FreeLoad, PushFails, ClearFlag, TypeOK, freeVars
  <2>2. TypeOK'
    BY <1>1, <2>1, ZenonT(30) DEF FreeLoad, PushFails, RetryAt, TypeOK, FreeLabels, freeVars, blockVars, userVars
  <2>3. PreparedOK'
    BY <1>0, <1>1 DEF FreeLoad, PushFails, RetryAt, TypeOK, PreparedOK, FreeLabels
  <2>4. \A u \in Threads : pc'[u] \in Locked => pc'[u] = pc[u]
    BY <1>1 DEF FreeLoad, PushFails, RetryAt, TypeOK, Locked, BlockLabels
  <2>5. UNCHANGED <<blockVars, clock>>
    BY <1>1 DEF FreeLoad, PushFails
  <2>6. QED BY <2>2, <2>3, <2>4, <2>5, BlockQuiet
<1>2. CASE LinkFreed(t)
  <2>1. orig[t].node \in Pointers /\ orig[t].aba + 1 \in Nat
    BY SMTT(30) DEF TypeOK, Word
  <2>2. [node |-> node[t], aba |-> NextAba(orig[t].aba), stamp |-> 0] \in Word
    BY <1>0, <2>1 DEF Word, NextAba, Pointers
  <2>3. TypeOK'
    BY <1>2, <2>1, <2>2 DEF LinkFreed, TypeOK, FreeLabels, blockVars, userVars
  <2>4. PreparedOK'
    BY <1>0, <1>2 DEF LinkFreed, TypeOK, PreparedOK, FreeLabels
  <2>5. \A u \in Threads : pc'[u] \in Locked => pc'[u] = pc[u]
    BY <1>2 DEF LinkFreed, TypeOK, Locked, BlockLabels
  <2>6. UNCHANGED <<blockVars, clock>>
    BY <1>2 DEF LinkFreed
  <2>7. QED BY <2>3, <2>4, <2>5, <2>6, BlockQuiet
<1>3. CASE Push(t)
  <2>1. free' \in Word /\ Nil \in Word
    BY <1>3, SMTT(30) DEF Push, SetFree, TypeOK, Word, Nil, Pointers
  <2>2. TypeOK'
    BY <1>3, <2>1 DEF Push, TypeOK, blockVars, userVars
  <2>3. PreparedOK'
    BY <1>3 DEF Push, TypeOK, PreparedOK, FreeLabels
  <2>4. \A u \in Threads : pc'[u] \in Locked => pc'[u] = pc[u]
    BY <1>3 DEF Push, TypeOK, Locked, BlockLabels
  <2>5. UNCHANGED <<blockVars, clock>>
    BY <1>3 DEF Push
  <2>6. QED BY <2>2, <2>3, <2>4, <2>5, BlockQuiet
<1>4. QED BY <1>1, <1>2, <1>3 DEF Deallocate

LEMMA AssertionFailsInv ==
  ASSUME IInv, NEW t \in Threads, AssertionFails(t)
  PROVE  IInv'
<1>. USE DEF IInv, AssertionFails
<1>1. TypeOK'
  BY DEF TypeOK, freeVars, blockVars, localVars, userVars
<1>2. PreparedOK'
  BY DEF PreparedOK, FreeLabels
<1>3. \A u \in Threads : pc'[u] \in Locked => pc'[u] = pc[u]
  BY DEF Locked, BlockLabels
<1>4. QED BY <1>1, <1>2, <1>3, BlockQuiet

LEMMA TickInv ==
  ASSUME IInv, Tick
  PROVE  IInv'
<1>. USE DEF IInv, Tick
<1>1. TypeOK'
  <2>1. clock' \in 0 .. MaxClock
    BY Constants DEF TypeOK
  <2>2. QED BY <2>1 DEF TypeOK, freeVars, blockVars, localVars, userVars
<1>2. LockOK' /\ PreparedOK' /\ GrowingOK' /\ BlocksConsistent' /\ ThrottleKept'
  BY DEF LockOK, PreparedOK, GrowingOK, BlocksConsistent, SizesMatch, ThrottleKept, blockVars, localVars
<1>3. TimeOK'
  <2>1. clock \in Nat /\ clock' = clock + 1 /\ lastTime \in Nat
    BY Constants DEF TypeOK
  <2>2. \A u \in Threads : pc'[u] = "record" /\ blocks' # <<>> => clock' > lastTime' + Threshold
    BY <2>1, Constants DEF TimeOK, blockVars
  <2>3. QED BY <2>1, <2>2 DEF TimeOK, blockVars
<1>4. QED BY <1>1, <1>2, <1>3

-----------------------------------------------------------------------------
\* allocate_block()

\* What TypeOK says of the variables that allocate_block() leaves alone, or at
\* most writes to in a way that needs no argument.
LEMMA BlockType ==
  ASSUME TypeOK, NEW t \in Threads,
         UNCHANGED <<flag, clock, userVars>>,
         free' \in Word, next' \in [Addr -> Pointers],
         lastSlot' \in Addr \cup {NULL},
         blocks' \in Seq(0 .. MaxClock) /\ Len(blocks') <= MaxBlocks,
         maxSize' \in 0 .. MaxBlocks * BlockSlots,
         lastTime' \in 0 .. MaxClock, lock' \in Threads \cup {NULL},
         cur' \in Addr \cup {NULL, MaxBlocks * BlockSlots + 1},
         \/ UNCHANGED localVars
         \/ UNCHANGED <<orig, node>> /\ nxt' = [nxt EXCEPT ![t] = free]
         \/ /\ orig' = [orig EXCEPT ![t] = Nil]
            /\ nxt' = [nxt EXCEPT ![t] = Nil]
            /\ node' = [node EXCEPT ![t] = NULL],
         NEW label \in {"idle", "load"} \cup BlockLabels, pc' = [pc EXCEPT ![t] = label]
  PROVE  TypeOK'
<1>1. Nil \in Word
  BY DEF Nil, Word, Pointers
<1>2. orig' \in [Threads -> Word] /\ nxt' \in [Threads -> Word]
      /\ node' \in [Threads -> Addr \cup {NULL}]
  <2>1. orig \in [Threads -> Word] /\ nxt \in [Threads -> Word] /\ node \in [Threads -> Addr \cup {NULL}]
    BY DEF TypeOK
  <2>2. CASE UNCHANGED localVars
    BY <2>1, <2>2 DEF localVars
  <2>3. CASE UNCHANGED <<orig, node>> /\ nxt' = [nxt EXCEPT ![t] = free]
    <3>1. free \in Word
      BY DEF TypeOK
    <3>2. QED BY <2>1, <2>3, <3>1
  <2>4. CASE /\ orig' = [orig EXCEPT ![t] = Nil]
             /\ nxt' = [nxt EXCEPT ![t] = Nil]
             /\ node' = [node EXCEPT ![t] = NULL]
    BY <1>1, <2>1, <2>4
  <2>5. QED BY <2>2, <2>3, <2>4
<1>3. pc' \in [Threads -> {"idle", "aborted"} \cup AllocLabels \cup BlockLabels \cup FreeLabels]
  BY DEF TypeOK, AllocLabels
<1>4. QED BY <1>2, <1>3 DEF TypeOK, userVars

LEMMA BlockPrepared ==
  ASSUME TypeOK, PreparedOK, NEW t \in Threads,
         \/ UNCHANGED localVars
         \/ UNCHANGED <<orig, node>> /\ nxt' = [nxt EXCEPT ![t] = free]
         \/ /\ orig' = [orig EXCEPT ![t] = Nil]
            /\ nxt' = [nxt EXCEPT ![t] = Nil]
            /\ node' = [node EXCEPT ![t] = NULL],
         NEW label \in {"idle", "load"} \cup BlockLabels, pc' = [pc EXCEPT ![t] = label]
  PROVE  PreparedOK'
BY DEF TypeOK, PreparedOK, localVars, BlockLabels, FreeLabels

\* The newest block, while there is one.
LEMMA Newest ==
  ASSUME TypeOK, blocks # <<>>
  PROVE  Len(blocks) \in 1 .. MaxBlocks
BY Constants DEF TypeOK

LEMMA SizeType ==
  ASSUME TypeOK
  PROVE  maxSize \in Nat
<1>1. PICK most \in Nat : most = MaxBlocks * BlockSlots
  BY Constants
<1>2. maxSize \in 0 .. most
  BY <1>1 DEF TypeOK
<1>3. QED BY <1>1, <1>2

\* Nobody else is past the lock.
LEMMA Alone ==
  ASSUME LockOK, NEW t \in Threads, pc[t] \in Locked
  PROVE  /\ lock = t /\ t # NULL
         /\ \A u \in Threads : pc[u] \in Locked => u = t
BY MemoryPoolAssumption DEF LockOK, Locked

LEMMA LockInv ==
  ASSUME IInv, NEW t \in Threads, Lock(t)
  PROVE  IInv'
<1>. USE DEF IInv, Lock, TestAndSet, Goto
<1>1. \A u \in Threads : pc[u] \notin Locked
  BY MemoryPoolAssumption DEF LockOK, Locked
<1>2. TypeOK'
  BY BlockType DEF TypeOK, BlockLabels, freeVars, localVars
<1>3. PreparedOK'
  BY BlockPrepared DEF BlockLabels
<1>4. \A u \in Threads : pc'[u] = IF u = t THEN "recheck" ELSE pc[u]
  BY DEF TypeOK
<1>5. LockOK'
  BY <1>1, <1>4 DEF LockOK, Locked
<1>6. GrowingOK'
  BY <1>1, <1>4 DEF GrowingOK, BlocksConsistent, SizesMatch, Locked, BlockLabels
<1>7. BlocksConsistent' /\ ThrottleKept'
  BY MemoryPoolAssumption DEF BlocksConsistent, ThrottleKept
<1>8. TimeOK'
  BY <1>1, <1>4 DEF TimeOK, Locked, BlockLabels
<1>9. QED BY <1>2, <1>3, <1>5, <1>6, <1>7, <1>8

\* The lock is given up as it was found: another thread has added a block, the
\* threshold forbids one, or operator new throws.
LEMMA LeaveInv ==
  ASSUME IInv, NEW t \in Threads, Beaten(t) \/ Throttled(t) \/ BadAlloc(t)
  PROVE  IInv'
<1>. USE DEF IInv, Goto, Return
<1>1. /\ pc[t] \in {"recheck", "time", "new"} /\ pc[t] \in Locked
      /\ UNCHANGED <<freeVars, lastSlot, blocks, maxSize, lastTime, cur, clock, userVars>>
      /\ lock' = NULL
  BY DEF Beaten, Throttled, BadAlloc, Locked, BlockLabels
<1>2. PICK label \in {"idle", "load"} : pc' = [pc EXCEPT ![t] = label]
  BY DEF Beaten, Throttled, BadAlloc
<1>3. UNCHANGED localVars \/ (/\ orig' = [orig EXCEPT ![t] = Nil]
                              /\ nxt' = [nxt EXCEPT ![t] = Nil]
                              /\ node' = [node EXCEPT ![t] = NULL])
  BY DEF Beaten, Throttled, BadAlloc
<1>4. TypeOK'
  BY <1>1, <1>2, <1>3, BlockType DEF TypeOK, freeVars
<1>5. PreparedOK'
  BY <1>2, <1>3, BlockPrepared
<1>6. \A u \in Threads : pc'[u] \notin Locked
  BY <1>1, <1>2, Alone DEF TypeOK, Locked, BlockLabels
<1>7. SizesMatch
  BY <1>1 DEF GrowingOK
<1>8. LockOK' /\ GrowingOK' /\ BlocksConsistent'
  BY <1>1, <1>6, <1>7 DEF LockOK, GrowingOK, BlocksConsistent, SizesMatch, Locked, BlockLabels
<1>9. TimeOK' /\ ThrottleKept'
  BY <1>1, <1>6 DEF TimeOK, ThrottleKept, Locked, BlockLabels
<1>10. QED BY <1>4, <1>5, <1>8, <1>9

\* The threshold is compared with the clock, and the clock recorded.
LEMMA TimeInv ==
  ASSUME IInv, NEW t \in Threads, StillEmpty(t) \/ NotThrottled(t) \/ RecordTime(t)
  PROVE  IInv'
<1>. USE DEF IInv, Goto
<1>1. /\ pc[t] \in {"recheck", "time", "record"} /\ pc[t] \in Locked
      /\ UNCHANGED <<freeVars, lastSlot, blocks, maxSize, lock, cur, clock, localVars, userVars>>
      /\ lastTime' \in {lastTime, clock}
  BY DEF StillEmpty, NotThrottled, RecordTime, blockVars, Locked, BlockLabels
<1>2. PICK label \in {"time", "record", "new"} : pc' = [pc EXCEPT ![t] = label]
  BY DEF StillEmpty, NotThrottled, RecordTime
<1>3. label \in BlockLabels
  BY DEF BlockLabels
<1>4. TypeOK'
  BY <1>1, <1>2, <1>3, BlockType DEF TypeOK, freeVars
<1>5. PreparedOK'
  BY <1>1, <1>2, <1>3, BlockPrepared
<1>6. \A u \in Threads : pc'[u] = IF u = t THEN label ELSE pc[u]
  BY <1>2 DEF TypeOK
<1>7. \A u \in Threads : u # t => pc[u] \notin Locked
  BY <1>1, Alone
<1>8. LockOK'
  BY <1>1, <1>6 DEF LockOK, Locked
<1>9. SizesMatch /\ SizesMatch'
  BY <1>1 DEF GrowingOK, SizesMatch
<1>10. GrowingOK' /\ BlocksConsistent'
  BY <1>6, <1>7, <1>9 DEF GrowingOK, BlocksConsistent, Locked, BlockLabels
<1>11. ThrottleKept'
  BY <1>1 DEF ThrottleKept
<1>12. /\ lastTime \in Nat /\ clock \in Nat /\ \A i \in DOMAIN blocks : blocks[i] \in Nat
       /\ lastTime <= clock /\ \A i \in DOMAIN blocks : blocks[i] <= lastTime
       /\ Threshold \in Nat
  BY Constants DEF TypeOK, TimeOK
<1>13. CASE StillEmpty(t)
  <2>1. pc'[t] = "time" /\ UNCHANGED <<blocks, lastTime, clock>>
    BY <1>13 DEF StillEmpty, TypeOK, blockVars
  <2>2. TimeOK'
    BY <2>1, <1>6, <1>7 DEF TimeOK, Locked, BlockLabels
  <2>3. QED BY <1>4, <1>5, <1>8, <1>10, <1>11, <2>2
<1>14. CASE NotThrottled(t)
  <2>1. pc'[t] = "record" /\ UNCHANGED <<blocks, lastTime, clock>>
    BY <1>14 DEF NotThrottled, TypeOK, blockVars
  <2>2. blocks # <<>> => clock > lastTime + Threshold
    <3>1. blocks # <<>> => maxSize > 0
      BY <1>9, Newest, BlockNumbering, Constants DEF SizesMatch
    <3>2. QED BY <1>14, <3>1, <1>12 DEF NotThrottled, TooSoon
  <2>3. TimeOK'
    BY <2>1, <2>2, <1>6, <1>7 DEF TimeOK, Locked, BlockLabels
  <2>4. QED BY <1>4, <1>5, <1>8, <1>10, <1>11, <2>3
<1>15. CASE RecordTime(t)
  <2>1. pc'[t] = "new" /\ pc[t] = "record" /\ lastTime' = clock /\ UNCHANGED <<blocks, clock>>
    BY <1>15 DEF RecordTime, TypeOK
  <2>2. \A i \in DOMAIN blocks : lastTime' > blocks[i] + Threshold
    <3>1. \A i \in DOMAIN blocks : blocks # <<>>
      BY DEF TypeOK
    <3>2. QED BY <3>1, <2>1, <1>12 DEF TimeOK
  <2>3. \A i \in DOMAIN blocks : blocks[i] <= lastTime'
    BY <2>1, <1>12
  <2>4. TimeOK'
    BY <2>1, <2>2, <2>3, <1>6, <1>7, <1>12 DEF TimeOK, Locked, BlockLabels
  <2>5. QED BY <1>4, <1>5, <1>8, <1>10, <1>11, <2>4
<1>16. QED BY <1>13, <1>14, <1>15

LEMMA NewBlockInv ==
  ASSUME IInv, NEW t \in Threads, NewBlock(t)
  PROVE  IInv'
<1>. USE DEF IInv, NewBlock, Goto
<1>. DEFINE b == Len(blocks) + 1
<1>1. pc[t] = "new" /\ pc[t] \in Locked /\ SizesMatch
  BY DEF GrowingOK, Locked, BlockLabels
<1>2. PICK label \in {"link", "carve"} : pc' = [pc EXCEPT ![t] = label]
  OBVIOUS
<1>3. label \in BlockLabels
  BY DEF BlockLabels
<1>4. /\ Len(blocks) \in Nat /\ b \in 1 .. MaxBlocks
      /\ DOMAIN blocks = 1 .. Len(blocks)
      /\ \A i \in DOMAIN blocks : blocks[i] \in Nat
      /\ lastTime \in 0 .. MaxClock /\ lastTime \in Nat /\ Threshold \in Nat
  BY Constants DEF TypeOK
<1>5. /\ blocks' \in Seq(0 .. MaxClock) /\ Len(blocks') = b /\ blocks' # <<>>
      /\ DOMAIN blocks' = 1 .. b
      /\ \A i \in 1 .. b : blocks'[i] = IF i = b THEN lastTime ELSE blocks[i]
  BY <1>4 DEF TypeOK
<1>6. First(b) \in First(b) .. Last(b) /\ First(b) \in Addr /\ First(b) = maxSize + 1
  BY <1>1, <1>4, BlockNumbering DEF SizesMatch
<1>7. TypeOK'
  <2>1. Len(blocks') <= MaxBlocks
    BY <1>4, <1>5
  <2>2. cur' \in Addr
    BY <1>6
  <2>3. /\ free' \in Word /\ next' \in [Addr -> Pointers]
        /\ lastSlot' \in Addr \cup {NULL}
        /\ maxSize' \in 0 .. MaxBlocks * BlockSlots
        /\ lastTime' \in 0 .. MaxClock /\ lock' \in Threads \cup {NULL}
    BY DEF TypeOK, freeVars
  <2>4. UNCHANGED <<flag, clock, userVars>> /\ UNCHANGED localVars
    BY DEF freeVars
  <2>5. QED BY <1>2, <1>3, <1>5, <2>1, <2>2, <2>3, <2>4, BlockType
<1>8. PreparedOK'
  BY <1>2, <1>3, BlockPrepared
<1>9. \A u \in Threads : pc'[u] = IF u = t THEN label ELSE pc[u]
  BY <1>2 DEF TypeOK
<1>10. \A u \in Threads : u # t => pc[u] \notin Locked
  BY <1>1, Alone
<1>11. LockOK' /\ lock' # NULL
  BY <1>1, <1>9, Alone DEF LockOK, Locked
<1>12. maxSize \in Nat
  BY SizeType
<1>13. maxSize' = cur' - 1 /\ cur' \in First(Len(blocks')) .. Last(Len(blocks'))
  BY <1>5, <1>6, <1>12
<1>14. GrowingOK' /\ BlocksConsistent'
  BY <1>5, <1>9, <1>10, <1>11, <1>13 DEF GrowingOK, BlocksConsistent, First, Last, Locked, BlockLabels
<1>15. \A i \in DOMAIN blocks : lastTime > blocks[i] + Threshold
  BY <1>1 DEF TimeOK
<1>16. ThrottleKept'
  <2>. SUFFICES ASSUME NEW j \in 1 .. b, NEW i \in 1 .. j - 1
                PROVE  blocks'[j] > blocks'[i] + Threshold
    BY <1>5 DEF ThrottleKept
  <2>1. i \in DOMAIN blocks /\ blocks'[i] = blocks[i]
    BY <1>4, <1>5
  <2>2. CASE j = b
    BY <1>5, <1>15, <2>1, <2>2
  <2>3. CASE j # b
    <3>1. j \in DOMAIN blocks /\ blocks'[j] = blocks[j]
      BY <1>4, <1>5, <2>3
    <3>2. blocks[j] > blocks[i] + Threshold
      BY <3>1 DEF ThrottleKept
    <3>3. QED BY <2>1, <3>1, <3>2
  <2>4. QED BY <2>2, <2>3
<1>17. TimeOK'
  <2>1. lastTime' <= clock' /\ \A i \in DOMAIN blocks' : blocks'[i] <= lastTime'
    BY <1>4, <1>5 DEF TimeOK
  <2>2. QED BY <2>1, <1>9, <1>10 DEF TimeOK, Locked, BlockLabels
<1>18. QED BY <1>7, <1>8, <1>11, <1>14, <1>16, <1>17

\* The links of the new block, and of the old last slot, are written.
LEMMA LinkInv ==
  ASSUME IInv, NEW t \in Threads, LinkOldLast(t) \/ Merge(t) \/ MergeLoad(t) \/ MergeLink(t)
  PROVE  IInv'
<1>. USE DEF IInv, Goto
<1>1. /\ pc[t] \in {"link", "merge", "merge_load", "merge_link"} /\ pc[t] \in Locked
      /\ UNCHANGED <<free, flag, blockVars, clock, userVars>>
      /\ \/ UNCHANGED localVars
         \/ UNCHANGED <<orig, node>> /\ nxt' = [nxt EXCEPT ![t] = free]
  BY DEF LinkOldLast, Merge, MergeLoad, MergeLink, freeVars, Locked, BlockLabels
<1>2. PICK label \in {"carve", "merge_load", "merge_link", "store"} :
        /\ pc' = [pc EXCEPT ![t] = label]
        /\ label = "carve" <=> pc[t] = "link"
  BY DEF LinkOldLast, Merge, MergeLoad, MergeLink
<1>3. label \in BlockLabels
  BY DEF BlockLabels
<1>4. blocks # <<>> /\ Len(blocks) \in 1 .. MaxBlocks
  BY <1>1, Newest DEF GrowingOK
<1>5. free.node \in Pointers
  BY DEF TypeOK, Word
<1>6. pc[t] = "link" => cur \in Addr
  BY <1>4, BlockNumbering DEF GrowingOK
<1>7. next' \in [Addr -> Pointers]
  BY <1>5, <1>6 DEF LinkOldLast, Merge, MergeLoad, MergeLink, freeVars, TypeOK, Pointers, Word
<1>8. TypeOK'
  BY <1>1, <1>2, <1>3, <1>7, BlockType DEF TypeOK, blockVars
<1>9. PreparedOK'
  BY <1>1, <1>2, <1>3, BlockPrepared
<1>10. \A u \in Threads : pc'[u] = IF u = t THEN label ELSE pc[u]
  BY <1>2 DEF TypeOK
<1>11. \A u \in Threads : u # t => pc[u] \notin Locked
  BY <1>1, Alone
<1>12. LockOK' /\ BlocksConsistent' /\ ThrottleKept'
  BY <1>1, <1>10 DEF LockOK, BlocksConsistent, SizesMatch, ThrottleKept, Locked, blockVars
<1>13. GrowingOK'
  <2>1. CASE pc[t] = "link"
    BY <2>1, <1>1, <1>2, <1>10, <1>11 DEF GrowingOK, Locked, BlockLabels, blockVars
  <2>2. CASE pc[t] # "link"
    BY <2>2, <1>1, <1>2, <1>10, <1>11 DEF GrowingOK, SizesMatch, Locked, BlockLabels, blockVars
  <2>3. QED BY <2>1, <2>2
<1>14. TimeOK'
  BY <1>1, <1>10, <1>11 DEF TimeOK, Locked, BlockLabels, blockVars
<1>15. QED BY <1>8, <1>9, <1>12, <1>13, <1>14

LEMMA CarveInv ==
  ASSUME IInv, NEW t \in Threads, Carve(t)
  PROVE  IInv'
<1>. USE DEF IInv, Carve, Goto
<1>. DEFINE b == Len(blocks)
<1>1. pc[t] = "carve" /\ pc[t] \in Locked
  BY DEF Locked, BlockLabels
<1>2. PICK label \in {"carve", "last"} :
        /\ pc' = [pc EXCEPT ![t] = label]
        /\ label = "last" <=> cur = Last(b)
  OBVIOUS
<1>3. label \in BlockLabels
  BY DEF BlockLabels
<1>4. /\ blocks # <<>> /\ b \in 1 .. MaxBlocks
      /\ cur \in First(b) .. Last(b) /\ maxSize = cur - 1
  BY <1>1, Newest DEF GrowingOK
<1>5. /\ First(b) \in Nat /\ Last(b) \in Nat /\ 1 <= First(b)
      /\ Last(b) <= MaxBlocks * BlockSlots /\ cur \in Nat
      /\ Addr = 1 .. MaxBlocks * BlockSlots /\ MaxBlocks * BlockSlots \in Nat
  BY <1>4, BlockNumbering, Constants DEF Addr
<1>6. cur \in Addr /\ maxSize' = cur /\ cur' = cur + 1
  BY <1>4, <1>5
<1>7. cur' \in Addr \cup {MaxBlocks * BlockSlots + 1} /\ maxSize' \in 0 .. MaxBlocks * BlockSlots
  BY <1>4, <1>5, <1>6
<1>8. cur # Last(b) => cur + 1 \in First(b) .. Last(b) /\ cur + 1 \in Addr
  BY <1>4, <1>5
<1>9. next' \in [Addr -> Pointers]
  BY <1>6, <1>8 DEF TypeOK, Pointers
<1>10. TypeOK'
  BY <1>2, <1>3, <1>7, <1>9, BlockType DEF TypeOK
<1>11. PreparedOK'
  BY <1>2, <1>3, BlockPrepared
<1>12. \A u \in Threads : pc'[u] = IF u = t THEN label ELSE pc[u]
  BY <1>2 DEF TypeOK
<1>13. \A u \in Threads : u # t => pc[u] \notin Locked
  BY <1>1, Alone
<1>14. LockOK' /\ lock' # NULL
  BY <1>1, <1>12, Alone DEF LockOK, Locked
<1>15. /\ Last(Len(blocks')) = Last(b) /\ First(Len(blocks')) = First(b)
       /\ label = "last" => cur' = maxSize' + 1 /\ maxSize' = Last(b)
       /\ label = "carve" => cur' \in First(b) .. Last(b) /\ maxSize' = cur' - 1
  BY <1>2, <1>4, <1>5, <1>6, <1>8
<1>16. GrowingOK' /\ BlocksConsistent'
  BY <1>4, <1>12, <1>13, <1>14, <1>15
  DEF GrowingOK, BlocksConsistent, First, Last, Locked, BlockLabels
<1>17. TimeOK' /\ ThrottleKept'
  BY <1>12, <1>13 DEF TimeOK, ThrottleKept, Locked, BlockLabels
<1>18. QED BY <1>10, <1>11, <1>14, <1>16, <1>17

LEMMA SetLastInv ==
  ASSUME IInv, NEW t \in Threads, SetLast(t)
  PROVE  IInv'
<1>. USE DEF IInv, SetLast, EndOfList, Goto
<1>1. pc[t] = "last" /\ pc[t] \in Locked
  BY DEF Locked, BlockLabels
<1>2. /\ blocks # <<>> /\ Len(blocks) \in 1 .. MaxBlocks
      /\ cur = maxSize + 1 /\ maxSize = Last(Len(blocks))
  BY <1>1, Newest DEF GrowingOK
<1>3. /\ Last(Len(blocks)) \in Addr /\ Last(Len(blocks)) \in Nat
      /\ Last(Len(blocks)) = Len(blocks) * BlockSlots
  BY <1>2, BlockNumbering
<1>4. cur - 1 = Last(Len(blocks))
  BY <1>2, <1>3
<1>5. next' \in [Addr -> Pointers] /\ lastSlot' = Last(Len(blocks)) /\ lastSlot' \in Addr
  BY <1>3, <1>4 DEF TypeOK, Pointers
<1>6. "merge" \in BlockLabels /\ pc' = [pc EXCEPT ![t] = "merge"]
  BY DEF BlockLabels
<1>7. TypeOK'
  BY <1>5, <1>6, BlockType DEF TypeOK
<1>8. PreparedOK'
  BY <1>6, BlockPrepared
<1>9. \A u \in Threads : pc'[u] = IF u = t THEN "merge" ELSE pc[u]
  BY DEF TypeOK
<1>10. \A u \in Threads : u # t => pc[u] \notin Locked
  BY <1>1, Alone
<1>11. LockOK' /\ lock' # NULL
  BY <1>1, <1>9, Alone DEF LockOK, Locked
<1>12. SizesMatch'
  BY <1>2, <1>3, <1>5 DEF SizesMatch, Last
<1>13. GrowingOK' /\ BlocksConsistent'
  BY <1>2, <1>9, <1>10, <1>11, <1>12 DEF GrowingOK, BlocksConsistent, Locked, BlockLabels
<1>14. TimeOK' /\ ThrottleKept'
  BY <1>9, <1>10 DEF TimeOK, ThrottleKept, Locked, BlockLabels
<1>15. QED BY <1>7, <1>8, <1>11, <1>13, <1>14

LEMMA StoreInv ==
  ASSUME IInv, NEW t \in Threads, Store(t)
  PROVE  IInv'
<1>. USE DEF IInv, Store, SetFree, Top, Goto
<1>1. pc[t] = "store" /\ pc[t] \in Locked
  BY DEF Locked, BlockLabels
<1>2. blocks # <<>> /\ Len(blocks) \in 1 .. MaxBlocks /\ SizesMatch
  BY <1>1, Newest DEF GrowingOK
<1>3. First(Len(blocks)) \in Addr
  BY <1>2, BlockNumbering
<1>4. free' \in Word
  BY <1>3, SMTT(30) DEF TypeOK, Word, Pointers
<1>5. TypeOK'
  BY <1>4, BlockType DEF TypeOK
<1>6. PreparedOK'
  BY BlockPrepared
<1>7. \A u \in Threads : pc'[u] \notin Locked
  BY <1>1, Alone DEF TypeOK, Locked, BlockLabels
<1>8. LockOK' /\ GrowingOK' /\ BlocksConsistent'
  BY <1>2, <1>7 DEF LockOK, GrowingOK, BlocksConsistent, SizesMatch, Locked, BlockLabels
<1>9. TimeOK' /\ ThrottleKept'
  BY <1>7 DEF TimeOK, ThrottleKept, Locked, BlockLabels
<1>10. QED BY <1>5, <1>6, <1>8, <1>9

-----------------------------------------------------------------------------
LEMMA StutterInv ==
  ASSUME IInv, UNCHANGED vars
  PROVE  IInv'
<1>. USE DEF IInv, vars
<1>1. TypeOK'
  BY DEF TypeOK, freeVars, blockVars, localVars, userVars
<1>2. PreparedOK'
  BY DEF PreparedOK, localVars
<1>3. QED BY <1>1, <1>2, BlockQuiet

LEMMA StepInv == IInv /\ [Next]_vars => IInv'
<1>. SUFFICES ASSUME IInv, [Next]_vars PROVE IInv'
  OBVIOUS
<1>1. ASSUME NEW t \in Threads, AllocateBlock(t) PROVE IInv'
  BY <1>1, LockInv, LeaveInv, TimeInv, NewBlockInv, LinkInv, CarveInv, SetLastInv, StoreInv
  DEF AllocateBlock
<1>2. CASE Next
  BY <1>1, <1>2, CallInv, AllocateInv, DeallocateInv, AssertionFailsInv, TickInv, StutterInv
  DEF Next, Rest
<1>3. QED BY <1>2, StutterInv

-----------------------------------------------------------------------------
\* The theorems

\* The inductive invariant holds in every reachable state.
THEOREM Invariance == Spec => []IInv
<1>1. Init => IInv
  BY InitInv
<1>2. IInv /\ [Next]_vars => IInv'
  BY StepInv
<1>3. QED BY <1>1, <1>2, PTL DEF Spec

\* Type correctness of the growing pool: whatever pops and pushes do to the free
\* list, a thread only ever writes to slots.
THEOREM TypeCorrect == Spec => []TypeOK
<1>1. IInv => TypeOK
  BY DEF IInv
<1>2. QED BY <1>1, Invariance, PTL

\* What the spin lock protects is consistent whenever it is free.
THEOREM LockProtectsBlocks == Spec => []BlocksConsistent
<1>1. IInv => BlocksConsistent
  BY DEF IInv
<1>2. QED BY <1>1, Invariance, PTL

\* No two blocks are recorded within the threshold of each other.
THEOREM ThresholdKept == Spec => []ThrottleKept
<1>1. IInv => ThrottleKept
  BY DEF IInv
<1>2. QED BY <1>1, Invariance, PTL

-----------------------------------------------------------------------------
\* The quiet: the free list is the list of SlotList, over the slots of all blocks.

SL == INSTANCE SlotListProofs WITH Capacity <- MaxBlocks * BlockSlots

LEMMA SlotNumbers ==
  /\ MaxBlocks * BlockSlots \in Nat \ {0}
  /\ Addr = 1 .. MaxBlocks * BlockSlots
  /\ NULL \notin Addr /\ Garbage \notin Addr /\ Garbage # NULL
  /\ \A s \in Addr : s \in Nat /\ s >= 1
<1>1. MaxBlocks \in Nat /\ BlockSlots \in Nat /\ MaxBlocks >= 1 /\ BlockSlots >= 1
  BY MemoryPoolAssumption
<1>2. MaxBlocks * BlockSlots \in Nat /\ MaxBlocks * BlockSlots >= 1
  BY <1>1
<1>3. QED BY <1>2, MemoryPoolAssumption DEF Addr

LEMMA SameList ==
  ASSUME NEW top, NEW link, NEW off
  PROVE  List!Linked(top, link, off) <=> SL!Linked(top, link, off)
BY DEF List!Linked, SL!Linked, List!IsChain, SL!IsChain, List!Slots, SL!Slots

LEMMA TopOfList ==
  ASSUME NEW top, NEW link, NEW off, List!Linked(top, link, off)
  PROVE  top # NULL => top \in Addr \ off
<1>1. SL!Linked(top, link, off)
  BY SameList
<1>2. QED BY <1>1, SlotNumbers, SL!ListTop DEF SL!Slots

LEMMA NothingOnList ==
  ASSUME NEW link, NEW off, List!Linked(NULL, link, off)
  PROVE  Addr \subseteq off
<1>1. SL!Linked(NULL, link, off)
  BY SameList
<1>2. QED BY <1>1, SlotNumbers, SL!ListEmpty DEF SL!Slots

LEMMA SameSlots ==
  ASSUME NEW top, NEW link, NEW off, List!Linked(top, link, off),
         NEW link2, NEW off2,
         \A s \in Addr : s \in off2 <=> s \in off,
         \A s \in Addr \ off : link2[s] = link[s]
  PROVE  List!Linked(top, link2, off2)
<1>1. SL!Linked(top, link, off)
  BY SameList
<1>2. SL!Linked(top, link2, off2)
  BY <1>1, SlotNumbers, SL!ListFrame DEF SL!Slots
<1>3. QED BY <1>2, SameList

LEMMA OneLess ==
  ASSUME NEW top, NEW link, NEW off, List!Linked(top, link, off), top # NULL,
         NEW off2, \A s \in Addr : s \in off2 <=> s = top \/ s \in off
  PROVE  List!Linked(link[top], link, off2)
<1>1. SL!Linked(top, link, off)
  BY SameList
<1>2. SL!Linked(link[top], link, off2)
  BY <1>1, SlotNumbers, SL!ListPop DEF SL!Slots
<1>3. QED BY <1>2, SameList

LEMMA OneMore ==
  ASSUME NEW top, NEW link, NEW off, List!Linked(top, link, off),
         NEW x \in Addr, x \in off, link[x] = top,
         NEW off2, \A s \in Addr : s \in off2 <=> s # x /\ s \in off
  PROVE  List!Linked(x, link, off2)
<1>1. SL!Linked(top, link, off)
  BY SameList
<1>2. SL!Linked(x, link, off2)
  BY <1>1, SlotNumbers, SL!ListPush DEF SL!Slots
<1>3. QED BY <1>2, SameList

LEMMA EmptyList ==
  ASSUME NEW link, NEW off, \A s \in Addr : s \in off
  PROVE  List!Linked(NULL, link, off)
<1>1. 0 \in 0 .. MaxBlocks * BlockSlots
  BY SlotNumbers
<1>. DEFINE c == [k \in 1 .. 0 |-> 1]
<1>2. c \in [1 .. 0 -> List!Slots]
  OBVIOUS
<1>3. List!IsChain(0, c, NULL, link, off)
  BY DEF List!IsChain, List!Slots, Addr
<1>. HIDE DEF c
<1>4. QED BY <1>1, <1>2, <1>3 DEF List!Linked

\* A block as allocate_block() links it is a list of its slots.
LEMMA OneBlock ==
  ASSUME NEW b \in 1 .. MaxBlocks,
         NEW link, \A s \in First(b) .. Last(b) - 1 : link[s] = s + 1,
         link[Last(b)] = NULL,
         NEW off, \A s \in Addr : s \notin off <=> s \in First(b) .. Last(b)
  PROVE  List!Linked(First(b), link, off)
<1>. DEFINE n == BlockSlots
            c == [k \in 1 .. n |-> Last(b) + 1 - k]
<1>1. n \in Nat /\ n >= 1 /\ First(b) \in Nat /\ Last(b) \in Nat /\ Last(b) = First(b) + n - 1
      /\ First(b) .. Last(b) \subseteq Addr
  <2>1. (b - 1) * BlockSlots \in Nat /\ b * BlockSlots = (b - 1) * BlockSlots + BlockSlots
    BY Constants
  <2>2. QED BY <2>1, Constants, BlockNumbering
<1>2. n <= MaxBlocks * BlockSlots
  <2>1. (MaxBlocks - 1) * BlockSlots >= 0
    BY MemoryPoolAssumption
  <2>2. QED BY <2>1, MemoryPoolAssumption
<1>3. n \in 0 .. MaxBlocks * BlockSlots
  BY <1>1, <1>2, SlotNumbers
<1>4. \A k \in 1 .. n : c[k] = Last(b) + 1 - k /\ c[k] \in First(b) .. Last(b)
  BY <1>1
<1>5. c \in [1 .. n -> List!Slots]
  BY <1>1, <1>4, SlotNumbers DEF List!Slots
<1>6. List!IsChain(n, c, First(b), link, off)
  <2>. HIDE DEF c, n
  <2>. DEFINE f == First(b)
              l == Last(b)
  <2>1. f \in Nat /\ l \in Nat /\ l = f + n - 1 /\ n \in Nat /\ n >= 1
    BY <1>1
  <2>2. \A k \in 1 .. n : c[k] = l + 1 - k
    BY <1>4
  <2>3. /\ \A s \in f .. l - 1 : link[s] = s + 1
        /\ link[l] = NULL
        /\ \A s \in Addr : s \notin off <=> s \in f .. l
    OBVIOUS
  <2>. HIDE DEF f, l
  <2>4. f = c[n] /\ n # 0
    BY <2>1, <2>2
  <2>5. ASSUME NEW k \in 1 .. n
        PROVE  link[c[k]] = IF k = 1 THEN NULL ELSE c[k - 1]
    <3>1. CASE k = 1
      BY <3>1, <2>1, <2>2, <2>3
    <3>2. CASE k # 1
      <4>1. c[k] \in f .. l - 1 /\ k - 1 \in 1 .. n
        BY <3>2, <2>1, <2>2
      <4>2. QED BY <3>2, <4>1, <2>1, <2>2, <2>3
    <3>3. QED BY <3>1, <3>2
  <2>6. \A i, j \in 1 .. n : c[i] = c[j] => i = j
    BY <2>1, <2>2
  <2>7. ASSUME NEW s \in Addr
        PROVE  (\E k \in 1 .. n : c[k] = s) <=> s \notin off
    <3>1. ASSUME NEW k \in 1 .. n, c[k] = s
          PROVE  s \notin off
      BY <3>1, <2>1, <2>2, <2>3
    <3>2. ASSUME s \notin off
          PROVE  \E k \in 1 .. n : c[k] = s
      <4>1. s \in f .. l
        BY <3>2, <2>3
      <4>2. l + 1 - s \in 1 .. n /\ c[l + 1 - s] = s
        BY <4>1, <2>1, <2>2
      <4>3. QED BY <4>2
    <3>3. QED BY <3>1, <3>2
  <2>8. List!Slots = Addr
    BY DEF List!Slots, Addr
  <2>9. f = First(b)
    BY DEF f
  <2>10. QED BY <2>4, <2>5, <2>6, <2>7, <2>8, <2>9 DEF List!IsChain
<1>. HIDE DEF n, c
<1>7. QED BY <1>3, <1>5, <1>6 DEF List!Linked

-----------------------------------------------------------------------------
\* Every slot of a list can be reached from its top.

Less == {p \in Nat \X Nat : p[1] < p[2]}

LEMMA LessWellFounded == IsWellFoundedOn(Less, Nat)
<1>1. OpToRel(<, Nat) = Less
  BY DEF OpToRel, Less
<1>. HIDE DEF Less
<1>2. QED BY <1>1, NatLessThanWellFounded, Zenon

LEMMA SmallestOf ==
  ASSUME NEW T \in SUBSET Nat, T # {}
  PROVE  \E x \in T : \A y \in T : x <= y
<1>1. PICK x \in T : \A y \in T : ~(<<y, x>> \in Less)
  BY LessWellFounded, WFMin
<1>2. \A y \in T : ~(y < x)
  BY <1>1 DEF Less
<1>3. QED BY <1>2

LEMMA ListReached ==
  ASSUME NEW top, NEW link, NEW off, List!Linked(top, link, off),
         NEW S \in SUBSET Addr,
         top \in Addr => top \in S,
         \A r \in S : link[r] \in Addr => link[r] \in S,
         NEW s \in Addr, s \notin off
  PROVE  s \in S
<1>1. PICK n \in 0 .. MaxBlocks * BlockSlots :
        \E c \in [1 .. n -> Addr] : List!IsChain(n, c, top, link, off)
  BY DEF List!Linked, List!Slots, Addr
<1>2. PICK c \in [1 .. n -> Addr] : List!IsChain(n, c, top, link, off)
  BY <1>1
<1>3. n \in Nat
  BY SlotNumbers
<1>4. /\ top = IF n = 0 THEN NULL ELSE c[n]
      /\ \A i \in 1 .. n : link[c[i]] = IF i = 1 THEN NULL ELSE c[i - 1]
      /\ \E i \in 1 .. n : c[i] = s
  BY <1>2 DEF List!IsChain, List!Slots, Addr
<1>. DEFINE T == {k \in 1 .. n : c[n + 1 - k] \notin S}
<1>5. SUFFICES ASSUME T # {} PROVE FALSE
  <2>1. PICK i \in 1 .. n : c[i] = s
    BY <1>4
  <2>2. n + 1 - i \in 1 .. n /\ n + 1 - (n + 1 - i) = i
    BY <1>3
  <2>3. n + 1 - i \notin T
    OBVIOUS
  <2>4. QED BY <2>1, <2>2, <2>3
<1>6. T \in SUBSET Nat
  BY <1>3
<1>7. PICK k \in T : \A y \in T : k <= y
  BY <1>5, <1>6, SmallestOf
<1>8. k \in 1 .. n /\ k \in Nat /\ c[n + 1 - k] \notin S /\ n + 1 - k \in 1 .. n
  BY <1>3
<1>9. c[n + 1 - k] \in Addr
  BY <1>8
<1>10. CASE k = 1
  BY <1>3, <1>4, <1>8, <1>9, <1>10
<1>11. CASE k # 1
  <2>1. k - 1 \in 1 .. n /\ k - 1 \notin T
    BY <1>3, <1>7, <1>8, <1>11
  <2>2. PICK i \in 1 .. n : i = n + 1 - (k - 1)
    BY <1>3, <1>8, <1>11
  <2>3. i # 1 /\ i - 1 = n + 1 - k
    BY <1>3, <1>8, <2>2
  <2>4. c[i] \in S
    BY <2>1, <2>2
  <2>5. link[c[i]] = c[n + 1 - k]
    BY <1>4, <2>3
  <2>6. QED BY <2>4, <2>5, <1>8, <1>9
<1>12. QED BY <1>10, <1>11

-----------------------------------------------------------------------------
\* Who has which slot.

LEMMA TakenIs ==
  /\ NodeOK /\ TypeOK =>
       \A s \in Addr : s \in Taken <=> \/ s \in orphans
                                       \/ \E t \in Threads : s \in held[t] \/ node[t] = s
  /\ (NodeOK /\ TypeOK =>
       \A s \in Addr : s \in Taken <=> \/ s \in orphans
                                       \/ \E t \in Threads : s \in held[t] \/ node[t] = s)'
<1>1. NULL \notin Addr
  BY SlotNumbers
<1>2. QED BY <1>1 DEF NodeOK, Taken, Held, InTransit

LEMMA TakenType ==
  /\ TypeOK => Taken \subseteq Addr
  /\ (TypeOK => Taken \subseteq Addr)'
<1>1. TypeOK => Taken \subseteq Addr
  <2>. SUFFICES ASSUME TypeOK PROVE Taken \subseteq Addr
    OBVIOUS
  <2>1. /\ \A t \in Threads : node[t] \in Addr \cup {NULL} /\ held[t] \subseteq Addr
        /\ orphans \subseteq Addr
    BY DEF TypeOK
  <2>2. InTransit \subseteq Addr
    BY <2>1 DEF InTransit
  <2>3. Held \subseteq Addr
    BY <2>1 DEF Held
  <2>4. QED BY <2>1, <2>2, <2>3 DEF Taken
<1>2. TypeOK' => Taken' \subseteq Addr
  <2>. SUFFICES ASSUME TypeOK' PROVE Taken' \subseteq Addr
    OBVIOUS
  <2>1. /\ \A t \in Threads : node'[t] \in Addr \cup {NULL} /\ held'[t] \subseteq Addr
        /\ orphans' \subseteq Addr
    BY DEF TypeOK
  <2>2. InTransit' \subseteq Addr
    BY <2>1 DEF InTransit
  <2>3. Held' \subseteq Addr
    BY <2>1 DEF Held
  <2>4. QED BY <2>1, <2>2, <2>3 DEF Taken
<1>3. QED BY <1>1, <1>2

\* What TypeOK says, without arithmetic.
LEMMA Shapes ==
  ASSUME TypeOK
  PROVE  /\ next \in [Addr -> Pointers] /\ flag \in [Addr -> {TRUE, FALSE, Garbage}]
         /\ pc \in [Threads -> {"idle", "aborted"} \cup AllocLabels \cup BlockLabels \cup FreeLabels]
         /\ orig \in [Threads -> Word] /\ nxt \in [Threads -> Word]
         /\ node \in [Threads -> Addr \cup {NULL}] /\ held \in [Threads -> SUBSET Addr]
         /\ orphans \subseteq Addr
         /\ free \in Word /\ maxSize \in Nat
BY SizeType DEF TypeOK

\* The list of the free slots, while nobody is linking a new block.
LEMMA ListThen ==
  ASSUME WhileQuiet, \A u \in Threads : lock = u => pc[u] \notin Filling,
         NEW t \in Threads, pc[t] # "aborted"
  PROVE  List!Linked(free.node, next, Off)
BY DEF WhileQuiet, ListOK

LEMMA TopIsFree ==
  ASSUME TypeOK, WhileQuiet, List!Linked(free.node, next, Off), free.node # NULL
  PROVE  free.node \in Addr /\ free.node \notin Taken /\ free.node \in 1 .. maxSize
<1>1. free.node \in Addr \ Off
  BY TopOfList
<1>2. maxSize \in Nat
  BY SizeType
<1>3. QED BY <1>1, <1>2, SlotNumbers DEF Off

-----------------------------------------------------------------------------
\* Steps that move no slot.

\* The step of a thread that takes no slot and gives none back, and whose
\* call goes on with the same node or, having none, ends.
LEMMA SameHands ==
  ASSUME TypeOK, TypeOK', WhileQuiet, NEW t \in Threads,
         UNCHANGED <<flag, held, orphans, node>>,
         maxSize' \in Nat, maxSize' >= maxSize,
         NEW label, pc' = [pc EXCEPT ![t] = label],
         \/ node[t] = NULL /\ label \notin {"construct", "free_load", "free_link", "free_cas"}
         \/ pc[t] \in {"free_link", "free_cas"} /\ label \in {"free_link", "free_cas"}
  PROVE  NodeOK' /\ OwnersOK' /\ FlagsOK' /\ Taken' = Taken
<1>. USE DEF WhileQuiet
<1>1. \A u \in Threads : pc'[u] = IF u = t THEN label ELSE pc[u]
  BY Shapes
<1>2. NodeOK'
  BY <1>1 DEF NodeOK, FreeLabels
<1>3. Taken' = Taken
  <2>1. \A s \in Addr : s \in Taken' <=> s \in Taken
    BY <1>2, TakenIs
  <2>2. QED BY <2>1, TakenType
<1>4. maxSize \in Nat
  BY SizeType
<1>5. OwnersOK'
  <2>1. Taken' \subseteq 1 .. maxSize'
    BY <1>3, <1>4 DEF OwnersOK
  <2>2. QED BY <2>1 DEF OwnersOK
<1>6. FlagsOK'
  <2>1. \A s \in Addr : flag'[s] = TRUE => s \in Taken'
    BY <1>3 DEF FlagsOK
  <2>2. \A u \in Threads : \A s \in held'[u] : flag'[s] = TRUE
    BY DEF FlagsOK
  <2>3. \A u \in Threads :
          /\ pc'[u] = "free_load" => flag'[node'[u]] = TRUE
          /\ pc'[u] \in {"construct", "free_link", "free_cas"} => flag'[node'[u]] # TRUE
    BY <1>1, ZenonT(30) DEF FlagsOK
  <2>4. QED BY <2>1, <2>2, <2>3 DEF FlagsOK
<1>7. QED BY <1>2, <1>3, <1>5, <1>6

\* The list and the work on it stay as they are when no link, no slot and no block
\* changes hands, and the thread that steps is not linking a block.
LEMMA SameList2 ==
  ASSUME TypeOK, WhileQuiet, NEW t \in Threads,
         UNCHANGED <<free, next, maxSize, blocks>>, Taken' = Taken,
         NEW label, pc' = [pc EXCEPT ![t] = label],
         pc[t] \notin Filling \cup {"aborted"}, label \notin Filling \cup {"merge_load", "merge_link", "aborted"},
         label \in BlockLabels \ {"lock", "recheck"} => free.node = NULL,
         cur' = cur,
         lock' = lock \/ lock = t \/ lock = NULL
  PROVE  ListOK' /\ FillingOK'
<1>. USE DEF WhileQuiet
<1>1. \A u \in Threads : pc'[u] = IF u = t THEN label ELSE pc[u]
  BY Shapes
<1>2. Off' = Off
  BY DEF Off
<1>3. ListOK'
  <2>1. CASE List!Linked(free.node, next, Off)
    BY <2>1, <1>2 DEF ListOK
  <2>2. CASE ~List!Linked(free.node, next, Off)
    <3>1. free.node = NULL /\ lock \in Threads /\ pc[lock] \in Filling
      BY <2>2 DEF ListOK
    <3>2. lock # t /\ lock # NULL /\ lock' = lock
      <4>1. lock = NULL => lock \in BlockLabels
        BY <3>1, MemoryPoolAssumption
      <4>2. QED BY <3>1, MemoryPoolAssumption
    <3>3. QED BY <1>1, <3>1, <3>2 DEF ListOK
  <2>3. QED BY <2>1, <2>2
<1>4. FillingOK'
  BY <1>1 DEF FillingOK, Growing, Filling, First, Last
<1>5. QED BY <1>3, <1>4

\* Nothing that a thread has prepared goes stale when the list does not change.
LEMMA SameWords ==
  ASSUME TypeOK, WhileQuiet, NEW t \in Threads,
         UNCHANGED <<free, next, node>>,
         NEW label, pc' = [pc EXCEPT ![t] = label], label \notin {"cas", "free_cas"},
         label \in {"next", "free_link"} => orig'[t] = free,
         \A u \in Threads : u # t => orig'[u] = orig[u] /\ nxt'[u] = nxt[u]
  PROVE  CountersOK' /\ SwapsOK'
<1>. USE DEF WhileQuiet
<1>1. \A u \in Threads : pc'[u] = IF u = t THEN label ELSE pc[u]
  BY Shapes
<1>2. free.aba \in Nat
  BY Shapes DEF Word
<1>3. CountersOK'
  BY <1>1, <1>2 DEF CountersOK
<1>4. SwapsOK'
  BY <1>1 DEF SwapsOK
<1>5. QED BY <1>3, <1>4

\* The steps that only look: at m_free, at the lock, at the clock.
LEMMA LookingStep ==
  ASSUME IInv, TypeOK', WhileQuiet, NobodyMeets', NEW t \in Threads,
         \/ CallAllocate(t) \/ Load(t) \/ PopFails(t) \/ PushFails(t)
         \/ Lock(t) \/ Beaten(t) \/ StillEmpty(t) \/ Throttled(t) \/ NotThrottled(t)
         \/ RecordTime(t) \/ BadAlloc(t)
  PROVE  WhileQuiet'
<1>. DEFINE Look == {"idle", "load", "cas", "free_cas", "lock", "recheck", "time", "record", "new"}
            Then == {"idle", "load", "next", "free_link", "lock", "recheck", "time", "record", "new"}
<1>0. TypeOK /\ LockOK
  BY DEF IInv
<1>1. /\ pc[t] \in Look
      /\ UNCHANGED <<free, next, flag, held, orphans, maxSize, blocks, cur>>
  BY DEF CallAllocate, Load, PopFails, PushFails, Lock, Beaten, StillEmpty, Throttled,
         NotThrottled, RecordTime, BadAlloc, freeVars, blockVars, userVars
<1>2. PICK label \in Then :
        /\ pc' = [pc EXCEPT ![t] = label]
        /\ label = "free_link" <=> pc[t] = "free_cas"
        /\ label \in {"next", "free_link"} => orig' = [orig EXCEPT ![t] = free]
        /\ label = "time" => free.node = NULL
        /\ label \in {"record", "new"} => pc[t] \in {"time", "record"}
  BY DEF CallAllocate, Load, PopFails, PushFails, Lock, Beaten, StillEmpty, Throttled,
         NotThrottled, RecordTime, BadAlloc, Goto, Return, LoadFree, AfterLoad, RetryAt, Empty
<1>3. pc[t] # "free_cas" => node[t] = NULL
  BY <1>1 DEF WhileQuiet, NodeOK, FreeLabels
<1>4. node' = node
  <2>1. CASE Throttled(t) \/ BadAlloc(t)
    <3>1. node' = [node EXCEPT ![t] = NULL] /\ node[t] = NULL
      BY <2>1, <1>3 DEF Throttled, BadAlloc, Return
    <3>2. QED BY <3>1, <1>0, Shapes
  <2>2. CASE ~(Throttled(t) \/ BadAlloc(t))
    BY <2>2 DEF CallAllocate, Load, PopFails, PushFails, Lock, Beaten, StillEmpty,
                NotThrottled, RecordTime, localVars
  <2>3. QED BY <2>1, <2>2
<1>5. \A u \in Threads : u # t => orig'[u] = orig[u] /\ nxt'[u] = nxt[u]
  BY <1>0, Shapes DEF CallAllocate, Load, PopFails, PushFails, Lock, Beaten, StillEmpty, Throttled,
     NotThrottled, RecordTime, BadAlloc, Goto, Return, LoadFree, localVars
<1>6. lock' = lock \/ lock = t \/ lock = NULL
  <2>1. pc[t] \in {"recheck", "time", "new"} => lock = t
    BY <1>0 DEF LockOK, BlockLabels
  <2>2. QED BY <2>1 DEF CallAllocate, Load, PopFails, PushFails, Lock, Beaten, StillEmpty, Throttled,
                        NotThrottled, RecordTime, BadAlloc, TestAndSet, blockVars
<1>7. label \in BlockLabels \ {"lock", "recheck"} => free.node = NULL
  <2>1. pc[t] \in {"time", "record"} => free.node = NULL
    BY DEF WhileQuiet, FillingOK, Growing, BlockLabels
  <2>2. QED BY <1>2, <2>1 DEF BlockLabels
<1>8. maxSize' \in Nat /\ maxSize' >= maxSize
  BY <1>0, <1>1, SizeType
<1>9. NodeOK' /\ OwnersOK' /\ FlagsOK' /\ Taken' = Taken
  BY <1>0, <1>1, <1>2, <1>3, <1>4, <1>8, SameHands
<1>10. orig'[t] = free \/ label \notin {"next", "free_link"}
  BY <1>0, <1>2, Shapes
<1>11. CountersOK' /\ SwapsOK'
  BY <1>0, <1>1, <1>2, <1>4, <1>5, <1>10, SameWords
<1>12. ListOK' /\ FillingOK'
  <2>1. /\ pc[t] \notin Filling \cup {"aborted"}
        /\ label \notin Filling \cup {"merge_load", "merge_link", "aborted"}
    BY <1>1, <1>2 DEF Filling
  <2>2. QED BY <2>1, <1>0, <1>1, <1>2, <1>6, <1>7, <1>9, SameList2
<1>13. QED BY <1>9, <1>11, <1>12 DEF WhileQuiet

\* The link of the top is read.  It stays right as long as the counter does.
LEMMA ReadNextStep ==
  ASSUME IInv, TypeOK', WhileQuiet, NEW t \in Threads, ReadNext(t)
  PROVE  WhileQuiet' \/ ~NobodyMeets'
<1>. SUFFICES ASSUME NobodyMeets' PROVE WhileQuiet'
  OBVIOUS
<1>0. TypeOK
  BY DEF IInv
<1>1. /\ pc[t] = "next" /\ pc' = [pc EXCEPT ![t] = "cas"]
      /\ UNCHANGED <<free, next, flag, held, orphans, maxSize, blocks, cur, lock, orig, node>>
  BY DEF ReadNext, Goto, freeVars, blockVars, userVars
<1>2. /\ \A u \in Threads : pc'[u] = IF u = t THEN "cas" ELSE pc[u]
      /\ \A u \in Threads : u # t => nxt'[u] = nxt[u]
      /\ nxt'[t].node = next[orig[t].node] /\ nxt'[t].aba = orig[t].aba + 1
  BY <1>0, <1>1, Shapes DEF ReadNext, NextAba
<1>3. node[t] = NULL
  BY <1>1 DEF WhileQuiet, NodeOK, FreeLabels
<1>4. NodeOK' /\ OwnersOK' /\ FlagsOK' /\ Taken' = Taken
  <2>1. maxSize' \in Nat /\ maxSize' >= maxSize
    BY <1>0, <1>1, SizeType
  <2>2. QED BY <1>0, <1>1, <1>3, <2>1, SameHands
<1>5. CountersOK'
  BY <1>1, <1>2 DEF WhileQuiet, CountersOK
<1>6. SwapsOK'
  BY <1>1, <1>2 DEF WhileQuiet, SwapsOK
<1>7. ListOK' /\ FillingOK'
  BY <1>0, <1>1, <1>4, SameList2 DEF Filling, BlockLabels
<1>8. QED BY <1>4, <1>5, <1>6, <1>7 DEF WhileQuiet

\* A slot passes from a pop to its caller or, the constructor having thrown, to
\* nobody: its flag is set.
LEMMA ConstructStep ==
  ASSUME IInv, TypeOK', WhileQuiet, NobodyMeets', NEW t \in Threads,
         Construct(t) \/ ConstructThrows(t)
  PROVE  WhileQuiet'
<1>0. TypeOK /\ TypeOK'
  BY DEF IInv
<1>. PICK x \in Addr : x = node[t]
  BY DEF IInv, PreparedOK, Construct, ConstructThrows
<1>1. /\ pc[t] = "construct" /\ pc' = [pc EXCEPT ![t] = "idle"]
      /\ UNCHANGED <<free, next, maxSize, blocks, cur, lock>>
  BY DEF Construct, ConstructThrows, Goto, Return, blockVars
<1>2. /\ \A u \in Threads : pc'[u] = IF u = t THEN "idle" ELSE pc[u]
      /\ \A u \in Threads : node'[u] = IF u = t THEN NULL ELSE node[u]
      /\ \A u \in Threads : u # t => orig'[u] = orig[u] /\ nxt'[u] = nxt[u]
      /\ \A s \in Addr : flag'[s] = IF s = x THEN TRUE ELSE flag[s]
  BY <1>0, <1>1, Shapes DEF Construct, ConstructThrows, Return, SetFlag
<1>3. \/ /\ \A u \in Threads : held'[u] = IF u = t THEN held[t] \cup {x} ELSE held[u]
         /\ orphans' = orphans
      \/ held' = held /\ orphans' = orphans \cup {x}
  BY <1>0, Shapes DEF Construct, ConstructThrows
<1>4. NULL \notin Addr
  BY SlotNumbers
<1>. USE DEF WhileQuiet
<1>5. NodeOK'
  BY <1>2 DEF NodeOK
<1>6. Taken' = Taken
  <2>1. \A s \in Addr : s \in Taken' <=> s \in Taken
    BY <1>0, <1>2, <1>3, <1>4, <1>5, TakenIs
  <2>2. QED BY <1>0, <2>1, TakenType
<1>7. /\ \A u \in Threads : u # t => node[u] # x
      /\ \A u \in Threads : x \notin held[u]
      /\ x \notin orphans
  BY <1>4 DEF OwnersOK
<1>8. OwnersOK'
  <2>1. ASSUME NEW u \in Threads, NEW v \in Threads
        PROVE  /\ u # v => held'[u] \cap held'[v] = {} /\ (node'[u] # NULL => node'[u] # node'[v])
               /\ node'[u] \notin held'[v]
    <3>1. NULL \notin held'[v]
      BY <1>0, <1>4, Shapes DEF TypeOK
    <3>2. u # v => held'[u] \cap held'[v] = {}
      BY <1>3, <1>7 DEF OwnersOK
    <3>3. node'[u] # NULL /\ u # v => node'[u] # node'[v]
      BY <1>2 DEF OwnersOK
    <3>4. node'[u] \notin held'[v]
      BY <1>2, <1>3, <1>7, <3>1 DEF OwnersOK
    <3>5. QED BY <3>2, <3>3, <3>4
  <2>2. ASSUME NEW u \in Threads
        PROVE  node'[u] \notin orphans' /\ held'[u] \cap orphans' = {}
    <3>1. NULL \notin orphans'
      BY <1>0, <1>4 DEF TypeOK
    <3>2. QED BY <1>2, <1>3, <1>7, <3>1 DEF OwnersOK
  <2>3. Taken' \subseteq 1 .. maxSize'
    BY <1>1, <1>6 DEF OwnersOK
  <2>4. QED BY <2>1, <2>2, <2>3 DEF OwnersOK
<1>9. FlagsOK'
  <2>1. ASSUME NEW u \in Threads, NEW s \in held'[u]
        PROVE  flag'[s] = TRUE
    <3>1. s \in Addr
      BY <1>0 DEF TypeOK
    <3>2. s = x \/ s \in held[u]
      BY <1>3
    <3>3. QED BY <3>1, <3>2, <1>2 DEF FlagsOK
  <2>2. ASSUME NEW u \in Threads, u # t, node[u] \in Addr
        PROVE  flag'[node'[u]] = flag[node[u]]
    BY <1>2, <1>7, <2>2, ZenonT(30)
  <2>3. \A u \in Threads : pc[u] \in {"construct"} \cup FreeLabels => node[u] \in Addr
    BY DEF IInv, PreparedOK
  <2>4. ASSUME NEW u \in Threads
        PROVE  /\ pc'[u] = "free_load" => flag'[node'[u]] = TRUE
               /\ pc'[u] \in {"construct", "free_link", "free_cas"} => flag'[node'[u]] # TRUE
    BY <1>2, <2>2, <2>3, ZenonT(30) DEF FlagsOK, FreeLabels
  <2>5. \A s \in Addr : flag'[s] = TRUE => s \in Taken'
    <3>1. x \in Taken
      BY <1>0, TakenIs
    <3>2. QED BY <1>2, <1>6, <3>1 DEF FlagsOK
  <2>6. QED BY <2>1, <2>4, <2>5 DEF FlagsOK
<1>10. CountersOK'
  BY <1>1, <1>2 DEF CountersOK
<1>11. SwapsOK'
  BY <1>1, <1>2 DEF SwapsOK
<1>12. ListOK' /\ FillingOK'
  BY <1>0, <1>1, <1>6, SameList2 DEF Filling, BlockLabels
<1>13. QED BY <1>5, <1>8, <1>9, <1>10, <1>11, <1>12

\* A caller gives a slot back: it is on its way now.
LEMMA CallDeallocateStep ==
  ASSUME IInv, TypeOK', WhileQuiet, NobodyMeets', NEW t \in Threads,
         NEW x \in Addr, CallDeallocate(t, x)
  PROVE  WhileQuiet'
<1>0. TypeOK /\ TypeOK'
  BY DEF IInv
<1>1. /\ pc[t] = "idle" /\ pc' = [pc EXCEPT ![t] = "free_load"] /\ x \in held[t]
      /\ UNCHANGED <<free, next, flag, orphans, maxSize, blocks, cur, lock, orig, nxt>>
  BY DEF CallDeallocate, Goto, freeVars, blockVars
<1>2. /\ \A u \in Threads : pc'[u] = IF u = t THEN "free_load" ELSE pc[u]
      /\ \A u \in Threads : node'[u] = IF u = t THEN x ELSE node[u]
      /\ \A u \in Threads : held'[u] = IF u = t THEN held[t] \ {x} ELSE held[u]
  BY <1>0, <1>1, Shapes DEF CallDeallocate
<1>3. NULL \notin Addr
  BY SlotNumbers
<1>. USE DEF WhileQuiet
<1>4. NodeOK' /\ node[t] = NULL
  BY <1>1, <1>2 DEF NodeOK, FreeLabels
<1>5. Taken' = Taken
  <2>1. \A s \in Addr : s \in Taken' <=> s \in Taken
    BY <1>0, <1>1, <1>2, <1>3, <1>4, TakenIs
  <2>2. QED BY <1>0, <2>1, TakenType
<1>6. /\ \A u \in Threads : node[u] # x
      /\ \A u \in Threads : u # t => x \notin held[u]
      /\ x \notin orphans
  BY <1>1 DEF OwnersOK
<1>7. OwnersOK'
  <2>1. ASSUME NEW u \in Threads, NEW v \in Threads
        PROVE  /\ u # v => held'[u] \cap held'[v] = {} /\ (node'[u] # NULL => node'[u] # node'[v])
               /\ node'[u] \notin held'[v]
    <3>1. u # v => held'[u] \cap held'[v] = {}
      BY <1>2 DEF OwnersOK
    <3>2. node'[u] # NULL /\ u # v => node'[u] # node'[v]
      BY <1>2, <1>6 DEF OwnersOK
    <3>3. node'[u] \notin held'[v]
      BY <1>2, <1>6 DEF OwnersOK
    <3>4. QED BY <3>1, <3>2, <3>3
  <2>2. \A u \in Threads : node'[u] \notin orphans' /\ held'[u] \cap orphans' = {}
    BY <1>1, <1>2, <1>6 DEF OwnersOK
  <2>3. Taken' \subseteq 1 .. maxSize'
    BY <1>1, <1>5 DEF OwnersOK
  <2>4. QED BY <2>1, <2>2, <2>3 DEF OwnersOK
<1>8. FlagsOK'
  <2>1. \A u \in Threads : \A s \in held'[u] : flag'[s] = TRUE
    BY <1>1, <1>2 DEF FlagsOK
  <2>2. flag[x] = TRUE
    BY <1>1 DEF FlagsOK
  <2>3. ASSUME NEW u \in Threads
        PROVE  /\ pc'[u] = "free_load" => flag'[node'[u]] = TRUE
               /\ pc'[u] \in {"construct", "free_link", "free_cas"} => flag'[node'[u]] # TRUE
    <3>1. CASE u = t
      <4>1. node'[u] = x /\ pc'[u] = "free_load" /\ flag' = flag
        BY <1>1, <1>2, <3>1
      <4>2. flag'[node'[u]] = TRUE
        BY <2>2, <4>1, Zenon
      <4>3. QED BY <4>1, <4>2
    <3>2. CASE u # t
      BY <1>1, <1>2, <3>2, ZenonT(30) DEF FlagsOK
    <3>3. QED BY <3>1, <3>2
  <2>4. \A s \in Addr : flag'[s] = TRUE => s \in Taken'
    BY <1>1, <1>5 DEF FlagsOK
  <2>5. QED BY <2>1, <2>3, <2>4 DEF FlagsOK
<1>9. CountersOK'
  BY <1>1, <1>2 DEF CountersOK
<1>10. SwapsOK'
  BY <1>1, <1>2 DEF SwapsOK
<1>11. ListOK' /\ FillingOK'
  BY <1>0, <1>1, <1>5, SameList2 DEF Filling, BlockLabels
<1>12. QED BY <1>4, <1>7, <1>8, <1>9, <1>10, <1>11

\* deallocate() loads m_free and resets the flag.
LEMMA FreeLoadStep ==
  ASSUME IInv, TypeOK', WhileQuiet, NobodyMeets', NEW t \in Threads, FreeLoad(t)
  PROVE  WhileQuiet'
<1>0. TypeOK /\ TypeOK'
  BY DEF IInv
<1>. PICK x \in Addr : x = node[t]
  BY DEF IInv, PreparedOK, FreeLoad, FreeLabels
<1>1. /\ pc[t] = "free_load" /\ pc' = [pc EXCEPT ![t] = "free_link"]
      /\ UNCHANGED <<free, next, held, orphans, maxSize, blocks, cur, lock, nxt, node>>
  BY DEF FreeLoad, Goto, blockVars, userVars
<1>2. /\ \A u \in Threads : pc'[u] = IF u = t THEN "free_link" ELSE pc[u]
      /\ \A u \in Threads : orig'[u] = IF u = t THEN free ELSE orig[u]
      /\ \A s \in Addr : flag'[s] = IF s = x THEN FALSE ELSE flag[s]
  BY <1>0, <1>1, Shapes DEF FreeLoad, LoadFree, ClearFlag
<1>3. NULL \notin Addr
  BY SlotNumbers
<1>. USE DEF WhileQuiet
<1>4. NodeOK'
  BY <1>1, <1>2 DEF NodeOK, FreeLabels
<1>5. Taken' = Taken
  <2>1. \A s \in Addr : s \in Taken' <=> s \in Taken
    BY <1>0, <1>1, <1>4, TakenIs
  <2>2. QED BY <1>0, <2>1, TakenType
<1>6. OwnersOK'
  BY <1>1, <1>5 DEF OwnersOK
<1>7. FlagsOK'
  <2>1. ASSUME NEW u \in Threads, NEW s \in held'[u]
        PROVE  flag'[s] = TRUE
    <3>1. s \in Addr /\ s \in held[u]
      BY <1>0, <1>1 DEF TypeOK
    <3>2. s # x
      BY <3>1 DEF OwnersOK
    <3>3. QED BY <3>1, <3>2, <1>2 DEF FlagsOK
  <2>2. ASSUME NEW u \in Threads, u # t, node[u] \in Addr
        PROVE  flag'[node'[u]] = flag[node[u]]
    BY <1>1, <1>2, <1>3, <2>2 DEF OwnersOK
  <2>3. \A u \in Threads : pc[u] \in {"construct"} \cup FreeLabels => node[u] \in Addr
    BY DEF IInv, PreparedOK
  <2>4. ASSUME NEW u \in Threads
        PROVE  /\ pc'[u] = "free_load" => flag'[node'[u]] = TRUE
               /\ pc'[u] \in {"construct", "free_link", "free_cas"} => flag'[node'[u]] # TRUE
    <3>1. CASE u = t
      <4>1. flag'[x] = FALSE /\ node'[u] = x /\ pc'[u] = "free_link"
        BY <1>1, <1>2, <3>1
      <4>2. flag'[node'[u]] # TRUE
        BY <4>1, Zenon
      <4>3. QED BY <4>1, <4>2
    <3>2. CASE u # t
      BY <1>2, <2>2, <2>3, <3>2 DEF FlagsOK, FreeLabels
    <3>3. QED BY <3>1, <3>2
  <2>5. \A s \in Addr : flag'[s] = TRUE => s \in Taken'
    BY <1>2, <1>5 DEF FlagsOK
  <2>6. QED BY <2>1, <2>4, <2>5 DEF FlagsOK
<1>8. free.aba \in Nat
  BY <1>0, Shapes DEF Word
<1>9. CountersOK'
  BY <1>1, <1>2, <1>8 DEF CountersOK
<1>10. SwapsOK'
  BY <1>1, <1>2 DEF SwapsOK
<1>11. ListOK' /\ FillingOK'
  BY <1>0, <1>1, <1>5, SameList2 DEF Filling, BlockLabels
<1>12. QED BY <1>4, <1>6, <1>7, <1>9, <1>10, <1>11

\* Nobody is adding a block while a thread changes the list.
LEMMA NobodyGrows ==
  ASSUME WhileQuiet, NEW t \in Threads,
         pc[t] \in {"next", "cas", "free_load", "free_link", "free_cas"}
  PROVE  \A u \in Threads : ~Growing(u) /\ pc[u] \notin Filling
<1>1. \A u \in Threads : ~Growing(u)
  BY DEF WhileQuiet, NobodyMeets, Changing, FreeLabels
<1>2. QED BY <1>1 DEF Growing, Filling, BlockLabels

\* The top is taken off: the rest is the list, and what others have prepared with
\* the old counter will not be swapped in.
LEMMA PopStep ==
  ASSUME IInv, TypeOK', WhileQuiet, NobodyMeets', NEW t \in Threads, Pop(t)
  PROVE  WhileQuiet'
<1>0. TypeOK /\ TypeOK'
  BY DEF IInv
<1>. PICK x : x = free.node
  OBVIOUS
<1>1. /\ pc[t] = "cas" /\ pc' = [pc EXCEPT ![t] = "construct"]
      /\ UNCHANGED <<next, flag, held, orphans, maxSize, blocks, cur, lock, orig, nxt>>
  BY DEF Pop, Goto, blockVars, userVars
<1>. USE DEF WhileQuiet
<1>2. orig[t] = free /\ orig[t].node = x
  BY <1>1 DEF Pop, Unmoved, CountersOK
<1>3. \A u \in Threads : ~Growing(u) /\ pc[u] \notin Filling
  BY <1>1, NobodyGrows
<1>4. List!Linked(free.node, next, Off)
  BY <1>1, <1>3, ListThen
<1>5. x \in Addr /\ x \notin Taken /\ x \in 1 .. maxSize /\ x # NULL
  <2>1. free.node # NULL
    BY <1>1, <1>2 DEF IInv, PreparedOK
  <2>2. QED BY <1>0, <1>4, <2>1, TopIsFree
<1>6. /\ \A u \in Threads : pc'[u] = IF u = t THEN "construct" ELSE pc[u]
      /\ \A u \in Threads : node'[u] = IF u = t THEN x ELSE node[u]
  BY <1>0, <1>1, <1>2, Shapes DEF Pop
<1>7. free'.node = next[x] /\ free'.aba = free.aba + 1 /\ free.aba \in Nat
  BY <1>0, <1>1, <1>2, Shapes DEF Pop, SetFree, SwapsOK, Word
<1>8. NULL \notin Addr
  BY SlotNumbers
<1>9. NodeOK' /\ node[t] = NULL
  BY <1>1, <1>6 DEF NodeOK, FreeLabels
<1>10. /\ \A s \in Addr : s \in Taken' <=> s = x \/ s \in Taken
       /\ Taken \subseteq Addr /\ Taken' \subseteq Addr
  BY <1>0, <1>1, <1>5, <1>6, <1>8, <1>9, TakenIs, TakenType
<1>11. /\ \A u \in Threads : node[u] # x /\ x \notin held[u]
       /\ x \notin orphans
  BY <1>0, <1>5, TakenIs
<1>12. OwnersOK'
  <2>1. ASSUME NEW u \in Threads, NEW v \in Threads
        PROVE  /\ u # v => held'[u] \cap held'[v] = {} /\ (node'[u] # NULL => node'[u] # node'[v])
               /\ node'[u] \notin held'[v]
    BY <1>1, <1>6, <1>11 DEF OwnersOK
  <2>2. \A u \in Threads : node'[u] \notin orphans' /\ held'[u] \cap orphans' = {}
    BY <1>1, <1>6, <1>11 DEF OwnersOK
  <2>3. Taken' \subseteq 1 .. maxSize'
    BY <1>1, <1>5, <1>10 DEF OwnersOK
  <2>4. QED BY <2>1, <2>2, <2>3 DEF OwnersOK
<1>13. FlagsOK'
  <2>1. \A u \in Threads : \A s \in held'[u] : flag'[s] = TRUE
    BY <1>1 DEF FlagsOK
  <2>2. flag[x] # TRUE
    BY <1>5 DEF FlagsOK
  <2>3. ASSUME NEW u \in Threads
        PROVE  /\ pc'[u] = "free_load" => flag'[node'[u]] = TRUE
               /\ pc'[u] \in {"construct", "free_link", "free_cas"} => flag'[node'[u]] # TRUE
    <3>1. CASE u = t
      <4>1. node'[u] = x /\ pc'[u] = "construct" /\ flag' = flag
        BY <1>1, <1>6, <3>1
      <4>2. flag'[node'[u]] # TRUE
        BY <2>2, <4>1, Zenon
      <4>3. QED BY <4>1, <4>2
    <3>2. CASE u # t
      BY <1>1, <1>6, <3>2, ZenonT(30) DEF FlagsOK
    <3>3. QED BY <3>1, <3>2
  <2>4. \A s \in Addr : flag'[s] = TRUE => s \in Taken'
    BY <1>1, <1>10 DEF FlagsOK
  <2>5. QED BY <2>1, <2>3, <2>4 DEF FlagsOK
<1>14. \A u \in Threads : orig[u].aba \in Nat
  BY <1>0, Shapes DEF Word
<1>15. CountersOK'
  BY <1>1, <1>6, <1>7, <1>14 DEF CountersOK
<1>16. SwapsOK'
  <2>1. \A u \in Threads : pc'[u] = "cas" => orig'[u] # free'
    <3>1. ASSUME NEW u \in Threads, pc'[u] = "cas"
          PROVE  orig[u].aba <= free.aba
      BY <3>1, <1>6 DEF CountersOK
    <3>2. QED BY <3>1, <1>1, <1>7, <1>14
  <2>2. \A u \in Threads : pc'[u] = "free_cas" => nxt'[u].node = node'[u] /\ next'[node'[u]] = orig'[u].node
    BY <1>1, <1>6 DEF SwapsOK
  <2>3. \A u \in Threads : pc'[u] \in {"cas", "free_cas"} => nxt'[u].aba = orig'[u].aba + 1
    BY <1>1, <1>6 DEF SwapsOK
  <2>4. QED BY <2>1, <2>2, <2>3 DEF SwapsOK
<1>17. ListOK'
  <2>1. \A s \in Addr : s \in Off' <=> s = x \/ s \in Off
    BY <1>1, <1>10 DEF Off
  <2>2. List!Linked(next[x], next, Off')
    BY <1>4, <1>5, <2>1, OneLess
  <2>3. QED BY <2>2, <1>1, <1>7 DEF ListOK
<1>18. FillingOK'
  BY <1>3, <1>6 DEF FillingOK, Growing, Filling, BlockLabels
<1>19. QED BY <1>9, <1>12, <1>13, <1>15, <1>16, <1>17, <1>18

\* The link of a slot on its way back is written: nobody else reads that slot.
LEMMA LinkFreedStep ==
  ASSUME IInv, TypeOK', WhileQuiet, NobodyMeets', NEW t \in Threads, LinkFreed(t)
  PROVE  WhileQuiet'
<1>0. TypeOK /\ TypeOK'
  BY DEF IInv
<1>. PICK x \in Addr : x = node[t]
  BY DEF IInv, PreparedOK, LinkFreed, FreeLabels
<1>1. /\ pc[t] = "free_link" /\ pc' = [pc EXCEPT ![t] = "free_cas"]
      /\ UNCHANGED <<free, flag, held, orphans, maxSize, blocks, cur, lock, orig, node>>
  BY DEF LinkFreed, Goto, blockVars, userVars
<1>2. /\ \A u \in Threads : pc'[u] = IF u = t THEN "free_cas" ELSE pc[u]
      /\ \A s \in Addr : next'[s] = IF s = x THEN orig[t].node ELSE next[s]
      /\ \A u \in Threads : u # t => nxt'[u] = nxt[u]
      /\ nxt'[t].node = x /\ nxt'[t].aba = orig[t].aba + 1
  BY <1>0, <1>1, Shapes DEF LinkFreed, NextAba
<1>3. NULL \notin Addr
  BY SlotNumbers
<1>4. NodeOK' /\ OwnersOK' /\ FlagsOK' /\ Taken' = Taken
  <2>1. maxSize' \in Nat /\ maxSize' >= maxSize
    BY <1>0, <1>1, SizeType
  <2>2. QED BY <1>0, <1>1, <2>1, SameHands
<1>. USE DEF WhileQuiet
<1>5. \A u \in Threads : ~Growing(u) /\ pc[u] \notin Filling
  BY <1>1, NobodyGrows
<1>6. List!Linked(free.node, next, Off)
  BY <1>1, <1>5, ListThen
<1>7. x \in Taken
  BY <1>0, TakenIs
<1>8. ListOK'
  <2>1. Off' = Off
    BY <1>1, <1>4 DEF Off
  <2>2. \A s \in Addr \ Off : next'[s] = next[s]
    BY <1>2, <1>7 DEF Off
  <2>3. List!Linked(free.node, next', Off')
    BY <1>6, <2>1, <2>2, SameSlots
  <2>4. QED BY <2>3, <1>1 DEF ListOK
<1>9. CountersOK'
  BY <1>1, <1>2 DEF CountersOK
<1>10. SwapsOK'
  <2>1. \A u \in Threads : pc'[u] = "cas" /\ orig'[u] = free' => nxt'[u].node = next'[free'.node]
    <3>1. ASSUME NEW u \in Threads, pc'[u] = "cas", orig'[u] = free'
          PROVE  nxt'[u].node = next'[free'.node]
      <4>1. pc[u] = "cas" /\ u # t /\ orig[u] = free
        BY <3>1, <1>1, <1>2
      <4>2. free.node # NULL
        BY <4>1 DEF IInv, PreparedOK
      <4>3. free.node \in Addr /\ free.node # x
        BY <1>0, <1>6, <1>7, <4>2, TopIsFree
      <4>4. nxt[u].node = next[free.node]
        BY <4>1 DEF SwapsOK
      <4>5. QED BY <4>1, <4>3, <4>4, <1>1, <1>2
    <3>2. QED BY <3>1
  <2>2. ASSUME NEW u \in Threads, pc'[u] = "free_cas"
        PROVE  nxt'[u].node = node'[u] /\ next'[node'[u]] = orig'[u].node
    <3>1. CASE u = t
      BY <1>1, <1>2, <3>1
    <3>2. CASE u # t
      <4>1. pc[u] = "free_cas" /\ node[u] \in Addr
        BY <1>2, <2>2, <3>2 DEF IInv, PreparedOK, FreeLabels
      <4>2. node[u] # x
        BY <1>3, <3>2, <4>1 DEF OwnersOK
      <4>3. QED BY <1>1, <1>2, <3>2, <4>1, <4>2 DEF SwapsOK
    <3>3. QED BY <3>1, <3>2
  <2>3. \A u \in Threads : pc'[u] \in {"cas", "free_cas"} => nxt'[u].aba = orig'[u].aba + 1
    BY <1>1, <1>2 DEF SwapsOK
  <2>4. QED BY <2>1, <2>2, <2>3 DEF SwapsOK
<1>11. FillingOK'
  BY <1>2, <1>5 DEF FillingOK, Growing, Filling, BlockLabels
<1>12. QED BY <1>4, <1>8, <1>9, <1>10, <1>11

\* A slot is put on top of the list.
LEMMA PushStep ==
  ASSUME IInv, TypeOK', WhileQuiet, NobodyMeets', NEW t \in Threads, Push(t)
  PROVE  WhileQuiet'
<1>0. TypeOK /\ TypeOK'
  BY DEF IInv
<1>. PICK x \in Addr : x = node[t]
  BY DEF IInv, PreparedOK, Push, FreeLabels
<1>1. /\ pc[t] = "free_cas" /\ pc' = [pc EXCEPT ![t] = "idle"]
      /\ UNCHANGED <<next, flag, held, orphans, maxSize, blocks, cur, lock>>
  BY DEF Push, Goto, Return, blockVars, userVars
<1>. USE DEF WhileQuiet
<1>2. orig[t] = free /\ nxt[t].node = x /\ next[x] = free.node /\ nxt[t].aba = free.aba + 1
  BY <1>1 DEF Push, Unmoved, CountersOK, SwapsOK
<1>3. \A u \in Threads : ~Growing(u) /\ pc[u] \notin Filling
  BY <1>1, NobodyGrows
<1>4. List!Linked(free.node, next, Off)
  BY <1>1, <1>3, ListThen
<1>5. /\ \A u \in Threads : pc'[u] = IF u = t THEN "idle" ELSE pc[u]
      /\ \A u \in Threads : node'[u] = IF u = t THEN NULL ELSE node[u]
      /\ \A u \in Threads : u # t => orig'[u] = orig[u] /\ nxt'[u] = nxt[u]
  BY <1>0, <1>1, Shapes DEF Push, Return
<1>6. free'.node = x /\ free'.aba = free.aba + 1 /\ free.aba \in Nat
  BY <1>0, <1>2, Shapes DEF Push, SetFree, Word
<1>7. NULL \notin Addr
  BY SlotNumbers
<1>8. NodeOK'
  BY <1>5 DEF NodeOK
<1>9. /\ \A u \in Threads : (u # t => node[u] # x) /\ x \notin held[u]
      /\ x \notin orphans
  BY <1>7 DEF OwnersOK
<1>10. /\ \A s \in Addr : s \in Taken' <=> s # x /\ s \in Taken
       /\ Taken \subseteq Addr /\ Taken' \subseteq Addr
  BY <1>0, <1>1, <1>5, <1>7, <1>8, <1>9, TakenIs, TakenType
<1>11. x \in Taken
  BY <1>0, TakenIs
<1>12. OwnersOK'
  <2>1. ASSUME NEW u \in Threads, NEW v \in Threads
        PROVE  /\ u # v => held'[u] \cap held'[v] = {} /\ (node'[u] # NULL => node'[u] # node'[v])
               /\ node'[u] \notin held'[v]
    <3>1. NULL \notin held[v]
      BY <1>0, <1>7 DEF TypeOK
    <3>2. QED BY <1>1, <1>5, <3>1 DEF OwnersOK
  <2>2. \A u \in Threads : node'[u] \notin orphans' /\ held'[u] \cap orphans' = {}
    <3>1. NULL \notin orphans
      BY <1>0, <1>7 DEF TypeOK
    <3>2. QED BY <1>1, <1>5, <3>1 DEF OwnersOK
  <2>3. Taken' \subseteq 1 .. maxSize'
    BY <1>1, <1>10 DEF OwnersOK
  <2>4. QED BY <2>1, <2>2, <2>3 DEF OwnersOK
<1>13. FlagsOK'
  <2>1. \A u \in Threads : \A s \in held'[u] : flag'[s] = TRUE
    BY <1>1 DEF FlagsOK
  <2>2. flag[x] # TRUE
    BY <1>1 DEF FlagsOK
  <2>3. ASSUME NEW u \in Threads
        PROVE  /\ pc'[u] = "free_load" => flag'[node'[u]] = TRUE
               /\ pc'[u] \in {"construct", "free_link", "free_cas"} => flag'[node'[u]] # TRUE
    <3>1. CASE u = t
      BY <1>5, <3>1
    <3>2. CASE u # t
      <4>1. pc'[u] = pc[u] /\ node'[u] = node[u] /\ flag' = flag
        BY <1>1, <1>5, <3>2
      <4>2. /\ pc[u] = "free_load" => flag[node[u]] = TRUE
            /\ pc[u] \in {"construct", "free_link", "free_cas"} => flag[node[u]] # TRUE
        BY DEF FlagsOK
      <4>3. QED BY <4>1, <4>2
    <3>3. QED BY <3>1, <3>2
  <2>4. \A s \in Addr : flag'[s] = TRUE => s \in Taken'
    BY <1>1, <1>10, <2>2 DEF FlagsOK
  <2>5. QED BY <2>1, <2>3, <2>4 DEF FlagsOK
<1>14. \A u \in Threads : orig[u].aba \in Nat
  BY <1>0, Shapes DEF Word
<1>15. CountersOK'
  <2>1. ASSUME NEW u \in Threads, pc'[u] \in {"next", "cas", "free_link", "free_cas"}
        PROVE  orig'[u].aba <= free'.aba /\ orig'[u].aba # free'.aba
    <3>1. u # t /\ orig'[u] = orig[u] /\ pc[u] = pc'[u]
      BY <2>1, <1>5
    <3>2. orig[u].aba <= free.aba
      BY <2>1, <3>1 DEF CountersOK
    <3>3. QED BY <3>1, <3>2, <1>6, <1>14
  <2>2. QED BY <2>1 DEF CountersOK
<1>16. SwapsOK'
  <2>1. \A u \in Threads : pc'[u] = "cas" => orig'[u] # free'
    <3>1. ASSUME NEW u \in Threads, pc'[u] = "cas"
          PROVE  orig[u].aba <= free.aba /\ u # t
      BY <3>1, <1>5 DEF CountersOK
    <3>2. QED BY <3>1, <1>5, <1>6, <1>14
  <2>2. \A u \in Threads : pc'[u] = "free_cas" => nxt'[u].node = node'[u] /\ next'[node'[u]] = orig'[u].node
    BY <1>1, <1>5 DEF SwapsOK
  <2>3. \A u \in Threads : pc'[u] \in {"cas", "free_cas"} => nxt'[u].aba = orig'[u].aba + 1
    BY <1>1, <1>5 DEF SwapsOK
  <2>4. QED BY <2>1, <2>2, <2>3 DEF SwapsOK
<1>17. ListOK'
  <2>1. /\ \A s \in Addr : s \in Off' <=> s # x /\ s \in Off
        /\ x \in Off
    <3>1. x \in 1 .. maxSize /\ maxSize \in Nat
      BY <1>0, <1>11, SizeType DEF OwnersOK
    <3>2. QED BY <3>1, <1>1, <1>10, <1>11, SlotNumbers DEF Off
  <2>2. List!Linked(x, next, Off')
    BY <1>2, <1>4, <2>1, OneMore
  <2>3. QED BY <2>2, <1>1, <1>6 DEF ListOK
<1>18. FillingOK'
  BY <1>3, <1>5 DEF FillingOK, Growing, Filling, BlockLabels
<1>19. QED BY <1>8, <1>12, <1>13, <1>15, <1>16, <1>17, <1>18

-----------------------------------------------------------------------------
\* The steps of the thread that adds a block.

\* The others change nothing meanwhile.
LEMMA NobodyChanges ==
  ASSUME WhileQuiet, NEW t \in Threads, Growing(t)
  PROVE  \A u \in Threads : pc[u] \notin {"next", "cas", "free_load", "free_link", "free_cas"}
BY DEF WhileQuiet, NobodyMeets, Changing, FreeLabels

\* A step of that thread to a label, and what every such step keeps, whatever it
\* writes to the links.
Grows(t, label) ==
  /\ Growing(t)
  /\ UNCHANGED <<flag, held, orphans, node>>
  /\ maxSize' \in Nat /\ maxSize' >= maxSize
  /\ label \in {"link", "carve", "last", "merge", "store", "load"}
  /\ pc' = [pc EXCEPT ![t] = label]

OthersWait(t, label) ==
  /\ NodeOK' /\ OwnersOK' /\ FlagsOK' /\ CountersOK' /\ SwapsOK' /\ Taken' = Taken
  /\ free.node = NULL
  /\ \A u \in Threads : pc'[u] = IF u = t THEN label ELSE pc[u]
  /\ \A u \in Threads : u # t => ~Growing(u) /\ pc[u] \notin Filling

LEMMA GrowingStep ==
  ASSUME IInv, TypeOK', WhileQuiet, NEW t \in Threads, NEW label, Grows(t, label)
  PROVE  OthersWait(t, label)
<1>. USE DEF Grows
<1>0. TypeOK /\ LockOK
  BY DEF IInv
<1>1. \A u \in Threads : pc'[u] = IF u = t THEN label ELSE pc[u]
  BY <1>0, Shapes
<1>2. node[t] = NULL
  BY DEF WhileQuiet, NodeOK, Growing, BlockLabels, FreeLabels
<1>3. NodeOK' /\ OwnersOK' /\ FlagsOK' /\ Taken' = Taken
  BY <1>0, <1>2, SameHands
<1>4. CountersOK' /\ SwapsOK'
  BY <1>1, NobodyChanges DEF CountersOK, SwapsOK
<1>5. free.node = NULL
  BY DEF WhileQuiet, FillingOK
<1>6. \A u \in Threads : u # t => ~Growing(u) /\ pc[u] \notin Filling
  <2>1. \A u \in Threads : Growing(u) => u = t
    BY <1>0, Alone DEF Growing, Locked, BlockLabels
  <2>2. QED BY <2>1 DEF Growing, Filling, BlockLabels
<1>7. QED BY <1>1, <1>3, <1>4, <1>5, <1>6 DEF OthersWait

\* The pool is empty when a block is added: every slot is taken.
LEMMA AllTaken ==
  ASSUME TypeOK, WhileQuiet, List!Linked(NULL, next, Off)
  PROVE  Taken = 1 .. maxSize
<1>1. Addr \subseteq Off
  BY NothingOnList
<1>2. PICK most \in Nat : most = MaxBlocks * BlockSlots
  BY Constants
<1>3. maxSize \in 0 .. most /\ Addr = 1 .. most
  BY <1>2 DEF TypeOK, Addr
<1>4. 1 .. maxSize \subseteq Taken
  BY <1>1, <1>3 DEF Off
<1>5. QED BY <1>4 DEF WhileQuiet, OwnersOK

LEMMA NewBlockStep ==
  ASSUME IInv, TypeOK', WhileQuiet, NobodyMeets', NEW t \in Threads, NewBlock(t)
  PROVE  WhileQuiet' /\ Taken = 1 .. maxSize
<1>0. TypeOK /\ LockOK /\ SizesMatch
  BY DEF IInv, NewBlock, GrowingOK
<1>1. /\ pc[t] = "new" /\ Growing(t)
      /\ UNCHANGED <<free, next, flag, held, orphans, node, maxSize, lock>>
  BY DEF NewBlock, Growing, BlockLabels, freeVars, userVars, localVars
<1>2. PICK label \in {"link", "carve"} : pc' = [pc EXCEPT ![t] = label]
  BY DEF NewBlock, Goto
<1>3. maxSize' \in Nat /\ maxSize' >= maxSize
  BY <1>0, <1>1, SizeType
<1>4. /\ NodeOK' /\ OwnersOK' /\ FlagsOK' /\ CountersOK' /\ SwapsOK' /\ Taken' = Taken
      /\ free.node = NULL
      /\ \A u \in Threads : pc'[u] = IF u = t THEN label ELSE pc[u]
      /\ \A u \in Threads : u # t => ~Growing(u) /\ pc[u] \notin Filling
  <2>1. Grows(t, label)
    BY <1>1, <1>2, <1>3 DEF Grows
  <2>2. OthersWait(t, label)
    BY <2>1, GrowingStep
  <2>3. QED BY <2>2 DEF OthersWait
<1>5. lock = t
  BY <1>0, <1>1 DEF LockOK, BlockLabels
<1>6. List!Linked(free.node, next, Off)
  BY <1>1, <1>4, <1>5, ListThen DEF Filling
<1>7. Taken = 1 .. maxSize
  BY <1>0, <1>4, <1>6, AllTaken
<1>8. /\ Len(blocks') = Len(blocks) + 1 /\ Len(blocks) \in Nat
      /\ First(Len(blocks')) = maxSize + 1 /\ maxSize \in Nat
      /\ cur' = First(Len(blocks'))
  <2>1. /\ Len(blocks') = Len(blocks) + 1 /\ Len(blocks) \in Nat /\ cur' = First(Len(blocks) + 1)
    BY <1>0 DEF NewBlock, TypeOK
  <2>2. First(Len(blocks) + 1) = maxSize + 1
    BY <1>0, <2>1, Constants DEF First, SizesMatch
  <2>3. QED BY <1>0, <2>1, <2>2, SizeType
<1>9. ListOK'
  BY <1>1, <1>4, <1>5 DEF ListOK, Filling
<1>10. FillingOK'
  <2>1. ASSUME NEW u \in Threads, u # t
        PROVE  ~Growing(u)' /\ pc'[u] \notin Filling
    BY <1>4, <2>1 DEF Growing
  <2>2. First(Len(blocks')) - 1 = maxSize
    BY <1>8
  <2>3. \A s \in First(Len(blocks')) .. cur' - 1 : next'[s] = s + 1
    BY <1>8
  <2>4. Taken' = 1 .. First(Len(blocks')) - 1
    BY <1>4, <1>7, <2>2
  <2>5. pc'[t] \in {"link", "carve"} /\ free'.node = NULL
    BY <1>1, <1>2, <1>4
  <2>6. cur' = First(Len(blocks'))
    BY <1>8
  <2>7. QED BY <2>1, <2>3, <2>4, <2>5, <2>6 DEF FillingOK, Filling, Growing
<1>11. QED BY <1>4, <1>7, <1>9, <1>10 DEF WhileQuiet

\* The numbers of the newest block.
LEMMA NewestBlock ==
  ASSUME TypeOK, blocks # <<>>
  PROVE  /\ First(Len(blocks)) \in Nat /\ Last(Len(blocks)) \in Nat
         /\ 1 <= First(Len(blocks)) /\ First(Len(blocks)) <= Last(Len(blocks))
         /\ First(Len(blocks)) .. Last(Len(blocks)) \subseteq Addr
         /\ Len(blocks) \in 1 .. MaxBlocks
BY Newest, BlockNumbering

\* The links of the new block are written, one after the other.
LEMMA FillingStep ==
  ASSUME IInv, TypeOK', WhileQuiet, NobodyMeets', NEW t \in Threads,
         LinkOldLast(t) \/ Carve(t) \/ SetLast(t) \/ Merge(t)
  PROVE  WhileQuiet'
<1>0. TypeOK /\ LockOK
  BY DEF IInv
<1>1. /\ pc[t] \in {"link", "carve", "last", "merge"} /\ Growing(t)
      /\ UNCHANGED <<free, flag, held, orphans, node, blocks, lock>>
  BY DEF LinkOldLast, Carve, SetLast, Merge, Growing, BlockLabels, freeVars, blockVars, userVars, localVars
<1>2. blocks # <<>>
  BY <1>1 DEF IInv, GrowingOK
<1>. PICK f \in Nat, l \in Nat : f = First(Len(blocks)) /\ l = Last(Len(blocks))
  BY <1>0, <1>2, NewestBlock
<1>3. 1 <= f /\ f <= l /\ f .. l \subseteq Addr
  BY <1>0, <1>2, NewestBlock
<1>4. First(Len(blocks')) = f /\ Last(Len(blocks')) = l
  BY <1>1
<1>5. free.node = NULL /\ lock = t
  BY <1>0, <1>1 DEF WhileQuiet, FillingOK, LockOK, BlockLabels
<1>6. PICK label \in {"carve", "last", "merge", "store"} : pc' = [pc EXCEPT ![t] = label]
  BY <1>5 DEF LinkOldLast, Carve, SetLast, Merge, Goto
<1>7. maxSize' \in Nat /\ maxSize' >= maxSize
  <2>1. maxSize' = maxSize \/ maxSize' = maxSize + 1
    BY DEF LinkOldLast, Carve, SetLast, Merge, blockVars
  <2>2. QED BY <1>0, <2>1, SizeType
<1>8. /\ NodeOK' /\ OwnersOK' /\ FlagsOK' /\ CountersOK' /\ SwapsOK' /\ Taken' = Taken
      /\ \A u \in Threads : pc'[u] = IF u = t THEN label ELSE pc[u]
      /\ \A u \in Threads : u # t => ~Growing(u) /\ pc[u] \notin Filling
  <2>1. Grows(t, label)
    BY <1>1, <1>6, <1>7 DEF Grows
  <2>2. OthersWait(t, label)
    BY <2>1, GrowingStep
  <2>3. QED BY <2>2 DEF OthersWait
<1>9. ListOK'
  BY <1>1, <1>5, <1>6, <1>8 DEF ListOK, Filling
<1>10. Taken' = 1 .. First(Len(blocks')) - 1
  BY <1>1, <1>8 DEF WhileQuiet, FillingOK, Filling
<1>11. next \in [Addr -> Pointers]
  BY <1>0, Shapes
<1>12. /\ label = "carve" => \A s \in f .. cur' - 1 : next'[s] = s + 1
       /\ label \in {"last", "merge", "store"} => \A s \in f .. l - 1 : next'[s] = s + 1
       /\ label \in {"merge", "store"} => next'[l] = NULL
  <2>1. CASE LinkOldLast(t)
    <3>1. pc[t] = "link" /\ cur' = cur /\ label = "carve"
      BY <2>1, <1>0, <1>8, Shapes DEF LinkOldLast, Goto, blockVars
    <3>2. cur = f
      BY <3>1 DEF WhileQuiet, FillingOK
    <3>3. QED BY <3>1, <3>2
  <2>2. CASE Carve(t)
    <3>1. /\ pc[t] = "carve" /\ cur' = cur + 1
          /\ next' = [next EXCEPT ![cur] = IF cur = l THEN Garbage ELSE cur + 1]
          /\ pc' = [pc EXCEPT ![t] = IF cur = l THEN "last" ELSE "carve"]
      BY <2>2 DEF Carve, Goto
    <3>2. label = IF cur = l THEN "last" ELSE "carve"
      BY <3>1, <1>0, <1>8, Shapes
    <3>3. cur \in f .. l
      BY <3>1 DEF IInv, GrowingOK
    <3>4. \A s \in f .. cur - 1 : next[s] = s + 1
      BY <3>1 DEF WhileQuiet, FillingOK
    <3>5. \A s \in Addr : next'[s] = IF s = cur THEN (IF cur = l THEN Garbage ELSE cur + 1) ELSE next[s]
      BY <1>11, <3>1
    <3>6. \A s \in f .. cur - 1 : next'[s] = s + 1
      BY <1>3, <3>3, <3>4, <3>5
    <3>7. CASE cur = l
      BY <3>2, <3>6, <3>7
    <3>8. CASE cur # l
      <4>1. \A s \in f .. cur : next'[s] = s + 1
        <5>1. next'[cur] = cur + 1
          BY <1>3, <3>3, <3>5, <3>8
        <5>2. \A s \in f .. cur : s = cur \/ s \in f .. cur - 1
          BY <3>3
        <5>3. QED BY <3>6, <5>1, <5>2
      <4>2. cur' - 1 = cur
        BY <3>1, <3>3
      <4>3. QED BY <3>2, <3>8, <4>1, <4>2
    <3>9. QED BY <3>7, <3>8
  <2>3. CASE SetLast(t)
    <3>1. /\ pc[t] = "last" /\ next' = [next EXCEPT ![cur - 1] = NULL]
          /\ pc' = [pc EXCEPT ![t] = "merge"]
      BY <2>3 DEF SetLast, EndOfList, Goto
    <3>2. cur - 1 = l
      <4>1. cur = maxSize + 1 /\ maxSize = l
        BY <3>1 DEF IInv, GrowingOK
      <4>2. QED BY <4>1
    <3>3. label = "merge"
      BY <3>1, <1>0, <1>8, Shapes
    <3>4. \A s \in Addr : next'[s] = IF s = l THEN NULL ELSE next[s]
      BY <1>11, <3>1, <3>2
    <3>5. \A s \in f .. l - 1 : next[s] = s + 1
      BY <3>1 DEF WhileQuiet, FillingOK
    <3>6. QED BY <1>3, <3>3, <3>4, <3>5
  <2>4. CASE Merge(t)
    <3>1. pc[t] = "merge" /\ next' = next /\ pc' = [pc EXCEPT ![t] = "store"]
      BY <2>4, <1>5 DEF Merge, Goto, freeVars
    <3>2. label = "store"
      BY <3>1, <1>0, <1>8, Shapes
    <3>3. (\A s \in f .. l - 1 : next[s] = s + 1) /\ next[l] = NULL
      BY <3>1 DEF WhileQuiet, FillingOK
    <3>4. QED BY <3>1, <3>2, <3>3
  <2>5. QED BY <2>1, <2>2, <2>3, <2>4
<1>13. FillingOK'
  <2>1. ASSUME NEW u \in Threads, u # t
        PROVE  ~Growing(u)' /\ pc'[u] \notin Filling
    BY <1>8, <2>1 DEF Growing
  <2>2. pc'[t] = label /\ free'.node = NULL
    BY <1>1, <1>5, <1>8
  <2>3. QED BY <2>1, <2>2, <1>4, <1>10, <1>12 DEF FillingOK, Filling, Growing
<1>14. QED BY <1>8, <1>9, <1>13 DEF WhileQuiet

\* In the quiet nothing was freed while a block was added: there is nothing to merge.
LEMMA NothingToMerge ==
  ASSUME WhileQuiet, NEW t \in Threads, MergeLoad(t) \/ MergeLink(t)
  PROVE  FALSE
BY DEF WhileQuiet, FillingOK, MergeLoad, MergeLink, Growing, BlockLabels

\* The new block becomes the list.
LEMMA StoreStep ==
  ASSUME IInv, TypeOK', WhileQuiet, NobodyMeets', NEW t \in Threads, Store(t)
  PROVE  WhileQuiet'
<1>0. TypeOK /\ LockOK
  BY DEF IInv
<1>1. /\ pc[t] = "store" /\ Growing(t) /\ pc' = [pc EXCEPT ![t] = "load"]
      /\ UNCHANGED <<next, flag, held, orphans, node, blocks, maxSize>>
      /\ free'.node = First(Len(blocks)) /\ lock' = NULL
  BY DEF Store, SetFree, Top, Goto, Growing, BlockLabels, userVars, localVars
<1>2. blocks # <<>> /\ SizesMatch
  BY <1>1 DEF IInv, GrowingOK
<1>. PICK f \in Nat, l \in Nat : f = First(Len(blocks)) /\ l = Last(Len(blocks))
  BY <1>0, <1>2, NewestBlock
<1>3. 1 <= f /\ f <= l /\ f .. l \subseteq Addr /\ Len(blocks) \in 1 .. MaxBlocks /\ maxSize = l
  BY <1>0, <1>2, NewestBlock DEF SizesMatch, Last
<1>4. maxSize' \in Nat /\ maxSize' >= maxSize
  BY <1>0, <1>1, SizeType
<1>5. /\ NodeOK' /\ OwnersOK' /\ FlagsOK' /\ CountersOK' /\ SwapsOK' /\ Taken' = Taken
      /\ \A u \in Threads : pc'[u] = IF u = t THEN "load" ELSE pc[u]
      /\ \A u \in Threads : u # t => ~Growing(u) /\ pc[u] \notin Filling
  <2>1. Grows(t, "load")
    BY <1>1, <1>4 DEF Grows
  <2>2. OthersWait(t, "load")
    BY <2>1, GrowingStep
  <2>3. QED BY <2>2 DEF OthersWait
<1>6. Taken = 1 .. f - 1 /\ (\A s \in f .. l - 1 : next[s] = s + 1) /\ next[l] = NULL
  BY <1>1 DEF WhileQuiet, FillingOK, Filling
<1>7. \A s \in Addr : s \notin Off' <=> s \in f .. l
  BY <1>1, <1>3, <1>5, <1>6, SlotNumbers DEF Off
<1>8. List!Linked(f, next, Off')
  BY <1>3, <1>6, <1>7, OneBlock
<1>9. ListOK'
  BY <1>1, <1>8 DEF ListOK
<1>10. FillingOK'
  BY <1>5 DEF FillingOK, Growing, Filling, BlockLabels
<1>11. QED BY <1>5, <1>9, <1>10 DEF WhileQuiet

-----------------------------------------------------------------------------
\* The program ends at an assertion, the clock ticks, or nothing happens.

LEMMA AssertionFailsStep ==
  ASSUME IInv, TypeOK', WhileQuiet, NobodyMeets', NEW t \in Threads, AssertionFails(t)
  PROVE  WhileQuiet'
<1>0. TypeOK /\ TypeOK'
  BY DEF IInv
<1>1. /\ \A u \in Threads : pc'[u] = "aborted"
      /\ UNCHANGED <<free, next, flag, held, orphans, node, maxSize, blocks, cur, lock>>
  BY DEF AssertionFails, freeVars, blockVars, localVars, userVars
<1>. USE DEF WhileQuiet
<1>2. NodeOK'
  BY <1>1 DEF NodeOK
<1>3. Taken' = Taken
  <2>1. \A s \in Addr : s \in Taken' <=> s \in Taken
    BY <1>0, <1>1, <1>2, TakenIs
  <2>2. QED BY <1>0, <2>1, TakenType
<1>4. OwnersOK' /\ FlagsOK'
  <2>1. OwnersOK'
    BY <1>1, <1>3 DEF OwnersOK
  <2>2. (\A u \in Threads : \A s \in held'[u] : flag'[s] = TRUE)
        /\ \A s \in Addr : flag'[s] = TRUE => s \in Taken'
    BY <1>1, <1>3 DEF FlagsOK
  <2>3. QED BY <1>1, <2>1, <2>2 DEF FlagsOK
<1>5. CountersOK' /\ SwapsOK'
  BY <1>1 DEF CountersOK, SwapsOK
<1>6. ListOK'
  <2>1. Off' = Off
    BY <1>1, <1>3 DEF Off
  <2>2. QED BY <1>1, <2>1 DEF ListOK
<1>7. FillingOK'
  BY <1>1 DEF FillingOK, Growing, Filling, BlockLabels
<1>8. QED BY <1>2, <1>4, <1>5, <1>6, <1>7

LEMMA IdleStep ==
  ASSUME WhileQuiet, UNCHANGED <<freeVars, blockVars, pc, localVars, userVars>>
  PROVE  WhileQuiet'
<1>. USE DEF freeVars, blockVars, localVars, userVars, WhileQuiet
<1>1. Taken' = Taken
  BY DEF Taken, Held, InTransit
<1>2. NobodyMeets' /\ NodeOK'
  BY DEF NobodyMeets, Growing, Changing, NodeOK
<1>3. OwnersOK' /\ FlagsOK'
  <2>1. OwnersOK'
    BY <1>1 DEF OwnersOK
  <2>2. FlagsOK'
    BY <1>1, Zenon DEF FlagsOK
  <2>3. QED BY <2>1, <2>2
<1>4. CountersOK' /\ SwapsOK'
  BY DEF CountersOK, SwapsOK
<1>5. ListOK'
  BY <1>1 DEF ListOK, Off
<1>6. FillingOK'
  BY <1>1 DEF FillingOK, Growing
<1>7. QED BY <1>2, <1>3, <1>4, <1>5, <1>6

-----------------------------------------------------------------------------
\* The inductive invariant.

LEMMA QuietInitInv == QuietInit => QuietInv
<1>. SUFFICES ASSUME QuietInit PROVE QuietInv
  OBVIOUS
<1>. USE DEF QuietInit
<1>1. IInv
  BY InitInv
<1>. USE DEF Init
<1>2. Taken = {}
  BY DEF Taken, Held, InTransit
<1>3. NobodyMeets /\ NodeOK
  BY DEF NobodyMeets, Growing, Changing, NodeOK, BlockLabels, FreeLabels
<1>4. OwnersOK
  <2>1. Taken \subseteq 1 .. maxSize
    BY <1>2
  <2>2. QED BY <2>1 DEF OwnersOK
<1>5. FlagsOK
  <2>1. ASSUME NEW s \in Addr PROVE flag[s] # TRUE
    <3>1. flag[s] = Garbage /\ Garbage \notin BOOLEAN
      BY MemoryPoolAssumption
    <3>2. TRUE \in BOOLEAN
      OBVIOUS
    <3>3. QED BY <3>1, <3>2, Zenon
  <2>2. QED BY <2>1 DEF FlagsOK
<1>6. CountersOK /\ SwapsOK /\ FillingOK
  BY DEF CountersOK, SwapsOK, FillingOK, Growing, Filling, BlockLabels
<1>7. ListOK
  <2>1. \A s \in Addr : s \in Off
    BY SlotNumbers DEF Off
  <2>2. List!Linked(NULL, next, Off)
    BY <2>1, EmptyList
  <2>3. QED BY <2>2 DEF ListOK, Nil
<1>8. QED BY <1>1, <1>3, <1>4, <1>5, <1>6, <1>7 DEF QuietInv, WhileQuiet

LEMMA NextStep ==
  ASSUME IInv, TypeOK', WhileQuiet, NobodyMeets', Next
  PROVE  WhileQuiet'
<1>1. ASSUME NEW t \in Threads, Allocate(t) \/ Deallocate(t) PROVE WhileQuiet'
  BY <1>1, LookingStep, ReadNextStep, PopStep, ConstructStep, FreeLoadStep, LinkFreedStep, PushStep
  DEF Allocate, Deallocate
<1>2. ASSUME NEW t \in Threads, AllocateBlock(t) PROVE WhileQuiet'
  BY <1>2, LookingStep, NewBlockStep, FillingStep, NothingToMerge, StoreStep DEF AllocateBlock
<1>3. ASSUME NEW t \in Threads, \/ CallAllocate(t) \/ \E s \in Addr : CallDeallocate(t, s)
                               \/ AssertionFails(t)
      PROVE  WhileQuiet'
  BY <1>3, LookingStep, CallDeallocateStep, AssertionFailsStep
<1>4. CASE Tick \/ Rest
  <2>1. UNCHANGED <<freeVars, blockVars, pc, localVars, userVars>>
    BY <1>4 DEF Tick, Rest, vars
  <2>2. QED BY <2>1, IdleStep
<1>5. QED BY <1>1, <1>2, <1>3, <1>4 DEF Next

\* Every step of QuietMemoryPool is one of MemoryPool, or a stutter.
LEMMA PlainNext == [QuietNext]_quietVars => [Next]_vars
BY DEF QuietNext, quietVars

LEMMA QuietStepInv == QuietInv /\ [QuietNext]_quietVars => QuietInv'
<1>. SUFFICES ASSUME QuietInv, [QuietNext]_quietVars PROVE QuietInv'
  OBVIOUS
<1>1. IInv /\ IInv'
  BY PlainNext, StepInv DEF QuietInv
<1>2. TypeOK'
  BY <1>1 DEF IInv
<1>3. CASE QuietNext
  <2>1. quiet' \in BOOLEAN /\ (quiet' => quiet /\ NobodyMeets')
    BY <1>3, Zenon DEF QuietNext, NobodyMeets, Growing, Changing
  <2>2. quiet' => WhileQuiet'
    BY <1>1, <1>2, <1>3, <2>1, NextStep DEF QuietInv, QuietNext
  <2>3. QED BY <1>1, <2>1, <2>2 DEF QuietInv
<1>4. CASE UNCHANGED quietVars
  <2>1. UNCHANGED <<freeVars, blockVars, pc, localVars, userVars>> /\ quiet' = quiet
    BY <1>4 DEF quietVars, vars
  <2>2. quiet' => WhileQuiet'
    BY <2>1, IdleStep DEF QuietInv
  <2>3. QED BY <1>1, <2>1, <2>2 DEF QuietInv
<1>5. QED BY <1>3, <1>4

-----------------------------------------------------------------------------
\* What the invariant says of the free list.

LEMMA ListIsRight ==
  ASSUME IInv, WhileQuiet
  PROVE  free.node \in Addr \cup {NULL} /\ NothingLost /\ NoDoubleAllocation /\ NoABA /\ NoAssertionFails
<1>0. TypeOK
  BY DEF IInv
<1>. USE DEF WhileQuiet
<1>1. free.node = NULL \/ (free.node \in Addr /\ free.node \notin Taken)
  BY <1>0, TopIsFree DEF ListOK
<1>2. NothingLost
  <2>. SUFFICES ASSUME lock = NULL, NEW s \in 1 .. maxSize, s \notin Taken
                PROVE  s \in Reachable
    BY DEF NothingLost
  <2>1. List!Linked(free.node, next, Off)
    BY MemoryPoolAssumption DEF ListOK
  <2>2. PICK most \in Nat : most = MaxBlocks * BlockSlots
    BY Constants
  <2>3. maxSize \in 0 .. most /\ Addr = 1 .. most
    BY <1>0, <2>2 DEF TypeOK, Addr
  <2>4. s \in Addr /\ s \notin Off
    BY <2>3 DEF Off
  <2>5. ASSUME NEW S \in SUBSET Addr, ({free.node} \cup {next[r] : r \in S}) \cap Addr \subseteq S
        PROVE  s \in S
    <3>1. (free.node \in Addr => free.node \in S) /\ \A r \in S : next[r] \in Addr => next[r] \in S
      BY <2>5
    <3>2. QED BY <2>1, <2>4, <3>1, ListReached
  <2>6. QED BY <2>4, <2>5 DEF Reachable
<1>3. NoDoubleAllocation
  <2>1. NULL \notin Taken
    BY <1>0, TakenType, SlotNumbers
  <2>2. QED BY <1>1, <2>1 DEF NoDoubleAllocation, OwnersOK
<1>4. NoABA
  BY DEF NoABA, Unmoved, CountersOK
<1>5. NoAssertionFails
  BY DEF NoAssertionFails, FlagsOK
<1>6. QED BY <1>1, <1>2, <1>3, <1>4, <1>5

-----------------------------------------------------------------------------
\* The theorems

\* The inductive invariant holds in every reachable state, quiet or not.
THEOREM QuietInvariance == QuietSpec => []QuietInv
<1>1. QuietInit => QuietInv
  BY QuietInitInv
<1>2. QuietInv /\ [QuietNext]_quietVars => QuietInv'
  BY QuietStepInv
<1>3. QED BY <1>1, <1>2, PTL DEF QuietSpec

\* Type correctness; and as long as growing does not meet a pop or a push, memory
\* that nobody has written is never published as the top of the free list.
THEOREM QuietTypeCorrect == QuietSpec => []QuietTypeOK
<1>1. QuietInv => QuietTypeOK
  BY ListIsRight, SlotNumbers DEF QuietInv, QuietTypeOK, IInv
<1>2. QED BY <1>1, QuietInvariance, PTL

\* No slot gets lost: whenever nobody is adding a block, every slot ever carved can
\* be reached from m_free, or somebody has it.
THEOREM NoSlotIsLost == QuietSpec => []NothingLostInQuiet
<1>1. QuietInv => NothingLostInQuiet
  BY ListIsRight DEF QuietInv, NothingLostInQuiet
<1>2. QED BY <1>1, QuietInvariance, PTL

\* allocate() never hands out a slot that somebody has.
THEOREM NeverAllocatedTwice == QuietSpec => []NoDoubleAllocationInQuiet
<1>1. QuietInv => NoDoubleAllocationInQuiet
  BY ListIsRight DEF QuietInv, NoDoubleAllocationInQuiet
<1>2. QED BY <1>1, QuietInvariance, PTL

\* The counter keeps the ABA problem away, although a new block sets it back to 0.
THEOREM CounterPreventsABA == QuietSpec => []NoABAInQuiet
<1>1. QuietInv => NoABAInQuiet
  BY ListIsRight DEF QuietInv, NoABAInQuiet
<1>2. QED BY <1>1, QuietInvariance, PTL

\* The assertions of the debug build hold, but for that of a slot's first use.
THEOREM AssertionsHold == QuietSpec => []NoAssertionFailsInQuiet
<1>1. QuietInv => NoAssertionFailsInQuiet
  BY ListIsRight DEF QuietInv, NoAssertionFailsInQuiet
<1>2. QED BY <1>1, QuietInvariance, PTL

\* Only NewBlock adds a block.
LEMMA BlocksKept ==
  ASSUME Next, ~\E t \in Threads : NewBlock(t)
  PROVE  blocks' = blocks
<1>. USE DEF freeVars, blockVars, localVars, userVars, vars
<1>1. ASSUME NEW t \in Threads, Allocate(t) \/ Deallocate(t) PROVE blocks' = blocks
  BY <1>1 DEF Allocate, Load, ReadNext, Pop, PopFails, Construct, ConstructThrows,
              Deallocate, FreeLoad, LinkFreed, Push, PushFails
<1>2. ASSUME NEW t \in Threads, AllocateBlock(t) PROVE blocks' = blocks
  BY <1>2 DEF AllocateBlock, Lock, Beaten, StillEmpty, Throttled, NotThrottled, RecordTime,
              BadAlloc, LinkOldLast, Carve, SetLast, Merge, MergeLoad, MergeLink, Store
<1>3. ASSUME NEW t \in Threads, \/ CallAllocate(t) \/ \E s \in Addr : CallDeallocate(t, s)
                               \/ AssertionFails(t)
      PROVE  blocks' = blocks
  BY <1>3 DEF CallAllocate, CallDeallocate, AssertionFails
<1>4. QED BY <1>1, <1>2, <1>3 DEF Next, Tick, Rest

\* A block is added only when every slot of the blocks before it is taken.
THEOREM NoBlockIsWasted == QuietSpec => NoWastedBlockInQuiet
<1>1. QuietInv /\ QuietInv' /\ [QuietNext]_quietVars =>
        [quiet' /\ Len(blocks') > Len(blocks) => 1 .. maxSize \subseteq Taken]_quietVars
  <2>. SUFFICES ASSUME QuietInv, QuietInv', QuietNext, quiet', Len(blocks') > Len(blocks)
                PROVE  1 .. maxSize \subseteq Taken
    BY DEF quietVars
  <2>1. IInv /\ TypeOK /\ TypeOK' /\ WhileQuiet /\ NobodyMeets'
    BY DEF QuietInv, IInv, QuietNext, WhileQuiet
  <2>2. Len(blocks) \in Nat
    BY <2>1 DEF TypeOK
  <2>3. PICK t \in Threads : NewBlock(t)
    BY <2>2, BlocksKept DEF QuietNext
  <2>4. QED BY <2>1, <2>3, NewBlockStep
<1>2. QED BY <1>1, QuietInvariance, PTL DEF QuietSpec, NoWastedBlockInQuiet
=============================================================================
