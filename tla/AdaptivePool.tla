---------------------------- MODULE AdaptivePool ----------------------------
(***************************************************************************)
(* AdaptiveMemoryPool<T> of m_pool.cpp: on construction it asks the        *)
(* platform whether a TaggedPointer can be compared and swapped without a  *)
(* lock, builds a LockFreeMemoryPool or a MutexMemoryPool accordingly, and *)
(* forwards every call to it.                                              *)
(*                                                                         *)
(* The module composes LockFreePool and MutexPool.  They share the array   *)
(* of slots (next), the callers' program counters and the set of held      *)
(* slots; the variables of the pool that was not built never change.       *)
(***************************************************************************)
EXTENDS Naturals, FiniteSets

CONSTANTS Threads, Capacity, NULL, UserData, MaxTag

\* What LockFreePool and MutexPool assume of the constants they share.
ASSUME AdaptiveAssumption ==
  /\ Capacity \in Nat \ {0}
  /\ NULL \notin 1 .. Capacity
  /\ NULL \notin Threads
  /\ MaxTag \in Nat

VARIABLES
  supported,                 \* what is_lock_free() answers on this platform
  impl,                      \* which pool pool_ points to
  next, pc, node, held,      \* the pool, as in LockFreePool and MutexPool
  lfHead, old, new,          \* head_ and the locals of LockFreePool
  mxHead, mutex, result      \* head_, mutex_ and the locals of MutexPool

lfVars == <<lfHead, old, new>>
mxVars == <<mxHead, mutex, result>>
poolVars == <<supported, impl, next, pc, node, held, lfHead, old, new, mxHead, mutex, result>>

LF == INSTANCE LockFreePool WITH head <- lfHead
MX == INSTANCE MutexPool WITH head <- mxHead

ChooseSlip(b) == IF b THEN "mutex" ELSE "lockfree"

Choose(b) == IF b THEN "lockfree" ELSE "mutex"

PoolInit ==
  /\ supported \in BOOLEAN
  /\ impl = Choose(supported)
  /\ LF!Init
  /\ MX!Init

\* Forwarding to pool_: a step of the pool that was built.
Forward(lfStep, mxStep) ==
  /\ \/ impl = "lockfree" /\ lfStep /\ UNCHANGED mxVars
     \/ impl = "mutex" /\ mxStep /\ UNCHANGED lfVars
  /\ UNCHANGED <<supported, impl>>

CallAllocate(t) == Forward(LF!CallAllocate(t), MX!CallAllocate(t))

CallDeallocate(t, s) == Forward(LF!CallDeallocate(t, s), MX!CallDeallocate(t, s))

\* A step inside a call of thread t that does not end the call.
Inside(t) ==
  Forward(\/ LF!AllocLoad(t) \/ LF!AllocNext(t) \/ LF!AllocRetry(t)
          \/ LF!FreeLoad(t) \/ LF!FreeLink(t) \/ LF!FreeRetry(t),
          \/ MX!AllocLock(t) \/ MX!AllocEmpty(t) \/ MX!AllocTake(t) \/ MX!AllocNext(t)
          \/ MX!FreeLock(t) \/ MX!FreeLink(t) \/ MX!FreePush(t))

\* allocate() returns the pointer p to thread t.
AllocateReturns(t, p) ==
  Forward(\/ LF!AllocCas(t) /\ p = old[t].ptr
          \/ LF!AllocEmpty(t) /\ p = NULL,
          MX!AllocReturn(t) /\ p = result[t])

DeallocateReturns(t) == Forward(LF!FreeCas(t), MX!FreeReturn(t))

\* A holder of s writes its object.
UserWrite(s, v) == Forward(LF!UserWrite(s, v), MX!UserWrite(s, v))

-----------------------------------------------------------------------------
\* What a caller sees of whichever pool was built

Requesting(t) == pc[t] \in LF!AllocLabels \cup MX!AllocLabels

Returning(t) == pc[t] \in LF!FreeLabels \cup MX!FreeLabels

\* The slots on their way back.
InTransit == {node[t] : t \in {u \in Threads : Returning(u)}}

\* AdaptiveMemoryPool implements ObjectPool, as the pools it forwards to do:
\* a caller cannot tell which of them was built.
Abstract == INSTANCE ObjectPool WITH
  Slots <- 1 .. Capacity,
  free  <- (1 .. Capacity) \ (held \cup InTransit),
  call  <- [t \in Threads |->
              [op   |-> IF Requesting(t) THEN "allocate"
                        ELSE IF Returning(t) THEN "deallocate" ELSE "none",
               slot |-> node[t]]]

\* The inductive invariant of the pool that was built.
PoolInv ==
  /\ impl \in {"lockfree", "mutex"}
  /\ impl = "lockfree" => LF!IInv
  /\ impl = "mutex" => MX!IInv
=============================================================================
