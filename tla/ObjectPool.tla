----------------------------- MODULE ObjectPool -----------------------------
(***************************************************************************)
(* What a fixed-size object pool promises its callers: the interface       *)
(* MemoryPoolBase<T> of m_pool.cpp, without any implementation.            *)
(*                                                                         *)
(* A pool owns a set of slots.  allocate() hands out a slot that nobody    *)
(* holds, and returns nullptr only when there is none; deallocate() takes  *)
(* back a slot a caller holds.  Each call takes effect at one instant      *)
(* between its start and its return, so calls of different threads may     *)
(* overlap.  Which free slot is handed out is left open: no caller may     *)
(* rely on an order.  LockFreePool and MutexPool are shown to implement    *)
(* this module.                                                            *)
(***************************************************************************)
CONSTANTS
  Threads,  \* the threads that call the pool
  Slots,    \* the object slots of the pool
  NULL      \* nullptr

VARIABLES
  free,     \* the slots nobody holds
  held,     \* the slots handed out to a caller
  call      \* call[t]: the call thread t is in, and its argument

vars == <<free, held, call>>

NoCall == [op |-> "none", slot |-> NULL]

Init ==
  /\ free = Slots
  /\ held = {}
  /\ call = [t \in Threads |-> NoCall]

CallAllocate(t) ==
  /\ call[t] = NoCall
  /\ call' = [call EXCEPT ![t] = [op |-> "allocate", slot |-> NULL]]
  /\ UNCHANGED <<free, held>>

Allocate(t) ==
  /\ call[t].op = "allocate"
  /\ \E s \in free :
       /\ free' = free \ {s}
       /\ held' = held \cup {s}
  /\ call' = [call EXCEPT ![t] = NoCall]

\* nullptr is returned only by a pool that has nothing left.
AllocateFails(t) ==
  /\ call[t].op = "allocate"
  /\ free = {}
  /\ call' = [call EXCEPT ![t] = NoCall]
  /\ UNCHANGED <<free, held>>

CallDeallocate(t, s) ==
  /\ call[t] = NoCall
  /\ s \in held
  /\ held' = held \ {s}
  /\ call' = [call EXCEPT ![t] = [op |-> "deallocate", slot |-> s]]
  /\ UNCHANGED free

Deallocate(t) ==
  /\ call[t].op = "deallocate"
  /\ free' = free \cup {call[t].slot}
  /\ call' = [call EXCEPT ![t] = NoCall]
  /\ UNCHANGED held

Next ==
  \E t \in Threads :
    \/ CallAllocate(t)
    \/ Allocate(t)
    \/ AllocateFails(t)
    \/ \E s \in Slots : CallDeallocate(t, s)
    \/ Deallocate(t)

Spec == Init /\ [][Next]_vars
=============================================================================
