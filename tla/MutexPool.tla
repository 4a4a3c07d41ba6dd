----------------------------- MODULE MutexPool -----------------------------
(***************************************************************************)
(* MutexMemoryPool<T> of m_pool.cpp, the fallback for platforms without a  *)
(* lock-free 16-byte compare-and-swap: the same array of slots and the     *)
(* same intrusive free list as LockFreePool, with a plain head_ that is    *)
(* only touched under mutex_.                                              *)
(*                                                                         *)
(* The reads and writes inside the critical sections are separate actions, *)
(* so that it is the lock, and not the grain of the model, that makes an   *)
(* operation atomic.  The client is the same as in LockFreePool.           *)
(***************************************************************************)
EXTENDS SlotList, FiniteSets

CONSTANTS
  Threads,   \* the threads that call the pool
  UserData   \* what a holder's writes may leave in the first word of its slot

\* NULL is also the owner of a mutex nobody has locked.
ASSUME MutexPoolAssumption == NULL \notin Threads

VARIABLES
  head,      \* head_
  next,      \* next[s]: the first word of slot s, as a Node*
  mutex,     \* the thread that has locked mutex_, or NULL
  pc,        \* pc[t]: where thread t is in allocate() or deallocate()
  result,    \* result[t]: its local result
  node,      \* node[t]: the slot it is deallocating
  held       \* the slots handed out by allocate() and not passed back

vars == <<head, next, mutex, pc, result, node, held>>

AllocLabels == {"alloc_lock", "alloc_check", "alloc_next", "alloc_unlock"}
FreeLabels  == {"free_lock", "free_link", "free_push", "free_unlock"}

\* The slots a deallocate() in progress has not finished pushing.
InTransit == {node[t] : t \in {u \in Threads : pc[u] \in FreeLabels}}

Init ==
  /\ head = 1
  /\ next = [s \in Slots |-> InitialLink(s)]
  /\ mutex = NULL
  /\ pc = [t \in Threads |-> "idle"]
  /\ result = [t \in Threads |-> NULL]
  /\ node = [t \in Threads |-> NULL]
  /\ held = {}

Goto(t, label) == pc' = [pc EXCEPT ![t] = label]

\* std::lock_guard: lock() blocks while another thread has the mutex, and the
\* guard's destructor unlocks when the function returns.
Lock(t)   == mutex = NULL /\ mutex' = t
Unlock(t) == mutex' = NULL

\* allocate()

CallAllocate(t) ==
  /\ pc[t] = "idle"
  /\ Goto(t, "alloc_lock")
  /\ UNCHANGED <<head, next, mutex, result, node, held>>

AllocLock(t) ==
  /\ pc[t] = "alloc_lock"
  /\ Lock(t)
  /\ Goto(t, "alloc_check")
  /\ UNCHANGED <<head, next, result, node, held>>

\* Unlocking and trying again instead of returning nullptr.
AllocEmptySlip(t) ==
  /\ pc[t] = "alloc_check"
  /\ head = NULL
  /\ Unlock(t)
  /\ Goto(t, "alloc_lock")
  /\ UNCHANGED <<head, next, result, node, held>>

AllocEmpty(t) ==
  /\ pc[t] = "alloc_check"
  /\ head = NULL
  /\ Goto(t, "alloc_unlock")
  /\ UNCHANGED <<head, next, mutex, result, node, held>>

AllocTake(t) ==
  /\ pc[t] = "alloc_check"
  /\ head # NULL
  /\ result' = [result EXCEPT ![t] = head]
  /\ Goto(t, "alloc_next")
  /\ UNCHANGED <<head, next, mutex, node, held>>

AllocNext(t) ==
  /\ pc[t] = "alloc_next"
  /\ head' = next[head]
  /\ Goto(t, "alloc_unlock")
  /\ UNCHANGED <<next, mutex, result, node, held>>

AllocReturn(t) ==
  /\ pc[t] = "alloc_unlock"
  /\ Unlock(t)
  /\ held' = held \cup ({result[t]} \ {NULL})
  /\ result' = [result EXCEPT ![t] = NULL]
  /\ Goto(t, "idle")
  /\ UNCHANGED <<head, next, node>>

\* deallocate(s)

CallDeallocate(t, s) ==
  /\ pc[t] = "idle"
  /\ s \in held
  /\ held' = held \ {s}
  /\ node' = [node EXCEPT ![t] = s]
  /\ Goto(t, "free_lock")
  /\ UNCHANGED <<head, next, mutex, result>>

\* Forgetting the lock_guard in deallocate().
FreeLockSlip(t) ==
  /\ pc[t] = "free_lock"
  /\ Goto(t, "free_link")
  /\ UNCHANGED <<head, next, mutex, result, node, held>>

FreeLock(t) ==
  /\ pc[t] = "free_lock"
  /\ Lock(t)
  /\ Goto(t, "free_link")
  /\ UNCHANGED <<head, next, result, node, held>>

FreeLink(t) ==
  /\ pc[t] = "free_link"
  /\ next' = [next EXCEPT ![node[t]] = head]
  /\ Goto(t, "free_push")
  /\ UNCHANGED <<head, mutex, result, node, held>>

FreePush(t) ==
  /\ pc[t] = "free_push"
  /\ head' = node[t]
  /\ Goto(t, "free_unlock")
  /\ UNCHANGED <<next, mutex, result, node, held>>

FreeReturn(t) ==
  /\ pc[t] = "free_unlock"
  /\ Unlock(t)
  /\ node' = [node EXCEPT ![t] = NULL]
  /\ Goto(t, "idle")
  /\ UNCHANGED <<head, next, result, held>>

\* A holder writes its object, and with it the word that was the link.
UserWrite(s, v) ==
  /\ s \in held
  /\ next' = [next EXCEPT ![s] = v]
  /\ UNCHANGED <<head, mutex, pc, result, node, held>>

Step(t) ==
  \/ AllocLock(t) \/ AllocEmpty(t) \/ AllocTake(t) \/ AllocNext(t) \/ AllocReturn(t)
  \/ FreeLock(t) \/ FreeLink(t) \/ FreePush(t) \/ FreeReturn(t)

Next ==
  \/ \E t \in Threads :
       \/ CallAllocate(t)
       \/ \E s \in Slots : CallDeallocate(t, s)
       \/ Step(t)
  \/ \E s \in Slots, v \in UserData : UserWrite(s, v)

Spec == Init /\ [][Next]_vars

-----------------------------------------------------------------------------
\* Properties

\* The shape of the state.  As in LockFreePool its deep conjunct is that head_
\* is always a slot or nullptr, never a word a holder has written.
TypeOK ==
  /\ head \in Slots \cup {NULL}
  /\ next \in [Slots -> Slots \cup {NULL} \cup UserData]
  /\ mutex \in Threads \cup {NULL}
  /\ pc \in [Threads -> {"idle"} \cup AllocLabels \cup FreeLabels]
  /\ result \in [Threads -> Slots \cup {NULL}]
  /\ node \in [Threads -> Slots \cup {NULL}]
  /\ held \subseteq Slots

\* Whenever nobody is inside a critical section, the slots nobody has are
\* exactly those linked from head_, once each.
FreeListWhenUnlocked == mutex = NULL => Linked(head, next, held \cup InTransit)

\* The pool never writes a slot while it is handed out.
HandedOutUntouched ==
  [][pc' # pc => \A s \in held \cap held' : next'[s] = next[s]]_vars

\* The mutex pool implements ObjectPool: a call takes effect at its unlock.
\* In particular allocate() never returns a slot that somebody has, and returns
\* nullptr only when every slot is held or on its way back.
Abstract == INSTANCE ObjectPool WITH
  free <- Slots \ (held \cup InTransit),
  call <- [t \in Threads |->
             [op   |-> IF pc[t] \in AllocLabels THEN "allocate"
                       ELSE IF pc[t] \in FreeLabels THEN "deallocate" ELSE "none",
              slot |-> node[t]]]

RefinesObjectPool == Abstract!Spec

-----------------------------------------------------------------------------
\* The inductive invariant of MutexPoolProofs

\* A thread is inside a critical section if and only if it has locked mutex_.
LockOK ==
  \A t \in Threads :
    mutex = t <=> pc[t] \in {"alloc_check", "alloc_next", "alloc_unlock",
                             "free_link", "free_push", "free_unlock"}

\* A slot on its way back is in the hands of one call only, and so is a slot on
\* its way out.
TransitOK ==
  /\ \A t \in Threads : pc[t] \in FreeLabels => node[t] \in Slots \ held
  /\ \A t \in Threads : pc[t] \notin FreeLabels => node[t] = NULL
  /\ \A t, u \in Threads :
       pc[t] \in FreeLabels /\ pc[u] \in FreeLabels /\ node[t] = node[u] => t = u
  /\ \A t \in Threads : pc[t] \notin {"alloc_next", "alloc_unlock"} => result[t] = NULL

\* The thread in the critical section knows what head_ or the link holds.
PreparedOK ==
  \A t \in Threads :
    /\ pc[t] = "alloc_next" => head # NULL /\ result[t] = head
    /\ pc[t] = "alloc_unlock" /\ result[t] = NULL => head = NULL
    /\ pc[t] = "alloc_unlock" /\ result[t] # NULL => result[t] \notin held \cup InTransit
    /\ pc[t] = "free_push" => next[node[t]] = head

\* The slots that are off the list: those held or in transit, but for the one a
\* deallocate() has pushed already, and the one an allocate() has popped already.
OffList ==
  held \cup {node[t] : t \in {u \in Threads : pc[u] \in FreeLabels \ {"free_unlock"}}}
       \cup ({result[t] : t \in {u \in Threads : pc[u] = "alloc_unlock"}} \ {NULL})

FreeListIntact == Linked(head, next, OffList)

\* What holds in every state and is kept by every step.
IInv == TypeOK /\ LockOK /\ TransitOK /\ PreparedOK /\ FreeListIntact
=============================================================================
