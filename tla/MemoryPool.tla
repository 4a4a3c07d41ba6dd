----------------------------- MODULE MemoryPool -----------------------------
(***************************************************************************)
(* MemoryPool<T, block_size> of memory_pool.h: a pool that grows.  Its     *)
(* free slots form a stack changed by compare-and-swap on a pointer paired *)
(* with a counter (aba); when a thread finds the stack empty it adds a     *)
(* block of slots, one thread at a time under a spin lock, while the       *)
(* others keep popping and pushing without it.                             *)
(*                                                                         *)
(* One action is one access to memory that another thread may touch.  The  *)
(* guard of allocate_block() unlocks as the function returns, and that is  *)
(* merged with its last access.  Memory fresh from operator new holds      *)
(* Garbage; a thread that follows a Garbage pointer is followed no further.*)
(***************************************************************************)
EXTENDS Naturals, FiniteSets, Sequences

CONSTANTS
  Threads,     \* the threads that call the pool
  NULL,        \* nullptr, and the holder of the spin lock when it is free
  Garbage,     \* the content of uninitialised memory, as a slot_t*
  BlockSlots,  \* the number of slots allocate_block() carves from a block
  MaxBlocks,   \* bound: the number of blocks the heap has room for
  Threshold,   \* m_allocate_block_threshold
  MaxClock,    \* bound on the clock
  MaxStamp,    \* bound: no call starts after this many writes of m_free
  MaxHeld,     \* client: the objects a thread holds at most
  ClientFrees, \* client: whether it ever gives objects back
  CtorThrows   \* client: whether the constructor of T may throw

\* The slots of block b are numbered (b-1)*BlockSlots+1 .. b*BlockSlots.
Addr == 1 .. MaxBlocks * BlockSlots
First(b) == (b - 1) * BlockSlots + 1
Last(b) == b * BlockSlots

ASSUME MemoryPoolAssumption ==
  /\ {BlockSlots, MaxBlocks} \subseteq Nat \ {0}
  /\ {Threshold, MaxClock, MaxStamp, MaxHeld} \subseteq Nat
  /\ NULL \notin Addr \cup Threads /\ Garbage \notin Addr \cup {NULL}
  /\ Garbage \notin BOOLEAN
  /\ {ClientFrees, CtorThrows} \subseteq BOOLEAN

VARIABLES
  free,      \* m_free: node and aba; stamp only counts its writes
  next,      \* next[s]: the next member of slot s
  flag,      \* flag[s]: its allocated member (the build with _MEM_POOL_DEBUG_),
             \* Garbage until it is written
  lastSlot,  \* m_last_slot
  blocks,    \* the blocks: for each the time its allocation was recorded
  maxSize,   \* m_max_size
  lastTime,  \* m_last_allocate_block_time
  lock,      \* the thread that has set m_lock, or NULL
  cur,       \* start, the cursor of the carving loop
  clock,     \* system_clock::now()
  pc,        \* pc[t]: where thread t is
  orig, nxt, \* orig[t], nxt[t]: its local copies of m_free
  node,      \* node[t]: the slot it has popped or is pushing
  held,      \* held[t]: the objects it has
  orphans    \* slots popped for an object whose constructor then threw

freeVars  == <<free, next, flag>>
blockVars == <<lastSlot, blocks, maxSize, lastTime, lock, cur>>
localVars == <<orig, nxt, node>>
userVars  == <<held, orphans>>
vars == <<freeVars, blockVars, clock, pc, localVars, userVars>>

AllocLabels == {"load", "next", "cas", "construct"}
BlockLabels == {"lock", "recheck", "time", "record", "new", "link", "carve", "last",
                "merge", "merge_load", "merge_link", "store"}
FreeLabels  == {"free_load", "free_link", "free_cas"}

Nil == [node |-> NULL, aba |-> 0, stamp |-> 0]

Init ==
  /\ free = Nil
  /\ next = [s \in Addr |-> Garbage]
  /\ flag = [s \in Addr |-> Garbage]
  /\ lastSlot = NULL
  /\ blocks = <<>>
  /\ maxSize = 0
  /\ lastTime = 0
  /\ lock = NULL
  /\ cur = NULL
  /\ clock = 0
  /\ pc = [t \in Threads |-> "idle"]
  /\ orig = [t \in Threads |-> Nil]
  /\ nxt = [t \in Threads |-> Nil]
  /\ node = [t \in Threads |-> NULL]
  /\ held = [t \in Threads |-> {}]
  /\ orphans = {}

Goto(t, label) == pc' = [pc EXCEPT ![t] = label]

\* The call is over and its locals are gone.
Return(t) ==
  /\ Goto(t, "idle")
  /\ orig' = [orig EXCEPT ![t] = Nil]
  /\ nxt'  = [nxt EXCEPT ![t] = Nil]
  /\ node' = [node EXCEPT ![t] = NULL]

-----------------------------------------------------------------------------
\* m_free.  A compare-and-swap compares node and aba, not the stamp.

\* Dropping the counter, which the code has against the ABA problem.
NextAbaSlip(k) == k

NextAba(k) == k + 1

LoadFree(t) == orig' = [orig EXCEPT ![t] = free]

SetFree(p, aba) == free' = [node |-> p, aba |-> aba, stamp |-> free.stamp + 1]

Unmoved(t) == free.node = orig[t].node /\ free.aba = orig[t].aba

-----------------------------------------------------------------------------
\* new_element(): allocate(), then construct()

CallAllocate(t) ==
  /\ pc[t] = "idle"
  /\ free.stamp < MaxStamp
  /\ Cardinality(held[t]) < MaxHeld
  /\ Goto(t, "load")
  /\ UNCHANGED <<freeVars, blockVars, clock, localVars, userVars>>

\* m_free has been read into orig: an empty stack needs a new block.
AfterLoad(t) == Goto(t, IF free.node = NULL THEN "lock" ELSE "next")

Load(t) ==
  /\ pc[t] = "load"
  /\ LoadFree(t)
  /\ AfterLoad(t)
  /\ UNCHANGED <<freeVars, blockVars, clock, nxt, node, userVars>>

ReadNext(t) ==
  /\ pc[t] = "next"
  /\ orig[t].node # Garbage
  /\ nxt' = [nxt EXCEPT ![t] = [node  |-> next[orig[t].node],
                                aba   |-> NextAba(orig[t].aba),
                                stamp |-> 0]]
  /\ Goto(t, "cas")
  /\ UNCHANGED <<freeVars, blockVars, clock, orig, node, userVars>>

Pop(t) ==
  /\ pc[t] = "cas"
  /\ Unmoved(t)
  /\ SetFree(nxt[t].node, nxt[t].aba)
  /\ node' = [node EXCEPT ![t] = orig[t].node]
  /\ Goto(t, "construct")
  /\ UNCHANGED <<next, flag, blockVars, clock, orig, nxt, userVars>>

\* The weak compare-and-swap failed, and has reloaded orig.
PopFails(t) ==
  /\ pc[t] = "cas"
  /\ LoadFree(t)
  /\ AfterLoad(t)
  /\ UNCHANGED <<freeVars, blockVars, clock, nxt, node, userVars>>

\* assert(orig.node->allocated == false), then the flag is set.  Garbage may
\* read as either.
SetFlag(t) == flag[node[t]] # TRUE /\ flag' = [flag EXCEPT ![node[t]] = TRUE]

Construct(t) ==
  /\ pc[t] = "construct"
  /\ SetFlag(t)
  /\ held' = [held EXCEPT ![t] = @ \cup {node[t]}]
  /\ Return(t)
  /\ UNCHANGED <<free, next, blockVars, clock, orphans>>

\* Nothing gives the slot back when the constructor throws.
ConstructThrows(t) ==
  /\ CtorThrows
  /\ pc[t] = "construct"
  /\ SetFlag(t)
  /\ orphans' = orphans \cup {node[t]}
  /\ Return(t)
  /\ UNCHANGED <<free, next, blockVars, clock, held>>

-----------------------------------------------------------------------------
\* allocate_block()

\* Taking m_lock without looking whether it was set.
TestAndSetSlip(t) == lock' = t

TestAndSet(t) == lock = NULL /\ lock' = t

Lock(t) ==
  /\ pc[t] = "lock"
  /\ TestAndSet(t)
  /\ Goto(t, "recheck")
  /\ UNCHANGED <<freeVars, lastSlot, blocks, maxSize, lastTime, cur, clock, localVars, userVars>>

\* Not looking again once the lock is taken.
EmptySlip == TRUE

Empty == free.node = NULL

\* Another thread has added a block meanwhile: return true.
Beaten(t) ==
  /\ pc[t] = "recheck"
  /\ ~Empty
  /\ lock' = NULL
  /\ Goto(t, "load")
  /\ UNCHANGED <<freeVars, lastSlot, blocks, maxSize, lastTime, cur, clock, localVars, userVars>>

StillEmpty(t) ==
  /\ pc[t] = "recheck"
  /\ Empty
  /\ Goto(t, "time")
  /\ UNCHANGED <<freeVars, blockVars, clock, localVars, userVars>>

TooSoonSlip == maxSize > 0 /\ clock < lastTime + Threshold

TooSoon == maxSize > 0 /\ clock <= lastTime + Threshold

\* Return false, and allocate() returns nullptr.
Throttled(t) ==
  /\ pc[t] = "time"
  /\ TooSoon
  /\ lock' = NULL
  /\ Return(t)
  /\ UNCHANGED <<freeVars, lastSlot, blocks, maxSize, lastTime, cur, clock, userVars>>

NotThrottled(t) ==
  /\ pc[t] = "time"
  /\ ~TooSoon
  /\ Goto(t, "record")
  /\ UNCHANGED <<freeVars, blockVars, clock, localVars, userVars>>

\* The clock is read a second time.
RecordTime(t) ==
  /\ pc[t] = "record"
  /\ lastTime' = clock
  /\ Goto(t, "new")
  /\ UNCHANGED <<freeVars, lastSlot, blocks, maxSize, lock, cur, clock, localVars, userVars>>

NewBlock(t) ==
  /\ pc[t] = "new"
  /\ Len(blocks) < MaxBlocks
  /\ blocks' = Append(blocks, lastTime)
  /\ cur' = First(Len(blocks) + 1)
  /\ Goto(t, IF lastSlot = NULL THEN "carve" ELSE "link")
  /\ UNCHANGED <<freeVars, lastSlot, maxSize, lastTime, lock, clock, localVars, userVars>>

\* operator new throws; the guard unlocks and the exception leaves allocate().
BadAlloc(t) ==
  /\ pc[t] = "new"
  /\ lock' = NULL
  /\ Return(t)
  /\ UNCHANGED <<freeVars, lastSlot, blocks, maxSize, lastTime, cur, clock, userVars>>

\* The slot that was last so far now leads to the new block.
LinkOldLast(t) ==
  /\ pc[t] = "link"
  /\ next' = [next EXCEPT ![lastSlot] = cur]
  /\ Goto(t, "carve")
  /\ UNCHANGED <<free, flag, blockVars, clock, localVars, userVars>>

\* The last turn of the loop stores the address past the last slot.
Carve(t) ==
  /\ pc[t] = "carve"
  /\ next' = [next EXCEPT ![cur] = IF cur = Last(Len(blocks)) THEN Garbage ELSE cur + 1]
  /\ maxSize' = maxSize + 1
  /\ cur' = cur + 1
  /\ Goto(t, IF cur = Last(Len(blocks)) THEN "last" ELSE "carve")
  /\ UNCHANGED <<free, flag, lastSlot, blocks, lastTime, lock, clock, localVars, userVars>>

\* Leaving the last slot's link as the loop left it, past the end.
EndOfListSlip == next[cur - 1]

EndOfList == NULL

SetLast(t) ==
  /\ pc[t] = "last"
  /\ lastSlot' = cur - 1
  /\ next' = [next EXCEPT ![cur - 1] = EndOfList]
  /\ Goto(t, "merge")
  /\ UNCHANGED <<free, flag, blocks, maxSize, lastTime, lock, cur, clock, localVars, userVars>>

\* "If there's anything in the free list": m_free is loaded once for the test,
\* once more for the link, and then the link is written.
Merge(t) ==
  /\ pc[t] = "merge"
  /\ Goto(t, IF free.node # NULL THEN "merge_load" ELSE "store")
  /\ UNCHANGED <<freeVars, blockVars, clock, localVars, userVars>>

MergeLoad(t) ==
  /\ pc[t] = "merge_load"
  /\ nxt' = [nxt EXCEPT ![t] = free]
  /\ Goto(t, "merge_link")
  /\ UNCHANGED <<freeVars, blockVars, clock, orig, node, userVars>>

MergeLink(t) ==
  /\ pc[t] = "merge_link"
  /\ next' = [next EXCEPT ![lastSlot] = nxt[t].node]
  /\ Goto(t, "store")
  /\ UNCHANGED <<free, flag, blockVars, clock, localVars, userVars>>

Top == First(Len(blocks))

\* A plain store: whatever m_free was set to meanwhile is overwritten, and its
\* counter starts at 0 again.
Store(t) ==
  /\ pc[t] = "store"
  /\ SetFree(Top, 0)
  /\ lock' = NULL
  /\ Goto(t, "load")
  /\ UNCHANGED <<next, flag, lastSlot, blocks, maxSize, lastTime, cur, clock, localVars, userVars>>

AllocateBlock(t) ==
  \/ Lock(t) \/ Beaten(t) \/ StillEmpty(t) \/ Throttled(t) \/ NotThrottled(t)
  \/ RecordTime(t) \/ NewBlock(t) \/ BadAlloc(t) \/ LinkOldLast(t) \/ Carve(t)
  \/ SetLast(t) \/ Merge(t) \/ MergeLoad(t) \/ MergeLink(t) \/ Store(t)

-----------------------------------------------------------------------------
\* delete_element(): the destructor, then deallocate()

CallDeallocate(t, s) ==
  /\ ClientFrees
  /\ pc[t] = "idle"
  /\ free.stamp < MaxStamp
  /\ s \in held[t]
  /\ held' = [held EXCEPT ![t] = @ \ {s}]
  /\ node' = [node EXCEPT ![t] = s]
  /\ Goto(t, "free_load")
  /\ UNCHANGED <<freeVars, blockVars, clock, orig, nxt, orphans>>

\* Not resetting the flag.
ClearFlagSlip(s) == flag[s] = TRUE /\ UNCHANGED flag

\* assert(tp->allocated == true), then the flag is reset.
ClearFlag(s) == flag[s] = TRUE /\ flag' = [flag EXCEPT ![s] = FALSE]

FreeLoad(t) ==
  /\ pc[t] = "free_load"
  /\ LoadFree(t)
  /\ ClearFlag(node[t])
  /\ Goto(t, "free_link")
  /\ UNCHANGED <<free, next, blockVars, clock, nxt, node, userVars>>

LinkFreed(t) ==
  /\ pc[t] = "free_link"
  /\ next' = [next EXCEPT ![node[t]] = orig[t].node]
  /\ nxt' = [nxt EXCEPT ![t] = [node  |-> node[t],
                                aba   |-> NextAba(orig[t].aba),
                                stamp |-> 0]]
  /\ Goto(t, "free_cas")
  /\ UNCHANGED <<free, flag, blockVars, clock, orig, node, userVars>>

Push(t) ==
  /\ pc[t] = "free_cas"
  /\ Unmoved(t)
  /\ SetFree(nxt[t].node, nxt[t].aba)
  /\ Return(t)
  /\ UNCHANGED <<next, flag, blockVars, clock, userVars>>

\* Trying again without linking the slot to the new top.
RetryAtSlip == "free_cas"

RetryAt == "free_link"

PushFails(t) ==
  /\ pc[t] = "free_cas"
  /\ LoadFree(t)
  /\ Goto(t, RetryAt)
  /\ UNCHANGED <<freeVars, blockVars, clock, nxt, node, userVars>>

-----------------------------------------------------------------------------
Tick ==
  /\ clock < MaxClock
  /\ clock' = clock + 1
  /\ UNCHANGED <<freeVars, blockVars, pc, localVars, userVars>>

\* One of the two assertions fails and ends the program.
AssertionFails(t) ==
  /\ \/ pc[t] = "construct" /\ flag[node[t]] # FALSE
     \/ pc[t] = "free_load" /\ flag[node[t]] # TRUE
  /\ pc' = [u \in Threads |-> "aborted"]
  /\ UNCHANGED <<freeVars, blockVars, clock, localVars, userVars>>

\* The callers may leave it at what they have done.
Rest ==
  /\ \A t \in Threads : pc[t] \in {"idle", "aborted"}
  /\ UNCHANGED vars

Allocate(t) == Load(t) \/ ReadNext(t) \/ Pop(t) \/ PopFails(t) \/ Construct(t) \/ ConstructThrows(t)

Deallocate(t) == FreeLoad(t) \/ LinkFreed(t) \/ Push(t) \/ PushFails(t)

Next ==
  \/ \E t \in Threads :
       \/ CallAllocate(t)
       \/ Allocate(t)
       \/ AllocateBlock(t)
       \/ \E s \in Addr : CallDeallocate(t, s)
       \/ Deallocate(t)
       \/ AssertionFails(t)
  \/ Tick
  \/ Rest

Spec == Init /\ [][Next]_vars

-----------------------------------------------------------------------------
\* Properties

Pointers == Addr \cup {NULL, Garbage}
Word == [node : Pointers, aba : Nat, stamp : Nat]

\* The shape of the state of memory_pool.h, lines 93-99.
TypeOK ==
  /\ free \in Word
  /\ next \in [Addr -> Pointers] /\ flag \in [Addr -> {TRUE, FALSE, Garbage}]
  /\ lastSlot \in Addr \cup {NULL}
  /\ blocks \in Seq(0 .. MaxClock) /\ Len(blocks) <= MaxBlocks
  /\ maxSize \in 0 .. MaxBlocks * BlockSlots
  /\ lastTime \in 0 .. MaxClock /\ clock \in 0 .. MaxClock
  /\ lock \in Threads \cup {NULL}
  /\ cur \in Addr \cup {NULL, MaxBlocks * BlockSlots + 1}
  /\ pc \in [Threads -> {"idle", "aborted"} \cup AllocLabels \cup BlockLabels \cup FreeLabels]
  /\ orig \in [Threads -> Word] /\ nxt \in [Threads -> Word]
  /\ node \in [Threads -> Addr \cup {NULL}]
  /\ held \in [Threads -> SUBSET Addr]
  /\ orphans \subseteq Addr

\* The slots a thread has popped and not yet handed on, or is about to push.
InTransit ==
  {node[t] : t \in {u \in Threads : pc[u] \in FreeLabels \cup {"construct", "aborted"}}} \ {NULL}

Held == UNION {held[t] : t \in Threads}
Taken == Held \cup InTransit \cup orphans

\* The slots that can be reached from m_free along the links: those in every set
\* that has the top and, with a slot, the next one.
Reachable ==
  {s \in Addr : \A S \in SUBSET Addr :
                  ({free.node} \cup {next[r] : r \in S}) \cap Addr \subseteq S => s \in S}

\* "make sure it doesn't get lost when we reset m_free": while no block is being
\* added, every slot ever carved is on the free list, or somebody has it, or
\* its constructor threw.
NothingLost == lock = NULL => 1 .. maxSize \subseteq Reachable \cup Taken

\* assert(orig.node->allocated == false): the slot on top of the free list is
\* not one that somebody has, and no two callers have the same one.
NoDoubleAllocation ==
  /\ free.node \notin Taken
  /\ \A t, u \in Threads : t # u => held[t] \cap held[u] = {}

\* The ABA problem: a compare-and-swap that would succeed now was prepared from
\* the present value of m_free, not from an equal one of earlier times.
NoABA ==
  \A t \in Threads :
    pc[t] \in {"cas", "free_cas"} /\ Unmoved(t) => orig[t].stamp = free.stamp

\* The threshold: two blocks are never recorded within Threshold of each other,
\* whichever threads add them and whatever failed in between.
ThrottleKept ==
  \A j \in DOMAIN blocks : \A i \in 1 .. j - 1 : blocks[j] > blocks[i] + Threshold

\* No assertion of the debug build is about to fail, except that of a slot's
\* first use, which reads a flag nobody has written.
NoAssertionFails ==
  \A t \in Threads :
    /\ pc[t] = "construct" => flag[node[t]] # TRUE
    /\ pc[t] = "free_load" => flag[node[t]] = TRUE

\* The size is that of all blocks, and m_last_slot is the last slot of the newest.
SizesMatch ==
  /\ maxSize = Len(blocks) * BlockSlots
  /\ lastSlot = IF blocks = <<>> THEN NULL ELSE Last(Len(blocks))

\* What the spin lock protects is consistent whenever it is free, whatever has
\* failed under it.
BlocksConsistent == lock = NULL => SizesMatch

-----------------------------------------------------------------------------
\* The inductive invariant of MemoryPoolProofs

\* Whoever is past the spin lock has set it.
LockOK == \A t \in Threads : pc[t] \in BlockLabels \ {"lock"} => lock = t

\* A pop has a slot to read the link of, a slot on its way is one.
PreparedOK ==
  \A t \in Threads :
    /\ pc[t] \in {"next", "cas"} => orig[t].node # NULL
    /\ pc[t] = "cas" => orig[t].node # Garbage
    /\ pc[t] \in {"construct"} \cup FreeLabels => node[t] \in Addr

\* How far the thread that adds a block has come.
GrowingOK ==
  \A t \in Threads :
    /\ pc[t] \in {"recheck", "time", "record", "new"} => SizesMatch
    /\ pc[t] \in {"link", "carve"} =>
         blocks # <<>> /\ cur \in First(Len(blocks)) .. Last(Len(blocks)) /\ maxSize = cur - 1
    /\ pc[t] = "last" => blocks # <<>> /\ cur = maxSize + 1 /\ maxSize = Last(Len(blocks))
    /\ pc[t] \in {"merge", "merge_load", "merge_link", "store"} => blocks # <<>> /\ SizesMatch

\* The threshold stays passed from the look at the clock to the new block.
TimeOK ==
  /\ lastTime <= clock
  /\ \A i \in DOMAIN blocks : blocks[i] <= lastTime
  /\ \A t \in Threads :
       /\ pc[t] = "record" /\ blocks # <<>> => clock > lastTime + Threshold
       /\ pc[t] = "new" => \A i \in DOMAIN blocks : lastTime > blocks[i] + Threshold

\* What holds in every state and is kept by every step.
IInv == TypeOK /\ LockOK /\ PreparedOK /\ GrowingOK /\ BlocksConsistent /\ TimeOK /\ ThrottleKept
=============================================================================
