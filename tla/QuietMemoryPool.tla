--------------------------- MODULE QuietMemoryPool ---------------------------
(***************************************************************************)
(* MemoryPool with a history: quiet is true as long as no thread was       *)
(* inside a pop or a push of the free list while another was adding a      *)
(* block.  Waiting for the spin lock, to find that there are slots after   *)
(* all, does not end the quiet.                                            *)
(***************************************************************************)
EXTENDS MemoryPool

VARIABLE quiet

quietVars == <<vars, quiet>>

Growing(t)  == pc[t] \in BlockLabels \ {"lock", "recheck"}
Changing(t) == pc[t] \in {"next", "cas"} \cup FreeLabels

QuietInit == Init /\ quiet = TRUE

QuietNext ==
  /\ Next
  /\ quiet' = (quiet /\ ~\E t, u \in Threads : Growing(t)' /\ Changing(u)')

QuietSpec == QuietInit /\ [][QuietNext]_quietVars

-----------------------------------------------------------------------------
\* The shape of the state.  Its deep conjunct: while growing does not meet a pop or
\* a push, uninitialised memory is never published as the top of the free list.
QuietTypeOK == TypeOK /\ quiet \in BOOLEAN /\ (quiet => free.node # Garbage)

\* What the comments of memory_pool.h promise holds while growing does not
\* meet a pop or a push: no slot is lost, ...
NothingLostInQuiet == quiet => NothingLost

\* ... none is handed out twice, ...
NoDoubleAllocationInQuiet == quiet => NoDoubleAllocation

\* ... the counter prevents the ABA problem, ...
NoABAInQuiet == quiet => NoABA

\* ... the assertions of the debug build hold, ...
NoAssertionFailsInQuiet == quiet => NoAssertionFails

\* ... and, as allocate_block() looks at m_free again under the lock so as not to
\* allocate "an entire block_size of memory that would never get used", a block
\* is added only when every slot of the blocks before it is taken.
NoWastedBlockInQuiet ==
  [][quiet' /\ Len(blocks') > Len(blocks) => 1 .. maxSize \subseteq Taken]_quietVars

-----------------------------------------------------------------------------
\* The inductive invariant of MemoryPoolProofs for the quiet.

List == INSTANCE SlotList WITH Capacity <- MaxBlocks * BlockSlots

NobodyMeets == ~\E t, u \in Threads : Growing(t) /\ Changing(u)

\* Whoever has a slot in node is on its way with it.
NodeOK == \A t \in Threads : node[t] # NULL => pc[t] \in FreeLabels \cup {"construct", "aborted"}

\* A slot is in one pair of hands, and has been carved.
OwnersOK ==
  /\ \A t, u \in Threads :
       /\ t # u => held[t] \cap held[u] = {} /\ (node[t] # NULL => node[t] # node[u])
       /\ node[t] \notin held[u]
  /\ \A t \in Threads : node[t] \notin orphans /\ held[t] \cap orphans = {}
  /\ Taken \subseteq 1 .. maxSize

\* The flag is set in the slots that callers have, and in no slot that is free or
\* on its way to a caller.
FlagsOK ==
  /\ \A t \in Threads :
       /\ \A s \in held[t] : flag[s] = TRUE
       /\ pc[t] = "free_load" => flag[node[t]] = TRUE
       /\ pc[t] \in {"construct", "free_link", "free_cas"} => flag[node[t]] # TRUE
  /\ \A s \in Addr : flag[s] = TRUE => s \in Taken

\* The counter was never above what it is now, and with the same counter the whole
\* word was the same.
CountersOK ==
  \A t \in Threads :
    pc[t] \in {"next", "cas", "free_link", "free_cas"} =>
      orig[t].aba <= free.aba /\ (orig[t].aba = free.aba => orig[t] = free)

\* What a swap installs, if it succeeds, is right now.
SwapsOK ==
  \A t \in Threads :
    /\ pc[t] \in {"cas", "free_cas"} => nxt[t].aba = orig[t].aba + 1
    /\ pc[t] = "cas" /\ orig[t] = free => nxt[t].node = next[free.node]
    /\ pc[t] = "free_cas" => nxt[t].node = node[t] /\ next[node[t]] = orig[t].node

\* The slots that are not on the free list when nobody is between linking a new
\* block and publishing it.
Off == Taken \cup {s \in Addr : s > maxSize}

Filling == {"link", "carve", "last", "merge", "store"}

ListOK ==
  \/ List!Linked(free.node, next, Off)
  \/ /\ free.node = NULL /\ lock \in Threads
     /\ pc[lock] \in Filling \/ \A t \in Threads : pc[t] = "aborted"

\* Who grows the pool has found it empty; how far it has come with the links.
FillingOK ==
  \A t \in Threads :
    /\ Growing(t) => free.node = NULL /\ pc[t] \notin {"merge_load", "merge_link"}
    /\ pc[t] \in Filling => Taken = 1 .. First(Len(blocks)) - 1
    /\ pc[t] = "link" => cur = First(Len(blocks))
    /\ pc[t] = "carve" => \A s \in First(Len(blocks)) .. cur - 1 : next[s] = s + 1
    /\ pc[t] \in {"last", "merge", "store"} =>
         \A s \in First(Len(blocks)) .. Last(Len(blocks)) - 1 : next[s] = s + 1
    /\ pc[t] \in {"merge", "store"} => next[Last(Len(blocks))] = NULL

WhileQuiet ==
  /\ NobodyMeets /\ NodeOK /\ OwnersOK /\ FlagsOK
  /\ CountersOK /\ SwapsOK /\ ListOK /\ FillingOK

QuietInv == IInv /\ quiet \in BOOLEAN /\ (quiet => WhileQuiet)
=============================================================================
