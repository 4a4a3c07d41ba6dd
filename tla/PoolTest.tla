------------------------------ MODULE PoolTest ------------------------------
(***************************************************************************)
(* The program of m_pool.cpp: main() builds an AdaptiveMemoryPool, starts  *)
(* THREAD_COUNT threads running test_worker, joins them, and checks that   *)
(* every object is back in the pool.                                       *)
(*                                                                         *)
(* A worker allocates ALLOCATIONS_PER_THREAD objects, fills in each one it *)
(* gets, and then deallocates them in the order it got them.  What it      *)
(* writes covers the first word of the slot; the model lets it write its   *)
(* own name there, so that a write by anybody else shows.                  *)
(***************************************************************************)
EXTENDS Sequences, AdaptivePool

CONSTANTS
  Workers,    \* the threads running test_worker (THREAD_COUNT of them)
  Main,       \* the thread running main()
  PerThread   \* ALLOCATIONS_PER_THREAD

\* The number of allocations the workers make, and main() tries to repeat.
Demand == Cardinality(Workers) * PerThread

\* The pool of the program has a slot for each of them and no more: with more
\* slots than that, the assertion of main() would fail.
ASSUME TestAssumption ==
  /\ Threads = Workers \cup {Main}
  /\ Main \notin Workers
  /\ IsFiniteSet(Workers)
  /\ UserData = Workers
  /\ PerThread \in Nat
  /\ Capacity <= Demand

VARIABLES
  phase,  \* phase[t]: where thread t is in test_worker or main()
  i,      \* i[t]: its loop counter
  objs    \* objs[t]: allocated_objects of a worker, final_check of main()

testVars == <<phase, i, objs>>
vars == <<poolVars, testVars>>

Init ==
  /\ PoolInit
  /\ phase = [t \in Threads |-> IF t = Main THEN "join" ELSE "allocate"]
  /\ i = [t \in Threads |-> 0]
  /\ objs = [t \in Threads |-> <<>>]

Idle(t) == pc[t] = "idle"

EnterPhase(t, p) ==
  /\ phase' = [phase EXCEPT ![t] = p]
  /\ i' = [i EXCEPT ![t] = 0]
  /\ UNCHANGED <<objs, poolVars>>

-----------------------------------------------------------------------------
\* test_worker

\* Phase 1: the next object is requested ...
RequestObject(t) ==
  /\ phase[t] = "allocate" /\ Idle(t) /\ i[t] < PerThread
  /\ CallAllocate(t)
  /\ UNCHANGED testVars

\* ... and either there is none ...
GetNothing(t) ==
  /\ phase[t] = "allocate"
  /\ AllocateReturns(t, NULL)
  /\ i' = [i EXCEPT ![t] = @ + 1]
  /\ UNCHANGED <<phase, objs>>

\* ... or it is pushed onto allocated_objects (once it is filled in) ...
GetObject(t) ==
  /\ phase[t] = "allocate"
  /\ \E s \in 1 .. Capacity :
       /\ AllocateReturns(t, s)
       /\ objs' = [objs EXCEPT ![t] = Append(@, s)]
  /\ phase' = [phase EXCEPT ![t] = "fill"]
  /\ UNCHANGED i

\* ... which happens before the next request.
FillObject(t) ==
  /\ phase[t] = "fill"
  /\ UserWrite(objs[t][Len(objs[t])], t)
  /\ phase' = [phase EXCEPT ![t] = "allocate"]
  /\ i' = [i EXCEPT ![t] = @ + 1]
  /\ UNCHANGED objs

StartReturning(t) ==
  /\ phase[t] = "allocate" /\ Idle(t) /\ i[t] = PerThread
  /\ EnterPhase(t, "deallocate")

\* Phase 2: objects 1 .. i[t] of allocated_objects have been deallocated.
ReturnObject(t) ==
  /\ phase[t] = "deallocate" /\ Idle(t) /\ i[t] < Len(objs[t])
  /\ CallDeallocate(t, objs[t][i[t] + 1])
  /\ i' = [i EXCEPT ![t] = @ + 1]
  /\ UNCHANGED <<phase, objs>>

ObjectReturned(t) ==
  /\ phase[t] = "deallocate"
  /\ DeallocateReturns(t)
  /\ UNCHANGED testVars

Finish(t) ==
  /\ phase[t] = "deallocate" /\ Idle(t) /\ i[t] = Len(objs[t])
  /\ EnterPhase(t, "done")

Worker(t) ==
  \/ RequestObject(t) \/ GetNothing(t) \/ GetObject(t) \/ FillObject(t)
  \/ StartReturning(t) \/ ReturnObject(t) \/ ObjectReturned(t) \/ Finish(t)

-----------------------------------------------------------------------------
\* main()

\* Not waiting for the workers.
JoinSlip ==
  /\ phase[Main] = "join"
  /\ EnterPhase(Main, "recount")

Join ==
  /\ phase[Main] = "join"
  /\ \A t \in Workers : phase[t] = "done"
  /\ EnterPhase(Main, "recount")

\* The loop that fills final_check, and the one allocate() of the assertion.
RequestAgain ==
  /\ phase[Main] = "recount" /\ Idle(Main) /\ i[Main] <= Demand
  /\ CallAllocate(Main)
  /\ UNCHANGED testVars

\* One turn too many.
GetAgainSlip ==
  /\ phase[Main] = "recount" /\ i[Main] <= Demand
  /\ \E p \in (1 .. Capacity) \cup {NULL} :
       /\ AllocateReturns(Main, p)
       /\ objs' = [objs EXCEPT ![Main] = Append(@, p)]
  /\ i' = [i EXCEPT ![Main] = @ + 1]
  /\ UNCHANGED phase

GetAgain ==
  /\ phase[Main] = "recount" /\ i[Main] < Demand
  /\ \E p \in (1 .. Capacity) \cup {NULL} :
       /\ AllocateReturns(Main, p)
       /\ objs' = [objs EXCEPT ![Main] = Append(@, p)]
  /\ i' = [i EXCEPT ![Main] = @ + 1]
  /\ UNCHANGED phase

\* assert(pool.allocate() == nullptr)
AssertEmpty ==
  /\ phase[Main] = "recount" /\ i[Main] = Demand
  /\ \E p \in (1 .. Capacity) \cup {NULL} :
       /\ AllocateReturns(Main, p)
       /\ phase' = [phase EXCEPT ![Main] = IF p = NULL THEN "done" ELSE "aborted"]
  /\ UNCHANGED <<i, objs>>

MainThread == Join \/ RequestAgain \/ GetAgain \/ AssertEmpty

\* The program has ended.
Ended == phase[Main] \in {"done", "aborted"} /\ UNCHANGED vars

ThreadStep(t) ==
  \/ t \in Workers /\ Worker(t)
  \/ t = Main /\ MainThread
  \/ Inside(t) /\ UNCHANGED testVars

Next == (\E t \in Threads : ThreadStep(t)) \/ Ended

Spec == Init /\ [][Next]_vars

\* No thread of a set Q stops, and a compare_exchange_weak that keeps finding
\* the expected value does not fail for ever.  Nothing is assumed about the
\* order in which a mutex serves its waiters.
Swaps(t) ==
  /\ pc[t] \in {"alloc_cas", "free_cas"}
  /\ GetObject(t) \/ ObjectReturned(t) \/ (t = Main /\ (GetAgain \/ AssertEmpty))

Fairness(Q) == \A t \in Q : WF_vars(ThreadStep(t)) /\ SF_vars(Swaps(t))

FairSpec == Spec /\ Fairness(Threads)

-----------------------------------------------------------------------------
\* Properties

Phases == {"join", "recount", "aborted", "allocate", "fill", "deallocate", "done"}

\* The shape of the program's own state.
TypeOK ==
  /\ phase \in [Threads -> Phases]
  /\ i \in [Threads -> 0 .. Demand]
  /\ \A t \in Workers : objs[t] \in Seq(1 .. Capacity) /\ Len(objs[t]) <= PerThread
  /\ objs[Main] \in Seq((1 .. Capacity) \cup {NULL}) /\ Len(objs[Main]) <= Demand

\* The objects of a worker that it has filled in and not started to give back.
Filled(t) ==
  CASE phase[t] = "allocate"   -> 1 .. Len(objs[t])
    [] phase[t] = "fill"       -> 1 .. Len(objs[t]) - 1
    [] phase[t] = "deallocate" -> i[t] + 1 .. Len(objs[t])
    [] OTHER                   -> {}

\* What a worker writes into its objects stays there until it gives them back:
\* no two workers are given the same slot, and the pool's own links never
\* land in an object that is in use.
DataIntact == \A t \in Workers : \A k \in Filled(t) : next[objs[t][k]] = t

\* The pool turns a worker away only when the others have everything: however
\* their calls interleave with its own, it gets all it asks for or what is left
\* when each of the others has got all it asks for.  In the program, whose
\* Capacity is Demand, that is all it asks for.
NeverTurnedAway ==
  LET left == Capacity - (Demand - PerThread) IN
  \A t \in Workers :
    phase[t] = "deallocate" =>
      Len(objs[t]) = PerThread \/ Len(objs[t]) >= left

\* The final check of main(): no slot was lost and none was duplicated, so it
\* can allocate every slot once more, and after that nothing.
AllComeBack ==
  phase[Main] \in {"done", "aborted"} =>
    /\ phase[Main] = "done"
    /\ \A s \in 1 .. Capacity : Cardinality({k \in DOMAIN objs[Main] : objs[Main][k] = s}) = 1

\* Whatever the program does, what it sees is an ObjectPool: each of its calls
\* takes effect at one instant, whichever pool was built.
RefinesObjectPool == Abstract!Spec

\* The program ends, with either pool.
Termination == <>(phase[Main] = "done")

\* What lock-free buys: where the platform supports it, a thread that is
\* suspended for ever, anywhere in a call, keeps no other worker from finishing.
OthersFinish(sleeper) ==
  supported => <>(\A t \in Workers \ {sleeper} : phase[t] = "done")

-----------------------------------------------------------------------------
\* The inductive invariant of PoolTestProofs

\* The calls a worker has made in its first loop.
Asked(t) ==
  CASE phase[t] = "allocate" -> i[t]
    [] phase[t] = "fill"     -> i[t] + 1
    [] OTHER                 -> PerThread

\* Which of its objects a thread has, and has not begun to give back.
Kept(t) ==
  IF t = Main THEN {k \in DOMAIN objs[t] : objs[t][k] # NULL}
  ELSE CASE phase[t] \in {"allocate", "fill"} -> DOMAIN objs[t]
         [] phase[t] = "deallocate"           -> i[t] + 1 .. Len(objs[t])
         [] OTHER                             -> {}

\* A thread is inside the pool only where test_worker or main() calls it.
CallOK(t) ==
  /\ phase[t] \in {"allocate", "fill", "deallocate", "done"}
  /\ phase[t] = "deallocate" => i[t] <= Len(objs[t])
  /\ phase[t] = "fill" => objs[t] # <<>>
  /\ \/ pc[t] = "idle"
     \/ phase[t] = "allocate" /\ Requesting(t) /\ i[t] < PerThread
     \/ phase[t] = "deallocate" /\ Returning(t) /\ i[t] # 0 /\ node[t] = objs[t][i[t]]

CallsOK ==
  /\ \A t \in Workers : CallOK(t)
  /\ phase[Main] \in {"join", "recount", "done"}
  /\ pc[Main] = "idle" \/ (phase[Main] = "recount" /\ Requesting(Main))

\* The slots handed out are those the threads have, and no slot is there twice.
OwnersOK ==
  /\ \A t \in Threads : \A k \in Kept(t) : objs[t][k] \in held
  /\ \A s \in held : \E t \in Threads : \E k \in Kept(t) : objs[t][k] = s
  /\ \A t, u \in Threads : \A k \in Kept(t), l \in Kept(u) :
       objs[t][k] = objs[u][l] => t = u /\ k = l

\* A worker has got all it has asked for, or what the others must leave.
CountOK(t) ==
  /\ Len(objs[t]) <= Asked(t) /\ Asked(t) <= PerThread
  /\ Len(objs[t]) = Asked(t) \/ Len(objs[t]) >= Capacity - (Demand - PerThread)

CountsOK == \A t \in Workers : CountOK(t)

\* main() starts when all workers have ended, and once it has been given nullptr
\* it has everything.
RecountOK ==
  /\ phase[Main] # "join" => \A t \in Workers : phase[t] = "done"
  /\ phase[Main] = "join" => objs[Main] = <<>>
  /\ phase[Main] # "join" => Len(objs[Main]) = i[Main]
  /\ phase[Main] = "done" \/ (\E k \in DOMAIN objs[Main] : objs[Main][k] = NULL)
       => held = 1 .. Capacity

\* What holds in every state and is kept by every step.
IInv ==
  /\ PoolInv
  /\ TypeOK /\ objs \in [Threads -> Seq((1 .. Capacity) \cup {NULL})]
  /\ CallsOK /\ OwnersOK /\ CountsOK /\ RecountOK /\ DataIntact
=============================================================================
