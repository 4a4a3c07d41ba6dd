-------------------------- MODULE ThreadPoolProofs --------------------------
(***************************************************************************)
(* Proofs about ThreadPool, for any number of workers, any tasks and any   *)
(* scripts in which every call of enqueue() makes a task of its own.       *)
(*                                                                         *)
(* The mutex is held from the evaluation of wait()'s predicate to the      *)
(* moment the worker is asleep, so that nothing can be queued and stop     *)
(* cannot be set in between (StopOK): whoever goes to sleep leaves an      *)
(* empty queue, and every later task brings a notify_one() with it.        *)
(***************************************************************************)
EXTENDS ThreadPool, FiniteSetTheorems, TLAPS

-----------------------------------------------------------------------------
\* The code a thread executes.

LEMMA CodeType ==
  ASSUME TypeOK, NEW t \in Threads, t = Owner \/ pc[t] \in {"run", "push", "notify"}
  PROVE  Code(t) \in Seq(Calls)
BY ThreadPoolAssumption DEF TypeOK, Code, Threads

\* The argument of an enqueue() is a task.
LEMMA ArgType ==
  ASSUME TypeOK, CallOK, NEW t \in Threads, pc[t] \in {"push", "notify"}
  PROVE  Arg(t) \in Tasks
<1>1. Code(t) \in Seq(Calls)
  BY CodeType
<1>2. Code(t)[ip[t] + 1] \in Calls /\ Code(t)[ip[t] + 1].op = "enqueue"
  BY <1>1 DEF CallOK
<1>3. \A c \in Calls : c.op = "enqueue" => \E x \in Tasks : c = [op |-> "enqueue", task |-> x]
  BY DEF Calls, Enqueue, Get, Throw
<1>4. PICK x \in Tasks : Code(t)[ip[t] + 1] = [op |-> "enqueue", task |-> x]
  BY <1>2, <1>3
<1>5. QED BY <1>4 DEF Arg

-----------------------------------------------------------------------------
\* Counting those who are on their way.

LEMMA FiniteThreads ==
  /\ IsFiniteSet(Looking) /\ Cardinality(Looking) \in Nat
  /\ IsFiniteSet(Notifying) /\ Cardinality(Notifying) \in Nat
<1>1. IsFiniteSet(Threads)
  BY ThreadPoolAssumption, FS_AddElement DEF Threads
<1>2. Looking \in SUBSET Workers /\ Notifying \in SUBSET Threads
  BY DEF Looking, Notifying
<1>3. IsFiniteSet(Looking) /\ IsFiniteSet(Notifying)
  BY <1>1, <1>2, ThreadPoolAssumption, FS_Subset
<1>4. QED BY <1>3, FS_CardinalityType

LEMMA FiniteThreadsNext ==
  /\ IsFiniteSet(Looking') /\ Cardinality(Looking') \in Nat
  /\ IsFiniteSet(Notifying') /\ Cardinality(Notifying') \in Nat
<1>1. IsFiniteSet(Threads)
  BY ThreadPoolAssumption, FS_AddElement DEF Threads
<1>2. Looking' \in SUBSET Workers /\ Notifying' \in SUBSET Threads
  BY DEF Looking, Notifying
<1>3. IsFiniteSet(Looking') /\ IsFiniteSet(Notifying')
  BY <1>1, <1>2, ThreadPoolAssumption, FS_Subset
<1>4. QED BY <1>3, FS_CardinalityType

\* Nothing is queued, nobody falls asleep, and whoever was on the way still is.
LEMMA EnoughQuiet ==
  ASSUME TypeOK, EveryTaskHasAWaker, tasks' = tasks, waiting' \subseteq waiting,
         \A w \in Workers : pc[w] \in {"lock", "check"} => pc'[w] \in {"lock", "check"},
         \A t \in Threads : pc[t] = "notify" => pc'[t] = "notify"
  PROVE  EveryTaskHasAWaker'
<1>1. Looking \in SUBSET Looking' /\ Notifying \in SUBSET Notifying'
  BY DEF Looking, Notifying
<1>2. Cardinality(Looking) <= Cardinality(Looking') /\ Cardinality(Notifying) <= Cardinality(Notifying')
  BY <1>1, FiniteThreadsNext, FS_Subset
<1>3. Len(tasks) \in Nat
  BY DEF TypeOK
<1>4. QED BY <1>2, <1>3, FiniteThreads, FiniteThreadsNext DEF EveryTaskHasAWaker

\* An empty queue needs nobody.
LEMMA EnoughEmpty ==
  ASSUME tasks' = <<>>
  PROVE  EveryTaskHasAWaker'
BY FiniteThreadsNext DEF EveryTaskHasAWaker

-----------------------------------------------------------------------------
\* The inductive invariant holds at first.
LEMMA InitInv == Init => IInv
<1>. SUFFICES ASSUME Init PROVE IInv
  OBVIOUS
<1>1. TypeOK
  <2>1. tasks \in Seq(Tasks) /\ spurious \in 0 .. MaxSpurious
    BY ThreadPoolAssumption DEF Init
  <2>2. \A t \in Threads : mutex # t /\ pc[t] \in {"spawn", "unborn"}
    BY ThreadPoolAssumption DEF Init
  <2>3. waiting = {w \in Workers : pc[w] = "wait"}
    BY <2>2 DEF Init, Threads
  <2>4. \A w \in Workers : cur[w] = NULL
    BY DEF Init
  <2>5. QED BY <2>1, <2>2, <2>3, <2>4 DEF Init, TypeOK, Threads
<1>2. CallOK /\ StopOK /\ NobodySleepsThroughStop
  BY ThreadPoolAssumption DEF Init, CallOK, StopOK, NobodySleepsThroughStop, Threads
<1>3. EveryTaskHasAWaker
  BY DEF Init, EveryTaskHasAWaker
<1>4. QED BY <1>1, <1>2, <1>3 DEF IInv

-----------------------------------------------------------------------------
\* The steps of worker_thread() keep it.

LEMMA WorkerLockInv ==
  ASSUME IInv, NEW w \in Workers, WorkerLock(w)
  PROVE  IInv'
<1>. USE DEF IInv, WorkerLock, Lock, Goto
<1>1. TypeOK'
  BY ThreadPoolAssumption DEF TypeOK, Threads
<1>2. CallOK' /\ StopOK' /\ NobodySleepsThroughStop'
  BY ThreadPoolAssumption DEF TypeOK, CallOK, StopOK, NobodySleepsThroughStop, Code, Threads
<1>3. EveryTaskHasAWaker'
  BY EnoughQuiet DEF TypeOK, Threads
<1>4. QED BY <1>1, <1>2, <1>3

LEMMA FindNothingInv ==
  ASSUME IInv, NEW w \in Workers, FindNothing(w)
  PROVE  IInv'
<1>. USE DEF IInv, FindNothing, Goto
<1>1. TypeOK'
  BY ThreadPoolAssumption DEF TypeOK, Threads
<1>2. CallOK' /\ StopOK' /\ NobodySleepsThroughStop'
  BY ThreadPoolAssumption DEF TypeOK, CallOK, StopOK, NobodySleepsThroughStop, Code, Threads
<1>3. EveryTaskHasAWaker'
  BY EnoughEmpty
<1>4. QED BY <1>1, <1>2, <1>3

\* The mutex has been held since the queue was found empty.
LEMMA SleepInv ==
  ASSUME IInv, NEW w \in Workers, Sleep(w)
  PROVE  IInv'
<1>. USE DEF IInv, Sleep, Unlock, Goto
<1>1. TypeOK'
  BY ThreadPoolAssumption DEF TypeOK, Threads
<1>2. CallOK' /\ StopOK' /\ NobodySleepsThroughStop'
  BY ThreadPoolAssumption DEF TypeOK, CallOK, StopOK, NobodySleepsThroughStop, Code, Threads
<1>3. EveryTaskHasAWaker'
  BY EnoughEmpty DEF StopOK
<1>4. QED BY <1>1, <1>2, <1>3

LEMMA WakeSpuriouslyInv ==
  ASSUME IInv, NEW w \in Workers, WakeSpuriously(w)
  PROVE  IInv'
<1>. USE DEF IInv, WakeSpuriously, Goto
<1>1. TypeOK'
  BY ThreadPoolAssumption DEF TypeOK, Threads
<1>2. CallOK' /\ StopOK' /\ NobodySleepsThroughStop'
  BY ThreadPoolAssumption DEF TypeOK, CallOK, StopOK, NobodySleepsThroughStop, Code, Threads
<1>3. EveryTaskHasAWaker'
  BY EnoughQuiet DEF TypeOK, Threads
<1>4. QED BY <1>1, <1>2, <1>3

LEMMA ExitInv ==
  ASSUME IInv, NEW w \in Workers, Exit(w)
  PROVE  IInv'
<1>. USE DEF IInv, Exit, Unlock, Goto
<1>1. TypeOK'
  BY ThreadPoolAssumption DEF TypeOK, Threads
<1>2. CallOK' /\ StopOK' /\ NobodySleepsThroughStop'
  BY ThreadPoolAssumption DEF TypeOK, CallOK, StopOK, NobodySleepsThroughStop, Code, Threads
<1>3. EveryTaskHasAWaker'
  BY EnoughEmpty
<1>4. QED BY <1>1, <1>2, <1>3

\* The calls in progress are what they were for a thread that goes on with one.
LEMMA SameCalls ==
  ASSUME CallOK,
         \A t \in Threads : pc'[t] \in {"push", "notify"} =>
           /\ pc[t] \in {"push", "notify"} /\ ip'[t] = ip[t]
           /\ t # Owner => cur'[t] = cur[t]
  PROVE  CallOK'
<1>. SUFFICES ASSUME NEW t \in Threads, pc'[t] \in {"push", "notify"}
              PROVE  /\ ip'[t] + 1 \in 1 .. Len(Code(t)')
                     /\ Code(t)'[ip'[t] + 1].op = "enqueue"
  BY DEF CallOK
<1>1. pc[t] \in {"push", "notify"} /\ ip'[t] = ip[t] /\ Code(t)' = Code(t)
  BY DEF Code
<1>2. QED BY <1>1 DEF CallOK

\* One task less, and one worker less that is looking for one.
LEMMA TakeInv ==
  ASSUME IInv, NEW w \in Workers, Take(w)
  PROVE  IInv'
<1>. USE DEF IInv, Take, Unlock, Goto
<1>1. Head(tasks) \in Tasks /\ Tail(tasks) \in Seq(Tasks) /\ Len(Tail(tasks)) = Len(tasks) - 1
  BY DEF TypeOK
<1>2. TypeOK'
  BY <1>1, ThreadPoolAssumption DEF TypeOK, Threads
<1>3. CallOK'
  <2>1. /\ \A u \in Threads \ {w} : pc'[u] = pc[u] /\ ip'[u] = ip[u] /\ (u # Owner => cur'[u] = cur[u])
        /\ w \in Threads /\ pc'[w] = "run"
    BY DEF TypeOK, Threads
  <2>2. QED BY <2>1, SameCalls
<1>4. StopOK' /\ NobodySleepsThroughStop'
  BY ThreadPoolAssumption DEF TypeOK, StopOK, NobodySleepsThroughStop, Threads
<1>5. EveryTaskHasAWaker'
  <2>1. w \in Looking /\ Looking' = Looking \ {w}
    BY DEF TypeOK, Looking, Threads
  <2>2. Notifying' = Notifying
    BY DEF TypeOK, Notifying, Threads
  <2>3. Cardinality(Looking') = Cardinality(Looking) - 1
    BY <2>1, FiniteThreads, FS_RemoveElement
  <2>4. Len(tasks) \in Nat
    BY DEF TypeOK
  <2>5. QED BY <1>1, <2>2, <2>3, <2>4, FiniteThreads DEF EveryTaskHasAWaker
<1>6. QED BY <1>2, <1>3, <1>4, <1>5

-----------------------------------------------------------------------------
\* The scripts keep it: t is done with its script, one way or the other,
LEMMA LeaveInv ==
  ASSUME IInv, NEW t \in Threads, NEW result \in {"value", "exception"},
         UNCHANGED <<tasks, stop, waiting, ip, spurious>>,
         \/ pc[t] = "run" /\ mutex' = mutex
         \/ pc[t] = "push" /\ mutex' = NULL,
         IF t = Owner THEN Goto(t, "stop") /\ UNCHANGED <<cur, future>>
                      ELSE EndTask(t, result)
  PROVE  IInv'
<1>. USE DEF IInv, EndTask, Goto
<1>1. CASE t = Owner
  <2>1. TypeOK'
    <3>1. Owner \in Threads /\ Owner \notin Workers /\ NULL \notin Threads
      BY ThreadPoolAssumption DEF Threads
    <3>2. pc' = [pc EXCEPT ![Owner] = "stop"] /\ UNCHANGED <<cur, future>>
      BY <1>1
    <3>3. \A u \in Threads : mutex' = u <=> pc'[u] \in {"check", "sleep", "push", "stop_unlock"}
      BY <1>1, <3>1, <3>2 DEF TypeOK
    <3>4. \A w \in Workers : w \in Threads /\ pc'[w] = pc[w]
      BY <3>1, <3>2 DEF TypeOK, Threads
    <3>5. waiting' = {w \in Workers : pc'[w] = "wait"}
      BY <3>4 DEF TypeOK
    <3>6. QED BY <3>1, <3>2, <3>3, <3>4, <3>5 DEF TypeOK
  <2>2. CallOK' /\ StopOK' /\ NobodySleepsThroughStop'
    <3>1. /\ \A u \in Threads \ {Owner} : pc'[u] = pc[u] /\ ip'[u] = ip[u] /\ cur'[u] = cur[u]
          /\ pc'[Owner] = "stop"
      BY <1>1 DEF TypeOK, Threads
    <3>2. CallOK'
      BY <3>1, SameCalls
    <3>3. StopOK' /\ NobodySleepsThroughStop'
      BY <1>1, ThreadPoolAssumption DEF TypeOK, StopOK, NobodySleepsThroughStop, Threads
    <3>4. QED BY <3>2, <3>3
  <2>3. EveryTaskHasAWaker'
    BY <1>1, ThreadPoolAssumption, EnoughQuiet DEF TypeOK, Threads
  <2>4. QED BY <2>1, <2>2, <2>3
<1>2. CASE t # Owner
  <2>1. t \in Workers
    BY <1>2 DEF Threads
  <2>2. TypeOK'
    <3>1. t \in Threads /\ t # Owner /\ NULL \notin Threads /\ NULL \notin Tasks
      BY <1>2, ThreadPoolAssumption DEF Threads
    <3>2. /\ pc' = [pc EXCEPT ![t] = "lock"]
          /\ cur' = [cur EXCEPT ![t] = NULL]
          /\ future' = [future EXCEPT ![cur[t]] = result]
      BY <1>2
    <3>3. \A u \in Threads : mutex' = u <=> pc'[u] \in {"check", "sleep", "push", "stop_unlock"}
      BY <3>1, <3>2 DEF TypeOK
    <3>4. \A w \in Workers : w \in Threads /\ (w # t => pc'[w] = pc[w] /\ cur'[w] = cur[w])
      BY <3>2 DEF TypeOK, Threads
    <3>5. \A w \in Workers : cur'[w] # NULL <=> pc'[w] \in {"run", "push", "notify"}
      BY <2>1, <3>2, <3>4 DEF TypeOK
    <3>6. waiting' = {w \in Workers : pc'[w] = "wait"}
      BY <2>1, <3>2, <3>4 DEF TypeOK
    <3>7. QED BY <2>1, <3>1, <3>2, <3>3, <3>5, <3>6 DEF TypeOK
  <2>3. CallOK'
    BY <1>2, <2>1, ThreadPoolAssumption, SMTT(30) DEF TypeOK, CallOK, Code, Threads
  <2>4. StopOK' /\ NobodySleepsThroughStop'
    BY <1>2, <2>1, ThreadPoolAssumption DEF TypeOK, StopOK, NobodySleepsThroughStop, Threads
  <2>5. EveryTaskHasAWaker'
    BY <1>2, <2>1, ThreadPoolAssumption, EnoughQuiet DEF TypeOK, Threads
  <2>6. QED BY <2>2, <2>3, <2>4, <2>5
<1>3. QED BY <1>1, <1>2

\* and an exception is one way.
LEMMA UnwindInv ==
  ASSUME IInv, NEW t \in Threads,
         UNCHANGED <<tasks, stop, waiting, ip, spurious>>,
         \/ pc[t] = "run" /\ mutex' = mutex
         \/ pc[t] = "push" /\ mutex' = NULL,
         Unwind(t)
  PROVE  IInv'
BY LeaveInv DEF Unwind

LEMMA ReturnedInv ==
  ASSUME IInv, NEW t \in Threads, Returned(t)
  PROVE  IInv'
BY LeaveInv DEF Returned

LEMMA ThrownInv ==
  ASSUME IInv, NEW t \in Threads, Thrown(t)
  PROVE  IInv'
BY UnwindInv DEF Thrown, AtCall

LEMMA GetExceptionInv ==
  ASSUME IInv, NEW t \in Threads, GetException(t)
  PROVE  IInv'
BY UnwindInv DEF GetException, AtCall

LEMMA RejectInv ==
  ASSUME IInv, NEW t \in Threads, Reject(t)
  PROVE  IInv'
BY UnwindInv DEF Reject, Unlock

LEMMA GetValueInv ==
  ASSUME IInv, NEW t \in Threads, GetValue(t)
  PROVE  IInv'
<1>. USE DEF IInv, GetValue, AtCall
<1>1. TypeOK'
  BY DEF TypeOK
<1>2. CallOK' /\ StopOK' /\ NobodySleepsThroughStop'
  BY DEF TypeOK, CallOK, StopOK, NobodySleepsThroughStop, Code
<1>3. EveryTaskHasAWaker'
  BY EnoughQuiet
<1>4. QED BY <1>1, <1>2, <1>3

LEMMA EnqueueLockInv ==
  ASSUME IInv, NEW t \in Threads, EnqueueLock(t)
  PROVE  IInv'
<1>. USE DEF IInv, EnqueueLock, AtCall, Lock, Goto
<1>1. TypeOK'
  BY ThreadPoolAssumption DEF TypeOK, Threads
<1>2. CallOK'
  <2>1. Code(t) \in Seq(Calls)
    BY CodeType
  <2>2. ip[t] + 1 \in 1 .. Len(Code(t))
    BY <2>1 DEF TypeOK
  <2>3. QED BY <2>2 DEF TypeOK, CallOK, Code
<1>3. StopOK' /\ NobodySleepsThroughStop'
  BY ThreadPoolAssumption DEF TypeOK, StopOK, NobodySleepsThroughStop, Threads
<1>4. EveryTaskHasAWaker'
  BY EnoughQuiet DEF TypeOK, Threads
<1>5. QED BY <1>1, <1>2, <1>3, <1>4

\* One task more, and one notify_one() more that is to come.
LEMMA PushInv ==
  ASSUME IInv, NEW t \in Threads, Push(t)
  PROVE  IInv'
<1>. USE DEF IInv, Push, Unlock, Goto
<1>1. Arg(t) \in Tasks
  BY ArgType
<1>2. Len(tasks) \in Nat /\ tasks' \in Seq(Tasks) /\ Len(tasks') = Len(tasks) + 1
  BY <1>1 DEF TypeOK
<1>3. TypeOK'
  BY <1>2, ThreadPoolAssumption DEF TypeOK, Threads
<1>4. CallOK'
  BY DEF TypeOK, CallOK, Code
<1>5. StopOK' /\ NobodySleepsThroughStop'
  BY ThreadPoolAssumption DEF TypeOK, StopOK, NobodySleepsThroughStop, Threads
<1>6. EveryTaskHasAWaker'
  <2>1. t \notin Notifying /\ Notifying' = Notifying \cup {t}
    BY DEF TypeOK, Notifying
  <2>2. Looking' = Looking
    BY DEF TypeOK, Looking, Threads
  <2>3. Cardinality(Notifying') = Cardinality(Notifying) + 1
    BY <2>1, FiniteThreads, FS_AddElement
  <2>4. QED BY <1>2, <2>2, <2>3, FiniteThreads DEF EveryTaskHasAWaker
<1>7. QED BY <1>3, <1>4, <1>5, <1>6

\* A notify_one() less, and a sleeper more that is on its way, unless nobody slept.
LEMMA NotifyOneInv ==
  ASSUME IInv, NEW t \in Threads, NotifyOne(t)
  PROVE  IInv'
<1>. USE DEF IInv, NotifyOne, Wake
<1>1. CASE waiting = {}
  <2>. USE <1>1
  <2>1. pc' = [pc EXCEPT ![t] = "run"] /\ waiting' = {}
    BY DEF TypeOK
  <2>2. TypeOK'
    BY <2>1, ThreadPoolAssumption, SMTT(30) DEF TypeOK, Threads
  <2>3. CallOK'
    BY <2>1, ThreadPoolAssumption DEF TypeOK, CallOK, Code, Threads
  <2>4. StopOK' /\ NobodySleepsThroughStop'
    BY <2>1, ThreadPoolAssumption DEF TypeOK, StopOK, NobodySleepsThroughStop, Threads
  <2>5. EveryTaskHasAWaker'
    BY <2>1 DEF EveryTaskHasAWaker
  <2>6. QED BY <2>2, <2>3, <2>4, <2>5
<1>2. CASE waiting # {}
  <2>1. PICK w \in waiting : Wake(t, "run", {w})
    BY <1>2
  <2>2. w \in Workers /\ pc[w] = "wait" /\ w # t /\ w # Owner
    BY ThreadPoolAssumption DEF TypeOK, Threads
  <2>3. pc' = [[pc EXCEPT ![t] = "run"] EXCEPT ![w] = "lock"] /\ waiting' = waiting \ {w}
    <3>1. w \in Threads /\ t \in Threads /\ DOMAIN pc = Threads
      BY <2>2 DEF TypeOK, Threads
    <3>2. /\ pc' = [u \in Threads |-> IF u = t THEN "run" ELSE IF u \in {w} THEN "lock" ELSE pc[u]]
          /\ waiting' = waiting \ {w}
      BY <2>1
    <3>. DEFINE both == [[pc EXCEPT ![t] = "run"] EXCEPT ![w] = "lock"]
    <3>3. \A u \in Threads : pc'[u] = both[u]
      BY <2>2, <3>1, <3>2
    <3>4. both = [u \in Threads |-> both[u]]
      BY <3>1
    <3>. HIDE DEF both
    <3>5. pc' = both
      BY <3>2, <3>3, <3>4
    <3>6. QED BY <3>2, <3>5 DEF both
  <2>4. TypeOK'
    <3>1. /\ w \in Threads /\ pc'[w] = "lock" /\ pc'[t] = "run" /\ pc[t] = "notify"
          /\ \A u \in Threads \ {t, w} : pc'[u] = pc[u]
      BY <2>2, <2>3 DEF TypeOK, Threads
    <3>2. \A u \in Threads : mutex' = u <=> pc'[u] \in {"check", "sleep", "push", "stop_unlock"}
      BY <2>2, <3>1 DEF TypeOK
    <3>3. \A u \in Workers : cur'[u] # NULL <=> pc'[u] \in {"run", "push", "notify"}
      <4>1. \A u \in Workers : u \in Threads /\ cur'[u] = cur[u]
        BY DEF Threads
      <4>2. \A u \in Workers : pc'[u] \in {"run", "push", "notify"} <=> pc[u] \in {"run", "push", "notify"}
        BY <2>2, <3>1, <4>1
      <4>3. QED BY <4>1, <4>2 DEF TypeOK
    <3>4. waiting' = {u \in Workers : pc'[u] = "wait"}
      BY <2>2, <2>3, <3>1 DEF TypeOK, Threads
    <3>5. ip' \in [Threads -> Nat]
      BY DEF TypeOK
    <3>6. QED BY <2>2, <2>3, <3>1, <3>2, <3>3, <3>4, <3>5 DEF TypeOK
  <2>5. CallOK'
    <3>1. \A u \in Threads : pc'[u] = IF u = t THEN "run" ELSE IF u = w THEN "lock" ELSE pc[u]
      BY <2>2, <2>3 DEF TypeOK, Threads
    <3>2. \A u \in Threads \ {t} : ip'[u] = ip[u] /\ cur' = cur
      BY DEF TypeOK
    <3>3. QED BY <3>1, <3>2, SameCalls
  <2>6. StopOK' /\ NobodySleepsThroughStop'
    BY <2>2, <2>3, ThreadPoolAssumption DEF TypeOK, StopOK, NobodySleepsThroughStop, Threads
  <2>7. EveryTaskHasAWaker'
    <3>1. w \notin Looking /\ Looking' = Looking \cup {w}
      BY <2>2, <2>3 DEF TypeOK, Looking, Threads
    <3>2. t \in Notifying /\ Notifying' = Notifying \ {t}
      BY <2>2, <2>3 DEF TypeOK, Notifying, Threads
    <3>3. /\ Cardinality(Looking') = Cardinality(Looking) + 1
          /\ Cardinality(Notifying') = Cardinality(Notifying) - 1
      BY <3>1, <3>2, FiniteThreads, FS_AddElement, FS_RemoveElement
    <3>4. Len(tasks) \in Nat
      BY DEF TypeOK
    <3>5. QED BY <1>2, <3>3, <3>4, FiniteThreads DEF EveryTaskHasAWaker
  <2>8. QED BY <2>4, <2>5, <2>6, <2>7
<1>3. QED BY <1>1, <1>2

-----------------------------------------------------------------------------
\* The constructor and the destructor keep it.

LEMMA SpawnInv ==
  ASSUME IInv, Spawn
  PROVE  IInv'
<1>. USE DEF IInv, Spawn, Goto
<1>1. PICK w \in Workers : pc[w] = "unborn" /\ pc' = [pc EXCEPT ![w] = "lock"]
  OBVIOUS
<1>2. TypeOK'
  BY <1>1, ThreadPoolAssumption DEF TypeOK, Threads
<1>3. CallOK' /\ StopOK' /\ NobodySleepsThroughStop'
  BY <1>1, ThreadPoolAssumption DEF TypeOK, CallOK, StopOK, NobodySleepsThroughStop, Code, Threads
<1>4. EveryTaskHasAWaker'
  BY <1>1, EnoughQuiet DEF TypeOK, Threads
<1>5. QED BY <1>2, <1>3, <1>4

LEMMA ConstructedInv ==
  ASSUME IInv, Constructed
  PROVE  IInv'
<1>. USE DEF IInv, Constructed, Goto
<1>1. TypeOK'
  BY ThreadPoolAssumption DEF TypeOK, Threads
<1>2. CallOK' /\ StopOK' /\ NobodySleepsThroughStop'
  BY ThreadPoolAssumption DEF TypeOK, CallOK, StopOK, NobodySleepsThroughStop, Code, Threads
<1>3. EveryTaskHasAWaker'
  BY ThreadPoolAssumption, EnoughQuiet DEF TypeOK, Threads
<1>4. QED BY <1>1, <1>2, <1>3

\* The mutex is free: nobody is about to sleep or to leave.
LEMMA StopLockInv ==
  ASSUME IInv, StopLock
  PROVE  IInv'
<1>. USE DEF IInv, StopLock, Lock, Goto
<1>1. TypeOK'
  BY ThreadPoolAssumption DEF TypeOK, Threads
<1>2. CallOK' /\ StopOK' /\ NobodySleepsThroughStop'
  <2>1. /\ \A u \in Threads \ {Owner} : pc'[u] = pc[u] /\ ip' = ip /\ cur' = cur
        /\ pc'[Owner] = "stop_unlock"
    BY DEF TypeOK, Threads
  <2>2. CallOK'
    BY <2>1, SameCalls
  <2>3. StopOK' /\ NobodySleepsThroughStop'
    BY ThreadPoolAssumption DEF TypeOK, StopOK, NobodySleepsThroughStop, Threads
  <2>4. QED BY <2>2, <2>3
<1>3. EveryTaskHasAWaker'
  BY ThreadPoolAssumption, EnoughQuiet DEF TypeOK, Threads
<1>4. QED BY <1>1, <1>2, <1>3

LEMMA StopUnlockInv ==
  ASSUME IInv, StopUnlock
  PROVE  IInv'
<1>. USE DEF IInv, StopUnlock, Unlock, Goto
<1>1. TypeOK'
  BY ThreadPoolAssumption DEF TypeOK, Threads
<1>2. CallOK' /\ StopOK' /\ NobodySleepsThroughStop'
  BY ThreadPoolAssumption DEF TypeOK, CallOK, StopOK, NobodySleepsThroughStop, Code, Threads
<1>3. EveryTaskHasAWaker'
  BY ThreadPoolAssumption, EnoughQuiet DEF TypeOK, Threads
<1>4. QED BY <1>1, <1>2, <1>3

LEMMA NotifyAllInv ==
  ASSUME IInv, NotifyAll
  PROVE  IInv'
<1>. USE DEF IInv, NotifyAll, Wake
<1>1. /\ Owner \in Threads /\ Owner \notin Workers /\ NULL \notin Threads
      /\ waiting' = {} /\ waiting = {w \in Workers : pc[w] = "wait"}
      /\ pc[Owner] = "notify_all" /\ pc'[Owner] = "join"
  BY ThreadPoolAssumption DEF TypeOK, Threads
<1>2. \A w \in Workers : w \in Threads /\ pc'[w] = IF pc[w] = "wait" THEN "lock" ELSE pc[w]
  BY <1>1 DEF Threads
<1>3. \A t \in Threads : t = Owner \/ t \in Workers
  BY DEF Threads
<1>4. TypeOK'
  <2>1. \A t \in Threads : mutex' = t <=> pc'[t] \in {"check", "sleep", "push", "stop_unlock"}
    BY <1>1, <1>2, <1>3 DEF TypeOK
  <2>2. \A w \in Workers : cur'[w] # NULL <=> pc'[w] \in {"run", "push", "notify"}
    BY <1>2 DEF TypeOK
  <2>3. waiting' = {w \in Workers : pc'[w] = "wait"}
    BY <1>1, <1>2
  <2>4. pc' \in [Threads -> {"spawn", "unborn", "lock", "check", "sleep", "wait", "run", "push",
                             "notify", "exited", "stop", "stop_unlock", "notify_all", "join", "destroyed"}]
    BY DEF TypeOK
  <2>5. QED BY <2>1, <2>2, <2>3, <2>4 DEF TypeOK
<1>5. CallOK'
  BY <1>1, <1>2, <1>3 DEF CallOK, Code
<1>6. StopOK'
  BY <1>1, <1>2 DEF StopOK
<1>7. NobodySleepsThroughStop' /\ EveryTaskHasAWaker'
  BY <1>1 DEF NobodySleepsThroughStop, EveryTaskHasAWaker
<1>8. QED BY <1>4, <1>5, <1>6, <1>7

LEMMA JoinInv ==
  ASSUME IInv, Join
  PROVE  IInv'
<1>. USE DEF IInv, Join, Goto
<1>1. TypeOK'
  BY ThreadPoolAssumption DEF TypeOK, Threads
<1>2. CallOK' /\ StopOK' /\ NobodySleepsThroughStop'
  BY ThreadPoolAssumption DEF TypeOK, CallOK, StopOK, NobodySleepsThroughStop, Code, Threads
<1>3. EveryTaskHasAWaker'
  BY ThreadPoolAssumption, EnoughQuiet DEF TypeOK, Threads
<1>4. QED BY <1>1, <1>2, <1>3

-----------------------------------------------------------------------------
LEMMA StutterInv ==
  ASSUME IInv, UNCHANGED vars
  PROVE  IInv'
<1>. USE DEF IInv, vars
<1>1. TypeOK'
  BY DEF TypeOK
<1>2. CallOK' /\ StopOK' /\ NobodySleepsThroughStop'
  BY DEF CallOK, StopOK, NobodySleepsThroughStop, Code
<1>3. EveryTaskHasAWaker'
  BY EnoughQuiet
<1>4. QED BY <1>1, <1>2, <1>3

LEMMA RunInv ==
  ASSUME IInv, NEW t \in Threads, Run(t)
  PROVE  IInv'
BY ReturnedInv, ThrownInv, GetValueInv, GetExceptionInv, EnqueueLockInv, RejectInv, PushInv,
   NotifyOneInv DEF Run

LEMMA StepInv == IInv /\ [Next]_vars => IInv'
<1>. SUFFICES ASSUME IInv, [Next]_vars PROVE IInv'
  OBVIOUS
<1>1. ASSUME NEW w \in Workers, Worker(w) \/ WakeSpuriously(w) PROVE IInv'
  BY <1>1, WorkerLockInv, FindNothingInv, SleepInv, ExitInv, TakeInv, RunInv, WakeSpuriouslyInv
  DEF Worker, Threads
<1>2. CASE OwnerStep
  BY <1>2, SpawnInv, ConstructedInv, RunInv, StopLockInv, StopUnlockInv, NotifyAllInv, JoinInv
  DEF OwnerStep, Threads
<1>3. CASE UNCHANGED vars
  BY <1>3, StutterInv
<1>4. QED BY <1>1, <1>2, <1>3 DEF Next, Destroyed

-----------------------------------------------------------------------------
\* The theorems

\* The inductive invariant holds in every reachable state.
THEOREM Invariance == Spec => []IInv
<1>1. Init => IInv
  BY InitInv
<1>2. IInv /\ [Next]_vars => IInv'
  BY StepInv
<1>3. QED BY <1>1, <1>2, PTL DEF Spec

\* Type correctness, and with it mutual exclusion: a thread has the mutex exactly
\* while it is in a critical section.
THEOREM TypeCorrect == Spec => []TypeOK
<1>1. IInv => TypeOK
  BY DEF IInv
<1>2. QED BY <1>1, Invariance, PTL

\* No wakeup is lost, however notify_one() and the workers interleave.
THEOREM NoWakeupIsLost == Spec => []EveryTaskHasAWaker
<1>1. IInv => EveryTaskHasAWaker
  BY DEF IInv
<1>2. QED BY <1>1, Invariance, PTL

\* No worker falls asleep, or stays asleep, after the last notify_all().
THEOREM StopIsHeard == Spec => []NobodySleepsThroughStop
<1>1. IInv => NobodySleepsThroughStop
  BY DEF IInv
<1>2. QED BY <1>1, Invariance, PTL

\* A worker leaves only when no task will ever be queued again.
THEOREM NoTaskLeftBehind == Spec => []NothingLeftBehind
<1>1. IInv => NothingLeftBehind
  BY DEF IInv, StopOK, NothingLeftBehind
<1>2. QED BY <1>1, Invariance, PTL

-----------------------------------------------------------------------------
\* Every task is submitted once and is in one place.

\* The script thread t is executing.
File(t) == IF t = Owner THEN Owner ELSE cur[t]

LEMMA FileType ==
  ASSUME TypeOK, NEW t \in Threads, t = Owner \/ pc[t] \in {"run", "push", "notify"}
  PROVE  File(t) \in Tasks \cup {Owner} /\ Code(t) = Script[File(t)]
BY DEF TypeOK, File, Code, Threads

LEMMA ScriptType ==
  ASSUME NEW f \in Tasks \cup {Owner}, NEW k \in 1 .. Len(Script[f]), Script[f][k].op = "enqueue"
  PROVE  k \in Nat /\ \E x \in Tasks : Script[f][k] = [op |-> "enqueue", task |-> x]
<1>1. Script[f] \in Seq(Calls)
  BY ThreadPoolAssumption
<1>2. k \in Nat /\ Script[f][k] \in Calls
  <2>. DEFINE s == Script[f]
  <2>1. s \in Seq(Calls) /\ k \in 1 .. Len(s)
    BY <1>1
  <2>. HIDE DEF s
  <2>2. k \in Nat /\ s[k] \in Calls
    BY <2>1
  <2>3. QED BY <2>2 DEF s
<1>3. \A c \in Calls : c.op = "enqueue" => \E x \in Tasks : c = [op |-> "enqueue", task |-> x]
  BY DEF Calls, Enqueue, Get, Throw
<1>4. QED BY <1>2, <1>3

\* A step that submits nothing that was not submitted and forgets no call that
\* was made.
LEMMA OriginKept ==
  ASSUME OriginOK,
         \A x \in Tasks : Submitted(x)' => Submitted(x),
         \A f \in Tasks \cup {Owner}, k \in Nat : Made(f, k) => Made(f, k)'
  PROVE  OriginOK'
<1>. SUFFICES ASSUME NEW f \in Tasks \cup {Owner}, NEW k \in 1 .. Len(Script[f]),
                     Script[f][k].op = "enqueue", Submitted(Script[f][k].task)'
              PROVE  Made(f, k)'
  BY DEF OriginOK
<1>1. k \in Nat /\ \E x \in Tasks : Script[f][k] = [op |-> "enqueue", task |-> x]
  BY ScriptType
<1>2. PICK y \in Tasks : Script[f][k].task = y
  BY <1>1
<1>3. Submitted(Script[f][k].task)
  BY <1>2
<1>4. Made(f, k)
  BY <1>3 DEF OriginOK
<1>5. QED BY <1>1, <1>4

\* A step outside of the queue, in which no thread goes back in its script.
LEMMA PlaceQuiet ==
  ASSUME TypeOK, PlaceOK, OriginOK, UNCHANGED <<tasks, cur, future>>,
         \A t \in Threads : ip'[t] \in Nat /\ ip'[t] >= ip[t],
         \A t \in Threads : pc[t] = "notify" => pc'[t] = "notify" \/ ip'[t] = ip[t] + 1,
         pc'[Owner] \in {"spawn", "run", "push", "notify"}
           => pc[Owner] \in {"spawn", "run", "push", "notify"}
  PROVE  PlaceOK' /\ OriginOK'
<1>1. PlaceOK'
  BY DEF PlaceOK
<1>2. \A x \in Tasks : Submitted(x)' => Submitted(x)
  BY DEF Submitted
<1>3. \A t \in Threads, k \in Nat : Passed(t, k) => Passed(t, k)'
  BY DEF TypeOK, Passed
<1>4. \A f \in Tasks \cup {Owner}, k \in Nat : Made(f, k) => Made(f, k)'
  BY <1>3 DEF Made, Threads
<1>5. QED BY <1>1, <1>2, <1>4, OriginKept

LEMMA TakePlace ==
  ASSUME TypeOK, PlaceOK, OriginOK, NEW w \in Workers, Take(w)
  PROVE  PlaceOK' /\ OriginOK'
<1>. USE DEF Take, Goto
<1>1. cur[w] = NULL /\ w \in Threads /\ w # Owner
  BY ThreadPoolAssumption DEF TypeOK, Threads
<1>2. /\ Len(tasks) \in Nat \ {0} /\ DOMAIN tasks = 1 .. Len(tasks)
      /\ DOMAIN tasks' = 1 .. (Len(tasks) - 1)
      /\ \A i \in DOMAIN tasks' : i + 1 \in DOMAIN tasks /\ tasks'[i] = tasks[i + 1]
      /\ 1 \in DOMAIN tasks /\ tasks[1] \in Tasks /\ Head(tasks) = tasks[1]
  BY DEF TypeOK
<1>3. cur' = [cur EXCEPT ![w] = tasks[1]] /\ future' = future
  BY <1>2
<1>4. \A v \in Workers : cur'[v] = IF v = w THEN tasks[1] ELSE cur[v]
  BY <1>3 DEF TypeOK
<1>5. PlaceOK'
  <2>1. \A i, j \in DOMAIN tasks' : tasks'[i] = tasks'[j] => i = j
    BY <1>2 DEF PlaceOK
  <2>2. \A i \in DOMAIN tasks' : /\ future'[tasks'[i]] = "pending"
                                 /\ \A v \in Workers : cur'[v] # tasks'[i]
    BY <1>2, <1>3, <1>4 DEF PlaceOK
  <2>3. \A v \in Workers : cur'[v] # NULL => future'[cur'[v]] = "pending"
    BY <1>2, <1>3, <1>4 DEF PlaceOK
  <2>4. \A u, v \in Workers : cur'[u] = cur'[v] /\ cur'[u] # NULL => u = v
    BY <1>2, <1>4 DEF PlaceOK
  <2>5. QED BY <2>1, <2>2, <2>3, <2>4 DEF PlaceOK
<1>6. \A x \in Tasks : Submitted(x)' => Submitted(x)
  BY <1>2, <1>3, <1>4 DEF Submitted
<1>7. \A t \in Threads, k \in Nat : t # w /\ Passed(t, k) => Passed(t, k)'
  BY DEF TypeOK, Passed
<1>8. \A f \in Tasks \cup {Owner}, k \in Nat : Made(f, k) => Made(f, k)'
  <2>1. \A k \in Nat : Made(Owner, k) => Made(Owner, k)'
    BY <1>1, <1>7, ThreadPoolAssumption DEF TypeOK, Made, Threads
  <2>2. ASSUME NEW f \in Tasks, NEW k \in Nat, Made(f, k)
        PROVE  Made(f, k)'
    <3>1. f # Owner /\ f # NULL
      BY ThreadPoolAssumption
    <3>2. CASE future[f] # "pending"
      BY <3>1, <3>2, <1>3 DEF Made
    <3>3. CASE \E v \in Workers : cur[v] = f /\ Passed(v, k)
      <4>1. PICK v \in Workers : cur[v] = f /\ Passed(v, k)
        BY <3>3
      <4>2. v # w /\ v \in Threads
        BY <4>1, <3>1, <1>1 DEF Threads
      <4>3. cur'[v] = f /\ Passed(v, k)'
        BY <4>1, <4>2, <1>4, <1>7
      <4>4. QED BY <3>1, <4>3 DEF Made
    <3>4. QED BY <2>2, <3>1, <3>2, <3>3 DEF Made
  <2>3. QED BY <2>1, <2>2
<1>9. QED BY <1>5, <1>6, <1>8, OriginKept

\* The end of a task, or of the owner's script.
LEMMA LeavePlace ==
  ASSUME TypeOK, PlaceOK, OriginOK, NEW t \in Threads, NEW result \in {"value", "exception"},
         UNCHANGED <<tasks, ip>>, pc[t] \in {"run", "push"},
         IF t = Owner THEN Goto(t, "stop") /\ UNCHANGED <<cur, future>>
                      ELSE EndTask(t, result)
  PROVE  PlaceOK' /\ OriginOK'
<1>. USE DEF EndTask, Goto
<1>1. CASE t = Owner
  <2>1. \A u \in Threads : ip'[u] \in Nat /\ ip'[u] >= ip[u]
    BY DEF TypeOK
  <2>2. QED BY <1>1, <2>1, PlaceQuiet DEF TypeOK, Threads
<1>2. CASE t # Owner
  <2>1. t \in Workers /\ cur[t] \in Tasks
    BY <1>2 DEF TypeOK, Threads
  <2>2. \A v \in Workers : cur'[v] = IF v = t THEN NULL ELSE cur[v]
    BY <1>2 DEF TypeOK
  <2>3. \A x \in Tasks : future'[x] = IF x = cur[t] THEN result ELSE future[x]
    BY <1>2 DEF TypeOK
  <2>4. \A v \in Workers : cur[v] \in Tasks \cup {NULL}
    BY DEF TypeOK
  <2>5. \A i \in DOMAIN tasks : tasks[i] \in Tasks
    BY DEF TypeOK
  <2>6. PlaceOK'
    <3>1. \A i, j \in DOMAIN tasks : tasks[i] = tasks[j] => i = j
      BY DEF PlaceOK
    <3>2. \A i \in DOMAIN tasks : /\ future'[tasks[i]] = "pending"
                                  /\ \A v \in Workers : cur'[v] # tasks[i]
      BY <2>1, <2>2, <2>3, <2>5, ThreadPoolAssumption DEF PlaceOK
    <3>3. \A v \in Workers : cur'[v] # NULL => future'[cur'[v]] = "pending"
      BY <2>1, <2>2, <2>3, <2>4 DEF PlaceOK
    <3>4. \A u, v \in Workers : cur'[u] = cur'[v] /\ cur'[u] # NULL => u = v
      BY <2>2 DEF PlaceOK
    <3>5. QED BY <3>1, <3>2, <3>3, <3>4 DEF PlaceOK
  <2>7. \A x \in Tasks : Submitted(x)' => Submitted(x)
    <3>. SUFFICES ASSUME NEW x \in Tasks, Submitted(x)' PROVE Submitted(x)
      OBVIOUS
    <3>1. CASE \E i \in DOMAIN tasks : tasks'[i] = x
      BY <3>1 DEF Submitted
    <3>2. CASE \E v \in Workers : cur'[v] = x
      <4>1. PICK v \in Workers : cur'[v] = x
        BY <3>2
      <4>2. x # NULL
        BY ThreadPoolAssumption
      <4>3. cur[v] = x
        BY <2>2, <4>1, <4>2
      <4>4. QED BY <4>3 DEF Submitted
    <3>3. CASE future'[x] # "pending"
      <4>1. x = cur[t] \/ future[x] # "pending"
        BY <2>3, <3>3
      <4>2. QED BY <2>1, <4>1 DEF Submitted
    <3>4. QED BY <3>1, <3>2, <3>3 DEF Submitted
  <2>8. \A u \in Threads, k \in Nat : Passed(u, k) => Passed(u, k)'
    BY <1>2 DEF TypeOK, Passed
  <2>9. \A f \in Tasks \cup {Owner}, k \in Nat : Made(f, k) => Made(f, k)'
    <3>1. \A k \in Nat : Made(Owner, k) => Made(Owner, k)'
      BY <1>2, <2>8, ThreadPoolAssumption DEF TypeOK, Made, Threads
    <3>2. \A f \in Tasks, k \in Nat : Made(f, k) => Made(f, k)'
      BY <2>2, <2>3, <2>8, ThreadPoolAssumption DEF Made, Threads
    <3>3. QED BY <3>1, <3>2
  <2>10. QED BY <2>6, <2>7, <2>9, OriginKept
<1>3. QED BY <1>1, <1>2

\* The task of an enqueue() that is still to push it is not known yet.
LEMMA NotSubmitted ==
  ASSUME TypeOK, CallOK, PlaceOK, OriginOK, NEW t \in Threads, pc[t] = "push"
  PROVE  ~Submitted(Arg(t))
<1>. DEFINE f == File(t)
            k == ip[t] + 1
<1>1. f \in Tasks \cup {Owner} /\ Code(t) = Script[f]
  BY FileType
<1>2. k \in 1 .. Len(Script[f]) /\ Script[f][k].op = "enqueue" /\ Arg(t) = Script[f][k].task
  BY <1>1 DEF CallOK, Arg
<1>3. ~Made(f, k)
  <2>1. ~Passed(t, k)
    BY DEF TypeOK, Passed
  <2>2. CASE t = Owner
    BY <2>1, <2>2 DEF Made, File
  <2>3. CASE t # Owner
    <3>1. t \in Workers /\ cur[t] # NULL /\ f = cur[t]
      BY <2>3 DEF TypeOK, File, Threads
    <3>2. f # Owner /\ future[f] = "pending"
      BY <3>1, ThreadPoolAssumption DEF TypeOK, PlaceOK
    <3>3. \A v \in Workers : cur[v] = f => v = t
      BY <3>1 DEF PlaceOK
    <3>4. QED BY <2>1, <3>2, <3>3 DEF Made
  <2>4. QED BY <2>2, <2>3
<1>4. QED BY <1>1, <1>2, <1>3 DEF OriginOK

LEMMA PushPlace ==
  ASSUME TypeOK, CallOK, PlaceOK, OriginOK, NEW t \in Threads, Push(t)
  PROVE  PlaceOK' /\ OriginOK'
<1>. USE DEF Push, Goto
<1>. DEFINE x == Arg(t)
<1>1. x \in Tasks /\ ~Submitted(x)
  BY ArgType, NotSubmitted
<1>2. /\ Len(tasks) \in Nat /\ DOMAIN tasks = 1 .. Len(tasks)
      /\ DOMAIN tasks' = 1 .. (Len(tasks) + 1)
      /\ \A i \in DOMAIN tasks : i \in DOMAIN tasks' /\ tasks'[i] = tasks[i]
      /\ tasks'[Len(tasks) + 1] = x
      /\ \A i \in DOMAIN tasks' : i \in DOMAIN tasks \/ i = Len(tasks) + 1
  BY <1>1 DEF TypeOK
<1>3. /\ \A i \in DOMAIN tasks : tasks[i] # x
      /\ \A w \in Workers : cur[w] # x
      /\ future[x] = "pending"
  BY <1>1 DEF Submitted
<1>4. PlaceOK'
  <2>1. \A i, j \in DOMAIN tasks' : tasks'[i] = tasks'[j] => i = j
    BY <1>2, <1>3 DEF PlaceOK
  <2>2. \A i \in DOMAIN tasks' : /\ future'[tasks'[i]] = "pending"
                                 /\ \A v \in Workers : cur'[v] # tasks'[i]
    BY <1>2, <1>3 DEF PlaceOK
  <2>3. QED BY <2>1, <2>2 DEF PlaceOK
<1>5. \A y \in Tasks : Submitted(y)' => y = x \/ Submitted(y)
  BY <1>2 DEF Submitted
<1>6. \A u \in Threads, k \in Nat : Passed(u, k) => Passed(u, k)'
  BY DEF TypeOK, Passed
<1>7. \A f \in Tasks \cup {Owner}, k \in Nat : Made(f, k) => Made(f, k)'
  <2>1. pc'[Owner] \in {"spawn", "run", "push", "notify"}
          => pc[Owner] \in {"spawn", "run", "push", "notify"}
    BY DEF TypeOK, Threads
  <2>2. QED BY <1>6, <2>1 DEF Made, Threads
<1>8. PICK f0 \in Tasks \cup {Owner}, k0 \in Nat :
        /\ f0 = File(t) /\ k0 = ip[t] + 1
        /\ k0 \in 1 .. Len(Script[f0])
        /\ Script[f0][k0].op = "enqueue" /\ x = Script[f0][k0].task
  <2>1. File(t) \in Tasks \cup {Owner} /\ Code(t) = Script[File(t)] /\ ip[t] + 1 \in Nat
    BY FileType DEF TypeOK
  <2>2. QED BY <2>1 DEF CallOK, Arg
<1>9. Made(f0, k0)'
  <2>1. Passed(t, k0)'
    BY <1>8 DEF TypeOK, Passed
  <2>2. CASE t = Owner
    BY <1>8, <2>1, <2>2 DEF Made, File
  <2>3. CASE t # Owner
    BY <2>1, <2>3, <1>8, ThreadPoolAssumption, SMTT(30) DEF TypeOK, Made, File, Threads
  <2>4. QED BY <2>2, <2>3
<1>10. OriginOK'
  <2>. SUFFICES ASSUME NEW f \in Tasks \cup {Owner}, NEW k \in 1 .. Len(Script[f]),
                       Script[f][k].op = "enqueue", Submitted(Script[f][k].task)'
                PROVE  Made(f, k)'
    BY DEF OriginOK
  <2>1. PICK y \in Tasks : Script[f][k] = [op |-> "enqueue", task |-> y]
    BY ScriptType
  <2>2. k \in Nat
    BY ScriptType
  <2>3. CASE y = x
    <3>1. \E z \in Tasks : Script[f0][k0] = [op |-> "enqueue", task |-> z]
      BY <1>8, ScriptType
    <3>2. Script[f0][k0] = Script[f][k]
      BY <2>1, <2>3, <3>1, <1>8
    <3>3. f = f0 /\ k = k0
      BY <3>2, <1>8, ThreadPoolAssumption
    <3>4. QED BY <3>3, <1>9
  <2>4. CASE y # x
    <3>1. Submitted(Script[f][k].task)
      BY <2>1, <2>4, <1>5
    <3>2. QED BY <3>1, <2>2, <1>7 DEF OriginOK
  <2>5. QED BY <2>3, <2>4
<1>11. QED BY <1>4, <1>10

LEMMA PlaceInit == Init => PlaceOK /\ OriginOK
<1>. SUFFICES ASSUME Init PROVE PlaceOK /\ OriginOK
  OBVIOUS
<1>1. /\ DOMAIN tasks = {}
      /\ \A w \in Workers : cur[w] = NULL
      /\ \A x \in Tasks : future[x] = "pending"
  BY DEF Init
<1>2. PlaceOK
  BY <1>1 DEF PlaceOK
<1>3. \A x \in Tasks : ~Submitted(x)
  BY <1>1, ThreadPoolAssumption DEF Submitted
<1>4. OriginOK
  <2>. SUFFICES ASSUME NEW f \in Tasks \cup {Owner}, NEW k \in 1 .. Len(Script[f]),
                       Script[f][k].op = "enqueue"
                PROVE  ~Submitted(Script[f][k].task)
    BY DEF OriginOK
  <2>1. PICK x \in Tasks : Script[f][k] = [op |-> "enqueue", task |-> x]
    BY ScriptType
  <2>2. QED BY <2>1, <1>3
<1>5. QED BY <1>2, <1>4

LEMMA RunPlace ==
  ASSUME IInv, PlaceOK, OriginOK, NEW t \in Threads, Run(t)
  PROVE  PlaceOK' /\ OriginOK'
<1>. USE DEF IInv, Goto
<1>1. CASE Returned(t)
  BY <1>1, LeavePlace DEF Returned
<1>2. CASE Thrown(t)
  BY <1>2, LeavePlace DEF Thrown, AtCall, Unwind
<1>3. CASE GetException(t)
  BY <1>3, LeavePlace DEF GetException, AtCall, Unwind
<1>4. CASE Reject(t)
  BY <1>4, LeavePlace DEF Reject, Unwind
<1>5. CASE Push(t)
  BY <1>5, PushPlace
<1>6. CASE GetValue(t)
  <2>1. /\ UNCHANGED <<tasks, cur, future, pc>>
        /\ ip' = [ip EXCEPT ![t] = ip[t] + 1] /\ pc[t] = "run"
    BY <1>6 DEF GetValue, AtCall
  <2>2. \A u \in Threads : ip'[u] \in Nat /\ ip'[u] >= ip[u]
    BY <2>1 DEF TypeOK
  <2>3. QED BY <2>1, <2>2, PlaceQuiet
<1>7. CASE EnqueueLock(t)
  <2>1. /\ UNCHANGED <<tasks, cur, future, ip>>
        /\ pc' = [pc EXCEPT ![t] = "push"] /\ pc[t] = "run"
    BY <1>7 DEF EnqueueLock, AtCall
  <2>2. \A u \in Threads : ip'[u] \in Nat /\ ip'[u] >= ip[u]
    BY <2>1 DEF TypeOK
  <2>3. QED BY <2>1, <2>2, PlaceQuiet DEF TypeOK, Threads
<1>8. CASE NotifyOne(t)
  <2>1. /\ UNCHANGED <<tasks, cur, future>>
        /\ ip' = [ip EXCEPT ![t] = ip[t] + 1] /\ pc[t] = "notify"
    BY <1>8 DEF NotifyOne
  <2>2. PICK W \in SUBSET Workers : W \subseteq waiting /\ Wake(t, "run", W)
    BY <1>8 DEF NotifyOne, TypeOK
  <2>3. \A u \in Threads : ip'[u] \in Nat /\ ip'[u] >= ip[u] /\ ip'[t] = ip[t] + 1
    BY <2>1 DEF TypeOK
  <2>4. \A u \in Threads : u # t => pc'[u] = pc[u] \/ (u \in Workers /\ pc[u] = "wait" /\ pc'[u] = "lock")
    BY <2>2 DEF Wake, TypeOK
  <2>5. pc'[Owner] \in {"spawn", "run", "push", "notify"}
          => pc[Owner] \in {"spawn", "run", "push", "notify"}
    BY <2>1, <2>4, ThreadPoolAssumption DEF Threads
  <2>6. QED BY <2>1, <2>3, <2>4, <2>5, PlaceQuiet
<1>9. QED BY <1>1, <1>2, <1>3, <1>4, <1>5, <1>6, <1>7, <1>8 DEF Run

LEMMA PlaceStep == IInv /\ PlaceOK /\ OriginOK /\ [Next]_vars => PlaceOK' /\ OriginOK'
<1>. SUFFICES ASSUME IInv, PlaceOK, OriginOK, [Next]_vars PROVE PlaceOK' /\ OriginOK'
  OBVIOUS
<1>. USE DEF IInv, Goto
<1>0. \A u \in Threads : ip[u] \in Nat /\ ip[u] >= ip[u]
  BY DEF TypeOK
<1>1. ASSUME NEW w \in Workers,
             WorkerLock(w) \/ FindNothing(w) \/ Sleep(w) \/ Exit(w) \/ WakeSpuriously(w)
      PROVE  PlaceOK' /\ OriginOK'
  <2>1. UNCHANGED <<tasks, cur, future, ip>> /\ w \in Threads /\ w # Owner
    BY <1>1, ThreadPoolAssumption
    DEF WorkerLock, FindNothing, Sleep, Exit, WakeSpuriously, Threads
  <2>2. pc[w] # "notify" /\ \E label : pc' = [pc EXCEPT ![w] = label]
    BY <1>1 DEF WorkerLock, FindNothing, Sleep, Exit, WakeSpuriously, TypeOK
  <2>3. QED BY <1>0, <2>1, <2>2, PlaceQuiet DEF TypeOK, Threads
<1>2. ASSUME NEW w \in Workers, Take(w)
      PROVE  PlaceOK' /\ OriginOK'
  BY <1>2, TakePlace
<1>3. ASSUME NEW t \in Threads, Run(t)
      PROVE  PlaceOK' /\ OriginOK'
  BY <1>3, RunPlace
<1>4. CASE Spawn
  <2>1. PICK w \in Workers : pc[w] = "unborn" /\ pc' = [pc EXCEPT ![w] = "lock"]
    BY <1>4 DEF Spawn
  <2>2. UNCHANGED <<tasks, cur, future, ip>> /\ w \in Threads /\ w # Owner
    BY <1>4, ThreadPoolAssumption DEF Spawn, Threads
  <2>3. QED BY <1>0, <2>1, <2>2, PlaceQuiet DEF TypeOK, Threads
<1>5. CASE Constructed \/ StopLock \/ StopUnlock \/ Join
  <2>1. UNCHANGED <<tasks, cur, future, ip>> /\ Owner \in Threads
    BY <1>5 DEF Constructed, StopLock, StopUnlock, Join, Threads
  <2>2. \/ pc[Owner] = "spawn" /\ pc' = [pc EXCEPT ![Owner] = "run"]
        \/ \E label \in {"stop_unlock", "notify_all", "destroyed"} :
             pc[Owner] # "notify" /\ pc' = [pc EXCEPT ![Owner] = label]
    BY <1>5 DEF Constructed, StopLock, StopUnlock, Join
  <2>3. QED BY <1>0, <2>1, <2>2, PlaceQuiet DEF TypeOK
<1>6. CASE NotifyAll
  <2>1. UNCHANGED <<tasks, cur, future, ip>> /\ Owner \in Threads /\ pc[Owner] = "notify_all"
    BY <1>6 DEF NotifyAll, Threads
  <2>2. \A u \in Threads : IF u = Owner THEN pc'[u] = "join"
                           ELSE pc'[u] = pc[u] \/ (pc[u] = "wait" /\ pc'[u] = "lock")
    BY <1>6 DEF NotifyAll, Wake, TypeOK
  <2>3. QED BY <1>0, <2>1, <2>2, PlaceQuiet
<1>7. CASE UNCHANGED vars
  BY <1>0, <1>7, PlaceQuiet DEF vars
<1>8. QED BY <1>1, <1>2, <1>3, <1>4, <1>5, <1>6, <1>7
      DEF Next, Worker, OwnerStep, Destroyed, Threads

-----------------------------------------------------------------------------
\* The refinement of TaskQueue

\* What the tasks that are running, and those that are done, look like in the pool.
RunningTasks == {cur[w] : w \in Workers} \ {NULL}
DoneTasks    == {x \in Tasks : future[x] # "pending"}

LEMMA RefinementInit == Init => Abstract!Init
<1>. SUFFICES ASSUME Init PROVE Abstract!Init
  OBVIOUS
<1>1. RunningTasks = {} /\ DoneTasks = {}
  BY DEF Init, RunningTasks, DoneTasks
<1>2. pc[Owner] = "spawn"
  BY DEF Init, Threads
<1>3. QED BY <1>1, <1>2 DEF Init, Abstract!Init, RunningTasks, DoneTasks

LEMMA QueueStutter ==
  ASSUME UNCHANGED <<tasks, cur, future, stop>>,
         pc'[Owner] = "destroyed" <=> pc[Owner] = "destroyed"
  PROVE  UNCHANGED Abstract!vars
BY DEF Abstract!vars

LEMMA TakeRefines ==
  ASSUME TypeOK, NEW w \in Workers, Take(w)
  PROVE  Abstract!Start
<1>. USE DEF Take, Goto
<1>1. cur[w] = NULL /\ w \in Threads /\ w # Owner
  BY ThreadPoolAssumption DEF TypeOK, Threads
<1>2. Head(tasks) \in Tasks /\ Head(tasks) # NULL
  BY ThreadPoolAssumption DEF TypeOK
<1>3. \A v \in Workers : cur'[v] = IF v = w THEN Head(tasks) ELSE cur[v]
  BY DEF TypeOK
<1>4. \A x : x \in RunningTasks' <=> x = Head(tasks) \/ x \in RunningTasks
  BY <1>1, <1>2, <1>3 DEF RunningTasks
<1>5. RunningTasks' = RunningTasks \cup {Head(tasks)}
  BY <1>4
<1>6. pc'[Owner] = pc[Owner]
  BY <1>1 DEF TypeOK
<1>7. QED BY <1>5, <1>6 DEF Abstract!Start, RunningTasks

\* The end of a task is Finish; that of the owner's script changes nothing.
LEMMA LeaveRefines ==
  ASSUME TypeOK, PlaceOK, NEW t \in Threads, NEW result \in {"value", "exception"},
         UNCHANGED <<tasks, stop>>, pc[t] \in {"run", "push"},
         IF t = Owner THEN Goto(t, "stop") /\ UNCHANGED <<cur, future>>
                      ELSE EndTask(t, result)
  PROVE  [Abstract!Next]_(Abstract!vars)
<1>. USE DEF EndTask, Goto
<1>1. CASE t = Owner
  <2>1. pc'[Owner] = "stop" /\ pc[Owner] # "destroyed"
    BY <1>1 DEF TypeOK
  <2>2. QED BY <1>1, <2>1, QueueStutter
<1>2. CASE t # Owner
  <2>1. t \in Workers /\ cur[t] \in Tasks /\ cur[t] # NULL
    BY <1>2, ThreadPoolAssumption DEF TypeOK, Threads
  <2>2. \A v \in Workers : cur'[v] = IF v = t THEN NULL ELSE cur[v]
    BY <1>2 DEF TypeOK
  <2>3. \A x \in Tasks : future'[x] = IF x = cur[t] THEN result ELSE future[x]
    BY <1>2 DEF TypeOK
  <2>4. \A v \in Workers : cur[v] = cur[t] => v = t
    BY <2>1 DEF PlaceOK
  <2>5. \A x : x \in RunningTasks' <=> x # cur[t] /\ x \in RunningTasks
    BY <2>1, <2>2, <2>4 DEF RunningTasks
  <2>6. \A x : x \in DoneTasks' <=> x = cur[t] \/ x \in DoneTasks
    BY <2>1, <2>3 DEF DoneTasks
  <2>7. RunningTasks' = RunningTasks \ {cur[t]} /\ DoneTasks' = DoneTasks \cup {cur[t]}
    BY <2>5, <2>6
  <2>8. cur[t] \in RunningTasks
    BY <2>1 DEF RunningTasks
  <2>9. pc'[Owner] = pc[Owner]
    BY <1>2 DEF TypeOK, Threads
  <2>10. PICK x \in Tasks : x = cur[t]
    BY <2>1
  <2>11. Abstract!Finish(x)
    BY <2>7, <2>8, <2>9, <2>10 DEF Abstract!Finish, RunningTasks, DoneTasks
  <2>12. QED BY <2>11 DEF Abstract!Next
<1>3. QED BY <1>1, <1>2

LEMMA PushRefines ==
  ASSUME TypeOK, CallOK, PlaceOK, OriginOK, NEW t \in Threads, Push(t)
  PROVE  Abstract!Next
<1>. USE DEF Push, Goto
<1>1. Arg(t) \in Tasks /\ ~Submitted(Arg(t))
  BY ArgType, NotSubmitted
<1>2. Arg(t) \notin RunningTasks /\ Arg(t) \notin DoneTasks
  BY <1>1 DEF Submitted, RunningTasks, DoneTasks
<1>3. Arg(t) \notin {tasks[i] : i \in DOMAIN tasks}
  BY <1>1 DEF Submitted
<1>4. pc'[Owner] = "destroyed" <=> pc[Owner] = "destroyed"
  BY DEF TypeOK, Threads
<1>5. Abstract!Submit(Arg(t))
  BY <1>2, <1>3, <1>4 DEF Abstract!Submit, Abstract!ToSet, RunningTasks, DoneTasks
<1>6. QED BY <1>1, <1>5 DEF Abstract!Next

LEMMA RunRefines ==
  ASSUME IInv, PlaceOK, OriginOK, NEW t \in Threads, Run(t)
  PROVE  [Abstract!Next]_(Abstract!vars)
<1>. USE DEF IInv, Goto
<1>1. CASE Returned(t)
  BY <1>1, LeaveRefines DEF Returned
<1>2. CASE Thrown(t)
  BY <1>2, LeaveRefines DEF Thrown, AtCall, Unwind
<1>3. CASE GetException(t)
  BY <1>3, LeaveRefines DEF GetException, AtCall, Unwind
<1>4. CASE Reject(t)
  BY <1>4, LeaveRefines DEF Reject, Unwind
<1>5. CASE Push(t)
  BY <1>5, PushRefines
<1>6. CASE GetValue(t)
  BY <1>6, QueueStutter DEF GetValue
<1>7. CASE EnqueueLock(t)
  <2>1. pc'[Owner] = "destroyed" <=> pc[Owner] = "destroyed"
    BY <1>7 DEF EnqueueLock, AtCall, TypeOK, Threads
  <2>2. QED BY <1>7, <2>1, QueueStutter DEF EnqueueLock
<1>8. CASE NotifyOne(t)
  <2>1. PICK W \in SUBSET Workers : Wake(t, "run", W)
    BY <1>8 DEF NotifyOne, TypeOK
  <2>2. pc'[Owner] = "destroyed" <=> pc[Owner] = "destroyed"
    BY <1>8, <2>1, ThreadPoolAssumption DEF NotifyOne, Wake, TypeOK, Threads
  <2>3. QED BY <1>8, <2>2, QueueStutter DEF NotifyOne
<1>9. QED BY <1>1, <1>2, <1>3, <1>4, <1>5, <1>6, <1>7, <1>8 DEF Run

\* join() returns when every worker has left: nothing is queued, nothing runs.
LEMMA JoinRefines ==
  ASSUME IInv, Join
  PROVE  Abstract!Destroy
<1>. USE DEF IInv, Join, Goto
<1>1. PICK w \in Workers : pc[w] = "exited"
  BY ThreadPoolAssumption
<1>2. stop /\ tasks = <<>>
  BY <1>1 DEF StopOK
<1>3. \A v \in Workers : cur[v] = NULL
  BY DEF TypeOK
<1>4. RunningTasks = {}
  BY <1>3 DEF RunningTasks
<1>5. pc[Owner] # "destroyed" /\ pc'[Owner] = "destroyed"
  BY DEF TypeOK, Threads
<1>6. QED BY <1>2, <1>4, <1>5 DEF Abstract!Destroy, RunningTasks

\* Every step of the pool is a step of the task queue, or none.
LEMMA RefinementStep ==
  IInv /\ PlaceOK /\ OriginOK /\ [Next]_vars => [Abstract!Next]_(Abstract!vars)
<1>. SUFFICES ASSUME IInv, PlaceOK, OriginOK, [Next]_vars
              PROVE  [Abstract!Next]_(Abstract!vars)
  OBVIOUS
<1>. USE DEF IInv, Goto
<1>1. ASSUME NEW w \in Workers,
             WorkerLock(w) \/ FindNothing(w) \/ Sleep(w) \/ Exit(w) \/ WakeSpuriously(w)
      PROVE  UNCHANGED Abstract!vars
  <2>1. UNCHANGED <<tasks, cur, future, stop>> /\ w # Owner
    BY <1>1, ThreadPoolAssumption
    DEF WorkerLock, FindNothing, Sleep, Exit, WakeSpuriously, Threads
  <2>2. \E label : pc' = [pc EXCEPT ![w] = label]
    BY <1>1 DEF WorkerLock, FindNothing, Sleep, Exit, WakeSpuriously
  <2>3. QED BY <2>1, <2>2, QueueStutter DEF TypeOK
<1>2. ASSUME NEW w \in Workers, Take(w)
      PROVE  Abstract!Start
  BY <1>2, TakeRefines
<1>3. ASSUME NEW t \in Threads, Run(t)
      PROVE  [Abstract!Next]_(Abstract!vars)
  BY <1>3, RunRefines
<1>4. CASE Spawn
  <2>1. pc'[Owner] = pc[Owner]
    BY <1>4, ThreadPoolAssumption DEF Spawn, TypeOK, Threads
  <2>2. QED BY <1>4, <2>1, QueueStutter DEF Spawn
<1>5. CASE Constructed \/ StopUnlock \/ NotifyAll
  <2>1. pc'[Owner] # "destroyed" /\ pc[Owner] # "destroyed"
    BY <1>5 DEF Constructed, StopUnlock, NotifyAll, Wake, TypeOK, Threads
  <2>2. QED BY <1>5, <2>1, QueueStutter DEF Constructed, StopUnlock, NotifyAll
<1>6. CASE StopLock
  <2>1. ~stop /\ pc'[Owner] # "destroyed" /\ pc[Owner] # "destroyed"
    BY <1>6 DEF StopLock, StopOK, TypeOK, Threads
  <2>2. Abstract!Close
    BY <1>6, <2>1 DEF StopLock, Abstract!Close
  <2>3. QED BY <2>2 DEF Abstract!Next
<1>7. CASE Join
  BY <1>7, JoinRefines DEF Abstract!Next
<1>8. CASE UNCHANGED vars
  BY <1>8, QueueStutter DEF vars
<1>9. QED BY <1>1, <1>2, <1>3, <1>4, <1>5, <1>6, <1>7, <1>8
      DEF Next, Worker, OwnerStep, Destroyed, Threads, Abstract!Next

\* A task stays in one place and is submitted by its own call alone.
THEOREM OnePlaceEach == Spec => [](PlaceOK /\ OriginOK)
<1>1. Init => PlaceOK /\ OriginOK
  BY PlaceInit
<1>2. IInv /\ (PlaceOK /\ OriginOK) /\ [Next]_vars => (PlaceOK /\ OriginOK)'
  BY PlaceStep
<1>3. QED BY <1>1, <1>2, Invariance, PTL DEF Spec

\* The pool is a task queue: what it accepts it starts in order, each task once,
\* and it is not gone before all of it is finished.
THEOREM ImplementsTaskQueue == Spec => RefinesTaskQueue
<1>1. Init => Abstract!Init
  BY RefinementInit
<1>2. IInv /\ (PlaceOK /\ OriginOK) /\ [Next]_vars => [Abstract!Next]_(Abstract!vars)
  BY RefinementStep
<1>3. QED BY <1>1, <1>2, Invariance, OnePlaceEach, PTL DEF Spec, RefinesTaskQueue, Abstract!Spec
=============================================================================
