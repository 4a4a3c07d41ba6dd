----------------------------- MODULE ThreadPool -----------------------------
(***************************************************************************)
(* ThreadPool of thread_pool.cpp: a fixed number of worker threads take    *)
(* tasks from one queue, under queue_mutex, and sleep on a condition       *)
(* variable while it is empty.  The owner creates the pool, uses it and    *)
(* destroys it.                                                            *)
(*                                                                         *)
(* What the owner does before it destroys the pool, and what the body of   *)
(* each task does, is a script: a sequence of calls of enqueue(), of       *)
(* future.get(), and of throws.  So tasks may submit tasks, wait for one   *)
(* another, and do both while the pool is being destroyed.  Nobody else    *)
(* calls the pool: a call that outlives it would be the caller's error.    *)
(*                                                                         *)
(* An action is a critical section, or a step outside of one that other    *)
(* threads can see.  wait() evaluates its predicate first, and then        *)
(* releases the mutex and goes to sleep in one step; a sleeper that has    *)
(* been woken up must take the mutex again.                                *)
(***************************************************************************)
EXTENDS Naturals, Sequences, FiniteSets

CONSTANTS
  Workers,     \* the worker threads
  Owner,       \* the thread that owns the pool
  Tasks,       \* the tasks that may be submitted
  Script,      \* Script[f]: what the owner, or the body of task f, does
  NULL,        \* the owner of a mutex nobody has locked; no task
  MaxSpurious  \* bound on the number of spurious wakeups

Threads == Workers \cup {Owner}

\* The calls a script is made of.
Enqueue(x) == [op |-> "enqueue", task |-> x]
Get(x)     == [op |-> "get", task |-> x]
Throw      == [op |-> "throw", task |-> NULL]

Calls == {Enqueue(x) : x \in Tasks} \cup {Get(x) : x \in Tasks} \cup {Throw}

\* Every call of enqueue() makes a task of its own.
ASSUME ThreadPoolAssumption ==
  /\ IsFiniteSet(Workers) /\ Workers # {}
  /\ Owner \notin Workers \cup Tasks
  /\ NULL \notin Threads \cup Tasks
  /\ MaxSpurious \in Nat
  /\ Script \in [Tasks \cup {Owner} -> Seq(Calls)]
  /\ \A f, g \in Tasks \cup {Owner} : \A i \in 1 .. Len(Script[f]), j \in 1 .. Len(Script[g]) :
       Script[f][i].op = "enqueue" /\ Script[f][i] = Script[g][j] => f = g /\ i = j

VARIABLES
  mutex,     \* the thread that has locked queue_mutex, or NULL
  tasks,     \* the queue
  stop,      \* stop
  waiting,   \* the workers asleep in condition.wait()
  pc,        \* pc[t]: where thread t is
  cur,       \* cur[w]: the task worker w has taken from the queue
  ip,        \* ip[t]: the number of calls of its script t has made
  future,    \* future[x]: the state shared by task x and its future
  spurious   \* the number of spurious wakeups so far

vars == <<mutex, tasks, stop, waiting, pc, cur, ip, future, spurious>>

Init ==
  /\ mutex = NULL
  /\ tasks = <<>>
  /\ stop = FALSE
  /\ waiting = {}
  /\ pc = [t \in Threads |-> IF t = Owner THEN "spawn" ELSE "unborn"]
  /\ cur = [w \in Workers |-> NULL]
  /\ ip = [t \in Threads |-> 0]
  /\ future = [x \in Tasks |-> "pending"]
  /\ spurious = 0

Goto(t, label) == pc' = [pc EXCEPT ![t] = label]

Lock(t) == mutex = NULL /\ mutex' = t
Unlock  == mutex' = NULL

\* The script thread t is executing, and whether a call of kind op comes next.
Code(t) == Script[IF t = Owner THEN Owner ELSE cur[t]]
AtCall(t, op) == pc[t] = "run" /\ ip[t] < Len(Code(t)) /\ Code(t)[ip[t] + 1].op = op
Arg(t) == Code(t)[ip[t] + 1].task

-----------------------------------------------------------------------------
\* worker_thread()

WorkerLock(w) ==
  /\ pc[w] = "lock"
  /\ Lock(w)
  /\ Goto(w, "check")
  /\ UNCHANGED <<tasks, stop, waiting, cur, ip, future, spurious>>

\* condition.wait(): the predicate does not hold ...
FindNothing(w) ==
  /\ pc[w] = "check"
  /\ ~stop /\ tasks = <<>>
  /\ Goto(w, "sleep")
  /\ UNCHANGED <<mutex, tasks, stop, waiting, cur, ip, future, spurious>>

\* ... and so the worker unlocks and falls asleep, in one step.
Sleep(w) ==
  /\ pc[w] = "sleep"
  /\ Unlock
  /\ waiting' = waiting \cup {w}
  /\ Goto(w, "wait")
  /\ UNCHANGED <<tasks, stop, cur, ip, future, spurious>>

WakeSpuriously(w) ==
  /\ w \in waiting
  /\ spurious < MaxSpurious
  /\ spurious' = spurious + 1
  /\ waiting' = waiting \ {w}
  /\ Goto(w, "lock")
  /\ UNCHANGED <<mutex, tasks, stop, cur, ip, future>>

\* Not looking at the queue before leaving.
ExitSlip(w) ==
  /\ pc[w] = "check"
  /\ stop
  /\ Unlock
  /\ Goto(w, "exited")
  /\ UNCHANGED <<tasks, stop, waiting, cur, ip, future, spurious>>

Exit(w) ==
  /\ pc[w] = "check"
  /\ stop /\ tasks = <<>>
  /\ Unlock
  /\ Goto(w, "exited")
  /\ UNCHANGED <<tasks, stop, waiting, cur, ip, future, spurious>>

\* Taking the front of the queue without having seen that there is one.
TakeBlindSlip(w) ==
  /\ pc[w] = "check"
  /\ cur' = [cur EXCEPT ![w] = IF tasks = <<>> THEN NULL ELSE Head(tasks)]
  /\ ip' = [ip EXCEPT ![w] = 0]
  /\ tasks' = IF tasks = <<>> THEN <<>> ELSE Tail(tasks)
  /\ Unlock
  /\ Goto(w, "run")
  /\ UNCHANGED <<stop, waiting, future, spurious>>

\* Copying the task without popping it.
TakeSlip(w) ==
  /\ pc[w] = "check"
  /\ tasks # <<>>
  /\ cur' = [cur EXCEPT ![w] = Head(tasks)]
  /\ ip' = [ip EXCEPT ![w] = 0]
  /\ Unlock
  /\ Goto(w, "run")
  /\ UNCHANGED <<tasks, stop, waiting, future, spurious>>

Take(w) ==
  /\ pc[w] = "check"
  /\ tasks # <<>>
  /\ cur' = [cur EXCEPT ![w] = Head(tasks)]
  /\ ip' = [ip EXCEPT ![w] = 0]
  /\ tasks' = Tail(tasks)
  /\ Unlock
  /\ Goto(w, "run")
  /\ UNCHANGED <<stop, waiting, future, spurious>>

\* The task is over: its future gets the result, or the exception.
EndTask(w, result) ==
  /\ future' = [future EXCEPT ![cur[w]] = result]
  /\ cur' = [cur EXCEPT ![w] = NULL]
  /\ Goto(w, "lock")

-----------------------------------------------------------------------------
\* The scripts, and enqueue()

\* An exception ends a task; in the owner it unwinds to the pool's destructor.
Unwind(t) ==
  IF t = Owner
  THEN Goto(t, "stop") /\ UNCHANGED <<cur, future>>
  ELSE EndTask(t, "exception")

Returned(t) ==
  /\ pc[t] = "run" /\ ip[t] = Len(Code(t))
  /\ IF t = Owner
     THEN Goto(t, "stop") /\ UNCHANGED <<cur, future>>
     ELSE EndTask(t, "value")
  /\ UNCHANGED <<mutex, tasks, stop, waiting, ip, spurious>>

Thrown(t) ==
  /\ AtCall(t, "throw")
  /\ Unwind(t)
  /\ UNCHANGED <<mutex, tasks, stop, waiting, ip, spurious>>

\* get() blocks until the future is ready ...
GetValue(t) ==
  /\ AtCall(t, "get")
  /\ future[Arg(t)] = "value"
  /\ ip' = [ip EXCEPT ![t] = @ + 1]
  /\ UNCHANGED <<mutex, tasks, stop, waiting, pc, cur, future, spurious>>

\* ... and rethrows what the task has thrown.
GetException(t) ==
  /\ AtCall(t, "get")
  /\ future[Arg(t)] = "exception"
  /\ Unwind(t)
  /\ UNCHANGED <<mutex, tasks, stop, waiting, ip, spurious>>

EnqueueLock(t) ==
  /\ AtCall(t, "enqueue")
  /\ Lock(t)
  /\ Goto(t, "push")
  /\ UNCHANGED <<tasks, stop, waiting, cur, ip, future, spurious>>

\* "enqueue on stopped ThreadPool"
Reject(t) ==
  /\ pc[t] = "push"
  /\ stop
  /\ Unlock
  /\ Unwind(t)
  /\ UNCHANGED <<tasks, stop, waiting, ip, spurious>>

Push(t) ==
  /\ pc[t] = "push"
  /\ ~stop
  /\ tasks' = Append(tasks, Arg(t))
  /\ Unlock
  /\ Goto(t, "notify")
  /\ UNCHANGED <<stop, waiting, cur, ip, future, spurious>>

\* The workers of W are woken up and t goes on at label.
Wake(t, label, W) ==
  /\ waiting' = waiting \ W
  /\ pc' = [u \in Threads |-> IF u = t THEN label ELSE IF u \in W THEN "lock" ELSE pc[u]]

\* Waking a worker only for the first task in the queue.
NotifyOneSlip(t) ==
  /\ pc[t] = "notify"
  /\ IF waiting = {} \/ Len(tasks) > 1 THEN Wake(t, "run", {}) ELSE \E w \in waiting : Wake(t, "run", {w})
  /\ ip' = [ip EXCEPT ![t] = @ + 1]
  /\ UNCHANGED <<mutex, tasks, stop, cur, future, spurious>>

\* notify_one(), after the mutex is released.
NotifyOne(t) ==
  /\ pc[t] = "notify"
  /\ IF waiting = {} THEN Wake(t, "run", {}) ELSE \E w \in waiting : Wake(t, "run", {w})
  /\ ip' = [ip EXCEPT ![t] = @ + 1]
  /\ UNCHANGED <<mutex, tasks, stop, cur, future, spurious>>

Run(t) ==
  \/ Returned(t) \/ Thrown(t) \/ GetValue(t) \/ GetException(t)
  \/ EnqueueLock(t) \/ Reject(t) \/ Push(t) \/ NotifyOne(t)

-----------------------------------------------------------------------------
\* The constructor and the destructor, in the owner

\* The workers created so far run while the others are being created.
Spawn ==
  /\ pc[Owner] = "spawn"
  /\ \E w \in Workers :
       /\ pc[w] = "unborn"
       /\ Goto(w, "lock")
  /\ UNCHANGED <<mutex, tasks, stop, waiting, cur, ip, future, spurious>>

Constructed ==
  /\ pc[Owner] = "spawn"
  /\ \A w \in Workers : pc[w] # "unborn"
  /\ Goto(Owner, "run")
  /\ UNCHANGED <<mutex, tasks, stop, waiting, cur, ip, future, spurious>>

\* Setting stop without the mutex.
StopLockSlip ==
  /\ pc[Owner] = "stop"
  /\ stop' = TRUE
  /\ Goto(Owner, "notify_all")
  /\ UNCHANGED <<mutex, tasks, waiting, cur, ip, future, spurious>>

StopLock ==
  /\ pc[Owner] = "stop"
  /\ Lock(Owner)
  /\ stop' = TRUE
  /\ Goto(Owner, "stop_unlock")
  /\ UNCHANGED <<tasks, waiting, cur, ip, future, spurious>>

StopUnlock ==
  /\ pc[Owner] = "stop_unlock"
  /\ Unlock
  /\ Goto(Owner, "notify_all")
  /\ UNCHANGED <<tasks, stop, waiting, cur, ip, future, spurious>>

\* Waking one worker instead of all.
NotifyAllSlip ==
  /\ pc[Owner] = "notify_all"
  /\ IF waiting = {} THEN Wake(Owner, "join", {}) ELSE \E w \in waiting : Wake(Owner, "join", {w})
  /\ UNCHANGED <<mutex, tasks, stop, cur, ip, future, spurious>>

NotifyAll ==
  /\ pc[Owner] = "notify_all"
  /\ Wake(Owner, "join", waiting)
  /\ UNCHANGED <<mutex, tasks, stop, cur, ip, future, spurious>>

Join ==
  /\ pc[Owner] = "join"
  /\ \A w \in Workers : pc[w] = "exited"
  /\ Goto(Owner, "destroyed")
  /\ UNCHANGED <<mutex, tasks, stop, waiting, cur, ip, future, spurious>>

-----------------------------------------------------------------------------
Worker(w) ==
  WorkerLock(w) \/ FindNothing(w) \/ Sleep(w) \/ Exit(w) \/ Take(w) \/ Run(w)

OwnerStep == Spawn \/ Constructed \/ Run(Owner) \/ StopLock \/ StopUnlock \/ NotifyAll \/ Join

Destroyed == pc[Owner] = "destroyed" /\ UNCHANGED vars

Next ==
  \/ \E w \in Workers : Worker(w) \/ WakeSpuriously(w)
  \/ OwnerStep
  \/ Destroyed

Spec == Init /\ [][Next]_vars

\* No thread stops for ever while it can go on.
FairSpec == Spec /\ (\A w \in Workers : WF_vars(Worker(w))) /\ WF_vars(OwnerStep)

-----------------------------------------------------------------------------
\* Properties

\* The shape of the state.  Two conjuncts tie variables together: a thread has
\* locked the mutex exactly while it is in a critical section, and a worker has
\* a task exactly while it executes one.
TypeOK ==
  /\ mutex \in Threads \cup {NULL}
  /\ \A t \in Threads : mutex = t <=> pc[t] \in {"check", "sleep", "push", "stop_unlock"}
  /\ \A w \in Workers : cur[w] # NULL <=> pc[w] \in {"run", "push", "notify"}
  /\ tasks \in Seq(Tasks)
  /\ stop \in BOOLEAN
  /\ waiting = {w \in Workers : pc[w] = "wait"}
  /\ pc \in [Threads -> {"spawn", "unborn", "lock", "check", "sleep", "wait", "run", "push",
                         "notify", "exited", "stop", "stop_unlock", "notify_all", "join", "destroyed"}]
  /\ cur \in [Workers -> Tasks \cup {NULL}]
  /\ ip \in [Threads -> Nat]
  /\ future \in [Tasks -> {"pending", "value", "exception"}]
  /\ spurious \in 0 .. MaxSpurious

\* The workers that are about to look into the queue, and the threads whose
\* notify_one() is still to come.
Looking   == {w \in Workers : pc[w] \in {"lock", "check"}}
Notifying == {t \in Threads : pc[t] = "notify"}

\* No wakeup is lost: while a worker is asleep there are at least as many
\* workers on their way to the queue, and notify_one() calls still to come, as
\* there are tasks in it; a task never waits for a worker that runs a task
\* while another worker sleeps.
EveryTaskHasAWaker ==
  waiting # {} => Len(tasks) <= Cardinality(Looking) + Cardinality(Notifying)

\* Once the pool has been told to stop nobody stays asleep but to be woken up by
\* the notify_all() still to come.
NobodySleepsThroughStop ==
  stop /\ waiting # {} => pc[Owner] \in {"stop_unlock", "notify_all"}

\* A worker that leaves leaves nothing behind: from then on, although others may
\* still be running tasks that submit tasks, the queue stays empty.
NothingLeftBehind == (\E w \in Workers : pc[w] = "exited") => tasks = <<>>

\* The pool implements TaskQueue.
Abstract == INSTANCE TaskQueue WITH
  queue   <- tasks,
  running <- {cur[w] : w \in Workers} \ {NULL},
  done    <- {x \in Tasks : future[x] # "pending"},
  closed  <- stop,
  gone    <- pc[Owner] = "destroyed"

RefinesTaskQueue == Abstract!Spec

\* The pool is destroyed in the end, whoever sleeps, runs or throws when that
\* begins, and whichever task waits for another.
Termination == <>(pc[Owner] = "destroyed")

-----------------------------------------------------------------------------
\* The inductive invariant of ThreadPoolProofs

\* A thread inside enqueue() is executing a call of enqueue() in its script.
CallOK ==
  \A t \in Threads : pc[t] \in {"push", "notify"} =>
    /\ ip[t] + 1 \in 1 .. Len(Code(t))
    /\ Code(t)[ip[t] + 1].op = "enqueue"

\* stop is set by the owner in the destructor.  What a worker has seen of stop
\* and of the queue when it decides to sleep, or to leave, is still so.
StopOK ==
  /\ stop <=> pc[Owner] \in {"stop_unlock", "notify_all", "join", "destroyed"}
  /\ \A w \in Workers : pc[w] = "sleep" => ~stop /\ tasks = <<>>
  /\ \A w \in Workers : pc[w] = "exited" => stop /\ tasks = <<>>

\* What holds in every state and is kept by every step.
IInv == TypeOK /\ CallOK /\ StopOK /\ EveryTaskHasAWaker /\ NobodySleepsThroughStop

\* A task is in one place: once in the queue, with one worker, or done.
PlaceOK ==
  /\ \A i, j \in DOMAIN tasks : tasks[i] = tasks[j] => i = j
  /\ \A i \in DOMAIN tasks : /\ future[tasks[i]] = "pending"
                             /\ \A w \in Workers : cur[w] # tasks[i]
  /\ \A w \in Workers : cur[w] # NULL => future[cur[w]] = "pending"
  /\ \A v, w \in Workers : cur[v] = cur[w] /\ cur[v] # NULL => v = w

Submitted(x) ==
  \/ \E i \in DOMAIN tasks : tasks[i] = x
  \/ \E w \in Workers : cur[w] = x
  \/ future[x] # "pending"

\* Thread t has made the k-th call of its script as far as the queue is concerned.
Passed(t, k) == ip[t] >= k \/ (ip[t] + 1 = k /\ pc[t] = "notify")

\* Whoever was to make the k-th call of script f has made it, or is gone.
Made(f, k) ==
  \/ f = Owner /\ (pc[Owner] \notin {"spawn", "run", "push", "notify"} \/ Passed(Owner, k))
  \/ f # Owner /\ (future[f] # "pending" \/ \E w \in Workers : cur[w] = f /\ Passed(w, k))

\* A task has been submitted only by the one call that submits it.
OriginOK ==
  \A f \in Tasks \cup {Owner} : \A k \in 1 .. Len(Script[f]) :
    Script[f][k].op = "enqueue" /\ Submitted(Script[f][k].task) => Made(f, k)
=============================================================================
