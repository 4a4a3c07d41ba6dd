------------------------------ MODULE TaskQueue ------------------------------
(***************************************************************************)
(* What ThreadPool of thread_pool.cpp promises those who submit tasks,     *)
(* without threads, locks or condition variables: tasks are started in the *)
(* order of their submission, each one once; after the pool has been told  *)
(* to stop it accepts no more, but it finishes everything it has accepted  *)
(* before it is gone.  ThreadPool is shown to implement this module.       *)
(***************************************************************************)
EXTENDS Sequences, SequencesExt

CONSTANT Tasks

VARIABLES
  queue,    \* the accepted tasks that wait for a worker, oldest first
  running,  \* the tasks a worker is executing
  done,     \* the tasks whose futures are ready
  closed,   \* whether the pool has been told to stop
  gone      \* whether the pool has been destroyed

vars == <<queue, running, done, closed, gone>>

Init ==
  /\ queue = <<>>
  /\ running = {}
  /\ done = {}
  /\ closed = FALSE
  /\ gone = FALSE

Submit(x) ==
  /\ ~closed
  /\ x \notin ToSet(queue) \cup running \cup done
  /\ queue' = Append(queue, x)
  /\ UNCHANGED <<running, done, closed, gone>>

Start ==
  /\ queue # <<>>
  /\ running' = running \cup {Head(queue)}
  /\ queue' = Tail(queue)
  /\ UNCHANGED <<done, closed, gone>>

Finish(x) ==
  /\ x \in running
  /\ running' = running \ {x}
  /\ done' = done \cup {x}
  /\ UNCHANGED <<queue, closed, gone>>

Close ==
  /\ ~closed
  /\ closed' = TRUE
  /\ UNCHANGED <<queue, running, done, gone>>

Destroy ==
  /\ closed /\ ~gone
  /\ queue = <<>> /\ running = {}
  /\ gone' = TRUE
  /\ UNCHANGED <<queue, running, done, closed>>

Next == (\E x \in Tasks : Submit(x) \/ Finish(x)) \/ Start \/ Close \/ Destroy

Spec == Init /\ [][Next]_vars
=============================================================================
