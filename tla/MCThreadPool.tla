---------------------------- MODULE MCThreadPool ----------------------------
(* An instance of ThreadPool.  The owner is main() of thread_pool.cpp, which   *)
(* submits four tasks and waits for two of them.  The tasks of main() only     *)
(* compute and print; here one submits another and waits for it, and one       *)
(* submits another and throws, which takes the owner into the destructor by    *)
(* an exception while all that goes on.                                        *)
EXTENDS ThreadPool

CONSTANTS a, b, c, d, e, f

MCTasks == {a, b, c, d, e, f}

Main == <<Enqueue(a), Enqueue(b), Enqueue(c), Enqueue(d), Get(a), Get(b)>>

MCScript ==
  [x \in MCTasks \cup {Owner} |->
     CASE x = Owner -> Main
       [] x = b     -> <<Enqueue(e), Throw>>
       [] x = c     -> <<Enqueue(f), Get(f)>>
       [] OTHER     -> <<>>]
=============================================================================
