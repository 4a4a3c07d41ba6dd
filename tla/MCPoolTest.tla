----------------------------- MODULE MCPoolTest -----------------------------
(* Instances of PoolTest: the workers write their own names into objects.   *)
EXTENDS PoolTest

CONSTANTS w1, w2

MCWorkers == {w1, w2}
MCThreads == {w1, w2, Main}

\* w1 may be suspended for ever, at any point: nothing is assumed of it.
SleeperSpec == Spec /\ Fairness(Threads \ {w1})

\* Wherever w1 is suspended, even inside a call, w2 still finishes its calls if
\* the platform supports the lock-free pool.
W2Finishes == OthersFinish(w1)

\* If w1 is not suspended for ever after all, the whole program ends, with either
\* pool: no retry loop and no mutex keeps a worker or main() from finishing.
EndsUnlessAsleep == Fairness({w1}) => Termination
=============================================================================
