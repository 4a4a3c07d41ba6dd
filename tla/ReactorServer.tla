--------------------------- MODULE ReactorServer ---------------------------
(***************************************************************************)
(* The server of http_server_multithread.cpp.  The main thread runs an     *)
(* io_context that accepts connections and deals them out, in turn, to     *)
(* io_contexts run by worker threads; these are kept running by work       *)
(* guards until stop() is called.  main() never calls it; the model lets   *)
(* some other thread do so, at any time.                                   *)
(***************************************************************************)
EXTENDS HttpConnection

VARIABLES
  nextWorker, \* next_worker_
  guards,     \* the workers whose work guard is there
  stopStep    \* how far stop() has come

reactorVars == <<nextWorker, guards, stopStep>>
vars == <<httpVars, reactorVars>>

Api == {"/api/time", "/api/threads", "/api/compute"}

\* Always the same worker.
NextWorkerSlip(w) == w

NextWorker(w) == (w + 1) % ThreadCount

\* No work guards.
InitialGuardsSlip == {}

InitialGuards == Workers

\* The constructor calls do_accept() for the first time.
Init ==
  /\ HttpInit(0)
  /\ nextWorker = NextWorker(0)
  /\ guards = InitialGuards
  /\ stopStep = 0

-----------------------------------------------------------------------------
\* HttpServer

\* Not accepting again after an accept that failed.
DoAcceptSlip ==
  IF Result(Main) = "ok"
  THEN target' = nextWorker /\ nextWorker' = NextWorker(nextWorker)
  ELSE UNCHANGED <<target, nextWorker>>

DoAccept ==
  /\ target' = nextWorker
  /\ nextWorker' = NextWorker(nextWorker)

\* Posting to whichever worker is next.
PostSlip(k) == queue' = [queue EXCEPT ![Main] = Tail(@), ![nextWorker] = Append(@, Handler("start", k, "ok"))]

\* The start of a new connection is posted to its worker.
Post(k) == queue' = [queue EXCEPT ![Main] = Tail(@), ![home[k]] = Append(@, Handler("start", k, "ok"))]

AcceptHandler ==
  /\ Turn(Main, "accept")
  /\ IF Result(Main) = "ok" THEN Post(Conn(Main))
                            ELSE queue' = [queue EXCEPT ![Main] = Tail(@)]
  /\ DoAccept
  /\ UNCHANGED <<status, stopped, failed, clientVars, guards, stopStep>>

StartHandler(w) ==
  /\ Turn(w, "start")
  /\ Start(Conn(w))
  /\ queue' = [queue EXCEPT ![w] = Tail(@)]
  /\ UNCHANGED <<status, stopped, target, failed, sock, home, wire, got, reactorVars>>

Connection(w) ==
  /\ ConnectionHandler(w, Api)
  /\ stopped' = IF w \notin guards /\ OutOfWork(w)' THEN stopped \cup {w} ELSE stopped
  /\ UNCHANGED reactorVars

-----------------------------------------------------------------------------
\* ReactorHttpServer::run()

SetStatus(c, s) == status' = [status EXCEPT ![c] = s]

\* A worker thread is started; run() without any work stops the context ...
StartWorker(w) ==
  /\ status[Main] = "idle" /\ status[w] = "idle"
  /\ \A v \in 0 .. w - 1 : status[v] # "idle"
  /\ SetStatus(w, "running")
  /\ stopped' = IF w \notin guards /\ OutOfWork(w) THEN stopped \cup {w} ELSE stopped
  /\ UNCHANGED <<queue, target, failed, clientVars, reactorVars>>

\* ... and when all are, the main thread runs the acceptor.
RunAcceptor ==
  /\ status[Main] = "idle"
  /\ \A w \in Workers : status[w] # "idle"
  /\ SetStatus(Main, "running")
  /\ UNCHANGED <<queue, stopped, target, failed, clientVars, reactorVars>>

\* io_context::run() returns, with what is queued left undone.
Return(c) ==
  /\ status[c] = "running"
  /\ c \in stopped
  /\ SetStatus(c, "returned")
  /\ UNCHANGED <<queue, stopped, target, failed, clientVars, reactorVars>>

Join ==
  /\ \A c \in Contexts : status[c] = "returned"
  /\ SetStatus(Main, "joined")
  /\ UNCHANGED <<queue, stopped, target, failed, clientVars, reactorVars>>

-----------------------------------------------------------------------------
\* ReactorHttpServer::stop()

\* The guards are released one by one, and a worker without work stops, ...
ReleaseGuard ==
  /\ stopStep < ThreadCount
  /\ guards' = guards \ {stopStep}
  /\ stopped' = IF OutOfWork(stopStep) THEN stopped \cup {stopStep} ELSE stopped

\* Stopping the acceptor only.
StopContextSlip ==
  /\ stopStep \in ThreadCount .. 2 * ThreadCount
  /\ stopped' = stopped \cup {Main}
  /\ UNCHANGED guards

\* ... then the acceptor is stopped, and then the workers are, one by one.
StopContext ==
  /\ stopStep \in ThreadCount .. 2 * ThreadCount
  /\ stopped' = stopped \cup {IF stopStep = ThreadCount THEN Main ELSE stopStep - ThreadCount - 1}
  /\ UNCHANGED guards

StopStep ==
  /\ ReleaseGuard \/ StopContext
  /\ stopStep' = stopStep + 1
  /\ UNCHANGED <<queue, status, target, failed, clientVars, nextWorker>>

-----------------------------------------------------------------------------
WorkerThread(w) == StartHandler(w) \/ Connection(w) \/ Return(w)

MainThread == (\E w \in Workers : StartWorker(w)) \/ RunAcceptor \/ AcceptHandler \/ Return(Main) \/ Join

Next ==
  \/ MainThread
  \/ \E w \in Workers : WorkerThread(w)
  \/ StopStep
  \/ (Kernel \/ \E k \in Clients : Client(k)) /\ UNCHANGED reactorVars
=============================================================================
