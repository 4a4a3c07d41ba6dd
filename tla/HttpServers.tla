---------------------------- MODULE HttpServers ----------------------------
(***************************************************************************)
(* The two HTTP servers under the same clients, and what is expected of    *)
(* both.  kind says which of the two programs is running.                  *)
(***************************************************************************)
EXTENDS HttpConnection

VARIABLES kind, nextWorker, guards, stopStep

Async   == INSTANCE AsyncServer
Reactor == INSTANCE ReactorServer

reactorVars == <<nextWorker, guards, stopStep>>
vars == <<kind, httpVars, reactorVars>>

Init ==
  \/ kind = "reactor" /\ Reactor!Init
  \/ /\ kind = "async" /\ Async!Init
     /\ nextWorker = 0 /\ guards = {} /\ stopStep = 0

InReactor(A) == kind = "reactor" /\ A /\ UNCHANGED kind
InAsync(A)   == kind = "async" /\ A /\ UNCHANGED <<kind, reactorVars>>

Next == InReactor(Reactor!Next) \/ InAsync(Async!Next)

Spec == Init /\ [][Next]_vars

\* No thread stops for ever while it can go on, the kernel reports what has
\* happened, and once stop() has begun it goes on.  Nobody has to connect, to
\* send or to leave, no accept has to fail, and of a silent client not even the
\* rest of a response has to be taken.
FairSpec ==
  /\ Spec
  /\ WF_vars(InAsync(Async!MainThread))
  /\ WF_vars(InReactor(Reactor!MainThread))
  /\ \A w \in Workers : WF_vars(InReactor(Reactor!WorkerThread(w)))
  /\ WF_vars(stopStep > 0 /\ InReactor(Reactor!StopStep))
  /\ SF_vars(AcceptDone /\ UNCHANGED <<kind, reactorVars>>)
  /\ \A k \in Clients :
       /\ WF_vars((ReadDone(k) \/ OperationFails(k)) /\ UNCHANGED <<kind, reactorVars>>)
       /\ k \notin Silent => WF_vars(WriteDone(k) /\ UNCHANGED <<kind, reactorVars>>)

-----------------------------------------------------------------------------
\* Properties

Stopping == stopStep > 0

\* The handlers that may be queued: only an accept that failed has no connection.
Handlers ==
  [op : {"accept"}, conn : Clients, result : {"ok"}] \cup
  [op : {"accept"}, conn : {NULL}, result : {"error"}] \cup
  [op : {"start", "read", "write"}, conn : Clients, result : {"ok", "error", "piece", "whole"}]

\* What client k may receive: the page it has asked for, or the one that a piece of
\* its request leads to, never the page of another client.
Pages(k) ==
  [body : {"none", "/", "not found", Request[k]}, rest : {"none", "sent", "missing", "garbage"}]

Received == {g \in [Clients -> UNION {Pages(k) : k \in Clients}] : \A k \in Clients : g[k] \in Pages(k)}

\* The number of handlers in the queue q that belong to client k, and the number
\* of places its connection is in: an operation in progress, the queue of the
\* acceptor's context, that of its own.
HandlersOf(q, k) == Cardinality({n \in DOMAIN q : q[n].conn = k})

Places(k) ==
  (IF op[k] = "none" THEN 0 ELSE 1) + HandlersOf(queue[Main], k)
    + (IF home[k] \in Workers THEN HandlersOf(queue[home[k]], k) ELSE 0)

\* An open connection is always in exactly one place, as an operation in
\* progress or as one handler that is ready to run, at its own context (or at
\* the acceptor's while it is being accepted).  So no two of its handlers ever
\* run at once, it is closed with nothing in flight, and it is not forgotten.
OnePlace ==
  \A k \in Clients :
    /\ \A c \in Workers \ {home[k]} : HandlersOf(queue[c], k) = 0
    /\ Places(k) = IF sock[k] = "open" THEN 1 ELSE 0

\* The shape of the state, with OnePlace and what the clients may have received.
TypeOK ==
  /\ kind \in {"async", "reactor"}
  /\ queue \in [Contexts -> Seq(Handlers)]
  /\ status \in [Contexts -> {"idle", "running", "returned", "joined"}]
  /\ stopped \subseteq Contexts
  /\ target \in Contexts \cup {NULL}
  /\ failed \in 0 .. MaxFailures
  /\ sock \in [Clients -> {"none", "backlog", "open", "closed"}]
  /\ home \in [Clients -> Contexts \cup {NULL}]
  /\ op \in [Clients -> {"none", "read", "write"}]
  /\ wire \in [Clients -> {"nothing", "piece", "whole", "read", "eof"}]
  /\ got \in Received
  /\ \A k \in Clients : got[k].rest # "none" => sock[k] \in {"open", "closed"}
  /\ nextWorker \in Workers /\ guards \subseteq Workers
  /\ stopStep \in 0 .. 2 * ThreadCount + 1
  /\ OnePlace

\* The work guards keep every worker running, with or without connections,
\* until the server is told to stop.
WorkersStay ==
  kind = "reactor" /\ ~Stopping => \A c \in Contexts : status[c] # "returned"

\* Connections are dealt out in turn: two workers never differ by more than one
\* connection, and one for each accept that failed.
Load(w) == Cardinality({k \in Clients : home[k] = w})

Balanced == \A v, w \in Workers : Load(v) <= Load(w) + 1 + failed

\* Whoever sends a request, all of it or the first piece, and stays is answered
\* and then closed, while others keep silent, unless the server is stopped.
EveryRequestAnswered ==
  \A k \in Clients \ Silent :
    wire[k] \in {"piece", "whole"} ~>
      \/ sock[k] = "closed" /\ got[k].rest # "none"
      \/ wire[k] = "eof" \/ Stopping

\* stop() brings run() to its end, whatever is queued, running or waiting.
StopEndsRun == Stopping ~> status[Main] = "joined"

\* What a client receives is what process_request() has made for it, to the end.
ResponseIntact == \A k \in Clients : got[k].rest # "garbage"

-----------------------------------------------------------------------------
\* The inductive invariant of HttpServersProofs

\* A connection belongs to a context from when it is accepted on: to a worker in
\* the one server, to the only context in the other.
HomeOK ==
  LET own == IF kind = "reactor" THEN Workers ELSE {Main}
  IN /\ target \in own \cup {NULL}
     /\ \A k \in Clients : home[k] \in IF sock[k] \in {"open", "closed"} THEN own ELSE {NULL}

\* One accept is pending, or one is to be handled; the next one is for the next
\* worker.
AcceptOK ==
  kind = "reactor" =>
    /\ Len(queue[Main]) = IF target = NULL THEN 1 ELSE 0
    /\ target # NULL => nextWorker = (target + 1) % ThreadCount

\* Of r rounds each worker has had its turn, and the first have had one more.
\* A turn was a connection or a failure.
RoundsOK ==
  kind = "reactor" =>
    LET upTo == IF target = NULL THEN nextWorker ELSE target
        turns(r, w) == IF w < upTo THEN r + 1 ELSE r
    IN \E r \in 0 .. Cardinality(Clients) + MaxFailures : \A w \in Workers :
         Load(w) <= turns(r, w) /\ turns(r, w) <= Load(w) + failed

\* Until stop() begins the guards are there, and nothing has come to an end.
GuardsOK ==
  kind = "reactor" /\ stopStep = 0 =>
    /\ guards = Workers
    /\ stopped = {}
    /\ \A c \in Contexts : status[c] \in {"idle", "running"}

\* What holds in every state and is kept by every step.
IInv == TypeOK /\ HomeOK /\ AcceptOK /\ RoundsOK /\ GuardsOK
=============================================================================
