--------------------------- MODULE HttpConnection ---------------------------
(***************************************************************************)
(* What the two HTTP servers of asio-demo have in common: the connections, *)
(* each an object that reads once, answers once and closes, the io_contexts*)
(* whose threads run its handlers, the clients, and the kernel that        *)
(* completes what has been started.                                        *)
(*                                                                         *)
(* An io_context is a queue of handlers that are ready to run.  It has one *)
(* thread, so that a handler is one action: whatever it touches besides    *)
(* its own connection is a queue.  What the asynchronous operations do is  *)
(* modelled from how the code calls them.                                  *)
(***************************************************************************)
EXTENDS Naturals, Sequences, FiniteSets

CONSTANTS
  Clients,      \* the clients; each connects at most once
  Silent,       \* those that may stop sending and receiving for ever
  Request,      \* Request[k]: the path client k asks for
  Main,         \* the io_context that accepts
  ThreadCount,  \* thread_count_
  MaxFailures,  \* bound: the number of accepts that fail
  NULL          \* no context, no client

Workers  == 0 .. ThreadCount - 1
Contexts == {Main} \cup Workers

ASSUME HttpAssumption ==
  /\ ThreadCount \in Nat \ {0} /\ MaxFailures \in Nat
  /\ IsFiniteSet(Clients) /\ Silent \subseteq Clients
  /\ NULL \notin Contexts \cup Clients /\ Main \notin Workers

VARIABLES
  queue,   \* queue[c]: the handlers that are ready to run on context c
  stopped, \* the contexts that have been stopped, or have run out of work
  status,  \* status[c]: whether run() of c is "idle", "running" or "returned"
  target,  \* the context of the socket the pending accept is for, or NULL
  failed,  \* the number of accepts that have failed
  sock,    \* sock[k]: the connection of client k
  home,    \* home[k]: the context it belongs to
  op,      \* op[k]: its operation in progress
  wire,    \* wire[k]: what has arrived from the client and is not read
  got      \* got[k]: what the client has received

clientVars == <<sock, home, op, wire, got>>
httpVars == <<queue, status, stopped, target, failed, clientVars>>

Handler(o, k, result) == [op |-> o, conn |-> k, result |-> result]

Nothing == [body |-> "none", rest |-> "none"]

\* The servers' constructors have started the first accept.
HttpInit(first) ==
  /\ queue = [c \in Contexts |-> <<>>]
  /\ status = [c \in Contexts |-> "idle"]
  /\ stopped = {}
  /\ target = first
  /\ failed = 0
  /\ sock = [k \in Clients |-> "none"]
  /\ home = [k \in Clients |-> NULL]
  /\ op = [k \in Clients |-> "none"]
  /\ wire = [k \in Clients |-> "nothing"]
  /\ got = [k \in Clients |-> Nothing]

-----------------------------------------------------------------------------
\* The clients

Here(k) == sock[k] \in {"backlog", "open"} /\ wire[k] # "eof"

Connect(k) ==
  /\ sock[k] = "none"
  /\ sock' = [sock EXCEPT ![k] = "backlog"]
  /\ UNCHANGED <<queue, status, stopped, target, failed, home, op, wire, got>>

\* All of the request arrives, or a piece of it, or the rest of it.
Send(k) ==
  /\ Here(k) /\ wire[k] \in {"nothing", "piece"}
  /\ \E w \in {"piece", "whole"} \ {wire[k]} : wire' = [wire EXCEPT ![k] = w]
  /\ UNCHANGED <<queue, status, stopped, target, failed, sock, home, op, got>>

\* The client closes or resets the connection.
Leave(k) ==
  /\ Here(k)
  /\ wire' = [wire EXCEPT ![k] = "eof"]
  /\ UNCHANGED <<queue, status, stopped, target, failed, sock, home, op, got>>

Client(k) == Connect(k) \/ Send(k) \/ Leave(k)

-----------------------------------------------------------------------------
\* The kernel and Asio: what has been started completes while somebody runs the
\* context it belongs to, and its handler is queued there.

Running(c) == status[c] = "running" /\ c \notin stopped

Ready(c, h) == Running(c) /\ queue' = [queue EXCEPT ![c] = Append(@, h)]

AcceptDone ==
  /\ target # NULL
  /\ \E k \in Clients :
       /\ sock[k] = "backlog"
       /\ sock' = [sock EXCEPT ![k] = "open"]
       /\ home' = [home EXCEPT ![k] = target]
       /\ Ready(Main, Handler("accept", k, "ok"))
  /\ target' = NULL
  /\ UNCHANGED <<status, stopped, failed, op, wire, got>>

\* For instance because there are too many open files.
AcceptFails ==
  /\ target # NULL
  /\ failed < MaxFailures
  /\ failed' = failed + 1
  /\ target' = NULL
  /\ Ready(Main, Handler("accept", NULL, "error"))
  /\ UNCHANGED <<status, stopped, clientVars>>

\* async_read_some() is content with what has arrived.
ReadDone(k) ==
  /\ op[k] = "read" /\ wire[k] \in {"piece", "whole"}
  /\ op' = [op EXCEPT ![k] = "none"]
  /\ wire' = [wire EXCEPT ![k] = "read"]
  /\ Ready(home[k], Handler("read", k, wire[k]))
  /\ UNCHANGED <<status, stopped, target, failed, sock, home, got>>

\* The rest of the response is taken from the buffer async_write() was given,
\* and the string it lay in is gone by now.
WriteDone(k) ==
  /\ op[k] = "write" /\ wire[k] # "eof"
  /\ \E r \in {"sent", "garbage"} : got' = [got EXCEPT ![k].rest = r]
  /\ op' = [op EXCEPT ![k] = "none"]
  /\ Ready(home[k], Handler("write", k, "ok"))
  /\ UNCHANGED <<status, stopped, target, failed, sock, home, wire>>

\* The client has gone.
OperationFails(k) ==
  /\ op[k] # "none" /\ wire[k] = "eof"
  /\ op' = [op EXCEPT ![k] = "none"]
  /\ Ready(home[k], Handler(op[k], k, "error"))
  /\ UNCHANGED <<status, stopped, target, failed, sock, home, wire, got>>

Kernel == AcceptDone \/ AcceptFails \/ \E k \in Clients : ReadDone(k) \/ WriteDone(k) \/ OperationFails(k)

-----------------------------------------------------------------------------
\* HttpConnection

\* start(): the read is started.  The operation keeps the connection alive.
Start(k) == op' = [op EXCEPT ![k] = "read"]

\* process_request() for a server with the JSON pages of api.  A page is named
\* for the path that leads to it, with its type and length; what it says is left
\* out, with what /api/compute adds up, which overflows an int.
Response(path, api, rest) ==
  [body |-> IF path \in api \cup {"/"} THEN path ELSE "not found",
   rest |-> rest]

\* The path that is found in what has been read: of a piece it may be cut off
\* anywhere, be missing, or be all there.
Paths(k, piece) ==
  IF piece = "whole" THEN {Request[k]} ELSE {Request[k], "/", "cut off"}

\* The thread of c runs the first handler of its queue, which is one of o.
Turn(c, o) ==
  /\ Running(c)
  /\ queue[c] # <<>> /\ Head(queue[c]).op = o

Conn(c)   == Head(queue[c]).conn
Result(c) == Head(queue[c]).result

\* The handler of c is over and the last reference to its connection with it,
\* so that the socket is closed.
Close(c) ==
  /\ sock' = [sock EXCEPT ![Conn(c)] = "closed"]
  /\ queue' = [queue EXCEPT ![c] = Tail(@)]

ReadFailed(c) ==
  /\ Turn(c, "read") /\ Result(c) = "error"
  /\ Close(c)
  /\ UNCHANGED <<status, target, failed, home, op, wire, got>>

\* The read handler answers.  async_write() tries to send at once: all goes and
\* its handler is ready, or a part goes and the rest has to wait, or it fails.
Answer(c, api) ==
  /\ Turn(c, "read") /\ Result(c) # "error"
  /\ LET k == Conn(c) IN
     \E p \in Paths(k, Result(c)) :
       \/ /\ got' = [got EXCEPT ![k] = Response(p, api, "sent")]
          /\ queue' = [queue EXCEPT ![c] = Append(Tail(@), Handler("write", k, "ok"))]
          /\ UNCHANGED op
       \/ /\ got' = [got EXCEPT ![k] = Response(p, api, "missing")]
          /\ queue' = [queue EXCEPT ![c] = Tail(@)]
          /\ op' = [op EXCEPT ![k] = "write"]
       \/ /\ wire[k] = "eof"
          /\ queue' = [queue EXCEPT ![c] = Append(Tail(@), Handler("write", k, "error"))]
          /\ UNCHANGED <<op, got>>
  /\ UNCHANGED <<status, target, failed, sock, home, wire>>

\* The write handler closes, whether the write has failed or not.
Written(c) ==
  /\ Turn(c, "write")
  /\ Close(c)
  /\ UNCHANGED <<status, target, failed, home, op, wire, got>>

\* A context that has neither a guard, nor handlers, nor operations stops.
OutOfWork(c) ==
  /\ queue[c] = <<>>
  /\ c = Main => target = NULL
  /\ \A k \in Clients : home[k] = c => op[k] = "none"

ConnectionHandler(c, api) == ReadFailed(c) \/ Answer(c, api) \/ Written(c)
=============================================================================
