---------------------------- MODULE AsyncServer ----------------------------
(***************************************************************************)
(* The server of http_server.cpp: one io_context, run by main(), accepts   *)
(* connections and serves them.                                            *)
(***************************************************************************)
EXTENDS HttpConnection

Api == {"/api/time", "/api/compute"}

Init == HttpInit(Main)

\* do_accept(): the socket of a new connection belongs to the same context.
DoAccept == target' = Main

AcceptHandler ==
  /\ Turn(Main, "accept")
  /\ IF Result(Main) = "ok" THEN Start(Conn(Main)) ELSE UNCHANGED op
  /\ DoAccept
  /\ queue' = [queue EXCEPT ![Main] = Tail(@)]
  /\ UNCHANGED <<status, stopped, failed, sock, home, wire, got>>

\* The accept that is always pending keeps the context from stopping.
Connection == ConnectionHandler(Main, Api) /\ UNCHANGED stopped

Run ==
  /\ status[Main] = "idle"
  /\ status' = [status EXCEPT ![Main] = "running"]
  /\ UNCHANGED <<queue, stopped, target, failed, clientVars>>

MainThread == Run \/ AcceptHandler \/ Connection

Next == MainThread \/ Kernel \/ \E k \in Clients : Client(k)
=============================================================================
