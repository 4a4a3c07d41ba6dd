------------------------- MODULE HttpServersProofs -------------------------
(***************************************************************************)
(* Proofs about the two HTTP servers, for any finite set of clients, any   *)
(* number of workers and any number of failed accepts: an open connection  *)
(* is in one place, the workers stay until stop() begins, and they get     *)
(* their connections in turn.                                              *)
(***************************************************************************)
EXTENDS HttpServers, FiniteSetTheorems, FunctionTheorems, TLAPS

-----------------------------------------------------------------------------
\* Counting the handlers of a client in a queue

LEMMA HandlersFinite ==
  ASSUME NEW q \in Seq(Handlers), NEW k
  PROVE  /\ IsFiniteSet({n \in DOMAIN q : q[n].conn = k})
         /\ HandlersOf(q, k) \in Nat
<1>1. Len(q) \in Nat /\ DOMAIN q = 1 .. Len(q)
  OBVIOUS
<1>2. IsFiniteSet(1 .. Len(q))
  BY <1>1, FS_Interval
<1>3. IsFiniteSet({n \in DOMAIN q : q[n].conn = k})
  BY <1>1, <1>2, FS_Subset
<1>4. QED BY <1>3, FS_CardinalityType DEF HandlersOf

LEMMA HandlersEmpty ==
  ASSUME NEW k
  PROVE  HandlersOf(<<>>, k) = 0
<1>1. {n \in DOMAIN <<>> : <<>>[n].conn = k} = {}
  OBVIOUS
<1>2. QED BY <1>1, FS_EmptySet DEF HandlersOf

LEMMA HandlersAppend ==
  ASSUME NEW q \in Seq(Handlers), NEW h \in Handlers, NEW k
  PROVE  HandlersOf(Append(q, h), k) = HandlersOf(q, k) + IF h.conn = k THEN 1 ELSE 0
<1>. DEFINE r == Append(q, h)
            old == {n \in DOMAIN q : q[n].conn = k}
            new == {n \in DOMAIN r : r[n].conn = k}
<1>1. /\ Len(q) \in Nat /\ DOMAIN q = 1 .. Len(q)
      /\ DOMAIN r = 1 .. (Len(q) + 1) /\ r[Len(q) + 1] = h
      /\ \A n \in DOMAIN q : r[n] = q[n]
  OBVIOUS
<1>2. new = IF h.conn = k THEN old \cup {Len(q) + 1} ELSE old
  BY <1>1
<1>3. Len(q) + 1 \notin old
  BY <1>1
<1>4. IsFiniteSet(old) /\ Cardinality(old) \in Nat
  BY HandlersFinite DEF HandlersOf
<1>5. Cardinality(old \cup {Len(q) + 1}) = Cardinality(old) + 1
  BY <1>3, <1>4, FS_AddElement
<1>6. HandlersOf(q, k) = Cardinality(old) /\ HandlersOf(r, k) = Cardinality(new)
  BY DEF HandlersOf
<1>. HIDE DEF old, new
<1>7. CASE h.conn = k
  BY <1>2, <1>5, <1>6, <1>7
<1>8. CASE h.conn # k
  BY <1>2, <1>4, <1>6, <1>8
<1>9. QED BY <1>7, <1>8

LEMMA HandlersTail ==
  ASSUME NEW q \in Seq(Handlers), q # <<>>, NEW k
  PROVE  HandlersOf(Tail(q), k) = HandlersOf(q, k) - IF Head(q).conn = k THEN 1 ELSE 0
<1>. DEFINE r == Tail(q)
            old == {n \in DOMAIN q : q[n].conn = k}
            new == {n \in DOMAIN r : r[n].conn = k}
            shift == [n \in new |-> n + 1]
<1>1. /\ Len(q) \in Nat \ {0} /\ DOMAIN q = 1 .. Len(q) /\ Head(q) = q[1]
      /\ DOMAIN r = 1 .. (Len(q) - 1) /\ r \in Seq(Handlers)
      /\ \A n \in DOMAIN r : r[n] = q[n + 1]
  OBVIOUS
<1>2. shift \in [new -> old \ {1}]
  BY <1>1
<1>3. \A m, n \in new : shift[m] = shift[n] => m = n
  BY <1>1
<1>4. \A n \in old \ {1} : \E m \in new : shift[m] = n
  <2>. SUFFICES ASSUME NEW n \in old \ {1} PROVE \E m \in new : shift[m] = n
    OBVIOUS
  <2>1. n - 1 \in new /\ (n - 1) + 1 = n
    BY <1>1
  <2>2. QED BY <2>1
<1>5. shift \in Bijection(new, old \ {1})
  BY <1>2, <1>3, <1>4, Fun_IsBij
<1>6. IsFiniteSet(old) /\ IsFiniteSet(new) /\ Cardinality(old) \in Nat
  BY <1>1, HandlersFinite DEF HandlersOf
<1>7. Cardinality(new) = Cardinality(old \ {1})
  <2>1. ExistsBijection(new, old \ {1})
    BY <1>5 DEF ExistsBijection
  <2>. HIDE DEF new, old
  <2>2. QED BY <1>6, <2>1, FS_Bijection
<1>8. Cardinality(old \ {1}) = Cardinality(old) - IF Head(q).conn = k THEN 1 ELSE 0
  <2>1. 1 \in old <=> Head(q).conn = k
    BY <1>1
  <2>. HIDE DEF old
  <2>2. Cardinality(old \ {1}) = IF 1 \in old THEN Cardinality(old) - 1 ELSE Cardinality(old)
    BY <1>6, FS_RemoveElement
  <2>3. QED BY <2>1, <2>2, <1>6
<1>9. HandlersOf(q, k) = Cardinality(old) /\ HandlersOf(r, k) = Cardinality(new)
  BY DEF HandlersOf
<1>. HIDE DEF old, new
<1>10. QED BY <1>7, <1>8, <1>9

-----------------------------------------------------------------------------
\* What a handler that is queued, or run, does to these numbers

Queues == [Contexts -> Seq(Handlers)]

Push(Q, c, h) == [Q EXCEPT ![c] = Append(@, h)]
Pop(Q, c)     == [Q EXCEPT ![c] = Tail(@)]

LEMMA Pushed ==
  ASSUME NEW Q \in Queues, NEW c \in Contexts, NEW h \in Handlers
  PROVE  LET R == Push(Q, c, h) IN
         /\ R \in Queues
         /\ \A d \in Contexts, k \in Clients :
              HandlersOf(R[d], k) = HandlersOf(Q[d], k) + IF d = c /\ h.conn = k THEN 1 ELSE 0
         /\ Len(R[c]) = Len(Q[c]) + 1
         /\ \A d \in Contexts \ {c} : R[d] = Q[d]
<1>. DEFINE R == Push(Q, c, h)
<1>. USE DEF Push
<1>1. R \in Queues
  BY DEF Queues
<1>2. Q[c] \in Seq(Handlers) /\ R[c] = Append(Q[c], h)
  BY DEF Queues
<1>3. Len(R[c]) = Len(Q[c]) + 1
  BY <1>2
<1>4. SUFFICES ASSUME NEW d \in Contexts, NEW k \in Clients
               PROVE  HandlersOf(R[d], k) = HandlersOf(Q[d], k) + IF d = c /\ h.conn = k THEN 1 ELSE 0
  BY <1>1, <1>3 DEF Queues
<1>5. CASE d = c
  BY <1>2, <1>5, HandlersAppend
<1>6. CASE d # c
  <2>1. R[d] = Q[d] /\ Q[d] \in Seq(Handlers)
    BY <1>6 DEF Queues
  <2>2. HandlersOf(Q[d], k) \in Nat
    BY <2>1, HandlersFinite
  <2>3. QED BY <1>6, <2>1, <2>2
<1>7. QED BY <1>5, <1>6

LEMMA Popped ==
  ASSUME NEW Q \in Queues, NEW c \in Contexts, Q[c] # <<>>
  PROVE  LET R == Pop(Q, c) IN
         /\ R \in Queues
         /\ \A d \in Contexts, k \in Clients :
              HandlersOf(R[d], k) = HandlersOf(Q[d], k) - IF d = c /\ Head(Q[c]).conn = k THEN 1 ELSE 0
         /\ Len(R[c]) = Len(Q[c]) - 1
         /\ Head(Q[c]) \in Handlers
         /\ \A d \in Contexts \ {c} : R[d] = Q[d]
<1>. DEFINE R == Pop(Q, c)
<1>. USE DEF Pop
<1>1. R \in Queues
  BY DEF Queues
<1>2. /\ Q[c] \in Seq(Handlers) /\ R[c] = Tail(Q[c])
      /\ Len(R[c]) = Len(Q[c]) - 1 /\ Head(Q[c]) \in Handlers
  BY DEF Queues
<1>3. SUFFICES ASSUME NEW d \in Contexts, NEW k \in Clients
               PROVE  HandlersOf(R[d], k) = HandlersOf(Q[d], k) - IF d = c /\ Head(Q[c]).conn = k THEN 1 ELSE 0
  BY <1>1, <1>2 DEF Queues
<1>4. CASE d = c
  BY <1>2, <1>4, HandlersTail
<1>5. CASE d # c
  <2>1. R[d] = Q[d] /\ Q[d] \in Seq(Handlers)
    BY <1>5 DEF Queues
  <2>2. HandlersOf(Q[d], k) \in Nat
    BY <2>1, HandlersFinite
  <2>3. QED BY <1>5, <2>1, <2>2
<1>6. QED BY <1>4, <1>5

LEMMA Counts ==
  ASSUME NEW Q \in Queues
  PROVE  \A d \in Contexts, k \in Clients : HandlersOf(Q[d], k) \in Nat
BY HandlersFinite DEF Queues

\* A handler that is first in its queue is counted there.
LEMMA HeadCounts ==
  ASSUME NEW Q \in Queues, NEW c \in Contexts, Q[c] # <<>>,
         NEW k \in Clients, Head(Q[c]).conn = k
  PROVE  HandlersOf(Q[c], k) >= 1
<1>1. Q[c] \in Seq(Handlers) /\ Tail(Q[c]) \in Seq(Handlers)
  BY DEF Queues
<1>2. HandlersOf(Q[c], k) \in Nat /\ HandlersOf(Tail(Q[c]), k) \in Nat
  BY <1>1, HandlersFinite
<1>3. HandlersOf(Tail(Q[c]), k) = HandlersOf(Q[c], k) - 1
  BY <1>1, HandlersTail
<1>4. QED BY <1>2, <1>3

-----------------------------------------------------------------------------
\* The invariant in two halves: what the connections are in, and the control of
\* the threads

Data ==
  /\ kind \in {"async", "reactor"}
  /\ queue \in Queues
  /\ target \in Contexts \cup {NULL}
  /\ failed \in 0 .. MaxFailures
  /\ sock \in [Clients -> {"none", "backlog", "open", "closed"}]
  /\ home \in [Clients -> Contexts \cup {NULL}]
  /\ op \in [Clients -> {"none", "read", "write"}]
  /\ wire \in [Clients -> {"nothing", "piece", "whole", "read", "eof"}]
  /\ got \in Received
  /\ \A k \in Clients : got[k].rest # "none" => sock[k] \in {"open", "closed"}
  /\ nextWorker \in Workers

Connections == Data /\ OnePlace /\ HomeOK /\ AcceptOK /\ RoundsOK

Control ==
  /\ status \in [Contexts -> {"idle", "running", "returned", "joined"}]
  /\ stopped \subseteq Contexts
  /\ guards \subseteq Workers
  /\ stopStep \in 0 .. 2 * ThreadCount + 1
  /\ GuardsOK

LEMMA Halves == (IInv <=> Connections /\ Control) /\ (IInv <=> Connections /\ Control)'
BY DEF IInv, TypeOK, Connections, Control, Data, Queues

LEMMA ContextFacts ==
  /\ ThreadCount \in Nat \ {0} /\ MaxFailures \in Nat /\ IsFiniteSet(Clients)
  /\ Workers \subseteq Contexts /\ Main \in Contexts /\ Main \notin Workers
  /\ NULL \notin Contexts /\ NULL \notin Clients /\ NULL \notin Workers
  /\ \A c \in Contexts : c = Main \/ c \in Workers
BY HttpAssumption DEF Contexts, Workers

\* A connection with a handler in a queue has it there alone.
LEMMA QueuedAlone ==
  ASSUME Connections, NEW c \in Contexts, NEW k \in Clients, HandlersOf(queue[c], k) >= 1
  PROVE  /\ sock[k] = "open" /\ op[k] = "none"
         /\ HandlersOf(queue[c], k) = 1
         /\ \A d \in Contexts \ {c} : HandlersOf(queue[d], k) = 0
         /\ c \in Workers => home[k] = c
<1>. USE DEF Connections, Data
<1>1. \A d \in Contexts : HandlersOf(queue[d], k) \in Nat
  BY Counts
<1>2. /\ \A d \in Workers \ {home[k]} : HandlersOf(queue[d], k) = 0
      /\ Places(k) = IF sock[k] = "open" THEN 1 ELSE 0
  BY DEF OnePlace
<1>3. CASE c \in Workers
  <2>1. home[k] = c
    BY <1>2, <1>3
  <2>2. QED BY <1>1, <1>2, <1>3, <2>1, ContextFacts DEF Places
<1>4. CASE c = Main
  BY <1>1, <1>2, <1>4, ContextFacts DEF Places
<1>5. QED BY <1>3, <1>4, ContextFacts

\* A connection with an operation in progress is open and in no queue.
LEMMA OperatingAlone ==
  ASSUME Connections, NEW k \in Clients, op[k] # "none"
  PROVE  /\ sock[k] = "open"
         /\ \A d \in Contexts : HandlersOf(queue[d], k) = 0
<1>. USE DEF Connections, Data
<1>1. \A d \in Contexts : HandlersOf(queue[d], k) \in Nat
  BY Counts
<1>2. /\ \A d \in Workers \ {home[k]} : HandlersOf(queue[d], k) = 0
      /\ Places(k) = IF sock[k] = "open" THEN 1 ELSE 0
  BY DEF OnePlace
<1>3. QED BY <1>1, <1>2, ContextFacts DEF Places

\* One that is not open is in no place.
LEMMA Nowhere ==
  ASSUME Connections, NEW k \in Clients, sock[k] # "open"
  PROVE  /\ op[k] = "none"
         /\ \A d \in Contexts : HandlersOf(queue[d], k) = 0
<1>. USE DEF Connections, Data
<1>1. \A d \in Contexts : HandlersOf(queue[d], k) \in Nat
  BY Counts
<1>2. /\ \A d \in Workers \ {home[k]} : HandlersOf(queue[d], k) = 0
      /\ Places(k) = IF sock[k] = "open" THEN 1 ELSE 0
  BY DEF OnePlace
<1>3. QED BY <1>1, <1>2, ContextFacts DEF Places

\* The context of an open connection.
LEMMA HomeOfOpen ==
  ASSUME Connections, NEW k \in Clients, sock[k] = "open"
  PROVE  home[k] \in IF kind = "reactor" THEN Workers ELSE {Main}
BY DEF Connections, HomeOK

\* Where no connection is accepted, the turns stay as they are.
LEMMA SameRounds ==
  ASSUME RoundsOK, UNCHANGED <<kind, home, target, nextWorker, failed>>
  PROVE  RoundsOK'
<1>1. \A w : Load(w)' = Load(w)
  BY DEF Load
<1>2. QED BY <1>1 DEF RoundsOK

LEMMA SameAccept ==
  ASSUME AcceptOK, UNCHANGED <<kind, target, nextWorker>>, kind = "reactor" => queue'[Main] = queue[Main]
  PROVE  AcceptOK'
BY DEF AcceptOK

LEMMA SameControl ==
  ASSUME Control, UNCHANGED <<kind, status, stopped, guards, stopStep>>
  PROVE  Control'
BY DEF Control, GuardsOK

\* A step that touches no connection.
LEMMA SameConnections ==
  ASSUME Connections, UNCHANGED <<kind, queue, target, failed, clientVars, nextWorker>>
  PROVE  Connections'
<1>. USE DEF Connections, clientVars
<1>1. Data'
  BY DEF Data
<1>2. OnePlace'
  BY DEF OnePlace, Places
<1>3. HomeOK'
  BY DEF HomeOK
<1>4. QED BY <1>1, <1>2, <1>3, SameRounds, SameAccept

-----------------------------------------------------------------------------
\* The turns

LEMMA LoadType ==
  ASSUME NEW f, NEW w
  PROVE  LET own == {k \in Clients : f[k] = w}
         IN  IsFiniteSet(own) /\ Cardinality(own) \in 0 .. Cardinality(Clients) /\ Cardinality(Clients) \in Nat
<1>. DEFINE own == {k \in Clients : f[k] = w}
<1>1. IsFiniteSet(Clients) /\ own \subseteq Clients
  BY ContextFacts
<1>. HIDE DEF own
<1>2. IsFiniteSet(own) /\ Cardinality(own) <= Cardinality(Clients)
  BY <1>1, FS_Subset
<1>3. Cardinality(own) \in Nat /\ Cardinality(Clients) \in Nat
  BY <1>1, <1>2, FS_CardinalityType
<1>4. Cardinality(own) \in 0 .. Cardinality(Clients)
  BY <1>2, <1>3
<1>5. QED BY <1>2, <1>3, <1>4 DEF own

\* The turn of a worker t is over, with one connection more or one failure more.
LEMMA NextTurn ==
  ASSUME kind = "reactor", AcceptOK, RoundsOK, failed \in Nat,
         NEW t \in Workers, t = target, UNCHANGED <<kind, nextWorker>>, target' = NULL,
         failed' \in 0 .. MaxFailures, failed' >= failed,
         \A w \in Workers \ {t} : Load(w)' = Load(w),
         \/ Load(t)' = Load(t) + 1 /\ failed' = failed
         \/ Load(t)' = Load(t) /\ failed' = failed + 1
  PROVE  RoundsOK'
<1>1. t \in 0 .. ThreadCount - 1 /\ ThreadCount \in Nat \ {0} /\ MaxFailures \in Nat
      /\ target # NULL /\ Cardinality(Clients) \in Nat
  BY ContextFacts, LoadType DEF Workers
<1>2. nextWorker = (t + 1) % ThreadCount
  BY <1>1 DEF AcceptOK
<1>3. nextWorker = IF t + 1 = ThreadCount THEN 0 ELSE t + 1
  BY <1>1, <1>2
<1>. DEFINE turns(u, r, w) == IF w < u THEN r + 1 ELSE r
<1>4. \A w \in Workers : Load(w) \in Nat /\ Load(w)' \in 0 .. Cardinality(Clients)
  <2>. SUFFICES ASSUME NEW w \in Workers
                PROVE  Load(w) \in 0 .. Cardinality(Clients) /\ Load(w)' \in 0 .. Cardinality(Clients)
    BY <1>1
  <2>1. Cardinality({k \in Clients : home[k] = w}) \in 0 .. Cardinality(Clients)
    BY LoadType
  <2>2. Cardinality({k \in Clients : home'[k] = w}) \in 0 .. Cardinality(Clients)
    BY LoadType
  <2>3. QED BY <2>1, <2>2 DEF Load
<1>5. PICK r \in 0 .. Cardinality(Clients) + MaxFailures : \A w \in Workers :
         Load(w) <= turns(t, r, w) /\ turns(t, r, w) <= Load(w) + failed
  BY <1>1 DEF RoundsOK
<1>. DEFINE s == IF t + 1 = ThreadCount THEN r + 1 ELSE r
<1>6. \A w \in Workers : /\ turns(t, r, w) \in Nat
                         /\ turns(nextWorker, s, w) = IF w = t THEN turns(t, r, w) + 1 ELSE turns(t, r, w)
  BY <1>1, <1>3 DEF Workers
<1>7. \A w \in Workers : Load(w)' <= turns(nextWorker, s, w) /\ turns(nextWorker, s, w) <= Load(w)' + failed'
  <2>. SUFFICES ASSUME NEW w \in Workers
                PROVE  Load(w)' <= turns(nextWorker, s, w) /\ turns(nextWorker, s, w) <= Load(w)' + failed'
    OBVIOUS
  <2>1. /\ turns(t, r, w) \in Nat /\ Load(w) \in Nat /\ Load(w)' \in Nat
        /\ failed \in Nat /\ failed' \in Nat
    BY <1>1, <1>4, <1>6
  <2>2. Load(w) <= turns(t, r, w) /\ turns(t, r, w) <= Load(w) + failed
    BY <1>5
  <2>3. turns(nextWorker, s, w) = IF w = t THEN turns(t, r, w) + 1 ELSE turns(t, r, w)
    BY <1>6
  <2>4. IF w = t THEN \/ Load(w)' = Load(w) + 1 /\ failed' = failed
                      \/ Load(w)' = Load(w) /\ failed' = failed + 1
                 ELSE Load(w)' = Load(w)
    OBVIOUS
  <2>. HIDE DEF turns, s
  <2>5. QED BY <2>1, <2>2, <2>3, <2>4
<1>8. s \in 0 .. Cardinality(Clients) + MaxFailures
  <2>1. s <= turns(nextWorker, s, t) /\ s \in Nat /\ turns(nextWorker, s, t) \in Nat
    BY <1>1, <1>3
  <2>2. turns(nextWorker, s, t) <= Load(t)' + failed'
    BY <1>7
  <2>3. Load(t)' \in 0 .. Cardinality(Clients)
    BY <1>4
  <2>. HIDE DEF turns, s
  <2>4. QED BY <1>1, <2>1, <2>2, <2>3
<1>9. (IF target = NULL THEN nextWorker ELSE target)' = nextWorker
  OBVIOUS
<1>. HIDE DEF s
<1>10. QED BY <1>7, <1>8, <1>9 DEF RoundsOK

LEMMA TurnTaken ==
  ASSUME Connections, NEW k \in Clients, target # NULL, sock[k] = "backlog",
         home' = [home EXCEPT ![k] = target], target' = NULL, UNCHANGED <<kind, nextWorker, failed>>
  PROVE  RoundsOK'
<1>. USE DEF Connections
<1>1. CASE kind # "reactor"
  BY <1>1 DEF RoundsOK
<1>2. CASE kind = "reactor"
  <2>1. target \in Workers /\ home[k] = NULL /\ NULL \notin Workers
    BY <1>2, ContextFacts DEF HomeOK
  <2>2. PICK t \in Workers : t = target
    BY <2>1
  <2>3. failed \in Nat /\ failed' \in 0 .. MaxFailures /\ failed' = failed /\ failed' >= failed
    BY ContextFacts DEF Data
  <2>4. \A w \in Workers \ {t} : Load(w)' = Load(w)
    <3>. SUFFICES ASSUME NEW w \in Workers \ {t} PROVE Load(w)' = Load(w)
      OBVIOUS
    <3>1. {j \in Clients : home'[j] = w} = {j \in Clients : home[j] = w}
      BY <2>1, <2>2 DEF Data
    <3>2. QED BY <3>1 DEF Load
  <2>5. Load(t)' = Load(t) + 1
    <3>. DEFINE own == {j \in Clients : home[j] = t}
    <3>1. {j \in Clients : home'[j] = t} = own \cup {k} /\ k \notin own
      BY <2>1, <2>2 DEF Data
    <3>2. IsFiniteSet(own)
      BY LoadType
    <3>3. Cardinality(own \cup {k}) = Cardinality(own) + 1
      <4>. HIDE DEF own
      <4>1. QED BY <3>1, <3>2, FS_AddElement
    <3>4. QED BY <3>1, <3>3 DEF Load
  <2>6. QED BY <1>2, <2>2, <2>3, <2>4, <2>5, NextTurn
<1>3. QED BY <1>1, <1>2

LEMMA TurnFailed ==
  ASSUME Connections, target # NULL, target' = NULL, failed < MaxFailures, failed' = failed + 1,
         UNCHANGED <<kind, nextWorker, home>>
  PROVE  RoundsOK'
<1>. USE DEF Connections
<1>1. CASE kind # "reactor"
  BY <1>1 DEF RoundsOK
<1>2. CASE kind = "reactor"
  <2>1. target \in Workers
    BY <1>2, ContextFacts DEF HomeOK
  <2>2. PICK t \in Workers : t = target
    BY <2>1
  <2>3. failed \in Nat /\ failed' \in 0 .. MaxFailures /\ failed' >= failed
    BY ContextFacts DEF Data
  <2>4. \A w \in Workers : Load(w)' = Load(w)
    BY DEF Load
  <2>5. QED BY <1>2, <2>2, <2>3, <2>4, NextTurn
<1>3. QED BY <1>1, <1>2

-----------------------------------------------------------------------------
\* The clients and the kernel, which are the same for both servers

LEMMA ClientStep ==
  ASSUME Connections, NEW k \in Clients, Client(k), UNCHANGED <<kind, nextWorker>>
  PROVE  Connections'
<1>. USE DEF Connections
<1>1. UNCHANGED <<queue, target, failed, home, op, got>>
  BY DEF Client, Connect, Send, Leave
<1>2. /\ sock' \in [Clients -> {"none", "backlog", "open", "closed"}]
      /\ \A j \in Clients : sock'[j] = sock[j] \/ (sock[j] = "none" /\ sock'[j] = "backlog")
      /\ wire' \in [Clients -> {"nothing", "piece", "whole", "read", "eof"}]
  BY DEF Client, Connect, Send, Leave, Data
<1>3. Data'
  BY <1>1, <1>2 DEF Data
<1>4. OnePlace'
  <2>1. \A j \in Clients : Places(j)' = Places(j)
    BY <1>1 DEF Places
  <2>2. QED BY <1>1, <1>2, <2>1 DEF OnePlace
<1>5. HomeOK'
  BY <1>1, <1>2 DEF HomeOK
<1>6. QED BY <1>1, <1>3, <1>4, <1>5, SameRounds, SameAccept

LEMMA AcceptDoneStep ==
  ASSUME Connections, AcceptDone, UNCHANGED <<kind, nextWorker>>
  PROVE  Connections'
<1>. USE DEF Connections
<1>. DEFINE h(k) == Handler("accept", k, "ok")
<1>1. PICK k \in Clients : /\ sock[k] = "backlog"
                           /\ sock' = [sock EXCEPT ![k] = "open"]
                           /\ home' = [home EXCEPT ![k] = target]
                           /\ Ready(Main, h(k))
  BY DEF AcceptDone
<1>2. /\ target \in Contexts /\ target # NULL /\ target' = NULL
      /\ UNCHANGED <<failed, op, wire, got>>
  BY DEF AcceptDone, Data
<1>3. /\ queue' = [queue EXCEPT ![Main] = Append(@, h(k))]
      /\ h(k) \in Handlers /\ h(k).conn = k
  BY <1>1 DEF Ready, Handler, Handlers
<1>4. /\ queue' \in Queues
      /\ \A d \in Contexts, j \in Clients :
           HandlersOf(queue'[d], j) = HandlersOf(queue[d], j) + IF d = Main /\ k = j THEN 1 ELSE 0
      /\ Len(queue'[Main]) = Len(queue[Main]) + 1
  <2>1. h(k) \in Handlers /\ queue \in Queues /\ Main \in Contexts
    BY <1>3, ContextFacts DEF Data
  <2>. HIDE DEF h
  <2>2. /\ queue' \in Queues
        /\ \A d \in Contexts, j \in Clients :
             HandlersOf(queue'[d], j) = HandlersOf(queue[d], j) + IF d = Main /\ h(k).conn = j THEN 1 ELSE 0
        /\ Len(queue'[Main]) = Len(queue[Main]) + 1
    <3>1. queue' = Push(queue, Main, h(k))
      BY <1>3 DEF Push
    <3>2. QED BY <2>1, <3>1, Pushed
  <2>3. QED BY <1>3, <2>2
<1>5. Data'
  BY <1>1, <1>2, <1>4 DEF Data
<1>6. \A d \in Contexts, j \in Clients : HandlersOf(queue[d], j) \in Nat
  BY Counts DEF Data
<1>7. op[k] = "none" /\ \A d \in Contexts : HandlersOf(queue[d], k) = 0
  BY <1>1, Nowhere
<1>8. OnePlace'
  <2>. SUFFICES ASSUME NEW j \in Clients
                PROVE  /\ \A c \in Workers \ {home'[j]} : HandlersOf(queue'[c], j) = 0
                       /\ Places(j)' = IF sock'[j] = "open" THEN 1 ELSE 0
    BY DEF OnePlace
  <2>1. CASE j = k
    <3>1. home'[j] = target /\ sock'[j] = "open" /\ op'[j] = "none"
      BY <1>1, <1>2, <1>7, <2>1 DEF Data
    <3>2. HandlersOf(queue'[Main], j) = 1 /\ \A d \in Workers : HandlersOf(queue'[d], j) = 0
      BY <1>4, <1>7, <2>1, ContextFacts
    <3>3. QED BY <3>1, <3>2 DEF Places
  <2>2. CASE j # k
    <3>1. home'[j] = home[j] /\ sock'[j] = sock[j] /\ op'[j] = op[j]
      BY <1>1, <1>2, <2>2 DEF Data
    <3>2. \A d \in Contexts : HandlersOf(queue'[d], j) = HandlersOf(queue[d], j)
      BY <1>4, <1>6, <2>2
    <3>3. Places(j)' = Places(j)
      BY <3>1, <3>2, ContextFacts DEF Places
    <3>4. QED BY <3>1, <3>2, <3>3, ContextFacts DEF OnePlace
  <2>3. QED BY <2>1, <2>2
<1>9. HomeOK'
  BY <1>1, <1>2 DEF HomeOK, Data
<1>10. AcceptOK'
  BY <1>2, <1>4, ContextFacts DEF AcceptOK, Data, Queues
<1>11. RoundsOK'
  BY <1>1, <1>2, TurnTaken
<1>12. QED BY <1>5, <1>8, <1>9, <1>10, <1>11

LEMMA AcceptFailsStep ==
  ASSUME Connections, AcceptFails, UNCHANGED <<kind, nextWorker>>
  PROVE  Connections'
<1>. USE DEF Connections
<1>. DEFINE h == Handler("accept", NULL, "error")
<1>1. /\ target # NULL /\ target' = NULL /\ failed' = failed + 1 /\ failed < MaxFailures
      /\ queue' = [queue EXCEPT ![Main] = Append(@, h)]
      /\ UNCHANGED clientVars
  BY DEF AcceptFails, Ready
<1>2. h \in Handlers /\ h.conn = NULL
  BY DEF Handler, Handlers
<1>3. /\ queue' \in Queues
      /\ \A d \in Contexts, j \in Clients :
           HandlersOf(queue'[d], j) = HandlersOf(queue[d], j) + IF d = Main /\ NULL = j THEN 1 ELSE 0
      /\ Len(queue'[Main]) = Len(queue[Main]) + 1
  <2>1. h \in Handlers /\ queue \in Queues /\ Main \in Contexts
    BY <1>2, ContextFacts DEF Data
  <2>. HIDE DEF h
  <2>2. /\ queue' \in Queues
        /\ \A d \in Contexts, j \in Clients :
             HandlersOf(queue'[d], j) = HandlersOf(queue[d], j) + IF d = Main /\ h.conn = j THEN 1 ELSE 0
        /\ Len(queue'[Main]) = Len(queue[Main]) + 1
    <3>1. queue' = Push(queue, Main, h)
      BY <1>1 DEF Push
    <3>2. QED BY <2>1, <3>1, Pushed
  <2>3. QED BY <1>2, <2>2
<1>4. Data'
  BY <1>1, <1>3, ContextFacts DEF Data, clientVars
<1>5. \A d \in Contexts, j \in Clients : HandlersOf(queue'[d], j) = HandlersOf(queue[d], j)
  <2>1. NULL \notin Clients /\ \A d \in Contexts, j \in Clients : HandlersOf(queue[d], j) \in Nat
    BY Counts, ContextFacts DEF Data
  <2>2. ASSUME NEW d \in Contexts, NEW j \in Clients
        PROVE  HandlersOf(queue'[d], j) = HandlersOf(queue[d], j)
    <3>1. NULL # j /\ HandlersOf(queue[d], j) \in Nat
      BY <2>1
    <3>2. HandlersOf(queue'[d], j) = HandlersOf(queue[d], j) + IF d = Main /\ NULL = j THEN 1 ELSE 0
      BY <1>3
    <3>3. QED BY <3>1, <3>2
  <2>3. QED BY <2>2
<1>6. OnePlace'
  <2>1. \A j \in Clients : Places(j)' = Places(j)
    BY <1>1, <1>5, ContextFacts DEF Places, clientVars
  <2>2. QED BY <1>1, <1>5, <2>1, ContextFacts DEF OnePlace, clientVars
<1>7. HomeOK'
  BY <1>1 DEF HomeOK, clientVars
<1>8. AcceptOK'
  BY <1>1, <1>3, ContextFacts DEF AcceptOK, Data, Queues
<1>9. RoundsOK'
  BY <1>1, TurnFailed DEF clientVars
<1>10. QED BY <1>4, <1>6, <1>7, <1>8, <1>9

\* An operation in progress is over, and its handler is queued where its
\* connection belongs.
LEMMA Completed ==
  ASSUME Connections, NEW k \in Clients, NEW h \in Handlers, h.conn = k,
         op[k] # "none", op' = [op EXCEPT ![k] = "none"],
         Ready(home[k], h),
         UNCHANGED <<kind, target, failed, sock, home, nextWorker>>,
         wire' \in [Clients -> {"nothing", "piece", "whole", "read", "eof"}],
         got' \in Received,
         \A j \in Clients : got'[j].rest # "none" => sock[j] \in {"open", "closed"}
  PROVE  Connections'
<1>. USE DEF Connections
<1>1. PICK c \in Contexts : c = home[k] /\ (kind = "reactor" => c # Main) /\ (c \in Workers \/ c = Main)
  BY OperatingAlone, HomeOfOpen, ContextFacts
<1>2. queue' = Push(queue, c, h) /\ queue \in Queues
  BY <1>1 DEF Ready, Push, Data
<1>3. /\ queue' \in Queues
      /\ \A d \in Contexts, j \in Clients :
           HandlersOf(queue'[d], j) = HandlersOf(queue[d], j) + IF d = c /\ k = j THEN 1 ELSE 0
      /\ \A d \in Contexts \ {c} : queue'[d] = queue[d]
  BY <1>2, Pushed
<1>4. Data'
  BY <1>3 DEF Data
<1>5. \A d \in Contexts, j \in Clients : HandlersOf(queue[d], j) \in Nat
  BY Counts DEF Data
<1>6. sock[k] = "open" /\ \A d \in Contexts : HandlersOf(queue[d], k) = 0
  BY OperatingAlone
<1>7. OnePlace'
  <2>. SUFFICES ASSUME NEW j \in Clients
                PROVE  /\ \A d \in Workers \ {home'[j]} : HandlersOf(queue'[d], j) = 0
                       /\ Places(j)' = IF sock'[j] = "open" THEN 1 ELSE 0
    BY DEF OnePlace
  <2>1. CASE j = k
    <3>1. op'[j] = "none" /\ home'[j] = c /\ sock'[j] = "open"
      BY <1>1, <1>6, <2>1 DEF Data
    <3>2. \A d \in Contexts : HandlersOf(queue'[d], j) = IF d = c THEN 1 ELSE 0
      BY <1>3, <1>6, <2>1
    <3>3. QED BY <1>1, <3>1, <3>2, ContextFacts DEF Places
  <2>2. CASE j # k
    <3>1. op'[j] = op[j] /\ home'[j] = home[j] /\ sock'[j] = sock[j]
      BY <2>2 DEF Data
    <3>2. \A d \in Contexts : HandlersOf(queue'[d], j) = HandlersOf(queue[d], j)
      BY <1>3, <1>5, <2>2
    <3>3. Places(j)' = Places(j)
      BY <3>1, <3>2, ContextFacts DEF Places
    <3>4. QED BY <3>1, <3>2, <3>3, ContextFacts DEF OnePlace
  <2>3. QED BY <2>1, <2>2
<1>8. HomeOK'
  BY DEF HomeOK
<1>9. AcceptOK'
  BY <1>1, <1>3, SameAccept, ContextFacts
<1>10. QED BY <1>4, <1>7, <1>8, <1>9, SameRounds

LEMMA ReadDoneStep ==
  ASSUME Connections, NEW k \in Clients, ReadDone(k), UNCHANGED <<kind, nextWorker>>
  PROVE  Connections'
<1>. DEFINE h == Handler("read", k, wire[k])
<1>1. h \in Handlers /\ h.conn = k
  BY DEF ReadDone, Handler, Handlers
<1>2. /\ op[k] # "none" /\ op' = [op EXCEPT ![k] = "none"]
      /\ Ready(home[k], h)
      /\ UNCHANGED <<target, failed, sock, home, got>>
      /\ wire' \in [Clients -> {"nothing", "piece", "whole", "read", "eof"}]
  BY DEF ReadDone, Connections, Data
<1>3. /\ got' \in Received
      /\ \A j \in Clients : got'[j].rest # "none" => sock[j] \in {"open", "closed"}
  BY <1>2 DEF Connections, Data
<1>. HIDE DEF h
<1>4. QED BY <1>1, <1>2, <1>3, Completed

\* One client receives a page of its own.
LEMMA OneReceives ==
  ASSUME got \in Received, NEW k \in Clients, NEW page \in Pages(k)
  PROVE  [got EXCEPT ![k] = page] \in Received
BY DEF Received

LEMMA WriteDoneStep ==
  ASSUME Connections, NEW k \in Clients, WriteDone(k), UNCHANGED <<kind, nextWorker>>
  PROVE  Connections'
<1>. DEFINE h == Handler("write", k, "ok")
<1>1. h \in Handlers /\ h.conn = k
  BY DEF Handler, Handlers
<1>2. /\ op[k] # "none" /\ op' = [op EXCEPT ![k] = "none"]
      /\ Ready(home[k], h)
      /\ UNCHANGED <<target, failed, sock, home, wire>>
      /\ wire' \in [Clients -> {"nothing", "piece", "whole", "read", "eof"}]
  BY DEF WriteDone, Connections, Data
<1>3. PICK r \in {"sent", "garbage"} : got' = [got EXCEPT ![k].rest = r]
  BY DEF WriteDone
<1>4. sock[k] = "open"
  BY <1>2, OperatingAlone
<1>5. /\ got' \in Received
      /\ \A j \in Clients : got'[j].rest # "none" => sock[j] \in {"open", "closed"}
  <2>1. got \in Received
        /\ \A j \in Clients : got[j].rest # "none" => sock[j] \in {"open", "closed"}
    BY DEF Connections, Data
  <2>2. got' = [got EXCEPT ![k] = [got[k] EXCEPT !.rest = r]]
    BY <1>3
  <2>3. got' \in Received
    <3>1. [got[k] EXCEPT !.rest = r] \in Pages(k)
      BY <2>1 DEF Received, Pages
    <3>2. QED BY <2>1, <2>2, <3>1, OneReceives
  <2>4. \A j \in Clients \ {k} : got'[j] = got[j]
    BY <1>3, <2>1 DEF Received
  <2>5. QED BY <1>4, <2>1, <2>3, <2>4
<1>. HIDE DEF h
<1>6. QED BY <1>1, <1>2, <1>5, Completed

LEMMA OperationFailsStep ==
  ASSUME Connections, NEW k \in Clients, OperationFails(k), UNCHANGED <<kind, nextWorker>>
  PROVE  Connections'
<1>. DEFINE h == Handler(op[k], k, "error")
<1>1. h \in Handlers /\ h.conn = k
  BY DEF OperationFails, Handler, Handlers, Connections, Data
<1>2. /\ op[k] # "none" /\ op' = [op EXCEPT ![k] = "none"]
      /\ Ready(home[k], h)
      /\ UNCHANGED <<target, failed, sock, home, wire, got>>
  BY DEF OperationFails
<1>3. /\ wire' \in [Clients -> {"nothing", "piece", "whole", "read", "eof"}]
      /\ got' \in Received
      /\ \A j \in Clients : got'[j].rest # "none" => sock[j] \in {"open", "closed"}
  BY <1>2 DEF Connections, Data
<1>. HIDE DEF h
<1>4. QED BY <1>1, <1>2, <1>3, Completed

LEMMA OutsideStep ==
  ASSUME Connections, Kernel \/ \E k \in Clients : Client(k), UNCHANGED <<kind, nextWorker>>
  PROVE  Connections' /\ UNCHANGED <<status, stopped>>
<1>1. Connections'
  BY AcceptDoneStep, AcceptFailsStep, ReadDoneStep, WriteDoneStep, OperationFailsStep, ClientStep DEF Kernel
<1>2. UNCHANGED <<status, stopped>>
  BY DEF Kernel, AcceptDone, AcceptFails, ReadDone, WriteDone, OperationFails, Client, Connect, Send, Leave
<1>3. QED BY <1>1, <1>2

-----------------------------------------------------------------------------
\* The handlers that are run

\* The first handler of c, of connection k, is over: nothing else of k is in
\* flight, so whatever it has done with k is all there is.  It has started an
\* operation (o), or queued another handler (at d), or closed the connection.
LEMMA Handled ==
  ASSUME Connections, NEW c \in Contexts, NEW k \in Clients,
         queue[c] # <<>>, Head(queue[c]).conn = k,
         UNCHANGED home,
         \/ /\ queue' = Pop(queue, c)
            /\ \E o \in {"read", "write"} : op' = [op EXCEPT ![k] = o]
            /\ sock' = sock
         \/ /\ \E h \in Handlers, d \in {Main, home[k]} \cap Contexts :
                 h.conn = k /\ queue' = Push(Pop(queue, c), d, h)
            /\ op' = op /\ sock' = sock
         \/ /\ queue' = Pop(queue, c)
            /\ op' = op /\ sock' = [sock EXCEPT ![k] = "closed"]
  PROVE  /\ OnePlace'
         /\ queue' \in Queues
         /\ op' \in [Clients -> {"none", "read", "write"}]
         /\ sock' \in [Clients -> {"none", "backlog", "open", "closed"}]
         /\ sock[k] = "open" /\ sock'[k] \in {"open", "closed"}
         /\ \A j \in Clients \ {k} : sock'[j] = sock[j]
<1>. USE DEF Connections
<1>. DEFINE P == Pop(queue, c)
<1>1. queue \in Queues /\ \A d \in Contexts, j \in Clients : HandlersOf(queue[d], j) \in Nat
  BY Counts DEF Data
<1>2. HandlersOf(queue[c], k) >= 1
  BY <1>1, HeadCounts
<1>3. /\ sock[k] = "open" /\ op[k] = "none"
      /\ \A d \in Contexts : HandlersOf(queue[d], k) = IF d = c THEN 1 ELSE 0
      /\ c \in Workers => home[k] = c
  BY <1>2, QueuedAlone
<1>4. /\ P \in Queues
      /\ \A d \in Contexts, j \in Clients :
           HandlersOf(P[d], j) = HandlersOf(queue[d], j) - IF d = c /\ k = j THEN 1 ELSE 0
  BY <1>1, Popped
<1>5. /\ \A d \in Contexts : HandlersOf(P[d], k) = 0
      /\ \A d \in Contexts, j \in Clients \ {k} : HandlersOf(P[d], j) = HandlersOf(queue[d], j)
  BY <1>1, <1>3, <1>4
<1>. HIDE DEF P
\* What each of the three leaves behind, for k ...
<1>6. /\ queue' \in Queues
      /\ op' \in [Clients -> {"none", "read", "write"}]
      /\ sock' \in [Clients -> {"none", "backlog", "open", "closed"}]
      /\ sock'[k] \in {"open", "closed"}
      /\ \A j \in Clients \ {k} : op'[j] = op[j] /\ sock'[j] = sock[j]
      /\ \A d \in Contexts, j \in Clients \ {k} : HandlersOf(queue'[d], j) = HandlersOf(queue[d], j)
      /\ \/ /\ \A d \in Contexts : HandlersOf(queue'[d], k) = 0
            /\ op'[k] # "none" /\ sock'[k] = "open"
         \/ \E e \in {Main, home[k]} \cap Contexts :
              /\ \A d \in Contexts : HandlersOf(queue'[d], k) = IF d = e THEN 1 ELSE 0
              /\ op'[k] = "none" /\ sock'[k] = "open"
         \/ /\ \A d \in Contexts : HandlersOf(queue'[d], k) = 0
            /\ op'[k] = "none" /\ sock'[k] = "closed"
  <2>1. CASE /\ queue' = Pop(queue, c)
             /\ \E o \in {"read", "write"} : op' = [op EXCEPT ![k] = o]
             /\ sock' = sock
    <3>1. queue' = P
      BY <2>1 DEF P
    <3>2. QED BY <1>3, <1>4, <1>5, <2>1, <3>1 DEF Data
  <2>2. CASE /\ \E h \in Handlers, d \in {Main, home[k]} \cap Contexts :
                  h.conn = k /\ queue' = Push(Pop(queue, c), d, h)
             /\ op' = op /\ sock' = sock
    <3>1. PICK h \in Handlers, e \in {Main, home[k]} \cap Contexts : h.conn = k /\ queue' = Push(P, e, h)
      BY <2>2 DEF P
    <3>2. /\ queue' \in Queues
          /\ \A d \in Contexts, j \in Clients :
               HandlersOf(queue'[d], j) = HandlersOf(P[d], j) + IF d = e /\ k = j THEN 1 ELSE 0
      BY <1>4, <3>1, Pushed, SMTT(30)
    <3>3. /\ \A d \in Contexts : HandlersOf(queue'[d], k) = IF d = e THEN 1 ELSE 0
          /\ \A d \in Contexts, j \in Clients \ {k} : HandlersOf(queue'[d], j) = HandlersOf(queue[d], j)
      BY <1>1, <1>5, <3>2
    <3>4. QED BY <1>3, <2>2, <3>2, <3>3 DEF Data
  <2>3. CASE /\ queue' = Pop(queue, c)
             /\ op' = op /\ sock' = [sock EXCEPT ![k] = "closed"]
    <3>1. queue' = P
      BY <2>3 DEF P
    <3>2. QED BY <1>3, <1>4, <1>5, <2>3, <3>1 DEF Data
  <2>4. QED BY <2>1, <2>2, <2>3
\* ... and for the others.
<1>7. OnePlace'
  <2>. SUFFICES ASSUME NEW j \in Clients
                PROVE  /\ \A d \in Workers \ {home'[j]} : HandlersOf(queue'[d], j) = 0
                       /\ Places(j)' = IF sock'[j] = "open" THEN 1 ELSE 0
    BY DEF OnePlace
  <2>1. CASE j = k
    BY <1>6, <2>1, ContextFacts DEF Places
  <2>2. CASE j # k
    <3>1. Places(j)' = Places(j)
      BY <1>6, <2>2, ContextFacts DEF Places
    <3>2. QED BY <1>6, <2>2, <3>1, ContextFacts DEF OnePlace
  <2>3. QED BY <2>1, <2>2
<1>8. QED BY <1>3, <1>6, <1>7

\* The page that is made for a request.
LEMMA ResponseType ==
  ASSUME NEW k \in Clients, NEW r, NEW p \in Paths(k, r), NEW rest \in {"sent", "missing"},
         NEW api, "cut off" \notin api
  PROVE  Response(p, api, rest) \in Pages(k)
<1>1. p \in {"/", "cut off", Request[k]}
  BY DEF Paths
<1>2. QED BY <1>1 DEF Response, Pages

\* Where the connections' handlers run: at a worker, or at the only context.
Own == IF kind = "reactor" THEN Workers ELSE {Main}

LEMMA ConnectionStep ==
  ASSUME Connections, NEW c \in Own, NEW api, "cut off" \notin api, ConnectionHandler(c, api),
         UNCHANGED <<kind, nextWorker>>
  PROVE  Connections' /\ status' = status
<1>. USE DEF Connections
<1>. DEFINE k == Conn(c)
<1>1. /\ c \in Contexts /\ queue[c] # <<>> /\ Head(queue[c]).op \in {"read", "write"}
      /\ kind = "reactor" => c # Main /\ c \in Workers
      /\ kind # "reactor" => c = Main
  BY ContextFacts DEF ConnectionHandler, ReadFailed, Answer, Written, Turn, Own
<1>2. Head(queue[c]) \in Handlers
  BY <1>1, Popped DEF Data
<1>3. k \in Clients
  BY <1>1, <1>2 DEF Handlers, Conn
<1>4. /\ UNCHANGED <<status, target, failed, home, wire>>
      /\ queue'[Main] = queue[Main] \/ c = Main
  BY <1>1, ContextFacts
     DEF ConnectionHandler, ReadFailed, Answer, Written, Close, Data, Queues
<1>5. home[k] = c
  <2>1. HandlersOf(queue[c], k) >= 1
    BY <1>1, <1>3, HeadCounts DEF Data, Conn
  <2>2. sock[k] = "open" /\ (c \in Workers => home[k] = c)
    BY <1>1, <1>3, <2>1, QueuedAlone
  <2>3. QED BY <1>1, <1>3, <2>2, HomeOfOpen
<1>6. /\ \/ /\ queue' = Pop(queue, c)
            /\ \E o \in {"read", "write"} : op' = [op EXCEPT ![k] = o]
            /\ sock' = sock
         \/ /\ \E h \in Handlers, d \in {Main, home[k]} \cap Contexts :
                 h.conn = k /\ queue' = Push(Pop(queue, c), d, h)
            /\ op' = op /\ sock' = sock
         \/ /\ queue' = Pop(queue, c)
            /\ op' = op /\ sock' = [sock EXCEPT ![k] = "closed"]
      /\ \/ got' = got
         \/ \E page \in Pages(k) : got' = [got EXCEPT ![k] = page]
  <2>1. CASE ReadFailed(c) \/ Written(c)
    BY <2>1 DEF ReadFailed, Written, Close, Pop, Conn
  <2>2. CASE Answer(c, api)
    <3>1. PICK p \in Paths(k, Result(c)) :
       \/ /\ got' = [got EXCEPT ![k] = Response(p, api, "sent")]
          /\ queue' = [queue EXCEPT ![c] = Append(Tail(@), Handler("write", k, "ok"))]
          /\ UNCHANGED op
       \/ /\ got' = [got EXCEPT ![k] = Response(p, api, "missing")]
          /\ queue' = [queue EXCEPT ![c] = Tail(@)]
          /\ op' = [op EXCEPT ![k] = "write"]
       \/ /\ wire[k] = "eof"
          /\ queue' = [queue EXCEPT ![c] = Append(Tail(@), Handler("write", k, "error"))]
          /\ UNCHANGED <<op, got>>
      BY <2>2 DEF Answer
    <3>2. sock' = sock
      BY <2>2 DEF Answer
    <3>3. Response(p, api, "sent") \in Pages(k) /\ Response(p, api, "missing") \in Pages(k)
      BY <1>3, ResponseType
    <3>4. \A r \in {"ok", "error"} : Handler("write", k, r) \in Handlers /\ Handler("write", k, r).conn = k
      BY <1>3 DEF Handler, Handlers
    <3>5. \A h : [queue EXCEPT ![c] = Append(Tail(@), h)] = Push(Pop(queue, c), c, h)
      BY <1>1 DEF Push, Pop, Data, Queues
    <3>. HIDE DEF k
    <3>6. \/ /\ got' = [got EXCEPT ![k] = Response(p, api, "sent")]
             /\ queue' = Push(Pop(queue, c), c, Handler("write", k, "ok"))
             /\ op' = op
          \/ /\ got' = [got EXCEPT ![k] = Response(p, api, "missing")]
             /\ queue' = Pop(queue, c)
             /\ op' = [op EXCEPT ![k] = "write"]
          \/ /\ got' = got
             /\ queue' = Push(Pop(queue, c), c, Handler("write", k, "error"))
             /\ op' = op
      <4>1. Pop(queue, c) = [queue EXCEPT ![c] = Tail(@)]
        BY DEF Pop
      <4>2. QED BY <3>1, <3>5, <4>1, Zenon
    <3>7. c \in {Main, home[k]} \cap Contexts
      BY <1>1, <1>5
    <3>8. QED BY <3>2, <3>3, <3>4, <3>6, <3>7
  <2>3. QED BY <2>1, <2>2 DEF ConnectionHandler
<1>7. Head(queue[c]).conn = k
  BY DEF Conn
<1>. HIDE DEF k
<1>8. /\ OnePlace'
      /\ queue' \in Queues
      /\ op' \in [Clients -> {"none", "read", "write"}]
      /\ sock' \in [Clients -> {"none", "backlog", "open", "closed"}]
      /\ sock[k] = "open" /\ sock'[k] \in {"open", "closed"}
      /\ \A j \in Clients \ {k} : sock'[j] = sock[j]
  BY <1>1, <1>3, <1>4, <1>6, <1>7, Handled, ZenonT(60)
<1>9. /\ got' \in Received
      /\ \A j \in Clients : got'[j].rest # "none" => sock'[j] \in {"open", "closed"}
  <2>1. got \in Received /\ \A j \in Clients : got[j].rest # "none" => sock[j] \in {"open", "closed"}
    BY DEF Data
  <2>2. got' = got \/ \E page \in Pages(k) : got' = [got EXCEPT ![k] = page]
    BY <1>6, Zenon
  <2>3. got' \in Received
    BY <1>3, <2>1, <2>2, OneReceives, Zenon
  <2>4. \A j \in Clients \ {k} : got'[j] = got[j]
    BY <1>3, <2>1, <2>2 DEF Received
  <2>5. sock[k] = "open" /\ sock'[k] \in {"open", "closed"} /\ \A j \in Clients \ {k} : sock'[j] = sock[j]
    BY <1>8, Zenon
  <2>6. QED BY <1>3, <2>1, <2>3, <2>4, <2>5
<1>10. Data'
  BY <1>4, <1>8, <1>9 DEF Data
<1>11. HomeOK'
  BY <1>4, <1>8 DEF HomeOK
<1>12. AcceptOK'
  BY <1>1, <1>4, SameAccept
<1>13. QED BY <1>4, <1>8, <1>10, <1>11, <1>12, SameRounds

-----------------------------------------------------------------------------
\* Both servers are made of the same connections, clients and kernel.
LEMMA SameParts ==
  /\ Async!Kernel <=> Kernel
  /\ Reactor!Kernel <=> Kernel
  /\ \A k : (Async!Client(k) <=> Client(k)) /\ (Reactor!Client(k) <=> Client(k))
  /\ \A c, api : /\ Async!ConnectionHandler(c, api) <=> ConnectionHandler(c, api)
                 /\ Reactor!ConnectionHandler(c, api) <=> ConnectionHandler(c, api)
<1>. USE DEF Async!clientVars, Reactor!clientVars, clientVars,
             Async!Handler, Reactor!Handler, Handler, Async!Ready, Reactor!Ready, Ready,
             Async!Running, Reactor!Running, Running
<1>1. (Async!Kernel <=> Kernel) /\ (Reactor!Kernel <=> Kernel)
  <2>1. (Async!AcceptDone <=> AcceptDone) /\ (Reactor!AcceptDone <=> AcceptDone)
    BY DEF Async!AcceptDone, Reactor!AcceptDone, AcceptDone
  <2>2. (Async!AcceptFails <=> AcceptFails) /\ (Reactor!AcceptFails <=> AcceptFails)
    BY DEF Async!AcceptFails, Reactor!AcceptFails, AcceptFails
  <2>3. \A k : (Async!ReadDone(k) <=> ReadDone(k)) /\ (Reactor!ReadDone(k) <=> ReadDone(k))
    BY DEF Async!ReadDone, Reactor!ReadDone, ReadDone
  <2>4. \A k : (Async!WriteDone(k) <=> WriteDone(k)) /\ (Reactor!WriteDone(k) <=> WriteDone(k))
    BY DEF Async!WriteDone, Reactor!WriteDone, WriteDone
  <2>5. \A k : (Async!OperationFails(k) <=> OperationFails(k)) /\ (Reactor!OperationFails(k) <=> OperationFails(k))
    BY DEF Async!OperationFails, Reactor!OperationFails, OperationFails
  <2>6. QED BY <2>1, <2>2, <2>3, <2>4, <2>5 DEF Async!Kernel, Reactor!Kernel, Kernel
<1>2. \A k : (Async!Client(k) <=> Client(k)) /\ (Reactor!Client(k) <=> Client(k))
  BY DEF Async!Client, Reactor!Client, Client, Async!Connect, Reactor!Connect, Connect,
         Async!Send, Reactor!Send, Send, Async!Leave, Reactor!Leave, Leave, Async!Here, Reactor!Here, Here
<1>3. \A c, api : /\ Async!ConnectionHandler(c, api) <=> ConnectionHandler(c, api)
                  /\ Reactor!ConnectionHandler(c, api) <=> ConnectionHandler(c, api)
  <2>. USE DEF Async!Turn, Reactor!Turn, Turn, Async!Conn, Reactor!Conn, Conn,
               Async!Result, Reactor!Result, Result, Async!Close, Reactor!Close, Close
  <2>1. \A c : (Async!ReadFailed(c) <=> ReadFailed(c)) /\ (Reactor!ReadFailed(c) <=> ReadFailed(c))
    BY DEF Async!ReadFailed, Reactor!ReadFailed, ReadFailed
  <2>2. \A c : (Async!Written(c) <=> Written(c)) /\ (Reactor!Written(c) <=> Written(c))
    BY DEF Async!Written, Reactor!Written, Written
  <2>3. \A c, api : (Async!Answer(c, api) <=> Answer(c, api)) /\ (Reactor!Answer(c, api) <=> Answer(c, api))
    BY DEF Async!Answer, Reactor!Answer, Answer, Async!Paths, Reactor!Paths, Paths,
           Async!Response, Reactor!Response, Response
  <2>4. QED BY <2>1, <2>2, <2>3 DEF Async!ConnectionHandler, Reactor!ConnectionHandler, ConnectionHandler
<1>4. QED BY <1>1, <1>2, <1>3

-----------------------------------------------------------------------------
\* The server of http_server.cpp

LEMMA AsyncAccept ==
  ASSUME Connections, Control, InAsync(Async!AcceptHandler)
  PROVE  Connections' /\ Control'
<1>. USE DEF Connections
<1>1. /\ kind = "async" /\ UNCHANGED <<kind, nextWorker, guards, stopStep>>
      /\ queue[Main] # <<>> /\ Head(queue[Main]).op = "accept"
      /\ target' = Main
      /\ queue' = Pop(queue, Main)
      /\ UNCHANGED <<status, stopped, failed, sock, home, wire, got>>
      /\ IF Head(queue[Main]).result = "ok" THEN op' = [op EXCEPT ![Head(queue[Main]).conn] = "read"] ELSE op' = op
  BY DEF InAsync, reactorVars, Async!AcceptHandler, Async!Turn, Async!Result, Async!Conn, Async!Start, Async!DoAccept, Pop
<1>2. Head(queue[Main]) \in Handlers /\ queue \in Queues /\ Main \in Contexts
  BY <1>1, Popped, ContextFacts DEF Data
<1>3. /\ OnePlace'
      /\ queue' \in Queues
      /\ op' \in [Clients -> {"none", "read", "write"}]
  <2>1. CASE Head(queue[Main]).result = "ok"
    <3>1. Head(queue[Main]).conn \in Clients
      BY <1>1, <1>2, <2>1 DEF Handlers
    <3>2. QED BY <1>1, <1>2, <2>1, <3>1, Handled
  <2>2. CASE Head(queue[Main]).result # "ok"
    <3>1. Head(queue[Main]).conn = NULL
      BY <1>1, <1>2, <2>2 DEF Handlers
    <3>2. queue' \in Queues /\ \A d \in Contexts, j \in Clients : HandlersOf(queue'[d], j) = HandlersOf(queue[d], j)
      BY <1>1, <1>2, <3>1, Popped, Counts, ContextFacts
    <3>3. \A j \in Clients : Places(j)' = Places(j)
      BY <1>1, <2>2, <3>2, ContextFacts DEF Places
    <3>4. QED BY <1>1, <2>2, <3>2, <3>3, ContextFacts DEF OnePlace, Data
  <2>3. QED BY <2>1, <2>2
<1>4. Data'
  BY <1>1, <1>2, <1>3 DEF Data
<1>5. HomeOK' /\ AcceptOK' /\ RoundsOK' /\ Control'
  BY <1>1, SameControl DEF HomeOK, AcceptOK, RoundsOK
<1>6. QED BY <1>3, <1>4, <1>5

LEMMA AsyncStep ==
  ASSUME Connections, Control, InAsync(Async!Next)
  PROVE  Connections' /\ Control'
<1>1. kind = "async" /\ UNCHANGED <<kind, nextWorker, guards, stopStep>>
  BY DEF InAsync, reactorVars
<1>2. CASE Async!Run
  BY <1>1, <1>2, SameConnections, ContextFacts
     DEF Async!Run, Async!clientVars, clientVars, Control, GuardsOK
<1>3. CASE Async!AcceptHandler
  BY <1>1, <1>3, AsyncAccept DEF InAsync, reactorVars
<1>4. CASE Async!Connection
  <2>1. ConnectionHandler(Main, Async!Api) /\ stopped' = stopped
    BY <1>4, SameParts DEF Async!Connection
  <2>2. Main \in Own /\ "cut off" \notin Async!Api
    BY <1>1 DEF Own, Async!Api
  <2>3. Connections' /\ status' = status
    BY <1>1, <2>1, <2>2, ConnectionStep
  <2>4. QED BY <1>1, <2>1, <2>3, SameControl
<1>5. CASE Async!Kernel \/ \E k \in Clients : Async!Client(k)
  <2>1. Kernel \/ \E k \in Clients : Client(k)
    BY <1>5, SameParts
  <2>2. QED BY <1>1, <2>1, OutsideStep, SameControl
<1>6. QED BY <1>2, <1>3, <1>4, <1>5 DEF InAsync, Async!Next, Async!MainThread

-----------------------------------------------------------------------------
\* The server of http_server_multithread.cpp

LEMMA NextWorkerType == \A w \in Workers : Reactor!NextWorker(w) \in Workers
BY ContextFacts DEF Reactor!NextWorker, Workers

LEMMA ReactorAccept ==
  ASSUME Connections, kind = "reactor", Reactor!AcceptHandler, UNCHANGED kind
  PROVE  Connections' /\ UNCHANGED <<status, stopped, guards, stopStep>>
<1>. USE DEF Connections
<1>. DEFINE hd == Head(queue[Main])
            k  == hd.conn
<1>1. /\ queue[Main] # <<>> /\ hd.op = "accept"
      /\ target' = nextWorker /\ nextWorker' = Reactor!NextWorker(nextWorker)
      /\ UNCHANGED <<status, stopped, failed, sock, home, op, wire, got, guards, stopStep>>
  BY DEF Reactor!AcceptHandler, Reactor!clientVars, Reactor!Turn, Reactor!DoAccept
<1>2. queue' = IF hd.result = "ok"
               THEN [queue EXCEPT ![Main] = Tail(@), ![home[k]] = Append(@, Handler("start", k, "ok"))]
               ELSE [queue EXCEPT ![Main] = Tail(@)]
  BY DEF Reactor!AcceptHandler, Reactor!Result, Reactor!Conn, Reactor!Post, Reactor!Handler, Handler
<1>3. /\ hd \in Handlers /\ queue \in Queues /\ Main \in Contexts /\ Pop(queue, Main) \in Queues
      /\ Len(Pop(queue, Main)[Main]) = Len(queue[Main]) - 1
  BY <1>1, Popped, ContextFacts DEF Data
<1>4. /\ OnePlace'
      /\ queue' \in Queues
      /\ queue'[Main] = Pop(queue, Main)[Main]
  <2>1. CASE hd.result = "ok"
    <3>1. k \in Clients
      BY <1>1, <1>3, <2>1 DEF Handlers
    <3>2. sock[k] = "open"
      <4>1. HandlersOf(queue[Main], k) >= 1
        BY <1>1, <1>3, <3>1, HeadCounts
      <4>2. QED BY <1>3, <3>1, <4>1, QueuedAlone
    <3>3. PICK w \in Workers : w = home[k]
      BY <3>1, <3>2, HomeOfOpen
    <3>4. w \in Contexts /\ w # Main
      BY <3>3, ContextFacts
    <3>5. PICK h : h = Handler("start", k, "ok")
      OBVIOUS
    <3>6. h \in Handlers /\ h.conn = k
      BY <3>1, <3>5 DEF Handler, Handlers
    <3>7. queue' = Push(Pop(queue, Main), w, h)
      BY <1>2, <1>3, <2>1, <3>3, <3>4, <3>5 DEF Push, Pop, Queues
    <3>8. w \in {Main, home[k]} \cap Contexts
      BY <3>3, <3>4
    <3>. HIDE DEF hd
    <3>9. OnePlace' /\ queue' \in Queues
      <4>1. Head(queue[Main]).conn = k
        BY DEF hd
      <4>. HIDE DEF k
      <4>2. QED BY <1>1, <1>3, <3>1, <3>6, <3>7, <3>8, <4>1, Handled
    <3>10. queue'[Main] = Pop(queue, Main)[Main]
      BY <1>3, <3>4, <3>7 DEF Push, Queues
    <3>11. QED BY <3>9, <3>10
  <2>2. CASE hd.result # "ok"
    <3>1. k = NULL /\ queue' = Pop(queue, Main)
      BY <1>1, <1>2, <1>3, <2>2 DEF Handlers, Pop
    <3>2. queue' \in Queues /\ \A d \in Contexts, j \in Clients : HandlersOf(queue'[d], j) = HandlersOf(queue[d], j)
      BY <1>1, <1>3, <3>1, Popped, Counts, ContextFacts, SMTT(30)
    <3>3. \A j \in Clients : Places(j)' = Places(j)
      BY <1>1, <3>2, ContextFacts DEF Places
    <3>4. QED BY <1>1, <3>1, <3>2, <3>3, ContextFacts DEF OnePlace, Data
  <2>3. QED BY <2>1, <2>2
<1>5. nextWorker \in Workers /\ nextWorker' \in Workers
  BY <1>1, NextWorkerType DEF Data
<1>6. Data'
  BY <1>1, <1>4, <1>5, ContextFacts DEF Data
<1>7. HomeOK'
  BY <1>1, <1>5 DEF HomeOK
<1>8. target = NULL /\ target' # NULL /\ Len(queue'[Main]) = 0
  <2>1. queue[Main] \in Seq(Handlers) /\ Len(queue[Main]) # 0
    BY <1>1, <1>3 DEF Queues
  <2>2. target = NULL /\ Len(queue[Main]) = 1
    BY <2>1 DEF AcceptOK
  <2>3. QED BY <1>1, <1>3, <1>4, <1>5, <2>2, ContextFacts
<1>9. AcceptOK'
  BY <1>1, <1>8 DEF AcceptOK, Reactor!NextWorker
<1>10. RoundsOK'
  <2>1. \A w : Load(w)' = Load(w)
    BY <1>1 DEF Load
  <2>2. QED BY <1>1, <1>8, <2>1 DEF RoundsOK
<1>11. QED BY <1>1, <1>4, <1>6, <1>7, <1>9, <1>10

LEMMA ReactorStart ==
  ASSUME Connections, kind = "reactor", NEW w \in Workers, Reactor!StartHandler(w), UNCHANGED kind
  PROVE  Connections' /\ UNCHANGED <<status, stopped, guards, stopStep>>
<1>. USE DEF Connections
<1>1. /\ queue[w] # <<>> /\ Head(queue[w]).op = "start"
      /\ queue' = Pop(queue, w)
      /\ op' = [op EXCEPT ![Head(queue[w]).conn] = "read"]
      /\ UNCHANGED <<status, stopped, target, failed, sock, home, wire, got, nextWorker, guards, stopStep>>
  BY DEF Reactor!StartHandler, Reactor!reactorVars, Reactor!Turn, Reactor!Start, Reactor!Conn, Pop
<1>2. w \in Contexts /\ w # Main /\ Main \in Contexts /\ queue \in Queues
  BY ContextFacts DEF Data
<1>3. Head(queue[w]) \in Handlers
  BY <1>1, <1>2, Popped
<1>4. Head(queue[w]).conn \in Clients
  BY <1>1, <1>3 DEF Handlers
<1>5. /\ OnePlace'
      /\ queue' \in Queues
      /\ op' \in [Clients -> {"none", "read", "write"}]
  BY <1>1, <1>2, <1>4, Handled
<1>6. queue'[Main] = queue[Main]
  BY <1>1, <1>2 DEF Pop, Queues
<1>7. Data' /\ HomeOK' /\ AcceptOK'
  BY <1>1, <1>5, <1>6, SameAccept DEF Data, HomeOK
<1>8. QED BY <1>1, <1>5, <1>7, SameRounds

\* stop(), and the threads that start, end and are joined.
LEMMA ReactorControl ==
  ASSUME Control, kind = "reactor", UNCHANGED kind,
         \/ \E w \in Workers : Reactor!StartWorker(w)
         \/ Reactor!RunAcceptor
         \/ \E c \in Contexts : Reactor!Return(c)
         \/ Reactor!Join
         \/ Reactor!StopStep
  PROVE  Control' /\ UNCHANGED <<queue, target, failed, clientVars, nextWorker>>
<1>. USE DEF Control
<1>1. CASE \E w \in Workers : Reactor!StartWorker(w)
  <2>1. PICK w \in Workers : Reactor!StartWorker(w)
    BY <1>1
  <2>2. /\ status' = [status EXCEPT ![w] = "running"]
        /\ stopped' = stopped \/ (w \notin guards /\ stopped' = stopped \cup {w})
        /\ UNCHANGED <<queue, target, failed, clientVars, nextWorker, guards, stopStep>>
    BY <2>1 DEF Reactor!StartWorker, Reactor!SetStatus, Reactor!reactorVars, Reactor!clientVars, clientVars
  <2>3. QED BY <2>2, ContextFacts DEF GuardsOK
<1>2. CASE Reactor!RunAcceptor
  BY <1>2, ContextFacts
     DEF Reactor!RunAcceptor, Reactor!SetStatus, Reactor!reactorVars, Reactor!clientVars, clientVars, GuardsOK
<1>3. CASE \E c \in Contexts : Reactor!Return(c)
  BY <1>3 DEF Reactor!Return, Reactor!SetStatus, Reactor!reactorVars, Reactor!clientVars, clientVars, GuardsOK
<1>4. CASE Reactor!Join
  <2>1. \A c \in Contexts : status[c] = "returned"
    BY <1>4 DEF Reactor!Join, Contexts, Reactor!Contexts, Workers, Reactor!Workers
  <2>2. QED BY <1>4, <2>1, ContextFacts
            DEF Reactor!Join, Reactor!SetStatus, Reactor!reactorVars, Reactor!clientVars, clientVars, GuardsOK
<1>5. CASE Reactor!StopStep
  <2>1. UNCHANGED <<queue, status, target, failed, clientVars, nextWorker>> /\ stopStep' = stopStep + 1
    BY <1>5 DEF Reactor!StopStep, Reactor!clientVars, clientVars
  <2>2. CASE Reactor!ReleaseGuard
    <3>1. /\ stopStep < ThreadCount
          /\ guards' \subseteq guards
          /\ stopped' = stopped \/ stopped' = stopped \cup {stopStep}
      BY <2>2 DEF Reactor!ReleaseGuard
    <3>2. stopStep \in Workers /\ stopStep' \in 0 .. 2 * ThreadCount + 1 /\ stopStep' # 0
      BY <2>1, <3>1, ContextFacts DEF Workers
    <3>3. QED BY <2>1, <3>1, <3>2, ContextFacts DEF GuardsOK
  <2>3. CASE Reactor!StopContext
    <3>1. /\ stopStep \in ThreadCount .. 2 * ThreadCount
          /\ stopped' = stopped \cup {IF stopStep = ThreadCount THEN Main ELSE stopStep - ThreadCount - 1}
          /\ guards' = guards
      BY <2>3 DEF Reactor!StopContext
    <3>2. /\ stopStep = ThreadCount \/ stopStep - ThreadCount - 1 \in Workers
          /\ stopStep' \in 0 .. 2 * ThreadCount + 1 /\ stopStep' # 0
      BY <2>1, <3>1, ContextFacts DEF Workers
    <3>3. stopped' \subseteq Contexts
      BY <3>1, <3>2, ContextFacts
    <3>4. QED BY <2>1, <3>1, <3>2, <3>3 DEF GuardsOK
  <2>4. QED BY <1>5, <2>2, <2>3 DEF Reactor!StopStep
<1>6. QED BY <1>1, <1>2, <1>3, <1>4, <1>5

LEMMA ReactorStep ==
  ASSUME Connections, Control, InReactor(Reactor!Next)
  PROVE  Connections' /\ Control'
<1>1. kind = "reactor" /\ UNCHANGED kind
  BY DEF InReactor
<1>2. CASE Reactor!AcceptHandler
  BY <1>1, <1>2, ReactorAccept, SameControl
<1>3. CASE \E w \in Workers : Reactor!StartHandler(w)
  BY <1>1, <1>3, ReactorStart, SameControl
<1>4. CASE \E w \in Workers : Reactor!Connection(w)
  <2>1. PICK w \in Workers : Reactor!Connection(w)
    BY <1>4
  <2>2. /\ ConnectionHandler(w, Reactor!Api)
        /\ stopped' = stopped \/ (w \notin guards /\ stopped' = stopped \cup {w})
        /\ UNCHANGED <<nextWorker, guards, stopStep>>
        /\ "cut off" \notin Reactor!Api
    BY <2>1, SameParts DEF Reactor!Connection, Reactor!reactorVars, Reactor!Api
  <2>3. Connections' /\ status' = status
    BY <1>1, <2>2, ConnectionStep DEF Own
  <2>4. Control'
    BY <1>1, <2>2, <2>3, ContextFacts DEF Control, GuardsOK
  <2>5. QED BY <2>3, <2>4
<1>5. CASE (Reactor!Kernel \/ \E k \in Clients : Reactor!Client(k)) /\ UNCHANGED Reactor!reactorVars
  <2>1. (Kernel \/ \E k \in Clients : Client(k)) /\ UNCHANGED <<nextWorker, guards, stopStep>>
    BY <1>5, SameParts DEF Reactor!reactorVars
  <2>2. QED BY <1>1, <2>1, OutsideStep, SameControl
<1>6. CASE \/ \E w \in Workers : Reactor!StartWorker(w)
           \/ Reactor!RunAcceptor
           \/ \E c \in Contexts : Reactor!Return(c)
           \/ Reactor!Join
           \/ Reactor!StopStep
  BY <1>1, <1>6, ReactorControl, SameConnections
<1>7. Reactor!Workers = Workers
  BY DEF Reactor!Workers, Workers
<1>8. QED
  BY <1>2, <1>3, <1>4, <1>5, <1>6, <1>7, ContextFacts
  DEF InReactor, Reactor!Next, Reactor!MainThread, Reactor!WorkerThread

-----------------------------------------------------------------------------
\* The invariant, and what follows from it

LEMMA InitInv == Init => IInv
<1>. SUFFICES ASSUME Init PROVE Connections /\ Control
  BY Halves
<1>1. /\ kind \in {"async", "reactor"}
      /\ HttpInit(IF kind = "reactor" THEN 0 ELSE Main)
      /\ stopStep = 0
      /\ kind = "reactor" => nextWorker = 1 % ThreadCount /\ guards = Workers
      /\ kind = "async" => nextWorker = 0 /\ guards = {}
  BY ContextFacts
  DEF Init, Reactor!Init, Async!Init, Reactor!HttpInit, Async!HttpInit, HttpInit, Reactor!Contexts, Async!Contexts,
      Contexts, Reactor!Workers, Async!Workers, Workers, Reactor!Nothing, Async!Nothing, Nothing,
      Reactor!NextWorker, Reactor!InitialGuards
<1>2. /\ queue = [c \in Contexts |-> <<>>] /\ status = [c \in Contexts |-> "idle"] /\ stopped = {}
      /\ target = (IF kind = "reactor" THEN 0 ELSE Main) /\ failed = 0
      /\ sock = [k \in Clients |-> "none"] /\ home = [k \in Clients |-> NULL]
      /\ op = [k \in Clients |-> "none"] /\ wire = [k \in Clients |-> "nothing"]
      /\ got = [k \in Clients |-> Nothing]
  BY <1>1 DEF HttpInit
<1>3. 0 \in Workers /\ nextWorker \in Workers
  <2>1. 1 % ThreadCount \in 0 .. ThreadCount - 1 /\ 0 \in 0 .. ThreadCount - 1
    BY ContextFacts
  <2>2. QED BY <1>1, <2>1 DEF Workers
<1>4. queue \in Queues
  BY <1>2 DEF Queues
<1>5. (\A k \in Clients : Nothing \in Pages(k)) /\ Nothing.rest = "none"
  BY DEF Nothing, Pages
<1>6. Data
  <2>1. got \in Received
    BY <1>2, <1>5 DEF Received
  <2>2. QED BY <1>1, <1>2, <1>3, <1>4, <1>5, <2>1, ContextFacts DEF Data
<1>7. OnePlace
  <2>1. \A c \in Contexts, k \in Clients : HandlersOf(queue[c], k) = 0
    BY <1>2, HandlersEmpty
  <2>2. QED BY <1>2, <2>1, ContextFacts DEF OnePlace, Places
<1>8. HomeOK
  BY <1>1, <1>2, <1>3 DEF HomeOK
<1>9. AcceptOK
  BY <1>1, <1>2, <1>3, ContextFacts DEF AcceptOK
<1>10. RoundsOK
  <2>1. CASE kind = "reactor"
    <3>1. \A w \in Workers : Load(w) = 0
      <4>1. \A w \in Workers : {k \in Clients : home[k] = w} = {}
        BY <1>2, ContextFacts
      <4>2. QED BY <4>1, FS_EmptySet DEF Load
    <3>2. target = 0 /\ target # NULL
      BY <1>2, <1>3, <2>1, ContextFacts
    <3>3. Cardinality(Clients) \in Nat /\ 0 \in 0 .. Cardinality(Clients) + MaxFailures
      BY FS_CardinalityType, ContextFacts
    <3>4. \A w \in Workers : w \in Nat /\ ~(w < 0)
      BY ContextFacts DEF Workers
    <3>5. QED BY <1>2, <3>1, <3>2, <3>3, <3>4 DEF RoundsOK
  <2>2. QED BY <2>1 DEF RoundsOK
<1>11. Control
  BY <1>1, <1>2, ContextFacts DEF Control, GuardsOK
<1>12. QED BY <1>6, <1>7, <1>8, <1>9, <1>10, <1>11 DEF Connections

LEMMA StepInv == IInv /\ [Next]_vars => IInv'
<1>. SUFFICES ASSUME Connections, Control, [Next]_vars
              PROVE  Connections' /\ Control'
  BY Halves
<1>1. CASE InReactor(Reactor!Next)
  BY <1>1, ReactorStep
<1>2. CASE InAsync(Async!Next)
  BY <1>2, AsyncStep
<1>3. CASE UNCHANGED vars
  BY <1>3, SameConnections, SameControl DEF vars, httpVars, clientVars, reactorVars
<1>4. QED BY <1>1, <1>2, <1>3 DEF Next

\* In every state of either server, each connection is in its place and each
\* accept in its turn, and the guards are there until stop() begins.
THEOREM Invariance == Spec => []IInv
BY InitInv, StepInv, PTL DEF Spec

\* The state of both servers keeps its shape; above all, an open connection is
\* always in exactly one place, so that HttpConnection needs no lock and is
\* destroyed with nothing of it in flight.
THEOREM TypeCorrect == Spec => []TypeOK
<1>1. IInv => TypeOK
  BY DEF IInv
<1>2. QED BY <1>1, Invariance, PTL

\* No worker's run() returns before stop() has begun, however many connections
\* there are: the work guards of ReactorHttpServer do their job.
THEOREM WorkersStayUp == Spec => []WorkersStay
<1>1. IInv => WorkersStay
  <2>. SUFFICES ASSUME IInv, kind = "reactor", ~Stopping, NEW c \in Contexts
                PROVE  status[c] # "returned"
    BY DEF WorkersStay
  <2>1. stopStep = 0
    BY ContextFacts DEF IInv, TypeOK, Stopping
  <2>2. QED BY <2>1 DEF IInv, GuardsOK
<1>2. QED BY <1>1, Invariance, PTL

\* next_worker_ deals the connections out evenly: two workers differ by one, and
\* by one more for each accept that failed.
THEOREM LoadIsBalanced == Spec => []Balanced
<1>1. IInv /\ kind = "reactor" => Balanced
  <2>. SUFFICES ASSUME IInv, kind = "reactor", NEW v \in Workers, NEW w \in Workers
                PROVE  Load(v) <= Load(w) + 1 + failed
    BY DEF Balanced
  <2>. DEFINE upTo == IF target = NULL THEN nextWorker ELSE target
              turns(r, u) == IF u < upTo THEN r + 1 ELSE r
  <2>1. PICK r \in 0 .. Cardinality(Clients) + MaxFailures : \A u \in Workers :
           Load(u) <= turns(r, u) /\ turns(r, u) <= Load(u) + failed
    BY DEF IInv, RoundsOK
  <2>2. r \in Nat /\ failed \in Nat /\ Load(v) \in Nat /\ Load(w) \in Nat
    <3>1. Cardinality(Clients) \in Nat /\ MaxFailures \in Nat
      BY FS_CardinalityType, ContextFacts
    <3>2. Load(v) \in 0 .. Cardinality(Clients) /\ Load(w) \in 0 .. Cardinality(Clients)
      BY LoadType DEF Load
    <3>3. QED BY <3>1, <3>2 DEF IInv, TypeOK
  <2>3. turns(r, v) \in {r, r + 1} /\ turns(r, w) \in {r, r + 1}
    OBVIOUS
  <2>. HIDE DEF turns
  <2>4. QED BY <2>1, <2>2, <2>3
<1>2. IInv /\ kind # "reactor" => Balanced
  <2>. SUFFICES ASSUME IInv, kind # "reactor", NEW v \in Workers, NEW w \in Workers
                PROVE  Load(v) <= Load(w) + 1 + failed
    BY DEF Balanced
  <2>1. \A k \in Clients : home[k] \notin Workers
    BY ContextFacts DEF IInv, HomeOK
  <2>2. {k \in Clients : home[k] = v} = {} /\ {k \in Clients : home[k] = w} = {}
    BY <2>1
  <2>3. Load(v) = 0 /\ Load(w) = 0
    BY <2>2, FS_EmptySet DEF Load
  <2>4. failed \in Nat
    BY ContextFacts DEF IInv, TypeOK
  <2>5. QED BY <2>3, <2>4
<1>3. IInv => Balanced
  BY <1>1, <1>2
<1>4. QED BY <1>3, Invariance, PTL
=============================================================================
