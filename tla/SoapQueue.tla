----------------------------- MODULE SoapQueue ------------------------------
(***************************************************************************)
(* The worker queue of the gSOAP server (LinxSrvc/gSOAPverify/main/        *)
(* mainSoap.cc): main_server accepts connections and puts their sockets    *)
(* into a ring buffer, MAX_THR threads running process_queue take them     *)
(* out and serve them, and at shutdown one invalid socket per thread (a    *)
(* poison pill) ends the threads, which main_server then joins in order.   *)
(*                                                                         *)
(* queue_lock is held over several steps only inside dequeue(), where the  *)
(* head is first incremented and then wrapped: the second dequeue(ip)      *)
(* reads the head without the lock and may see the value in between.       *)
(***************************************************************************)
EXTENDS Integers, FiniteSets, Sequences

CONSTANTS
  MAX_QUEUE,   \* slots of the ring; one of them always stays empty
  MAX_THR,     \* number of worker threads
  Conns,       \* connections that clients may open, each accepted once
  Invalid,     \* SOAP_INVALID_SOCKET, the poison pill
  None,        \* no socket: a slot never written, a thread holding nothing
  Nobody       \* the owner of queue_lock when it is free

ASSUME ConstantsAssumption ==
  /\ MAX_QUEUE \in Nat /\ MAX_QUEUE >= 2
  /\ MAX_THR \in Nat /\ MAX_THR >= 1
  /\ Invalid \notin Conns /\ None \notin Conns /\ Invalid # None

ASSUME NobodyAssumption == Nobody \notin 0 .. MAX_THR - 1

Workers == 0 .. MAX_THR - 1     \* indices into tid[] and soap_thr[]
Slots   == 0 .. MAX_QUEUE - 1
Sockets == Conns \cup {Invalid}

VARIABLES
  queue, head, tail,   \* the ring
  lock,                \* owner of queue_lock
  mpc, i, sock,        \* main_server: control, loop index, socket in hand
  wpc, job, j,         \* process_queue: control, serv->socket, index of ips[]
  fresh,               \* connections no client has opened yet
  served               \* connections soap_serve has finished with

ring == <<queue, head, tail>>
main == <<mpc, i, sock>>
workers == <<wpc, job, j>>
vars == <<queue, head, tail, lock, mpc, i, sock, wpc, job, j, fresh, served>>

-----------------------------------------------------------------------------
Init ==
  /\ queue = [s \in Slots |-> None] /\ head = 0 /\ tail = 0
  /\ lock = Nobody
  /\ mpc = "bind" /\ i = 0 /\ sock = None
  /\ wpc = [w \in Workers |-> "unborn"]
  /\ job = [w \in Workers |-> None]
  /\ j = [w \in Workers |-> 0]
  /\ fresh = Conns /\ served = {}

-----------------------------------------------------------------------------
(* main_server *)

MainTo(pc, n) == mpc' = pc /\ i' = n

\* soap_bind succeeds.
Bind ==
  /\ mpc = "bind" /\ MainTo("spawn", 0)
  /\ UNCHANGED <<ring, lock, sock, workers, fresh, served>>

\* soap_bind fails: "valid" is still 0 on the first pass of the loop, and
\* the process exits before it binds again.
BindFails ==
  /\ mpc = "bind" /\ MainTo("failed", 0)
  /\ UNCHANGED <<ring, lock, sock, workers, fresh, served>>

\* pthread_create of worker i; after the last one the accept loop begins.
Spawn ==
  /\ mpc = "spawn"
  /\ wpc' = [wpc EXCEPT ![i] = "dequeue"]
  /\ IF i + 1 < MAX_THR THEN MainTo("spawn", i + 1) ELSE MainTo("accept", 0)
  /\ UNCHANGED <<ring, lock, sock, job, j, fresh, served>>

\* soap_accept returns a connection. An accept that fails with errnum set
\* only prints the fault and continues: it changes nothing.
Accept(c) ==
  /\ mpc = "accept" /\ c \in fresh
  /\ sock' = c /\ fresh' = fresh \ {c} /\ MainTo("enqueue", i)
  /\ UNCHANGED <<ring, lock, workers, served>>

\* soap_accept fails with errnum zero: "Server timed out".
AcceptTimeout ==
  /\ mpc = "accept" /\ MainTo("pill", 0)
  /\ UNCHANGED <<ring, lock, sock, workers, fresh, served>>

Next1(t) == (t + 1) % MAX_QUEUE

\* pthread_cond_signal wakes one of the threads blocked in cond_wait.
Waiting == {w \in Workers : wpc[w] = "waiting"}
SignalForgotten == UNCHANGED wpc                              \* mutant of Signal
Signal ==
  \/ Waiting = {} /\ UNCHANGED wpc
  \/ \E w \in Waiting : wpc' = [wpc EXCEPT ![w] = "woken"]

\* Mutant of enqueue: no test for the full ring.
enqueueUnchecked(x) ==
  /\ lock = Nobody
  /\ queue' = [queue EXCEPT ![tail] = x] /\ tail' = Next1(tail) /\ Signal
  /\ UNCHANGED <<head, lock, job, j>>

\* enqueue(): when it returns SOAP_EOM the caller sleeps and calls it again,
\* which changes nothing.
enqueue(x) ==
  /\ lock = Nobody
  /\ Next1(tail) # head
  /\ queue' = [queue EXCEPT ![tail] = x]
  /\ tail' = Next1(tail)
  /\ Signal
  /\ UNCHANGED <<head, lock, job, j>>

EnqueueConn ==
  /\ mpc = "enqueue" /\ enqueue(sock)
  /\ sock' = None /\ MainTo("accept", i)
  /\ UNCHANGED <<fresh, served>>

\* Mutant of EnqueuePill: one pill too few.
EnqueuePillOneShort ==
  /\ mpc = "pill" /\ enqueue(Invalid)
  /\ IF i + 2 < MAX_THR THEN MainTo("pill", i + 1) ELSE MainTo("join", 0)
  /\ UNCHANGED <<sock, fresh, served>>

EnqueuePill ==
  /\ mpc = "pill" /\ enqueue(Invalid)
  /\ IF i + 1 < MAX_THR THEN MainTo("pill", i + 1) ELSE MainTo("join", 0)
  /\ UNCHANGED <<sock, fresh, served>>

\* Mutant of Join: the threads are not waited for.
JoinUnwaited ==
  /\ mpc = "join"
  /\ IF i + 1 < MAX_THR THEN MainTo("join", i + 1) ELSE MainTo("done", 0)
  /\ UNCHANGED <<ring, lock, sock, workers, fresh, served>>

\* pthread_join of worker i, soap_done and free of its environment.
Join ==
  /\ mpc = "join" /\ wpc[i] = "ended"
  /\ IF i + 1 < MAX_THR THEN MainTo("join", i + 1) ELSE MainTo("done", 0)
  /\ UNCHANGED <<ring, lock, sock, workers, fresh, served>>

-----------------------------------------------------------------------------
(* process_queue, one step per access to the shared state *)

WorkerTo(w, pc) == wpc' = [wpc EXCEPT ![w] = pc]

\* dequeue() finds the ring empty: it releases the lock and blocks.
DequeueWait(w) ==
  /\ wpc[w] \in {"dequeue", "woken"} /\ lock = Nobody /\ head = tail
  /\ WorkerTo(w, "waiting")
  /\ UNCHANGED <<ring, lock, main, job, j, fresh, served>>

\* pthread_cond_wait may return without a signal.
SpuriousWakeup(w) ==
  /\ wpc[w] = "waiting" /\ WorkerTo(w, "woken")
  /\ UNCHANGED <<ring, lock, main, job, j, fresh, served>>

\* Mutant of DequeueTake: "if" for "while" around pthread_cond_wait.
DequeueTakeNoRecheck(w) ==
  /\ lock = Nobody
  /\ wpc[w] = "woken" \/ (wpc[w] = "dequeue" /\ head # tail)
  /\ job' = [job EXCEPT ![w] = queue[head]]
  /\ head' = head + 1 /\ lock' = w /\ WorkerTo(w, "wrap")
  /\ UNCHANGED <<queue, tail, main, j, fresh, served>>

\* dequeue() takes queue[head++] and still holds the lock.
DequeueTake(w) ==
  /\ wpc[w] \in {"dequeue", "woken"} /\ lock = Nobody /\ head # tail
  /\ job' = [job EXCEPT ![w] = queue[head]]
  /\ head' = head + 1 /\ lock' = w
  /\ WorkerTo(w, "wrap")
  /\ UNCHANGED <<queue, tail, main, j, fresh, served>>

\* dequeue() wraps the head and releases the lock.
DequeueWrap(w) ==
  /\ wpc[w] = "wrap"
  /\ head' = IF head >= MAX_QUEUE THEN 0 ELSE head
  /\ lock' = Nobody /\ WorkerTo(w, "testhead")
  /\ UNCHANGED <<queue, tail, main, job, j, fresh, served>>

\* Mutant of IpTestHead: no case for head = 0.
IpTestHeadMissing(w) ==
  /\ wpc[w] = "testhead" /\ WorkerTo(w, "readhead")
  /\ UNCHANGED <<ring, lock, main, job, j, fresh, served>>

\* dequeue(ip) tests head without the lock ...
IpTestHead(w) ==
  /\ wpc[w] = "testhead"
  /\ IF head = 0 THEN j' = [j EXCEPT ![w] = MAX_QUEUE - 1] /\ WorkerTo(w, "run")
                 ELSE WorkerTo(w, "readhead") /\ UNCHANGED j
  /\ UNCHANGED <<ring, lock, main, job, fresh, served>>

\* ... and reads it again for the index: another thread may have moved it.
IpReadHead(w) ==
  /\ wpc[w] = "readhead"
  /\ j' = [j EXCEPT ![w] = head - 1] /\ WorkerTo(w, "run")
  /\ UNCHANGED <<ring, lock, main, job, fresh, served>>

\* soap_serve answers the request and closes the socket.
Serve(w) ==
  /\ wpc[w] = "run" /\ job[w] # Invalid
  /\ served' = served \cup {job[w]}
  /\ job' = [job EXCEPT ![w] = None] /\ WorkerTo(w, "dequeue")
  /\ UNCHANGED <<ring, lock, main, j, fresh>>

\* The socket is a poison pill: the thread leaves its loop.
Terminate(w) ==
  /\ wpc[w] = "run" /\ job[w] = Invalid
  /\ WorkerTo(w, "ended")
  /\ UNCHANGED <<ring, lock, main, job, j, fresh, served>>

-----------------------------------------------------------------------------
MainStep ==
  \/ Bind \/ BindFails \/ Spawn \/ AcceptTimeout
  \/ \E c \in Conns : Accept(c)
  \/ EnqueueConn \/ EnqueuePill \/ Join

WorkerStep(w) ==
  \/ DequeueWait(w) \/ SpuriousWakeup(w) \/ DequeueTake(w) \/ DequeueWrap(w)
  \/ IpTestHead(w) \/ IpReadHead(w) \/ Serve(w) \/ Terminate(w)

Next == MainStep \/ \E w \in Workers : WorkerStep(w)

Spec == Init /\ [][Next]_vars

\* The server's steps are fair; clients need not come, accept need not time
\* out, wakeups need not be spurious, and a client in Stuck may keep its
\* worker inside soap_serve for ever (no receive timeout is set).
Fairness(Stuck) ==
  /\ WF_vars(Bind \/ BindFails) /\ WF_vars(Spawn)
  /\ WF_vars(EnqueueConn) /\ WF_vars(EnqueuePill) /\ WF_vars(Join)
  /\ \A w \in Workers :
       /\ WF_vars(DequeueWait(w) \/ DequeueTake(w) \/ DequeueWrap(w))
       /\ WF_vars(IpTestHead(w) \/ IpReadHead(w) \/ Terminate(w))
       /\ WF_vars(job[w] \notin Stuck /\ Serve(w))

-----------------------------------------------------------------------------
(* Views of the ring *)

\* The head as enqueue and the next dequeue see it, once it is wrapped.
Front == IF head >= MAX_QUEUE THEN 0 ELSE head

\* The k-th slot from the front, for k below MAX_QUEUE.
Slot(k) == IF Front + k >= MAX_QUEUE THEN Front + k - MAX_QUEUE ELSE Front + k

Occupancy == IF Front <= tail THEN tail - Front ELSE tail - Front + MAX_QUEUE

\* The sockets in the ring, oldest first.
Contents == [k \in 1 .. Occupancy |-> queue[Slot(k - 1)]]

\* The slots from the front up to the tail.
Occupied == {s \in Slots : IF Front <= tail THEN Front <= s /\ s < tail
                                            ELSE Front <= s \/ s < tail}

Queued == {queue[s] : s \in Occupied}
InHand == {job[w] : w \in Workers}

-----------------------------------------------------------------------------
(* Properties *)

\* Every variable has its type: head is MAX_QUEUE only between the increment
\* and the wrap in dequeue(), and then its thread holds queue_lock.
TypeOK ==
  /\ queue \in [Slots -> Sockets \cup {None}]
  /\ head \in 0 .. MAX_QUEUE /\ tail \in Slots
  /\ lock \in Workers \cup {Nobody}
  /\ mpc \in {"bind", "failed", "spawn", "accept", "enqueue", "pill", "join",
              "done"}
  /\ i \in Workers /\ sock \in Conns \cup {None}
  /\ wpc \in [Workers -> {"unborn", "dequeue", "waiting", "woken", "wrap",
                          "testhead", "readhead", "run", "ended"}]
  /\ job \in [Workers -> Sockets \cup {None}]
  /\ j \in [Workers -> -1 .. MAX_QUEUE - 1]
  /\ fresh \subseteq Conns /\ served \subseteq Conns
  /\ head = MAX_QUEUE => lock # Nobody

\* A connection is never lost and never handed out twice: it is unopened, in
\* main_server's hand, in exactly one occupied slot, with exactly one worker,
\* or served (enqueue and dequeue over a ring whose slots are reused).
ExactlyOnePlace ==
  /\ Conns = fresh \cup ({sock} \ {None}) \cup (Queued \ {Invalid})
             \cup (InHand \ {None, Invalid}) \cup served
  /\ fresh \cap served = {} /\ sock \notin fresh \cup served
  /\ Queued \cap (fresh \cup served \cup {sock}) = {}
  /\ (InHand \ {None}) \cap (fresh \cup served \cup {sock}) = {}
  /\ InHand \cap Queued \subseteq {Invalid}
  /\ \A s, t \in Occupied : s # t /\ queue[s] = queue[t] => queue[s] = Invalid
  /\ \A v, w \in Workers : v # w /\ job[v] = job[w] => job[v] \in {None, Invalid}

\* pthread_cond_signal is called once per socket and wakes one thread: while
\* threads are blocked in cond_wait, enough others are on their way back to
\* dequeue() to take all that is in the ring, so no wakeup is ever lost.
Awake == {w \in Workers : wpc[w] \notin {"unborn", "waiting", "ended"}
                          /\ job[w] # Invalid}
NoLostWakeup == Waiting # {} => Occupancy <= Cardinality(Awake)

\* The pills go in behind every connection, one per thread: once main_server
\* has joined all threads nothing that was accepted is left unserved and the
\* ring is empty.
DrainedAtShutdown ==
  mpc = "done" => /\ Occupancy = 0
                  /\ served = Conns \ fresh
                  /\ \A w \in Workers : wpc[w] = "ended"

\* The unlocked dequeue(ip) may compute an index of any slot, or -1, because
\* other workers move the head under its two reads; but the worker that took
\* its connection last always gets the index of the slot it took it from.
IpIndexOfLast ==
  LET last == IF Front = 0 THEN MAX_QUEUE - 1 ELSE Front - 1
  IN  \A w \in Workers :
        wpc[w] = "run" /\ job[w] = queue[last] /\ job[w] # Invalid => j[w] = last

\* Every accepted connection whose client lets its worker go is served in the
\* end, through a full ring, spurious wakeups and the shutdown, even when other
\* clients hold all workers but one.
AcceptedIsServed(Stuck) == \A c \in Conns \ Stuck : c \notin fresh ~> c \in served

\* The server is the first-in first-out server of FifoServer: a ring slot is
\* never overwritten before it is read, and no connection is overtaken by a
\* pill or by a younger connection.
Fifo == INSTANCE FifoServer WITH
          Requests <- Conns, Capacity <- MAX_QUEUE - 1, End <- Invalid,
          Nothing <- None, line <- Contents, hand <- job,
          closed <- mpc \in {"pill", "join", "done"}, answered <- served
ImplementsFifo == Fifo!Spec

\* Once accept has timed out, main_server ends: every pill finds a slot, every
\* thread finds a pill, and the joins return - unless a client keeps a worker.
ShutdownEnds(Stuck) == mpc = "pill" ~> mpc = "done" \/ InHand \cap Stuck # {}

=============================================================================
