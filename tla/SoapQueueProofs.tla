-------------------------- MODULE SoapQueueProofs ---------------------------
(***************************************************************************)
(* Proofs about SoapQueue for every ring size, number of workers and set   *)
(* of connections; at the end, that the ring buffer implements the bounded *)
(* first-in first-out server.                                              *)
(***************************************************************************)
EXTENDS SoapQueue, FiniteSetTheorems, SequenceTheorems, TLAPS

\* The successor of a ring position, as enqueue computes it, stays in the
\* ring: it is the next position, or 0 after the last one.
LEMMA Next1Value ==
  ASSUME NEW t \in Slots
  PROVE  Next1(t) = IF t + 1 = MAX_QUEUE THEN 0 ELSE t + 1
<1> USE ConstantsAssumption DEF Slots, Next1
<1>1. CASE t + 1 = MAX_QUEUE
  BY <1>1
<1>2. CASE t + 1 # MAX_QUEUE
  BY <1>2
<1>3. QED BY <1>1, <1>2

-----------------------------------------------------------------------------
(* The inductive invariant *)

\* Exactly the thread between the increment and the wrap owns queue_lock.
LockInv == \A w \in Workers : wpc[w] = "wrap" <=> lock = w

\* A thread holds a socket from the take to the end of its turn, and a thread
\* that has ended holds its pill.
Idle == {"unborn", "dequeue", "waiting", "woken"}
HandInv ==
  /\ \A w \in Workers : job[w] = None <=> wpc[w] \in Idle
  /\ \A w \in Workers : wpc[w] = "ended" => job[w] = Invalid
  /\ sock = None <=> mpc # "enqueue"

\* The threads that main_server has still to create do not exist yet.
SpawnInv ==
  /\ mpc \in {"bind", "failed"} => i = 0
  /\ mpc \in {"bind", "failed", "spawn"} =>
       \A w \in Workers : w >= i => wpc[w] = "unborn"

\* Occupied slots have been written.
QueuedInv == Queued \subseteq Sockets

IInv ==
  /\ TypeOK /\ LockInv /\ HandInv /\ SpawnInv
  /\ QueuedInv /\ ExactlyOnePlace

-----------------------------------------------------------------------------
(* What one step does to the set of occupied slots *)

\* enqueue adds the slot at the tail, which was not occupied.
LEMMA OccupiedByEnqueue ==
  ASSUME TypeOK, lock = Nobody, Next1(tail) # head,
         tail' = Next1(tail), head' = head
  PROVE  /\ Occupied' = Occupied \cup {tail}
         /\ tail \notin Occupied
<1> USE ConstantsAssumption DEF Slots
<1>1. /\ tail' = IF tail + 1 = MAX_QUEUE THEN 0 ELSE tail + 1
      /\ head \in 0 .. MAX_QUEUE - 1 /\ tail \in 0 .. MAX_QUEUE - 1
  BY Next1Value DEF TypeOK
<1>2. Front = head /\ Front' = head
  BY <1>1 DEF Front
<1>3. tail' # head
  OBVIOUS
<1>4. QED BY <1>1, <1>2, <1>3 DEF Occupied

\* The increment in dequeue removes the slot at the head, which was occupied.
LEMMA OccupiedByTake ==
  ASSUME TypeOK, lock = Nobody, head # tail, head' = head + 1, tail' = tail
  PROVE  /\ Occupied' = Occupied \ {head}
         /\ head \in Occupied
<1> USE ConstantsAssumption DEF Slots
<1>1. head \in 0 .. MAX_QUEUE - 1 /\ tail \in 0 .. MAX_QUEUE - 1
  BY DEF TypeOK
<1>2. Front = head /\ Front' = IF head + 1 = MAX_QUEUE THEN 0 ELSE head + 1
  BY <1>1 DEF Front
<1>3. QED BY <1>1, <1>2 DEF Occupied

\* The wrap in dequeue leaves the occupied slots alone.
LEMMA OccupiedByWrap ==
  ASSUME TypeOK, head' = (IF head >= MAX_QUEUE THEN 0 ELSE head), tail' = tail
  PROVE  Occupied' = Occupied
<1>1. Front' = Front
  BY ConstantsAssumption DEF Front, TypeOK
<1>2. QED BY <1>1 DEF Occupied

-----------------------------------------------------------------------------
(* Every step preserves the inductive invariant *)

\* What enqueue leaves alone, and the types of what it changes.
EnqueueFrame ==
  /\ queue' \in [Slots -> Sockets \cup {None}] /\ tail' \in Slots
  /\ \/ wpc' = wpc
     \/ \E v \in Workers : wpc[v] = "waiting" /\ wpc' = [wpc EXCEPT ![v] = "woken"]
  /\ UNCHANGED <<head, lock, job, j>>

LEMMA EnqueueFrames ==
  ASSUME TypeOK, NEW x \in Sockets, enqueue(x)
  PROVE  EnqueueFrame
<1>1. tail \in Slots /\ queue \in [Slots -> Sockets \cup {None}]
  BY DEF TypeOK
<1>2. tail' \in Slots
  BY <1>1, Next1Value, ConstantsAssumption DEF enqueue, Slots
<1>3. QED BY <1>1, <1>2 DEF enqueue, Signal, Waiting, EnqueueFrame

\* Types and control: TypeOK, LockInv, HandInv and SpawnInv are preserved
\* together.
LEMMA ControlStep ==
  ASSUME TypeOK, LockInv, HandInv, SpawnInv, QueuedInv, Next
  PROVE  TypeOK' /\ LockInv' /\ HandInv' /\ SpawnInv'
<1> USE ConstantsAssumption, NobodyAssumption
    DEF TypeOK, LockInv, HandInv, SpawnInv, Idle, Workers, Sockets,
        ring, main, workers, MainTo, WorkerTo
<1>1. CASE Bind
  BY <1>1 DEF Bind
<1>2. CASE BindFails
  BY <1>2 DEF BindFails
<1>3. CASE Spawn
  <2>1. /\ mpc = "spawn" /\ i' \in Workers
        /\ mpc' = "accept" \/ (mpc' = "spawn" /\ i' = i + 1)
        /\ wpc' = [wpc EXCEPT ![i] = "dequeue"]
        /\ UNCHANGED <<ring, lock, sock, job, j, fresh, served>>
    BY <1>3 DEF Spawn
  <2>2. QED BY <2>1
<1>4. CASE AcceptTimeout
  BY <1>4 DEF AcceptTimeout
<1>5. ASSUME NEW c \in Conns, Accept(c)
      PROVE  TypeOK' /\ LockInv' /\ HandInv' /\ SpawnInv'
  BY <1>5 DEF Accept
<1>6. ASSUME NEW x \in Sockets, enqueue(x)
      PROVE  EnqueueFrame
  BY <1>6, EnqueueFrames
<1>7. CASE EnqueueConn
  <2>1. sock \in Sockets /\ enqueue(sock)
    BY <1>7 DEF EnqueueConn
  <2>2. UNCHANGED <<fresh, served>> /\ sock' = None /\ mpc' = "accept" /\ i' = i
    BY <1>7 DEF EnqueueConn
  <2>3. /\ queue' \in [Slots -> Sockets \cup {None}] /\ tail' \in Slots
        /\ UNCHANGED <<head, lock, job, j>>
    BY <1>6, <2>1 DEF EnqueueFrame
  <2>4. CASE wpc' = wpc
    BY <2>1, <2>2, <2>3, <2>4
  <2>5. ASSUME NEW v \in Workers, wpc[v] = "waiting", wpc' = [wpc EXCEPT ![v] = "woken"]
        PROVE  TypeOK' /\ LockInv' /\ HandInv' /\ SpawnInv'
    BY <2>1, <2>2, <2>3, <2>5
  <2>6. QED BY <1>6, <2>1, <2>4, <2>5 DEF EnqueueFrame
<1>8. CASE EnqueuePill
  <2>1. enqueue(Invalid) /\ Invalid \in Sockets
    BY <1>8 DEF EnqueuePill
  <2>2. /\ UNCHANGED <<sock, fresh, served>>
        /\ mpc = "pill" /\ mpc' \in {"pill", "join"} /\ i' \in Workers
    BY <1>8 DEF EnqueuePill
  <2>3. /\ queue' \in [Slots -> Sockets \cup {None}] /\ tail' \in Slots
        /\ UNCHANGED <<head, lock, job, j>>
    BY <1>6, <2>1 DEF EnqueueFrame
  <2>4. CASE wpc' = wpc
    BY <2>1, <2>2, <2>3, <2>4
  <2>5. ASSUME NEW v \in Workers, wpc[v] = "waiting", wpc' = [wpc EXCEPT ![v] = "woken"]
        PROVE  TypeOK' /\ LockInv' /\ HandInv' /\ SpawnInv'
    BY <2>1, <2>2, <2>3, <2>5
  <2>6. QED BY <1>6, <2>1, <2>4, <2>5 DEF EnqueueFrame
<1>9. CASE Join
  BY <1>9 DEF Join
<1>10. ASSUME NEW w \in Workers, WorkerStep(w)
       PROVE  TypeOK' /\ LockInv' /\ HandInv' /\ SpawnInv'
  <2>1. CASE DequeueWait(w)
    BY <2>1 DEF DequeueWait
  <2>2. CASE SpuriousWakeup(w)
    BY <2>2 DEF SpuriousWakeup
  <2>3. CASE DequeueTake(w)
    <3>1. head \in Slots /\ queue[head] \in Sockets
      BY <2>3, OccupiedByTake DEF DequeueTake, QueuedInv, Queued, Occupied
    <3>2. QED BY <2>3, <3>1 DEF DequeueTake, Slots
  <2>4. CASE DequeueWrap(w)
    BY <2>4 DEF DequeueWrap, Slots
  <2>5. CASE IpTestHead(w)
    <3>1. CASE head = 0
      <4>1. j' = [j EXCEPT ![w] = MAX_QUEUE - 1] /\ wpc' = [wpc EXCEPT ![w] = "run"]
        BY <2>5, <3>1 DEF IpTestHead
      <4>2. QED BY <2>5, <4>1 DEF IpTestHead
    <3>2. CASE head # 0
      BY <2>5, <3>2 DEF IpTestHead
    <3>3. QED BY <3>1, <3>2
  <2>6. CASE IpReadHead(w)
    BY <2>6 DEF IpReadHead
  <2>7. CASE Serve(w)
    BY <2>7 DEF Serve
  <2>8. CASE Terminate(w)
    BY <2>8 DEF Terminate
  <2>9. QED BY <1>10, <2>1, <2>2, <2>3, <2>4, <2>5, <2>6, <2>7, <2>8 DEF WorkerStep
<1>11. QED
  BY <1>1, <1>2, <1>3, <1>4, <1>5, <1>7, <1>8, <1>9, <1>10 DEF Next, MainStep

\* What enqueue(x) does to the sockets in the ring.
LEMMA QueuedByEnqueue ==
  ASSUME TypeOK, NEW x, enqueue(x)
  PROVE  /\ Queued' = Queued \cup {x}
         /\ Occupied' = Occupied \cup {tail} /\ tail \notin Occupied
         /\ queue'[tail] = x
         /\ \A s \in Occupied : queue'[s] = queue[s]
<1>1. Occupied' = Occupied \cup {tail} /\ tail \notin Occupied
  BY OccupiedByEnqueue DEF enqueue
<1>2. queue'[tail] = x /\ \A s \in Occupied : queue'[s] = queue[s]
  BY <1>1 DEF enqueue, TypeOK, Occupied
<1>3. QED BY <1>1, <1>2 DEF Queued

\* What the take does to them, when no connection is in two slots.
LEMMA QueuedByTake ==
  ASSUME TypeOK, NEW w \in Workers, DequeueTake(w),
         \A s, t \in Occupied : s # t /\ queue[s] = queue[t] => queue[s] = Invalid
  PROVE  /\ queue[head] \in Queued
         /\ Queued' \cup {queue[head]} = Queued
         /\ queue[head] \in Queued' => queue[head] = Invalid
         /\ Occupied' \subseteq Occupied
<1>1. Occupied' = Occupied \ {head} /\ head \in Occupied
  BY OccupiedByTake DEF DequeueTake
<1>2. queue' = queue
  BY DEF DequeueTake
<1>3. QED BY <1>1, <1>2 DEF Queued

\* Steps that touch neither the sockets held nor the ring keep every
\* connection in its place.
LEMMA PlaceUnchanged ==
  ASSUME ExactlyOnePlace,
         UNCHANGED <<queue, job, sock, fresh, served>>, Occupied' = Occupied
  PROVE  ExactlyOnePlace'
BY DEF ExactlyOnePlace, Queued, InHand

LEMMA PlaceStep ==
  ASSUME TypeOK, LockInv, HandInv, QueuedInv, ExactlyOnePlace, Next
  PROVE  QueuedInv' /\ ExactlyOnePlace'
<1>1. ASSUME UNCHANGED <<queue, head, tail, job, sock, fresh, served>>
      PROVE  QueuedInv' /\ ExactlyOnePlace'
  <2>1. Occupied' = Occupied
    BY <1>1 DEF Occupied, Front
  <2>2. QED BY <1>1, <2>1, PlaceUnchanged DEF QueuedInv, Queued
<1>2. CASE Bind \/ BindFails \/ Spawn \/ AcceptTimeout \/ Join
  BY <1>1, <1>2 DEF Bind, BindFails, Spawn, AcceptTimeout, Join, ring, workers
<1>3. ASSUME NEW c \in Conns, Accept(c)
      PROVE  QueuedInv' /\ ExactlyOnePlace'
  <2>1. /\ Occupied' = Occupied /\ Queued' = Queued /\ InHand' = InHand
        /\ queue' = queue /\ job' = job
    BY <1>3 DEF Accept, Occupied, Front, Queued, InHand, ring, workers
  <2>2. /\ sock = None /\ sock' = c /\ fresh' = fresh \ {c} /\ c \in fresh
        /\ served' = served /\ None \notin Conns
    BY <1>3, ConstantsAssumption DEF Accept, HandInv
  <2>3. Queued \subseteq Sockets
    BY DEF QueuedInv
  <2>4. QED
    BY <2>1, <2>2, <2>3, ConstantsAssumption
    DEF ExactlyOnePlace, QueuedInv, Sockets
<1>4. CASE EnqueueConn
  <2>1. enqueue(sock) /\ sock \in Conns /\ job' = job /\ sock' = None
        /\ UNCHANGED <<fresh, served>>
    BY <1>4 DEF EnqueueConn, enqueue, HandInv, TypeOK
  <2>2. InHand' = InHand
    BY <2>1 DEF InHand
  <2>3. QueuedInv'
    BY <2>1, QueuedByEnqueue DEF QueuedInv, Sockets
  <2>4. \A s, t \in Occupied' :
          s # t /\ queue'[s] = queue'[t] => queue'[s] = Invalid
    BY <2>1, QueuedByEnqueue DEF ExactlyOnePlace, Queued
  <2>5. None \notin Queued' /\ None \notin fresh \cup served
    BY <2>3, ConstantsAssumption DEF QueuedInv, Sockets, TypeOK, ExactlyOnePlace
  <2>6. QED
    BY <2>1, <2>2, <2>3, <2>4, <2>5, QueuedByEnqueue, ConstantsAssumption
    DEF ExactlyOnePlace
<1>5. CASE EnqueuePill
  <2>1. enqueue(Invalid) /\ job' = job
        /\ UNCHANGED <<sock, fresh, served>>
    BY <1>5 DEF EnqueuePill, enqueue
  <2>2. InHand' = InHand
    BY <2>1 DEF InHand
  <2>3. QueuedInv'
    BY <2>1, QueuedByEnqueue DEF QueuedInv, Sockets
  <2>4. \A s, t \in Occupied' :
          s # t /\ queue'[s] = queue'[t] => queue'[s] = Invalid
    BY <2>1, QueuedByEnqueue DEF ExactlyOnePlace, Queued
  <2>5. Invalid \notin fresh \cup served \cup {sock}
    BY ConstantsAssumption DEF TypeOK
  <2>6. QED
    BY <2>1, <2>2, <2>3, <2>4, <2>5, QueuedByEnqueue, ConstantsAssumption
    DEF ExactlyOnePlace
<1>6. ASSUME NEW w \in Workers, DequeueTake(w)
      PROVE  QueuedInv' /\ ExactlyOnePlace'
  <2>1. /\ queue' = queue /\ UNCHANGED <<sock, fresh, served>>
        /\ job[w] = None /\ job' = [job EXCEPT ![w] = queue[head]]
    BY <1>6 DEF DequeueTake, HandInv, Idle, main
  <2>2. /\ queue[head] \in Queued
        /\ Queued' \cup {queue[head]} = Queued
        /\ queue[head] \in Queued' => queue[head] = Invalid
        /\ Occupied' \subseteq Occupied
    BY <1>6, QueuedByTake DEF ExactlyOnePlace
  <2>3. InHand' \ {None} = (InHand \ {None}) \cup {queue[head]}
    <3>1. job \in [Workers -> Sockets \cup {None}] /\ queue[head] # None
      BY <2>2, ConstantsAssumption DEF TypeOK, QueuedInv, Sockets
    <3>2. job'[w] = queue[head] /\ \A v \in Workers \ {w} : job'[v] = job[v]
      BY <2>1, <3>1
    <3>3. QED BY <2>1, <3>1, <3>2 DEF InHand
  <2>4. \A u, v \in Workers :
          u # v /\ job'[u] = job'[v] => job'[u] \in {None, Invalid}
    BY <2>1, <2>2 DEF ExactlyOnePlace, InHand, TypeOK
  <2>5. None \notin Queued
    BY ConstantsAssumption DEF QueuedInv, Sockets
  <2>6. QED BY <2>1, <2>2, <2>3, <2>4, <2>5 DEF ExactlyOnePlace, QueuedInv
<1>7. ASSUME NEW w \in Workers, DequeueWrap(w)
      PROVE  QueuedInv' /\ ExactlyOnePlace'
  <2>1. Occupied' = Occupied
    BY <1>7, OccupiedByWrap DEF DequeueWrap
  <2>2. UNCHANGED <<queue, job, sock, fresh, served>>
    BY <1>7 DEF DequeueWrap, main
  <2>3. QED BY <2>1, <2>2, PlaceUnchanged DEF QueuedInv, Queued
<1>8. ASSUME NEW w \in Workers, Serve(w)
      PROVE  QueuedInv' /\ ExactlyOnePlace'
  <2>1. /\ UNCHANGED <<queue, head, tail, sock, fresh>>
        /\ served' = served \cup {job[w]} /\ job' = [job EXCEPT ![w] = None]
        /\ job[w] \in Conns
    BY <1>8 DEF Serve, HandInv, Idle, TypeOK, Sockets, ring, main
  <2>2. Occupied' = Occupied /\ Queued' = Queued
    BY <2>1 DEF Occupied, Front, Queued
  <2>3. job'[w] = None /\ \A v \in Workers \ {w} : job'[v] = job[v] /\ job[v] # job[w]
    BY <2>1, ConstantsAssumption DEF TypeOK, ExactlyOnePlace
  <2>4. InHand' \ {None} = InHand \ {None, job[w]} /\ job[w] \in InHand
    BY <2>3 DEF InHand
  <2>5. \A u, v \in Workers :
          u # v /\ job'[u] = job'[v] => job'[u] \in {None, Invalid}
    BY <2>3 DEF ExactlyOnePlace
  <2>6. None \notin Queued
    BY ConstantsAssumption DEF QueuedInv, Sockets
  <2>7. QED
    BY <2>1, <2>2, <2>4, <2>5, <2>6, ConstantsAssumption
    DEF ExactlyOnePlace, QueuedInv
<1>9. ASSUME NEW w \in Workers,
             DequeueWait(w) \/ SpuriousWakeup(w) \/ IpTestHead(w)
             \/ IpReadHead(w) \/ Terminate(w)
      PROVE  QueuedInv' /\ ExactlyOnePlace'
  BY <1>1, <1>9
  DEF DequeueWait, SpuriousWakeup, IpTestHead, IpReadHead, Terminate, ring, main
<1>10. QED
  BY <1>2, <1>3, <1>4, <1>5, <1>6, <1>7, <1>8, <1>9
  DEF Next, MainStep, WorkerStep

-----------------------------------------------------------------------------
(* The theorems *)

\* IInv is an inductive invariant of the queue.
THEOREM Invariance == Spec => []IInv
<1>1. Init => IInv
  BY ConstantsAssumption, NobodyAssumption
  DEF Init, IInv, TypeOK, LockInv, HandInv, SpawnInv, QueuedInv, ExactlyOnePlace, Idle,
      Queued, InHand, Occupied, Front, Workers, Slots, Sockets
<1>2. IInv /\ [Next]_vars => IInv'
  <2> SUFFICES ASSUME IInv, [Next]_vars PROVE IInv'
    OBVIOUS
  <2>1. CASE Next
    BY <2>1, ControlStep, PlaceStep DEF IInv
  <2>2. CASE UNCHANGED vars
    BY <2>2 DEF vars, IInv, TypeOK, LockInv, HandInv, SpawnInv, QueuedInv,
       ExactlyOnePlace, Queued, InHand, Occupied, Front
  <2>3. QED BY <2>1, <2>2
<1>3. QED BY <1>1, <1>2, PTL DEF Spec

\* Types, for every ring size, number of workers and set of connections.
THEOREM TypeCorrect == Spec => []TypeOK
<1>1. IInv => TypeOK
  BY DEF IInv
<1>2. QED BY <1>1, Invariance, PTL

\* No connection is lost or handed out twice, however large the ring, however
\* many the workers, whatever the interleaving: main_server and the workers
\* pass each one through enqueue and dequeue exactly once.
THEOREM NothingLostOrDuplicated == Spec => []ExactlyOnePlace
<1>1. IInv => ExactlyOnePlace
  BY DEF IInv
<1>2. QED BY <1>1, Invariance, PTL

-----------------------------------------------------------------------------
(* How many sockets are in the ring *)

\* enqueue makes one more.
LEMMA OccupancyByEnqueue ==
  ASSUME TypeOK, NEW x, enqueue(x)
  PROVE  Occupancy \in Nat /\ Occupancy' = Occupancy + 1
<1> USE ConstantsAssumption DEF Slots
<1>1. /\ head \in 0 .. MAX_QUEUE - 1 /\ tail \in 0 .. MAX_QUEUE - 1
      /\ head' = head /\ tail' # head
      /\ tail' = IF tail + 1 = MAX_QUEUE THEN 0 ELSE tail + 1
  BY Next1Value DEF TypeOK, enqueue
<1>2. Front = head /\ Front' = head
  BY <1>1 DEF Front
<1>3. QED BY <1>1, <1>2 DEF Occupancy

\* The take makes one less.
LEMMA OccupancyByTake ==
  ASSUME TypeOK, NEW w \in Workers, DequeueTake(w)
  PROVE  Occupancy \in Nat \ {0} /\ Occupancy' = Occupancy - 1
<1> USE ConstantsAssumption DEF Slots
<1>1. /\ head \in 0 .. MAX_QUEUE - 1 /\ tail \in 0 .. MAX_QUEUE - 1
      /\ head' = head + 1 /\ tail' = tail /\ head # tail
  BY DEF TypeOK, DequeueTake
<1>2. Front = head /\ Front' = IF head + 1 = MAX_QUEUE THEN 0 ELSE head + 1
  BY <1>1 DEF Front
<1>3. QED BY <1>1, <1>2 DEF Occupancy

\* The wrap does not change the front.
LEMMA FrontByWrap ==
  ASSUME TypeOK, NEW w \in Workers, DequeueWrap(w)
  PROVE  Front' = Front /\ Occupancy' = Occupancy
<1>1. Front' = Front /\ tail' = tail
  BY ConstantsAssumption DEF Front, TypeOK, DequeueWrap
<1>2. QED BY <1>1 DEF Occupancy

-----------------------------------------------------------------------------
(* No wakeup is lost *)

\* Sets of workers are finite.
LEMMA WorkersFinite ==
  ASSUME NEW W \in SUBSET Workers
  PROVE  IsFiniteSet(W) /\ Cardinality(W) \in Nat
<1>1. IsFiniteSet(Workers)
  BY ConstantsAssumption, FS_Interval DEF Workers
<1>2. QED BY <1>1, FS_Subset, FS_CardinalityType

\* Every step keeps enough threads awake for what is in the ring.
LEMMA WakeupStep ==
  ASSUME IInv, NoLostWakeup, Next
  PROVE  NoLostWakeup'
<1> USE DEF IInv
<1>1. Awake \in SUBSET Workers /\ Awake' \in SUBSET Workers
  BY DEF Awake
<1>2. /\ IsFiniteSet(Awake) /\ Cardinality(Awake) \in Nat
      /\ IsFiniteSet(Awake') /\ Cardinality(Awake') \in Nat
  BY <1>1, WorkersFinite
<1>3. ASSUME Occupancy' = Occupancy, Waiting' \subseteq Waiting, Awake \subseteq Awake'
      PROVE  NoLostWakeup'
  <2>1. Cardinality(Awake) <= Cardinality(Awake')
    BY <1>2, <1>3, FS_Subset
  <2>2. Occupancy \in Int
    BY ConstantsAssumption DEF Occupancy, Front, TypeOK, Slots
  <2>3. SUFFICES ASSUME Waiting' # {} PROVE Occupancy' <= Cardinality(Awake')
    BY DEF NoLostWakeup
  <2>4. Occupancy <= Cardinality(Awake)
    BY <2>3, <1>3 DEF NoLostWakeup
  <2>5. QED BY <2>1, <2>2, <2>4, <1>2, <1>3
<1>4. ASSUME UNCHANGED <<head, tail>> PROVE Occupancy' = Occupancy
  BY <1>4 DEF Occupancy, Front
<1>5. CASE Bind \/ BindFails \/ AcceptTimeout \/ Join \/ \E c \in Conns : Accept(c)
  <2>1. UNCHANGED <<head, tail, wpc, job>>
    BY <1>5 DEF Bind, BindFails, AcceptTimeout, Join, Accept, ring, workers
  <2>2. QED BY <2>1, <1>3, <1>4 DEF Awake, Waiting
<1>6. CASE Spawn
  <2>1. /\ UNCHANGED <<head, tail, job>> /\ wpc' = [wpc EXCEPT ![i] = "dequeue"]
    BY <1>6 DEF Spawn, ring
  <2>2. Waiting' \subseteq Waiting /\ Awake \subseteq Awake'
    BY <2>1 DEF Awake, Waiting, TypeOK
  <2>3. QED BY <2>1, <2>2, <1>3, <1>4
<1>7. ASSUME NEW x \in Sockets, enqueue(x)
      PROVE  NoLostWakeup'
  <2>1. Occupancy \in Nat /\ Occupancy' = Occupancy + 1 /\ job' = job /\ Signal
    BY <1>7, OccupancyByEnqueue DEF enqueue
  <2>2. CASE Waiting = {} /\ UNCHANGED wpc
    <3>1. Waiting' = {}
      BY <2>2 DEF Waiting
    <3>2. QED BY <3>1 DEF NoLostWakeup
  <2>3. CASE \E v \in Waiting : wpc' = [wpc EXCEPT ![v] = "woken"]
    <3>1. PICK v \in Waiting : wpc' = [wpc EXCEPT ![v] = "woken"]
      BY <2>3
    <3>2. v \in Workers /\ wpc[v] = "waiting" /\ job[v] # Invalid
      BY ConstantsAssumption DEF Waiting, HandInv, Idle
    <3>3. v \notin Awake /\ Awake' = Awake \cup {v}
      BY <2>1, <3>1, <3>2 DEF Awake, TypeOK
    <3>4. Cardinality(Awake') = Cardinality(Awake) + 1
      BY <1>2, <3>3, FS_AddElement
    <3>5. Occupancy <= Cardinality(Awake)
      BY DEF NoLostWakeup
    <3>6. QED BY <1>2, <2>1, <3>4, <3>5 DEF NoLostWakeup
  <2>4. QED BY <2>1, <2>2, <2>3 DEF Signal
<1>8. CASE EnqueueConn \/ EnqueuePill
  <2>1. \E x \in Sockets : enqueue(x)
    BY <1>8, ConstantsAssumption DEF EnqueueConn, EnqueuePill, TypeOK, HandInv, Sockets
  <2>2. QED BY <2>1, <1>7
<1>9. ASSUME NEW w \in Workers, DequeueWait(w)
      PROVE  NoLostWakeup'
  <2>1. Occupancy' = 0
    <3>1. head = tail /\ head' = head /\ tail' = tail
      BY <1>9 DEF DequeueWait, ring
    <3>2. QED BY <3>1, ConstantsAssumption DEF Occupancy, Front, TypeOK, Slots
  <2>2. QED BY <1>2, <2>1 DEF NoLostWakeup
<1>10. ASSUME NEW w \in Workers, SpuriousWakeup(w)
       PROVE  NoLostWakeup'
  <2>1. /\ UNCHANGED <<head, tail, job>> /\ wpc' = [wpc EXCEPT ![w] = "woken"]
    BY <1>10 DEF SpuriousWakeup, WorkerTo, ring
  <2>2. Waiting' \subseteq Waiting /\ Awake \subseteq Awake'
    BY <2>1 DEF Awake, Waiting, TypeOK
  <2>3. QED BY <2>1, <2>2, <1>3, <1>4
<1>11. ASSUME NEW w \in Workers, DequeueTake(w)
       PROVE  NoLostWakeup'
  <2>1. Occupancy \in Nat \ {0} /\ Occupancy' = Occupancy - 1
    BY <1>11, OccupancyByTake
  <2>2. /\ wpc[w] \in {"dequeue", "woken"} /\ wpc' = [wpc EXCEPT ![w] = "wrap"]
        /\ job' = [job EXCEPT ![w] = queue[head]]
    BY <1>11 DEF DequeueTake, WorkerTo
  <2>3. Waiting' = Waiting /\ Awake \ {w} \subseteq Awake'
    BY <2>2 DEF Waiting, Awake, TypeOK
  <2>4. Cardinality(Awake) - 1 <= Cardinality(Awake \ {w}) /\ IsFiniteSet(Awake \ {w})
    <3>1. /\ IsFiniteSet(Awake \ {w})
          /\ Cardinality(Awake \ {w}) =
               IF w \in Awake THEN Cardinality(Awake) - 1 ELSE Cardinality(Awake)
      BY <1>2, FS_RemoveElement
    <3>2. QED BY <1>2, <3>1
  <2>5. Cardinality(Awake \ {w}) \in Nat
    BY <2>4, FS_CardinalityType
  <2>6. Cardinality(Awake \ {w}) <= Cardinality(Awake')
    BY <1>2, <2>3, FS_Subset
  <2>7. QED BY <1>2, <2>1, <2>3, <2>4, <2>5, <2>6 DEF NoLostWakeup
<1>12. ASSUME NEW w \in Workers, DequeueWrap(w)
       PROVE  NoLostWakeup'
  <2>1. Occupancy' = Occupancy
    BY <1>12, FrontByWrap
  <2>2. wpc[w] = "wrap" /\ wpc' = [wpc EXCEPT ![w] = "testhead"] /\ job' = job
    BY <1>12 DEF DequeueWrap, WorkerTo
  <2>3. Waiting' \subseteq Waiting /\ Awake \subseteq Awake'
    BY <2>2 DEF Awake, Waiting, TypeOK
  <2>4. QED BY <2>1, <2>3, <1>3
<1>13. ASSUME NEW w \in Workers, IpTestHead(w) \/ IpReadHead(w)
       PROVE  NoLostWakeup'
  <2>1. /\ UNCHANGED <<head, tail, job>>
        /\ \E pc \in {"run", "readhead"} : wpc' = [wpc EXCEPT ![w] = pc]
    BY <1>13 DEF IpTestHead, IpReadHead, WorkerTo, ring
  <2>2. Waiting' \subseteq Waiting /\ Awake \subseteq Awake'
    BY <2>1 DEF Awake, Waiting, TypeOK
  <2>3. QED BY <2>1, <2>2, <1>3, <1>4
<1>14. ASSUME NEW w \in Workers, Serve(w)
       PROVE  NoLostWakeup'
  <2>1. /\ UNCHANGED <<head, tail>> /\ wpc' = [wpc EXCEPT ![w] = "dequeue"]
        /\ job' = [job EXCEPT ![w] = None]
    BY <1>14 DEF Serve, WorkerTo, ring
  <2>2. Waiting' \subseteq Waiting /\ Awake \subseteq Awake'
    BY <2>1, ConstantsAssumption DEF Awake, Waiting, TypeOK
  <2>3. QED BY <2>1, <2>2, <1>3, <1>4
<1>15. ASSUME NEW w \in Workers, Terminate(w)
       PROVE  NoLostWakeup'
  <2>1. /\ UNCHANGED <<head, tail, job>> /\ wpc' = [wpc EXCEPT ![w] = "ended"]
        /\ job[w] = Invalid
    BY <1>15 DEF Terminate, WorkerTo, ring
  <2>2. Waiting' \subseteq Waiting /\ Awake \subseteq Awake'
    BY <2>1 DEF Awake, Waiting, TypeOK
  <2>3. QED BY <2>1, <2>2, <1>3, <1>4
<1>16. QED
  BY <1>5, <1>6, <1>8, <1>9, <1>10, <1>11, <1>12, <1>13, <1>14, <1>15
  DEF Next, MainStep, WorkerStep

\* While threads are blocked in cond_wait there are never more sockets in the
\* ring than threads on their way to it: enqueue's one signal per socket is
\* enough, for every number of threads and every interleaving.
THEOREM NoWakeupLost == Spec => []NoLostWakeup
<1>1. Init => NoLostWakeup
  BY DEF Init, NoLostWakeup, Waiting
<1>2. IInv /\ NoLostWakeup /\ [Next]_vars => NoLostWakeup'
  <2> SUFFICES ASSUME IInv, NoLostWakeup, [Next]_vars PROVE NoLostWakeup'
    OBVIOUS
  <2>1. CASE Next
    BY <2>1, WakeupStep
  <2>2. CASE UNCHANGED vars
    BY <2>2 DEF vars, NoLostWakeup, Waiting, Awake, Occupancy, Front
  <2>3. QED BY <2>1, <2>2
<1>3. QED BY <1>1, <1>2, Invariance, PTL DEF Spec

-----------------------------------------------------------------------------
(* The shutdown *)

\* The pills that main_server has put in so far.
Dealt == IF mpc \in {"join", "done"} THEN MAX_THR ELSE IF mpc = "pill" THEN i ELSE 0

PillSlots == {s \in Occupied : queue[s] = Invalid}
PillHands == {w \in Workers : job[w] = Invalid}

\* Every pill is in the ring or with a thread, and no thread gives one back.
PillCount == Cardinality(PillSlots) + Cardinality(PillHands) = Dealt

\* Nothing is put in behind the pills.
Newest == IF tail = 0 THEN MAX_QUEUE - 1 ELSE tail - 1
LastIsPill == Dealt > 0 => queue[Newest] = Invalid

\* The threads joined so far have ended.
JoinInv ==
  /\ mpc = "join" => \A w \in Workers : w < i => wpc[w] = "ended"
  /\ mpc = "done" => \A w \in Workers : wpc[w] = "ended"

ShutdownInv == PillCount /\ LastIsPill /\ JoinInv

LEMMA PillSetsFinite ==
  ASSUME TypeOK
  PROVE  /\ IsFiniteSet(PillSlots) /\ Cardinality(PillSlots) \in Nat
         /\ IsFiniteSet(PillHands) /\ Cardinality(PillHands) \in Nat
<1>1. PillSlots \in SUBSET (0 .. MAX_QUEUE - 1) /\ PillHands \in SUBSET Workers
  BY DEF PillSlots, PillHands, Occupied, Slots
<1>2. IsFiniteSet(0 .. MAX_QUEUE - 1)
  BY ConstantsAssumption, FS_Interval
<1>3. QED BY <1>1, <1>2, WorkersFinite, FS_Subset, FS_CardinalityType

\* What enqueue(x) does to the pills and to the newest slot.
LEMMA PillsByEnqueue ==
  ASSUME TypeOK, NEW x \in Sockets, enqueue(x)
  PROVE  /\ PillHands' = PillHands /\ queue'[Newest'] = x
         /\ Cardinality(PillSlots') =
              IF x = Invalid THEN Cardinality(PillSlots) + 1 ELSE Cardinality(PillSlots)
<1>1. /\ Occupied' = Occupied \cup {tail} /\ tail \notin Occupied
      /\ queue'[tail] = x /\ \A s \in Occupied : queue'[s] = queue[s]
  BY QueuedByEnqueue
<1>2. PillHands' = PillHands
  BY DEF PillHands, enqueue
<1>3. Newest' = tail
  <2>1. tail \in Slots /\ tail' = IF tail + 1 = MAX_QUEUE THEN 0 ELSE tail + 1
    BY Next1Value DEF TypeOK, enqueue
  <2>2. QED BY <2>1, ConstantsAssumption DEF Newest, Slots
<1>4. CASE x = Invalid
  <2>1. PillSlots' = PillSlots \cup {tail} /\ tail \notin PillSlots
    BY <1>1, <1>4 DEF PillSlots
  <2>2. QED BY <2>1, <1>1, <1>2, <1>3, <1>4, PillSetsFinite, FS_AddElement
<1>5. CASE x # Invalid
  <2>1. PillSlots' = PillSlots
    BY <1>1, <1>5 DEF PillSlots
  <2>2. QED BY <2>1, <1>1, <1>2, <1>3, <1>5
<1>6. QED BY <1>4, <1>5

\* A thread that has ended stays so, through every step.
LEMMA EndedForGood ==
  ASSUME TypeOK, SpawnInv, Next, NEW v \in Workers, wpc[v] = "ended"
  PROVE  wpc'[v] = "ended"
<1> USE DEF TypeOK
<1>1. CASE Bind \/ BindFails \/ AcceptTimeout \/ Join \/ \E c \in Conns : Accept(c)
  BY <1>1 DEF Bind, BindFails, AcceptTimeout, Join, Accept, workers
<1>2. CASE Spawn
  <2>1. wpc[i] = "unborn" /\ wpc' = [wpc EXCEPT ![i] = "dequeue"]
    BY <1>2, ConstantsAssumption DEF Spawn, SpawnInv, Workers
  <2>2. QED BY <2>1
<1>3. ASSUME Signal PROVE wpc'[v] = "ended"
  BY <1>3 DEF Signal, Waiting
<1>4. CASE EnqueueConn \/ EnqueuePill
  BY <1>3, <1>4 DEF EnqueueConn, EnqueuePill, enqueue
<1>5. ASSUME NEW w \in Workers, WorkerStep(w)
      PROVE  wpc'[v] = "ended"
  <2>1. wpc[w] # "ended" /\ \A u \in Workers \ {w} : wpc'[u] = wpc[u]
    BY <1>5 DEF WorkerStep, DequeueWait, SpuriousWakeup, DequeueTake, DequeueWrap,
       IpTestHead, IpReadHead, Serve, Terminate, WorkerTo
  <2>2. QED BY <2>1
<1>6. QED BY <1>1, <1>2, <1>4, <1>5 DEF Next, MainStep

LEMMA ShutdownStep ==
  ASSUME IInv, ShutdownInv, Next
  PROVE  ShutdownInv'
<1> USE DEF IInv
<1>1. /\ IsFiniteSet(PillSlots) /\ Cardinality(PillSlots) \in Nat
      /\ IsFiniteSet(PillHands) /\ Cardinality(PillHands) \in Nat
  BY PillSetsFinite
<1>2. Dealt \in Nat /\ i \in Nat /\ MAX_THR \in Nat
  BY ConstantsAssumption DEF Dealt, TypeOK, Workers
<1>3. ASSUME UNCHANGED <<queue, tail>>, PillSlots' = PillSlots,
             PillHands' = PillHands, Dealt' = Dealt
      PROVE  PillCount' /\ LastIsPill'
  <2>1. Newest' = Newest
    BY <1>3 DEF Newest
  <2>2. QED BY <2>1, <1>3 DEF ShutdownInv, PillCount, LastIsPill
<1>4. ASSUME UNCHANGED <<queue, head, tail>>
      PROVE  PillSlots' = PillSlots
  BY <1>4 DEF PillSlots, Occupied, Front
<1>5. ASSUME UNCHANGED <<mpc, i>>
      PROVE  JoinInv' /\ Dealt' = Dealt
  BY <1>5, EndedForGood DEF JoinInv, Dealt, ShutdownInv
<1>6. CASE Bind \/ BindFails \/ Spawn \/ AcceptTimeout \/ \E c \in Conns : Accept(c)
  <2>1. /\ mpc \in {"bind", "spawn", "accept"}
        /\ mpc' \in {"failed", "spawn", "accept", "enqueue"} \/ (mpc' = "pill" /\ i' = 0)
        /\ UNCHANGED <<queue, head, tail, job>>
    BY <1>6 DEF Bind, BindFails, Spawn, AcceptTimeout, Accept, MainTo, ring, workers
  <2>2. Dealt = 0 /\ Dealt' = 0 /\ JoinInv'
    BY <2>1 DEF Dealt, JoinInv
  <2>3. PillHands' = PillHands
    BY <2>1 DEF PillHands
  <2>4. QED BY <1>3, <1>4, <2>1, <2>2, <2>3 DEF ShutdownInv
<1>7. CASE EnqueueConn
  <2>1. /\ sock \in Conns /\ sock \in Sockets /\ sock # Invalid /\ enqueue(sock)
        /\ mpc = "enqueue" /\ mpc' = "accept"
    BY <1>7, ConstantsAssumption DEF EnqueueConn, MainTo, HandInv, TypeOK, Sockets
  <2>2. Dealt = 0 /\ Dealt' = 0 /\ JoinInv'
    BY <2>1 DEF Dealt, JoinInv
  <2>3. PillHands' = PillHands /\ Cardinality(PillSlots') = Cardinality(PillSlots)
    BY <2>1, PillsByEnqueue
  <2>4. QED BY <2>2, <2>3 DEF ShutdownInv, PillCount, LastIsPill
<1>8. CASE EnqueuePill
  <2>1. /\ Invalid \in Sockets /\ enqueue(Invalid) /\ mpc = "pill"
        /\ IF i + 1 < MAX_THR THEN mpc' = "pill" /\ i' = i + 1
                              ELSE mpc' = "join" /\ i' = 0
    BY <1>8 DEF EnqueuePill, MainTo, Sockets
  <2>2. Dealt = i /\ i < MAX_THR
    BY <2>1, ConstantsAssumption DEF Dealt, TypeOK, Workers
  <2>3. Dealt' = i + 1
    <3>1. CASE i + 1 < MAX_THR
      BY <2>1, <3>1 DEF Dealt
    <3>2. CASE ~(i + 1 < MAX_THR)
      <4>1. i + 1 = MAX_THR
        BY <1>2, <2>2, <3>2
      <4>2. Dealt' = MAX_THR
        BY <2>1, <3>2 DEF Dealt
      <4>3. QED BY <4>1, <4>2
    <3>3. QED BY <3>1, <3>2
  <2>4. JoinInv'
    BY <2>1, ConstantsAssumption DEF JoinInv, Workers
  <2>5. /\ PillHands' = PillHands /\ queue'[Newest'] = Invalid
        /\ Cardinality(PillSlots') = Cardinality(PillSlots) + 1
    BY <2>1, PillsByEnqueue
  <2>6. PillCount'
    BY <1>1, <1>2, <2>2, <2>3, <2>5 DEF ShutdownInv, PillCount
  <2>7. QED BY <2>4, <2>5, <2>6 DEF ShutdownInv, LastIsPill
<1>9. CASE Join
  <2>1. /\ mpc = "join" /\ wpc[i] = "ended" /\ wpc' = wpc /\ UNCHANGED <<queue, head, tail, job>>
        /\ IF i + 1 < MAX_THR THEN mpc' = "join" /\ i' = i + 1
                              ELSE mpc' = "done" /\ i' = 0
    BY <1>9 DEF Join, MainTo, ring, workers
  <2>2. Dealt' = Dealt
    BY <2>1 DEF Dealt
  <2>3. \A w \in Workers : w < i + 1 => wpc'[w] = "ended"
    <3>1. \A w \in Workers : w < i => wpc[w] = "ended"
      BY <2>1 DEF ShutdownInv, JoinInv
    <3>2. \A w \in Workers : w < i + 1 => w < i \/ w = i
      BY <1>2 DEF Workers
    <3>3. QED BY <2>1, <3>1, <3>2
  <2>4. i + 1 < MAX_THR \/ \A w \in Workers : w < i + 1
    BY <1>2 DEF Workers
  <2>5. JoinInv'
    BY <2>1, <2>3, <2>4 DEF JoinInv
  <2>6. PillHands' = PillHands
    BY <2>1 DEF PillHands
  <2>7. QED BY <1>3, <1>4, <2>1, <2>2, <2>5, <2>6 DEF ShutdownInv
<1>10. ASSUME NEW w \in Workers, DequeueTake(w)
       PROVE  ShutdownInv'
  <2>1. /\ UNCHANGED <<queue, tail, mpc, i>> /\ job[w] = None /\ None # Invalid
        /\ job' = [job EXCEPT ![w] = queue[head]]
    BY <1>10, ConstantsAssumption DEF DequeueTake, HandInv, Idle, main
  <2>2. Occupied' = Occupied \ {head} /\ head \in Occupied
    BY <1>10, OccupiedByTake DEF DequeueTake
  <2>3. CASE queue[head] = Invalid
    <3>1. PillSlots' = PillSlots \ {head} /\ head \in PillSlots
      BY <2>1, <2>2, <2>3 DEF PillSlots
    <3>2. PillHands' = PillHands \cup {w} /\ w \notin PillHands
      BY <2>1, <2>3 DEF PillHands, TypeOK
    <3>3. Cardinality(PillSlots') = Cardinality(PillSlots) - 1
      BY <1>1, <3>1, FS_RemoveElement
    <3>4. Cardinality(PillHands') = Cardinality(PillHands) + 1
      BY <1>1, <3>2, FS_AddElement
    <3>5. JoinInv' /\ Dealt' = Dealt /\ Newest' = Newest
      BY <1>5, <2>1 DEF Newest
    <3>6. PillCount'
      BY <1>1, <1>2, <3>3, <3>4, <3>5 DEF ShutdownInv, PillCount
    <3>7. LastIsPill'
      BY <2>1, <3>5 DEF ShutdownInv, LastIsPill
    <3>8. QED BY <3>5, <3>6, <3>7 DEF ShutdownInv
  <2>4. CASE queue[head] # Invalid
    <3>1. PillSlots' = PillSlots
      BY <2>1, <2>2, <2>4 DEF PillSlots
    <3>2. PillHands' = PillHands
      BY <2>1, <2>4 DEF PillHands, TypeOK
    <3>3. QED BY <1>3, <1>5, <2>1, <3>1, <3>2 DEF ShutdownInv
  <2>5. QED BY <2>3, <2>4
<1>11. ASSUME NEW w \in Workers, DequeueWrap(w)
       PROVE  ShutdownInv'
  <2>1. UNCHANGED <<queue, tail, mpc, i, job>>
    BY <1>11 DEF DequeueWrap, main
  <2>2. PillSlots' = PillSlots
    BY <1>11, <2>1, OccupiedByWrap DEF DequeueWrap, PillSlots
  <2>3. PillHands' = PillHands
    BY <2>1 DEF PillHands
  <2>4. QED BY <1>3, <1>5, <2>1, <2>2, <2>3 DEF ShutdownInv
<1>12. ASSUME NEW w \in Workers, Serve(w)
       PROVE  ShutdownInv'
  <2>1. /\ UNCHANGED <<queue, head, tail, mpc, i>>
        /\ job[w] # Invalid /\ None # Invalid /\ job' = [job EXCEPT ![w] = None]
    BY <1>12, ConstantsAssumption DEF Serve, ring, main
  <2>2. PillHands' = PillHands
    BY <2>1 DEF PillHands, TypeOK
  <2>3. QED BY <1>3, <1>4, <1>5, <2>1, <2>2 DEF ShutdownInv
<1>13. ASSUME NEW w \in Workers,
              DequeueWait(w) \/ SpuriousWakeup(w) \/ IpTestHead(w)
              \/ IpReadHead(w) \/ Terminate(w)
       PROVE  ShutdownInv'
  <2>1. UNCHANGED <<queue, head, tail, mpc, i, job>>
    BY <1>13 DEF DequeueWait, SpuriousWakeup, IpTestHead, IpReadHead, Terminate,
       ring, main
  <2>2. PillHands' = PillHands
    BY <2>1 DEF PillHands
  <2>3. QED BY <1>3, <1>4, <1>5, <2>1, <2>2 DEF ShutdownInv
<1>14. QED
  BY <1>6, <1>7, <1>8, <1>9, <1>10, <1>11, <1>12, <1>13
  DEF Next, MainStep, WorkerStep

\* Once all threads have been joined each has its pill, so none is left in the
\* ring; and as nothing was put in behind the pills, nothing else is.
LEMMA JoinedIsDrained ==
  ASSUME IInv, ShutdownInv
  PROVE  DrainedAtShutdown
<1> USE DEF IInv
<1> SUFFICES ASSUME mpc = "done"
             PROVE  /\ Occupancy = 0 /\ served = Conns \ fresh
                    /\ \A w \in Workers : wpc[w] = "ended"
  BY DEF DrainedAtShutdown
<1>1. \A w \in Workers : wpc[w] = "ended" /\ job[w] = Invalid
  BY DEF ShutdownInv, JoinInv, HandInv
<1>2. PillHands = 0 .. MAX_THR - 1
  BY <1>1 DEF PillHands, Workers
<1>3. Cardinality(PillHands) = MAX_THR
  BY <1>2, ConstantsAssumption, FS_Interval
<1>4. Dealt = MAX_THR /\ MAX_THR \in Nat \ {0}
  BY ConstantsAssumption DEF Dealt
<1>5. Cardinality(PillSlots) = 0
  BY <1>3, <1>4, PillSetsFinite DEF ShutdownInv, PillCount
<1>6. PillSlots = {}
  BY <1>5, PillSetsFinite, FS_EmptySet
<1>7. queue[Newest] = Invalid
  BY <1>4 DEF ShutdownInv, LastIsPill
<1>8. Newest \notin Occupied
  BY <1>6, <1>7 DEF PillSlots
<1>9. Front \in 0 .. MAX_QUEUE - 1 /\ tail \in 0 .. MAX_QUEUE - 1
  BY ConstantsAssumption DEF Front, TypeOK, Slots
<1>10. Front = tail
  BY <1>8, <1>9, ConstantsAssumption DEF Occupied, Newest, Slots
<1>11. Occupancy = 0 /\ Occupied = {}
  BY <1>9, <1>10 DEF Occupancy, Occupied, Slots
<1>12. served = Conns \ fresh
  <2>1. Queued = {} /\ InHand \ {None, Invalid} = {} /\ sock = None
    BY <1>1, <1>11 DEF Queued, InHand, HandInv
  <2>2. QED BY <2>1 DEF ExactlyOnePlace, TypeOK
<1>13. QED BY <1>1, <1>11, <1>12

\* One pill per thread, behind every connection: when main_server has joined
\* the threads, everything that was accepted has been served and the ring is
\* empty - for every number of threads, larger or smaller than the ring.
THEOREM ShutdownDrains == Spec => []DrainedAtShutdown
<1>1. Init => ShutdownInv
  <2> SUFFICES ASSUME Init PROVE ShutdownInv
    OBVIOUS
  <2>1. PillSlots = {} /\ PillHands = {}
    BY ConstantsAssumption
    DEF Init, PillSlots, PillHands, Occupied, Front, Slots, Workers
  <2>2. Dealt = 0 /\ JoinInv
    BY DEF Init, Dealt, JoinInv
  <2>3. QED BY <2>1, <2>2, FS_EmptySet DEF ShutdownInv, PillCount, LastIsPill
<1>2. IInv /\ ShutdownInv /\ [Next]_vars => ShutdownInv'
  <2> SUFFICES ASSUME IInv, ShutdownInv, [Next]_vars PROVE ShutdownInv'
    OBVIOUS
  <2>1. CASE Next
    BY <2>1, ShutdownStep
  <2>2. CASE UNCHANGED vars
    BY <2>2 DEF vars, ShutdownInv, PillCount, LastIsPill, JoinInv, Dealt, Newest,
       PillSlots, PillHands, Occupied, Front
  <2>3. QED BY <2>1, <2>2
<1>3. IInv /\ ShutdownInv => DrainedAtShutdown
  BY JoinedIsDrained
<1>4. QED BY <1>1, <1>2, <1>3, Invariance, PTL DEF Spec

-----------------------------------------------------------------------------
(* The index of the worker that took its connection last *)

\* The slot before the front: that of the take before the next.
Last == IF Front = 0 THEN MAX_QUEUE - 1 ELSE Front - 1

\* While a thread is between the increment and the wrap, its socket is the one
\* before the head. A head that becomes 0 between the two reads of a thread
\* does so by the take of another one, which is the last from then on.
IpInv ==
  /\ \A w \in Workers : wpc[w] = "wrap" => head > 0 /\ job[w] = queue[head - 1]
  /\ \A w \in Workers :
       wpc[w] = "readhead" /\ job[w] = queue[Last] /\ job[w] # Invalid => head # 0
  /\ \A w \in Workers :
       wpc[w] = "run" /\ job[w] = queue[Last] /\ job[w] # Invalid => j[w] = Last

LEMMA IpStep ==
  ASSUME IInv, IpInv, Next
  PROVE  IpInv'
<1> USE DEF IInv
<1>1. /\ head \in 0 .. MAX_QUEUE /\ tail \in 0 .. MAX_QUEUE - 1
      /\ MAX_QUEUE \in Nat /\ MAX_QUEUE >= 2
      /\ queue \in [0 .. MAX_QUEUE - 1 -> Sockets \cup {None}]
      /\ Front \in 0 .. MAX_QUEUE - 1 /\ Last \in 0 .. MAX_QUEUE - 1
  BY ConstantsAssumption DEF TypeOK, Slots, Front, Last
<1>2. ASSUME UNCHANGED <<queue, head, wpc, job, j>>
      PROVE  IpInv'
  BY <1>2 DEF IpInv, Last, Front
<1>3. CASE Bind \/ BindFails \/ AcceptTimeout \/ Join \/ \E c \in Conns : Accept(c)
  BY <1>2, <1>3 DEF Bind, BindFails, AcceptTimeout, Join, Accept, ring, workers
<1>4. ASSUME UNCHANGED <<queue, head, job, j>>,
             \A w \in Workers : wpc'[w] \in {"wrap", "readhead", "run"} => wpc'[w] = wpc[w]
      PROVE  IpInv'
  <2>1. Last' = Last
    BY <1>4 DEF Last, Front
  <2>2. QED BY <1>4, <2>1 DEF IpInv
<1>5. CASE Spawn
  BY <1>4, <1>5 DEF Spawn, ring, TypeOK
<1>6. ASSUME NEW x \in Sockets, enqueue(x)
      PROVE  IpInv'
  <2>1. /\ lock = Nobody /\ UNCHANGED <<head, job, j>> /\ Next1(tail) # head
        /\ queue' = [queue EXCEPT ![tail] = x]
    BY <1>6 DEF enqueue
  <2>2. \A w \in Workers : wpc'[w] \in {"wrap", "readhead", "run"} => wpc'[w] = wpc[w]
    BY <1>6 DEF enqueue, Signal, Waiting, TypeOK
  <2>3. \A w \in Workers : wpc'[w] # "wrap"
    BY <2>1, <2>2, NobodyAssumption DEF LockInv, Workers
  <2>4. Last' = Last
    BY <2>1 DEF Last, Front
  <2>5. Last # tail
    <3>1. head # MAX_QUEUE
      BY <2>1 DEF TypeOK
    <3>2. Next1(tail) = IF tail + 1 = MAX_QUEUE THEN 0 ELSE tail + 1
      BY Next1Value DEF TypeOK
    <3>3. QED BY <1>1, <2>1, <3>1, <3>2 DEF Last, Front
  <2>6. queue'[Last] = queue[Last]
    BY <1>1, <2>1, <2>5
  <2>7. QED BY <2>1, <2>2, <2>3, <2>4, <2>6 DEF IpInv
<1>7. CASE EnqueueConn \/ EnqueuePill
  <2>1. \E x \in Sockets : enqueue(x)
    BY <1>7, ConstantsAssumption DEF EnqueueConn, EnqueuePill, TypeOK, HandInv, Sockets
  <2>2. QED BY <2>1, <1>6
<1>8. ASSUME NEW w \in Workers, DequeueTake(w)
      PROVE  IpInv'
  <2>1. /\ lock = Nobody /\ head # tail /\ head' = head + 1
        /\ job' = [job EXCEPT ![w] = queue[head]] /\ wpc' = [wpc EXCEPT ![w] = "wrap"]
        /\ queue' = queue
    BY <1>8 DEF DequeueTake, WorkerTo
  <2>2. head \in 0 .. MAX_QUEUE - 1
    BY <1>1, <2>1 DEF TypeOK
  <2>3. Last' = head
    <3>1. Front' = IF head + 1 = MAX_QUEUE THEN 0 ELSE head + 1
      BY <1>1, <2>1, <2>2 DEF Front
    <3>2. QED BY <1>1, <2>2, <3>1 DEF Last
  <2>4. head \in Occupied
    BY <1>8, OccupiedByTake DEF DequeueTake
  <2>5. \A v \in Workers : job[v] = queue[head] => queue[head] = Invalid
    BY <2>4 DEF ExactlyOnePlace, InHand, Queued
  <2>6. \A v \in Workers \ {w} : wpc'[v] = wpc[v] /\ job'[v] = job[v] /\ wpc[v] # "wrap"
    BY <2>1, NobodyAssumption DEF TypeOK, LockInv, Workers
  <2>7. wpc'[w] = "wrap" /\ job'[w] = queue[head]
    BY <2>1 DEF TypeOK
  <2>8. \A v \in Workers \ {w} : job'[v] = queue'[Last'] => job'[v] = Invalid
    BY <2>1, <2>3, <2>5, <2>6
  <2>9. head' > 0 /\ head' - 1 = head
    BY <2>1, <2>2
  <2>10. QED BY <2>1, <2>6, <2>7, <2>8, <2>9 DEF IpInv
<1>9. ASSUME NEW w \in Workers, DequeueWrap(w)
      PROVE  IpInv'
  <2>1. /\ wpc[w] = "wrap" /\ wpc' = [wpc EXCEPT ![w] = "testhead"]
        /\ head' = (IF head >= MAX_QUEUE THEN 0 ELSE head)
        /\ UNCHANGED <<queue, job, j>>
    BY <1>9 DEF DequeueWrap, WorkerTo
  <2>2. Last' = Last
    BY <1>9, FrontByWrap DEF Last
  <2>3. head > 0 /\ job[w] = queue[head - 1] /\ head - 1 = Last
    BY <1>1, <2>1 DEF IpInv, Last, Front
  <2>4. \A v \in Workers \ {w} : wpc'[v] = wpc[v] /\ wpc[v] # "wrap"
    BY <2>1 DEF TypeOK, LockInv
  <2>5. \A v \in Workers \ {w} : job[v] = queue[Last] => job[v] \in {None, Invalid}
    BY <2>3 DEF ExactlyOnePlace
  <2>6. \A v \in Workers : wpc[v] = "readhead" => job[v] # None
    BY DEF HandInv, Idle
  <2>7. wpc'[w] = "testhead"
    BY <2>1 DEF TypeOK
  <2>8. \A v \in Workers : wpc'[v] = "readhead" => v # w /\ wpc[v] = "readhead"
    BY <2>4, <2>7
  <2>9. \A v \in Workers :
          wpc'[v] = "readhead" /\ job'[v] = queue'[Last'] /\ job'[v] # Invalid => head' # 0
    BY <2>1, <2>2, <2>5, <2>6, <2>8
  <2>10. QED BY <2>1, <2>2, <2>4, <2>7, <2>9 DEF IpInv
<1>10. ASSUME NEW w \in Workers, IpTestHead(w)
       PROVE  IpInv'
  <2>1. UNCHANGED <<queue, head, job>> /\ Last' = Last
    BY <1>10 DEF IpTestHead, ring, Last, Front
  <2>2. CASE head = 0
    <3>1. j' = [j EXCEPT ![w] = MAX_QUEUE - 1] /\ wpc' = [wpc EXCEPT ![w] = "run"]
      BY <1>10, <2>2 DEF IpTestHead, WorkerTo
    <3>2. Last = MAX_QUEUE - 1
      BY <1>1, <2>2 DEF Last, Front
    <3>3. QED BY <2>1, <3>1, <3>2 DEF IpInv, TypeOK
  <2>3. CASE head # 0
    <3>1. j' = j /\ wpc' = [wpc EXCEPT ![w] = "readhead"]
      BY <1>10, <2>3 DEF IpTestHead, WorkerTo
    <3>2. QED BY <2>1, <2>3, <3>1 DEF IpInv, TypeOK
  <2>4. QED BY <2>2, <2>3
<1>11. ASSUME NEW w \in Workers, IpReadHead(w)
       PROVE  IpInv'
  <2>1. /\ UNCHANGED <<queue, head, job>> /\ Last' = Last /\ wpc[w] = "readhead"
        /\ j' = [j EXCEPT ![w] = head - 1] /\ wpc' = [wpc EXCEPT ![w] = "run"]
    BY <1>11 DEF IpReadHead, WorkerTo, ring, Last, Front
  <2>2. head # 0 => head - 1 = Last
    BY <1>1 DEF Last, Front
  <2>3. /\ j'[w] = head - 1 /\ wpc'[w] = "run"
        /\ \A v \in Workers \ {w} : j'[v] = j[v] /\ wpc'[v] = wpc[v]
    BY <2>1 DEF TypeOK
  <2>4. job[w] = queue[Last] /\ job[w] # Invalid => j'[w] = Last
    BY <2>1, <2>2, <2>3 DEF IpInv
  <2>5. QED BY <2>1, <2>3, <2>4 DEF IpInv
<1>12. ASSUME NEW w \in Workers, Serve(w)
       PROVE  IpInv'
  <2>1. /\ UNCHANGED <<queue, head, j>> /\ Last' = Last
        /\ job' = [job EXCEPT ![w] = None] /\ wpc' = [wpc EXCEPT ![w] = "dequeue"]
    BY <1>12 DEF Serve, WorkerTo, ring, Last, Front
  <2>2. QED BY <2>1 DEF IpInv, TypeOK
<1>13. ASSUME NEW w \in Workers,
              DequeueWait(w) \/ SpuriousWakeup(w) \/ Terminate(w)
       PROVE  IpInv'
  <2>1. /\ UNCHANGED <<queue, head, job, j>>
        /\ \E pc \in {"waiting", "woken", "ended"} : wpc' = [wpc EXCEPT ![w] = pc]
    BY <1>13 DEF DequeueWait, SpuriousWakeup, Terminate, WorkerTo, ring
  <2>2. QED BY <1>4, <2>1 DEF TypeOK
<1>14. QED
  BY <1>3, <1>5, <1>7, <1>8, <1>9, <1>10, <1>11, <1>12, <1>13
  DEF Next, MainStep, WorkerStep

\* The index that the unlocked dequeue(ip) computes for the worker that took
\* its connection last is that of the slot it took, whatever happens between
\* its two reads of the head.
THEOREM IndexOfLast == Spec => []IpIndexOfLast
<1>1. Init => IpInv
  BY DEF Init, IpInv
<1>2. IInv /\ IpInv /\ [Next]_vars => IpInv'
  <2> SUFFICES ASSUME IInv, IpInv, [Next]_vars PROVE IpInv'
    OBVIOUS
  <2>1. CASE Next
    BY <2>1, IpStep
  <2>2. CASE UNCHANGED vars
    BY <2>2 DEF vars, IpInv, Last, Front
  <2>3. QED BY <2>1, <2>2
<1>3. IpInv => IpIndexOfLast
  BY DEF IpInv, IpIndexOfLast, Last
<1>4. QED BY <1>1, <1>2, <1>3, Invariance, PTL DEF Spec

-----------------------------------------------------------------------------
(* The ring read as a sequence *)

\* Contents is a sequence of sockets, shorter than the ring.
LEMMA ContentsIsSeq ==
  ASSUME TypeOK, QueuedInv
  PROVE  /\ Occupancy \in 0 .. MAX_QUEUE - 1
         /\ Contents \in Seq(Sockets) /\ Len(Contents) = Occupancy
         /\ \A k \in 1 .. Occupancy : Contents[k] = queue[Slot(k - 1)]
<1> USE ConstantsAssumption
<1>1. head \in 0 .. MAX_QUEUE /\ tail \in 0 .. MAX_QUEUE - 1
  BY DEF TypeOK, Slots
<1>2. Front \in 0 .. MAX_QUEUE - 1
  BY <1>1 DEF Front
<1>3. Occupancy \in 0 .. MAX_QUEUE - 1
  BY <1>1, <1>2 DEF Occupancy
<1>4. \A k \in 1 .. Occupancy : Slot(k - 1) \in Occupied
  BY <1>1, <1>2, <1>3 DEF Slot, Occupied, Occupancy, Slots
<1>5. \A k \in 1 .. Occupancy : queue[Slot(k - 1)] \in Sockets
  BY <1>4 DEF QueuedInv, Queued
<1>6. Contents \in [1 .. Occupancy -> Sockets]
  BY <1>5 DEF Contents
<1>7. Contents \in Seq(Sockets) /\ Len(Contents) = Occupancy
  BY <1>3, <1>6, SeqDef
<1>8. QED BY <1>3, <1>7 DEF Contents

\* enqueue(x) appends x, and only when the ring is not full.
LEMMA EnqueueAppends ==
  ASSUME TypeOK, QueuedInv, NEW x \in Sockets, enqueue(x)
  PROVE  /\ Len(Contents) < MAX_QUEUE - 1
         /\ Contents' = Append(Contents, x)
<1> USE ConstantsAssumption
<1>1. /\ head \in 0 .. MAX_QUEUE - 1 /\ tail \in 0 .. MAX_QUEUE - 1
      /\ head' = head /\ tail' # head
      /\ tail' = IF tail + 1 = MAX_QUEUE THEN 0 ELSE tail + 1
  BY Next1Value DEF TypeOK, Slots, enqueue
<1>2. Front = head /\ Front' = head
  BY <1>1 DEF Front
<1>3. Occupancy < MAX_QUEUE - 1 /\ Occupancy' = Occupancy + 1 /\ Occupancy \in Nat
  BY <1>1, <1>2 DEF Occupancy
<1>4. \A k \in 1 .. Occupancy : Slot(k - 1) \in Occupied
  BY <1>1, <1>2, <1>3 DEF Slot, Occupied, Occupancy, Slots
<1>5. Slot(Occupancy) = tail
  BY <1>1, <1>2 DEF Slot, Occupancy
<1>6. \A k \in Int : Slot(k)' = Slot(k)
  BY <1>2 DEF Slot
<1>7. /\ \A k \in 1 .. Occupancy : queue'[Slot(k - 1)] = queue[Slot(k - 1)]
      /\ queue'[Slot(Occupancy)] = x
  BY <1>4, <1>5, QueuedByEnqueue
<1>8. /\ Contents \in Seq(Sockets) /\ Len(Contents) = Occupancy
      /\ \A k \in 1 .. Occupancy : Contents[k] = queue[Slot(k - 1)]
  BY ContentsIsSeq
<1>9. /\ Contents' \in Seq(Sockets) /\ Len(Contents') = Occupancy + 1
      /\ \A k \in 1 .. Occupancy + 1 : Contents'[k] = queue'[Slot(k - 1)]
  <2>1. Contents' = [k \in 1 .. Occupancy + 1 |-> queue'[Slot(k - 1)]]
    BY <1>3, <1>6 DEF Contents
  <2>2. \A k \in 1 .. Occupancy + 1 : queue'[Slot(k - 1)] \in Sockets
    <3>1. ASSUME NEW k \in 1 .. Occupancy
          PROVE  queue'[Slot(k - 1)] \in Sockets
      BY <1>3, <1>7, <1>8, ElementOfSeq
    <3>2. queue'[Slot(Occupancy + 1 - 1)] \in Sockets
      BY <1>3, <1>7
    <3>3. QED BY <1>3, <3>1, <3>2
  <2>3. Contents' \in [1 .. Occupancy + 1 -> Sockets]
    BY <2>1, <2>2
  <2>4. QED BY <2>1, <2>3, <1>3, SeqDef
<1>10. \A k \in 1 .. Occupancy + 1 : Contents'[k] = Append(Contents, x)[k]
  <2>1. /\ \A k \in 1 .. Occupancy : Append(Contents, x)[k] = Contents[k]
        /\ Append(Contents, x)[Occupancy + 1] = x
    BY <1>8, AppendProperties
  <2>2. ASSUME NEW k \in 1 .. Occupancy
        PROVE  Contents'[k] = Append(Contents, x)[k]
    BY SMTT(30), <1>3, <1>7, <1>8, <1>9, <2>1
  <2>3. Contents'[Occupancy + 1] = x
    BY <1>3, <1>7, <1>9
  <2>4. Contents'[Occupancy + 1] = Append(Contents, x)[Occupancy + 1]
    BY <2>1, <2>3
  <2>5. \A k \in 1 .. Occupancy + 1 : k \in 1 .. Occupancy \/ k = Occupancy + 1
    BY <1>3
  <2>6. QED BY <2>2, <2>4, <2>5, Zenon
<1>11. Append(Contents, x) \in Seq(Sockets) /\ Len(Append(Contents, x)) = Occupancy + 1
  BY <1>8, AppendProperties
<1>12. Contents' = Append(Contents, x)
  BY <1>9, <1>10, <1>11, SeqEqual
<1>13. QED BY <1>3, <1>8, <1>12

\* The take in dequeue removes and returns the first element.
LEMMA TakeIsTail ==
  ASSUME TypeOK, QueuedInv, NEW w \in Workers, DequeueTake(w)
  PROVE  /\ Contents # <<>> /\ queue[head] = Head(Contents)
         /\ Contents' = Tail(Contents)
<1> USE ConstantsAssumption
<1>1. /\ head \in 0 .. MAX_QUEUE - 1 /\ tail \in 0 .. MAX_QUEUE - 1
      /\ head' = head + 1 /\ tail' = tail /\ head # tail /\ queue' = queue
  BY DEF TypeOK, Slots, DequeueTake
<1>2. Front = head /\ Front' = IF head + 1 = MAX_QUEUE THEN 0 ELSE head + 1
  BY <1>1 DEF Front
<1>3. Occupancy \in Nat \ {0} /\ Occupancy' = Occupancy - 1
      /\ Occupancy <= MAX_QUEUE - 1
  BY <1>1, <1>2 DEF Occupancy
<1>4. Slot(0) = head /\ \A k \in 1 .. Occupancy - 1 : Slot(k - 1)' = Slot(k)
  BY <1>1, <1>2, <1>3 DEF Slot
<1>5. /\ Contents \in Seq(Sockets) /\ Len(Contents) = Occupancy
      /\ \A k \in 1 .. Occupancy : Contents[k] = queue[Slot(k - 1)]
  BY ContentsIsSeq
<1>6. Contents' = [k \in 1 .. Occupancy - 1 |-> queue[Slot(k)]]
  BY <1>1, <1>3, <1>4 DEF Contents
<1>7. /\ Contents' \in Seq(Sockets) /\ Len(Contents') = Occupancy'
      /\ \A k \in 1 .. Occupancy - 1 : Contents'[k] = queue[Slot(k)]
  <2>1. \A k \in 1 .. Occupancy - 1 : queue[Slot(k)] \in Sockets
    <3>1. ASSUME NEW k \in 1 .. Occupancy - 1
          PROVE  queue[Slot(k)] = Contents[k + 1] /\ k + 1 \in 1 .. Len(Contents)
      BY <1>3, <1>5
    <3>2. QED BY <3>1, <1>5, ElementOfSeq
  <2>2. Contents' \in [1 .. Occupancy - 1 -> Sockets]
    BY <1>6, <2>1
  <2>3. QED BY <1>3, <1>6, <2>2, SeqDef
<1>8. Contents # <<>> /\ Head(Contents) = queue[head]
  BY <1>3, <1>4, <1>5
<1>9. /\ Tail(Contents) \in Seq(Sockets) /\ Len(Tail(Contents)) = Occupancy - 1
      /\ \A k \in 1 .. Occupancy - 1 : Tail(Contents)[k] = Contents[k + 1]
  BY <1>5, <1>8, HeadTailProperties
<1>10. \A k \in 1 .. Occupancy - 1 : Contents'[k] = Tail(Contents)[k]
  BY SMTT(30), <1>3, <1>5, <1>7, <1>9
<1>11. QED BY <1>3, <1>7, <1>8, <1>9, <1>10, SeqEqual

-----------------------------------------------------------------------------
(* The refinement *)

\* A step that moves none of the mapped variables is a stutter of FifoServer.
LEMMA FifoStutter ==
  ASSUME UNCHANGED <<queue, head, tail, job, served>>,
         mpc' \in {"pill", "join", "done"} <=> mpc \in {"pill", "join", "done"}
  PROVE  UNCHANGED Fifo!vars
<1>1. Contents' = Contents
  BY DEF Contents, Occupancy, Slot, Front
<1>2. QED BY <1>1 DEF Fifo!vars

\* Every step of the queue is a step of FifoServer or a stutter.
LEMMA FifoStep ==
  ASSUME IInv, Next
  PROVE  [Fifo!Next]_(Fifo!vars)
<1> USE DEF IInv
<1>1. CASE Bind \/ BindFails \/ Spawn \/ Join
  BY <1>1, FifoStutter DEF Bind, BindFails, Spawn, Join, MainTo, ring, workers
<1>2. CASE \E c \in Conns : Accept(c)
  BY <1>2, FifoStutter DEF Accept, MainTo, ring, workers
<1>3. CASE AcceptTimeout
  <2>1. Contents' = Contents /\ job' = job /\ served' = served
    BY <1>3 DEF AcceptTimeout, ring, workers, Contents, Occupancy, Slot, Front
  <2>2. mpc = "accept" /\ mpc' = "pill"
    BY <1>3 DEF AcceptTimeout, MainTo
  <2>3. Fifo!Close
    BY <2>1, <2>2 DEF Fifo!Close
  <2>4. QED BY <2>3 DEF Fifo!Next
<1>4. CASE EnqueueConn
  <2>1. /\ sock \in Conns /\ sock \in Sockets /\ enqueue(sock)
        /\ mpc = "enqueue" /\ mpc' = "accept" /\ job' = job /\ served' = served
    BY <1>4 DEF EnqueueConn, MainTo, enqueue, HandInv, TypeOK, Sockets
  <2>2. Fifo!Join(sock)
    BY <2>1, EnqueueAppends DEF Fifo!Join
  <2>3. QED BY <2>1, <2>2 DEF Fifo!Next, Sockets
<1>5. CASE EnqueuePill
  <2>1. /\ Invalid \in Sockets /\ enqueue(Invalid)
        /\ mpc = "pill" /\ mpc' \in {"pill", "join"} /\ job' = job /\ served' = served
    BY <1>5 DEF EnqueuePill, MainTo, enqueue, Sockets
  <2>2. Fifo!Join(Invalid)
    BY <2>1, EnqueueAppends DEF Fifo!Join
  <2>3. QED BY <2>1, <2>2 DEF Fifo!Next, Sockets
<1>6. ASSUME NEW w \in Workers, DequeueTake(w)
      PROVE  [Fifo!Next]_(Fifo!vars)
  <2>1. /\ job[w] = None /\ job' = [job EXCEPT ![w] = queue[head]]
        /\ mpc' = mpc /\ served' = served
    BY <1>6 DEF DequeueTake, HandInv, Idle, main
  <2>2. Fifo!Take(w)
    BY <1>6, <2>1, TakeIsTail DEF Fifo!Take
  <2>3. QED BY <2>2 DEF Fifo!Next
<1>7. ASSUME NEW w \in Workers, DequeueWrap(w)
      PROVE  [Fifo!Next]_(Fifo!vars)
  <2>1. Front' = Front /\ queue' = queue /\ tail' = tail
    BY <1>7, ConstantsAssumption DEF DequeueWrap, Front, TypeOK
  <2>2. Contents' = Contents
    BY <2>1 DEF Contents, Occupancy, Slot
  <2>3. UNCHANGED <<job, mpc, served>>
    BY <1>7 DEF DequeueWrap, main
  <2>4. QED BY <2>2, <2>3 DEF Fifo!vars
<1>8. ASSUME NEW w \in Workers, Serve(w)
      PROVE  [Fifo!Next]_(Fifo!vars)
  <2>1. /\ job[w] \in Conns /\ job' = [job EXCEPT ![w] = None]
        /\ served' = served \cup {job[w]} /\ UNCHANGED <<queue, head, tail, mpc>>
    BY <1>8 DEF Serve, HandInv, Idle, TypeOK, Sockets, ring, main
  <2>2. Contents' = Contents
    BY <2>1 DEF Contents, Occupancy, Slot, Front
  <2>3. Fifo!Answer(w)
    BY <2>1, <2>2 DEF Fifo!Answer
  <2>4. QED BY <2>3 DEF Fifo!Next
<1>9. ASSUME NEW w \in Workers,
             DequeueWait(w) \/ SpuriousWakeup(w) \/ IpTestHead(w)
             \/ IpReadHead(w) \/ Terminate(w)
      PROVE  [Fifo!Next]_(Fifo!vars)
  BY <1>9, FifoStutter
  DEF DequeueWait, SpuriousWakeup, IpTestHead, IpReadHead, Terminate, ring, main
<1>10. QED
  BY <1>1, <1>2, <1>3, <1>4, <1>5, <1>6, <1>7, <1>8, <1>9
  DEF Next, MainStep, WorkerStep

\* The ring of mainSoap.cc, with its transient head and its unlocked reads, is
\* a bounded first-in first-out line that closes before it hands out pills.
THEOREM RefinesFifo == Spec => ImplementsFifo
<1>1. Init => Fifo!Init
  <2> SUFFICES ASSUME Init PROVE Fifo!Init
    OBVIOUS
  <2>1. Occupancy = 0
    BY ConstantsAssumption DEF Init, Occupancy, Front
  <2>2. Contents = <<>>
    BY <2>1 DEF Contents
  <2>3. QED BY <2>2 DEF Init, Fifo!Init
<1>2. IInv /\ [Next]_vars => [Fifo!Next]_(Fifo!vars)
  <2> SUFFICES ASSUME IInv, [Next]_vars PROVE [Fifo!Next]_(Fifo!vars)
    OBVIOUS
  <2>1. CASE Next
    BY <2>1, FifoStep
  <2>2. CASE UNCHANGED vars
    BY <2>2, FifoStutter DEF vars
  <2>3. QED BY <2>1, <2>2
<1>3. QED BY <1>1, <1>2, Invariance, PTL DEF Spec, ImplementsFifo, Fifo!Spec

=============================================================================
