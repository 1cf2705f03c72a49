-------------------------- MODULE ThreadPoolProofs --------------------------
(***************************************************************************)
(* Proofs about the thread pool for every number of threads, every queue,  *)
(* every set of tasks and every number of calls to destroy.                *)
(***************************************************************************)
EXTENDS ThreadPool, FiniteSetTheorems, TLAPS

-----------------------------------------------------------------------------
(* The inductive invariant *)

TypeInv ==
  /\ TypeOK
  /\ destroyed \in Seq(Int)
  /\ cpc \in ClientCritical \cup {"addlock"} => ctask \in Tasks

\* As long as threads are created there is no task: a worker that gets through
\* the wait loop leaves, the first may wait, and the counter is what the client
\* has made of it.
Making == cpc \in {"create", "count"}
Making1 == Making => destroyed = <<>> /\ ~ dispose /\ cur = ci
Making2 == Making => \A s \in Slots : func[s] = None
Making3 ==
  Making => \A w \in Workers :
    /\ wpc[w] \in {"unborn", "lock", "test", "waiting", "retest", "leave", "ended"}
    /\ w > ci \/ (w = ci /\ cpc = "create") => wpc[w] = "unborn"
    /\ wpc[w] = "retest" => cur >= 1
MakeInv == Making1 /\ Making2 /\ Making3

\* The pool is freed when the client is through with it.
FreedInv == freed <=> cpc = "gone"

\* Who has yet to take itself off the count is counted, also in the copies of the
\* counter that are about to be written back.
Pending ==
  {w \in Workers : wpc[w] \in
     {"lock", "waiting", "test", "retest", "grab", "advance", "advanced", "wrap", "wrapped", "load", "store"}}
Most == IF ThreadNum > QueueSize THEN ThreadNum ELSE QueueSize
Storing == {w \in Workers : wpc[w] = "store"}
UpperInv ==
  /\ cur <= Most /\ \A w \in Storing : wload[w] <= Most
  /\ cpc \in {"addfunc", "addarg", "addload"} => cur < Most
  /\ cpc = "addstore" => cload < Most
LowerInv ==
  cpc \notin {"create", "count", "gone"} =>
    /\ cur >= Cardinality(Pending)
    /\ \A w \in Storing : wload[w] >= Cardinality(Pending)
    /\ cpc = "addstore" => cload >= Cardinality(Pending)

\* Hence nobody else waits, and the way out for a counter of zero is never taken.
LoopInv == Waiting \subseteq {0} /\ \A w \in Workers : wpc[w] # "bail"

\* What destroy has joined so far.
Joined(w) == w \in highIds \/ wpc[w] = "joined"
JoinInv ==
  /\ cpc = "destroyjoin" => \A w \in Workers : w < ci => Joined(w)
  /\ cpc = "destroyfree" /\ ~ dispose => \A w \in Workers : Joined(w)
  /\ cpc = "gone" /\ destroyed # <<>> => \A w \in Workers : Joined(w)

\* While the lock is taken there is someone who will release it, except in a
\* second destroy, which keeps it.
Releasing == {w \in Workers : wpc[w] \in Critical \cup {"early", "run", "unlock"}}
LockInv ==
  /\ dispose /\ cpc # "destroyfree" => destroyed # <<>>
  /\ locked => \/ Releasing # {}
               \/ cpc \in ClientCritical
               \/ cpc = "destroyfree" /\ dispose /\ destroyed # <<>>
               \/ Len(destroyed) >= 2

\* prev counts the workers that have moved it on, and so do the copies of it that
\* are about to be written back.
Before == {"unborn", "lock", "waiting", "test", "retest", "bail", "leave", "grab",
           "advance", "advanced"}
Passed == {w \in Workers : wpc[w] \notin Before}
PrevInv ==
  /\ prev <= Cardinality(Passed)
  /\ \A w \in Workers : wpc[w] \in {"advanced", "wrapped"} =>
       wload[w] \in Nat /\ wload[w] <= Cardinality(Passed)

\* Where there are as many threads as slots, or more, no task is accepted and no
\* worker moves prev.
Written == {"addarg", "addload", "addstore", "addsignal"}
RoomInv ==
  QueueSize <= ThreadNum =>
    /\ prev = 0 /\ \A s \in Slots : func[s] = None
    /\ \A w \in Workers : wpc[w] \in {"unborn", "lock", "waiting", "test", "retest", "bail",
                                      "leave", "ended", "joined"}
    /\ cpc \notin Written \cup {"addfunc"}
    /\ cpc \notin {"create", "count", "gone"} => cur >= ThreadNum

Inv ==
  /\ PrevInv /\ RoomInv
  /\ TypeInv /\ MakeInv /\ FreedInv /\ UpperInv /\ LowerInv
  /\ LoopInv /\ JoinInv /\ LockInv

-----------------------------------------------------------------------------
(* Numbers *)

LEMMA Numbers ==
  /\ QueueSize \in Nat \ {0} /\ ThreadNum \in Nat \ {0} /\ Most \in Nat
  /\ QueueSize <= Most /\ ThreadNum <= Most
  /\ Most = QueueSize \/ Most = ThreadNum
BY PoolAssumption DEF Most

\* Sets of workers are finite, and at most ThreadNum large.
LEMMA WorkerSets ==
  ASSUME NEW S, S \subseteq Workers
  PROVE  IsFiniteSet(S) /\ Cardinality(S) \in Nat /\ Cardinality(S) <= ThreadNum
<1>1. IsFiniteSet(Workers) /\ Cardinality(Workers) = ThreadNum
  <2>1. 0 \in Int /\ ThreadNum - 1 \in Int /\ 0 <= ThreadNum - 1
    BY Numbers
  <2>2. Cardinality(Workers) = (ThreadNum - 1) - 0 + 1 /\ IsFiniteSet(Workers)
    BY <2>1, FS_Interval DEF Workers
  <2>3. QED BY <2>2, Numbers
<1>2. QED BY <1>1, FS_Subset, FS_CardinalityType

LEMMA FewerWorkers ==
  ASSUME NEW S, NEW T, S \subseteq Workers, T \subseteq S
  PROVE  Cardinality(T) <= Cardinality(S)
BY WorkerSets, FS_Subset

LEMMA AppendLen ==
  ASSUME NEW s \in Seq(Int), NEW r \in Int
  PROVE  /\ Append(s, r) # <<>> /\ Len(Append(s, r)) = Len(s) + 1
         /\ Len(s) \in Nat /\ (s # <<>> => Len(s) >= 1)
<1>1. Len(s) \in Nat /\ Len(Append(s, r)) = Len(s) + 1
  OBVIOUS
<1>2. Append(s, r) # <<>>
  BY <1>1
<1>3. s # <<>> => Len(s) # 0
  OBVIOUS
<1>4. QED BY <1>1, <1>2, <1>3

-----------------------------------------------------------------------------
(* Steps *)

\* What the steps of a worker have in common.
LEMMA WorkerMoves ==
  ASSUME NEW w \in Workers, WorkerStep(w) \/ SpuriousWakeup(w)
  PROVE  /\ ~ freed /\ wpc[w] \notin {"unborn", "ended", "joined"}
         /\ \E pc \in Critical \cup {"lock", "waiting", "early", "run", "unlock", "ended"} :
              wpc' = [wpc EXCEPT ![w] = pc]
         /\ UNCHANGED <<tail, func, arg, dispose, freed, cpc, ci, ctask, cload, err,
                        accepted, refused, destroyed>>
<1> USE DEF At, WorkerTo, Critical, pool, client, history
<1>1. CASE Lock(w)
  BY <1>1 DEF Lock
<1>2. CASE TestCount(w)
  BY <1>2 DEF TestCount
<1>3. CASE SpuriousWakeup(w)
  BY <1>3 DEF SpuriousWakeup
<1>4. CASE TestTask(w)
  BY <1>4 DEF TestTask
<1>5. CASE Leave(w)
  BY <1>5 DEF Leave
<1>6. CASE Grab(w)
  BY <1>6 DEF Grab
<1>7. CASE Advance(w)
  BY <1>7 DEF Advance
<1>8. CASE AdvanceLoad(w)
  BY <1>8 DEF AdvanceLoad
<1>9. CASE WrapLoad(w)
  BY <1>9 DEF WrapLoad
<1>10. CASE Wrap(w)
  BY <1>10 DEF Wrap
<1>11. CASE Load(w)
  BY <1>11 DEF Load
<1>12. CASE Store(w)
  BY <1>12 DEF Store
<1>13. CASE Peek(w)
  BY <1>13 DEF Peek
<1>14. CASE EarlyUnlock(w)
  BY <1>14 DEF EarlyUnlock
<1>15. CASE Run(w)
  BY <1>15 DEF Run
<1>16. CASE Unlock(w)
  BY <1>16 DEF Unlock
<1>17. QED
  BY <1>1, <1>2, <1>3, <1>4, <1>5, <1>6, <1>7, <1>8, <1>9, <1>10, <1>11, <1>12, <1>13, <1>14,
     <1>15, <1>16
  DEF WorkerStep

\* prev never reaches the end of the queue.
LEMMA PrevIn ==
  ASSUME Inv
  PROVE  prev \in Slots /\ \A slots : AtPrev(slots) = {slots[prev]}
<1>1. prev \in Slots
  <2>1. /\ prev \in Nat /\ prev <= Cardinality(Passed) /\ Cardinality(Passed) \in Nat
        /\ Cardinality(Passed) <= ThreadNum
    BY WorkerSets DEF Inv, TypeInv, TypeOK, PrevInv, Passed
  <2>2. CASE QueueSize <= ThreadNum
    <3>1. prev = 0
      BY <2>2 DEF Inv, RoomInv
    <3>2. QED BY <3>1, Numbers DEF Slots
  <2>3. CASE ~ (QueueSize <= ThreadNum)
    BY <2>1, <2>3, Numbers DEF Slots
  <2>4. QED BY <2>2, <2>3
<1>2. QED BY <1>1 DEF AtPrev

-----------------------------------------------------------------------------
(* Types *)

LEMMA TypesKept ==
  ASSUME Inv, Next
  PROVE  TypeInv'
<1> USE Numbers
    DEF Inv, TypeInv, TypeOK, Workers, Slots, Critical, ClientCritical, ClientTo,
        pool, client, worker, history
<1> highIds' = highIds
  BY DEF Next
<1>1. CASE Create
  BY <1>1 DEF Create
<1>2. CASE Count
  BY <1>2 DEF Count
<1>3. CASE CreateFails
  BY <1>3 DEF CreateFails
<1>4. CASE AddLock
  BY <1>4 DEF AddLock
<1>5. CASE AddCheck
  BY <1>5 DEF AddCheck
<1>6. CASE AddFunc
  <2>1. /\ cpc' = "addarg" /\ func' = [func EXCEPT ![tail] = ctask] /\ ctask \in Tasks
        /\ UNCHANGED <<locked, cur, prev, tail, arg, dispose, freed, worker, history,
                       ci, ctask, cload, err>>
    BY <1>6 DEF AddFunc
  <2>2. func' \in [Slots -> Tasks \cup {None}]
    BY <2>1
  <2>3. QED BY <2>1, <2>2
<1>7. CASE AddArg
  <2>1. /\ cpc' = "addload" /\ arg' = [arg EXCEPT ![tail] = ctask] /\ ctask \in Tasks
        /\ tail' = IF tail + 1 >= QueueSize THEN 0 ELSE tail + 1
        /\ UNCHANGED <<locked, cur, prev, func, dispose, freed, worker, history, ci, ctask,
                       cload, err>>
    BY <1>7 DEF AddArg
  <2>2. arg' \in [Slots -> Tasks \cup {None}] /\ tail' \in Slots
    BY <2>1
  <2>3. QED BY <2>1, <2>2
<1>8. CASE AddLoad
  BY <1>8 DEF AddLoad
<1>9. CASE AddStore
  BY <1>9 DEF AddStore
<1>10. CASE AddSignal
  BY <1>10 DEF AddSignal
<1>11. CASE AddUnlock
  BY <1>11 DEF AddUnlock
<1>12. CASE WaitCall
  BY <1>12 DEF WaitCall
<1>13. CASE WaitJoin
  BY <1>13 DEF WaitJoin
<1>14. CASE DestroyCall
  BY <1>14 DEF DestroyCall
<1>15. CASE DestroyLock
  <2>1. CASE dispose
    BY <1>15, <2>1 DEF DestroyLock
  <2>2. CASE ~ dispose
    <3>1. /\ cpc' = "destroyjoin" /\ ci' = 0
          /\ wpc' = [w \in Workers |-> IF w \in Waiting THEN "lock" ELSE wpc[w]]
          /\ UNCHANGED <<locked, err, cur, prev, tail, func, arg, dispose, freed, ctask,
                         cload, wload, wfunc, warg, accepted, refused, runs, destroyed>>
      BY <1>15, <2>2 DEF DestroyLock
    <3>2. QED BY <3>1
  <2>3. QED BY <2>1, <2>2
<1>16. CASE DestroyJoin
  <2>1. /\ err' \in {0, -3, -4} /\ ci' \in Workers /\ dispose' \in BOOLEAN
        /\ cpc' \in {"destroyjoin", "destroyfree"}
    <3>1. err' = -3 \/ err' = err
      BY <1>16 DEF DestroyJoin
    <3>2. CASE ci + 1 < ThreadNum
      BY <1>16, <3>1, <3>2 DEF DestroyJoin
    <3>3. CASE ~ (ci + 1 < ThreadNum)
      BY <1>16, <3>1, <3>3 DEF DestroyJoin
    <3>4. QED BY <3>2, <3>3
  <2>2. \/ wpc' = wpc
        \/ wpc' = [wpc EXCEPT ![ci] = "joined"]
    BY <1>16 DEF DestroyJoin
  <2>3. UNCHANGED <<locked, cur, prev, tail, func, arg, freed, ctask, cload, wload,
                   wfunc, warg, accepted, refused, runs, destroyed>>
    BY <1>16 DEF DestroyJoin
  <2>4. QED BY <2>1, <2>2, <2>3
<1>17. CASE DestroyFree
  BY <1>17 DEF DestroyFree
<1>18. ASSUME NEW t \in Tasks, AddCall(t) PROVE TypeInv'
  BY <1>18 DEF AddCall
<1>19. ASSUME NEW w \in Workers, Lock(w) PROVE TypeInv'
  BY <1>19 DEF Lock, At, WorkerTo
<1>20. ASSUME NEW w \in Workers, TestCount(w) PROVE TypeInv'
  BY <1>20 DEF TestCount, At, WorkerTo
<1>21. ASSUME NEW w \in Workers, SpuriousWakeup(w) PROVE TypeInv'
  BY <1>21 DEF SpuriousWakeup, At, WorkerTo
<1>22. ASSUME NEW w \in Workers, TestTask(w) PROVE TypeInv'
  BY <1>22 DEF TestTask, At, WorkerTo
<1>23. ASSUME NEW w \in Workers, Leave(w) PROVE TypeInv'
  <2>1. /\ locked' \in BOOLEAN /\ wpc' = [wpc EXCEPT ![w] = "ended"]
        /\ UNCHANGED <<pool, freed, client, wload, wfunc, warg, history>>
    BY <1>23 DEF Leave, At, WorkerTo
  <2>2. QED BY <2>1
<1>24. ASSUME NEW w \in Workers, Grab(w) PROVE TypeInv'
  <2>1. AtPrev(func) = {func[prev]} /\ AtPrev(arg) = {arg[prev]} /\ prev \in Slots
    BY PrevIn, Zenon
  <2>2. /\ wpc' = [wpc EXCEPT ![w] = "advance"] /\ wfunc' = [wfunc EXCEPT ![w] = func[prev]]
        /\ warg' = [warg EXCEPT ![w] = arg[prev]]
        /\ UNCHANGED <<locked, cur, prev, tail, func, arg, dispose, freed, cpc, ci, ctask,
                       cload, err, wload, accepted, refused, runs, destroyed>>
    BY <1>24, <2>1 DEF Grab, At, WorkerTo
  <2>3. QED BY <2>1, <2>2
<1>25. ASSUME NEW w \in Workers, Advance(w) PROVE TypeInv'
  BY <1>25 DEF Advance, At, WorkerTo, PrevInv
<1>26. ASSUME NEW w \in Workers, AdvanceLoad(w) PROVE TypeInv'
  BY <1>26 DEF AdvanceLoad, At, WorkerTo
<1>27. ASSUME NEW w \in Workers, WrapLoad(w) PROVE TypeInv'
  BY <1>27 DEF WrapLoad, At, WorkerTo
<1>28. ASSUME NEW w \in Workers, Wrap(w) PROVE TypeInv'
  BY <1>28 DEF Wrap, At, WorkerTo, PrevInv
<1>29. ASSUME NEW w \in Workers, Load(w) PROVE TypeInv'
  BY <1>29 DEF Load, At, WorkerTo
<1>30. ASSUME NEW w \in Workers, Store(w) PROVE TypeInv'
  BY <1>30 DEF Store, At, WorkerTo
<1>31. ASSUME NEW w \in Workers, Peek(w) PROVE TypeInv'
  BY <1>31 DEF Peek, At, WorkerTo
<1>32. ASSUME NEW w \in Workers, EarlyUnlock(w) PROVE TypeInv'
  BY <1>32 DEF EarlyUnlock, At, WorkerTo
<1>33. ASSUME NEW w \in Workers, Run(w) PROVE TypeInv'
  BY <1>33 DEF Run, At, WorkerTo
<1>34. ASSUME NEW w \in Workers, Unlock(w) PROVE TypeInv'
  BY <1>34 DEF Unlock, At, WorkerTo
<1>35. QED
  BY <1>1, <1>2, <1>3, <1>4, <1>5, <1>6, <1>7, <1>8, <1>9, <1>10, <1>11, <1>12, <1>13, <1>14,
     <1>15, <1>16, <1>17, <1>18, <1>19, <1>20, <1>21, <1>22, <1>23, <1>24, <1>25, <1>26, <1>27, <1>28, <1>29, <1>30, <1>31, <1>32, <1>33, <1>34
  DEF Next, ClientStep, ClientCall, WorkerStep

\* The creation of threads.
LEMMA MakeKept ==
  ASSUME Inv, Next
  PROVE  MakeInv'
<1> USE Numbers
    DEF Inv, TypeInv, TypeOK, Workers, Slots, ClientTo, pool, client, worker, history,
        MakeInv, Making, Making1, Making2, Making3
<1>1. CASE Create
  BY <1>1 DEF Create
<1>2. CASE Count
  BY <1>2 DEF Count
<1>3. CASE CreateFails
  BY <1>3 DEF CreateFails
<1>4. CASE AddLock
  BY <1>4 DEF AddLock
<1>5. CASE AddCheck
  BY <1>5 DEF AddCheck
<1>6. CASE AddFunc
  BY <1>6 DEF AddFunc
<1>7. CASE AddArg
  BY <1>7 DEF AddArg
<1>8. CASE AddLoad
  BY <1>8 DEF AddLoad
<1>9. CASE AddStore
  BY <1>9 DEF AddStore
<1>10. CASE AddSignal
  BY <1>10 DEF AddSignal
<1>11. CASE AddUnlock
  BY <1>11 DEF AddUnlock
<1>12. CASE WaitCall
  BY <1>12 DEF WaitCall
<1>13. CASE WaitJoin
  BY <1>13 DEF WaitJoin
<1>14. CASE DestroyCall
  BY <1>14 DEF DestroyCall
<1>15. CASE DestroyLock
  BY <1>15 DEF DestroyLock
<1>16. CASE DestroyJoin
  BY <1>16 DEF DestroyJoin
<1>17. CASE DestroyFree
  BY <1>17 DEF DestroyFree
<1>18. ASSUME NEW t \in Tasks, AddCall(t) PROVE MakeInv'
  BY <1>18 DEF AddCall
<1>19. ASSUME NEW w \in Workers, Lock(w) PROVE MakeInv'
  BY <1>19 DEF Lock, At, WorkerTo
<1>20. ASSUME NEW w \in Workers, TestCount(w) PROVE MakeInv'
  <2>1. PICK pc \in {"waiting", "retest"} :
          /\ wpc' = [wpc EXCEPT ![w] = pc]
          /\ pc = "retest" => cur # 0 \/ dispose
    <3>1. \/ wpc' = [wpc EXCEPT ![w] = "waiting"]
          \/ wpc' = [wpc EXCEPT ![w] = "retest"] /\ ~ (cur = 0 /\ ~ dispose)
      BY <1>20 DEF TestCount, WorkerTo
    <3>2. QED BY <3>1
  <2>2. UNCHANGED <<cur, func, dispose, cpc, ci, destroyed>> /\ wpc[w] = "test"
    BY <1>20 DEF TestCount, At
  <2>3. Making1' /\ Making2'
    BY <2>2
  <2>4. SUFFICES ASSUME Making PROVE Making3'
    BY <2>2, <2>3
  <2>5. pc = "retest" => cur >= 1
    <3>1. cur = ci /\ ~ dispose
      BY <2>4
    <3>2. ci \in Int /\ ci >= 0
      OBVIOUS
    <3>3. QED BY <2>1, <3>1, <3>2
  <2>6. w <= ci /\ ~ (w = ci /\ cpc = "create")
    <3>1. ~ (w > ci \/ (w = ci /\ cpc = "create"))
      BY <2>2, <2>4
    <3>2. w \in Int /\ ci \in Int
      OBVIOUS
    <3>3. QED BY <3>1, <3>2
  <2>7. QED BY <2>1, <2>2, <2>4, <2>5, <2>6
<1>21. ASSUME NEW w \in Workers, SpuriousWakeup(w) PROVE MakeInv'
  BY <1>21 DEF SpuriousWakeup, At, WorkerTo
<1>22. ASSUME NEW w \in Workers, TestTask(w) PROVE MakeInv'
  <2>1. PICK pc \in {"bail", "leave", "grab"} :
          /\ wpc' = [wpc EXCEPT ![w] = pc]
          /\ Making => pc = "leave"
    <3>1. AtPrev(func) = {func[prev]} /\ prev \in Slots
      BY PrevIn, Zenon
    <3>2. Making => cur # 0 /\ func[prev] = None
      BY <1>22, <3>1 DEF TestTask, At
    <3>3. QED BY <1>22, <3>1, <3>2 DEF TestTask, At, WorkerTo
  <2>2. UNCHANGED <<cur, func, dispose, cpc, ci, destroyed>> /\ wpc[w] = "retest"
    BY <1>22 DEF TestTask, At
  <2>3. QED BY <2>1, <2>2
<1>23. ASSUME NEW w \in Workers, Leave(w) PROVE MakeInv'
  BY <1>23 DEF Leave, At, WorkerTo
<1>24. ASSUME NEW w \in Workers, Grab(w) PROVE MakeInv'
  BY <1>24 DEF Grab, At, WorkerTo
<1>25. ASSUME NEW w \in Workers, Advance(w) PROVE MakeInv'
  BY <1>25 DEF Advance, At, WorkerTo
<1>26. ASSUME NEW w \in Workers, AdvanceLoad(w) PROVE MakeInv'
  BY <1>26 DEF AdvanceLoad, At, WorkerTo
<1>27. ASSUME NEW w \in Workers, WrapLoad(w) PROVE MakeInv'
  BY <1>27 DEF WrapLoad, At, WorkerTo
<1>28. ASSUME NEW w \in Workers, Wrap(w) PROVE MakeInv'
  BY <1>28 DEF Wrap, At, WorkerTo
<1>29. ASSUME NEW w \in Workers, Load(w) PROVE MakeInv'
  BY <1>29 DEF Load, At, WorkerTo
<1>30. ASSUME NEW w \in Workers, Store(w) PROVE MakeInv'
  BY <1>30 DEF Store, At, WorkerTo
<1>31. ASSUME NEW w \in Workers, Peek(w) PROVE MakeInv'
  BY <1>31 DEF Peek, At, WorkerTo
<1>32. ASSUME NEW w \in Workers, EarlyUnlock(w) PROVE MakeInv'
  BY <1>32 DEF EarlyUnlock, At, WorkerTo
<1>33. ASSUME NEW w \in Workers, Run(w) PROVE MakeInv'
  BY <1>33 DEF Run, At, WorkerTo
<1>34. ASSUME NEW w \in Workers, Unlock(w) PROVE MakeInv'
  BY <1>34 DEF Unlock, At, WorkerTo
<1>35. QED
  BY <1>1, <1>2, <1>3, <1>4, <1>5, <1>6, <1>7, <1>8, <1>9, <1>10, <1>11, <1>12, <1>13, <1>14,
     <1>15, <1>16, <1>17, <1>18, <1>19, <1>20, <1>21, <1>22, <1>23, <1>24, <1>25, <1>26, <1>27, <1>28, <1>29, <1>30, <1>31, <1>32, <1>33, <1>34
  DEF Next, ClientStep, ClientCall, WorkerStep

\* Only the client frees, as its last step.
LEMMA FreedKept ==
  ASSUME Inv, Next
  PROVE  FreedInv'
<1> USE Numbers
    DEF Inv, FreedInv, ClientTo, pool, client, worker, history
<1>1. CASE Create
  BY <1>1 DEF Create
<1>2. CASE Count
  BY <1>2 DEF Count
<1>3. CASE CreateFails
  BY <1>3 DEF CreateFails
<1>4. CASE AddLock
  BY <1>4 DEF AddLock
<1>5. CASE AddCheck
  BY <1>5 DEF AddCheck
<1>6. CASE AddFunc
  BY <1>6 DEF AddFunc
<1>7. CASE AddArg
  BY <1>7 DEF AddArg
<1>8. CASE AddLoad
  BY <1>8 DEF AddLoad
<1>9. CASE AddStore
  BY <1>9 DEF AddStore
<1>10. CASE AddSignal
  BY <1>10 DEF AddSignal
<1>11. CASE AddUnlock
  BY <1>11 DEF AddUnlock
<1>12. CASE WaitCall
  BY <1>12 DEF WaitCall
<1>13. CASE WaitJoin
  BY <1>13 DEF WaitJoin
<1>14. CASE DestroyCall
  BY <1>14 DEF DestroyCall
<1>15. CASE DestroyLock
  BY <1>15 DEF DestroyLock
<1>16. CASE DestroyJoin
  BY <1>16 DEF DestroyJoin
<1>17. CASE DestroyFree
  BY <1>17 DEF DestroyFree
<1>18. ASSUME NEW t \in Tasks, AddCall(t) PROVE FreedInv'
  BY <1>18 DEF AddCall
<1>19. ASSUME NEW w \in Workers, WorkerStep(w) \/ SpuriousWakeup(w) PROVE FreedInv'
  BY <1>19, WorkerMoves
<1>20. QED
  BY <1>1, <1>2, <1>3, <1>4, <1>5, <1>6, <1>7, <1>8, <1>9, <1>10, <1>11, <1>12, <1>13, <1>14,
     <1>15, <1>16, <1>17, <1>18, <1>19
  DEF Next, ClientStep, ClientCall

\* A worker inside the wait loop finds itself counted; only the first may get
\* there before it is.
LEMMA CountedInLoop ==
  ASSUME Inv, ~ freed, NEW w \in Workers,
         wpc[w] = "retest" \/ (wpc[w] = "test" /\ w # 0)
  PROVE  cur # 0
<1>1. cpc # "gone" /\ cur \in Int
  BY DEF Inv, FreedInv, TypeInv, TypeOK
<1>2. CASE Making
  BY <1>1, <1>2 DEF Inv, MakeInv, Making1, Making3, Making, Workers, TypeInv, TypeOK
<1>3. CASE ~ Making
  <2>1. w \in Pending /\ Pending \subseteq Workers
    BY DEF Pending
  <2>2. Cardinality(Pending) \in Nat /\ Cardinality(Pending) # 0
    BY <2>1, WorkerSets, FS_EmptySet
  <2>3. cur >= Cardinality(Pending)
    BY <1>1, <1>3 DEF Inv, LowerInv, Making
  <2>4. QED BY <1>1, <2>2, <2>3
<1>4. QED BY <1>2, <1>3

\* The wait loop.
LEMMA LoopKept ==
  ASSUME Inv, Next
  PROVE  LoopInv'
<1> USE Numbers
    DEF Inv, TypeInv, TypeOK, LoopInv, Waiting, ClientTo, pool, client, worker, history
<1>1. CASE Create
  BY <1>1 DEF Create
<1>2. CASE Count
  BY <1>2 DEF Count
<1>3. CASE CreateFails
  BY <1>3 DEF CreateFails
<1>4. CASE AddLock
  BY <1>4 DEF AddLock
<1>5. CASE AddCheck
  BY <1>5 DEF AddCheck
<1>6. CASE AddFunc
  BY <1>6 DEF AddFunc
<1>7. CASE AddArg
  BY <1>7 DEF AddArg
<1>8. CASE AddLoad
  BY <1>8 DEF AddLoad
<1>9. CASE AddStore
  BY <1>9 DEF AddStore
<1>10. CASE AddSignal
  BY <1>10 DEF AddSignal
<1>11. CASE AddUnlock
  BY <1>11 DEF AddUnlock
<1>12. CASE WaitCall
  BY <1>12 DEF WaitCall
<1>13. CASE WaitJoin
  BY <1>13 DEF WaitJoin
<1>14. CASE DestroyCall
  BY <1>14 DEF DestroyCall
<1>15. CASE DestroyLock
  BY <1>15 DEF DestroyLock
<1>16. CASE DestroyJoin
  BY <1>16 DEF DestroyJoin
<1>17. CASE DestroyFree
  BY <1>17 DEF DestroyFree
<1>18. ASSUME NEW t \in Tasks, AddCall(t) PROVE LoopInv'
  BY <1>18 DEF AddCall
<1>19. ASSUME NEW w \in Workers, Lock(w) PROVE LoopInv'
  BY <1>19 DEF Lock, At, WorkerTo
<1>20. ASSUME NEW w \in Workers, TestCount(w) PROVE LoopInv'
  <2>1. w # 0 => cur # 0
    BY <1>20, CountedInLoop DEF TestCount, At
  <2>2. PICK pc \in {"waiting", "retest"} :
          wpc' = [wpc EXCEPT ![w] = pc] /\ (pc = "waiting" => w = 0)
    BY <1>20, <2>1 DEF TestCount, WorkerTo
  <2>3. QED BY <2>2
<1>21. ASSUME NEW w \in Workers, SpuriousWakeup(w) PROVE LoopInv'
  BY <1>21 DEF SpuriousWakeup, At, WorkerTo
<1>22. ASSUME NEW w \in Workers, TestTask(w) PROVE LoopInv'
  <2>1. cur # 0
    BY <1>22, CountedInLoop DEF TestTask, At
  <2>2. PICK pc \in {"leave", "grab"} : wpc' = [wpc EXCEPT ![w] = pc]
    BY <1>22, <2>1 DEF TestTask, WorkerTo
  <2>3. QED BY <2>2
<1>23. ASSUME NEW w \in Workers, Leave(w) PROVE LoopInv'
  BY <1>23 DEF Leave, At, WorkerTo
<1>24. ASSUME NEW w \in Workers, Grab(w) PROVE LoopInv'
  BY <1>24 DEF Grab, At, WorkerTo
<1>25. ASSUME NEW w \in Workers, Advance(w) PROVE LoopInv'
  BY <1>25 DEF Advance, At, WorkerTo
<1>26. ASSUME NEW w \in Workers, AdvanceLoad(w) PROVE LoopInv'
  BY <1>26 DEF AdvanceLoad, At, WorkerTo
<1>27. ASSUME NEW w \in Workers, WrapLoad(w) PROVE LoopInv'
  BY <1>27 DEF WrapLoad, At, WorkerTo
<1>28. ASSUME NEW w \in Workers, Wrap(w) PROVE LoopInv'
  BY <1>28 DEF Wrap, At, WorkerTo
<1>29. ASSUME NEW w \in Workers, Load(w) PROVE LoopInv'
  BY <1>29 DEF Load, At, WorkerTo
<1>30. ASSUME NEW w \in Workers, Store(w) PROVE LoopInv'
  BY <1>30 DEF Store, At, WorkerTo
<1>31. ASSUME NEW w \in Workers, Peek(w) PROVE LoopInv'
  BY <1>31 DEF Peek, At, WorkerTo
<1>32. ASSUME NEW w \in Workers, EarlyUnlock(w) PROVE LoopInv'
  BY <1>32 DEF EarlyUnlock, At, WorkerTo
<1>33. ASSUME NEW w \in Workers, Run(w) PROVE LoopInv'
  BY <1>33 DEF Run, At, WorkerTo
<1>34. ASSUME NEW w \in Workers, Unlock(w) PROVE LoopInv'
  BY <1>34 DEF Unlock, At, WorkerTo
<1>35. QED
  BY <1>1, <1>2, <1>3, <1>4, <1>5, <1>6, <1>7, <1>8, <1>9, <1>10, <1>11, <1>12, <1>13, <1>14,
     <1>15, <1>16, <1>17, <1>18, <1>19, <1>20, <1>21, <1>22, <1>23, <1>24, <1>25, <1>26, <1>27, <1>28, <1>29, <1>30, <1>31, <1>32, <1>33, <1>34
  DEF Next, ClientStep, ClientCall, WorkerStep

\* The joins.
LEMMA JoinKept ==
  ASSUME Inv, Next
  PROVE  JoinInv'
<1> USE Numbers
    DEF Inv, TypeInv, TypeOK, Workers, Slots, ClientTo, pool, client, worker, history,
        JoinInv, Joined
<1> highIds' = highIds
  BY DEF Next
<1>1. CASE Create
  BY <1>1 DEF Create
<1>2. CASE Count
  BY <1>2 DEF Count
<1>3. CASE CreateFails
  <2>1. destroyed' = <<>> /\ cpc' = "gone"
    BY <1>3 DEF CreateFails, MakeInv, Making1, Making
  <2>2. QED BY <2>1
<1>4. CASE AddLock
  BY <1>4 DEF AddLock
<1>5. CASE AddCheck
  BY <1>5 DEF AddCheck
<1>6. CASE AddFunc
  BY <1>6 DEF AddFunc
<1>7. CASE AddArg
  BY <1>7 DEF AddArg
<1>8. CASE AddLoad
  BY <1>8 DEF AddLoad
<1>9. CASE AddStore
  BY <1>9 DEF AddStore
<1>10. CASE AddSignal
  BY <1>10 DEF AddSignal
<1>11. CASE AddUnlock
  BY <1>11 DEF AddUnlock
<1>12. CASE WaitCall
  BY <1>12 DEF WaitCall
<1>13. CASE WaitJoin
  BY <1>13 DEF WaitJoin
<1>14. CASE DestroyCall
  BY <1>14 DEF DestroyCall
<1>15. CASE DestroyLock
  BY <1>15 DEF DestroyLock
<1>16. CASE DestroyJoin
  <2>1. /\ cpc = "destroyjoin" /\ UNCHANGED destroyed
        /\ \A w \in Workers : w <= ci => Joined(w)'
    <3>1. CASE ci \in highIds \/ wpc[ci] = "joined"
      BY <1>16, <3>1 DEF DestroyJoin
    <3>2. CASE ~ (ci \in highIds \/ wpc[ci] = "joined")
      <4>1. wpc' = [wpc EXCEPT ![ci] = "joined"]
        BY <1>16, <3>2 DEF DestroyJoin
      <4>2. QED BY <1>16, <4>1 DEF DestroyJoin
    <3>3. QED BY <3>1, <3>2
  <2>2. CASE ci + 1 < ThreadNum
    <3>1. ci' = ci + 1 /\ cpc' = "destroyjoin"
      BY <1>16, <2>1, <2>2 DEF DestroyJoin
    <3>2. QED BY <2>1, <3>1
  <2>3. CASE ~ (ci + 1 < ThreadNum)
    <3>1. cpc' = "destroyfree" /\ ci \in Int /\ \A w \in Workers : w <= ci
      BY <1>16, <2>3 DEF DestroyJoin
    <3>2. QED BY <2>1, <3>1
  <2>4. QED BY <2>2, <2>3
<1>17. CASE DestroyFree
  BY <1>17 DEF DestroyFree
<1>18. ASSUME NEW t \in Tasks, AddCall(t) PROVE JoinInv'
  BY <1>18 DEF AddCall
<1>19. ASSUME NEW w \in Workers, WorkerStep(w) \/ SpuriousWakeup(w) PROVE JoinInv'
  <2>1. PICK pc \in Critical \cup {"lock", "waiting", "early", "run", "unlock", "ended"} :
          wpc' = [wpc EXCEPT ![w] = pc]
    BY <1>19, WorkerMoves
  <2>2. wpc[w] # "joined" /\ UNCHANGED <<cpc, ci, dispose, destroyed>>
    BY <1>19, WorkerMoves
  <2>3. QED BY <2>1, <2>2
<1>20. QED
  BY <1>1, <1>2, <1>3, <1>4, <1>5, <1>6, <1>7, <1>8, <1>9, <1>10, <1>11, <1>12, <1>13, <1>14,
     <1>15, <1>16, <1>17, <1>18, <1>19
  DEF Next, ClientStep, ClientCall

\* The lock.
LEMMA LockKept ==
  ASSUME Inv, Next
  PROVE  LockInv'
<1> USE Numbers
    DEF Inv, TypeInv, TypeOK, Workers, Slots, ClientTo, pool, client, worker, history,
        LockInv, Releasing, ClientCritical, Critical
<1>1. CASE Create
  <2>1. wpc[ci] = "unborn" /\ ci \in Workers
    BY <1>1 DEF Create, MakeInv, Making3, Making
  <2>2. QED BY <1>1, <2>1 DEF Create
<1>2. CASE Count
  BY <1>2 DEF Count
<1>3. CASE CreateFails
  BY <1>3 DEF CreateFails
<1>4. CASE AddLock
  BY <1>4 DEF AddLock
<1>5. CASE AddCheck
  BY <1>5 DEF AddCheck
<1>6. CASE AddFunc
  BY <1>6 DEF AddFunc
<1>7. CASE AddArg
  BY <1>7 DEF AddArg
<1>8. CASE AddLoad
  BY <1>8 DEF AddLoad
<1>9. CASE AddStore
  BY <1>9 DEF AddStore
<1>10. CASE AddSignal
  BY <1>10 DEF AddSignal
<1>11. CASE AddUnlock
  BY <1>11 DEF AddUnlock
<1>12. CASE WaitCall
  BY <1>12 DEF WaitCall
<1>13. CASE WaitJoin
  BY <1>13 DEF WaitJoin
<1>14. CASE DestroyCall
  BY <1>14 DEF DestroyCall
<1>15. CASE DestroyLock
  BY <1>15 DEF DestroyLock
<1>16. CASE DestroyJoin
  BY <1>16 DEF DestroyJoin
<1>17. CASE DestroyFree
  <2>1. PICK r \in Int : destroyed' = Append(destroyed, r)
    <3>1. destroyed' = Append(destroyed, IF dispose THEN -5 ELSE err)
      BY <1>17 DEF DestroyFree
    <3>2. (IF dispose THEN -5 ELSE err) \in Int
      OBVIOUS
    <3>3. QED BY <3>1, <3>2
  <2>2. /\ destroyed' # <<>> /\ Len(destroyed') = Len(destroyed) + 1
        /\ Len(destroyed) \in Nat /\ (destroyed # <<>> => Len(destroyed) >= 1)
    BY <2>1, AppendLen
  <2>3. /\ cpc = "destroyfree" /\ cpc' \in {"idle", "gone"}
        /\ UNCHANGED <<locked, dispose, wpc>>
    BY <1>17 DEF DestroyFree
  <2>4. Releasing' = Releasing
    BY <2>3 DEF Releasing
  <2>5. destroyed # <<>> => Len(destroyed') >= 2
    BY <2>2
  <2>6. CASE destroyed # <<>>
    BY <2>2, <2>3, <2>5, <2>6
  <2>7. CASE destroyed = <<>>
    <3>1. ~ (Len(destroyed) >= 2)
      BY <2>7
    <3>2. locked => Releasing # {}
      BY <2>3, <2>7, <3>1
    <3>3. QED BY <2>2, <2>3, <2>4, <3>2
  <2>8. QED BY <2>6, <2>7
<1>18. ASSUME NEW t \in Tasks, AddCall(t) PROVE LockInv'
  BY <1>18 DEF AddCall
<1>19. ASSUME NEW w \in Workers, Lock(w) PROVE LockInv'
  BY <1>19 DEF Lock, At, WorkerTo
<1>20. ASSUME NEW w \in Workers, TestCount(w) PROVE LockInv'
  BY <1>20 DEF TestCount, At, WorkerTo
<1>21. ASSUME NEW w \in Workers, SpuriousWakeup(w) PROVE LockInv'
  BY <1>21 DEF SpuriousWakeup, At, WorkerTo
<1>22. ASSUME NEW w \in Workers, TestTask(w) PROVE LockInv'
  BY <1>22 DEF TestTask, At, WorkerTo
<1>23. ASSUME NEW w \in Workers, Leave(w) PROVE LockInv'
  <2>1. ~ locked' /\ UNCHANGED <<dispose, cpc, destroyed>>
    BY <1>23 DEF Leave, At, LoopInv
  <2>2. QED BY <2>1
<1>24. ASSUME NEW w \in Workers, Grab(w) PROVE LockInv'
  BY <1>24 DEF Grab, At, WorkerTo
<1>25. ASSUME NEW w \in Workers, Advance(w) PROVE LockInv'
  BY <1>25 DEF Advance, At, WorkerTo
<1>26. ASSUME NEW w \in Workers, AdvanceLoad(w) PROVE LockInv'
  BY <1>26 DEF AdvanceLoad, At, WorkerTo
<1>27. ASSUME NEW w \in Workers, WrapLoad(w) PROVE LockInv'
  BY <1>27 DEF WrapLoad, At, WorkerTo
<1>28. ASSUME NEW w \in Workers, Wrap(w) PROVE LockInv'
  BY <1>28 DEF Wrap, At, WorkerTo
<1>29. ASSUME NEW w \in Workers, Load(w) PROVE LockInv'
  BY <1>29 DEF Load, At, WorkerTo
<1>30. ASSUME NEW w \in Workers, Store(w) PROVE LockInv'
  BY <1>30 DEF Store, At, WorkerTo
<1>31. ASSUME NEW w \in Workers, Peek(w) PROVE LockInv'
  BY <1>31 DEF Peek, At, WorkerTo
<1>32. ASSUME NEW w \in Workers, EarlyUnlock(w) PROVE LockInv'
  BY <1>32 DEF EarlyUnlock, At, WorkerTo
<1>33. ASSUME NEW w \in Workers, Run(w) PROVE LockInv'
  BY <1>33 DEF Run, At, WorkerTo
<1>34. ASSUME NEW w \in Workers, Unlock(w) PROVE LockInv'
  BY <1>34 DEF Unlock, At, WorkerTo
<1>35. QED
  BY <1>1, <1>2, <1>3, <1>4, <1>5, <1>6, <1>7, <1>8, <1>9, <1>10, <1>11, <1>12, <1>13, <1>14,
     <1>15, <1>16, <1>17, <1>18, <1>19, <1>20, <1>21, <1>22, <1>23, <1>24, <1>25, <1>26, <1>27, <1>28, <1>29, <1>30, <1>31, <1>32, <1>33, <1>34
  DEF Next, ClientStep, ClientCall, WorkerStep

\* The bound above.
LEMMA UpperKept ==
  ASSUME Inv, Next
  PROVE  UpperInv'
<1> USE Numbers
    DEF Inv, TypeInv, TypeOK, Workers, ClientTo, pool, client, worker, history,
        UpperInv, Storing, MakeInv, Making, Making1, Making3
<1>1. CASE Create
  BY <1>1 DEF Create
<1>2. CASE Count
  BY <1>2 DEF Count
<1>3. CASE CreateFails
  BY <1>3 DEF CreateFails
<1>4. CASE AddLock
  BY <1>4 DEF AddLock
<1>5. CASE AddCheck
  BY <1>5 DEF AddCheck
<1>6. CASE AddFunc
  BY <1>6 DEF AddFunc
<1>7. CASE AddArg
  BY <1>7 DEF AddArg
<1>8. CASE AddLoad
  BY <1>8 DEF AddLoad
<1>9. CASE AddStore
  BY <1>9 DEF AddStore
<1>10. CASE AddSignal
  BY <1>10 DEF AddSignal
<1>11. CASE AddUnlock
  BY <1>11 DEF AddUnlock
<1>12. CASE WaitCall
  BY <1>12 DEF WaitCall
<1>13. CASE WaitJoin
  BY <1>13 DEF WaitJoin
<1>14. CASE DestroyCall
  BY <1>14 DEF DestroyCall
<1>15. CASE DestroyLock
  BY <1>15 DEF DestroyLock
<1>16. CASE DestroyJoin
  BY <1>16 DEF DestroyJoin
<1>17. CASE DestroyFree
  BY <1>17 DEF DestroyFree
<1>18. ASSUME NEW t \in Tasks, AddCall(t) PROVE UpperInv'
  BY <1>18 DEF AddCall
<1>19. ASSUME NEW w \in Workers, Lock(w) PROVE UpperInv'
  BY <1>19 DEF Lock, At, WorkerTo
<1>20. ASSUME NEW w \in Workers, TestCount(w) PROVE UpperInv'
  BY <1>20 DEF TestCount, At, WorkerTo
<1>21. ASSUME NEW w \in Workers, SpuriousWakeup(w) PROVE UpperInv'
  BY <1>21 DEF SpuriousWakeup, At, WorkerTo
<1>22. ASSUME NEW w \in Workers, TestTask(w) PROVE UpperInv'
  BY <1>22 DEF TestTask, At, WorkerTo
<1>23. ASSUME NEW w \in Workers, Leave(w) PROVE UpperInv'
  BY <1>23 DEF Leave, At, WorkerTo
<1>24. ASSUME NEW w \in Workers, Grab(w) PROVE UpperInv'
  BY <1>24 DEF Grab, At, WorkerTo
<1>25. ASSUME NEW w \in Workers, Advance(w) PROVE UpperInv'
  BY <1>25 DEF Advance, At, WorkerTo
<1>26. ASSUME NEW w \in Workers, AdvanceLoad(w) PROVE UpperInv'
  BY <1>26 DEF AdvanceLoad, At, WorkerTo
<1>27. ASSUME NEW w \in Workers, WrapLoad(w) PROVE UpperInv'
  BY <1>27 DEF WrapLoad, At, WorkerTo
<1>28. ASSUME NEW w \in Workers, Wrap(w) PROVE UpperInv'
  BY <1>28 DEF Wrap, At, WorkerTo
<1>29. ASSUME NEW w \in Workers, Load(w) PROVE UpperInv'
  BY <1>29 DEF Load, At, WorkerTo
<1>30. ASSUME NEW w \in Workers, Store(w) PROVE UpperInv'
  BY <1>30 DEF Store, At, WorkerTo
<1>31. ASSUME NEW w \in Workers, Peek(w) PROVE UpperInv'
  BY <1>31 DEF Peek, At, WorkerTo
<1>32. ASSUME NEW w \in Workers, EarlyUnlock(w) PROVE UpperInv'
  BY <1>32 DEF EarlyUnlock, At, WorkerTo
<1>33. ASSUME NEW w \in Workers, Run(w) PROVE UpperInv'
  BY <1>33 DEF Run, At, WorkerTo
<1>34. ASSUME NEW w \in Workers, Unlock(w) PROVE UpperInv'
  BY <1>34 DEF Unlock, At, WorkerTo
<1>35. QED
  BY <1>1, <1>2, <1>3, <1>4, <1>5, <1>6, <1>7, <1>8, <1>9, <1>10, <1>11, <1>12, <1>13, <1>14,
     <1>15, <1>16, <1>17, <1>18, <1>19, <1>20, <1>21, <1>22, <1>23, <1>24, <1>25, <1>26, <1>27, <1>28, <1>29, <1>30, <1>31, <1>32, <1>33, <1>34
  DEF Next, ClientStep, ClientCall, WorkerStep

\* The bound below: a step that neither writes the counter nor a copy of it.
LEMMA Uncounted ==
  ASSUME Inv, cpc \notin {"create", "count", "gone"},
         Pending' \subseteq Pending, Storing' \subseteq Storing,
         \A w \in Storing' : wload'[w] = wload[w],
         cur' = cur, cpc' = "addstore" => cpc = "addstore" /\ cload' = cload
  PROVE  LowerInv'
<1>1. /\ Cardinality(Pending') <= Cardinality(Pending)
      /\ Cardinality(Pending') \in Nat /\ Cardinality(Pending) \in Nat
  BY FewerWorkers, WorkerSets DEF Pending
<1>2. /\ cur >= Cardinality(Pending) /\ cur \in Int /\ cload \in Int
      /\ \A w \in Storing : wload[w] >= Cardinality(Pending) /\ wload[w] \in Int
      /\ cpc = "addstore" => cload >= Cardinality(Pending)
  BY DEF Inv, LowerInv, TypeInv, TypeOK, Storing
<1>3. cur' >= Cardinality(Pending')
  BY <1>1, <1>2
<1>4. \A w \in Storing' : wload'[w] >= Cardinality(Pending')
  BY <1>1, <1>2
<1>5. cpc' = "addstore" => cload' >= Cardinality(Pending')
  BY <1>1, <1>2
<1>6. QED BY <1>3, <1>4, <1>5 DEF LowerInv

\* The client after it has created the threads, where it does not touch the counter.
ClientQuiet ==
  \/ AddLock \/ AddCheck \/ AddFunc \/ AddArg \/ AddSignal \/ AddUnlock
  \/ WaitCall \/ WaitJoin \/ DestroyCall \/ DestroyLock \/ DestroyJoin \/ DestroyFree
  \/ \E t \in Tasks : AddCall(t)

LEMMA QuietClient ==
  ASSUME Inv, ClientQuiet
  PROVE  LowerInv'
<1> USE DEF ClientTo, pool, client, worker, history
<1>1. /\ UNCHANGED <<cur, wload, cload>> /\ cpc' # "addstore"
      /\ cpc \notin {"create", "count", "gone"}
  BY DEF ClientQuiet, AddLock, AddCheck, AddFunc, AddArg, AddSignal, AddUnlock,
     WaitCall, WaitJoin, DestroyCall, DestroyLock, DestroyJoin, DestroyFree, AddCall
<1>2. \A w \in Workers :
        \/ wpc'[w] = wpc[w] \/ wpc'[w] = "joined"
        \/ wpc[w] = "waiting" /\ wpc'[w] = "lock"
  <2> SUFFICES ASSUME NEW w \in Workers
               PROVE  \/ wpc'[w] = wpc[w] \/ wpc'[w] = "joined"
                      \/ wpc[w] = "waiting" /\ wpc'[w] = "lock"
    OBVIOUS
  <2> wpc \in [Workers -> Critical \cup {"unborn", "lock", "waiting", "early", "run",
                                         "unlock", "ended", "joined"}]
    BY DEF Inv, TypeInv, TypeOK
  <2>1. CASE AddSignal
    BY <2>1 DEF AddSignal, Waiting
  <2>2. CASE DestroyLock
    BY <2>2 DEF DestroyLock, Waiting
  <2>3. CASE WaitJoin
    BY <2>3 DEF WaitJoin
  <2>4. CASE DestroyJoin
    BY <2>4 DEF DestroyJoin
  <2>5. CASE ~ (AddSignal \/ DestroyLock \/ WaitJoin \/ DestroyJoin)
    <3>1. wpc' = wpc
      BY <2>5
      DEF ClientQuiet, AddLock, AddCheck, AddFunc, AddArg, AddUnlock, WaitCall,
          DestroyCall, DestroyFree, AddCall
    <3>2. QED BY <3>1
  <2>6. QED BY <2>1, <2>2, <2>3, <2>4, <2>5
<1>3. Pending' \subseteq Pending /\ Storing' \subseteq Storing
  BY <1>2 DEF Pending, Storing
<1>4. QED BY <1>1, <1>3, Uncounted

LEMMA LowerKept ==
  ASSUME Inv, Next
  PROVE  LowerInv'
<1> USE DEF ClientTo, WorkerTo, At, pool, client, worker, history
<1>1. /\ cur \in Int /\ wload \in [Workers -> Int] /\ cload \in Int /\ ci \in Workers
      /\ wpc \in [Workers -> Critical \cup {"unborn", "lock", "waiting", "early", "run",
                                           "unlock", "ended", "joined"}]
  BY DEF Inv, TypeInv, TypeOK
<1>2. /\ \A S \in SUBSET Workers :
           Cardinality(S) \in Nat /\ Cardinality(S) <= ThreadNum /\ IsFiniteSet(S)
      /\ Pending \in SUBSET Workers /\ Pending' \in SUBSET Workers
  BY WorkerSets DEF Pending
<1>3. CASE Create \/ CreateFails
  BY <1>3 DEF Create, CreateFails, LowerInv
<1>4. CASE Count
  <2>1. CASE ci + 1 < ThreadNum
    BY <1>4, <2>1 DEF Count, LowerInv
  <2>2. CASE ~ (ci + 1 < ThreadNum)
    <3>1. cur' = ci + 1 /\ ci + 1 = ThreadNum /\ cpc' = "idle" /\ wpc' = wpc
      BY <1>1, <1>4, <2>2, Numbers DEF Count, Inv, MakeInv, Making1, Making, Workers
    <3>2. Storing' = {}
      BY <1>4, <3>1 DEF Count, Storing, Inv, MakeInv, Making3, Making
    <3>3. QED BY <1>2, <3>1, <3>2 DEF LowerInv
  <2>3. QED BY <2>1, <2>2
<1>5. CASE AddLoad
  <2>1. /\ cpc = "addload" /\ cpc' = "addstore" /\ cload' = cur
        /\ UNCHANGED <<cur, wpc, wload>>
    BY <1>5 DEF AddLoad
  <2>2. Pending' = Pending /\ Storing' = Storing
    BY <2>1 DEF Pending, Storing
  <2>3. QED BY <2>1, <2>2 DEF Inv, LowerInv
<1>6. CASE AddStore
  <2>1. /\ cpc = "addstore" /\ cpc' = "addsignal" /\ cur' = cload + 1
        /\ UNCHANGED <<wpc, wload>>
    BY <1>6 DEF AddStore
  <2>2. Pending' = Pending /\ Storing' = Storing
    BY <2>1 DEF Pending, Storing
  <2>3. Cardinality(Pending) \in Nat /\ cload >= Cardinality(Pending)
    BY <1>2, <2>1 DEF Inv, LowerInv
  <2>4. cur' >= Cardinality(Pending)
    BY <1>1, <2>1, <2>3
  <2>5. QED BY <2>1, <2>2, <2>4 DEF Inv, LowerInv
<1>7. CASE ClientQuiet
  BY <1>7, QuietClient
<1>8. ASSUME NEW w \in Workers, WorkerStep(w) \/ SpuriousWakeup(w)
      PROVE  LowerInv'
  <2>1. /\ ~ freed /\ UNCHANGED <<cpc, cload>> /\ wpc[w] \notin {"unborn", "ended", "joined"}
    BY <1>8, WorkerMoves
  <2>2. cpc # "gone"
    BY <2>1 DEF Inv, FreedInv
  <2>3. SUFFICES ASSUME ~ Making PROVE LowerInv'
    BY <2>1 DEF LowerInv, Making
  <2>4. cpc \notin {"create", "count", "gone"}
    BY <2>2, <2>3 DEF Making
  <2>5. PICK pc : wpc' = [wpc EXCEPT ![w] = pc]
    BY <1>8, WorkerMoves
  <2>6. CASE Load(w)
    <3>1. /\ wpc[w] = "load" /\ wpc' = [wpc EXCEPT ![w] = "store"] /\ cur' = cur
          /\ wload' = [wload EXCEPT ![w] = cur]
      BY <2>6 DEF Load
    <3>2. Pending' = Pending
      BY <1>1, <3>1 DEF Pending
    <3>3. Storing' = Storing \cup {w}
      BY <1>1, <3>1 DEF Storing
    <3>4. /\ cur >= Cardinality(Pending) /\ \A v \in Storing : wload[v] >= Cardinality(Pending)
          /\ cpc = "addstore" => cload >= Cardinality(Pending)
      BY <2>4 DEF Inv, LowerInv
    <3>5. \A v \in Storing \cup {w} : wload'[v] >= Cardinality(Pending)
      BY <1>1, <3>1, <3>4 DEF Storing
    <3>6. QED BY <2>1, <3>1, <3>2, <3>3, <3>4, <3>5 DEF LowerInv
  <2>7. CASE Store(w)
    <3>1. /\ wpc[w] = "store" /\ wpc' = [wpc EXCEPT ![w] = "peek"]
          /\ wload' = [wload EXCEPT ![w] = 0] /\ cur' = wload[w] - 1
      BY <2>7 DEF Store
    <3>2. Pending' = Pending \ {w} /\ w \in Pending
      BY <1>1, <3>1 DEF Pending
    <3>3. Storing' = Storing \ {w} /\ w \in Storing
      BY <1>1, <3>1 DEF Storing
    <3>4. Cardinality(Pending') = Cardinality(Pending) - 1
      BY <1>2, <3>2, FS_RemoveElement
    <3>5. /\ \A v \in Storing : wload[v] >= Cardinality(Pending) /\ wload[v] \in Int
          /\ cpc = "addstore" => cload >= Cardinality(Pending)
          /\ Cardinality(Pending) \in Nat
      BY <1>1, <1>2, <2>4 DEF Inv, LowerInv, Storing
    <3>6. cur' >= Cardinality(Pending')
      BY <3>1, <3>3, <3>4, <3>5
    <3>7. \A v \in Storing' : wload'[v] >= Cardinality(Pending')
      BY <1>1, <3>1, <3>3, <3>4, <3>5 DEF Storing
    <3>8. cpc' = "addstore" => cload' >= Cardinality(Pending')
      BY <1>1, <2>1, <3>4, <3>5
    <3>9. QED BY <3>6, <3>7, <3>8 DEF LowerInv
  <2>8. CASE ~ (Load(w) \/ Store(w))
    <3>1. cur' = cur /\ (wpc[w] = "store" => wload' = wload)
          /\ \A v \in Workers \ {w} : wload'[v] = wload[v]
      BY <1>1, <1>8, <2>8
      DEF WorkerStep, Lock, TestCount, SpuriousWakeup, TestTask, Leave, Grab, AdvanceLoad,
         Advance, WrapLoad, Wrap,
          Peek, EarlyUnlock, Run, Unlock
    <3>2. pc # "store"
      BY <1>1, <1>8, <2>5, <2>8
      DEF WorkerStep, Lock, TestCount, SpuriousWakeup, TestTask, Leave, Grab, AdvanceLoad,
         Advance, WrapLoad, Wrap,
          Peek, EarlyUnlock, Run, Unlock
    <3>3. wpc[w] \notin
            {"lock", "waiting", "test", "retest", "grab", "advance", "advanced", "wrap", "wrapped", "load", "store"} =>
          pc \notin
            {"lock", "waiting", "test", "retest", "grab", "advance", "advanced", "wrap", "wrapped", "load", "store"}
      BY <1>1, <1>8, <2>5, <2>8
      DEF WorkerStep, Lock, TestCount, SpuriousWakeup, TestTask, Leave, Grab, AdvanceLoad,
         Advance, WrapLoad, Wrap,
          Peek, EarlyUnlock, Run, Unlock
    <3>4. Pending' \subseteq Pending /\ Storing' \subseteq Storing
      BY <1>1, <2>5, <3>2, <3>3 DEF Pending, Storing
    <3>5. \A v \in Storing' : wload'[v] = wload[v]
      BY <3>1, <3>4 DEF Storing
    <3>6. QED BY <2>1, <2>4, <3>1, <3>4, <3>5, Uncounted
  <2>9. QED BY <2>6, <2>7, <2>8
<1>9. QED
  BY <1>3, <1>4, <1>5, <1>6, <1>7, <1>8 DEF Next, ClientStep, ClientCall, ClientQuiet

-----------------------------------------------------------------------------
(* Tasks: one is handed over once, and refused before it is written *)

\* The tasks that were written into the queue or taken from it.
Seen == {t \in Tasks : (\E s \in Slots : func[s] = t) \/ (\E w \in Workers : wfunc[w] = t)}

NewInv ==
  /\ accepted \cap refused = {}
  /\ cpc \in ClientCritical \cup {"addlock"} => ctask \notin accepted \cup refused
  /\ cpc \in Written \cup {"addfunc"} => err = 0
  /\ cpc \in {"addlock", "addcheck", "addfunc"} \/ (cpc = "addunlock" /\ err # 0) =>
       ctask \notin Seen
  /\ Seen \subseteq accepted \cup
       (IF cpc \in Written \cup {"addunlock"} THEN {ctask} ELSE {})
  /\ \A r, s \in Slots : func[r] = func[s] => r = s \/ func[r] = None

\* A worker takes one task at most, and only what was taken has been run.
OneInv ==
  /\ \A w \in Workers :
       wpc[w] \in {"unborn", "lock", "waiting", "test", "retest", "bail", "leave", "grab"} =>
         wfunc[w] = None
  /\ \A t \in Tasks : runs[t] # 0 => \E w \in Workers : wfunc[w] = t

\* The client lets a thread begin, wakes it, or joins it.
Passive ==
  \A w \in Workers : \/ wpc'[w] = wpc[w]
                     \/ wpc[w] \in {"unborn", "waiting"} /\ wpc'[w] = "lock"
                     \/ wpc[w] = "ended" /\ wpc'[w] = "joined"

LEMMA ClientMoves ==
  ASSUME Inv, ClientStep \/ ClientCall
  PROVE  Passive /\ UNCHANGED <<prev, wload, wfunc, runs>>
<1> USE DEF ClientTo, Passive, pool, client, worker, history
<1>1. ci \in Workers /\ wpc \in [Workers -> Critical \cup
        {"unborn", "lock", "waiting", "early", "run", "unlock", "ended", "joined"}]
  BY DEF Inv, TypeInv, TypeOK
<1>2. CASE Create
  <2>1. wpc[ci] = "unborn"
    BY <1>1, <1>2 DEF Create, Inv, MakeInv, Making, Making3
  <2>2. QED BY <1>1, <1>2, <2>1 DEF Create
<1>3. CASE AddSignal
  BY <1>1, <1>3 DEF AddSignal, Waiting
<1>4. CASE DestroyLock
  BY <1>1, <1>4 DEF DestroyLock, Waiting
<1>5. CASE WaitJoin
  BY <1>1, <1>5 DEF WaitJoin
<1>6. CASE DestroyJoin
  BY <1>1, <1>6 DEF DestroyJoin
<1>7. CASE Count \/ CreateFails \/ AddLock \/ AddCheck \/ AddFunc \/ AddArg \/ AddLoad
           \/ AddStore \/ AddUnlock \/ DestroyFree \/ ClientCall
  BY <1>7 DEF Count, CreateFails, AddLock, AddCheck, AddFunc, AddArg, AddLoad, AddStore,
     AddUnlock, DestroyFree, ClientCall, WaitCall, DestroyCall, AddCall
<1>8. QED BY <1>2, <1>3, <1>4, <1>5, <1>6, <1>7 DEF ClientStep

\* prev counts those that have moved it on.
LEMMA PrevKept ==
  ASSUME Inv, Next
  PROVE  PrevInv'
<1> USE DEF At, WorkerTo, pool, client, worker, history
<1>a. /\ prev \in Nat /\ wload \in [Workers -> Int]
      /\ wpc \in [Workers -> Critical \cup
           {"unborn", "lock", "waiting", "early", "run", "unlock", "ended", "joined"}]
  BY DEF Inv, TypeInv, TypeOK
<1>b. /\ Cardinality(Passed) \in Nat /\ IsFiniteSet(Passed) /\ Passed \subseteq Workers
      /\ Cardinality(Passed') \in Nat /\ IsFiniteSet(Passed') /\ Passed' \subseteq Workers
  BY WorkerSets DEF Passed
<1>c. /\ prev <= Cardinality(Passed)
      /\ \A w \in Workers : wpc[w] \in {"advanced", "wrapped"} =>
           wload[w] \in Nat /\ wload[w] <= Cardinality(Passed)
  BY DEF Inv, PrevInv
<1>1. CASE ClientStep \/ ClientCall
  <2>1. Passive /\ UNCHANGED <<prev, wload>>
    BY <1>1, ClientMoves
  <2>2. Passed' = Passed
    BY <2>1 DEF Passive, Passed, Before
  <2>3. \A w \in Workers : wpc'[w] \in {"advanced", "wrapped"} => wpc'[w] = wpc[w]
    BY <2>1 DEF Passive
  <2>4. QED BY <1>c, <2>1, <2>2, <2>3 DEF PrevInv
<1>2. ASSUME NEW w \in Workers, WorkerStep(w) \/ SpuriousWakeup(w) PROVE PrevInv'
  <2>1. /\ \A v \in Workers \ {w} : wpc'[v] = wpc[v] /\ wload'[v] = wload[v]
        /\ wpc[w] \notin Before => wpc'[w] \notin Before
    <3>1. \A v \in Workers \ {w} : wpc'[v] = wpc[v]
      BY <1>2, <1>a, WorkerMoves
    <3>2. \A v \in Workers \ {w} : wload'[v] = wload[v]
      BY <1>2, <1>a DEF WorkerStep, Lock, TestCount, SpuriousWakeup, TestTask, Leave, Grab,
         AdvanceLoad, Advance, WrapLoad, Wrap, Load, Store, Peek, EarlyUnlock, Run, Unlock
    <3>3. wpc[w] \notin Before => wpc'[w] \notin Before
      BY <1>2, <1>a DEF WorkerStep, Lock, TestCount, SpuriousWakeup, TestTask, Leave, Grab,
         AdvanceLoad, Advance, WrapLoad, Wrap, Load, Store, Peek, EarlyUnlock, Run, Unlock,
         Before
    <3>4. QED BY <3>1, <3>2, <3>3
  <2>2. Cardinality(Passed) <= Cardinality(Passed')
    <3>1. Passed \subseteq Passed'
      BY <2>1 DEF Passed
    <3>2. QED BY <1>b, <3>1, FewerWorkers
  <2>3. \A v \in Workers \ {w} : wpc'[v] \in {"advanced", "wrapped"} =>
          wload'[v] \in Nat /\ wload'[v] <= Cardinality(Passed')
    BY <1>b, <1>c, <2>1, <2>2
  <2>4. CASE Advance(w)
    <3>1. wpc[w] = "advanced" /\ wpc'[w] = "wrap" /\ prev' = wload[w] + 1
      BY <1>a, <2>4 DEF Advance
    <3>2. Passed' = Passed \cup {w} /\ w \notin Passed
      BY <2>1, <3>1 DEF Passed, Before
    <3>3. Cardinality(Passed') = Cardinality(Passed) + 1
      BY <1>b, <3>2, FS_AddElement
    <3>4. prev' <= Cardinality(Passed')
      BY <1>b, <1>c, <3>1, <3>3
    <3>5. QED BY <2>3, <3>1, <3>4 DEF PrevInv
  <2>5. CASE Wrap(w)
    <3>1. /\ wpc[w] = "wrapped" /\ wpc'[w] = "load"
          /\ prev' = IF wload[w] >= QueueSize THEN 0 ELSE wload[w]
      BY <1>a, <2>5 DEF Wrap
    <3>2. wload[w] \in Nat /\ wload[w] <= Cardinality(Passed)
      BY <1>c, <3>1
    <3>3. prev' <= Cardinality(Passed')
      BY <1>b, <2>2, <3>1, <3>2, Numbers
    <3>4. QED BY <2>3, <3>1, <3>3 DEF PrevInv
  <2>6. CASE AdvanceLoad(w) \/ WrapLoad(w)
    <3>1. prev' = prev /\ wload'[w] = prev
      BY <1>a, <2>6 DEF AdvanceLoad, WrapLoad
    <3>2. QED BY <1>a, <1>b, <1>c, <2>2, <2>3, <3>1 DEF PrevInv
  <2>7. CASE ~ (Advance(w) \/ Wrap(w) \/ AdvanceLoad(w) \/ WrapLoad(w))
    <3>1. prev' = prev /\ wpc'[w] \notin {"advanced", "wrapped"}
      BY <1>2, <1>a, <2>7 DEF WorkerStep, Lock, TestCount, SpuriousWakeup, TestTask, Leave,
         Grab, Load, Store, Peek, EarlyUnlock, Run, Unlock
    <3>2. QED BY <1>a, <1>b, <1>c, <2>2, <2>3, <3>1 DEF PrevInv
  <2>8. QED BY <2>4, <2>5, <2>6, <2>7
<1>3. QED BY <1>1, <1>2 DEF Next

\* A queue that is full from the start.
LEMMA RoomKept ==
  ASSUME Inv, Next
  PROVE  RoomInv'
<1> USE DEF ClientTo, At, WorkerTo, pool, client, worker, history
<1>a. /\ cur \in Int /\ ci \in Workers /\ prev \in Slots /\ AtPrev(func) = {func[prev]}
      /\ wpc \in [Workers -> Critical \cup
           {"unborn", "lock", "waiting", "early", "run", "unlock", "ended", "joined"}]
  BY PrevIn DEF Inv, TypeInv, TypeOK
<1>b. SUFFICES ASSUME QueueSize <= ThreadNum PROVE RoomInv'
  BY DEF RoomInv
<1>c. /\ prev = 0 /\ \A s \in Slots : func[s] = None
      /\ \A w \in Workers : wpc[w] \in {"unborn", "lock", "waiting", "test", "retest", "bail",
                                        "leave", "ended", "joined"}
      /\ cpc \notin Written \cup {"addfunc"}
      /\ cpc \notin {"create", "count", "gone"} => cur >= ThreadNum
  BY <1>b DEF Inv, RoomInv
<1>d. ASSUME ClientStep \/ ClientCall
      PROVE  /\ prev' = prev
             /\ \A w \in Workers : wpc'[w] \in
                  {"unborn", "lock", "waiting", "test", "retest", "bail", "leave", "ended",
                   "joined"}
  BY <1>c, <1>d, ClientMoves DEF Passive
<1>1. CASE Count
  <2>1. /\ cur = ci /\ cur' = cur + 1 /\ func' = func
        /\ cpc' = "create" \/ (cpc' = "idle" /\ ~ (ci + 1 < ThreadNum))
    BY <1>1 DEF Count, Inv, MakeInv, Making1, Making
  <2>2. cpc' = "idle" => cur' >= ThreadNum
    BY <1>a, <2>1, Numbers DEF Workers
  <2>3. ClientStep
    BY <1>1 DEF ClientStep
  <2>4. QED BY <1>c, <1>d, <2>1, <2>2, <2>3 DEF RoomInv, Written
<1>2. CASE AddCheck
  <2>1. cpc = "addcheck" /\ UNCHANGED <<cur, func>> /\ cpc' = "addunlock"
    <3>1. cpc = "addcheck"
      BY <1>2 DEF AddCheck
    <3>2. cur >= QueueSize
      BY <1>a, <1>b, <1>c, <3>1, Numbers
    <3>3. QED BY <1>2, <3>2 DEF AddCheck
  <2>2. ClientStep
    BY <1>2 DEF ClientStep
  <2>3. QED BY <1>c, <1>d, <2>1, <2>2 DEF RoomInv, Written
<1>3. CASE (ClientStep \/ ClientCall) /\ ~ Count /\ ~ AddCheck
  <2>1. /\ UNCHANGED <<cur, func>> /\ cpc' \notin Written \cup {"addfunc"}
        /\ cpc \in {"create", "count", "gone"} => cpc' \in {"create", "count", "gone"}
    BY <1>3, <1>c DEF ClientStep, ClientCall, Create, CreateFails, AddLock, AddFunc, AddArg,
       AddLoad, AddStore, AddSignal, AddUnlock, WaitJoin, DestroyLock, DestroyJoin, DestroyFree,
       WaitCall, DestroyCall, AddCall, Written
  <2>2. QED BY <1>3, <1>c, <1>d, <2>1 DEF RoomInv
<1>4. ASSUME NEW w \in Workers, WorkerStep(w) \/ SpuriousWakeup(w) PROVE RoomInv'
  <2>1. func' = func /\ cpc' = cpc /\ \A v \in Workers \ {w} : wpc'[v] = wpc[v]
    BY <1>4, <1>a, WorkerMoves
  <2>2. wpc[w] \in {"lock", "waiting", "test", "retest", "bail", "leave"} /\ func[prev] = None
    BY <1>4, <1>a, <1>c, WorkerMoves
  <2>3. /\ UNCHANGED <<cur, prev>>
        /\ wpc'[w] \in {"lock", "waiting", "test", "retest", "bail", "leave", "ended"}
    BY <1>4, <1>a, <2>2 DEF WorkerStep, Lock, TestCount, SpuriousWakeup, TestTask, Leave, Grab,
       AdvanceLoad, Advance, WrapLoad, Wrap, Load, Store, Peek, EarlyUnlock, Run, Unlock
  <2>4. QED BY <1>c, <2>1, <2>3 DEF RoomInv
<1>5. QED BY <1>1, <1>2, <1>3, <1>4 DEF Next

\* A step of the client outside add_task.
OtherCall == Create \/ Count \/ CreateFails \/ WaitCall \/ WaitJoin \/ DestroyCall
             \/ DestroyLock \/ DestroyJoin \/ DestroyFree

LEMMA OtherCalls ==
  ASSUME OtherCall
  PROVE  /\ UNCHANGED <<func, wfunc, accepted, refused>>
         /\ cpc \notin ClientCritical \cup {"addlock"}
         /\ cpc' \notin ClientCritical \cup {"addlock"}
BY DEF OtherCall, Create, Count, CreateFails, WaitCall, WaitJoin, DestroyCall, DestroyLock,
   DestroyJoin, DestroyFree, ClientTo, ClientCritical, pool, client, worker, history

\* A step of a worker that takes no task and runs none.
LEMMA WorkerQuiet ==
  ASSUME NEW w \in Workers, WorkerStep(w) \/ SpuriousWakeup(w), ~ Grab(w), ~ Run(w)
  PROVE  UNCHANGED <<wfunc, runs>>
BY DEF WorkerStep, Lock, TestCount, SpuriousWakeup, TestTask, Leave, AdvanceLoad, Advance,
   WrapLoad, Wrap, Load, Store,
   Peek, EarlyUnlock, Unlock, worker, history

LEMMA NewKept ==
  ASSUME Inv, NewInv, Next
  PROVE  NewInv'
<1> USE DEF ClientTo, ClientCritical, Written, pool, client, worker, history
<1>a. /\ func \in [Slots -> Tasks \cup {None}] /\ wfunc \in [Workers -> Tasks \cup {None, Junk}]
      /\ tail \in Slots /\ prev \in Slots /\ AtPrev(func) = {func[prev]} /\ None \notin Tasks
      /\ cpc \in ClientCritical \cup {"addlock"} => ctask \in Tasks
  BY PoolAssumption, PrevIn DEF Inv, TypeInv, TypeOK
<1>b. func' = func /\ wfunc' = wfunc => Seen' = Seen
  BY DEF Seen
<1>1. CASE OtherCall
  BY <1>1, <1>b, OtherCalls DEF NewInv
<1>2. ASSUME NEW t \in Tasks, AddCall(t) PROVE NewInv'
  <2>1. cpc = "idle" /\ cpc' = "addlock" /\ ctask' = t /\ t \notin accepted \cup refused
        /\ UNCHANGED <<func, wfunc, accepted, refused>>
    BY <1>2 DEF AddCall
  <2>2. Seen' = Seen /\ Seen \subseteq accepted
    BY <1>b, <2>1 DEF NewInv
  <2>3. QED BY <2>1, <2>2 DEF NewInv
<1>3. CASE AddLock
  BY <1>3, <1>b DEF AddLock, NewInv
<1>4. CASE AddCheck
  BY <1>4, <1>b DEF AddCheck, NewInv
<1>5. CASE AddFunc
  <2>1. /\ cpc = "addfunc" /\ cpc' = "addarg" /\ func' = [func EXCEPT ![tail] = ctask]
        /\ UNCHANGED <<ctask, err, accepted, refused, wfunc>>
    BY <1>5 DEF AddFunc
  <2>2. \A s \in Slots : func'[s] = IF s = tail THEN ctask ELSE func[s]
    BY <1>a, <2>1
  <2>3. Seen' \subseteq Seen \cup {ctask}
    BY <2>1, <2>2 DEF Seen
  <2>4. Seen \subseteq accepted /\ ctask \notin Seen /\ ctask \in Tasks
    BY <1>a, <2>1 DEF NewInv
  <2>5. \A s \in Slots : func[s] # ctask
    BY <2>4 DEF Seen
  <2>6. \A r, s \in Slots : func'[r] = func'[s] => r = s \/ func'[r] = None
    BY <2>2, <2>5 DEF NewInv
  <2>7. QED BY <2>1, <2>3, <2>4, <2>6 DEF NewInv
<1>6. CASE AddArg \/ AddLoad \/ AddStore \/ AddSignal
  <2>1. /\ cpc \in Written /\ cpc' \in Written \cup {"addunlock"}
        /\ UNCHANGED <<func, wfunc, accepted, refused, ctask, err>>
    BY <1>6 DEF AddArg, AddLoad, AddStore, AddSignal
  <2>2. QED BY <1>b, <2>1 DEF NewInv
<1>7. CASE AddUnlock
  <2>1. /\ cpc = "addunlock" /\ cpc' = "idle" /\ UNCHANGED <<func, wfunc>>
        /\ \/ err = 0 /\ accepted' = accepted \cup {ctask} /\ refused' = refused
           \/ err # 0 /\ refused' = refused \cup {ctask} /\ accepted' = accepted
    BY <1>7 DEF AddUnlock
  <2>2. QED BY <1>b, <2>1 DEF NewInv
<1>8. ASSUME NEW w \in Workers, WorkerStep(w) \/ SpuriousWakeup(w) PROVE NewInv'
  <2>1. UNCHANGED <<func, cpc, ctask, err, accepted, refused>>
    BY <1>8, WorkerMoves
  <2>2. Seen' \subseteq Seen
    <3>1. CASE Grab(w)
      <4>1. \A v \in Workers : wfunc'[v] = IF v = w THEN func[prev] ELSE wfunc[v]
        BY <1>a, <3>1 DEF Grab
      <4>2. QED BY <1>a, <2>1, <4>1 DEF Seen
    <3>2. CASE ~ Grab(w)
      <4>1. wfunc' = wfunc
        BY <1>8, <3>2, WorkerQuiet DEF Run
      <4>2. QED BY <1>b, <2>1, <4>1
    <3>3. QED BY <3>1, <3>2
  <2>3. QED BY <2>1, <2>2 DEF NewInv
<1>9. QED
  BY <1>1, <1>2, <1>3, <1>4, <1>5, <1>6, <1>7, <1>8
  DEF Next, ClientStep, ClientCall, OtherCall

LEMMA OneKept ==
  ASSUME Inv, OneInv, Next
  PROVE  OneInv'
<1> USE DEF At, WorkerTo, pool, client, worker, history
<1>a. /\ func \in [Slots -> Tasks \cup {None}] /\ wfunc \in [Workers -> Tasks \cup {None, Junk}]
      /\ prev \in Slots /\ AtPrev(func) = {func[prev]} /\ runs \in [Tasks -> Nat] /\ None \notin Tasks
      /\ wpc \in [Workers -> Critical \cup
           {"unborn", "lock", "waiting", "early", "run", "unlock", "ended", "joined"}]
  BY PoolAssumption, PrevIn DEF Inv, TypeInv, TypeOK
<1>1. CASE ClientStep \/ ClientCall
  BY <1>1, ClientMoves DEF Passive, OneInv
<1>2. ASSUME NEW w \in Workers, Grab(w) PROVE OneInv'
  <2>1. /\ wpc[w] = "grab" /\ wpc' = [wpc EXCEPT ![w] = "advance"] /\ runs' = runs
        /\ wfunc' = [wfunc EXCEPT ![w] = func[prev]]
    BY <1>2, <1>a DEF Grab
  <2>2. wfunc[w] = None
    BY <2>1 DEF OneInv
  <2>3. QED BY <1>a, <2>1, <2>2 DEF OneInv
<1>3. ASSUME NEW w \in Workers, Run(w) PROVE OneInv'
  <2>1. /\ wpc' = [wpc EXCEPT ![w] = "unlock"] /\ wfunc[w] \in Tasks /\ wfunc' = wfunc
        /\ runs' = [runs EXCEPT ![wfunc[w]] = @ + 1]
    BY <1>a, <1>3 DEF Run
  <2>2. QED BY <1>a, <2>1 DEF OneInv
<1>4. ASSUME NEW w \in Workers, WorkerStep(w) \/ SpuriousWakeup(w), ~ Grab(w), ~ Run(w)
      PROVE  OneInv'
  <2>1. UNCHANGED <<wfunc, runs>>
    BY <1>4, WorkerQuiet
  <2>2. wpc'[w] \in {"unborn", "lock", "waiting", "test", "retest", "bail", "leave", "grab"} =>
        wpc[w] \in {"unborn", "lock", "waiting", "test", "retest", "bail", "leave", "grab"}
    BY <1>a, <1>4 DEF WorkerStep, Lock, TestCount, SpuriousWakeup, TestTask, Leave,
       AdvanceLoad, Advance, WrapLoad, Wrap,
       Load, Store, Peek, EarlyUnlock, Unlock
  <2>3. \A v \in Workers \ {w} : wpc'[v] = wpc[v]
    BY <1>a, <1>4, WorkerMoves
  <2>4. QED BY <2>1, <2>2, <2>3 DEF OneInv
<1>5. QED
  BY <1>1, <1>2, <1>3, <1>4 DEF Next

-----------------------------------------------------------------------------
(* Two workers: they take tasks one after the other *)

\* Of three workers two are the same.
AtMostTwo == \A u, v, w \in Workers : u = v \/ v = w \/ u = w

\* Until a worker has ended, which is when it may release a lock that another holds, one
\* thread at a time is between taking the lock and releasing it.
Ended == {w \in Workers : wpc[w] \in {"ended", "joined"}}
Holds(w) == wpc[w] \in Critical \cup {"early"}
HoldInv ==
  Ended = {} =>
    /\ \A w \in Workers : Holds(w) =>
         /\ locked /\ cpc \notin ClientCritical
         /\ \A v \in Workers : Holds(v) => v = w
    /\ cpc \in ClientCritical => locked

\* A worker that has tested its slot finds a task in it, and keeps it.
TaskInv ==
  \A w \in Workers :
    /\ wpc[w] \in {"advanced", "wrapped"} => wload[w] = prev
    /\ wpc[w] = "grab" => func[prev] # None
    /\ wpc[w] \in {"advance", "advanced", "wrap", "wrapped", "load", "store", "peek", "early", "run",
      "unlock"} =>
         wfunc[w] \in Tasks

\* The first task is taken from slot 0, the second from another.
Alone(v) == wfunc[v] # None /\ \A w \in Workers \ {v} : wfunc[w] = None
SlotInv ==
  /\ (\A w \in Workers : wfunc[w] = None) => prev = 0
  /\ \A v \in Workers : Alone(v) =>
       /\ wpc[v] \in {"advance", "advanced"} <=> prev = 0
       /\ \A s \in Slots \ {0} : func[s] # wfunc[v]
  /\ \A v, w \in Workers : wfunc[v] = wfunc[w] => v = w \/ wfunc[v] = None

\* A task that was run was run once, by the worker that took it.
RunInv ==
  \A t \in Tasks : runs[t] # 0 =>
    runs[t] = 1 /\ \E w \in Workers : wfunc[w] = t /\ wpc[w] \in {"unlock", "ended", "joined"}

TwoInv == HoldInv /\ TaskInv /\ SlotInv /\ RunInv

LEMMA HoldKept ==
  ASSUME Inv, HoldInv, Next
  PROVE  HoldInv'
<1> USE DEF ClientTo, At, WorkerTo, pool, client, worker, history
<1>a. wpc \in [Workers -> Critical \cup
        {"unborn", "lock", "waiting", "early", "run", "unlock", "ended", "joined"}]
  BY DEF Inv, TypeInv, TypeOK
<1>b. SUFFICES ASSUME Ended' = {} PROVE HoldInv'
  BY DEF HoldInv
<1>1. CASE ClientStep \/ ClientCall
  <2>1. Passive
    BY <1>1, ClientMoves
  <2>2. Ended = {} /\ \A w \in Workers : Holds(w)' = Holds(w)
    BY <1>b, <2>1 DEF Passive, Ended, Holds, Critical
  <2>3. CASE AddLock
    <3>1. ~ locked /\ locked'
      BY <2>3 DEF AddLock
    <3>2. QED BY <2>2, <3>1 DEF HoldInv
  <2>4. CASE AddUnlock
    <3>1. cpc \in ClientCritical /\ cpc' \notin ClientCritical
      BY <2>4 DEF AddUnlock, ClientCritical
    <3>2. QED BY <2>2, <3>1 DEF HoldInv
  <2>5. CASE DestroyLock
    <3>1. ~ locked /\ cpc' \notin ClientCritical
      BY <2>5 DEF DestroyLock, ClientCritical
    <3>2. QED BY <2>2, <3>1 DEF HoldInv
  <2>6. CASE ~ AddLock /\ ~ AddUnlock /\ ~ DestroyLock
    <3>1. locked' = locked /\ (cpc' \in ClientCritical <=> cpc \in ClientCritical)
      BY <1>1, <2>6 DEF ClientStep, ClientCall, Create, Count, CreateFails, AddCheck, AddFunc,
         AddArg, AddLoad, AddStore, AddSignal, WaitJoin, DestroyJoin, DestroyFree, WaitCall,
         DestroyCall, AddCall, ClientCritical
    <3>2. QED BY <2>2, <3>1 DEF HoldInv
  <2>7. QED BY <2>3, <2>4, <2>5, <2>6
<1>2. ASSUME NEW w \in Workers, WorkerStep(w) \/ SpuriousWakeup(w) PROVE HoldInv'
  <2>1. cpc' = cpc /\ \A v \in Workers \ {w} : wpc'[v] = wpc[v]
    BY <1>2, <1>a, WorkerMoves
  <2>2. wpc'[w] \notin {"ended", "joined"}
    BY <1>b DEF Ended
  <2>3. Ended = {}
    <3>1. wpc[w] \notin {"ended", "joined"}
      BY <1>2, WorkerMoves
    <3>2. QED BY <1>b, <2>1, <3>1 DEF Ended
  <2>4. \A v \in Workers \ {w} : Holds(v)' = Holds(v)
    BY <2>1 DEF Holds
  <2>5. CASE Lock(w)
    <3>1. ~ locked /\ locked'
      BY <2>5 DEF Lock
    <3>2. QED BY <2>1, <2>3, <2>4, <3>1 DEF HoldInv
  <2>6. CASE Holds(w) /\ ((locked' /\ Holds(w)') \/ ~ Holds(w)')
    <3>1. /\ \A v \in Workers : Holds(v)' => v = w /\ Holds(w)'
          /\ locked /\ cpc \notin ClientCritical
      BY <2>3, <2>4, <2>6 DEF HoldInv
    <3>2. QED BY <2>1, <2>6, <3>1 DEF HoldInv
  <2>7. CASE ~ Holds(w) /\ ~ Holds(w)' /\ locked' = locked
    BY <2>1, <2>3, <2>4, <2>7 DEF HoldInv
  <2>8. CASE SpuriousWakeup(w) \/ Run(w)
    <3>1. ~ Holds(w) /\ ~ Holds(w)' /\ locked' = locked
      BY <1>a, <2>8 DEF SpuriousWakeup, Run, Holds, Critical
    <3>2. QED BY <2>7, <3>1
  <2>9. CASE Leave(w) \/ Unlock(w)
    <3>1. wpc'[w] = "ended"
      BY <1>a, <2>9 DEF Leave, Unlock
    <3>2. QED BY <2>2, <3>1
  <2>10. CASE TestCount(w) \/ TestTask(w) \/ Grab(w) \/ AdvanceLoad(w) \/ Advance(w)
              \/ WrapLoad(w) \/ Wrap(w) \/ Load(w) \/ Store(w) \/ Peek(w) \/ EarlyUnlock(w)
    <3>1. Holds(w) /\ locked
      <4>1. Holds(w)
        BY <2>10 DEF TestCount, TestTask, Grab, AdvanceLoad, Advance, WrapLoad, Wrap, Load,
           Store, Peek, EarlyUnlock, Holds,
           Critical
      <4>2. QED BY <2>3, <4>1 DEF HoldInv
    <3>2. locked' \/ ~ Holds(w)'
      BY <1>a, <2>10, <3>1
      DEF TestCount, TestTask, Grab, AdvanceLoad, Advance, WrapLoad, Wrap, Load, Store, Peek,
         EarlyUnlock, Holds, Critical
    <3>3. QED BY <2>6, <3>1, <3>2
  <2>11. QED BY <1>2, <2>5, <2>8, <2>9, <2>10 DEF WorkerStep
<1>3. QED BY <1>1, <1>2 DEF Next

\* No two workers are at once between testing the slot and moving prev on.
Moving == {"advance", "advanced", "wrap", "wrapped"}
LEMMA OneTakes ==
  ASSUME AtMostTwo, HoldInv, NEW v \in Workers, NEW w \in Workers, v # w,
         wpc[v] \in Moving
  PROVE  wpc[w] \notin Moving \cup {"grab"}
<1> USE DEF Moving
<1> SUFFICES ASSUME wpc[w] \in Moving \cup {"grab"} PROVE FALSE
  OBVIOUS
<1>1. Ended = {}
  <2>1. \A u \in Workers : u = v \/ u = w
    BY DEF AtMostTwo
  <2>2. QED BY <2>1 DEF Ended
<1>2. Holds(v) /\ Holds(w)
  BY DEF Holds, Critical
<1>3. QED BY <1>1, <1>2 DEF HoldInv

LEMMA TaskKept ==
  ASSUME AtMostTwo, Inv, NewInv, HoldInv, TaskInv, Next
  PROVE  TaskInv'
<1> USE DEF ClientTo, At, WorkerTo, pool, client, worker, history
<1>a. /\ func \in [Slots -> Tasks \cup {None}] /\ wfunc \in [Workers -> Tasks \cup {None, Junk}]
      /\ prev \in Slots /\ tail \in Slots /\ None \notin Tasks /\ AtPrev(func) = {func[prev]}
      /\ wload \in [Workers -> Int]
      /\ wpc \in [Workers -> Critical \cup
           {"unborn", "lock", "waiting", "early", "run", "unlock", "ended", "joined"}]
  BY PoolAssumption, PrevIn DEF Inv, TypeInv, TypeOK
<1>1. CASE ClientStep \/ ClientCall
  <2>1. Passive /\ UNCHANGED <<prev, wload, wfunc>>
    BY <1>1, ClientMoves
  <2>2. \A s \in Slots : func[s] # None => func'[s] # None
    <3>1. CASE AddFunc
      <4>1. func' = [func EXCEPT ![tail] = ctask] /\ ctask \in Tasks
        BY <3>1 DEF AddFunc, Inv, TypeInv, ClientCritical
      <4>2. QED BY <1>a, <4>1
    <3>2. CASE ~ AddFunc
      <4>1. func' = func
        BY <1>1, <3>2 DEF ClientStep, ClientCall, Create, Count, CreateFails, AddLock, AddCheck,
           AddArg, AddLoad, AddStore, AddSignal, AddUnlock, WaitJoin, DestroyLock, DestroyJoin,
           DestroyFree, WaitCall, DestroyCall, AddCall
      <4>2. QED BY <4>1
    <3>3. QED BY <3>1, <3>2
  <2>3. QED BY <1>a, <2>1, <2>2 DEF Passive, TaskInv
<1>2. ASSUME NEW w \in Workers, WorkerStep(w) \/ SpuriousWakeup(w) PROVE TaskInv'
  <2>1. func' = func /\ \A v \in Workers \ {w} : wpc'[v] = wpc[v]
    BY <1>2, <1>a, WorkerMoves
  <2>2. CASE Grab(w)
    <3>1. /\ wpc'[w] = "advance" /\ wfunc' = [wfunc EXCEPT ![w] = func[prev]]
          /\ wpc[w] = "grab" /\ UNCHANGED <<prev, wload>>
      BY <1>a, <2>2 DEF Grab
    <3>2. QED BY <1>a, <2>1, <3>1 DEF TaskInv
  <2>3. CASE Advance(w)
    <3>1. /\ wpc'[w] = "wrap" /\ wpc[w] = "advanced" /\ UNCHANGED <<wfunc, wload>>
      BY <1>a, <2>3 DEF Advance
    <3>2. \A v \in Workers : v # w => wpc[v] \notin Moving \cup {"grab"}
      BY <3>1, OneTakes DEF Moving
    <3>3. QED BY <2>1, <3>1, <3>2 DEF TaskInv, Moving
  <2>4. CASE TestTask(w)
    <3>1. /\ UNCHANGED <<prev, wfunc, wload>>
          /\ wpc'[w] \in {"bail", "leave"} \/ (wpc'[w] = "grab" /\ func[prev] # None)
      BY <1>a, <2>4 DEF TestTask
    <3>2. QED BY <2>1, <3>1 DEF TaskInv
  <2>5. CASE Wrap(w)
    <3>1. /\ wpc'[w] = "load" /\ wpc[w] = "wrapped" /\ UNCHANGED <<wfunc, wload>>
          /\ prev' = IF wload[w] >= QueueSize THEN 0 ELSE wload[w]
      BY <1>a, <2>5 DEF Wrap
    <3>2. prev' = prev
      BY <1>a, <3>1, Numbers DEF TaskInv, Slots
    <3>3. QED BY <2>1, <3>1, <3>2 DEF TaskInv
  <2>6. CASE AdvanceLoad(w) \/ WrapLoad(w)
    <3>1. /\ wpc[w] \in {"advance", "wrap"} /\ wpc'[w] \in {"advanced", "wrapped"}
          /\ UNCHANGED <<prev, wfunc>> /\ wload' = [wload EXCEPT ![w] = prev]
      BY <1>a, <2>6 DEF AdvanceLoad, WrapLoad
    <3>2. QED BY <1>a, <2>1, <3>1 DEF TaskInv
  <2>7. CASE ~ (Grab(w) \/ Advance(w) \/ TestTask(w) \/ Wrap(w) \/ AdvanceLoad(w) \/ WrapLoad(w))
    <3>1. /\ prev' = prev /\ wfunc' = wfunc /\ wpc'[w] \notin {"grab", "advanced", "wrapped"}
          /\ \A v \in Workers \ {w} : wload'[v] = wload[v]
          /\ wpc'[w] \in {"advance", "advanced", "wrap", "wrapped", "load", "store", "peek",
                           "early", "run", "unlock"} =>
             wpc[w] \in {"advance", "advanced", "wrap", "wrapped", "load", "store", "peek",
                         "early", "run", "unlock"}
      BY <1>2, <1>a, <2>7 DEF WorkerStep, Lock, TestCount, SpuriousWakeup, Leave, Load, Store,
         Peek, EarlyUnlock, Run, Unlock
    <3>2. QED BY <2>1, <3>1 DEF TaskInv
  <2>8. QED BY <2>2, <2>3, <2>4, <2>5, <2>6, <2>7
<1>3. QED BY <1>1, <1>2 DEF Next

LEMMA SlotKept ==
  ASSUME AtMostTwo, Inv, NewInv, OneInv, HoldInv, TaskInv, SlotInv, Next
  PROVE  SlotInv'
<1> USE DEF ClientTo, At, WorkerTo, pool, client, worker, history
<1>a. /\ func \in [Slots -> Tasks \cup {None}] /\ wfunc \in [Workers -> Tasks \cup {None, Junk}]
      /\ prev \in Slots /\ tail \in Slots /\ None \notin Tasks /\ AtPrev(func) = {func[prev]}
      /\ wpc \in [Workers -> Critical \cup
           {"unborn", "lock", "waiting", "early", "run", "unlock", "ended", "joined"}]
  BY PoolAssumption, PrevIn DEF Inv, TypeInv, TypeOK
<1>b. ASSUME prev' = prev, wfunc' = wfunc,
             \A v \in Workers : wpc'[v] \in {"advance", "advanced"} <=>
                               wpc[v] \in {"advance", "advanced"},
             \A s \in Slots : func'[s] = func[s] \/ \A v \in Workers : func'[s] # wfunc[v]
      PROVE  SlotInv'
  BY <1>b DEF SlotInv, Alone
<1>1. CASE ClientStep \/ ClientCall
  <2>1. Passive /\ UNCHANGED <<prev, wfunc>>
    BY <1>1, ClientMoves
  <2>2. \A s \in Slots : func'[s] = func[s] \/ \A v \in Workers : func'[s] # wfunc[v]
    <3>1. CASE AddFunc
      <4>1. func' = [func EXCEPT ![tail] = ctask] /\ ctask \in Tasks /\ ctask \notin Seen
        BY <3>1 DEF AddFunc, Inv, TypeInv, ClientCritical, NewInv
      <4>2. QED BY <1>a, <4>1 DEF Seen
    <3>2. CASE ~ AddFunc
      <4>1. func' = func
        BY <1>1, <3>2 DEF ClientStep, ClientCall, Create, Count, CreateFails, AddLock, AddCheck,
           AddArg, AddLoad, AddStore, AddSignal, AddUnlock, WaitJoin, DestroyLock, DestroyJoin,
           DestroyFree, WaitCall, DestroyCall, AddCall
      <4>2. QED BY <4>1
    <3>3. QED BY <3>1, <3>2
  <2>3. QED BY <1>b, <2>1, <2>2 DEF Passive
<1>2. ASSUME NEW w \in Workers, Grab(w) PROVE SlotInv'
  <2>1. /\ wpc[w] = "grab" /\ wpc' = [wpc EXCEPT ![w] = "advance"]
        /\ wfunc' = [wfunc EXCEPT ![w] = func[prev]] /\ UNCHANGED <<func, prev>>
    BY <1>2, <1>a DEF Grab
  <2>2. wfunc[w] = None /\ func[prev] # None
    BY <2>1 DEF OneInv, TaskInv
  <2>3. \A v \in Workers : v # w => wpc[v] \notin {"advance", "advanced"}
    BY <2>1, OneTakes DEF Moving
  <2>4. \A r, s \in Slots : func[r] = func[s] => r = s \/ func[r] = None
    BY DEF NewInv
  <2>5. \A v \in Workers : /\ wfunc'[v] = IF v = w THEN func[prev] ELSE wfunc[v]
                           /\ wpc'[v] = IF v = w THEN "advance" ELSE wpc[v]
    BY <1>a, <2>1
  <2>6. CASE \A v \in Workers : wfunc[v] = None
    <3>1. prev = 0
      BY <2>6 DEF SlotInv
    <3>2. \A s \in Slots \ {0} : func[s] # func[prev]
      BY <1>a, <2>2, <2>4, <3>1
    <3>3. QED BY <2>1, <2>2, <2>5, <2>6, <3>1, <3>2 DEF SlotInv, Alone
  <2>7. ASSUME NEW v \in Workers, wfunc[v] # None PROVE SlotInv'
    <3>1. v # w /\ \A u \in Workers : u = v \/ u = w
      BY <2>2, <2>7 DEF AtMostTwo
    <3>2. Alone(v)
      BY <2>2, <2>7, <3>1 DEF Alone
    <3>3. prev # 0
      BY <2>3, <3>1, <3>2 DEF SlotInv
    <3>4. func[prev] # wfunc[v]
      BY <1>a, <3>2, <3>3 DEF SlotInv
    <3>5. \A u \in Workers : ~ Alone(u)'
      BY <2>2, <2>5, <2>7, <3>1 DEF Alone
    <3>6. QED BY <2>2, <2>5, <2>7, <3>1, <3>4, <3>5 DEF SlotInv
  <2>8. QED BY <2>6, <2>7
<1>3. ASSUME NEW w \in Workers, Advance(w) PROVE SlotInv'
  <2>1. /\ wpc[w] = "advanced" /\ wpc' = [wpc EXCEPT ![w] = "wrap"] /\ prev' = prev + 1
        /\ UNCHANGED <<func, wfunc>>
    <3>1. /\ wpc[w] = "advanced" /\ wpc' = [wpc EXCEPT ![w] = "wrap"] /\ prev' = wload[w] + 1
          /\ UNCHANGED <<func, wfunc>>
      BY <1>3 DEF Advance
    <3>2. wload[w] = prev
      BY <3>1 DEF TaskInv
    <3>3. QED BY <3>1, <3>2
  <2>2. wfunc[w] # None
    BY <1>a, <2>1 DEF TaskInv
  <2>3. \A v \in Workers : Alone(v) => v = w
    BY <2>2 DEF Alone
  <2>4. prev' # 0
    BY <1>a, <2>1 DEF Slots
  <2>5. wpc'[w] \notin {"advance", "advanced"} /\ \A v \in Workers : Alone(v)' <=> Alone(v)
    BY <1>a, <2>1 DEF Alone
  <2>6. QED BY <2>1, <2>2, <2>3, <2>4, <2>5 DEF SlotInv
<1>4. ASSUME NEW w \in Workers, WorkerStep(w) \/ SpuriousWakeup(w), ~ Grab(w), ~ Advance(w)
      PROVE  SlotInv'
  <2>1. UNCHANGED <<func, wfunc, prev>>
    <3>1. CASE Wrap(w)
      <4>1. wpc[w] = "wrapped" /\ prev' = IF wload[w] >= QueueSize THEN 0 ELSE wload[w]
        BY <3>1 DEF Wrap
      <4>2. prev' = prev
        BY <1>a, <4>1, Numbers DEF TaskInv, Slots
      <4>3. QED BY <3>1, <4>2 DEF Wrap
    <3>2. CASE ~ Wrap(w)
      BY <1>4, <3>2 DEF WorkerStep, Lock, TestCount, SpuriousWakeup, TestTask, Leave,
         AdvanceLoad, WrapLoad, Load, Store, Peek, EarlyUnlock, Run, Unlock
    <3>3. QED BY <3>1, <3>2
  <2>2. wpc'[w] \in {"advance", "advanced"} <=> wpc[w] \in {"advance", "advanced"}
    BY <1>4, <1>a DEF WorkerStep, Lock, TestCount, SpuriousWakeup, TestTask, Leave, AdvanceLoad,
       WrapLoad, Wrap, Load, Store, Peek, EarlyUnlock, Run, Unlock
  <2>3. \A v \in Workers \ {w} : wpc'[v] = wpc[v]
    BY <1>a, <1>4, WorkerMoves
  <2>4. QED BY <1>b, <2>1, <2>2, <2>3
<1>5. QED BY <1>1, <1>2, <1>3, <1>4 DEF Next

LEMMA RunKept ==
  ASSUME Inv, OneInv, SlotInv, RunInv, Next
  PROVE  RunInv'
<1> USE DEF At, WorkerTo, pool, client, worker, history
<1>a. /\ func \in [Slots -> Tasks \cup {None}] /\ wfunc \in [Workers -> Tasks \cup {None, Junk}]
      /\ prev \in Slots /\ AtPrev(func) = {func[prev]} /\ runs \in [Tasks -> Nat] /\ None \notin Tasks
      /\ wpc \in [Workers -> Critical \cup
           {"unborn", "lock", "waiting", "early", "run", "unlock", "ended", "joined"}]
  BY PoolAssumption, PrevIn DEF Inv, TypeInv, TypeOK
<1>1. CASE ClientStep \/ ClientCall
  BY <1>1, ClientMoves DEF Passive, RunInv
<1>2. ASSUME NEW w \in Workers, Run(w) PROVE RunInv'
  <2> DEFINE t == wfunc[w]
  <2>1. /\ wpc[w] = "run" /\ wpc' = [wpc EXCEPT ![w] = "unlock"] /\ t \in Tasks
        /\ wfunc' = wfunc /\ runs' = [runs EXCEPT ![t] = @ + 1]
    BY <1>a, <1>2 DEF Run
  <2>2. runs[t] = 0
    <3>1. \A v \in Workers : wfunc[v] = t => v = w
      BY <1>a, <2>1 DEF SlotInv
    <3>2. QED BY <1>a, <2>1, <3>1 DEF RunInv
  <2> HIDE DEF t
  <2>3. \A u \in Tasks : runs'[u] = IF u = t THEN 1 ELSE runs[u]
    BY <1>a, <2>1, <2>2
  <2>4. wfunc[w] = t /\ wpc'[w] = "unlock" /\ \A v \in Workers \ {w} : wpc'[v] = wpc[v]
    BY <1>a, <2>1 DEF t
  <2>5. QED BY <2>1, <2>3, <2>4 DEF RunInv
<1>3. ASSUME NEW w \in Workers, WorkerStep(w) \/ SpuriousWakeup(w), ~ Run(w) PROVE RunInv'
  <2>1. /\ runs' = runs /\ \A v \in Workers \ {w} : wfunc'[v] = wfunc[v] /\ wpc'[v] = wpc[v]
        /\ wpc[w] \notin {"ended", "joined"}
    <3>1. \A v \in Workers \ {w} : wpc'[v] = wpc[v]
      BY <1>a, <1>3, WorkerMoves
    <3>2. wpc[w] \notin {"ended", "joined"}
      BY <1>3, WorkerMoves
    <3>3. runs' = runs /\ \A v \in Workers \ {w} : wfunc'[v] = wfunc[v]
      BY <1>3, <1>a DEF WorkerStep, Lock, TestCount, SpuriousWakeup, TestTask, Leave, Grab,
         AdvanceLoad, Advance, WrapLoad, Wrap, Load, Store, Peek, EarlyUnlock, Unlock
    <3>4. QED BY <3>1, <3>2, <3>3
  <2>2. wpc[w] = "unlock" => wfunc'[w] = wfunc[w] /\ wpc'[w] = "ended"
    BY <1>3, <1>a DEF WorkerStep, Lock, TestCount, SpuriousWakeup, TestTask, Leave, Grab,
       AdvanceLoad, Advance, WrapLoad, Wrap, Load, Store, Peek, EarlyUnlock, Unlock
  <2>3. QED BY <2>1, <2>2 DEF RunInv
<1>4. QED BY <1>1, <1>2, <1>3 DEF Next

-----------------------------------------------------------------------------
(* The theorems *)

\* Inv is an inductive invariant of the pool.
THEOREM Invariance == Spec => []Inv
<1>1. Init => Inv
  <2> SUFFICES ASSUME Init PROVE Inv
    OBVIOUS
  <2> USE Numbers DEF Init
  <2>1. TypeInv
    <3>1. 0 \in Workers /\ 0 \in Slots
      BY DEF Workers, Slots
    <3>2. /\ wpc \in [Workers -> Critical \cup {"unborn", "lock", "waiting", "early", "run",
                                              "unlock", "ended", "joined"}]
          /\ wload \in [Workers -> Int] /\ runs \in [Tasks -> Nat]
          /\ wfunc \in [Workers -> Tasks \cup {None, Junk}]
          /\ warg \in [Workers -> Tasks \cup {None, Junk}]
          /\ func \in [Slots -> Tasks \cup {None}] /\ arg \in [Slots -> Tasks \cup {None}]
      OBVIOUS
    <3>3. TypeOK
      BY <3>1, <3>2 DEF TypeOK
    <3>4. destroyed \in Seq(Int)
      OBVIOUS
    <3>5. QED BY <3>3, <3>4 DEF TypeInv, ClientCritical
  <2>2. MakeInv
    BY DEF MakeInv, Making, Making1, Making2, Making3
  <2>3. FreedInv /\ LowerInv /\ LoopInv /\ JoinInv /\ LockInv
    BY DEF FreedInv, LowerInv, LoopInv, Waiting, JoinInv, LockInv
  <2>4. RoomInv
    BY DEF RoomInv, Written
  <2>5. PrevInv
    <3>1. Cardinality(Passed) \in Nat
      BY WorkerSets DEF Passed
    <3>2. QED BY <3>1 DEF PrevInv
  <2>6. UpperInv
    BY DEF UpperInv, Storing
  <2>7. QED BY <2>1, <2>2, <2>3, <2>4, <2>5, <2>6 DEF Inv
<1>2. Inv /\ [Next]_vars => Inv'
  <2> SUFFICES ASSUME Inv, [Next]_vars PROVE Inv'
    OBVIOUS
  <2>1. CASE Next
    BY <2>1, TypesKept, MakeKept, FreedKept, UpperKept, LowerKept, LoopKept, JoinKept,
       LockKept, PrevKept, RoomKept DEF Inv
  <2>2. CASE UNCHANGED vars
    <3>1. UNCHANGED <<locked, cur, prev, tail, func, arg, dispose, freed, cpc, ci, ctask,
                      cload, err, wpc, wload, wfunc, warg, highIds, accepted, refused,
                      runs, destroyed>>
      BY <2>2 DEF vars, moving, pool, client, worker, history
    <3>2. TypeInv' /\ MakeInv' /\ FreedInv'
      BY <3>1 DEF Inv, TypeInv, TypeOK, MakeInv, Making, Making1, Making2, Making3, FreedInv
    <3>3. Pending' = Pending /\ Storing' = Storing /\ Releasing' = Releasing
          /\ Waiting' = Waiting
      BY <3>1 DEF Pending, Storing, Releasing, Waiting
    <3>4. UpperInv' /\ LowerInv'
      BY <3>1, <3>3 DEF Inv, UpperInv, LowerInv
    <3>5. LoopInv' /\ JoinInv' /\ LockInv'
      BY <3>1, <3>3 DEF Inv, LoopInv, JoinInv, Joined, LockInv
    <3>6. Passed' = Passed
      BY <3>1 DEF Passed
    <3>7. PrevInv' /\ RoomInv'
      BY <3>1, <3>6 DEF Inv, PrevInv, RoomInv
    <3>8. QED BY <3>2, <3>4, <3>5, <3>7 DEF Inv
  <2>3. QED BY <2>1, <2>2
<1>3. QED BY <1>1, <1>2, PTL DEF Spec

\* cur_thrd_no never exceeds the queue and never falls below the workers that it
\* still has to count, so that only the first worker ever waits: for every number
\* of threads, slots and tasks.
THEOREM CounterHolds == Spec => []Counted
<1>1. ASSUME Inv PROVE Counted
  <2>1. TypeOK /\ OnlyFirstWaits
    BY <1>1 DEF Inv, TypeInv, LoopInv, OnlyFirstWaits
  <2>2. cur <= QueueSize \/ cur <= ThreadNum
    BY <1>1, Numbers DEF Inv, UpperInv
  <2>3. CountBounds
    BY <1>1, <2>2 DEF Inv, LowerInv, Pending, CountBounds
  <2>4. PrevInside
    BY <1>1, PrevIn DEF PrevInside
  <2>5. QED BY <2>1, <2>3, <2>4 DEF Counted
<1>2. QED BY <1>1, Invariance, PTL

\* destroy does not free the pool under a thread whose id it could join, and the
\* trylocks and unlocks around the tasks leave the lock free.
THEOREM LeftClean == Spec => []CleanEnd
<1>1. ASSUME Inv PROVE CleanEnd
  <2>1. NoUseAfterFree
    BY <1>1 DEF Inv, FreedInv, JoinInv, Joined, NoUseAfterFree
  <2>2. LockFreeAtEnd
    <3> SUFFICES ASSUME cpc = "idle", Len(destroyed) <= 1,
                        \A w \in Workers : wpc[w] \in {"ended", "joined"}
                 PROVE  ~ locked
      BY DEF LockFreeAtEnd
    <3>1. Releasing = {} /\ cpc \notin ClientCritical
      BY DEF Releasing, Critical, ClientCritical
    <3>2. ~ (Len(destroyed) >= 2)
      BY <1>1 DEF Inv, TypeInv
    <3>3. QED BY <1>1, <3>1, <3>2 DEF Inv, LockInv
  <2>3. QED BY <2>1, <2>2 DEF CleanEnd
<1>2. QED BY <1>1, Invariance, PTL

LEMMA TaskInit == Init => NewInv /\ OneInv /\ Seen = {}
<1> SUFFICES ASSUME Init PROVE NewInv /\ OneInv /\ Seen = {}
  OBVIOUS
<1>1. Seen = {}
  BY PoolAssumption DEF Init, Seen
<1>2. OneInv
  BY DEF Init, OneInv
<1>3. NewInv
  BY <1>1 DEF Init, NewInv, Written, ClientCritical
<1>4. QED BY <1>1, <1>2, <1>3

\* A task that add_task refused is never run, however many threads there are.
THEOREM RefusedNeverRun == Spec => [](\A t \in refused : runs[t] = 0)
<1>1. Init => NewInv /\ OneInv
  BY TaskInit
<1>2. Inv /\ NewInv /\ OneInv /\ [Next]_vars => NewInv' /\ OneInv'
  <2>1. NewInv /\ UNCHANGED vars => NewInv'
    BY DEF NewInv, Seen, vars, moving, pool, client, worker, history
  <2>2. OneInv /\ UNCHANGED vars => OneInv'
    BY DEF OneInv, vars, moving, worker, history
  <2>3. QED BY <2>1, <2>2, NewKept, OneKept
<1>3. Inv /\ NewInv /\ OneInv => \A t \in refused : runs[t] = 0
  <2> SUFFICES ASSUME Inv, NewInv, OneInv, NEW t \in refused PROVE runs[t] = 0
    OBVIOUS
  <2>1. t \in Tasks
    BY DEF Inv, TypeInv, TypeOK
  <2>2. t \in Seen => t \in accepted \/ (t = ctask /\ cpc \in ClientCritical)
    BY DEF NewInv, Written, ClientCritical
  <2>3. t \notin Seen
    BY <2>2 DEF NewInv
  <2>4. QED BY <2>1, <2>3 DEF OneInv, Seen
<1>4. QED BY <1>1, <1>2, <1>3, Invariance, PTL DEF Spec

LEMMA TwoInvariance ==
  ASSUME ThreadNum <= 2
  PROVE  Spec => [](Inv /\ NewInv /\ OneInv /\ TwoInv)
<1>1. AtMostTwo
  <2>1. \A u \in Workers : u = 0 \/ u = 1
    BY Numbers DEF Workers
  <2>2. QED BY <2>1 DEF AtMostTwo
<1>2. Init => NewInv /\ OneInv /\ TwoInv
  <2> SUFFICES ASSUME Init PROVE NewInv /\ OneInv /\ TwoInv
    OBVIOUS
  <2>1. NewInv /\ OneInv /\ Seen = {}
    BY TaskInit
  <2>2. HoldInv /\ TaskInv
    BY DEF Init, HoldInv, Holds, Critical, ClientCritical, TaskInv
  <2>3. SlotInv /\ RunInv
    BY DEF Init, SlotInv, Alone, RunInv
  <2>4. QED BY <2>1, <2>2, <2>3 DEF TwoInv
<1>3. Inv /\ NewInv /\ OneInv /\ TwoInv /\ [Next]_vars => NewInv' /\ OneInv' /\ TwoInv'
  <2> SUFFICES ASSUME Inv, NewInv, OneInv, TwoInv, [Next]_vars
               PROVE  NewInv' /\ OneInv' /\ TwoInv'
    OBVIOUS
  <2>1. CASE Next
    BY <2>1, <1>1, NewKept, OneKept, HoldKept, TaskKept, SlotKept, RunKept DEF TwoInv
  <2>2. CASE UNCHANGED vars
    <3>1. UNCHANGED <<locked, cur, prev, func, cpc, ctask, err, wpc, wfunc, accepted, refused,
                      runs>>
      BY <2>2 DEF vars, moving, pool, client, worker, history
    <3>2. NewInv' /\ OneInv'
      BY <3>1 DEF NewInv, OneInv, Seen, TwoInv
    <3>0. wload' = wload
      BY <2>2 DEF vars, moving, worker
    <3>3. HoldInv' /\ TaskInv'
      BY <3>0, <3>1 DEF HoldInv, Ended, Holds, TaskInv, TwoInv
    <3>4. SlotInv' /\ RunInv'
      BY <3>1 DEF SlotInv, Alone, RunInv, TwoInv
    <3>5. QED BY <3>2, <3>3, <3>4 DEF TwoInv
  <2>3. QED BY <2>1, <2>2
<1>4. QED BY <1>2, <1>3, Invariance, PTL DEF Spec

\* With one thread or two, however long the queue, no task is run twice and none is
\* missing when a worker calls it, although the lock may be released under the feet of the
\* second.  (With three, a task may be run twice.)
THEOREM TasksRunOnce ==
  ASSUME ThreadNum <= 2
  PROVE  Spec => []RightTasks
<1>1. Inv /\ NewInv /\ OneInv /\ TwoInv => RightTasks
  <2> SUFFICES ASSUME Inv, NewInv, OneInv, TwoInv PROVE RightTasks
    OBVIOUS
  <2>1. \A w \in Workers : wpc[w] = "run" => wfunc[w] \in Tasks
    BY DEF TwoInv, TaskInv
  <2>2. ASSUME NEW t \in Tasks PROVE runs[t] <= (IF t \in refused THEN 0 ELSE 1)
    <3>1. runs[t] = 0 \/ runs[t] = 1
      BY DEF TwoInv, RunInv
    <3>2. t \in Seen => t \in accepted \/ (t = ctask /\ cpc \in ClientCritical)
      BY DEF NewInv, Written, ClientCritical
    <3>3. t \in refused => t \notin Seen
      BY <3>2 DEF NewInv
    <3>4. t \in refused => runs[t] = 0
      BY <3>3 DEF OneInv, Seen
    <3>5. QED BY <3>1, <3>4
  <2>3. QED BY <2>1, <2>2 DEF RightTasks, AtMostOnce, NoNullCall
<1>2. QED BY <1>1, TwoInvariance, PTL

=============================================================================
