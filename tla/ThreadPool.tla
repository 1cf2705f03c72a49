----------------------------- MODULE ThreadPool -----------------------------
(***************************************************************************)
(* The thread pool of LinxSrvc/thread/pthdpool.c and one client thread     *)
(* that creates a pool, adds tasks, waits for the first thread and         *)
(* destroys the pool (as pthdtest.c does), in any order the API allows.    *)
(*                                                                         *)
(* A worker is not a loop: it runs at most one task and ends.  Around the  *)
(* task it unlocks queue_lock up to twice, and unlocking a normal mutex    *)
(* frees it whoever holds it, so critical sections may overlap: every      *)
(* access to the pool is a step of its own, and "cur_thrd_no -= 1" and     *)
(* "+= 1", "prev += 1" and the wrap of prev are a load and a store each.   *)
(* (A loaded value that is not used again is set back to 0.)               *)
(***************************************************************************)
EXTENDS Integers, Sequences, FiniteSets

CONSTANTS
  QueueSize,    \* sz_que
  ThreadNum,    \* thrd_num
  Tasks,        \* tasks the client may add, each once
  None,         \* a null func or arg, or no task
  Junk,         \* what lies behind the queue: neither null nor a task
  MaxDestroy    \* how often the client calls destroy

ASSUME PoolAssumption ==
  /\ QueueSize \in Nat \ {0} /\ ThreadNum \in Nat \ {0}
  /\ None \notin Tasks /\ Junk \notin Tasks \cup {None} /\ MaxDestroy \in Nat

Workers == 0 .. ThreadNum - 1
Slots == 0 .. QueueSize - 1

VARIABLES
  locked,                              \* queue_lock
  cur, prev, tail, func, arg, dispose, \* the pool
  freed,                               \* the pool has been freed
  cpc, ci, ctask, cload, err,          \* the client and the call it makes
  wpc, wload, wfunc, warg,             \* the workers
  highIds,                             \* those whose pthread_t is negative as an int
  accepted, refused,                   \* tasks for which add_task returned 0, or not
  runs,                                \* how often each task has been run
  destroyed                            \* results of the calls to destroy, in order

pool == <<cur, prev, tail, func, arg, dispose>>
client == <<cpc, ci, ctask, cload, err>>
worker == <<wpc, wload, wfunc, warg>>
history == <<accepted, refused, runs, destroyed>>
moving == <<locked, pool, freed, client, worker, history>>   \* all but highIds
vars == <<moving, highIds>>

\* pthd_pool_init up to its loop over the threads.
Init ==
  /\ locked = FALSE
  /\ cur = 0 /\ prev = 0 /\ tail = 0 /\ dispose = FALSE /\ freed = FALSE
  /\ func = [s \in Slots |-> None] /\ arg = [s \in Slots |-> None]
  /\ cpc = "create" /\ ci = 0 /\ ctask = None /\ cload = 0 /\ err = 0
  /\ wpc = [w \in Workers |-> "unborn"] /\ wload = [w \in Workers |-> 0]
  /\ wfunc = [w \in Workers |-> None] /\ warg = [w \in Workers |-> None]
  /\ highIds \in SUBSET Workers
  /\ accepted = {} /\ refused = {} /\ destroyed = <<>>
  /\ runs = [t \in Tasks |-> 0]

-----------------------------------------------------------------------------
(* The client: pthd_pool_init, add_task, wait, destroy *)

ClientTo(pc) == cpc' = pc

Create ==
  /\ cpc = "create"
  /\ wpc' = [wpc EXCEPT ![ci] = "lock"] /\ ClientTo("count")
  /\ UNCHANGED <<locked, pool, freed, ci, ctask, cload, err, wload, wfunc, warg,
                 history>>

\* Mutant of Count: the new thread is not counted.
CountForgotten ==
  /\ cpc = "count"
  /\ IF ci + 1 < ThreadNum THEN ClientTo("create") /\ ci' = ci + 1
                           ELSE ClientTo("idle") /\ ci' = 0
  /\ UNCHANGED <<locked, pool, freed, ctask, cload, err, worker, history>>

\* cur_thrd_no += 1 for the new thread, without the lock.
Count ==
  /\ cpc = "count" /\ cur' = cur + 1
  /\ IF ci + 1 < ThreadNum THEN ClientTo("create") /\ ci' = ci + 1
                           ELSE ClientTo("idle") /\ ci' = 0
  /\ UNCHANGED <<locked, prev, tail, func, arg, dispose, freed, ctask, cload, err,
                 worker, history>>

\* pthread_create fails: pthd_pool_free releases the pool at once, whatever
\* the threads created before are doing.
CreateFails ==
  /\ cpc = "create"
  /\ freed' = TRUE /\ ClientTo("gone")
  /\ UNCHANGED <<locked, pool, ci, ctask, cload, err, worker, history>>

AddCall(t) ==
  /\ cpc = "idle" /\ t \in Tasks \ (accepted \cup refused)
  /\ ctask' = t /\ ClientTo("addlock") /\ err' = 0
  /\ UNCHANGED <<locked, pool, freed, ci, cload, worker, history>>

AddLock ==
  /\ cpc = "addlock" /\ ~ locked /\ locked' = TRUE /\ ClientTo("addcheck")
  /\ UNCHANGED <<pool, freed, ci, ctask, cload, err, worker, history>>

\* Mutant of AddCheck: no test for a full queue.
AddUnchecked ==
  /\ cpc = "addcheck" /\ err' = (IF dispose THEN -4 ELSE 0)
  /\ ClientTo(IF err' = 0 THEN "addfunc" ELSE "addunlock")
  /\ UNCHANGED <<locked, pool, freed, ci, ctask, cload, worker, history>>

\* "Are we full ?" is asked of cur_thrd_no, before "Are we shutting down ?".
AddCheck ==
  /\ cpc = "addcheck"
  /\ err' = IF cur >= QueueSize THEN -3 ELSE IF dispose THEN -4 ELSE 0
  /\ ClientTo(IF err' = 0 THEN "addfunc" ELSE "addunlock")
  /\ UNCHANGED <<locked, pool, freed, ci, ctask, cload, worker, history>>

AddFunc ==
  /\ cpc = "addfunc" /\ func' = [func EXCEPT ![tail] = ctask] /\ ClientTo("addarg")
  /\ UNCHANGED <<locked, cur, prev, tail, arg, dispose, freed, ci, ctask, cload,
                 err, worker, history>>

\* Mutant of AddArg: the tail is not wrapped.
AddArgUnwrapped ==
  /\ cpc = "addarg" /\ ClientTo("addload")
  /\ arg' = [arg EXCEPT ![tail] = ctask] /\ tail' = tail + 1
  /\ UNCHANGED <<locked, cur, prev, func, dispose, freed, ci, ctask, cload, err,
                 worker, history>>

AddArg ==
  /\ cpc = "addarg" /\ ClientTo("addload")
  /\ arg' = [arg EXCEPT ![tail] = ctask]
  /\ tail' = IF tail + 1 >= QueueSize THEN 0 ELSE tail + 1
  /\ UNCHANGED <<locked, cur, prev, func, dispose, freed, ci, ctask, cload, err,
                 worker, history>>

AddLoad ==
  /\ cpc = "addload" /\ cload' = cur /\ ClientTo("addstore")
  /\ UNCHANGED <<locked, pool, freed, ci, ctask, err, worker, history>>

AddStore ==
  /\ cpc = "addstore" /\ cur' = cload + 1 /\ ClientTo("addsignal") /\ cload' = 0
  /\ UNCHANGED <<locked, prev, tail, func, arg, dispose, freed, ci, ctask, err, worker,
                 history>>

Waiting == {w \in Workers : wpc[w] = "waiting"}

\* Mutant of AddSignal: the signal is forgotten.
AddSignalForgotten ==
  /\ cpc = "addsignal" /\ ClientTo("addunlock")
  /\ UNCHANGED <<locked, pool, freed, ci, ctask, cload, err, worker, history>>

AddSignal ==
  /\ cpc = "addsignal" /\ ClientTo("addunlock")
  /\ \/ Waiting = {} /\ UNCHANGED wpc
     \/ \E w \in Waiting : wpc' = [wpc EXCEPT ![w] = "lock"]
  /\ UNCHANGED <<locked, pool, freed, ci, ctask, cload, err, wload, wfunc, warg,
                 history>>

AddUnlock ==
  /\ cpc = "addunlock" /\ locked' = FALSE /\ ClientTo("idle") /\ ctask' = None
  /\ IF err = 0 THEN accepted' = accepted \cup {ctask} /\ UNCHANGED refused
                ELSE refused' = refused \cup {ctask} /\ UNCHANGED accepted
  /\ UNCHANGED <<pool, freed, ci, cload, err, worker, runs, destroyed>>

\* pthd_pool_wait joins the first thread only. (Once that thread is joined a
\* further call fails and changes nothing.)
WaitCall ==
  /\ cpc = "idle" /\ destroyed = <<>> /\ wpc[0] # "joined" /\ ClientTo("waitjoin")
  /\ UNCHANGED <<locked, pool, freed, ci, ctask, cload, err, worker, history>>

WaitJoin ==
  /\ cpc = "waitjoin" /\ wpc[0] = "ended"
  /\ wpc' = [wpc EXCEPT ![0] = "joined"] /\ ClientTo("idle")
  /\ UNCHANGED <<locked, pool, freed, ci, ctask, cload, err, wload, wfunc, warg,
                 history>>

DestroyCall ==
  /\ cpc = "idle" /\ Len(destroyed) < MaxDestroy
  /\ err' = 0 /\ ClientTo("destroylock")
  /\ UNCHANGED <<locked, pool, freed, ci, ctask, cload, worker, history>>

\* Mutant of DestroyLock: nobody is woken.
DestroyUnannounced ==
  /\ cpc = "destroylock" /\ ~ locked
  /\ IF dispose THEN locked' = TRUE /\ err' = -4 /\ ClientTo("destroyfree")
                ELSE ClientTo("destroyjoin") /\ UNCHANGED <<locked, err>>
  /\ ci' = 0
  /\ UNCHANGED <<pool, freed, ctask, cload, worker, history>>

\* A pool that is shutting down is left with the lock held; otherwise all
\* threads are woken and the lock is released.
DestroyLock ==
  /\ cpc = "destroylock" /\ ~ locked
  /\ IF dispose
     THEN /\ locked' = TRUE /\ err' = -4 /\ ClientTo("destroyfree")
          /\ UNCHANGED wpc
     ELSE /\ wpc' = [w \in Workers |-> IF w \in Waiting THEN "lock" ELSE wpc[w]]
          /\ ClientTo("destroyjoin") /\ UNCHANGED <<locked, err>>
  /\ ci' = 0
  /\ UNCHANGED <<pool, freed, ctask, cload, wload, wfunc, warg, history>>

\* Mutant of DestroyJoin: the last thread is not joined.
DestroyJoinShort ==
  /\ cpc = "destroyjoin" /\ wpc[ci] = "ended" /\ UNCHANGED err
  /\ wpc' = [wpc EXCEPT ![ci] = "joined"]
  /\ IF ci + 2 < ThreadNum THEN ci' = ci + 1 /\ UNCHANGED <<cpc, dispose>>
     ELSE ci' = 0 /\ UNCHANGED dispose /\ ClientTo("destroyfree")
  /\ UNCHANGED <<locked, cur, prev, tail, func, arg, freed, ctask, cload, wload,
                 wfunc, warg, history>>

\* Thread ci: an id that looks negative is not joined, and the join of a
\* thread that pthd_pool_wait has joined fails. After the last one the pool is
\* marked as shutting down if every join went well.
DestroyJoin ==
  /\ cpc = "destroyjoin"
  /\ IF ci \in highIds \/ wpc[ci] = "joined"
     THEN err' = -3 /\ UNCHANGED wpc
     ELSE wpc[ci] = "ended" /\ wpc' = [wpc EXCEPT ![ci] = "joined"] /\ UNCHANGED err
  /\ IF ci + 1 < ThreadNum THEN ci' = ci + 1 /\ UNCHANGED <<cpc, dispose>>
     ELSE /\ ci' = 0 /\ dispose' = (err' = 0) /\ ClientTo("destroyfree")
  /\ UNCHANGED <<locked, cur, prev, tail, func, arg, freed, ctask, cload, wload,
                 wfunc, warg, history>>

\* pthd_pool_free refuses a pool that is shutting down and frees any other.
DestroyFree ==
  /\ cpc = "destroyfree"
  /\ freed' = ~ dispose
  /\ destroyed' = Append(destroyed, IF dispose THEN -5 ELSE err)
  /\ ClientTo(IF dispose THEN "idle" ELSE "gone")
  /\ UNCHANGED <<locked, pool, ci, ctask, cload, err, worker, accepted, refused, runs>>

-----------------------------------------------------------------------------
(* A worker: pthd_thrd_func *)

WorkerTo(w, pc) == wpc' = [wpc EXCEPT ![w] = pc]
At(w, pc) == wpc[w] = pc /\ ~ freed

Lock(w) ==
  /\ At(w, "lock") /\ ~ locked /\ locked' = TRUE /\ WorkerTo(w, "test")
  /\ UNCHANGED <<pool, freed, client, wload, wfunc, warg, history>>

\* The wait loop: pthread_cond_wait releases the lock and blocks.
TestCount(w) ==
  /\ At(w, "test")
  /\ IF cur = 0 /\ ~ dispose THEN locked' = FALSE /\ WorkerTo(w, "waiting")
                             ELSE WorkerTo(w, "retest") /\ UNCHANGED locked
  /\ UNCHANGED <<pool, freed, client, wload, wfunc, warg, history>>

SpuriousWakeup(w) ==
  /\ At(w, "waiting") /\ WorkerTo(w, "lock")
  /\ UNCHANGED <<locked, pool, freed, client, wload, wfunc, warg, history>>

\* What a read at prev may give: a worker that overlaps another one between its
\* increment of prev and the wrap reads behind the end of the queue.
AtPrev(slots) == IF prev \in Slots THEN {slots[prev]} ELSE {None, Junk}

\* Mutant of TestTask: the slot is not tested.
TestTaskForgotten(w) ==
  /\ At(w, "retest") /\ WorkerTo(w, IF cur = 0 THEN "bail" ELSE "grab")
  /\ UNCHANGED <<locked, pool, freed, client, wload, wfunc, warg, history>>

\* After the loop the counter is read again and then the slot at prev; a
\* worker that finds no task unlocks and ends.
TestTask(w) ==
  /\ At(w, "retest")
  /\ IF cur = 0 THEN WorkerTo(w, "bail")
     ELSE \E f \in AtPrev(func) : WorkerTo(w, IF f = None THEN "leave" ELSE "grab")
  /\ UNCHANGED <<locked, pool, freed, client, wload, wfunc, warg, history>>

\* A worker without a task unlocks and ends; when it left because of the
\* counter it asks trylock first, which takes the mutex if it is free.
Leave(w) ==
  /\ \/ At(w, "leave") /\ locked' = FALSE
     \/ At(w, "bail") /\ locked' = ~ locked
  /\ WorkerTo(w, "ended")
  /\ UNCHANGED <<pool, freed, client, wload, wfunc, warg, history>>

\* "Grab our task": the slot keeps its func and arg.
Grab(w) ==
  /\ At(w, "grab") /\ WorkerTo(w, "advance")
  /\ \E f \in AtPrev(func) : wfunc' = [wfunc EXCEPT ![w] = f]
  /\ \E a \in AtPrev(arg) : warg' = [warg EXCEPT ![w] = a]
  /\ UNCHANGED <<locked, pool, freed, client, wload, history>>

\* prev += 1
AdvanceLoad(w) ==
  /\ At(w, "advance") /\ wload' = [wload EXCEPT ![w] = prev] /\ WorkerTo(w, "advanced")
  /\ UNCHANGED <<locked, pool, freed, client, wfunc, warg, history>>

\* Mutant of Advance: prev is not moved on.
AdvanceForgotten(w) ==
  /\ At(w, "advanced") /\ WorkerTo(w, "wrap")
  /\ UNCHANGED <<locked, pool, freed, client, wload, wfunc, warg, history>>

Advance(w) ==
  /\ At(w, "advanced") /\ prev' = wload[w] + 1 /\ WorkerTo(w, "wrap")
  /\ UNCHANGED <<locked, cur, tail, func, arg, dispose, freed, client, wload,
                 wfunc, warg, history>>

\* Only now is prev brought back into the queue.
WrapLoad(w) ==
  /\ At(w, "wrap") /\ wload' = [wload EXCEPT ![w] = prev] /\ WorkerTo(w, "wrapped")
  /\ UNCHANGED <<locked, pool, freed, client, wfunc, warg, history>>

Wrap(w) ==
  /\ At(w, "wrapped") /\ WorkerTo(w, "load")
  /\ prev' = IF wload[w] >= QueueSize THEN 0 ELSE wload[w]
  /\ UNCHANGED <<locked, cur, tail, func, arg, dispose, freed, client, wload,
                 wfunc, warg, history>>

Load(w) ==
  /\ At(w, "load") /\ wload' = [wload EXCEPT ![w] = cur] /\ WorkerTo(w, "store")
  /\ UNCHANGED <<locked, pool, freed, client, wfunc, warg, history>>

Store(w) ==
  /\ At(w, "store") /\ cur' = wload[w] - 1 /\ WorkerTo(w, "peek")
  /\ wload' = [wload EXCEPT ![w] = 0]
  /\ UNCHANGED <<locked, prev, tail, func, arg, dispose, freed, client, wfunc, warg,
                 history>>

\* Only if the next slot is empty is the lock released before the task; a
\* trylock that finds the mutex free takes it.
Peek(w) ==
  /\ At(w, "peek")
  /\ \E f \in AtPrev(func) :
       /\ WorkerTo(w, IF f = None /\ locked THEN "early" ELSE "run")
       /\ locked' = (locked \/ f = None)
  /\ UNCHANGED <<pool, freed, client, wload, wfunc, warg, history>>

EarlyUnlock(w) ==
  /\ At(w, "early") /\ locked' = FALSE /\ WorkerTo(w, "run")
  /\ UNCHANGED <<pool, freed, client, wload, wfunc, warg, history>>

Run(w) ==
  /\ At(w, "run") /\ wfunc[w] \in Tasks /\ WorkerTo(w, "unlock")
  /\ runs' = [runs EXCEPT ![wfunc[w]] = @ + 1]
  /\ UNCHANGED <<locked, pool, freed, client, wload, wfunc, warg, accepted,
                 refused, destroyed>>

\* Mutant of Unlock: the task is not followed by an unlock.
UnlockForgotten(w) ==
  /\ At(w, "unlock") /\ WorkerTo(w, "ended")
  /\ UNCHANGED <<locked, pool, freed, client, wload, wfunc, warg, history>>

\* The unlock after the task, the second one if EarlyUnlock was the first.
Unlock(w) ==
  /\ At(w, "unlock") /\ locked' = FALSE /\ WorkerTo(w, "ended")
  /\ UNCHANGED <<pool, freed, client, wload, wfunc, warg, history>>

-----------------------------------------------------------------------------
ClientStep ==
  \/ Create \/ Count \/ CreateFails
  \/ AddLock \/ AddCheck \/ AddFunc \/ AddArg \/ AddLoad \/ AddStore \/ AddSignal
  \/ AddUnlock \/ WaitJoin \/ DestroyLock \/ DestroyJoin \/ DestroyFree

ClientCall == WaitCall \/ DestroyCall \/ \E t \in Tasks : AddCall(t)

WorkerStep(w) ==
  \/ Lock(w) \/ TestCount(w) \/ TestTask(w) \/ Leave(w) \/ Grab(w)
  \/ AdvanceLoad(w) \/ Advance(w) \/ WrapLoad(w) \/ Wrap(w) \/ Load(w) \/ Store(w)
  \/ Peek(w) \/ EarlyUnlock(w) \/ Run(w) \/ Unlock(w)

Next ==
  /\ \/ ClientCall \/ ClientStep
     \/ \E w \in Workers : WorkerStep(w) \/ SpuriousWakeup(w)
  /\ UNCHANGED highIds

Spec == Init /\ [][Next]_vars

\* Threads are scheduled and tasks end; the client may stop calling, and
\* pthread_cond_wait need not return without a signal.
FairSpec == Spec /\ WF_moving(ClientStep) /\ \A w \in Workers : WF_moving(WorkerStep(w))

-----------------------------------------------------------------------------
(* Properties *)

Critical == {"test", "retest", "bail", "leave", "grab", "advance", "advanced", "wrap",
             "wrapped", "load", "store", "peek"}
ClientCritical == {"addcheck", "addfunc", "addarg", "addload", "addstore",
                   "addsignal", "addunlock"}
Inside == {w \in Workers : wpc[w] \in Critical}

TypeOK ==
  /\ locked \in BOOLEAN /\ dispose \in BOOLEAN /\ freed \in BOOLEAN
  /\ cur \in Int /\ prev \in Nat /\ tail \in Slots
  /\ func \in [Slots -> Tasks \cup {None}] /\ arg \in [Slots -> Tasks \cup {None}]
  /\ cpc \in {"create", "count", "idle", "addlock", "addload", "addstore", "addsignal",
              "addunlock", "addcheck", "addfunc", "addarg", "waitjoin",
              "destroylock", "destroyjoin", "destroyfree", "gone"}
  /\ ci \in Workers /\ ctask \in Tasks \cup {None} /\ cload \in Int
  /\ err \in {0, -3, -4}
  /\ wpc \in [Workers -> Critical \cup {"unborn", "lock", "waiting", "early", "run",
                                        "unlock", "ended", "joined"}]
  /\ wload \in [Workers -> Int]
  /\ wfunc \in [Workers -> Tasks \cup {None, Junk}]
  /\ warg \in [Workers -> Tasks \cup {None, Junk}]
  /\ highIds \subseteq Workers
  /\ accepted \subseteq Tasks /\ refused \subseteq Tasks
  /\ runs \in [Tasks -> Nat]


\* Although a slot keeps its task after it was taken and queue_lock may be
\* released under a worker's feet, two workers never run a task twice, and a
\* task that add_task refused is never run.
AtMostOnce == \A t \in Tasks : runs[t] <= (IF t \in refused THEN 0 ELSE 1)

\* A worker that saw a task when it tested the slot still finds it when it
\* reads the slot again, and never calls a null function or what lies behind the
\* queue.
NoNullCall == \A w \in Workers : wpc[w] = "run" => wfunc[w] \in Tasks

\* cur_thrd_no counts threads and tasks at once, and an increment by add_task
\* may overwrite a decrement or be overwritten by it. It still never exceeds
\* the queue (or the threads, where there are more of them), and every worker
\* that has yet to take itself off the count is counted: past the wait loop no
\* worker finds the counter zero.
CountBounds ==
  /\ cur <= QueueSize \/ cur <= ThreadNum
  /\ cpc \notin {"create", "count", "gone"} =>
       cur >= Cardinality({w \in Workers : wpc[w] \in
                {"lock", "waiting", "test", "retest", "grab", "advance", "advanced", "wrap",
                 "wrapped", "load", "store"}})

\* prev never reaches the end of the queue, not even between its increment and the
\* wrap: every worker moves it on once at most, and add_task finds no room unless
\* there are more slots than workers - so no slot is read behind the queue.
PrevInside == prev \in Slots

\* No worker but the first ever waits for a task: the counter is zero only
\* until pthd_pool_init has counted the first thread. The others find the
\* counter positive and leave when there is no task yet.
OnlyFirstWaits == Waiting \subseteq {0}

\* destroy frees the pool only when no thread is left that could touch it,
\* except one whose id it took for an error and did not join.
NoUseAfterFree ==
  freed /\ destroyed # <<>> =>
    \A w \in Workers \ highIds : wpc[w] \in {"unborn", "ended", "joined"}

\* Trylock, early and late unlocks even out: when all threads have ended and
\* the client makes no call the lock is free, until a second destroy keeps it.
LockFreeAtEnd ==
  /\ cpc = "idle" /\ Len(destroyed) <= 1
  /\ \A w \in Workers : wpc[w] \in {"ended", "joined"}
  => ~ locked

\* What the counter and the types of the variables promise the loop of pthd_thrd_func,
\* what it may do with a task, and how the pool is left behind.
Counted == TypeOK /\ CountBounds /\ PrevInside /\ OnlyFirstWaits
RightTasks == AtMostOnce /\ NoNullCall
CleanEnd == NoUseAfterFree /\ LockFreeAtEnd

\* pthd_pool_wait returns once a task has been accepted: if the first thread
\* was waiting it was the one that add_task woke.
WaitReturns == cpc = "waitjoin" /\ accepted # {} ~> cpc # "waitjoin"

\* pthd_pool_destroy wakes whoever waits and returns, and so does the second call,
\* which finds the pool shutting down. That call keeps queue_lock: a third one, and
\* any add_task after it, waits for the lock for ever.
DestroyReturns == cpc = "destroylock" /\ Len(destroyed) <= 1 ~> cpc \in {"idle", "gone"}

\* Not kept by the code, and not in a run.  pthdpool.c: "When returning from
\* pthread_cond_wait(), we own the lock" - so no two threads are between taking
\* queue_lock and releasing it.
OwnsLock ==
  Cardinality(Inside) + (IF cpc \in ClientCritical THEN 1 ELSE 0) <= 1

=============================================================================
