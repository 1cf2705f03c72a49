------------------------------- MODULE Timing -------------------------------
(***************************************************************************)
(* The repeating timer of WinNTKline/KlineUtil/com/Timing.hpp: StartTimer  *)
(* detaches a thread that sleeps and runs the task until it is told to     *)
(* expire; Expire tells it and waits; the destructor is an Expire.         *)
(*                                                                         *)
(* expired_ and try_to_expire_ are atomics that are tested and set in      *)
(* separate steps; mutex_ covers only the end of the detached thread and   *)
(* the wait of Expire, not StartTimer.  Which threads call StartTimer and  *)
(* which Expire is chosen at the start of a behaviour.                     *)
(***************************************************************************)
EXTENDS Naturals, FiniteSets

CONSTANTS
  Users,      \* threads that share the timer
  MaxStarts,  \* bound on the threads the timer detaches
  Nobody      \* the owner of mutex_ when it is free

ASSUME TimingAssumption ==
  /\ MaxStarts \in Nat \ {0} /\ Users # {} /\ IsFiniteSet(Users)
  /\ Users \cap (1 .. MaxStarts) = {} /\ Nobody \notin Users \cup (1 .. MaxStarts)

Loops == 1 .. MaxStarts   \* the detached threads, in the order of their start

VARIABLES
  starters, expirers,  \* who calls StartTimer, and who Expire
  expired, trying,     \* expired_, try_to_expire_
  mutex,               \* owner of mutex_
  upc,                 \* control of the users
  lpc,                 \* control of the detached threads
  dying, destroyed,    \* the destructor has been entered, has returned
  before,              \* the threads detached before a user's call of Expire
  stopped              \* those detached before a call of Expire that returned

roles == <<starters, expirers>>
flags == <<expired, trying>>
life == <<dying, destroyed>>
history == <<before, stopped>>
vars == <<roles, flags, mutex, upc, lpc, life, history>>

Init ==
  /\ starters \in SUBSET Users \ {{}} /\ expirers \in SUBSET Users \ {{}}
  /\ expired = TRUE /\ trying = FALSE /\ mutex = Nobody
  /\ upc = [u \in Users |-> "idle"] /\ lpc = [l \in Loops |-> "unborn"]
  /\ dying = FALSE /\ destroyed = FALSE
  /\ before = [u \in Users |-> {}] /\ stopped = {}

UserTo(u, pc) == upc' = [upc EXCEPT ![u] = pc]
LoopTo(l, pc) == lpc' = [lpc EXCEPT ![l] = pc]

Born == {l \in Loops : lpc[l] # "unborn"}
Starting == {u \in Users : upc[u] \in {"startset", "spawn"}}

\* The bound: no call of StartTimer that would detach one thread too many.
MayStart == Cardinality(Born) + Cardinality(Starting) < MaxStarts

-----------------------------------------------------------------------------
(* StartTimer *)

\* Mutant of StartCall: a running timer is started again.
StartUntested(u) ==
  /\ upc[u] = "idle" /\ u \in starters /\ ~ dying
  /\ MayStart /\ UserTo(u, "startset")
  /\ UNCHANGED <<roles, flags, mutex, lpc, life, history>>

\* A timer that is running is left alone.
StartCall(u) ==
  /\ upc[u] = "idle" /\ u \in starters /\ ~ dying
  /\ expired /\ MayStart /\ UserTo(u, "startset")
  /\ UNCHANGED <<roles, flags, mutex, lpc, life, history>>

StartSet(u) ==
  /\ upc[u] = "startset" /\ expired' = FALSE /\ UserTo(u, "spawn")
  /\ UNCHANGED <<roles, trying, mutex, lpc, life, history>>

Spawn(u) ==
  /\ upc[u] = "spawn" /\ UserTo(u, "idle")
  /\ \E l \in Loops : /\ Born = 1 .. l - 1
                      /\ LoopTo(l, "test")
  /\ UNCHANGED <<roles, flags, mutex, life, history>>

-----------------------------------------------------------------------------
(* Expire and the destructor *)

\* Mutant of Return: every Expire is taken for the destructor.
ReturnForGood(u) ==
  /\ UserTo(u, "idle") /\ destroyed' = TRUE
  /\ stopped' = stopped \cup before'[u]

\* Expire returns to its caller, and from the destructor nobody comes back.
Return(u) ==
  /\ UserTo(u, "idle") /\ destroyed' = dying'
  /\ stopped' = stopped \cup before'[u]

\* A timer that has expired, or has never been started, is left alone. The
\* destructor runs when no other user is inside the object.
ExpireCall(u) ==
  /\ upc[u] = "idle" /\ u \in expirers /\ ~ dying
  /\ \/ dying' = FALSE
     \/ dying' = TRUE /\ \A v \in Users : upc[v] = "idle"
  /\ before' = [before EXCEPT ![u] = Born]
  /\ IF expired THEN Return(u)
                ELSE UserTo(u, "try") /\ UNCHANGED <<destroyed, stopped>>
  /\ UNCHANGED <<roles, flags, mutex, lpc>>

\* "timer is trying to expire, please wait...": the call does not wait.
ExpireTry(u) ==
  /\ upc[u] = "try"
  /\ UNCHANGED <<before, dying>>
  /\ IF trying THEN Return(u) ELSE UserTo(u, "set") /\ UNCHANGED <<destroyed, stopped>>
  /\ UNCHANGED <<roles, flags, mutex, lpc>>

ExpireSet(u) ==
  /\ upc[u] = "set" /\ trying' = TRUE /\ UserTo(u, "lock")
  /\ UNCHANGED <<roles, expired, mutex, lpc, life, history>>

ExpireLock(u) ==
  /\ upc[u] = "lock" /\ mutex = Nobody /\ mutex' = u /\ UserTo(u, "wait")
  /\ UNCHANGED <<roles, flags, lpc, life, history>>

\* Mutant of ExpireWait: the flag is not waited for.
ExpireUnwaited(u) ==
  /\ upc[u] = "wait" /\ UserTo(u, "check")
  /\ UNCHANGED <<roles, flags, mutex, lpc, life, history>>

\* The predicate of expired_cond_.wait, with the lock held.
ExpireWait(u) ==
  /\ upc[u] = "wait"
  /\ IF expired THEN UserTo(u, "check") /\ UNCHANGED mutex
                ELSE UserTo(u, "waiting") /\ mutex' = Nobody
  /\ UNCHANGED <<roles, flags, lpc, life, history>>

SpuriousWakeup(u) ==
  /\ upc[u] = "waiting" /\ UserTo(u, "lock")
  /\ UNCHANGED <<roles, flags, mutex, lpc, life, history>>

\* StartTimer does not take the lock: expired_ may be false again here, and
\* then try_to_expire_ stays set.
ExpireCheck(u) ==
  /\ upc[u] = "check" /\ UserTo(u, IF expired THEN "reset" ELSE "unlock")
  /\ UNCHANGED <<roles, flags, mutex, lpc, life, history>>

\* Mutant of ExpireReset: the flag stays set.
ExpireResetForgotten(u) ==
  /\ upc[u] = "reset" /\ UserTo(u, "unlock")
  /\ UNCHANGED <<roles, flags, mutex, lpc, life, history>>

ExpireReset(u) ==
  /\ upc[u] = "reset" /\ trying' = FALSE /\ UserTo(u, "unlock")
  /\ UNCHANGED <<roles, expired, mutex, lpc, life, history>>

ExpireUnlock(u) ==
  /\ upc[u] = "unlock" /\ mutex' = Nobody
  /\ UNCHANGED <<before, dying>> /\ Return(u)
  /\ UNCHANGED <<roles, flags, lpc>>

-----------------------------------------------------------------------------
(* The detached thread; nothing is said of it once its timer is gone *)

At(l, pc) == lpc[l] = pc /\ ~ destroyed

LoopTest(l) ==
  /\ At(l, "test") /\ LoopTo(l, IF trying THEN "lock" ELSE "task")
  /\ UNCHANGED <<roles, flags, mutex, upc, life, history>>

\* The sleep and the task.
LoopTask(l) ==
  /\ At(l, "task") /\ LoopTo(l, "test")
  /\ UNCHANGED <<roles, flags, mutex, upc, life, history>>

LoopLock(l) ==
  /\ At(l, "lock") /\ mutex = Nobody /\ mutex' = l /\ LoopTo(l, "expire")
  /\ UNCHANGED <<roles, flags, upc, life, history>>

LoopExpire(l) ==
  /\ At(l, "expire") /\ expired' = TRUE /\ LoopTo(l, "notify")
  /\ UNCHANGED <<roles, trying, mutex, upc, life, history>>

Waiting == {u \in Users : upc[u] = "waiting"}

\* Mutant of LoopNotify: nobody is told.
LoopSilent(l) ==
  /\ At(l, "notify") /\ LoopTo(l, "unlock")
  /\ UNCHANGED <<roles, flags, mutex, upc, life, history>>

\* notify_one
LoopNotify(l) ==
  /\ At(l, "notify") /\ LoopTo(l, "unlock")
  /\ \/ Waiting = {} /\ UNCHANGED upc
     \/ \E u \in Waiting : UserTo(u, "lock")
  /\ UNCHANGED <<roles, flags, mutex, life, history>>

LoopUnlock(l) ==
  /\ At(l, "unlock") /\ mutex' = Nobody /\ LoopTo(l, "ended")
  /\ UNCHANGED <<roles, flags, upc, life, history>>

-----------------------------------------------------------------------------
UserStep(u) ==
  \/ StartSet(u) \/ Spawn(u)
  \/ ExpireTry(u) \/ ExpireSet(u) \/ ExpireLock(u) \/ ExpireWait(u)
  \/ ExpireCheck(u) \/ ExpireReset(u) \/ ExpireUnlock(u)

LoopStep(l) ==
  \/ LoopTest(l) \/ LoopTask(l) \/ LoopLock(l) \/ LoopExpire(l)
  \/ LoopNotify(l) \/ LoopUnlock(l)

Next ==
  \/ \E u \in Users : StartCall(u) \/ ExpireCall(u) \/ UserStep(u) \/ SpuriousWakeup(u)
  \/ \E l \in Loops : LoopStep(l)

Spec == Init /\ [][Next]_vars

\* Threads are scheduled, mutex_ is granted in the end to a thread that keeps
\* asking for it, and tasks end; nobody has to call anything.
FairSpec ==
  /\ Spec
  /\ \A u \in Users : WF_vars(UserStep(u)) /\ SF_vars(ExpireLock(u))
  /\ \A l \in Loops : WF_vars(LoopStep(l)) /\ SF_vars(LoopLock(l))

-----------------------------------------------------------------------------
(* Properties *)

\* One thread starts the timer; one thread expires it; it is the same thread.
OneStarter == Cardinality(starters) = 1
OneExpirer == Cardinality(expirers) = 1
OneUser == OneStarter /\ starters = expirers

TypeOK ==
  /\ starters \subseteq Users /\ expirers \subseteq Users
  /\ expired \in BOOLEAN /\ trying \in BOOLEAN
  /\ mutex \in Users \cup Loops \cup {Nobody}
  /\ upc \in [Users -> {"idle", "startset", "spawn", "try", "set", "lock", "wait",
                        "waiting", "check", "reset", "unlock"}]
  /\ lpc \in [Loops -> {"unborn", "test", "task", "lock", "expire", "notify",
                        "unlock", "ended"}]
  /\ dying \in BOOLEAN /\ destroyed \in BOOLEAN /\ (destroyed => dying)
  /\ before \in [Users -> SUBSET Loops] /\ stopped \subseteq Loops

\* The task never runs twice at a time although StartTimer tests and sets
\* expired_ in two steps and outside mutex_: that needs no more than that one
\* thread calls StartTimer, whoever calls Expire meanwhile.
OneRunning ==
  OneStarter => Cardinality({l \in Loops : lpc[l] \in {"test", "task"}}) <= 1

\* When Expire has returned no task of a timer started before it is running,
\* even if another thread starts the timer again under its feet.
ExpireStops == OneStarter /\ OneExpirer => \A l \in stopped : lpc[l] # "task"

\* A timer used by one thread is never destroyed under its detached thread,
\* which still has to notify and unlock after it has set expired_.
NoUseAfterDestroy == OneUser /\ destroyed => \A l \in Born : lpc[l] = "ended"

\* "timer is trying to expire, please wait...": while try_to_expire_ is set
\* some thread is inside Expire and will reset it. (If it is left set, every
\* later StartTimer ends before its first task.)
Expiring == {u \in Users : upc[u] \in {"lock", "wait", "waiting", "check", "reset"}}
TryingIsTrying == trying => Expiring # {}

\* The same, for a timer that one thread uses.
TryingIsTryingAlone == OneUser => TryingIsTrying

\* The two flags mean what StartTimer and Expire take them for.
FlagsHold == TypeOK /\ OneRunning /\ TryingIsTryingAlone

\* Expire returns: the one notify_one reaches its one caller, also when the
\* timer is started again before that caller has the lock back.
ExpireReturns == \A u \in Users : upc[u] = "try" /\ OneExpirer ~> upc[u] = "idle"

=============================================================================
