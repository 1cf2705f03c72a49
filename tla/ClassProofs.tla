---------------------------- MODULE ClassProofs ------------------------------
(***************************************************************************)
(* Proofs about the two classes that are written in headers.  The timer,   *)
(* for every number of threads that share it and every number of starts.   *)
(* The linked list, for every set of elements, every number of nodes and   *)
(* every sequence of calls: it implements ListSpec.                        *)
(***************************************************************************)
EXTENDS Timing, LinkedList, FiniteSetTheorems, SequenceTheorems, WellFoundedInduction, TLAPS

-----------------------------------------------------------------------------
(* The timer: the inductive invariant *)

\* Who is where: only starters are inside StartTimer, only expirers inside
\* Expire, and nobody enters StartTimer once the destructor has begun.
Inside == {"try", "set", "lock", "wait", "waiting", "check", "reset", "unlock"}
RoleInv ==
  /\ \A u \in Users : upc[u] \in {"startset", "spawn"} => u \in starters /\ ~ dying
  /\ \A u \in Users : upc[u] \in Inside => u \in expirers

\* mutex_ belongs to whoever is in a step that holds it.
MutexInv ==
  /\ \A u \in Users : upc[u] \in {"wait", "check", "reset", "unlock"} => mutex = u
  /\ \A l \in Loops : lpc[l] \in {"expire", "notify", "unlock"} => mutex = l

\* The history speaks of threads that have been detached.
BornInv ==
  /\ \A u \in Users : before[u] \subseteq Born
  /\ stopped \subseteq Born

\* At most one detached thread has still to set expired_, and as long as there
\* is one, or one is about to be detached, expired_ is false.
Live == {l \in Loops : lpc[l] \in {"test", "task", "lock", "expire"}}
OneToCome ==
  /\ \A l, m \in Live : l = m
  /\ Live # {} => ~ expired
  /\ \A u \in Users : upc[u] = "startset" => expired
  /\ \A u \in Users : upc[u] = "spawn" => ~ expired /\ Live = {}
LiveInv == OneStarter => OneToCome

\* A call of Expire that has seen expired_ under mutex_ has seen the end of
\* every thread detached before it; one that finds try_to_expire_ set finds it
\* set for good, and then no thread runs its task again.
StoppedForGood ==
  /\ \A u \in Users : upc[u] = "set" => ~ trying
  /\ \A u \in Users :
       upc[u] \in {"lock", "wait", "waiting", "check", "reset"} => trying
  /\ \A u \in Users :
       upc[u] \in {"check", "reset", "unlock"} => before[u] \cap Live = {}
  /\ trying /\ (\A u \in Users : upc[u] \notin {"lock", "wait", "waiting"}) =>
       \A l \in Loops : lpc[l] # "task"
  /\ \A l \in stopped : lpc[l] \in {"test", "task"} =>
       /\ trying
       /\ \A u \in Users :
            upc[u] \notin {"set", "lock", "wait", "waiting", "check", "reset"}
StopInv == OneStarter /\ OneExpirer => StoppedForGood

\* A timer of one thread: a detached thread that is on its way out finds its
\* only user waiting for it, and the user goes on when the mutex is free again.
LeavesFirst ==
  /\ \A u \in starters : trying => u \in Expiring
  /\ \A u \in starters : upc[u] \in {"check", "reset", "unlock"} => expired
  /\ \A u \in starters, l \in Loops :
       lpc[l] \in {"lock", "expire", "notify", "unlock"} =>
         upc[u] \in {"lock", "wait", "waiting"}
  /\ destroyed => \A l \in Born : lpc[l] = "ended"
AloneInv == OneUser => LeavesFirst

Inv == TypeOK /\ RoleInv /\ MutexInv /\ BornInv /\ LiveInv /\ StopInv /\ AloneInv

-----------------------------------------------------------------------------
(* The timer: the roles *)

\* What OneStarter, OneExpirer and OneUser say of the sets they count.
LEMMA OneOfEach ==
  ASSUME TypeOK
  PROVE  /\ OneStarter <=> starters # {} /\ \A u, v \in starters : u = v
         /\ OneExpirer <=> expirers # {} /\ \A u, v \in expirers : u = v
<1>1. ASSUME NEW S, S \subseteq Users
      PROVE  Cardinality(S) = 1 <=> S # {} /\ \A u, v \in S : u = v
  <2>1. IsFiniteSet(S)
    BY <1>1, TimingAssumption, FS_Subset
  <2>2. Cardinality(S) = 1 <=> \E x : S = {x}
    BY <2>1, FS_Singleton
  <2>3. (\E x : S = {x}) <=> S # {} /\ \A u, v \in S : u = v
    OBVIOUS
  <2>4. QED BY <2>2, <2>3
<1>2. QED BY <1>1 DEF TypeOK, OneStarter, OneExpirer

\* No step changes them.
LEMMA RolesStay ==
  ASSUME Next
  PROVE  /\ starters' = starters /\ expirers' = expirers
         /\ OneStarter' = OneStarter /\ OneExpirer' = OneExpirer /\ OneUser' = OneUser
<1>1. starters' = starters /\ expirers' = expirers
  BY DEF Next, UserStep, LoopStep, roles, StartCall, StartSet, Spawn, ExpireCall,
     ExpireTry, ExpireSet, ExpireLock, ExpireWait, SpuriousWakeup, ExpireCheck,
     ExpireReset, ExpireUnlock, LoopTest, LoopTask, LoopLock, LoopExpire, LoopNotify,
     LoopUnlock
<1>2. QED BY <1>1 DEF OneStarter, OneExpirer, OneUser

-----------------------------------------------------------------------------
(* The timer: types and control *)

ControlInv == TypeOK /\ RoleInv /\ MutexInv /\ BornInv

LEMMA ControlStep ==
  ASSUME ControlInv, Next
  PROVE  ControlInv'
<1> USE TimingAssumption
    DEF ControlInv, TypeOK, RoleInv, MutexInv, BornInv, Born, Loops, Inside, roles,
        flags, life, history, UserTo, LoopTo
<1>1. ASSUME NEW u \in Users, StartCall(u) PROVE ControlInv'
  BY <1>1 DEF StartCall
<1>2. ASSUME NEW u \in Users, StartSet(u) PROVE ControlInv'
  BY <1>2 DEF StartSet
<1>3. ASSUME NEW u \in Users, Spawn(u) PROVE ControlInv'
  BY <1>3 DEF Spawn
<1>4. ASSUME NEW u \in Users, ExpireCall(u) PROVE ControlInv'
  <2>1. /\ upc[u] = "idle" /\ u \in expirers /\ ~ dying /\ dying' \in BOOLEAN
        /\ before' = [before EXCEPT ![u] = Born]
        /\ UNCHANGED <<starters, expirers, expired, trying, mutex, lpc>>
    BY <1>4 DEF ExpireCall
  <2>2. dying' => \A v \in Users : upc[v] = "idle"
    BY <1>4 DEF ExpireCall
  <2>3. CASE expired
    <3>1. /\ upc' = [upc EXCEPT ![u] = "idle"] /\ destroyed' = dying'
          /\ stopped' = stopped \cup before'[u]
      BY <1>4, <2>3 DEF ExpireCall, Return
    <3>2. QED BY <2>1, <2>2, <3>1
  <2>4. CASE ~ expired
    <3>1. upc' = [upc EXCEPT ![u] = "try"] /\ UNCHANGED <<destroyed, stopped>>
      BY <1>4, <2>4 DEF ExpireCall
    <3>2. QED BY <2>1, <2>2, <3>1
  <2>5. QED BY <2>3, <2>4
<1>5. ASSUME NEW u \in Users, ExpireTry(u) PROVE ControlInv'
  <2>1. /\ upc[u] = "try" /\ UNCHANGED <<starters, expirers, expired, trying, mutex, lpc>>
        /\ UNCHANGED <<before, dying>>
    BY <1>5 DEF ExpireTry
  <2>2. CASE trying
    <3>1. /\ upc' = [upc EXCEPT ![u] = "idle"] /\ destroyed' = dying
          /\ stopped' = stopped \cup before[u]
      BY <1>5, <2>2 DEF ExpireTry, Return
    <3>2. QED BY <2>1, <3>1
  <2>3. CASE ~ trying
    <3>1. upc' = [upc EXCEPT ![u] = "set"] /\ UNCHANGED <<destroyed, stopped>>
      BY <1>5, <2>3 DEF ExpireTry
    <3>2. QED BY <2>1, <3>1
  <2>4. QED BY <2>2, <2>3
<1>6. ASSUME NEW u \in Users, ExpireSet(u) PROVE ControlInv'
  BY <1>6 DEF ExpireSet
<1>7. ASSUME NEW u \in Users, ExpireLock(u) PROVE ControlInv'
  BY <1>7 DEF ExpireLock
<1>8. ASSUME NEW u \in Users, ExpireWait(u) PROVE ControlInv'
  BY <1>8 DEF ExpireWait
<1>9. ASSUME NEW u \in Users, SpuriousWakeup(u) PROVE ControlInv'
  BY <1>9 DEF SpuriousWakeup
<1>10. ASSUME NEW u \in Users, ExpireCheck(u) PROVE ControlInv'
  BY <1>10 DEF ExpireCheck
<1>11. ASSUME NEW u \in Users, ExpireReset(u) PROVE ControlInv'
  BY <1>11 DEF ExpireReset
<1>12. ASSUME NEW u \in Users, ExpireUnlock(u) PROVE ControlInv'
  <2>1. /\ upc[u] = "unlock" /\ mutex' = Nobody /\ upc' = [upc EXCEPT ![u] = "idle"]
        /\ destroyed' = dying /\ stopped' = stopped \cup before[u]
        /\ UNCHANGED <<starters, expirers, expired, trying, lpc, before, dying>>
    BY <1>12 DEF ExpireUnlock, Return
  <2>2. TypeOK'
    BY <2>1
  <2>3. RoleInv' /\ MutexInv' /\ BornInv'
    BY <2>1
  <2>4. QED BY <2>2, <2>3
<1>13. ASSUME NEW l \in Loops, LoopTest(l) PROVE ControlInv'
  BY <1>13 DEF LoopTest, At
<1>14. ASSUME NEW l \in Loops, LoopTask(l) PROVE ControlInv'
  BY <1>14 DEF LoopTask, At
<1>15. ASSUME NEW l \in Loops, LoopLock(l) PROVE ControlInv'
  BY <1>15 DEF LoopLock, At
<1>16. ASSUME NEW l \in Loops, LoopExpire(l) PROVE ControlInv'
  BY <1>16 DEF LoopExpire, At
<1>17. ASSUME NEW l \in Loops, LoopNotify(l) PROVE ControlInv'
  BY <1>17 DEF LoopNotify, At, Waiting
<1>18. ASSUME NEW l \in Loops, LoopUnlock(l) PROVE ControlInv'
  BY <1>18 DEF LoopUnlock, At
<1>19. QED
  BY <1>1, <1>2, <1>3, <1>4, <1>5, <1>6, <1>7, <1>8, <1>9, <1>10, <1>11, <1>12,
     <1>13, <1>14, <1>15, <1>16, <1>17, <1>18
  DEF Next, UserStep, LoopStep

-----------------------------------------------------------------------------
(* The timer: at most one thread runs the task *)

LEMMA LiveStep ==
  ASSUME ControlInv, LiveInv, Next
  PROVE  LiveInv'
<1> USE DEF ControlInv, TypeOK, RoleInv, BornInv, Born, Loops, roles, flags, life,
        history, UserTo, LoopTo, Live, OneToCome
<1>1. SUFFICES ASSUME OneStarter, \A u, v \in starters : u = v
               PROVE  OneToCome'
  BY RolesStay, OneOfEach DEF LiveInv
<1>2. OneToCome
  BY <1>1 DEF LiveInv, OneToCome
<1>3. ASSUME NEW u \in Users, StartCall(u) PROVE OneToCome'
  BY <1>3, <1>1, <1>2 DEF StartCall
<1>4. ASSUME NEW u \in Users, StartSet(u) PROVE OneToCome'
  BY <1>4, <1>1, <1>2 DEF StartSet
<1>5. ASSUME NEW u \in Users, Spawn(u) PROVE OneToCome'
  BY <1>5, <1>1, <1>2 DEF Spawn
<1>6. ASSUME NEW u \in Users, ExpireCall(u) PROVE OneToCome'
  BY <1>6, <1>1, <1>2 DEF ExpireCall, Return
<1>7. ASSUME NEW u \in Users, ExpireTry(u) PROVE OneToCome'
  BY <1>7, <1>1, <1>2 DEF ExpireTry, Return
<1>8. ASSUME NEW u \in Users, ExpireSet(u) PROVE OneToCome'
  BY <1>8, <1>1, <1>2 DEF ExpireSet
<1>9. ASSUME NEW u \in Users, ExpireLock(u) PROVE OneToCome'
  BY <1>9, <1>1, <1>2 DEF ExpireLock
<1>10. ASSUME NEW u \in Users, ExpireWait(u) PROVE OneToCome'
  BY <1>10, <1>1, <1>2 DEF ExpireWait
<1>11. ASSUME NEW u \in Users, SpuriousWakeup(u) PROVE OneToCome'
  BY <1>11, <1>1, <1>2 DEF SpuriousWakeup
<1>12. ASSUME NEW u \in Users, ExpireCheck(u) PROVE OneToCome'
  BY <1>12, <1>1, <1>2 DEF ExpireCheck
<1>13. ASSUME NEW u \in Users, ExpireReset(u) PROVE OneToCome'
  BY <1>13, <1>1, <1>2 DEF ExpireReset
<1>14. ASSUME NEW u \in Users, ExpireUnlock(u) PROVE OneToCome'
  BY <1>14, <1>1, <1>2 DEF ExpireUnlock, Return
<1>15. ASSUME NEW l \in Loops, LoopTest(l) PROVE OneToCome'
  BY <1>15, <1>1, <1>2 DEF LoopTest, At
<1>16. ASSUME NEW l \in Loops, LoopTask(l) PROVE OneToCome'
  BY <1>16, <1>1, <1>2 DEF LoopTask, At
<1>17. ASSUME NEW l \in Loops, LoopLock(l) PROVE OneToCome'
  BY <1>17, <1>1, <1>2 DEF LoopLock, At
<1>18. ASSUME NEW l \in Loops, LoopExpire(l) PROVE OneToCome'
  BY <1>18, <1>1, <1>2 DEF LoopExpire, At
<1>19. ASSUME NEW l \in Loops, LoopNotify(l) PROVE OneToCome'
  BY <1>19, <1>1, <1>2 DEF LoopNotify, At, Waiting
<1>20. ASSUME NEW l \in Loops, LoopUnlock(l) PROVE OneToCome'
  BY <1>20, <1>1, <1>2 DEF LoopUnlock, At
<1>21. QED
  BY <1>3, <1>4, <1>5, <1>6, <1>7, <1>8, <1>9, <1>10, <1>11, <1>12, <1>13, <1>14,
     <1>15, <1>16, <1>17, <1>18, <1>19, <1>20
  DEF Next, UserStep, LoopStep

-----------------------------------------------------------------------------
(* The timer: what has been stopped stays so *)

LEMMA StopStep ==
  ASSUME ControlInv, LiveInv, StopInv, Next
  PROVE  StopInv'
<1> USE DEF ControlInv, TypeOK, RoleInv, BornInv, Born, Loops, Inside, roles, flags,
        life, history, UserTo, LoopTo, Live, StoppedForGood
<1>1. SUFFICES ASSUME OneStarter, OneExpirer, \A u, v \in expirers : u = v
               PROVE  StoppedForGood'
  BY RolesStay, OneOfEach DEF StopInv
<1>2. StoppedForGood
  BY <1>1 DEF StopInv
<1>3. /\ Live # {} => ~ expired
      /\ \A u \in Users : upc[u] = "spawn" => ~ expired /\ Live = {}
  BY <1>1 DEF LiveInv, OneToCome
<1>4. ASSUME NEW u \in Users, StartCall(u) PROVE StoppedForGood'
  BY <1>4, <1>1, <1>2, <1>3 DEF StartCall
<1>5. ASSUME NEW u \in Users, StartSet(u) PROVE StoppedForGood'
  BY <1>5, <1>1, <1>2, <1>3 DEF StartSet
<1>6. ASSUME NEW u \in Users, Spawn(u) PROVE StoppedForGood'
  BY <1>6, <1>1, <1>2, <1>3 DEF Spawn
<1>7. ASSUME NEW u \in Users, ExpireCall(u) PROVE StoppedForGood'
  <2>1. /\ upc[u] = "idle" /\ before' = [before EXCEPT ![u] = Born]
        /\ UNCHANGED <<trying, lpc>>
    BY <1>7 DEF ExpireCall
  <2>2. CASE expired
    <3>1. upc' = [upc EXCEPT ![u] = "idle"] /\ stopped' = stopped \cup Born
      BY <1>7, <2>2 DEF ExpireCall, Return
    <3>2. Live = {} /\ upc' = upc
      BY <1>3, <2>1, <2>2, <3>1
    <3>3. QED BY <1>2, <2>1, <3>1, <3>2
  <2>3. CASE ~ expired
    <3>1. upc' = [upc EXCEPT ![u] = "try"] /\ stopped' = stopped
      BY <1>7, <2>3 DEF ExpireCall
    <3>2. QED BY <1>2, <2>1, <3>1
  <2>4. QED BY <2>2, <2>3
<1>8. ASSUME NEW u \in Users, ExpireTry(u) PROVE StoppedForGood'
  <2>1. upc[u] = "try" /\ UNCHANGED <<before, trying, lpc>>
    BY <1>8 DEF ExpireTry
  <2>2. \A v \in Users \ {u} : upc[v] \notin Inside
    BY <1>1, <2>1
  <2>3. CASE trying
    <3>1. upc' = [upc EXCEPT ![u] = "idle"] /\ stopped' = stopped \cup before[u]
      BY <1>8, <2>1, <2>3 DEF ExpireTry, Return
    <3>2. \A l \in Loops : lpc[l] # "task"
      BY <1>2, <2>1, <2>2, <2>3
    <3>3. \A v \in Users : upc'[v] \notin {"set", "lock", "wait", "waiting", "check", "reset", "unlock"}
      BY <2>1, <2>2, <3>1
    <3>4. QED BY <2>1, <2>3, <3>1, <3>2, <3>3
  <2>4. CASE ~ trying
    <3>1. upc' = [upc EXCEPT ![u] = "set"] /\ stopped' = stopped
      BY <1>8, <2>4 DEF ExpireTry
    <3>2. QED BY <1>2, <2>1, <2>4, <3>1
  <2>5. QED BY <2>3, <2>4
<1>9. ASSUME NEW u \in Users, ExpireSet(u) PROVE StoppedForGood'
  BY <1>9, <1>1, <1>2, <1>3 DEF ExpireSet
<1>10. ASSUME NEW u \in Users, ExpireLock(u) PROVE StoppedForGood'
  BY <1>10, <1>1, <1>2, <1>3 DEF ExpireLock
<1>11. ASSUME NEW u \in Users, ExpireWait(u) PROVE StoppedForGood'
  BY <1>11, <1>1, <1>2, <1>3 DEF ExpireWait
<1>12. ASSUME NEW u \in Users, SpuriousWakeup(u) PROVE StoppedForGood'
  BY <1>12, <1>1, <1>2, <1>3 DEF SpuriousWakeup
<1>13. ASSUME NEW u \in Users, ExpireCheck(u) PROVE StoppedForGood'
  BY <1>13, <1>1, <1>2, <1>3 DEF ExpireCheck
<1>14. ASSUME NEW u \in Users, ExpireReset(u) PROVE StoppedForGood'
  BY <1>14, <1>1, <1>2, <1>3 DEF ExpireReset
<1>15. ASSUME NEW u \in Users, ExpireUnlock(u) PROVE StoppedForGood'
  BY <1>15, <1>1, <1>2, <1>3 DEF ExpireUnlock, Return
<1>16. ASSUME NEW l \in Loops, LoopTest(l) PROVE StoppedForGood'
  BY <1>16, <1>1, <1>2, <1>3 DEF LoopTest, At
<1>17. ASSUME NEW l \in Loops, LoopTask(l) PROVE StoppedForGood'
  BY <1>17, <1>1, <1>2, <1>3 DEF LoopTask, At
<1>18. ASSUME NEW l \in Loops, LoopLock(l) PROVE StoppedForGood'
  BY <1>18, <1>1, <1>2, <1>3 DEF LoopLock, At
<1>19. ASSUME NEW l \in Loops, LoopExpire(l) PROVE StoppedForGood'
  BY <1>19, <1>1, <1>2, <1>3 DEF LoopExpire, At
<1>20. ASSUME NEW l \in Loops, LoopNotify(l) PROVE StoppedForGood'
  BY <1>20, <1>1, <1>2, <1>3 DEF LoopNotify, At, Waiting
<1>21. ASSUME NEW l \in Loops, LoopUnlock(l) PROVE StoppedForGood'
  BY <1>21, <1>1, <1>2, <1>3 DEF LoopUnlock, At
<1>22. QED
  BY <1>4, <1>5, <1>6, <1>7, <1>8, <1>9, <1>10, <1>11, <1>12, <1>13, <1>14, <1>15,
     <1>16, <1>17, <1>18, <1>19, <1>20, <1>21
  DEF Next, UserStep, LoopStep

-----------------------------------------------------------------------------
(* The timer of one thread *)

LEMMA AloneStep ==
  ASSUME ControlInv, LiveInv, AloneInv, Next
  PROVE  AloneInv'
<1> USE TimingAssumption
    DEF ControlInv, TypeOK, RoleInv, MutexInv, BornInv, Born, Loops, Inside, roles,
        flags, life, history, UserTo, LoopTo, Live, Expiring, LeavesFirst
<1>1. SUFFICES ASSUME OneUser, starters = expirers,
                      \A u, v \in starters : u = v
               PROVE  LeavesFirst'
  BY RolesStay, OneOfEach DEF AloneInv, OneUser
<1>2. LeavesFirst
  BY <1>1 DEF AloneInv
<1>3. /\ Live # {} => ~ expired
      /\ \A u \in Users : upc[u] = "spawn" => ~ expired /\ Live = {}
  BY <1>1 DEF LiveInv, OneUser, OneToCome
<1>4. ASSUME NEW u \in Users, StartCall(u) PROVE LeavesFirst'
  BY <1>4, <1>1, <1>2, <1>3 DEF StartCall
<1>5. ASSUME NEW u \in Users, StartSet(u) PROVE LeavesFirst'
  BY <1>5, <1>1, <1>2, <1>3 DEF StartSet
<1>6. ASSUME NEW u \in Users, Spawn(u) PROVE LeavesFirst'
  BY <1>6, <1>1, <1>2, <1>3 DEF Spawn
<1>7. ASSUME NEW u \in Users, ExpireCall(u) PROVE LeavesFirst'
  BY <1>7, <1>1, <1>2, <1>3 DEF ExpireCall, Return
<1>8. ASSUME NEW u \in Users, ExpireTry(u) PROVE LeavesFirst'
  BY <1>8, <1>1, <1>2, <1>3 DEF ExpireTry, Return
<1>9. ASSUME NEW u \in Users, ExpireSet(u) PROVE LeavesFirst'
  BY <1>9, <1>1, <1>2, <1>3 DEF ExpireSet
<1>10. ASSUME NEW u \in Users, ExpireLock(u) PROVE LeavesFirst'
  BY <1>10, <1>1, <1>2, <1>3 DEF ExpireLock
<1>11. ASSUME NEW u \in Users, ExpireWait(u) PROVE LeavesFirst'
  BY <1>11, <1>1, <1>2, <1>3 DEF ExpireWait
<1>12. ASSUME NEW u \in Users, SpuriousWakeup(u) PROVE LeavesFirst'
  BY <1>12, <1>1, <1>2, <1>3 DEF SpuriousWakeup
<1>13. ASSUME NEW u \in Users, ExpireCheck(u) PROVE LeavesFirst'
  BY <1>13, <1>1, <1>2, <1>3 DEF ExpireCheck
<1>14. ASSUME NEW u \in Users, ExpireReset(u) PROVE LeavesFirst'
  BY <1>14, <1>1, <1>2, <1>3 DEF ExpireReset
<1>15. ASSUME NEW u \in Users, ExpireUnlock(u) PROVE LeavesFirst'
  BY <1>15, <1>1, <1>2, <1>3 DEF ExpireUnlock, Return
<1>16. ASSUME NEW l \in Loops, LoopTest(l) PROVE LeavesFirst'
  BY <1>16, <1>1, <1>2, <1>3 DEF LoopTest, At
<1>17. ASSUME NEW l \in Loops, LoopTask(l) PROVE LeavesFirst'
  BY <1>17, <1>1, <1>2, <1>3 DEF LoopTask, At
<1>18. ASSUME NEW l \in Loops, LoopLock(l) PROVE LeavesFirst'
  BY <1>18, <1>1, <1>2, <1>3 DEF LoopLock, At
<1>19. ASSUME NEW l \in Loops, LoopExpire(l) PROVE LeavesFirst'
  BY <1>19, <1>1, <1>2, <1>3 DEF LoopExpire, At
<1>20. ASSUME NEW l \in Loops, LoopNotify(l) PROVE LeavesFirst'
  BY <1>20, <1>1, <1>2, <1>3 DEF LoopNotify, At, Waiting
<1>21. ASSUME NEW l \in Loops, LoopUnlock(l) PROVE LeavesFirst'
  BY <1>21, <1>1, <1>2, <1>3 DEF LoopUnlock, At
<1>22. QED
  BY <1>4, <1>5, <1>6, <1>7, <1>8, <1>9, <1>10, <1>11, <1>12, <1>13, <1>14, <1>15,
     <1>16, <1>17, <1>18, <1>19, <1>20, <1>21
  DEF Next, UserStep, LoopStep

-----------------------------------------------------------------------------
(* The timer: the theorems *)

\* Inv is an inductive invariant of the timer.
THEOREM Invariance == Spec => []Inv
<1>1. Init => Inv
  BY TimingAssumption
  DEF Init, Inv, TypeOK, RoleInv, MutexInv, BornInv, LiveInv, StopInv, AloneInv, Born,
      OneToCome, StoppedForGood, LeavesFirst, Loops, Live, Inside, Expiring
<1>2. Inv /\ [Next]_vars => Inv'
  <2> SUFFICES ASSUME Inv, [Next]_vars PROVE Inv'
    OBVIOUS
  <2>1. CASE Next
    BY <2>1, ControlStep, LiveStep, StopStep, AloneStep DEF Inv, ControlInv
  <2>2. CASE UNCHANGED vars
    BY <2>2
    DEF vars, roles, flags, life, history, Inv, TypeOK, RoleInv, MutexInv, BornInv,
        LiveInv, StopInv, AloneInv, OneToCome, StoppedForGood, LeavesFirst, Born, Live,
        Expiring, OneStarter, OneExpirer, OneUser
  <2>3. QED BY <2>1, <2>2
<1>3. QED BY <1>1, <1>2, PTL DEF Spec

\* One starter is enough for the two flags: the task never runs twice at a
\* time, however many threads call Expire meanwhile; and a timer of one thread
\* never keeps try_to_expire_ set.
THEOREM FlagsMeanWhatTheySay == Spec => []FlagsHold
<1>1. Inv => OneRunning
  <2> SUFFICES ASSUME Inv, OneStarter
               PROVE  Cardinality({l \in Loops : lpc[l] \in {"test", "task"}}) <= 1
    BY DEF OneRunning
  <2> DEFINE R == {l \in Loops : lpc[l] \in {"test", "task"}}
  <2>1. \A l, m \in R : l = m
    BY DEF Inv, LiveInv, OneToCome, Live
  <2>2. R = {} \/ \E l : R = {l}
    BY <2>1
  <2> HIDE DEF R
  <2>3. Cardinality(R) = 0 \/ Cardinality(R) = 1
    BY <2>2, FS_EmptySet, FS_Singleton
  <2>4. QED BY <2>3 DEF R
<1>2. Inv => TryingIsTryingAlone
  BY OneOfEach
  DEF Inv, AloneInv, LeavesFirst, TryingIsTryingAlone, TryingIsTrying, OneUser
<1>3. Inv => FlagsHold
  BY <1>1, <1>2 DEF Inv, FlagsHold
<1>4. QED BY <1>3, Invariance, PTL

\* With one starter and one expirer, who may be two threads, a timer that has
\* been told to expire does not run its task again after Expire has returned,
\* even if it is started again before Expire has the lock back.
THEOREM ExpiredIsStopped == Spec => []ExpireStops
<1>1. Inv => ExpireStops
  <2> SUFFICES ASSUME Inv, OneStarter, OneExpirer, NEW l \in stopped
               PROVE  lpc[l] # "task"
    BY DEF ExpireStops
  <2>1. l \in Loops
    BY DEF Inv, TypeOK
  <2>2. QED BY <2>1 DEF Inv, StopInv, StoppedForGood, Live, Inside, OneToCome
<1>2. QED BY <1>1, Invariance, PTL

\* A timer that one thread uses is not destroyed before its last detached
\* thread has notified and unlocked.
THEOREM NeverUsedDestroyed == Spec => []NoUseAfterDestroy
<1>1. Inv => NoUseAfterDestroy
  BY DEF Inv, AloneInv, LeavesFirst, NoUseAfterDestroy
<1>2. QED BY <1>1, Invariance, PTL

-----------------------------------------------------------------------------
(* The list: the inductive invariant *)

\* The nodes from the first to the last: the pointers join neighbours, and nothing else
\* is allocated.
InOrder(s) ==
  /\ m_count \in Nat \ {0} /\ s \in [1 .. m_count -> Nodes]
  /\ \A i, j \in 1 .. m_count : s[i] = s[j] => i = j
  /\ alive = {s[i] : i \in 1 .. m_count}
  /\ \A i \in 1 .. m_count : next[s[i]] = IF i < m_count THEN s[i + 1] ELSE Null
  /\ \A i \in 1 .. m_count : prev[s[i]] = IF i > 1 THEN s[i - 1] ELSE Null

\* The variables without the bound of the count.
NodeRanges ==
  /\ alive \subseteq Nodes /\ addr \in [Nodes -> Elems \cup {Null}]
  /\ prev \in [Nodes -> Pointer] /\ next \in [Nodes -> Pointer]
  /\ m_list \in Nodes /\ state \in {"ok", "crashed", "dangling"}

\* A node that is not in use is as the constructor of a node leaves it.
Unused == \A n \in Nodes \ alive : prev[n] = Null /\ next[n] = Null
Filled == \A n \in alive : addr[n] \in Elems

NodeInv ==
  /\ NodeRanges /\ Unused /\ Filled
  /\ state # "dangling" => m_list \in alive
  /\ \E s \in [1 .. m_count -> Nodes] : InOrder(s)
-----------------------------------------------------------------------------
(* The list: numbers, and what a pointer followed k times leads to *)

LEMMA LessNat ==
  \E R : IsWellFoundedOn(R, Nat) /\ \A x, y \in Nat : x < y <=> <<x, y>> \in R
<1> DEFINE R == OpToRel(<, Nat)
<1>1. IsWellFoundedOn(R, Nat)
  BY NatLessThanWellFounded
<1>2. \A x, y \in Nat : x < y <=> <<x, y>> \in R
  BY DEF OpToRel
<1> HIDE DEF R
<1>3. QED BY <1>1, <1>2

\* A set of natural numbers has a least, so that induction needs no operator.
LEMMA HasLeast ==
  ASSUME NEW T \in SUBSET Nat, T # {}
  PROVE  \E x \in T : \A y \in T : x <= y
<1>1. PICK R : IsWellFoundedOn(R, Nat) /\ \A x, y \in Nat : x < y <=> <<x, y>> \in R
  BY LessNat
<1>2. T \subseteq Nat /\ IsWellFoundedOn(R, Nat)
  BY <1>1
<1>3. \E x \in T : \A y \in T : ~ (<<y, x>> \in R)
  BY <1>2, WFMin, Zenon
<1>4. \A x, y \in Nat : x < y <=> <<x, y>> \in R
  BY <1>1
<1>5. PICK x \in T : \A y \in T : ~ (<<y, x>> \in R)
  BY <1>3
<1>6. \A y \in T : ~ (y < x)
  BY <1>4, <1>5
<1>7. \A y \in T : x <= y
  BY <1>6
<1>8. QED BY <1>7

LEMMA SetInduction ==
  ASSUME NEW S, 0 \in S, \A n \in Nat : n \in S => n + 1 \in S
  PROVE  Nat \subseteq S
<1>1. SUFFICES ASSUME Nat \ S # {} PROVE FALSE
  OBVIOUS
<1>2. PICK x \in Nat \ S : \A y \in Nat \ S : x <= y
  BY <1>1, HasLeast
<1>3. x # 0 /\ x - 1 \in Nat /\ x = (x - 1) + 1
  BY <1>2
<1>4. QED BY <1>2, <1>3

\* A pointer is followed as far as h says, if h says what each step does.
LEMMA AlongIs ==
  ASSUME NEW pointer, NEW from, NEW k \in Nat, NEW h,
         h = [i \in 0 .. k |-> IF i = 0 THEN from ELSE Follow(pointer, h[i - 1])]
  PROVE  Along(pointer, from, k) = h[k]
<1> DEFINE Step(f) == [i \in 0 .. k |-> IF i = 0 THEN from ELSE Follow(pointer, f[i - 1])]
           node == CHOOSE f : f = Step(f)
<1>1. Along(pointer, from, k) = node[k]
  BY DEF Along
<1>2. node = Step(node)
  <2>1. h = Step(h)
    OBVIOUS
  <2> HIDE DEF Step
  <2>2. QED BY <2>1
<1> HIDE DEF node
<1>3. Nat \subseteq {i \in Nat : i <= k => node[i] = h[i]}
  <2> DEFINE S == {i \in Nat : i <= k => node[i] = h[i]}
  <2>1. 0 \in S
    BY <1>2
  <2>2. ASSUME NEW n \in Nat, n \in S PROVE n + 1 \in S
    <3> SUFFICES ASSUME n + 1 <= k PROVE node[n + 1] = h[n + 1]
      OBVIOUS
    <3>1. n + 1 \in 0 .. k /\ n + 1 # 0 /\ (n + 1) - 1 = n /\ n <= k
      OBVIOUS
    <3>2. node[n] = h[n]
      BY <2>2, <3>1
    <3>3. node[n + 1] = Follow(pointer, node[n])
      BY <1>2, <3>1
    <3>4. h[n + 1] = Follow(pointer, h[n])
      BY <3>1
    <3>5. QED BY <3>2, <3>3, <3>4
  <2> HIDE DEF S
  <2>3. QED BY <2>1, <2>2, SetInduction DEF S
<1>4. QED BY <1>1, <1>3

-----------------------------------------------------------------------------
(* The list: the nodes in their order *)

\* From the j-th node, k steps lead to the j+k-th or beyond the end.
LEMMA Forwards ==
  ASSUME NodeInv, NEW s, InOrder(s), NEW j \in 1 .. m_count, NEW k \in Nat
  PROVE  Along(next, s[j], k) = IF j + k <= m_count THEN s[j + k] ELSE Null
<1> DEFINE h == [i \in 0 .. k |-> IF j + i <= m_count THEN s[j + i] ELSE Null]
           g == [i \in 0 .. k |-> IF i = 0 THEN s[j] ELSE Follow(next, h[i - 1])]
<1>1. Null \notin Nodes
  BY ListAssumption
<1>2. m_count \in Nat /\ j \in Nat /\ s \in [1 .. m_count -> Nodes]
  BY DEF InOrder
<1>3. ASSUME NEW i \in 0 .. k PROVE h[i] = g[i]
  <2>1. CASE i = 0
    BY <2>1, <1>2
  <2>2. CASE i # 0
    <3>1. i - 1 \in 0 .. k /\ j + (i - 1) = (j + i) - 1
      BY <2>2, <1>2
    <3>2. g[i] = Follow(next, h[i - 1])
      BY <2>2
    <3>3. h[i - 1] = IF (j + i) - 1 <= m_count THEN s[(j + i) - 1] ELSE Null
      BY <3>1
    <3>4. h[i] = IF j + i <= m_count THEN s[j + i] ELSE Null
      OBVIOUS
    <3>5. CASE (j + i) - 1 <= m_count
      <4>1. (j + i) - 1 \in 1 .. m_count
        BY <3>5, <2>2, <1>2
      <4>2. s[(j + i) - 1] \in Nodes /\ s[(j + i) - 1] # Null
        BY <4>1, <1>1, <1>2
      <4>3. next[s[(j + i) - 1]] =
              IF (j + i) - 1 < m_count THEN s[((j + i) - 1) + 1] ELSE Null
        BY <4>1 DEF InOrder
      <4>4. ((j + i) - 1) + 1 = j + i /\ ((j + i) - 1 < m_count <=> j + i <= m_count)
        BY <1>2
      <4>5. g[i] = next[s[(j + i) - 1]]
        BY <3>2, <3>3, <3>5, <4>2 DEF Follow
      <4>6. QED BY <3>4, <4>3, <4>4, <4>5
    <3>6. CASE ~ ((j + i) - 1 <= m_count)
      <4>1. ~ (j + i <= m_count)
        BY <3>6, <1>2
      <4>2. QED BY <4>1, <3>2, <3>3, <3>4, <3>6 DEF Follow
    <3>7. QED BY <3>5, <3>6
  <2>3. QED BY <2>1, <2>2
<1>4. h = g
  BY <1>3
<1>5. h[k] = IF j + k <= m_count THEN s[j + k] ELSE Null
  OBVIOUS
<1> HIDE DEF h
<1>6. Along(next, s[j], k) = h[k]
  BY <1>4, AlongIs
<1>7. QED BY <1>5, <1>6

\* Likewise backwards.
LEMMA Backwards ==
  ASSUME NodeInv, NEW s, InOrder(s), NEW j \in 1 .. m_count, NEW k \in Nat
  PROVE  Along(prev, s[j], k) = IF k < j THEN s[j - k] ELSE Null
<1> DEFINE h == [i \in 0 .. k |-> IF i < j THEN s[j - i] ELSE Null]
           g == [i \in 0 .. k |-> IF i = 0 THEN s[j] ELSE Follow(prev, h[i - 1])]
<1>1. Null \notin Nodes
  BY ListAssumption
<1>2. m_count \in Nat /\ j \in Nat /\ 1 <= j /\ j <= m_count /\ s \in [1 .. m_count -> Nodes]
  BY DEF InOrder
<1>3. ASSUME NEW i \in 0 .. k PROVE h[i] = g[i]
  <2>1. CASE i = 0
    BY <2>1, <1>2
  <2>2. CASE i # 0
    <3>1. i - 1 \in 0 .. k /\ j - (i - 1) = (j - i) + 1 /\ (i - 1 < j <=> i <= j)
      BY <2>2, <1>2
    <3>2. g[i] = Follow(prev, h[i - 1])
      BY <2>2
    <3>3. h[i - 1] = IF i <= j THEN s[(j - i) + 1] ELSE Null
      BY <3>1
    <3>4. h[i] = IF i < j THEN s[j - i] ELSE Null
      OBVIOUS
    <3>5. CASE i <= j
      <4>1. (j - i) + 1 \in 1 .. m_count
        BY <3>5, <2>2, <1>2
      <4>2. s[(j - i) + 1] \in Nodes /\ s[(j - i) + 1] # Null
        BY <4>1, <1>1, <1>2
      <4>3. prev[s[(j - i) + 1]] = IF (j - i) + 1 > 1 THEN s[((j - i) + 1) - 1] ELSE Null
        BY <4>1 DEF InOrder
      <4>4. ((j - i) + 1) - 1 = j - i /\ ((j - i) + 1 > 1 <=> i < j)
        BY <1>2
      <4>5. g[i] = prev[s[(j - i) + 1]]
        BY <3>2, <3>3, <3>5, <4>2 DEF Follow
      <4>6. QED BY <3>4, <4>3, <4>4, <4>5
    <3>6. CASE ~ (i <= j)
      <4>1. ~ (i < j)
        BY <3>6, <1>2
      <4>2. QED BY <4>1, <3>2, <3>3, <3>4, <3>6 DEF Follow
    <3>7. QED BY <3>5, <3>6
  <2>3. QED BY <2>1, <2>2
<1>4. h = g
  BY <1>3
<1>5. h[k] = IF k < j THEN s[j - k] ELSE Null
  OBVIOUS
<1> HIDE DEF h
<1>6. Along(prev, s[j], k) = h[k]
  BY <1>4, AlongIs
<1>7. QED BY <1>5, <1>6

LEMMA OnlyOne ==
  ASSUME NEW x \in Int
  PROVE  Min({x}) = x /\ Max({x}) = x
BY DEF Min, Max

\* From wherever m_list is, first leads to the first node.
LEMMA FirstIs ==
  ASSUME NodeInv, NEW s, InOrder(s), NEW j \in 1 .. m_count, m_list = s[j]
  PROVE  first = s[1]
<1> DEFINE ends == {k \in 0 .. m_count : LET n == Along(prev, m_list, k)
                                        IN n # Null /\ prev[n] = Null}
<1>1. m_count \in Nat /\ j \in Nat /\ 1 <= j /\ j <= m_count /\ s \in [1 .. m_count -> Nodes]
      /\ Null \notin Nodes
  BY ListAssumption DEF InOrder
<1>2. ASSUME NEW k \in 0 .. m_count
      PROVE  k \in ends <=> k = j - 1
  <2>1. k \in Nat /\ Along(prev, m_list, k) = IF k < j THEN s[j - k] ELSE Null
    BY <1>1, Backwards
  <2>2. CASE k < j
    <3>1. j - k \in 1 .. m_count
      BY <1>1, <2>1, <2>2
    <3>2. s[j - k] # Null
      BY <1>1, <3>1
    <3>3. prev[s[j - k]] = IF j - k > 1 THEN s[(j - k) - 1] ELSE Null
      BY <3>1 DEF InOrder
    <3>4. CASE k = j - 1
      <4>1. ~ (j - k > 1)
        BY <1>1, <3>4
      <4>2. QED BY <2>1, <2>2, <3>2, <3>3, <3>4, <4>1
    <3>5. CASE k # j - 1
      <4>1. j - k > 1 /\ (j - k) - 1 \in 1 .. m_count
        BY <1>1, <2>1, <2>2, <3>5
      <4>2. s[(j - k) - 1] # Null
        BY <4>1, <1>1
      <4>3. QED BY <2>1, <2>2, <3>2, <3>3, <3>5, <4>1, <4>2
    <3>6. QED BY <3>4, <3>5
  <2>3. CASE ~ (k < j)
    <3>1. k # j - 1
      BY <1>1, <2>1, <2>3
    <3>2. QED BY <2>1, <2>3, <3>1
  <2>4. QED BY <2>2, <2>3
<1>3. j - 1 \in 0 .. m_count /\ j - 1 \in Nat /\ j - 1 < j /\ j - (j - 1) = 1
  BY <1>1
<1>4. ends = {j - 1}
  BY <1>2, <1>3
<1>5. first = IF ends = {} THEN Along(prev, m_list, m_count) ELSE Along(prev, m_list, Min(ends))
  BY DEF first
<1> HIDE DEF ends
<1>6. Min(ends) = j - 1
  BY <1>3, <1>4, OnlyOne
<1>7. Along(prev, m_list, j - 1) = s[1]
  BY <1>3, Backwards
<1>8. QED BY <1>4, <1>5, <1>6, <1>7

\* m_count is how many nodes there are, and there is an address for each.
LEMMA Counted ==
  ASSUME NodeInv, NEW s, InOrder(s)
  PROVE  Cardinality(alive) = m_count /\ m_count \in 1 .. MaxSize
<1>1. m_count \in Nat \ {0} /\ s \in [1 .. m_count -> Nodes]
  BY DEF InOrder
<1>2. s \in Bijection(1 .. m_count, alive)
  <2>1. s \in [1 .. m_count -> alive]
    BY <1>1 DEF InOrder
  <2>2. s \in Injection(1 .. m_count, alive)
    BY <2>1 DEF InOrder, Injection, IsInjective
  <2>3. s \in Surjection(1 .. m_count, alive)
    BY <2>1 DEF InOrder, Surjection
  <2>4. QED BY <2>2, <2>3 DEF Bijection
<1>3. ExistsBijection(1 .. m_count, alive)
  BY <1>2 DEF ExistsBijection
<1>4. Cardinality(alive) = m_count
  BY <1>1, <1>3, FS_CountingElements
<1>5. alive \subseteq Nodes /\ IsFiniteSet(Nodes)
  BY ListAssumption DEF NodeInv, NodeRanges
<1>6. Cardinality(alive) <= Cardinality(Nodes) /\ Cardinality(Nodes) \in Nat
  BY <1>5, FS_Subset, FS_CardinalityType
<1>7. QED BY <1>1, <1>4, <1>6 DEF MaxSize

\* The state that insertions, removals and queries need is that of the invariant.
LEMMA InOrderIsWellFormed ==
  ASSUME NodeInv
  PROVE  WellFormed
<1>1. PICK s \in [1 .. m_count -> Nodes] : InOrder(s)
  BY DEF NodeInv
<1>2. m_count \in Nat \ {0} /\ Null \notin Nodes
  BY <1>1, ListAssumption DEF InOrder
<1>3. Cardinality(alive) = m_count /\ m_count \in 1 .. MaxSize
  BY <1>1, Counted
<1>4. NodeTypes
  BY <1>3 DEF NodeInv, NodeRanges, NodeTypes
<1>5. DoublyLinked
  <2> SUFFICES ASSUME NEW p \in alive
               PROVE  /\ next[p] # Null => next[p] \in alive /\ prev[next[p]] = p
                      /\ prev[p] # Null => prev[p] \in alive /\ next[prev[p]] = p
    BY DEF DoublyLinked
  <2>1. PICK i \in 1 .. m_count : p = s[i]
    BY <1>1 DEF InOrder
  <2>2. CASE i < m_count
    <3>1. i + 1 \in 1 .. m_count /\ i + 1 > 1 /\ (i + 1) - 1 = i
      BY <1>2, <2>2
    <3>2. next[p] = s[i + 1] /\ s[i + 1] \in alive
      BY <1>1, <2>1, <2>2, <3>1 DEF InOrder
    <3>3. prev[s[i + 1]] = s[(i + 1) - 1]
      BY <1>1, <3>1 DEF InOrder
    <3>4. next[p] \in alive /\ prev[next[p]] = p
      BY <2>1, <3>1, <3>2, <3>3
    <3>5. CASE i > 1
      <4>1. i - 1 \in 1 .. m_count /\ i - 1 < m_count /\ (i - 1) + 1 = i
        BY <1>2, <3>5
      <4>2. prev[p] = s[i - 1] /\ s[i - 1] \in alive /\ next[s[i - 1]] = s[(i - 1) + 1]
        BY <1>1, <2>1, <3>5, <4>1 DEF InOrder
      <4>3. QED BY <3>4, <4>1, <4>2, <2>1
    <3>6. CASE ~ (i > 1)
      <4>1. prev[p] = Null
        BY <1>1, <2>1, <3>6 DEF InOrder
      <4>2. QED BY <3>4, <4>1
    <3>7. QED BY <3>5, <3>6
  <2>3. CASE ~ (i < m_count)
    <3>1. next[p] = Null
      BY <1>1, <2>1, <2>3 DEF InOrder
    <3>2. CASE i > 1
      <4>1. i - 1 \in 1 .. m_count /\ i - 1 < m_count /\ (i - 1) + 1 = i
        BY <1>2, <3>2
      <4>2. prev[p] = s[i - 1] /\ s[i - 1] \in alive /\ next[s[i - 1]] = s[(i - 1) + 1]
        BY <1>1, <2>1, <3>2, <4>1 DEF InOrder
      <4>3. QED BY <3>1, <4>1, <4>2, <2>1
    <3>3. CASE ~ (i > 1)
      <4>1. prev[p] = Null
        BY <1>1, <2>1, <3>3 DEF InOrder
      <4>2. QED BY <3>1, <4>1
    <3>4. QED BY <3>2, <3>3
  <2>4. QED BY <2>2, <2>3
<1>6. AllReached
  <2> SUFFICES ASSUME state = "ok"
               PROVE  /\ alive = {Along(next, first, k) : k \in 0 .. m_count - 1}
                      /\ Cardinality(alive) = m_count
    BY DEF AllReached
  <2>1. PICK j \in 1 .. m_count : m_list = s[j]
    BY <1>1 DEF NodeInv, InOrder
  <2>2. first = s[1]
    BY <1>1, <2>1, FirstIs
  <2>3. ASSUME NEW k \in 0 .. m_count - 1
        PROVE  k + 1 \in 1 .. m_count /\ Along(next, first, k) = s[k + 1]
    <3>1. 1 \in 1 .. m_count /\ k \in Nat /\ 1 + k = k + 1 /\ 1 + k <= m_count
      BY <1>2
    <3>2. Along(next, s[1], k) = s[1 + k]
      BY <3>1, <1>1, Forwards
    <3>3. QED BY <3>1, <3>2, <2>2
  <2>4. ASSUME NEW i \in 1 .. m_count
        PROVE  i - 1 \in 0 .. m_count - 1 /\ s[i] = Along(next, first, i - 1)
    <3>1. i - 1 \in 0 .. m_count - 1 /\ (i - 1) + 1 = i
      BY <1>2
    <3>2. QED BY <3>1, <2>3
  <2>5. alive = {s[i] : i \in 1 .. m_count}
    BY <1>1 DEF InOrder
  <2>6. QED BY <1>3, <2>3, <2>4, <2>5
<1>7. QED BY <1>4, <1>5, <1>6 DEF WellFormed

-----------------------------------------------------------------------------
(* The list: N nodes with one more at p, and without the one at p *)

With(s, N, p, node) == [i \in 1 .. N + 1 |-> IF i < p THEN s[i] ELSE IF i = p THEN node ELSE s[i - 1]]
Without(s, N, p) == [i \in 1 .. N - 1 |-> IF i < p THEN s[i] ELSE s[i + 1]]

Distinct(s, N) == N \in Nat \ {0} /\ s \in [1 .. N -> Nodes] /\ \A i, j \in 1 .. N : s[i] = s[j] => i = j

\* The nodes of the longer sequence are the nodes of the shorter, and the new one.
LEMMA Longer ==
  ASSUME NEW N, NEW s, Distinct(s, N), NEW p \in 1 .. N + 1,
         NEW node \in Nodes, \A i \in 1 .. N : s[i] # node,
         NEW t, t = With(s, N, p, node)
  PROVE  /\ Distinct(t, N + 1)
         /\ \A n : (\E i \in 1 .. N + 1 : n = t[i]) <=> n = node \/ (\E i \in 1 .. N : n = s[i])
<1> DEFINE M == N + 1
<1>1. N \in Nat /\ M \in Nat \ {0} /\ p \in Nat /\ 1 <= p /\ p <= M
  BY DEF Distinct
<1>2. ASSUME NEW i \in 1 .. M
      PROVE  /\ i < p => t[i] = s[i] /\ i \in 1 .. N
             /\ i = p => t[i] = node
             /\ i > p => t[i] = s[i - 1] /\ i - 1 \in 1 .. N
  BY <1>1 DEF With
<1>3. t \in [1 .. M -> Nodes]
  <2>1. t = [i \in 1 .. M |-> t[i]]
    BY DEF With
  <2>2. ASSUME NEW i \in 1 .. M PROVE t[i] \in Nodes
    <3>1. i < p \/ i = p \/ i > p
      BY <1>1
    <3>2. QED BY <3>1, <1>2 DEF Distinct
  <2>3. QED BY <2>1, <2>2
<1>4. ASSUME NEW i \in 1 .. M, NEW j \in 1 .. M, t[i] = t[j] PROVE i = j
  <2> HIDE DEF M
  <2>1. /\ i < p \/ i = p \/ i > p
        /\ j < p \/ j = p \/ j > p
    BY <1>1
  <2>2. i = p <=> j = p
    BY <1>1, <1>2, <1>4, <2>1
  <2>3. \A k, l \in 1 .. N : s[k] = s[l] => k = l
    BY DEF Distinct
  <2>4. CASE i < p
    BY <2>1, <2>2, <2>3, <2>4, <1>2, <1>4, <1>1
  <2>5. CASE i > p
    BY <2>1, <2>2, <2>3, <2>5, <1>2, <1>4, <1>1
  <2>6. QED BY <2>1, <2>2, <2>4, <2>5
<1>5. ASSUME NEW i \in 1 .. N PROVE \E k \in 1 .. M : t[k] = s[i]
  <2>1. CASE i < p
    <3>1. i \in 1 .. M
      BY <1>1
    <3>2. QED BY <3>1, <1>2, <2>1
  <2>2. CASE ~ (i < p)
    <3>1. i + 1 \in 1 .. M /\ i + 1 > p /\ (i + 1) - 1 = i
      BY <1>1, <2>2
    <3>2. QED BY <3>1, <1>2
  <2>3. QED BY <2>1, <2>2
<1>6. p \in 1 .. M /\ t[p] = node
  BY <1>1, <1>2
<1>7. \A n : (\E i \in 1 .. M : n = t[i]) <=> n = node \/ (\E i \in 1 .. N : n = s[i])
  <2> HIDE DEF M
  <2>1. ASSUME NEW i \in 1 .. M PROVE t[i] = node \/ (\E k \in 1 .. N : t[i] = s[k])
    <3>1. i < p \/ i = p \/ i > p
      BY <1>1
    <3>2. QED BY <3>1, <1>2
  <2>2. QED BY <2>1, <1>5, <1>6
<1>8. Distinct(t, M)
  <2> HIDE DEF M
  <2>1. QED BY <1>1, <1>3, <1>4 DEF Distinct
<1>9. QED BY <1>7, <1>8

\* A pointer to the successor, after a node has been put at p.
LEMMA LongerNext ==
  ASSUME NEW N, NEW s, Distinct(s, N), NEW p \in 1 .. N + 1, NEW node \in Nodes,
         NEW f, NEW g,
         \A i \in 1 .. N : f[s[i]] = IF i < N THEN s[i + 1] ELSE Null,
         \A i \in 1 .. N : i # p - 1 => g[s[i]] = f[s[i]],
         p > 1 => g[s[p - 1]] = node,
         g[node] = IF p <= N THEN s[p] ELSE Null,
         NEW t, t = With(s, N, p, node)
  PROVE  \A i \in 1 .. N + 1 : g[t[i]] = IF i < N + 1 THEN t[i + 1] ELSE Null
<1> DEFINE M == N + 1
<1>1. N \in Nat /\ M \in Nat /\ p \in Nat /\ 1 <= p /\ p <= M
  BY DEF Distinct
<1>2. ASSUME NEW i \in 1 .. M
      PROVE  /\ i < p => t[i] = s[i] /\ i \in 1 .. N
             /\ i = p => t[i] = node
             /\ i > p => t[i] = s[i - 1] /\ i - 1 \in 1 .. N
  BY <1>1 DEF With
<1> SUFFICES ASSUME NEW i \in 1 .. M PROVE g[t[i]] = IF i < M THEN t[i + 1] ELSE Null
  OBVIOUS
<1>3. i < M => i + 1 \in 1 .. M
  BY <1>1
<1>4. CASE i < p - 1
  <2>1. i < p /\ i + 1 < p /\ i < M /\ i \in 1 .. N /\ i < N /\ i # p - 1
    BY <1>1, <1>4
  <2>2. t[i] = s[i] /\ t[i + 1] = s[i + 1]
    BY <2>1, <1>2, <1>3
  <2>3. g[s[i]] = s[i + 1]
    BY <2>1
  <2> HIDE DEF M
  <2>4. QED BY <2>1, <2>2, <2>3
<1>5. CASE i = p - 1
  <2>1. i < p /\ i + 1 = p /\ i < M /\ p > 1
    BY <1>1, <1>5
  <2>2. t[i] = s[i] /\ t[i + 1] = node
    BY <2>1, <1>2, <1>3
  <2>3. g[s[i]] = node
    BY <2>1, <1>5
  <2> HIDE DEF M
  <2>4. QED BY <2>1, <2>2, <2>3
<1>6. CASE i = p
  <2>1. t[i] = node
    BY <1>2, <1>6
  <2>2. CASE i < M
    <3>1. i + 1 > p /\ (i + 1) - 1 = p /\ p <= N
      BY <1>1, <1>6, <2>2
    <3>2. t[i + 1] = s[p]
      BY <3>1, <1>2, <1>3, <2>2
    <3> HIDE DEF M
    <3>3. QED BY <3>1, <3>2, <2>1, <2>2
  <2>3. CASE ~ (i < M)
    <3>1. ~ (p <= N)
      BY <1>1, <1>6, <2>3
    <3> HIDE DEF M
    <3>2. QED BY <3>1, <2>1, <2>3
  <2>4. QED BY <2>2, <2>3
<1>7. CASE i > p
  <2>1. t[i] = s[i - 1] /\ i - 1 \in 1 .. N /\ i - 1 # p - 1
    BY <1>1, <1>2, <1>7
  <2>2. g[s[i - 1]] = IF i - 1 < N THEN s[(i - 1) + 1] ELSE Null
    BY <2>1
  <2>3. (i - 1 < N <=> i < M) /\ (i - 1) + 1 = i
    BY <1>1
  <2>4. i < M => t[i + 1] = s[i]
    <3>1. i < M => i + 1 > p /\ (i + 1) - 1 = i
      BY <1>1, <1>7
    <3>2. QED BY <3>1, <1>2, <1>3
  <2> HIDE DEF M
  <2>5. QED BY <2>1, <2>2, <2>3, <2>4
<1>8. i < p - 1 \/ i = p - 1 \/ i = p \/ i > p
  BY <1>1
<1>9. QED BY <1>4, <1>5, <1>6, <1>7, <1>8

\* A pointer to the predecessor, after a node has been put at p.
LEMMA LongerPrev ==
  ASSUME NEW N, NEW s, Distinct(s, N), NEW p \in 1 .. N + 1, NEW node \in Nodes,
         NEW f, NEW g,
         \A i \in 1 .. N : f[s[i]] = IF i > 1 THEN s[i - 1] ELSE Null,
         \A i \in 1 .. N : i # p => g[s[i]] = f[s[i]],
         p <= N => g[s[p]] = node,
         g[node] = IF p > 1 THEN s[p - 1] ELSE Null,
         NEW t, t = With(s, N, p, node)
  PROVE  \A i \in 1 .. N + 1 : g[t[i]] = IF i > 1 THEN t[i - 1] ELSE Null
<1> DEFINE M == N + 1
<1>1. N \in Nat /\ M \in Nat /\ p \in Nat /\ 1 <= p /\ p <= M
  BY DEF Distinct
<1>2. ASSUME NEW i \in 1 .. M
      PROVE  /\ i < p => t[i] = s[i] /\ i \in 1 .. N
             /\ i = p => t[i] = node
             /\ i > p => t[i] = s[i - 1] /\ i - 1 \in 1 .. N
  BY <1>1 DEF With
<1> SUFFICES ASSUME NEW i \in 1 .. M PROVE g[t[i]] = IF i > 1 THEN t[i - 1] ELSE Null
  OBVIOUS
<1>3. i > 1 => i - 1 \in 1 .. M
  BY <1>1
<1>4. CASE i < p
  <2>1. t[i] = s[i] /\ i \in 1 .. N /\ i # p
    BY <1>1, <1>2, <1>4
  <2>2. g[s[i]] = IF i > 1 THEN s[i - 1] ELSE Null
    BY <2>1
  <2>3. i > 1 => t[i - 1] = s[i - 1]
    <3>1. i > 1 => i - 1 < p
      BY <1>1, <1>4
    <3>2. QED BY <3>1, <1>2, <1>3
  <2> HIDE DEF M
  <2>4. QED BY <2>1, <2>2, <2>3
<1>5. CASE i = p
  <2>1. t[i] = node
    BY <1>2, <1>5
  <2>2. i > 1 => t[i - 1] = s[i - 1]
    <3>1. i > 1 => i - 1 < p
      BY <1>1, <1>5
    <3>2. QED BY <3>1, <1>2, <1>3
  <2> HIDE DEF M
  <2>3. QED BY <2>1, <2>2, <1>5
<1>6. CASE i = p + 1
  <2>1. i > p /\ i > 1 /\ i - 1 = p /\ p <= N
    BY <1>1, <1>6
  <2>2. t[i] = s[p] /\ t[i - 1] = node
    BY <2>1, <1>2, <1>3
  <2> HIDE DEF M
  <2>3. QED BY <2>1, <2>2
<1>7. CASE i > p + 1
  <2>1. i > p /\ i > 1 /\ i - 1 > p /\ i - 1 # p /\ i - 1 > 1
    BY <1>1, <1>7
  <2>2. t[i] = s[i - 1] /\ i - 1 \in 1 .. N
    BY <1>2, <2>1
  <2>3. t[i - 1] = s[(i - 1) - 1]
    BY <1>2, <1>3, <2>1
  <2>4. g[s[i - 1]] = s[(i - 1) - 1]
    BY <2>1, <2>2
  <2> HIDE DEF M
  <2>5. QED BY <2>1, <2>2, <2>3, <2>4
<1>8. i < p \/ i = p \/ i = p + 1 \/ i > p + 1
  BY <1>1
<1>9. QED BY <1>4, <1>5, <1>6, <1>7, <1>8

\* A node added at the j-th: before it if it is the first of several, else after it.
LEMMA AddKeeps ==
  ASSUME NodeInv, NEW s, NEW N, N = m_count, InOrder(s), NEW j \in 1 .. N,
         NEW node \in Nodes \ alive, NEW e \in Elems, add(node, e, s[j])
  PROVE  LET p == IF j = 1 /\ N > 1 THEN 1 ELSE j + 1
         IN /\ InOrder(With(s, N, p, node))'
            /\ NodeRanges' /\ Unused' /\ Filled' /\ m_list' = m_list /\ state' = state
            /\ alive' = alive \cup {node}
<1> DEFINE p == IF j = 1 /\ N > 1 THEN 1 ELSE j + 1
           t == With(s, N, p, node)
<1>1. /\ N \in Nat \ {0} /\ j \in Nat /\ 1 <= j /\ j <= N /\ p \in 1 .. N + 1
      /\ Null \notin Nodes /\ node \in Nodes /\ node \notin alive
  BY ListAssumption DEF InOrder
<1>2. /\ Distinct(s, N) /\ alive = {s[i] : i \in 1 .. N}
      /\ \A i \in 1 .. N : next[s[i]] = IF i < N THEN s[i + 1] ELSE Null
      /\ \A i \in 1 .. N : prev[s[i]] = IF i > 1 THEN s[i - 1] ELSE Null
  BY DEF InOrder, Distinct
<1>3. \A i \in 1 .. N : s[i] # node /\ s[i] \in Nodes /\ s[i] # Null
  BY <1>1, <1>2 DEF Distinct
<1>4. /\ prev \in [Nodes -> Pointer] /\ next \in [Nodes -> Pointer]
      /\ addr \in [Nodes -> Elems \cup {Null}] /\ alive \subseteq Nodes
      /\ next[node] = Null /\ prev[node] = Null
  BY <1>1 DEF NodeInv, NodeRanges, Unused
<1>5. /\ next[s[j]] = Null <=> j = N
      /\ prev[s[j]] = Null <=> j = 1
  <2>1. j < N => s[j + 1] # Null
    BY <1>1, <1>3
  <2>2. j > 1 => s[j - 1] # Null
    BY <1>1, <1>3
  <2>3. QED BY <1>1, <1>2, <2>1, <2>2
<1>6. /\ alive' = alive \cup {node} /\ addr' = [addr EXCEPT ![node] = e]
      /\ m_count' = m_count + 1 /\ m_list' = m_list /\ state' = state
  BY DEF add
<1>7. \A i, k \in 1 .. N : s[i] = s[k] <=> i = k
  BY <1>2 DEF Distinct
<1>8. /\ prev' \in [Nodes -> Pointer] /\ next' \in [Nodes -> Pointer]
      /\ \A n \in Nodes : n # node /\ n \notin alive => prev'[n] = prev[n] /\ next'[n] = next[n]
      /\ \A i \in 1 .. N : i # p - 1 => next'[s[i]] = next[s[i]]
      /\ p > 1 => next'[s[p - 1]] = node
      /\ next'[node] = IF p <= N THEN s[p] ELSE Null
      /\ \A i \in 1 .. N : i # p => prev'[s[i]] = prev[s[i]]
      /\ p <= N => prev'[s[p]] = node
      /\ prev'[node] = IF p > 1 THEN s[p - 1] ELSE Null
  <2>1. CASE j = N
    <3>1. p = N + 1 /\ p - 1 = N /\ p > 1 /\ ~ (p <= N) /\ N \in 1 .. N
      BY <1>1, <2>1
    <3>2. prev' = [prev EXCEPT ![node] = s[N]] /\ next' = [next EXCEPT ![s[N]] = node]
      BY <1>5, <2>1 DEF add
    <3> HIDE DEF p
    <3>3. QED BY <1>1, <1>2, <1>3, <1>4, <1>7, <3>1, <3>2 DEF Pointer
  <2>2. CASE j = 1 /\ N > 1
    <3>1. p = 1 /\ p - 1 = 0 /\ ~ (p > 1) /\ p <= N /\ 1 \in 1 .. N
      BY <1>1, <2>2
    <3>2. next' = [next EXCEPT ![node] = s[1]] /\ prev' = [prev EXCEPT ![s[1]] = node]
      BY <1>1, <1>5, <2>2 DEF add
    <3> HIDE DEF p
    <3>3. QED BY <1>1, <1>2, <1>3, <1>4, <1>7, <3>1, <3>2 DEF Pointer
  <2>3. CASE j < N /\ j # 1
    <3>1. p = j + 1 /\ p - 1 = j /\ p > 1 /\ p <= N /\ j \in 1 .. N /\ p \in 1 .. N
      BY <1>1, <2>3
    <3>2. next[s[j]] = s[p] /\ s[p] \in Nodes /\ s[j] \in Nodes
      BY <1>1, <1>2, <1>3, <3>1, <2>3
    <3>3. /\ prev' = [prev EXCEPT ![node] = s[j], ![s[p]] = node]
          /\ next' = [next EXCEPT ![node] = s[p], ![s[j]] = node]
      BY <1>1, <1>5, <2>3, <3>2 DEF add
    <3> HIDE DEF p
    <3>4. QED BY <1>1, <1>2, <1>3, <1>4, <1>7, <3>1, <3>2, <3>3 DEF Pointer
  <2>4. QED BY <1>1, <2>1, <2>2, <2>3
<1> HIDE DEF p
<1> HIDE DEF t
<1>9. t = With(s, N, p, node)
  BY DEF t
<1>10. /\ Distinct(t, N + 1)
       /\ \A n : (\E i \in 1 .. N + 1 : n = t[i]) <=> n = node \/ (\E i \in 1 .. N : n = s[i])
  <2>1. /\ Distinct(s, N) /\ p \in 1 .. N + 1 /\ node \in Nodes
        /\ \A i \in 1 .. N : s[i] # node
    BY <1>1, <1>2, <1>3
  <2>2. QED BY <2>1, <1>9, Longer
<1>11. \A i \in 1 .. N + 1 : next'[t[i]] = IF i < N + 1 THEN t[i + 1] ELSE Null
  BY <1>1, <1>2, <1>8, <1>9, LongerNext
<1>12. \A i \in 1 .. N + 1 : prev'[t[i]] = IF i > 1 THEN t[i - 1] ELSE Null
  BY <1>1, <1>2, <1>8, <1>9, LongerPrev
<1>13. ASSUME NEW u, u = t PROVE InOrder(u)'
  <2>1. m_count' = N + 1
    BY <1>6
  <2>2. alive' = {u[i] : i \in 1 .. N + 1}
    BY <1>2, <1>6, <1>10, <1>13
  <2>3. Distinct(u, N + 1)
    BY <1>10, <1>13
  <2>4. QED BY <2>1, <2>2, <2>3, <1>11, <1>12, <1>13 DEF InOrder, Distinct
<1>14. NodeRanges'
  BY <1>1, <1>4, <1>6, <1>8 DEF NodeInv, NodeRanges
<1>15. Unused'
  BY <1>6, <1>8 DEF NodeInv, Unused
<1>16. Filled'
  BY <1>1, <1>4, <1>6 DEF NodeInv, Filled
<1>17. QED BY <1>6, <1>13, <1>14, <1>15, <1>16 DEF t, p

\* The nodes of the shorter sequence are those of the longer, but for the one at p.
LEMMA Shorter ==
  ASSUME NEW N, NEW s, Distinct(s, N), NEW p, p \in 1 .. N /\ p < N,
         NEW t, t = Without(s, N, p)
  PROVE  /\ Distinct(t, N - 1)
         /\ \A n : (\E i \in 1 .. N - 1 : n = t[i]) <=> n # s[p] /\ (\E i \in 1 .. N : n = s[i])
<1> DEFINE M == N - 1
<1>1. N \in Nat /\ M \in Nat \ {0} /\ p \in Nat /\ 1 <= p /\ p <= M /\ M < N
  BY DEF Distinct
<1>2. ASSUME NEW i \in 1 .. M
      PROVE  /\ i < p => t[i] = s[i]
             /\ ~ (i < p) => t[i] = s[i + 1]
             /\ i \in 1 .. N /\ i + 1 \in 1 .. N
  BY <1>1 DEF Without
<1>3. t \in [1 .. M -> Nodes]
  <2>1. t = [i \in 1 .. M |-> t[i]]
    BY DEF Without
  <2>2. ASSUME NEW i \in 1 .. M PROVE t[i] \in Nodes
    BY <1>2 DEF Distinct
  <2>3. QED BY <2>1, <2>2
<1>4. \A k, l \in 1 .. N : s[k] = s[l] => k = l
  BY DEF Distinct
<1>5. ASSUME NEW i \in 1 .. M, NEW j \in 1 .. M, t[i] = t[j] PROVE i = j
  <2> HIDE DEF M
  <2>1. CASE i < p
    BY <2>1, <1>1, <1>2, <1>4, <1>5
  <2>2. CASE ~ (i < p)
    BY <2>2, <1>1, <1>2, <1>4, <1>5
  <2>3. QED BY <2>1, <2>2
<1>6. ASSUME NEW i \in 1 .. N, i # p PROVE \E k \in 1 .. M : s[i] = t[k]
  <2>1. CASE i < p
    <3>1. i \in 1 .. M
      BY <1>1, <2>1
    <3>2. QED BY <3>1, <1>2, <2>1
  <2>2. CASE i > p
    <3>1. i - 1 \in 1 .. M /\ ~ (i - 1 < p) /\ (i - 1) + 1 = i
      BY <1>1, <2>2
    <3>2. QED BY <3>1, <1>2
  <2>3. QED BY <1>1, <1>6, <2>1, <2>2
<1>7. ASSUME NEW i \in 1 .. M PROVE t[i] # s[p] /\ \E k \in 1 .. N : t[i] = s[k]
  <2> HIDE DEF M
  <2>1. i + 1 # p \/ i < p
    BY <1>1
  <2>2. CASE i < p
    BY <2>2, <1>1, <1>2, <1>4
  <2>3. CASE ~ (i < p)
    <3>1. i + 1 # p
      BY <2>3, <1>1
    <3>2. QED BY <3>1, <2>3, <1>2, <1>4
  <2>4. QED BY <2>2, <2>3
<1>8. \A n : (\E i \in 1 .. M : n = t[i]) <=> n # s[p] /\ (\E i \in 1 .. N : n = s[i])
  <2> HIDE DEF M
  <2>1. QED BY <1>6, <1>7
<1>9. Distinct(t, M)
  <2> HIDE DEF M
  <2>1. QED BY <1>1, <1>3, <1>5 DEF Distinct
<1>10. QED BY <1>8, <1>9

\* The pointers, after the node at p has been unlinked.
LEMMA ShorterLinks ==
  ASSUME NEW N, NEW s, Distinct(s, N), NEW p \in 1 .. N, p < N,
         NEW f, NEW g, NEW f1, NEW g1,
         \A i \in 1 .. N : f[s[i]] = IF i < N THEN s[i + 1] ELSE Null,
         \A i \in 1 .. N : g[s[i]] = IF i > 1 THEN s[i - 1] ELSE Null,
         \A i \in 1 .. N : i # p /\ i # p - 1 => f1[s[i]] = f[s[i]],
         \A i \in 1 .. N : i # p /\ i # p + 1 => g1[s[i]] = g[s[i]],
         p > 1 => f1[s[p - 1]] = f[s[p]],
         g1[s[p + 1]] = g[s[p]],
         NEW t, t = Without(s, N, p)
  PROVE  \A i \in 1 .. N - 1 : /\ f1[t[i]] = IF i < N - 1 THEN t[i + 1] ELSE Null
                               /\ g1[t[i]] = IF i > 1 THEN t[i - 1] ELSE Null
<1> DEFINE M == N - 1
<1>1. N \in Nat /\ M \in Nat \ {0} /\ p \in Nat /\ 1 <= p /\ p <= M /\ M < N /\ M + 1 = N
  BY DEF Distinct
<1>2. ASSUME NEW i \in 1 .. M
      PROVE  /\ i < p => t[i] = s[i]
             /\ ~ (i < p) => t[i] = s[i + 1]
             /\ i \in 1 .. N /\ i + 1 \in 1 .. N
  BY <1>1 DEF Without
<1> HIDE DEF M
<1> SUFFICES ASSUME NEW i \in 1 .. M
             PROVE  /\ f1[t[i]] = IF i < M THEN t[i + 1] ELSE Null
                    /\ g1[t[i]] = IF i > 1 THEN t[i - 1] ELSE Null
  BY DEF M
<1>3. /\ i < M => i + 1 \in 1 .. M
      /\ i > 1 => i - 1 \in 1 .. M
  BY <1>1
<1>4. f1[t[i]] = IF i < M THEN t[i + 1] ELSE Null
  <2>1. CASE i < p - 1
    <3>1. i < p /\ i + 1 < p /\ i < M /\ i # p /\ i # p - 1 /\ i < N
      BY <1>1, <2>1
    <3>2. t[i] = s[i] /\ t[i + 1] = s[i + 1] /\ i \in 1 .. N
      BY <3>1, <1>2, <1>3
    <3>3. QED BY <3>1, <3>2
  <2>2. CASE i = p - 1
    <3>1. i < p /\ ~ (i + 1 < p) /\ i < M /\ p > 1 /\ i + 1 = p /\ p < N
      BY <1>1, <2>2
    <3>2. t[i] = s[p - 1] /\ t[i + 1] = s[p + 1]
      BY <3>1, <2>2, <1>2, <1>3
    <3>3. QED BY <3>1, <3>2
  <2>3. CASE i > p - 1
    <3>1. ~ (i < p) /\ ~ (i + 1 < p) /\ i + 1 # p /\ i + 1 # p - 1 /\ (i + 1 < N <=> i < M)
      BY <1>1, <2>3
    <3>2. t[i] = s[i + 1] /\ i + 1 \in 1 .. N
      BY <3>1, <1>2
    <3>3. i < M => t[i + 1] = s[(i + 1) + 1]
      BY <3>1, <1>2, <1>3
    <3>4. QED BY <3>1, <3>2, <3>3
  <2>4. QED BY <1>1, <2>1, <2>2, <2>3
<1>5. g1[t[i]] = IF i > 1 THEN t[i - 1] ELSE Null
  <2>1. CASE i < p
    <3>1. i # p /\ i # p + 1
      BY <1>1, <2>1
    <3>2. t[i] = s[i] /\ i \in 1 .. N
      BY <2>1, <1>2
    <3>3. i > 1 => t[i - 1] = s[i - 1]
      <4>1. i - 1 < p
        BY <1>1, <2>1
      <4>2. QED BY <4>1, <1>2, <1>3
    <3>4. QED BY <3>1, <3>2, <3>3
  <2>2. CASE i = p
    <3>1. ~ (i < p) /\ i - 1 < p
      BY <1>1, <2>2
    <3>2. t[i] = s[p + 1] /\ (i > 1 => t[i - 1] = s[p - 1])
      BY <2>2, <3>1, <1>2, <1>3
    <3>3. QED BY <2>2, <3>2
  <2>3. CASE i > p
    <3>1. ~ (i < p) /\ i > 1 /\ i + 1 > 1 /\ ~ (i - 1 < p) /\ (i - 1) + 1 = i /\ (i + 1) - 1 = i
          /\ i + 1 # p /\ i + 1 # p + 1
      BY <1>1, <2>3
    <3>2. t[i] = s[i + 1] /\ i + 1 \in 1 .. N /\ t[i - 1] = s[i]
      BY <3>1, <1>2, <1>3
    <3>3. QED BY <3>1, <3>2
  <2>4. QED BY <1>1, <2>1, <2>2, <2>3
<1>6. QED BY <1>4, <1>5

\* The node at p unlinked.
LEMMA RemoveKeeps ==
  ASSUME NodeInv, NEW s, NEW N, N = m_count, InOrder(s), NEW p \in 1 .. N, p < N,
         Unlink(s[p]), m_list' = m_list, state' \in {"ok", "crashed", "dangling"}
  PROVE  /\ InOrder(Without(s, N, p))'
         /\ NodeRanges' /\ Unused' /\ Filled'
         /\ alive' = alive \ {s[p]}
<1> DEFINE t == Without(s, N, p)
<1>1. N \in Nat \ {0} /\ p \in Nat /\ 1 <= p /\ Null \notin Nodes /\ Null \notin Elems
      /\ p + 1 \in 1 .. N /\ p + 1 > 1 /\ (p + 1) - 1 = p
  <2>1. N \in Nat \ {0}
    BY DEF InOrder
  <2>2. p \in Nat /\ 1 <= p /\ p + 1 \in 1 .. N /\ p + 1 > 1 /\ (p + 1) - 1 = p
    BY <2>1
  <2>3. QED BY <2>1, <2>2, ListAssumption
<1>2. /\ Distinct(s, N) /\ alive = {s[i] : i \in 1 .. N}
      /\ \A i \in 1 .. N : next[s[i]] = IF i < N THEN s[i + 1] ELSE Null
      /\ \A i \in 1 .. N : prev[s[i]] = IF i > 1 THEN s[i - 1] ELSE Null
  BY DEF InOrder, Distinct
<1>3. \A i \in 1 .. N : s[i] \in Nodes /\ s[i] # Null
  BY <1>1, <1>2 DEF Distinct
<1>4. /\ prev \in [Nodes -> Pointer] /\ next \in [Nodes -> Pointer]
      /\ addr \in [Nodes -> Elems \cup {Null}] /\ alive \subseteq Nodes
  BY DEF NodeInv, NodeRanges
<1>5. \A i, k \in 1 .. N : s[i] = s[k] <=> i = k
  BY <1>2 DEF Distinct
<1>6. /\ next[s[p]] = s[p + 1]
      /\ p > 1 => prev[s[p]] = s[p - 1] /\ p - 1 \in 1 .. N
      /\ ~ (p > 1) => prev[s[p]] = Null
  BY <1>1, <1>2
<1>7. /\ alive' = alive \ {s[p]} /\ addr' = [addr EXCEPT ![s[p]] = Null]
      /\ m_count' = N - 1
      /\ next' = [n \in Nodes |-> IF n = s[p] THEN Null ELSE IF n = prev[s[p]] THEN next[s[p]] ELSE next[n]]
      /\ prev' = [n \in Nodes |-> IF n = s[p] THEN Null ELSE IF n = next[s[p]] THEN prev[s[p]] ELSE prev[n]]
  BY DEF Unlink
<1>8. prev' \in [Nodes -> Pointer] /\ next' \in [Nodes -> Pointer]
  BY <1>3, <1>4, <1>7 DEF Pointer
<1>9. \A i \in 1 .. N : i # p /\ i # p - 1 => next'[s[i]] = next[s[i]]
  BY <1>1, <1>3, <1>5, <1>6, <1>7
<1>10. \A i \in 1 .. N : i # p /\ i # p + 1 => prev'[s[i]] = prev[s[i]]
  BY <1>1, <1>3, <1>5, <1>6, <1>7
<1>11. p > 1 => next'[s[p - 1]] = next[s[p]]
  <2>1. p > 1 => p - 1 # p
    BY <1>1
  <2>2. QED BY <2>1, <1>3, <1>5, <1>6, <1>7
<1>12. prev'[s[p + 1]] = prev[s[p]]
  <2>1. p + 1 # p
    BY <1>1
  <2>2. QED BY <2>1, <1>1, <1>3, <1>5, <1>6, <1>7
<1>13. t = Without(s, N, p)
  OBVIOUS
<1> HIDE DEF t
<1>14. /\ Distinct(t, N - 1)
       /\ \A n : (\E i \in 1 .. N - 1 : n = t[i]) <=> n # s[p] /\ (\E i \in 1 .. N : n = s[i])
  <2>1. Distinct(s, N)
    BY <1>2
  <2>2. p \in 1 .. N /\ p < N
    OBVIOUS
  <2>3. QED BY <2>1, <2>2, <1>13, Shorter
<1>15. \A i \in 1 .. N - 1 : /\ next'[t[i]] = IF i < N - 1 THEN t[i + 1] ELSE Null
                             /\ prev'[t[i]] = IF i > 1 THEN t[i - 1] ELSE Null
  BY <1>2, <1>9, <1>10, <1>11, <1>12, <1>13, ShorterLinks
<1>16. ASSUME NEW u, u = t PROVE InOrder(u)'
  <2>1. alive' = {u[i] : i \in 1 .. N - 1}
    BY <1>2, <1>7, <1>14, <1>16
  <2>2. Distinct(u, N - 1)
    BY <1>14, <1>16
  <2>3. m_count' = N - 1
    BY <1>7
  <2>4. /\ \A i \in 1 .. N - 1 : next'[u[i]] = IF i < N - 1 THEN u[i + 1] ELSE Null
        /\ \A i \in 1 .. N - 1 : prev'[u[i]] = IF i > 1 THEN u[i - 1] ELSE Null
    BY <1>15, <1>16
  <2>5. QED BY <2>1, <2>2, <2>3, <2>4 DEF InOrder, Distinct
<1>17. NodeRanges'
  BY <1>3, <1>4, <1>7, <1>8 DEF NodeInv, NodeRanges
<1>18. Unused'
  <2> SUFFICES ASSUME NEW n \in Nodes, n \notin alive'
               PROVE  prev'[n] = Null /\ next'[n] = Null
    BY DEF Unused
  <2>1. CASE n = s[p]
    BY <2>1, <1>7
  <2>2. CASE n # s[p]
    <3>1. n \notin alive /\ prev[n] = Null /\ next[n] = Null
      BY <2>2, <1>7 DEF NodeInv, Unused
    <3>2. n # next[s[p]] /\ n # prev[s[p]]
      BY <3>1, <1>1, <1>2, <1>6
    <3>3. QED BY <3>1, <3>2, <2>2, <1>7
  <2>3. QED BY <2>1, <2>2
<1>19. Filled'
  BY <1>4, <1>7 DEF NodeInv, Filled
<1>20. QED BY <1>7, <1>16, <1>17, <1>18, <1>19 DEF t

-----------------------------------------------------------------------------
(* The list: the search *)

LEMMA MinIs ==
  ASSUME NEW T \in SUBSET Nat, T # {}
  PROVE  Min(T) \in T /\ \A y \in T : Min(T) <= y
<1>1. PICK x \in T : \A y \in T : x <= y
  BY HasLeast
<1>2. QED BY <1>1 DEF Min

\* Backwards from m_list: the nearest node with the element.
LEMMA SearchBack ==
  ASSUME NodeInv, NEW s, InOrder(s), NEW j \in 1 .. m_count, m_list = s[j], NEW e
  PROVE  \/ Search(prev, e) = Null /\ \A i \in 1 .. j : addr[s[i]] # e
         \/ \E p \in 1 .. j : /\ Search(prev, e) = s[p] /\ addr[s[p]] = e
                              /\ \A i \in 1 .. j : addr[s[i]] = e => i <= p
<1> DEFINE hits == {k \in 0 .. m_count : LET n == Along(prev, m_list, k)
                                        IN n # Null /\ addr[n] = e}
<1>1. m_count \in Nat /\ j \in Nat /\ 1 <= j /\ j <= m_count
  BY DEF InOrder
<1>2. \A i \in 1 .. j : s[i] # Null
  BY <1>1, ListAssumption DEF InOrder
<1>3. ASSUME NEW k \in 0 .. m_count
      PROVE  /\ k < j => Along(prev, m_list, k) = s[j - k] /\ j - k \in 1 .. j
             /\ k \in hits <=> k < j /\ addr[s[j - k]] = e
  <2>1. k \in Nat /\ (k < j => j - k \in 1 .. j)
    BY <1>1
  <2>2. Along(prev, m_list, k) = IF k < j THEN s[j - k] ELSE Null
    BY <2>1, Backwards
  <2>3. QED BY <1>2, <2>1, <2>2
<1>4. ASSUME NEW i \in 1 .. j
      PROVE  j - i \in 0 .. m_count /\ j - i < j /\ j - (j - i) = i
  BY <1>1
<1>5. Search(prev, e) = IF hits = {} THEN Null ELSE Along(prev, m_list, Min(hits))
  BY DEF Search
<1>6. hits \subseteq Nat /\ hits \subseteq 0 .. m_count
  BY <1>1
<1> HIDE DEF hits
<1>7. CASE hits = {}
  <2>1. \A i \in 1 .. j : addr[s[i]] # e
    BY <1>3, <1>4, <1>7
  <2>2. QED BY <1>5, <1>7, <2>1
<1>8. CASE hits # {}
  <2> DEFINE k == Min(hits)
  <2>1. k \in hits /\ \A y \in hits : k <= y
    BY <1>6, <1>8, MinIs
  <2> HIDE DEF k
  <2>2. k \in 0 .. m_count
    BY <1>6, <2>1
  <2>3. k < j /\ addr[s[j - k]] = e /\ Along(prev, m_list, k) = s[j - k] /\ j - k \in 1 .. j
    BY <1>3, <2>1, <2>2
  <2>4. ASSUME NEW i \in 1 .. j, addr[s[i]] = e PROVE i <= j - k
    <3>1. j - i \in hits
      BY <1>3, <1>4, <2>4
    <3>2. k <= j - i
      BY <2>1, <3>1
    <3>3. QED BY <3>2, <2>2, <1>1
  <2>5. Search(prev, e) = s[j - k]
    BY <1>5, <1>8, <2>3 DEF k
  <2>6. QED BY <2>3, <2>4, <2>5
<1>9. QED BY <1>7, <1>8

\* Forwards from m_list: the nearest node with the element.
LEMMA SearchForth ==
  ASSUME NodeInv, NEW s, InOrder(s), NEW j \in 1 .. m_count, m_list = s[j], NEW e
  PROVE  \/ Search(next, e) = Null /\ \A i \in j .. m_count : addr[s[i]] # e
         \/ \E p \in j .. m_count : /\ Search(next, e) = s[p] /\ addr[s[p]] = e
                                    /\ \A i \in j .. m_count : addr[s[i]] = e => p <= i
<1> DEFINE hits == {k \in 0 .. m_count : LET n == Along(next, m_list, k)
                                        IN n # Null /\ addr[n] = e}
<1>1. m_count \in Nat /\ j \in Nat /\ 1 <= j /\ j <= m_count
  BY DEF InOrder
<1>2. \A i \in j .. m_count : s[i] # Null
  BY <1>1, ListAssumption DEF InOrder
<1>3. ASSUME NEW k \in 0 .. m_count
      PROVE  /\ j + k <= m_count => Along(next, m_list, k) = s[j + k] /\ j + k \in j .. m_count
             /\ k \in hits <=> j + k <= m_count /\ addr[s[j + k]] = e
  <2>1. k \in Nat /\ (j + k <= m_count => j + k \in j .. m_count)
    BY <1>1
  <2>2. Along(next, m_list, k) = IF j + k <= m_count THEN s[j + k] ELSE Null
    BY <2>1, Forwards
  <2>3. QED BY <1>2, <2>1, <2>2
<1>4. ASSUME NEW i \in j .. m_count
      PROVE  i - j \in 0 .. m_count /\ j + (i - j) <= m_count /\ j + (i - j) = i
  BY <1>1
<1>5. Search(next, e) = IF hits = {} THEN Null ELSE Along(next, m_list, Min(hits))
  BY DEF Search
<1>6. hits \subseteq Nat /\ hits \subseteq 0 .. m_count
  BY <1>1
<1> HIDE DEF hits
<1>7. CASE hits = {}
  <2>1. \A i \in j .. m_count : addr[s[i]] # e
    BY <1>3, <1>4, <1>7
  <2>2. QED BY <1>5, <1>7, <2>1
<1>8. CASE hits # {}
  <2> DEFINE k == Min(hits)
  <2>1. k \in hits /\ \A y \in hits : k <= y
    BY <1>6, <1>8, MinIs
  <2> HIDE DEF k
  <2>2. k \in 0 .. m_count
    BY <1>6, <2>1
  <2>3. /\ j + k <= m_count /\ addr[s[j + k]] = e
        /\ Along(next, m_list, k) = s[j + k] /\ j + k \in j .. m_count
    BY <1>3, <2>1, <2>2
  <2>4. ASSUME NEW i \in j .. m_count, addr[s[i]] = e PROVE j + k <= i
    <3>1. i - j \in hits
      BY <1>3, <1>4, <2>4
    <3>2. k <= i - j
      BY <2>1, <3>1
    <3>3. QED BY <3>2, <2>2, <1>1
  <2>5. Search(next, e) = s[j + k]
    BY <1>5, <1>8, <2>3 DEF k
  <2>6. QED BY <2>3, <2>4, <2>5
<1>9. QED BY <1>7, <1>8

\* Where find looks, as a position.
Found(s, j, e, p) ==
  /\ find(e) = s[p] /\ addr[s[p]] = e
  /\ p <= j => \A i \in 1 .. j : addr[s[i]] = e => i <= p
  /\ p > j => /\ \A i \in 1 .. j : addr[s[i]] # e
              /\ \A i \in 1 .. m_count : addr[s[i]] = e => p <= i

LEMMA FindIs ==
  ASSUME NodeInv, NEW s, InOrder(s), NEW j \in 1 .. m_count, m_list = s[j], NEW e
  PROVE  \/ find(e) = Null /\ \A i \in 1 .. m_count : addr[s[i]] # e
         \/ \E p \in 1 .. m_count : Found(s, j, e, p)
<1>1. m_count \in Nat /\ j \in Nat /\ 1 <= j /\ j <= m_count
  BY DEF InOrder
<1>2. \A i \in 1 .. m_count : i \in 1 .. j \/ (i \in j .. m_count /\ i > j)
  BY <1>1
<1>3. \A i \in 1 .. m_count : s[i] # Null
  BY <1>1, ListAssumption DEF InOrder
<1>4. CASE Search(prev, e) = Null /\ \A i \in 1 .. j : addr[s[i]] # e
  <2>1. find(e) = Search(next, e)
    BY <1>4 DEF find
  <2>2. CASE Search(next, e) = Null /\ \A i \in j .. m_count : addr[s[i]] # e
    BY <2>1, <2>2, <1>2, <1>4
  <2>3. CASE \E p \in j .. m_count : /\ Search(next, e) = s[p] /\ addr[s[p]] = e
                                     /\ \A i \in j .. m_count : addr[s[i]] = e => p <= i
    <3>1. PICK p \in j .. m_count : /\ Search(next, e) = s[p] /\ addr[s[p]] = e
                                    /\ \A i \in j .. m_count : addr[s[i]] = e => p <= i
      BY <2>3
    <3>2. p \in 1 .. m_count /\ p \in Nat
      BY <1>1
    <3>3. p \notin 1 .. j
      BY <3>1, <1>4
    <3>4. p > j
      BY <1>1, <3>2, <3>3
    <3>5. \A i \in 1 .. m_count : addr[s[i]] = e => p <= i
      BY <3>1, <1>2, <1>4
    <3>6. ~ (p <= j)
      BY <1>1, <3>2, <3>4
    <3>7. Found(s, j, e, p)
      BY <2>1, <3>1, <3>4, <3>5, <3>6, <1>4 DEF Found
    <3>8. QED BY <3>2, <3>7
  <2>4. QED BY <2>2, <2>3, SearchForth
<1>5. CASE \E p \in 1 .. j : /\ Search(prev, e) = s[p] /\ addr[s[p]] = e
                             /\ \A i \in 1 .. j : addr[s[i]] = e => i <= p
  <2>1. PICK p \in 1 .. j : /\ Search(prev, e) = s[p] /\ addr[s[p]] = e
                            /\ \A i \in 1 .. j : addr[s[i]] = e => i <= p
    BY <1>5
  <2>2. p \in 1 .. m_count /\ p <= j /\ ~ (p > j)
    BY <1>1
  <2>3. find(e) = s[p]
    BY <2>1, <2>2, <1>3 DEF find
  <2>4. Found(s, j, e, p)
    BY <2>1, <2>2, <2>3 DEF Found
  <2>5. QED BY <2>2, <2>4
<1>6. QED BY <1>4, <1>5, SearchBack

-----------------------------------------------------------------------------
(* The list: the steps *)

\* The node that a call of New returns.
LEMMA NewNode ==
  ASSUME NodeInv, HasRoom
  PROVE  New \in Nodes \ alive
<1>1. Nodes \ alive \in SUBSET Nat /\ Nodes \ alive # {}
  BY ListAssumption DEF NodeInv, NodeRanges, HasRoom
<1>2. QED BY <1>1, MinIs DEF New

\* The list that the constructor makes.
LEMMA InitNodes == NodesInit => NodeInv
<1> SUFFICES ASSUME NodesInit PROVE NodeInv
  OBVIOUS
<1> DEFINE a == Min(Nodes)
           s == [i \in 1 .. 1 |-> a]
<1>1. a \in Nodes
  <2>1. Nodes \in SUBSET Nat /\ Nodes # {}
    BY ListAssumption
  <2>2. QED BY <2>1, MinIs
<1>2. PICK e \in Elems : addr = [n \in Nodes |-> IF n = a THEN e ELSE Null]
  BY DEF NodesInit
<1>3. alive = {a} /\ m_list = a /\ m_count = 1 /\ state = "ok"
      /\ prev = [n \in Nodes |-> Null] /\ next = [n \in Nodes |-> Null]
  BY DEF NodesInit
<1> HIDE DEF a
<1>4. NodeRanges /\ Unused /\ Filled
  BY <1>1, <1>2, <1>3 DEF NodeRanges, Unused, Filled, Pointer
<1>5. \A i \in 1 .. 1 : i = 1
  OBVIOUS
<1>6. s \in [1 .. m_count -> Nodes]
  BY <1>1, <1>3
<1>7. alive = {s[i] : i \in 1 .. m_count}
  BY <1>3, <1>5
<1>8. InOrder(s)
  <2>1. \A i \in 1 .. m_count : i = 1 /\ s[i] = a /\ next[s[i]] = Null /\ prev[s[i]] = Null
    BY <1>1, <1>3, <1>5
  <2>2. \A i \in 1 .. m_count : ~ (i < m_count) /\ ~ (i > 1)
    BY <1>3, <1>5
  <2>3. m_count \in Nat \ {0}
    BY <1>3
  <2> HIDE DEF s
  <2>4. QED BY <2>1, <2>2, <2>3, <1>6, <1>7 DEF InOrder
<1>9. QED BY <1>3, <1>4, <1>6, <1>8 DEF NodeInv

\* A call of insert or of Add puts a node after the j-th, or before the first.
Adds(s, j, e) == HasRoom /\ add(New, e, s[j])

LEMMA InsertAdds ==
  ASSUME NodeInv, NEW s, InOrder(s), NEW k \in 1 .. m_count, m_list = s[k],
         NEW index, NEW e, insert(index, e)
  PROVE  index \in 1 .. m_count /\ Adds(s, index, e)
<1>1. index \in 1 .. m_count /\ HasRoom /\ add(New, e, Along(next, first, index - 1))
  BY DEF insert
<1>2. m_count \in Nat /\ 1 \in 1 .. m_count /\ index - 1 \in Nat /\ 1 + (index - 1) = index
      /\ 1 + (index - 1) <= m_count
  BY <1>1 DEF InOrder
<1>3. first = s[1]
  BY FirstIs
<1>4. Along(next, s[1], index - 1) = s[index]
  BY <1>2, Forwards
<1>5. QED BY <1>1, <1>3, <1>4 DEF Adds

LEMMA StepAdds ==
  ASSUME NodeInv, NEW s, InOrder(s), NEW j \in 1 .. m_count, NEW e \in Elems, Adds(s, j, e)
  PROVE  NodeInv'
<1>1. PICK N : N = m_count
  OBVIOUS
<1> DEFINE p == IF j = 1 /\ N > 1 THEN 1 ELSE j + 1
           t == With(s, N, p, New)
<1>2. PICK node : node = New
  OBVIOUS
<1>3. node \in Nodes \ alive /\ add(node, e, s[j])
  BY <1>2, NewNode DEF Adds
<1>4. PICK q : q = p
  OBVIOUS
<1>5. PICK u : u = With(s, N, q, node)
  OBVIOUS
<1>6. /\ InOrder(u)' /\ NodeRanges' /\ Unused' /\ Filled' /\ m_list' = m_list /\ state' = state
      /\ alive' = alive \cup {node}
  BY <1>1, <1>3, <1>4, <1>5, AddKeeps
<1>7. u \in [1 .. m_count' -> Nodes]
  BY <1>6 DEF InOrder
<1>8. state' # "dangling" => m_list' \in alive'
  BY <1>6 DEF NodeInv
<1>9. QED BY <1>6, <1>7, <1>8 DEF NodeInv

\* A step that leaves the nodes alone.
LEMMA Unmoved ==
  ASSUME NodeInv, UNCHANGED <<alive, addr, prev, next, m_list, m_count>>,
         \/ state' = state
         \/ state = "ok" /\ state' = "crashed"
  PROVE  NodeInv'
<1>1. PICK s \in [1 .. m_count -> Nodes] : InOrder(s)
  BY DEF NodeInv
<1>2. InOrder(s)' /\ s \in [1 .. m_count' -> Nodes]
  BY <1>1 DEF InOrder
<1>3. NodeRanges' /\ Unused' /\ Filled'
  BY DEF NodeInv, NodeRanges, Unused, Filled
<1>4. state' # "dangling" => m_list' \in alive'
  BY DEF NodeInv
<1>5. QED BY <1>2, <1>3, <1>4 DEF NodeInv

LEMMA StepRemoves ==
  ASSUME NodeInv, NEW s, InOrder(s), NEW j \in 1 .. m_count, m_list = s[j], state = "ok",
         NEW e, remove(e)
  PROVE  NodeInv'
<1>1. CASE find(e) = Null
  <2>1. UNCHANGED nodeVars
    BY <1>1 DEF remove
  <2>2. QED BY <2>1, Unmoved DEF nodeVars
<1>2. CASE \E p \in 1 .. m_count : Found(s, j, e, p)
  <2>1. PICK p \in 1 .. m_count : Found(s, j, e, p)
    BY <1>2
  <2>2. PICK N : N = m_count
    OBVIOUS
  <2>3. find(e) = s[p] /\ s[p] # Null /\ N \in Nat /\ s[p] \in Nodes
    BY <2>1, <2>2, ListAssumption DEF Found, InOrder
  <2>4. CASE next[s[p]] = Null
    <3>1. state' = "crashed" /\ UNCHANGED <<alive, addr, prev, next, m_list, m_count>>
      BY <2>3, <2>4 DEF remove
    <3>2. QED BY <3>1, Unmoved
  <2>5. CASE next[s[p]] # Null
    <3>1. p < N
      BY <2>1, <2>2, <2>3, <2>5 DEF InOrder
    <3>2. Unlink(s[p]) /\ m_list' = m_list
          /\ state' = IF s[p] = m_list THEN "dangling" ELSE state
      BY <2>3, <2>5 DEF remove
    <3>3. state' \in {"ok", "crashed", "dangling"}
      BY <3>2
    <3>4. PICK u : u = Without(s, N, p)
      OBVIOUS
    <3>5. InOrder(u)' /\ NodeRanges' /\ Unused' /\ Filled' /\ alive' = alive \ {s[p]}
      BY <2>2, <3>1, <3>2, <3>3, <3>4, RemoveKeeps
    <3>6. u \in [1 .. m_count' -> Nodes]
      BY <3>5 DEF InOrder
    <3>7. state' # "dangling" => m_list' \in alive'
      BY <3>2, <3>5 DEF NodeInv
    <3>8. QED BY <3>5, <3>6, <3>7 DEF NodeInv
  <2>6. QED BY <2>4, <2>5
<1>3. QED BY <1>1, <1>2, FindIs

LEMMA StepNodes == NodeInv /\ [NodesNext]_nodeVars => NodeInv'
<1> SUFFICES ASSUME NodeInv, [NodesNext]_nodeVars PROVE NodeInv'
  OBVIOUS
<1>1. CASE UNCHANGED nodeVars
  BY <1>1, Unmoved DEF nodeVars
<1>2. CASE NodesNext
  <2>1. state = "ok"
    BY <1>2 DEF NodesNext
  <2>2. PICK s \in [1 .. m_count -> Nodes] : InOrder(s)
    BY DEF NodeInv
  <2>3. PICK j \in 1 .. m_count : m_list = s[j]
    BY <2>1, <2>2 DEF NodeInv, InOrder
  <2>4. PICK e \in Elems : (\E index \in 1 .. MaxSize : insert(index, e)) \/ Add(e) \/ remove(e)
    BY <1>2 DEF NodesNext
  <2>5. CASE \E index \in 1 .. MaxSize : insert(index, e)
    <3>1. PICK index : insert(index, e)
      BY <2>5
    <3>2. index \in 1 .. m_count /\ Adds(s, index, e)
      BY <2>2, <2>3, <3>1, InsertAdds
    <3>3. QED BY <2>2, <3>2, StepAdds
  <2>6. CASE Add(e)
    <3>1. Adds(s, j, e)
      BY <2>3, <2>6 DEF Add, Adds
    <3>2. QED BY <2>2, <3>1, StepAdds
  <2>7. CASE remove(e)
    BY <2>1, <2>2, <2>3, <2>7, StepRemoves
  <2>8. QED BY <2>4, <2>5, <2>6, <2>7
<1>3. QED BY <1>1, <1>2

\* After every call of insert, add and remove the nodes are in order.
THEOREM NodesInvariance == NodesSpec => []NodeInv
<1>1. QED BY InitNodes, StepNodes, PTL DEF NodesSpec

\* Whatever calls of insert, add and remove there have been, the two pointers of every
\* node agree, no node is leaked or freed while another points to it, and m_count is how
\* many there are.
THEOREM LinksStayWellFormed == NodesSpec => []WellFormed
<1>1. NodeInv => WellFormed
  BY InOrderIsWellFormed
<1>2. QED BY <1>1, NodesInvariance, PTL

-----------------------------------------------------------------------------
(* The list: what it is as a sequence *)

\* What can be said of the list while m_list is a node of it: the elements are those of
\* the nodes in their order, and the pointer is where m_list is.
Seen(s, j) ==
  /\ NodeInv /\ InOrder(s) /\ j \in 1 .. m_count /\ m_list = s[j] /\ state # "dangling"

ElemsOf(s, N) == [i \in 1 .. N |-> addr[s[i]]]

LEMMA SeqOf ==
  ASSUME NEW N \in Nat, NEW c, c = [i \in 1 .. N |-> c[i]]
  PROVE  c \in Seq({c[i] : i \in 1 .. N}) /\ Len(c) = N /\ DOMAIN c = 1 .. N
<1> DEFINE S == {c[i] : i \in 1 .. N}
<1>1. \A i \in 1 .. N : c[i] \in S
  OBVIOUS
<1> HIDE DEF S
<1>2. c \in [1 .. N -> S]
  BY <1>1
<1>3. c \in Seq(S)
  BY <1>2
<1>4. DOMAIN c = 1 .. N
  BY <1>2
<1>5. Len(c) = N
  BY <1>3, <1>4, LenProperties
<1>6. QED BY <1>3, <1>4, <1>5 DEF S

LEMMA View ==
  ASSUME NEW s, NEW j, Seen(s, j)
  PROVE  /\ Contents = ElemsOf(s, m_count)
         /\ StepsBack + 1 = j
         /\ first = s[1]
<1>1. /\ NodeInv /\ InOrder(s) /\ j \in 1 .. m_count /\ m_list = s[j] /\ state # "dangling"
      /\ m_count \in Nat /\ j \in Nat /\ 1 <= j /\ j <= m_count
  BY DEF Seen, InOrder
<1>2. first = s[1]
  BY <1>1, FirstIs
<1>3. ASSUME NEW i \in 1 .. m_count PROVE Along(next, first, i - 1) = s[i]
  <2>1. 1 \in 1 .. m_count /\ i - 1 \in Nat /\ 1 + (i - 1) = i /\ 1 + (i - 1) <= m_count
    BY <1>1
  <2>2. QED BY <2>1, <1>1, <1>2, Forwards
<1>4. Contents = ElemsOf(s, m_count)
  BY <1>1, <1>3 DEF Contents, ElemsOf
<1> DEFINE T == {k \in 0 .. MaxSize : Along(prev, m_list, k) = first}
<1>5. MaxSize \in Nat /\ m_count <= MaxSize
  BY <1>1, Counted, ListAssumption, FS_CardinalityType DEF MaxSize
<1>6. ASSUME NEW k \in 0 .. MaxSize PROVE k \in T <=> k = j - 1
  <2>1. k \in Nat
    BY <1>5
  <2>2. Along(prev, m_list, k) = IF k < j THEN s[j - k] ELSE Null
    BY <1>1, <2>1, Backwards
  <2>3. s[1] # Null /\ 1 \in 1 .. m_count
    BY <1>1, ListAssumption DEF InOrder
  <2>4. CASE k < j
    <3>1. j - k \in 1 .. m_count /\ (j - k = 1 <=> k = j - 1)
      BY <1>1, <2>1, <2>4
    <3>2. s[j - k] = s[1] <=> j - k = 1
      BY <1>1, <2>3, <3>1 DEF InOrder
    <3>3. QED BY <1>2, <2>2, <2>4, <3>1, <3>2
  <2>5. CASE ~ (k < j)
    <3>1. k # j - 1
      BY <1>1, <2>1, <2>5
    <3>2. QED BY <3>1, <1>2, <2>2, <2>3, <2>5
  <2>6. QED BY <2>4, <2>5
<1>7. j - 1 \in 0 .. MaxSize /\ j - 1 \in Int /\ (j - 1) + 1 = j
  BY <1>1, <1>5
<1>8. T = {j - 1}
  BY <1>6, <1>7
<1>9. StepsBack = Min(T)
  BY DEF StepsBack
<1> HIDE DEF T
<1>10. StepsBack + 1 = j
  BY <1>7, <1>8, <1>9, OnlyOne
<1>11. QED BY <1>2, <1>4, <1>10

\* get counts from m_list, up to the last node.
LEMMA GetIs ==
  ASSUME NEW s, NEW j, Seen(s, j), NEW num \in Nat
  PROVE  get(num) = IF num < m_count
                    THEN addr[s[IF j + num <= m_count THEN j + num ELSE m_count]] ELSE Null
<1>1. /\ NodeInv /\ InOrder(s) /\ j \in 1 .. m_count /\ m_list = s[j]
      /\ m_count \in Nat /\ j \in Nat /\ 1 <= j /\ j <= m_count
  <2>1. NodeInv /\ InOrder(s) /\ j \in 1 .. m_count /\ m_list = s[j]
    BY DEF Seen
  <2>2. m_count \in Nat
    BY <2>1 DEF InOrder
  <2>3. QED BY <2>1, <2>2
<1>2. \A i \in 1 .. m_count : s[i] # Null
  BY <1>1, ListAssumption DEF InOrder
<1> DEFINE ends == {k \in 0 .. num : LET n == Along(next, m_list, k) IN n # Null /\ next[n] = Null}
<1>3. ASSUME NEW k \in 0 .. num PROVE k \in ends <=> j + k = m_count
  <2>1. k \in Nat /\ (j + k <= m_count => j + k \in 1 .. m_count)
    BY <1>1
  <2>2. Along(next, m_list, k) = IF j + k <= m_count THEN s[j + k] ELSE Null
    BY <1>1, <2>1, Forwards
  <2>3. CASE j + k <= m_count
    <3>1. s[j + k] # Null /\ next[s[j + k]] = IF j + k < m_count THEN s[(j + k) + 1] ELSE Null
      BY <1>1, <1>2, <2>1, <2>3 DEF InOrder
    <3>2. j + k < m_count => s[(j + k) + 1] # Null
      BY <1>1, <1>2, <2>1
    <3>3. j + k < m_count \/ j + k = m_count
      BY <1>1, <2>1, <2>3
    <3>4. j + k = m_count => ~ (j + k < m_count)
      BY <1>1, <2>1
    <3>5. QED BY <2>2, <2>3, <3>1, <3>2, <3>3, <3>4
  <2>4. CASE ~ (j + k <= m_count)
    <3>1. j + k # m_count
      BY <1>1, <2>4
    <3>2. QED BY <2>2, <2>4, <3>1
  <2>5. QED BY <2>3, <2>4
<1>4. get(num) = IF num < m_count THEN addr[Along(next, m_list, Min(ends \cup {num}))] ELSE Null
  BY DEF get
<1>5. ends \subseteq 0 .. num
  OBVIOUS
<1> HIDE DEF ends
<1>6. CASE j + num <= m_count
  <2>1. ends \cup {num} = {num}
    <3>1. ASSUME NEW k \in ends PROVE k = num
      <4>1. k \in 0 .. num /\ j + k = m_count
        BY <1>3, <1>5, <3>1
      <4>2. QED BY <4>1, <1>1, <1>6
    <3>2. QED BY <3>1
  <2>2. Min(ends \cup {num}) = num
    BY <2>1, OnlyOne
  <2>3. Along(next, m_list, num) = s[j + num]
    BY <1>1, <1>6, Forwards
  <2>4. QED BY <1>4, <1>6, <2>2, <2>3
<1>7. CASE ~ (j + num <= m_count)
  <2>1. m_count - j \in 0 .. num /\ j + (m_count - j) = m_count /\ m_count - j \in Nat
        /\ m_count - j < num
    BY <1>1, <1>7
  <2>2. ASSUME NEW k \in ends PROVE k = m_count - j
    <3>1. k \in 0 .. num /\ j + k = m_count
      BY <1>3, <1>5, <2>2
    <3>2. QED BY <3>1, <1>1
  <2>3. m_count - j \in ends
    BY <2>1, <1>3
  <2>4. ends = {m_count - j}
    BY <2>2, <2>3
  <2>5. Min(ends \cup {num}) = m_count - j
    BY <2>1, <2>4 DEF Min
  <2>6. Along(next, m_list, m_count - j) = s[m_count]
    BY <1>1, <2>1, Forwards
  <2>7. QED BY <1>4, <1>7, <2>5, <2>6
<1>8. QED BY <1>6, <1>7

LEMMA MinOf ==
  ASSUME NEW T \in SUBSET Nat, NEW p \in T, \A i \in T : p <= i
  PROVE  Min(T) = p
<1>1. Min(T) \in T /\ \A y \in T : Min(T) <= y
  BY MinIs
<1>2. p <= Min(T) /\ Min(T) <= p /\ p \in Nat /\ Min(T) \in Nat
  BY <1>1
<1>3. QED BY <1>2

LEMMA MaxOf ==
  ASSUME NEW T \in SUBSET Nat, NEW p \in T, \A i \in T : i <= p
  PROVE  Max(T) = p
<1>1. \E x \in T : \A y \in T : x >= y
  <2>1. \A y \in T : p >= y
    OBVIOUS
  <2>2. QED BY <2>1
<1>2. Max(T) \in T /\ \A y \in T : Max(T) >= y
  BY <1>1 DEF Max
<1>3. p <= Max(T) /\ Max(T) <= p /\ p \in Nat /\ Max(T) \in Nat
  BY <1>2
<1>4. QED BY <1>3

LEMMA SameMin == \A T : Abstract!Min(T) = Min(T) /\ Abstract!Max(T) = Max(T)
BY DEF Abstract!Min, Abstract!Max, Min, Max

\* The place that the sequence says is the place that find finds.
LEMMA PlaceIs ==
  ASSUME NEW s, NEW j, Seen(s, j), NEW e
  PROVE  \/ find(e) = Null /\ Abstract!PlaceOf(e) = 0 /\ \A i \in 1 .. m_count : addr[s[i]] # e
         \/ \E p \in 1 .. m_count : find(e) = s[p] /\ addr[s[p]] = e /\ Abstract!PlaceOf(e) = p
<1>1. /\ NodeInv /\ InOrder(s) /\ j \in 1 .. m_count /\ m_list = s[j] /\ state # "dangling"
      /\ m_count \in Nat /\ j \in Nat /\ 1 <= j /\ j <= m_count
  BY DEF Seen, InOrder
<1> DEFINE c == ElemsOf(s, m_count)
           hits == {i \in 1 .. m_count : addr[s[i]] = e}
           left == {i \in hits : i <= j}
<1>2. Contents = c /\ StepsBack + 1 = j /\ DOMAIN c = 1 .. m_count
      /\ \A i \in 1 .. m_count : c[i] = addr[s[i]]
  BY View DEF ElemsOf
<1>3. Abstract!PlaceOf(e) = IF left # {} THEN Max(left) ELSE IF hits = {} THEN 0 ELSE Min(hits)
  <2> DEFINE here == IF state = "dangling" THEN 0 ELSE StepsBack + 1
             hits0 == {i \in DOMAIN Contents : Contents[i] = e}
             left0 == {i \in hits0 : i <= here}
  <2>1. Abstract!PlaceOf(e) = IF left0 # {} THEN Abstract!Max(left0) ELSE Abstract!Least(hits0)
    BY DEF Abstract!PlaceOf
  <2>2. here = j
    BY <1>1, <1>2
  <2> HIDE DEF c, here
  <2>3. hits0 = hits
    BY <1>2
  <2> HIDE DEF hits0, hits
  <2>4. left0 = left
    BY <2>2, <2>3
  <2> HIDE DEF left0, left
  <2>5. QED BY <2>1, <2>3, <2>4, SameMin DEF Abstract!Least
<1>4. CASE find(e) = Null /\ \A i \in 1 .. m_count : addr[s[i]] # e
  <2>1. hits = {} /\ left = {}
    BY <1>4
  <2>2. QED BY <1>3, <1>4, <2>1
<1>5. CASE \E p \in 1 .. m_count : Found(s, j, e, p)
  <2>1. PICK p \in 1 .. m_count : Found(s, j, e, p)
    BY <1>5
  <2>2. p \in hits /\ p \in Nat
    BY <1>1, <2>1 DEF Found
  <2>3. CASE p <= j
    <3>1. p \in left /\ \A i \in left : i <= p
      BY <1>1, <2>1, <2>2, <2>3 DEF Found
    <3>2. left \subseteq Nat
      BY <1>1
    <3>3. Max(left) = p
      <4> HIDE DEF left
      <4>1. QED BY <3>1, <3>2, MaxOf
    <3>4. Abstract!PlaceOf(e) = p
      BY <1>3, <3>1, <3>3
    <3>5. QED BY <2>1, <3>4 DEF Found
  <2>4. CASE ~ (p <= j)
    <3>1. p > j
      BY <1>1, <2>2, <2>4
    <3>2. left = {}
      BY <1>1, <2>1, <3>1 DEF Found
    <3>3. \A i \in hits : p <= i
      BY <2>1, <3>1 DEF Found
    <3>4. hits \subseteq Nat
      BY <1>1
    <3>5. Min(hits) = p
      <4> HIDE DEF hits
      <4>1. QED BY <2>2, <3>3, <3>4, MinOf
    <3>6. Abstract!PlaceOf(e) = p
      BY <1>3, <2>2, <3>2, <3>5
    <3>7. QED BY <2>1, <3>6 DEF Found
  <2>5. QED BY <2>3, <2>4
<1>6. QED BY <1>1, <1>4, <1>5, FindIs

\* indexOf counts from m_list, and looks beyond the last node unless m_list is the first.
LEMMA IndexIs ==
  ASSUME NEW s, NEW j, Seen(s, j), NEW e
  PROVE  indexOf(e) = Abstract!IndexOf(e)
<1>1. /\ NodeInv /\ InOrder(s) /\ j \in 1 .. m_count /\ m_list = s[j] /\ state # "dangling"
      /\ m_count \in Nat \ {0} /\ j \in Nat /\ 1 <= j /\ j <= m_count
  <2>1. NodeInv /\ InOrder(s) /\ j \in 1 .. m_count /\ m_list = s[j] /\ state # "dangling"
    BY DEF Seen
  <2>2. m_count \in Nat \ {0}
    BY <2>1 DEF InOrder
  <2>3. QED BY <2>1, <2>2
<1>2. \A i \in 1 .. m_count : s[i] # Null
  BY <1>1, ListAssumption DEF InOrder
<1> DEFINE c == ElemsOf(s, m_count)
           node == [k \in 0 .. m_count - 1 |-> Along(next, m_list, k)]
           hits == {k \in DOMAIN node : node[k] # Null /\ addr[node[k]] = e}
           here == IF state = "dangling" THEN 0 ELSE StepsBack + 1
           hits0 == {i \in DOMAIN Contents : i >= here /\ Contents[i] = e}
<1>3. Contents = c /\ here = j /\ DOMAIN c = 1 .. m_count /\ \A i \in 1 .. m_count : c[i] = addr[s[i]]
  BY <1>1, View DEF ElemsOf
<1>4. indexOf(e) = IF hits # {} THEN Min(hits) ELSE IF node[m_count - 1] = Null THEN Undefined ELSE -1
  BY DEF indexOf
<1>5. Abstract!IndexOf(e) = IF hits0 # {} THEN Abstract!Min(hits0) - here
                            ELSE IF here = 1 THEN -1 ELSE Abstract!Undefined
  BY DEF Abstract!IndexOf
<1> HIDE DEF c, here
<1>6. DOMAIN node = 0 .. m_count - 1 /\ m_count - 1 \in 0 .. m_count - 1
  BY <1>1
<1>7. ASSUME NEW k \in 0 .. m_count - 1
      PROVE  /\ k \in Nat
             /\ node[k] = IF j + k <= m_count THEN s[j + k] ELSE Null
             /\ j + k <= m_count => j + k \in 1 .. m_count
  <2>1. k \in Nat /\ (j + k <= m_count => j + k \in 1 .. m_count)
    BY <1>1
  <2>2. node[k] = Along(next, m_list, k)
    OBVIOUS
  <2>3. Along(next, m_list, k) = IF j + k <= m_count THEN s[j + k] ELSE Null
    BY <1>1, <2>1, Forwards
  <2>4. QED BY <2>1, <2>2, <2>3
<1> HIDE DEF node
<1>8. ASSUME NEW k \in 0 .. m_count - 1
      PROVE  k \in hits <=> j + k <= m_count /\ addr[s[j + k]] = e
  BY <1>2, <1>6, <1>7
<1>9. ASSUME NEW i \in 1 .. m_count
      PROVE  i \in hits0 <=> i >= j /\ addr[s[i]] = e
  BY <1>3
<1>10. hits \subseteq 0 .. m_count - 1 /\ hits0 \subseteq 1 .. m_count
  BY <1>3, <1>6
<1> HIDE DEF hits, hits0
<1>11. ASSUME NEW k \in hits PROVE j + k \in hits0
  <2>1. k \in 0 .. m_count - 1 /\ j + k <= m_count /\ addr[s[j + k]] = e
    BY <1>8, <1>10
  <2>2. j + k \in 1 .. m_count /\ j + k >= j
    BY <1>1, <2>1
  <2>3. QED BY <2>1, <2>2, <1>9
<1>12. ASSUME NEW i \in hits0 PROVE i - j \in hits /\ i >= j /\ i \in Nat
  <2>1. i \in 1 .. m_count /\ i >= j /\ addr[s[i]] = e
    BY <1>9, <1>10
  <2>2. i - j \in 0 .. m_count - 1 /\ j + (i - j) = i /\ j + (i - j) <= m_count /\ i \in Nat
    BY <1>1, <2>1
  <2>3. QED BY <2>1, <2>2, <1>8
<1>13. hits \in SUBSET Nat /\ hits0 \in SUBSET Nat
  BY <1>1, <1>10
<1>14. CASE hits # {}
  <2>1. PICK k : k = Min(hits)
    OBVIOUS
  <2>2. k \in hits /\ k \in Nat /\ \A y \in hits : k <= y
    BY <1>13, <1>14, <2>1, MinIs
  <2>3. j + k \in hits0
    BY <1>11, <2>2
  <2>4. ASSUME NEW i \in hits0 PROVE j + k <= i
    <3>1. k <= i - j /\ i \in Nat
      BY <1>12, <2>2
    <3>2. QED BY <3>1, <2>2, <1>1
  <2>5. Min(hits0) = j + k
    BY <1>13, <2>3, <2>4, MinOf
  <2>6. (j + k) - j = k
    BY <1>1, <2>2
  <2>7. hits0 # {}
    BY <2>3
  <2>8. QED BY <1>3, <1>4, <1>5, <1>14, <2>1, <2>5, <2>6, <2>7, SameMin
<1>15. CASE hits = {}
  <2>1. hits0 = {}
    BY <1>12, <1>15
  <2>2. node[m_count - 1] = Null <=> j # 1
    <3>1. j + (m_count - 1) <= m_count <=> j = 1
      BY <1>1
    <3>2. QED BY <3>1, <1>2, <1>6, <1>7
  <2>3. Abstract!Undefined = Undefined
    BY DEF Abstract!Undefined, Undefined
  <2>4. QED BY <1>3, <1>4, <1>5, <1>15, <2>1, <2>2, <2>3
<1>16. QED BY <1>14, <1>15

\* The queries, one by one.
LEMMA Answers ==
  ASSUME NEW s, NEW j, Seen(s, j), state = "ok"
  PROVE  AnswersForSequence
<1>1. /\ NodeInv /\ InOrder(s) /\ j \in 1 .. m_count /\ m_list = s[j]
      /\ m_count \in Nat \ {0} /\ j \in Nat /\ 1 <= j /\ j <= m_count
      /\ 1 \in 1 .. m_count /\ m_count \in 1 .. m_count
  <2>1. NodeInv /\ InOrder(s) /\ j \in 1 .. m_count /\ m_list = s[j]
    BY DEF Seen
  <2>2. m_count \in Nat \ {0}
    BY <2>1 DEF InOrder
  <2>3. QED BY <2>1, <2>2
<1> DEFINE c == ElemsOf(s, m_count)
           here == IF state = "dangling" THEN 0 ELSE StepsBack + 1
<1>2. /\ Contents = c /\ here = j /\ first = s[1]
      /\ DOMAIN c = 1 .. m_count /\ \A i \in 1 .. m_count : c[i] = addr[s[i]]
  BY View DEF ElemsOf
<1>3. Len(c) = m_count
  <2>1. c = [i \in 1 .. m_count |-> c[i]]
    BY DEF ElemsOf
  <2> HIDE DEF c
  <2>2. m_count \in Nat
    BY <1>1
  <2>3. QED BY <2>1, <2>2, SeqOf
<1> HIDE DEF c
<1>4. Len(Contents) = m_count
  BY <1>2, <1>3
<1>5. addr[first] = Abstract!FirstElem
  BY <1>1, <1>2 DEF Abstract!FirstElem
<1>6. last = Abstract!LastElem
  <2>1. Abstract!LastElem = addr[s[m_count]]
    BY <1>1, <1>2, <1>4 DEF Abstract!LastElem
  <2>2. m_count - 1 \in Nat /\ m_count - 1 < m_count
        /\ (IF j + (m_count - 1) <= m_count THEN j + (m_count - 1) ELSE m_count) = m_count
    BY <1>1
  <2>3. get(m_count - 1) = addr[s[m_count]]
    BY <2>2, GetIs
  <2>4. QED BY <2>1, <2>3 DEF last
<1>7. ASSUME NEW e \in Elems
      PROVE  /\ contains(e) = Abstract!HasElem(e)
             /\ find_previous(e) = Abstract!Previous(e)
             /\ indexOf(e) = Abstract!IndexOf(e)
  <2>1. Abstract!HasElem(e) <=> \E i \in 1 .. m_count : addr[s[i]] = e
    BY <1>2 DEF Abstract!HasElem
  <2>2. contains(e) \in BOOLEAN /\ Abstract!HasElem(e) \in BOOLEAN
    BY DEF contains, Abstract!HasElem
  <2>3. CASE find(e) = Null /\ Abstract!PlaceOf(e) = 0 /\ \A i \in 1 .. m_count : addr[s[i]] # e
    <3>1. contains(e) = Abstract!HasElem(e)
      BY <2>1, <2>2, <2>3 DEF contains
    <3>2. find_previous(e) = Abstract!Previous(e)
      BY <2>3 DEF find_previous, Abstract!Previous
    <3>3. QED BY <3>1, <3>2, IndexIs
  <2>4. CASE \E p \in 1 .. m_count : find(e) = s[p] /\ addr[s[p]] = e /\ Abstract!PlaceOf(e) = p
    <3>1. PICK p \in 1 .. m_count : find(e) = s[p] /\ addr[s[p]] = e /\ Abstract!PlaceOf(e) = p
      BY <2>4
    <3>2. s[p] # Null
      BY <1>1, ListAssumption DEF InOrder
    <3>3. contains(e) = Abstract!HasElem(e)
      BY <2>1, <2>2, <3>1, <3>2 DEF contains
    <3>4. prev[s[p]] = IF p > 1 THEN s[p - 1] ELSE Null
      BY <1>1 DEF InOrder
    <3>5. find_previous(e) = IF prev[s[p]] = Null THEN Null ELSE addr[prev[s[p]]]
      BY <3>1, <3>2 DEF find_previous
    <3>6. Abstract!Previous(e) = IF p > 1 THEN Contents[p - 1] ELSE Null
      BY <3>1 DEF Abstract!Previous
    <3>7. p > 1 => p - 1 \in 1 .. m_count
      BY <1>1
    <3>8. p > 1 => s[p - 1] # Null /\ Contents[p - 1] = addr[s[p - 1]]
      BY <3>7, <1>1, <1>2, ListAssumption DEF InOrder
    <3>9. find_previous(e) = Abstract!Previous(e)
      BY <3>4, <3>5, <3>6, <3>8
    <3>10. QED BY <3>3, <3>9, IndexIs
  <2>5. QED BY <2>3, <2>4, PlaceIs
<1>8. ASSUME NEW num \in 0 .. MaxSize
      PROVE  get(num) = Abstract!Get(num)
  <2>1. num \in Nat
    BY ListAssumption, FS_CardinalityType DEF MaxSize
  <2> DEFINE end == IF j + num <= m_count THEN j + num ELSE m_count
  <2>2. get(num) = IF num < m_count THEN addr[s[end]] ELSE Null
    BY <2>1, GetIs
  <2>3. Abstract!Get(num) = IF num < Len(Contents)
                            THEN Contents[Abstract!Min({here + num, Len(Contents)})] ELSE Null
    BY DEF Abstract!Get
  <2> HIDE DEF here
  <2>4. end \in 1 .. m_count
    BY <1>1, <2>1
  <2>5. {here + num, Len(Contents)} = {j + num, m_count}
    BY <1>2, <1>4
  <2>6. Min({j + num, m_count}) = end
    <3>1. {j + num, m_count} \in SUBSET Nat /\ end \in {j + num, m_count}
          /\ \A i \in {j + num, m_count} : end <= i
      BY <1>1, <2>1
    <3> HIDE DEF end
    <3>2. QED BY <3>1, MinOf
  <2> HIDE DEF end
  <2>7. Contents[end] = addr[s[end]]
    BY <1>2, <2>4
  <2>8. Abstract!Min({here + num, Len(Contents)}) = end
    BY <2>5, <2>6, SameMin
  <2>9. QED BY <1>4, <2>2, <2>3, <2>7, <2>8
<1>9. QED BY <1>4, <1>5, <1>6, <1>7, <1>8 DEF AnswersForSequence

\* As long as the calls have been defined, find, find_previous, first, last, get, indexOf
\* and the count return what they do for the sequence of the elements.
THEOREM QueriesAnswer == NodesSpec => []AnswersForSequence
<1>1. NodeInv => AnswersForSequence
  <2>1. ASSUME NodeInv, state = "ok" PROVE AnswersForSequence
    <3>1. PICK s \in [1 .. m_count -> Nodes] : InOrder(s)
      BY <2>1 DEF NodeInv
    <3>2. m_list \in alive
      BY <2>1 DEF NodeInv
    <3>3. PICK j \in 1 .. m_count : m_list = s[j]
      BY <3>1, <3>2 DEF InOrder
    <3>4. Seen(s, j)
      BY <2>1, <3>1, <3>3 DEF Seen
    <3>5. QED BY <2>1, <3>4, Answers
  <2>2. ASSUME state # "ok" PROVE AnswersForSequence
    BY <2>2 DEF AnswersForSequence
  <2>3. QED BY <2>1, <2>2
<1>2. QED BY <1>1, NodesInvariance, PTL

-----------------------------------------------------------------------------
(* The list: its steps as steps of the sequence *)

\* A law of sequences is an operator of what it speaks about, and is so cited for given
\* sequences: what a part of a sequence is,
SliceLaw(S, c, m, n) ==
  c \in Seq(S) /\ m \in Nat /\ n \in Nat /\ 1 <= m /\ m <= n + 1 /\ n <= Len(c) =>
    LET d == SubSeq(c, m, n)
    IN /\ d \in Seq(S) /\ Len(d) = n - m + 1
       /\ \A i \in 1 .. n - m + 1 : d[i] = c[m + i - 1]

\* and what InsertAt and RemoveAt of the community modules make of one.
InsertLaw(N, c, p, e) ==
  N \in Nat /\ c = [i \in 1 .. N |-> c[i]] /\ p \in 1 .. N + 1 =>
    Abstract!InsertAt(c, p, e) =
      [i \in 1 .. N + 1 |-> IF i < p THEN c[i] ELSE IF i = p THEN e ELSE c[i - 1]]
RemoveLaw(N, c, p) ==
  N \in Nat /\ c = [i \in 1 .. N |-> c[i]] /\ p \in 1 .. N =>
    Abstract!RemoveAt(c, p) = [i \in 1 .. N - 1 |-> IF i < p THEN c[i] ELSE c[i + 1]]

LEMMA SliceIs ==
  ASSUME NEW S, NEW c, NEW m, NEW n
  PROVE  SliceLaw(S, c, m, n)
<1> SUFFICES ASSUME c \in Seq(S), m \in Nat, n \in Nat, 1 <= m, m <= n + 1, n <= Len(c)
             PROVE  /\ SubSeq(c, m, n) \in Seq(S)
                    /\ Len(SubSeq(c, m, n)) = n - m + 1
                    /\ \A i \in 1 .. n - m + 1 : SubSeq(c, m, n)[i] = c[m + i - 1]
  BY DEF SliceLaw
<1>1. m \in Int /\ n \in Int /\ (IF m <= n THEN n - m + 1 ELSE 0) = n - m + 1
  OBVIOUS
<1>2. \A i \in m .. n : c[i] \in S
  <2>1. \A i \in m .. n : i \in 1 .. Len(c)
    BY LenProperties
  <2>2. QED BY <2>1, ElementOfSeq
<1>3. /\ SubSeq(c, m, n) \in Seq(S)
      /\ Len(SubSeq(c, m, n)) = IF m <= n THEN n - m + 1 ELSE 0
      /\ \A i \in 1 .. n - m + 1 : SubSeq(c, m, n)[i] = c[m + i - 1]
  BY <1>1, <1>2, SubSeqProperties
<1>4. QED BY <1>1, <1>3

LEMMA InsertedIs ==
  ASSUME NEW N, NEW c, NEW p, NEW e
  PROVE  InsertLaw(N, c, p, e)
<1> SUFFICES ASSUME N \in Nat, c = [i \in 1 .. N |-> c[i]], p \in 1 .. N + 1
             PROVE  Abstract!InsertAt(c, p, e) =
                      [i \in 1 .. N + 1 |-> IF i < p THEN c[i] ELSE IF i = p THEN e ELSE c[i - 1]]
  BY DEF InsertLaw
<1> DEFINE S == {c[i] : i \in 1 .. N} \cup {e}
           A == SubSeq(c, 1, p - 1)
           B == SubSeq(c, p, N)
           d == [i \in 1 .. N + 1 |-> IF i < p THEN c[i] ELSE IF i = p THEN e ELSE c[i - 1]]
<1>1. Len(c) = N
  BY SeqOf
<1>2. N \in Nat /\ p \in Nat /\ 1 <= p /\ p <= N + 1 /\ p - 1 \in Int /\ N + 1 \in Nat
  OBVIOUS
<1>3. c \in Seq(S)
  <2>1. \A i \in 1 .. N : c[i] \in S
    OBVIOUS
  <2> HIDE DEF S
  <2>2. c \in [1 .. N -> S]
    BY <2>1
  <2>3. QED BY <2>2
<1>4. e \in S
  OBVIOUS
<1>5. Abstract!InsertAt(c, p, e) = (A \o <<e>>) \o B
  BY <1>1 DEF Abstract!InsertAt
<1> HIDE DEF S
<1>6. A \in Seq(S) /\ Len(A) = p - 1 /\ \A i \in 1 .. p - 1 : A[i] = c[i]
  <2>1. SliceLaw(S, c, 1, p - 1)
    BY SliceIs
  <2>2. 1 \in Nat /\ p - 1 \in Nat /\ 1 <= 1 /\ 1 <= (p - 1) + 1 /\ p - 1 <= Len(c)
    BY <1>1, <1>2
  <2>3. /\ A \in Seq(S) /\ Len(A) = (p - 1) - 1 + 1
        /\ \A i \in 1 .. (p - 1) - 1 + 1 : A[i] = c[1 + i - 1]
    BY <1>3, <2>1, <2>2 DEF SliceLaw
  <2> HIDE DEF A
  <2>4. (p - 1) - 1 + 1 = p - 1 /\ \A i \in 1 .. p - 1 : 1 + i - 1 = i
    BY <1>2
  <2>5. QED BY <2>3, <2>4
<1>7. B \in Seq(S) /\ Len(B) = N + 1 - p /\ \A i \in 1 .. N + 1 - p : B[i] = c[p + i - 1]
  <2>1. SliceLaw(S, c, p, N)
    BY SliceIs
  <2>2. p \in Nat /\ N \in Nat /\ 1 <= p /\ p <= N + 1 /\ N <= Len(c)
    BY <1>1, <1>2
  <2>3. /\ B \in Seq(S) /\ Len(B) = N - p + 1
        /\ \A i \in 1 .. N - p + 1 : B[i] = c[p + i - 1]
    BY <1>3, <2>1, <2>2 DEF SliceLaw
  <2> HIDE DEF B
  <2>4. N - p + 1 = N + 1 - p
    BY <1>2
  <2>5. QED BY <2>3, <2>4
<1> HIDE DEF A, B
<1>8. <<e>> \in Seq(S) /\ Len(<<e>>) = 1 /\ <<e>>[1] = e
  BY <1>4
<1> DEFINE AE == A \o <<e>>
<1>9. /\ AE \in Seq(S) /\ Len(AE) = p
      /\ \A i \in 1 .. p : AE[i] = IF i <= p - 1 THEN A[i] ELSE <<e>>[i - (p - 1)]
  <2>1. /\ AE \in Seq(S) /\ Len(AE) = Len(A) + Len(<<e>>)
        /\ \A i \in 1 .. Len(A) + Len(<<e>>) :
             AE[i] = IF i <= Len(A) THEN A[i] ELSE <<e>>[i - Len(A)]
    BY <1>6, <1>8, ConcatProperties
  <2>2. Len(A) + Len(<<e>>) = p
    BY <1>2, <1>6, <1>8
  <2> HIDE DEF AE
  <2>3. QED BY <2>1, <2>2, <1>6
<1> HIDE DEF AE
<1> DEFINE X == AE \o B
<1>10. /\ X \in Seq(S) /\ Len(X) = N + 1
       /\ \A i \in 1 .. N + 1 : X[i] = IF i <= p THEN AE[i] ELSE B[i - p]
  <2>1. /\ X \in Seq(S) /\ Len(X) = Len(AE) + Len(B)
        /\ \A i \in 1 .. Len(AE) + Len(B) : X[i] = IF i <= Len(AE) THEN AE[i] ELSE B[i - Len(AE)]
    BY <1>7, <1>9, ConcatProperties
  <2>2. Len(AE) + Len(B) = N + 1
    BY <1>2, <1>7, <1>9
  <2> HIDE DEF X
  <2>3. QED BY <2>1, <2>2, <1>9
<1> HIDE DEF X
<1>11. ASSUME NEW i \in 1 .. N + 1
       PROVE  X[i] = IF i < p THEN c[i] ELSE IF i = p THEN e ELSE c[i - 1]
  <2>1. CASE i < p
    <3>1. i <= p /\ i <= p - 1 /\ i \in 1 .. p /\ i \in 1 .. p - 1
      BY <1>2, <2>1
    <3>2. QED BY <3>1, <2>1, <1>6, <1>9, <1>10
  <2>2. CASE i = p
    <3>1. i <= p /\ ~ (i <= p - 1) /\ i \in 1 .. p /\ i - (p - 1) = 1 /\ ~ (i < p)
      BY <1>2, <2>2
    <3>2. QED BY <3>1, <2>2, <1>8, <1>9, <1>10
  <2>3. CASE i > p
    <3>1. ~ (i <= p) /\ i - p \in 1 .. N + 1 - p /\ p + (i - p) - 1 = i - 1 /\ ~ (i < p) /\ i # p
      BY <1>2, <2>3
    <3>2. X[i] = B[i - p]
      BY <3>1, <1>10
    <3>3. B[i - p] = c[p + (i - p) - 1]
      BY <3>1, <1>7
    <3>4. QED BY <3>1, <3>2, <3>3
  <2>4. QED BY <1>2, <2>1, <2>2, <2>3
<1>12. X \in [1 .. N + 1 -> S]
  BY <1>10, LenProperties
<1>13. X = d
  BY <1>11, <1>12
<1>14. QED BY <1>5, <1>13 DEF X, AE

LEMMA RemovedIs ==
  ASSUME NEW N, NEW c, NEW p
  PROVE  RemoveLaw(N, c, p)
<1> SUFFICES ASSUME N \in Nat, c = [i \in 1 .. N |-> c[i]], p \in 1 .. N
             PROVE  Abstract!RemoveAt(c, p) = [i \in 1 .. N - 1 |-> IF i < p THEN c[i] ELSE c[i + 1]]
  BY DEF RemoveLaw
<1> DEFINE S == {c[i] : i \in 1 .. N}
           A == SubSeq(c, 1, p - 1)
           B == SubSeq(c, p + 1, N)
           d == [i \in 1 .. N - 1 |-> IF i < p THEN c[i] ELSE c[i + 1]]
<1>1. Len(c) = N
  BY SeqOf
<1>2. N \in Nat /\ p \in Nat /\ 1 <= p /\ p <= N /\ p - 1 \in Int /\ p + 1 \in Int
  OBVIOUS
<1>3. c \in Seq(S)
  <2>1. \A i \in 1 .. N : c[i] \in S
    OBVIOUS
  <2> HIDE DEF S
  <2>2. c \in [1 .. N -> S]
    BY <2>1
  <2>3. QED BY <2>2
<1>4. Abstract!RemoveAt(c, p) = A \o B
  BY <1>1 DEF Abstract!RemoveAt
<1> HIDE DEF S
<1>5. A \in Seq(S) /\ Len(A) = p - 1 /\ \A i \in 1 .. p - 1 : A[i] = c[i]
  <2>1. SliceLaw(S, c, 1, p - 1)
    BY SliceIs
  <2>2. 1 \in Nat /\ p - 1 \in Nat /\ 1 <= 1 /\ 1 <= (p - 1) + 1 /\ p - 1 <= Len(c)
    BY <1>1, <1>2
  <2>3. /\ A \in Seq(S) /\ Len(A) = (p - 1) - 1 + 1
        /\ \A i \in 1 .. (p - 1) - 1 + 1 : A[i] = c[1 + i - 1]
    BY <1>3, <2>1, <2>2 DEF SliceLaw
  <2> HIDE DEF A
  <2>4. (p - 1) - 1 + 1 = p - 1 /\ \A i \in 1 .. p - 1 : 1 + i - 1 = i
    BY <1>2
  <2>5. QED BY <2>3, <2>4
<1>6. B \in Seq(S) /\ Len(B) = N - p /\ \A i \in 1 .. N - p : B[i] = c[p + i]
  <2>1. SliceLaw(S, c, p + 1, N)
    BY SliceIs
  <2>2. p + 1 \in Nat /\ N \in Nat /\ 1 <= p + 1 /\ p + 1 <= N + 1 /\ N <= Len(c)
    BY <1>1, <1>2
  <2>3. /\ B \in Seq(S) /\ Len(B) = N - (p + 1) + 1
        /\ \A i \in 1 .. N - (p + 1) + 1 : B[i] = c[(p + 1) + i - 1]
    BY <1>3, <2>1, <2>2 DEF SliceLaw
  <2> HIDE DEF B
  <2>4. N - (p + 1) + 1 = N - p /\ \A i \in 1 .. N - p : (p + 1) + i - 1 = p + i
    BY <1>2
  <2>5. QED BY <2>3, <2>4
<1> HIDE DEF A, B
<1> DEFINE X == A \o B
<1>7. /\ X \in Seq(S) /\ Len(X) = N - 1
      /\ \A i \in 1 .. N - 1 : X[i] = IF i <= p - 1 THEN A[i] ELSE B[i - (p - 1)]
  <2>1. /\ X \in Seq(S) /\ Len(X) = Len(A) + Len(B)
        /\ \A i \in 1 .. Len(A) + Len(B) : X[i] = IF i <= Len(A) THEN A[i] ELSE B[i - Len(A)]
    BY <1>5, <1>6, ConcatProperties
  <2>2. Len(A) + Len(B) = N - 1
    BY <1>2, <1>5, <1>6
  <2> HIDE DEF X
  <2>3. QED BY <2>1, <2>2, <1>5
<1> HIDE DEF X
<1>8. ASSUME NEW i \in 1 .. N - 1
      PROVE  X[i] = IF i < p THEN c[i] ELSE c[i + 1]
  <2>1. CASE i < p
    <3>1. i <= p - 1 /\ i \in 1 .. p - 1
      BY <1>2, <2>1
    <3>2. QED BY <3>1, <2>1, <1>5, <1>7
  <2>2. CASE ~ (i < p)
    <3>1. ~ (i <= p - 1) /\ i - (p - 1) \in 1 .. N - p /\ p + (i - (p - 1)) = i + 1
      BY <1>2, <2>2
    <3>2. X[i] = B[i - (p - 1)]
      BY <3>1, <1>7
    <3>3. B[i - (p - 1)] = c[p + (i - (p - 1))]
      BY <3>1, <1>6
    <3>4. QED BY <2>2, <3>1, <3>2, <3>3
  <2>3. QED BY <2>1, <2>2
<1>9. X \in [1 .. N - 1 -> S]
  BY <1>7, LenProperties
<1>10. X = d
  BY <1>8, <1>9
<1>11. QED BY <1>4, <1>10 DEF X

\* What the list is seen as, in every state.
Views == \A s, j : Seen(s, j) => Contents = ElemsOf(s, m_count) /\ StepsBack + 1 = j

LEMMA ViewsAlways == Views
BY View DEF Views

LEMMA ViewsNext == Views'
BY ViewsAlways, PTL

LEMMA ViewNext ==
  ASSUME NEW s, NEW j, Seen(s, j)'
  PROVE  Contents' = [i \in 1 .. m_count' |-> addr'[s[i]]] /\ StepsBack' + 1 = j
<1>1. Contents' = ElemsOf(s, m_count)' /\ StepsBack' + 1 = j
  BY ViewsNext DEF Views
<1>2. QED BY <1>1 DEF ElemsOf

\* The abstract pointer; there is none any more once m_list dangles.
Here == IF state = "dangling" THEN 0 ELSE StepsBack + 1

\* A node added is an element inserted.
LEMMA AddsAsSequence ==
  ASSUME NEW s, NEW j, Seen(s, j), NEW i \in 1 .. m_count, NEW e \in Elems, Adds(s, i, e)
  PROVE  Abstract!PutAfter(i, e)
<1>1. PICK N : N = m_count
  OBVIOUS
<1>2. /\ NodeInv /\ InOrder(s) /\ j \in 1 .. N /\ m_list = s[j] /\ state # "dangling"
      /\ N \in Nat \ {0} /\ i \in 1 .. N
  <2>1. NodeInv /\ InOrder(s) /\ j \in 1 .. N /\ m_list = s[j] /\ state # "dangling"
    BY <1>1 DEF Seen
  <2>2. N \in Nat \ {0}
    BY <1>1, <2>1 DEF InOrder
  <2>3. QED BY <1>1, <2>1, <2>2
<1>3. PICK p : p = IF i = 1 /\ N > 1 THEN 1 ELSE i + 1
  OBVIOUS
<1>4. PICK node : node = New
  OBVIOUS
<1>5. node \in Nodes \ alive /\ add(node, e, s[i])
  BY <1>2, <1>4, NewNode DEF Adds
<1>6. PICK u : u = With(s, N, p, node)
  OBVIOUS
<1>7. /\ InOrder(u)' /\ m_list' = m_list /\ state' = state
  BY <1>1, <1>2, <1>3, <1>5, <1>6, AddKeeps
<1>8. addr' = [addr EXCEPT ![node] = e] /\ m_count' = N + 1 /\ node \in Nodes /\ node \notin alive
  BY <1>1, <1>5 DEF add
<1>9. p \in 1 .. N + 1 /\ p \in Nat /\ j \in Nat
  BY <1>2, <1>3
<1>10. PICK k : k = IF p <= j THEN j + 1 ELSE j
  OBVIOUS
<1>11. ASSUME NEW x \in 1 .. N + 1
       PROVE  /\ x < p => u[x] = s[x] /\ x \in 1 .. N
              /\ x = p => u[x] = node
              /\ x > p => u[x] = s[x - 1] /\ x - 1 \in 1 .. N
  BY <1>2, <1>6, <1>9 DEF With
<1>12. Seen(u, k)'
  <2>1. k \in 1 .. N + 1 /\ (p <= j => k > p /\ k - 1 = j) /\ (~ (p <= j) => k < p /\ k = j)
    BY <1>2, <1>9, <1>10
  <2>2. u[k] = m_list
    BY <1>2, <1>11, <2>1
  <2>3. NodeInv'
    BY <1>1, <1>2, StepAdds
  <2>4. InOrder(u)' /\ k \in 1 .. m_count' /\ m_list' = u[k] /\ state' # "dangling"
    BY <1>2, <1>7, <1>8, <2>1, <2>2
  <2>5. QED BY <2>3, <2>4 DEF Seen
<1>13. Contents' = [x \in 1 .. m_count' |-> addr'[u[x]]] /\ StepsBack' + 1 = k
  BY <1>12, ViewNext
<1>14. PICK c : c = Contents
  OBVIOUS
<1>15. c = ElemsOf(s, N) /\ StepsBack + 1 = j
  BY <1>1, <1>14, View
<1>16. c = [x \in 1 .. N |-> c[x]] /\ \A x \in 1 .. N : c[x] = addr[s[x]]
  BY <1>15 DEF ElemsOf
<1>17. Len(c) = N
  BY <1>2, <1>16, SeqOf
<1>18. Abstract!InsertAt(c, p, e) =
         [x \in 1 .. N + 1 |-> IF x < p THEN c[x] ELSE IF x = p THEN e ELSE c[x - 1]]
  <2>1. N \in Nat /\ p \in 1 .. N + 1 /\ c = [x \in 1 .. N |-> c[x]]
    BY <1>2, <1>9, <1>16
  <2>2. InsertLaw(N, c, p, e)
    BY InsertedIs
  <2>3. QED BY <2>1, <2>2 DEF InsertLaw
<1>19. Contents' = Abstract!InsertAt(c, p, e)
  <2>1. ASSUME NEW x \in 1 .. N
        PROVE  s[x] \in Nodes /\ s[x] # node
    BY <1>1, <1>2, <1>8 DEF InOrder
  <2>2. addr \in [Nodes -> Elems \cup {Null}]
    BY <1>2 DEF NodeInv, NodeRanges
  <2>3. ASSUME NEW x \in 1 .. N PROVE addr'[s[x]] = c[x]
    BY <1>8, <1>16, <2>1, <2>2
  <2>4. addr'[node] = e
    BY <1>8, <2>2
  <2>5. ASSUME NEW x \in 1 .. N + 1
        PROVE  addr'[u[x]] = IF x < p THEN c[x] ELSE IF x = p THEN e ELSE c[x - 1]
    <3>1. CASE x < p
      BY <3>1, <1>11, <2>3
    <3>2. CASE x = p
      <4>1. ~ (x < p)
        BY <1>9, <3>2
      <4>2. QED BY <3>2, <4>1, <1>11, <2>4
    <3>3. CASE x > p
      <4>1. ~ (x < p) /\ x # p
        BY <1>9, <3>3
      <4>2. QED BY <3>3, <4>1, <1>11, <2>3
    <3>4. x < p \/ x = p \/ x > p
      BY <1>9
    <3>5. QED BY <3>1, <3>2, <3>3, <3>4
  <2>6. Contents' = [x \in 1 .. N + 1 |-> addr'[u[x]]]
    BY <1>8, <1>13
  <2>7. QED BY <1>18, <2>5, <2>6
<1>20. Here = j /\ Here' = k
  BY <1>2, <1>7, <1>13, <1>15 DEF Here
<1>21. (IF i = 1 /\ Len(Contents) > 1 THEN 1 ELSE i + 1) = p
  BY <1>3, <1>14, <1>17
<1>22. /\ Contents' = Abstract!InsertAt(Contents, p, e)
       /\ Here' = IF p <= Here THEN Here + 1 ELSE Here
       /\ state' = state
  BY <1>7, <1>10, <1>14, <1>19, <1>20
<1>23. QED BY <1>21, <1>22 DEF Abstract!PutAfter, Here

\* A node unlinked is an element removed; the other ends of a call of remove.
LEMMA RemovesAsSequence ==
  ASSUME NEW s, NEW j, Seen(s, j), state = "ok", NEW e, remove(e)
  PROVE  Abstract!ListRemove(e) \/ UNCHANGED nodeVars
<1>1. PICK N : N = m_count
  OBVIOUS
<1>2. /\ NodeInv /\ InOrder(s) /\ j \in 1 .. N /\ m_list = s[j] /\ N \in Nat \ {0}
  <2>1. NodeInv /\ InOrder(s) /\ j \in 1 .. N /\ m_list = s[j]
    BY <1>1 DEF Seen
  <2>2. N \in Nat \ {0}
    BY <1>1, <2>1 DEF InOrder
  <2>3. QED BY <1>1, <2>1, <2>2
<1>3. NodeInv'
  BY <1>1, <1>2, StepRemoves
<1>4. PICK c : c = Contents
  OBVIOUS
<1>5. c = ElemsOf(s, N) /\ StepsBack + 1 = j
  BY <1>1, <1>4, View
<1>6. c = [x \in 1 .. N |-> c[x]] /\ \A x \in 1 .. N : c[x] = addr[s[x]]
  BY <1>5 DEF ElemsOf
<1>7. Len(c) = N
  BY <1>2, <1>6, SeqOf
<1>8. Here = j
  BY <1>5 DEF Here
<1>9. CASE find(e) = Null
  BY <1>9 DEF remove
<1>10. CASE \E p \in 1 .. m_count : find(e) = s[p] /\ addr[s[p]] = e /\ Abstract!PlaceOf(e) = p
  <2>1. PICK p \in 1 .. N : find(e) = s[p] /\ Abstract!PlaceOf(e) = p
    BY <1>1, <1>10
  <2>2. s[p] # Null /\ p \in Nat /\ p # 0
    BY <1>1, <1>2, ListAssumption DEF InOrder
  <2>3. Abstract!ListRemove(e) <=>
          IF p = Len(Contents) THEN state' = "crashed" /\ Contents' = Contents /\ Here' = Here
          ELSE IF p = Here THEN state' = "dangling" /\ Contents' = <<>> /\ Here' = 0
          ELSE /\ Contents' = Abstract!RemoveAt(Contents, p)
               /\ Here' = (IF p < Here THEN Here - 1 ELSE Here) /\ state' = state
    BY <2>1, <2>2 DEF Abstract!ListRemove, Here
  <2>4. CASE next[s[p]] = Null
    <3>1. p = N
      <4>1. p < N => p + 1 \in 1 .. N /\ s[p + 1] # Null
        BY <1>1, <1>2, <2>2, ListAssumption DEF InOrder
      <4>2. ~ (p < N)
        BY <1>1, <1>2, <2>4, <4>1 DEF InOrder
      <4>3. QED BY <4>2, <1>2, <2>2
    <3>2. state' = "crashed" /\ UNCHANGED <<alive, addr, prev, next, m_list, m_count>>
      BY <2>1, <2>2, <2>4 DEF remove
    <3>3. Seen(s, j)'
      <4>1. InOrder(s)' /\ j \in 1 .. m_count' /\ m_list' = s[j] /\ state' # "dangling"
        BY <1>1, <1>2, <3>2 DEF InOrder
      <4>2. QED BY <1>3, <4>1 DEF Seen
    <3>4. Contents' = [x \in 1 .. m_count' |-> addr'[s[x]]] /\ StepsBack' + 1 = j
      BY <3>3, ViewNext
    <3>5. Contents' = Contents
      BY <1>1, <1>4, <1>5, <3>2, <3>4 DEF ElemsOf
    <3>6. Here' = Here
      BY <1>8, <3>2, <3>4 DEF Here
    <3>7. QED BY <1>4, <1>7, <2>3, <3>1, <3>2, <3>5, <3>6
  <2>5. CASE next[s[p]] # Null
    <3>1. p < N /\ p # N
      BY <1>1, <1>2, <2>2, <2>5 DEF InOrder
    <3>2. Unlink(s[p]) /\ m_list' = m_list
          /\ state' = IF s[p] = m_list THEN "dangling" ELSE state
      BY <2>1, <2>2, <2>5 DEF remove
    <3>3. s[p] = m_list <=> p = j
      BY <1>1, <1>2 DEF InOrder
    <3>4. CASE p = j
      <4>1. state' = "dangling"
        BY <3>2, <3>3, <3>4
      <4>2. Contents' = <<>> /\ Here' = 0
        BY <4>1 DEF Contents, Here
      <4>3. QED BY <1>4, <1>7, <1>8, <2>3, <3>1, <3>4, <4>1, <4>2
    <3>5. CASE p # j
      <4>1. state' = state /\ state' \in {"ok", "crashed", "dangling"} /\ state' # "dangling"
        BY <3>2, <3>3, <3>5
      <4>2. PICK u : u = Without(s, N, p)
        OBVIOUS
      <4>3. InOrder(u)'
        BY <1>1, <1>2, <3>1, <3>2, <4>1, <4>2, RemoveKeeps
      <4>4. m_count' = N - 1 /\ addr' = [addr EXCEPT ![s[p]] = Null]
        BY <1>1, <3>2 DEF Unlink
      <4>5. PICK k : k = IF p < j THEN j - 1 ELSE j
        OBVIOUS
      <4>6. ASSUME NEW x \in 1 .. N - 1
            PROVE  /\ x < p => u[x] = s[x]
                   /\ ~ (x < p) => u[x] = s[x + 1]
                   /\ x \in 1 .. N /\ x + 1 \in 1 .. N
        BY <1>2, <4>2 DEF Without
      <4>7. Seen(u, k)'
        <5>1. /\ k \in 1 .. N - 1
              /\ p < j => ~ (k < p) /\ k + 1 = j
              /\ ~ (p < j) => k < p /\ k = j
          BY <1>2, <2>2, <3>1, <3>5, <4>5
        <5>2. u[k] = m_list
          BY <1>2, <4>6, <5>1
        <5>3. k \in 1 .. m_count' /\ m_list' = u[k]
          BY <3>2, <4>4, <5>1, <5>2
        <5>4. QED BY <1>3, <4>1, <4>3, <5>3 DEF Seen
      <4>8. Contents' = [x \in 1 .. m_count' |-> addr'[u[x]]] /\ StepsBack' + 1 = k
        BY <4>7, ViewNext
      <4>9. Abstract!RemoveAt(c, p) = [x \in 1 .. N - 1 |-> IF x < p THEN c[x] ELSE c[x + 1]]
        <5>1. N \in Nat /\ p \in 1 .. N /\ c = [x \in 1 .. N |-> c[x]]
          BY <1>2, <1>6
        <5>2. RemoveLaw(N, c, p)
          BY RemovedIs
        <5>3. QED BY <5>1, <5>2 DEF RemoveLaw
      <4>10. ASSUME NEW x \in 1 .. N, x # p PROVE addr'[s[x]] = c[x]
        <5>1. s[x] \in Nodes /\ s[x] # s[p]
          BY <1>1, <1>2, <4>10 DEF InOrder
        <5>2. addr \in [Nodes -> Elems \cup {Null}]
          BY <1>2 DEF NodeInv, NodeRanges
        <5>3. QED BY <1>6, <4>4, <5>1, <5>2
      <4>11. ASSUME NEW x \in 1 .. N - 1
             PROVE  addr'[u[x]] = IF x < p THEN c[x] ELSE c[x + 1]
        <5>1. (x < p => x # p) /\ (~ (x < p) => x + 1 # p)
          BY <1>2, <2>2
        <5>2. QED BY <5>1, <4>6, <4>10
      <4>12. Contents' = [x \in 1 .. N - 1 |-> addr'[u[x]]]
        BY <4>4, <4>8
      <4>13. Contents' = Abstract!RemoveAt(Contents, p)
        BY <1>4, <4>9, <4>11, <4>12
      <4>14. Here' = k
        BY <4>1, <4>8 DEF Here
      <4>15. Here' = IF p < Here THEN Here - 1 ELSE Here
        BY <1>8, <4>5, <4>14
      <4>16. p # Len(Contents) /\ p # Here
        BY <1>4, <1>7, <1>8, <3>1, <3>5
      <4>17. QED BY <2>3, <4>1, <4>13, <4>15, <4>16
    <3>6. QED BY <3>4, <3>5
  <2>6. QED BY <2>4, <2>5
<1>11. QED BY <1>9, <1>10, PlaceIs

\* No step of the nodes, no step of the sequence.
LEMMA ListStutter ==
  ASSUME NodeInv, UNCHANGED nodeVars
  PROVE  UNCHANGED Abstract!listVars
<1>1. UNCHANGED <<alive, addr, prev, next, m_list, m_count>> /\ state' = state
  BY DEF nodeVars
<1>2. Contents' = Contents /\ Here' = Here
  <2>1. CASE state = "dangling"
    BY <1>1, <2>1 DEF Contents, Here
  <2>2. CASE state # "dangling"
    <3>1. PICK s \in [1 .. m_count -> Nodes] : InOrder(s)
      BY DEF NodeInv
    <3>2. PICK j \in 1 .. m_count : m_list = s[j]
      BY <2>2, <3>1 DEF NodeInv, InOrder
    <3>3. Seen(s, j)
      BY <2>2, <3>1, <3>2 DEF Seen
    <3>4. NodeInv' /\ InOrder(s)'
      <4>1. NodeInv'
        BY <1>1, Unmoved
      <4>2. InOrder(s)'
        BY <1>1, <3>1 DEF InOrder
      <4>3. QED BY <4>1, <4>2
    <3>5. Seen(s, j)'
      BY <1>1, <2>2, <3>2, <3>4 DEF Seen
    <3>6. Contents' = [x \in 1 .. m_count' |-> addr'[s[x]]] /\ StepsBack' + 1 = j
      BY <3>5, ViewNext
    <3>7. Contents = [x \in 1 .. m_count |-> addr[s[x]]] /\ StepsBack + 1 = j
      BY <3>3, View DEF ElemsOf
    <3>8. QED BY <1>1, <3>6, <3>7 DEF Here
  <2>3. QED BY <2>1, <2>2
<1>3. QED BY <1>1, <1>2 DEF Abstract!listVars, Here

\* Every call is a call of ListSpec.
LEMMA ListStep ==
  ASSUME NodeInv, NodesNext
  PROVE  [Abstract!ListNext]_Abstract!listVars
<1>1. state = "ok"
  BY DEF NodesNext
<1>2. PICK s \in [1 .. m_count -> Nodes] : InOrder(s)
  BY DEF NodeInv
<1>3. PICK j \in 1 .. m_count : m_list = s[j]
  BY <1>1, <1>2 DEF NodeInv, InOrder
<1>4. Seen(s, j)
  BY <1>1, <1>2, <1>3 DEF Seen
<1>5. PICK e \in Elems : (\E index \in 1 .. MaxSize : insert(index, e)) \/ Add(e) \/ remove(e)
  BY DEF NodesNext
<1>6. /\ state = "ok" /\ (\E i \in 1 .. MaxSize : Abstract!ListInsert(i, e)) => Abstract!ListNext
      /\ state = "ok" /\ Abstract!ListAdd(e) => Abstract!ListNext
      /\ state = "ok" /\ Abstract!ListRemove(e) => Abstract!ListNext
  BY DEF Abstract!ListNext
<1>7. DOMAIN Contents = 1 .. m_count /\ Here = j
  BY <1>1, <1>4, View DEF ElemsOf, Here
<1>8. CASE \E index \in 1 .. MaxSize : insert(index, e)
  <2>1. PICK index \in 1 .. MaxSize : insert(index, e)
    BY <1>8
  <2>2. index \in 1 .. m_count /\ Adds(s, index, e)
    BY <1>2, <1>3, <2>1, InsertAdds
  <2>3. Abstract!PutAfter(index, e)
    BY <1>4, <2>2, AddsAsSequence
  <2>4. Abstract!ListInsert(index, e)
    BY <1>7, <2>2, <2>3 DEF Abstract!ListInsert
  <2>5. QED BY <1>1, <1>6, <2>1, <2>4
<1>9. CASE Add(e)
  <2>1. Adds(s, j, e)
    BY <1>3, <1>9 DEF Add, Adds
  <2>2. Abstract!PutAfter(j, e)
    BY <1>4, <2>1, AddsAsSequence
  <2>3. Abstract!ListAdd(e)
    BY <1>7, <2>2 DEF Abstract!ListAdd, Here
  <2>4. QED BY <1>1, <1>6, <2>3
<1>10. CASE remove(e)
  BY <1>1, <1>4, <1>6, <1>10, RemovesAsSequence, ListStutter
<1>11. QED BY <1>5, <1>8, <1>9, <1>10

\* The list is a sequence: every call of insert, add or remove changes its elements, and
\* the place of m_list among them, as ListSpec says, the calls that end in undefined
\* behaviour included.
THEOREM NodesAreASequence == NodesSpec => ImplementsList
<1>1. NodesInit => Abstract!ListInit
  <2> SUFFICES ASSUME NodesInit PROVE Abstract!ListInit
    OBVIOUS
  <2>1. NodeInv
    BY InitNodes
  <2>2. PICK s \in [1 .. m_count -> Nodes] : InOrder(s)
    BY <2>1 DEF NodeInv
  <2>3. m_count = 1 /\ state = "ok" /\ m_list = Min(Nodes) /\ alive = {Min(Nodes)}
    BY DEF NodesInit
  <2>4. 1 \in 1 .. m_count /\ m_list = s[1]
    BY <2>2, <2>3 DEF InOrder
  <2>5. Seen(s, 1)
    BY <2>1, <2>2, <2>3, <2>4 DEF Seen
  <2>6. Contents = [i \in 1 .. 1 |-> addr[s[i]]] /\ Here = 1
    BY <2>3, <2>5, View DEF ElemsOf, Here
  <2>7. PICK e \in Elems : addr = [n \in Nodes |-> IF n = Min(Nodes) THEN e ELSE Null]
    BY DEF NodesInit
  <2>8. addr[s[1]] = e
    BY <2>2, <2>3, <2>4, <2>7 DEF InOrder
  <2>9. Contents = <<e>>
    BY <2>6, <2>8
  <2>10. QED BY <2>3, <2>6, <2>9 DEF Abstract!ListInit, Here
<1>2. NodeInv /\ [NodesNext]_nodeVars => [Abstract!ListNext]_Abstract!listVars
  BY ListStep, ListStutter
<1>3. QED BY <1>1, <1>2, NodesInvariance, PTL DEF NodesSpec, ImplementsList, Abstract!ListIsSequence

=============================================================================
