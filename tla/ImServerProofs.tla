--------------------------- MODULE ImServerProofs ---------------------------
(***************************************************************************)
(* Proofs about the table of users in ImServer, for every number of slots, *)
(* every set of connections and users, and every script.                   *)
(***************************************************************************)
EXTENDS ImServer, FiniteSetTheorems, WellFoundedInduction, TLAPS

-----------------------------------------------------------------------------
(* Lemmas about the operators of the model *)

\* The order of the natural numbers, as a set of pairs.
Less == {ss \in Nat \X Nat : ss[1] < ss[2]}

LEMMA LessIsWellFounded == IsWellFoundedOn(Less, Nat)
BY NatLessThanWellFounded DEF OpToRel, Less

\* A search from the lowest number up finds one, if there is one.
LEMMA MinOfNats ==
  ASSUME NEW S \in SUBSET Nat, S # {}
  PROVE  Min(S) \in S /\ \A y \in S : Min(S) <= y
<1>1. PICK m \in S : \A y \in S : ~ (<<y, m>> \in Less)
  BY LessIsWellFounded, WFMin
<1>2. \A y \in S : m <= y
  <2> TAKE y \in S
  <2>1. m \in Nat /\ y \in Nat
    OBVIOUS
  <2>2. ~ (y < m)
    BY <1>1, <2>1 DEF Less
  <2>3. QED BY <2>1, <2>2
<1>3. QED BY <1>2 DEF Min

\* The byte offset of a slot is the number of a slot for the first one only.
LEMMA ScaledSlot ==
  ASSUME NEW i \in Slots
  PROVE  i * Size \in Slots <=> i = 0
<1> USE ImAssumption DEF Slots
<1>1. CASE i = 0
  BY <1>1
<1>2. CASE i >= 1
  <2>1. i * Size >= Size
    BY <1>2
  <2>2. QED BY <1>2, <2>1
<1>3. QED BY <1>1, <1>2

\* The slot that user_is_line or set_user_line finds is one of the table.
LEMMA FoundIsSlot ==
  ASSUME NEW u, SlotsOf(u) # {}
  PROVE  Min(SlotsOf(u)) \in Slots /\ share[Min(SlotsOf(u))].user = u
<1>1. SlotsOf(u) \in SUBSET Nat
  BY ImAssumption DEF SlotsOf, Slots
<1>2. QED BY <1>1, MinOfNats DEF SlotsOf

\* The pipe's count is bounded.
LEMMA MoreInPipe ==
  ASSUME NEW n \in 0 .. MaxPipe
  PROVE  Min({n + 1, MaxPipe}) \in 0 .. MaxPipe
<1>1. {n + 1, MaxPipe} \in SUBSET Nat
  BY ImAssumption
<1>2. Min({n + 1, MaxPipe}) \in {n + 1, MaxPipe} /\ Min({n + 1, MaxPipe}) <= MaxPipe
  BY <1>1, MinOfNats
<1>3. QED BY <1>2, ImAssumption

-----------------------------------------------------------------------------
(* Types: no accept runs out of descriptors *)

Entries == [user : Users \cup {Nobody}, sock : Fds, conn : Conns \cup {None}]
Controls == {"unborn", "top", "wait", "clear", "enter", "store", "in", "answer",
             "accept", "reading", "ended", "reaped", "off"}
Goals == {"none", "top", "wait", "in", "accept", "ended"}

\* A process has nothing open twice, and nobody has what is not yet accepted.
DescriptorInv ==
  /\ \A p \in Procs : \A m, n \in Fds :
       fds[p][m] = fds[p][n] => m = n \/ fds[p][m] = NoFile
  /\ \A p \in Procs, n \in Fds, c \in Conns : peer[c] = "new" => fds[p][n] # c

\* A child that clears an entry knows what it does next.
GoalInv == \A c \in Conns : pc[c] = "clear" => then[c] # "none"

\* The descriptors 0, 1 and 2 are there.
LEMMA FdsType == Cardinality(Conns) \in Nat /\ {0, 1, 2} \subseteq Fds /\ Fds \subseteq Nat
BY ImAssumption, FS_CardinalityType DEF Fds

\* One element more makes a set larger by one at most.
LEMMA OneMore ==
  ASSUME NEW S, IsFiniteSet(S), NEW x
  PROVE  IsFiniteSet(S \cup {x}) /\ Cardinality(S \cup {x}) <= Cardinality(S) + 1
<1>1. Cardinality(S) \in Nat
  BY FS_CardinalityType
<1>2. QED BY <1>1, FS_AddElement

\* A process has a free descriptor for a connection that is still to come.
LEMMA FreeDescriptor ==
  ASSUME TypeOK, DescriptorInv, NEW p \in Procs, NEW c \in Conns, peer[c] = "new"
  PROVE  LET n == Min({m \in Fds : fds[p][m] = NoFile}) IN n \in Fds /\ fds[p][n] = NoFile
<1> DEFINE free == {m \in Fds : fds[p][m] = NoFile}
           used == (Conns \ {c}) \cup {ReadEnd, WriteEnd, Listener}
<1>1. IsFiniteSet(used) /\ Cardinality(used) < Cardinality(Fds) /\ IsFiniteSet(Fds)
  <2>1. IsFiniteSet(Conns \ {c}) /\ Cardinality(Conns \ {c}) = Cardinality(Conns) - 1
    BY FS_RemoveElement, ImAssumption
  <2> DEFINE one == (Conns \ {c}) \cup {ReadEnd}
             two == one \cup {WriteEnd}
  <2>2. IsFiniteSet(one) /\ Cardinality(one) <= Cardinality(Conns \ {c}) + 1
    BY <2>1, OneMore
  <2>3. IsFiniteSet(two) /\ Cardinality(two) <= Cardinality(one) + 1
    BY <2>2, OneMore
  <2>4. used = two \cup {Listener}
    OBVIOUS
  <2>5. IsFiniteSet(used) /\ Cardinality(used) <= Cardinality(two) + 1
    BY <2>3, <2>4, OneMore
  <2>6. IsFiniteSet(Fds) /\ Cardinality(Fds) = Cardinality(Conns) + 3
    BY FS_Interval, FdsType DEF Fds
  <2>7. {Cardinality(one), Cardinality(two), Cardinality(used)} \subseteq Nat
    BY <2>2, <2>3, <2>5, FS_CardinalityType
  <2> HIDE DEF one, two, used
  <2>8. Cardinality(used) < Cardinality(Fds)
    BY <2>1, <2>2, <2>3, <2>5, <2>6, <2>7, FdsType
  <2>9. QED BY <2>5, <2>6, <2>8
<1>2. free # {}
  <2> SUFFICES ASSUME free = {} PROVE FALSE
    OBVIOUS
  <2>1. fds[p] \in [Fds -> used]
    <3>1. fds[p] \in [Fds -> Files]
      BY DEF TypeOK
    <3>2. \A n \in Fds : fds[p][n] # NoFile /\ fds[p][n] # c
      BY DEF DescriptorInv
    <3>3. QED BY <3>1, <3>2 DEF Files
  <2>2. \E m, n \in Fds : m # n /\ fds[p][m] = fds[p][n]
    BY <1>1, <2>1, FS_PigeonHole
  <2>3. QED BY <2>2 DEF DescriptorInv
<1>3. Min(free) \in free
  BY <1>2, MinOfNats, FdsType
<1>4. QED BY <1>3

\* Going on elsewhere keeps the types.
LEMMA GoToTypes ==
  ASSUME TypeOK, NEW c \in Conns, NEW k \in Controls, NEW f \in [Fds -> Files], GoTo(c, k, f)
  PROVE  pc' \in [Procs -> Controls] /\ fds' \in [Procs -> [Fds -> Files]]
BY DEF TypeOK, GoTo, Nothing, Controls, Files, Procs

\* Writing or clearing an entry keeps the types.
LEMMA TableTypes ==
  ASSUME TypeOK, NEW i, NEW e \in Entries, set_n_get_mem(i, e)
  PROVE  share' \in [Slots -> Entries]
BY DEF TypeOK, set_n_get_mem, Entries

LEMMA EmptyType == Empty \in Entries
BY FdsType DEF Empty, Entries

\* The search of set_user_quit keeps the types.
LEMMA SearchTypes ==
  ASSUME TypeOK, NEW c \in Conns, NEW u, NEW k \in Goals \ {"none"},
         NEW f \in [Fds -> Files], set_user_quit(c, u, k, f)
  PROVE  /\ found' \in [Conns -> Slots] /\ then' \in [Conns -> Goals]
         /\ pc' \in [Procs -> Controls] /\ fds' \in [Procs -> [Fds -> Files]]
         /\ errno' \in [Procs -> BOOLEAN] /\ share' = share
<1>1. errno' \in [Procs -> BOOLEAN] /\ share' = share
  BY DEF TypeOK, set_user_quit, Procs
<1>2. CASE user_is_line(u)
  <2>1. found' = [found EXCEPT ![c] = Min(SlotsOf(u))] /\ then' = [then EXCEPT ![c] = k]
        /\ GoTo(c, "clear", f)
    BY <1>2 DEF set_user_quit
  <2>2. Min(SlotsOf(u)) \in Slots
    BY <1>2, FoundIsSlot DEF user_is_line
  <2>3. pc' \in [Procs -> Controls] /\ fds' \in [Procs -> [Fds -> Files]]
    BY <2>1, GoToTypes DEF Controls
  <2>4. found' \in [Conns -> Slots] /\ then' \in [Conns -> Goals]
    BY <2>1, <2>2 DEF TypeOK, Goals
  <2>5. QED BY <1>1, <2>3, <2>4
<1>3. CASE ~ user_is_line(u)
  <2>1. GoTo(c, k, f) /\ found' = found /\ then' = then
    BY <1>3 DEF set_user_quit
  <2>2. QED BY <1>1, <2>1, GoToTypes DEF TypeOK, Goals, Controls
<1>4. QED BY <1>2, <1>3

\* A closed descriptor.
LEMMA ShutTypes ==
  ASSUME NEW f \in [Fds -> Files], NEW n
  PROVE  Shut(f, n) \in [Fds -> Files]
BY DEF Shut, Files

\* Hearing a message keeps the types.
LEMMA ReceiveTypes ==
  ASSUME TypeOK, NEW c \in Conns, NEW u \in script.uses[c], Receive(c, u)
  PROVE  /\ gusr' \in [Procs -> Users \cup {Nobody}] /\ pipe' \in 0 .. MaxPipe
         /\ Received(c) \in [Fds -> Files]
<1>1. script.uses \in [Conns -> SUBSET (Users \cup {Nobody})]
  BY ImAssumption DEF TypeOK
<1>2. gusr' \in [Procs -> Users \cup {Nobody}]
  BY <1>1 DEF TypeOK, Receive, Procs
<1>3. pipe' \in 0 .. MaxPipe
  BY MoreInPipe DEF TypeOK, Receive
<1>4. Received(c) \in [Fds -> Files]
  BY ShutTypes DEF TypeOK, Received, Procs
<1>5. QED BY <1>2, <1>3, <1>4

\* Leaving keeps the types.
LEMMA LeaveTypes ==
  ASSUME TypeOK, NEW c \in Conns, NEW u \in Users \cup {Nobody}, NEW k \in Goals \ {"none"},
         Leave(c, u, k)
  PROVE  TypeOK'
<1>1. set_user_quit(c, name[c], k, fds[c]) /\ fds[c] \in [Fds -> Files]
  BY DEF Leave, TypeOK, Procs
<1>2. /\ found' \in [Conns -> Slots] /\ then' \in [Conns -> Goals]
      /\ pc' \in [Procs -> Controls] /\ fds' \in [Procs -> [Fds -> Files]]
      /\ errno' \in [Procs -> BOOLEAN] /\ share' = share
  BY <1>1, SearchTypes
<1>3. gusr' \in [Procs -> Users \cup {Nobody}]
  BY DEF Leave, TypeOK
<1>4. QED BY <1>2, <1>3 DEF Leave, TypeOK, child, setting, Goals, Controls

\* A child that serves a command goes on, or falls.
LEMMA Serving ==
  ASSUME NEW c \in Conns, Command(c) \/ Answer(c) \/ CopyFromNull(c)
  PROVE  /\ LoggedIn(c)
         /\ \/ fallen' = fallen /\ \E k \in {"in", "answer"} : GoTo(c, k, fds[c])
            \/ fallen' = fallen \cup {c} /\ GoTo(c, "ended", fds[c])
         /\ UNCHANGED <<table, peer, child, gusr, name, errno, pipe, setting, kicked>>
BY DEF Command, Answer, CopyFromNull, LoggedIn

LEMMA ServingTypes ==
  ASSUME TypeOK, NEW c \in Conns, Command(c) \/ Answer(c) \/ CopyFromNull(c)
  PROVE  TypeOK'
<1>1. fds[c] \in [Fds -> Files]
  BY DEF TypeOK, Procs
<1>2. \E k \in Controls : GoTo(c, k, fds[c])
  BY Serving DEF Controls
<1>3. pc' \in [Procs -> Controls] /\ fds' \in [Procs -> [Fds -> Files]]
  BY <1>1, <1>2, GoToTypes
<1>4. fallen' \subseteq Conns
  BY Serving DEF TypeOK
<1>5. UNCHANGED <<table, peer, child, gusr, name, errno, pipe, setting, kicked>>
  BY Serving
<1>6. QED BY <1>3, <1>4, <1>5 DEF TypeOK, table, child, setting, Controls

\* A connected client's child, before and after the login, keeps the types.
LEMMA ServeTypes ==
  ASSUME TypeOK, GoalInv, NEW c \in Conns, Serve(c)
  PROVE  TypeOK'
<1>a. c \in Procs /\ fds[c] \in [Fds -> Files] /\ name[c] \in Users \cup {Nobody}
  BY DEF TypeOK, Procs
<1>1. CASE Clear(c)
  <2>1. share' \in [Slots -> Entries]
    BY <1>1, TableTypes, EmptyType DEF Clear
  <2>2. pc' \in [Procs -> Controls] /\ fds' \in [Procs -> [Fds -> Files]]
    <3>1. then[c] \in Controls /\ GoTo(c, then[c], fds[c])
      BY <1>1 DEF Clear, GoalInv, TypeOK, Controls
    <3>2. QED BY <1>a, <3>1, GoToTypes
  <2>3. QED BY <1>1, <2>1, <2>2, FdsType, ImAssumption
            DEF Clear, TypeOK, child, setting, Goals, Controls, Entries, Slots
<1>2. CASE Top(c)
  <2>1. name' \in [Conns -> Users \cup {Nobody}]
    BY <1>2 DEF Top, TypeOK
  <2>2. CASE set_user_quit(c, gusr[c], "wait", fds[c])
    <3>1. /\ found' \in [Conns -> Slots] /\ then' \in [Conns -> Goals]
          /\ pc' \in [Procs -> Controls] /\ fds' \in [Procs -> [Fds -> Files]]
          /\ errno' \in [Procs -> BOOLEAN] /\ share' = share
      BY <1>a, <2>2, SearchTypes DEF Goals
    <3>2. QED BY <1>2, <2>1, <3>1 DEF Top, TypeOK, child, setting, Goals, Controls
  <2>3. CASE GoTo(c, "wait", fds[c]) /\ UNCHANGED <<table, errno>>
    <3>1. pc' \in [Procs -> Controls] /\ fds' \in [Procs -> [Fds -> Files]]
      BY <1>a, <2>3, GoToTypes DEF Controls
    <3>2. QED BY <1>2, <2>1, <2>3, <3>1 DEF Top, TypeOK, table, child, setting, Controls
  <2>4. QED BY <1>2, <2>2, <2>3 DEF Top
<1>3. CASE Timeout(c)
  <2>1. pc' \in [Procs -> Controls] /\ fds' \in [Procs -> [Fds -> Files]]
    BY <1>3, <1>a, GoToTypes DEF Timeout, Controls
  <2>2. QED BY <1>3, <2>1 DEF Timeout, TypeOK, table, child, setting, Controls
<1>4. CASE HangUp(c)
  <2>1. gusr' \in [Procs -> Users \cup {Nobody}]
    BY <1>4 DEF HangUp, TypeOK
  <2>2. CASE set_user_quit(c, Nobody, "ended", fds[c])
    <3>1. /\ found' \in [Conns -> Slots] /\ then' \in [Conns -> Goals]
          /\ pc' \in [Procs -> Controls] /\ fds' \in [Procs -> [Fds -> Files]]
          /\ errno' \in [Procs -> BOOLEAN] /\ share' = share
      BY <1>a, <2>2, SearchTypes DEF Goals
    <3>2. QED BY <1>4, <2>1, <3>1 DEF HangUp, TypeOK, child, setting, Goals, Controls
  <2>3. CASE GoTo(c, "top", Shut(fds[c], sock[c])) /\ UNCHANGED <<table, errno>>
    <3>1. pc' \in [Procs -> Controls] /\ fds' \in [Procs -> [Fds -> Files]]
      BY <1>a, <2>3, GoToTypes, ShutTypes DEF Controls
    <3>2. QED BY <1>4, <2>1, <2>3, <3>1 DEF HangUp, TypeOK, table, child, setting, Controls
  <2>4. QED BY <1>4, <2>2, <2>3 DEF HangUp
<1>5. CASE FindPlace(c)
  <2>1. Min(SlotsOf(Nobody)) \in Slots
    BY <1>5, FoundIsSlot DEF FindPlace
  <2>2. pc' \in [Procs -> Controls] /\ fds' \in [Procs -> [Fds -> Files]]
    BY <1>5, <1>a, GoToTypes DEF FindPlace, Controls
  <2>3. QED BY <1>5, <2>1, <2>2 DEF FindPlace, TypeOK, child, setting, Controls
<1>6. CASE Store(c)
  <2>1. [user |-> gusr[c], sock |-> sock[c], conn |-> c] \in Entries
    BY <1>a DEF TypeOK, Entries
  <2>2. share' \in [Slots -> Entries]
    BY <1>6, <2>1, TableTypes DEF Store
  <2>3. pc' \in [Procs -> Controls] /\ fds' \in [Procs -> [Fds -> Files]]
    BY <1>6, <1>a, GoToTypes DEF Store, Controls
  <2>4. found' \in [Conns -> Slots] /\ name' \in [Conns -> Users \cup {Nobody}]
    BY <1>6, <1>a, ImAssumption DEF Store, TypeOK, Slots
  <2>5. QED BY <1>6, <2>2, <2>3, <2>4 DEF Store, TypeOK, child, setting, Controls, Entries
<1>7. CASE Missing(c)
  BY <1>7, LeaveTypes DEF Missing, Goals
<1>8. CASE Lost(c)
  BY <1>8, LeaveTypes DEF Lost, Goals
<1>9. QED BY <1>1, <1>2, <1>3, <1>4, <1>5, <1>6, <1>7, <1>8, ServingTypes DEF Serve

\* What a client asks for, and its going, keep the types.
LEMMA AskTypes ==
  ASSUME TypeOK, NEW c \in Conns, Ask(c)
  PROVE  TypeOK'
<1>a. script.uses[c] \subseteq Users \cup {Nobody}
  BY ImAssumption DEF TypeOK
<1>1. ASSUME NEW u \in script.uses[c], Refuse(c, u) \/ LoginWrong(c, u) PROVE TypeOK'
  <2>1. Receive(c, u) /\ (GoTo(c, "top", Received(c)) \/ GoTo(c, "ended", Received(c)))
    BY <1>1 DEF Refuse, LoginWrong
  <2>2. /\ gusr' \in [Procs -> Users \cup {Nobody}] /\ pipe' \in 0 .. MaxPipe
        /\ Received(c) \in [Fds -> Files]
    BY <2>1, ReceiveTypes
  <2>3. pc' \in [Procs -> Controls] /\ fds' \in [Procs -> [Fds -> Files]]
    BY <2>1, <2>2, GoToTypes DEF Controls
  <2>4. QED BY <1>1, <2>2, <2>3
            DEF Refuse, LoginWrong, TypeOK, table, child, setting, Controls
<1>2. ASSUME NEW u \in script.uses[c], Register(c, u) PROVE TypeOK'
  <2>1. /\ gusr' \in [Procs -> Users \cup {Nobody}] /\ pipe' \in 0 .. MaxPipe
        /\ Received(c) \in [Fds -> Files]
    BY <1>2, ReceiveTypes DEF Register
  <2>2. GoTo(c, "top", Received(c)) \/ GoTo(c, "ended", Received(c))
    BY <1>2 DEF Register
  <2>3. pc' \in [Procs -> Controls] /\ fds' \in [Procs -> [Fds -> Files]]
    BY <2>1, <2>2, GoToTypes DEF Controls
  <2>4. known' \in [Procs -> SUBSET Users]
    BY <1>2 DEF Register, TypeOK, Procs
  <2>5. QED BY <1>2, <2>1, <2>3, <2>4 DEF Register, TypeOK, table, setting, Controls
<1>3. ASSUME NEW u \in script.uses[c], Login(c, u) PROVE TypeOK'
  <2>1. /\ gusr' \in [Procs -> Users \cup {Nobody}] /\ pipe' \in 0 .. MaxPipe
        /\ Received(c) \in [Fds -> Files]
    BY <1>3, ReceiveTypes DEF Login
  <2>2. CASE set_user_quit(c, u, "top", Shut(Received(c), sock[c]))
    <3>1. /\ found' \in [Conns -> Slots] /\ then' \in [Conns -> Goals]
          /\ pc' \in [Procs -> Controls] /\ fds' \in [Procs -> [Fds -> Files]]
          /\ errno' \in [Procs -> BOOLEAN] /\ share' = share
      BY <2>1, <2>2, SearchTypes, ShutTypes DEF Goals
    <3>2. QED BY <1>3, <2>1, <3>1 DEF Login, TypeOK, child, setting, Goals, Controls
  <2>3. CASE /\ GoTo(c, "enter", Received(c)) /\ UNCHANGED table
             /\ errno' = [errno EXCEPT ![c] = TRUE]
    <3>1. pc' \in [Procs -> Controls] /\ fds' \in [Procs -> [Fds -> Files]]
      BY <2>1, <2>3, GoToTypes DEF Controls
    <3>2. errno' \in [Procs -> BOOLEAN]
      BY <2>3 DEF TypeOK
    <3>3. QED BY <1>3, <2>1, <2>3, <3>1, <3>2
              DEF Login, TypeOK, table, child, setting, Controls
  <2>4. QED BY <1>3, <2>2, <2>3 DEF Login
<1>4. ASSUME NEW u \in script.uses[c], Logout(c, u) PROVE TypeOK'
  BY <1>4, <1>a, LeaveTypes DEF Logout, Goals
<1>5. CASE Invalid(c)
  BY <1>5, LeaveTypes DEF Invalid, Goals
<1>6. CASE Depart(c)
  BY <1>6 DEF Depart, TypeOK, table, child, setting
<1>7. QED BY <1>1, <1>2, <1>3, <1>4, <1>5, <1>6, ServingTypes DEF Ask

\* A connection that is accepted gets a descriptor.
LEMMA AcceptTypes ==
  ASSUME TypeOK, DescriptorInv, NEW p \in Procs, NEW c \in Conns, Accept(p, c)
  PROVE  TypeOK'
<1> DEFINE n == Min({m \in Fds : fds[p][m] = NoFile})
<1>1. n \in Fds
  BY FreeDescriptor DEF Accept
<1>2. /\ sock' = [sock EXCEPT ![c] = n]
      /\ fds' = [fds EXCEPT ![p] = [fds[p] EXCEPT ![n] = c],
                            ![c] = [fds[p] EXCEPT ![n] = c]]
  BY DEF Accept
<1> HIDE DEF n
<1>3. [fds[p] EXCEPT ![n] = c] \in [Fds -> Files]
  BY DEF TypeOK, Files
<1>4. sock' \in [Conns -> Fds] /\ fds' \in [Procs -> [Fds -> Files]]
  BY <1>1, <1>2, <1>3 DEF TypeOK
<1>5. /\ peer' = [peer EXCEPT ![c] = "open"] /\ boss' = [boss EXCEPT ![c] = p]
      /\ pc' = [pc EXCEPT ![c] = "top"] /\ gusr' = [gusr EXCEPT ![c] = gusr[p]]
      /\ errno' = [errno EXCEPT ![c] = errno[p]]
      /\ known' = [known EXCEPT ![c] = known[p]]
      /\ UNCHANGED <<table, name, pipe, setting, kicked, fallen>>
  BY DEF Accept
<1>6. QED BY <1>4, <1>5 DEF TypeOK, table, setting

\* The main process, its operator, and the signal handler keep the types.
LEMMA MainTypes ==
  ASSUME TypeOK
  PROVE  /\ \A p \in Procs, c \in Conns : func_waitpid(p, c) => TypeOK'
         /\ \A p \in Procs : ReadReturns(p) => TypeOK'
         /\ \A u \in Users : Kick(u) => TypeOK'
         /\ Quit \/ Restart \/ ClearAll => TypeOK'
<1>a. Main \in Procs /\ Conns \subseteq Procs
  BY DEF Procs
<1>b. Nothing \in [Fds -> Files] /\ Started \in [Fds -> Files]
  BY DEF Nothing, Started, Files
<1>c. Take => pipe' \in 0 .. MaxPipe
  BY ImAssumption DEF Take, TypeOK
<1>1. ASSUME NEW p \in Procs, NEW c \in Conns, func_waitpid(p, c) PROVE TypeOK'
  <2>1. fds' \in [Procs -> [Fds -> Files]]
    BY <1>1, ShutTypes DEF func_waitpid, TypeOK
  <2>2. /\ \/ pc' = [pc EXCEPT ![c] = "reaped"]
           \/ \E k \in {"accept", "reading"} : pc' = [pc EXCEPT ![c] = "reaped", ![p] = k]
        /\ Take \/ UNCHANGED pipe
    BY <1>1 DEF func_waitpid
  <2>3. pc' \in [Procs -> Controls] /\ pipe' \in 0 .. MaxPipe
    <3>1. pipe' \in 0 .. MaxPipe
      BY <2>2, <1>c DEF TypeOK
    <3>2. pc' \in [Procs -> Controls]
      <4>1. CASE pc' = [pc EXCEPT ![c] = "reaped"]
        BY <4>1 DEF TypeOK, Controls
      <4>2. ASSUME NEW k \in {"accept", "reading"},
                   pc' = [pc EXCEPT ![c] = "reaped", ![p] = k]
            PROVE  pc' \in [Procs -> Controls]
        BY <4>2 DEF TypeOK, Controls
      <4>3. QED BY <2>2, <4>1, <4>2
    <3>3. QED BY <3>1, <3>2
  <2>4. UNCHANGED <<table, peer, child, gusr, name, errno, setting, kicked, fallen>>
    BY <1>1 DEF func_waitpid
  <2>5. QED BY <2>1, <2>3, <2>4 DEF TypeOK, table, child, setting, Controls
<1>2. ASSUME NEW p \in Procs, ReadReturns(p) PROVE TypeOK'
  <2>1. pc' \in [Procs -> Controls] /\ pipe' \in 0 .. MaxPipe
    BY <1>2, <1>c DEF ReadReturns, TypeOK, Controls
  <2>2. QED BY <1>2, <2>1 DEF ReadReturns, TypeOK, table, child, setting, Controls
<1>3. ASSUME NEW u \in Users, Kick(u) PROVE TypeOK'
  <2>1. fds' \in [Procs -> [Fds -> Files]]
    BY <1>3, <1>a, ShutTypes DEF Kick, TypeOK
  <2>2. QED BY <1>3, <2>1 DEF Kick, TypeOK, table, child, setting
<1>4. CASE Quit
  BY <1>4, <1>a, <1>b DEF Quit, TypeOK, table, child, setting
<1>5. CASE Restart
  BY <1>5, <1>a, <1>b, ImAssumption DEF Restart, TypeOK, table, child, setting
<1>6. CASE ClearAll
  <2>1. share' \in [Slots -> Entries]
    BY <1>6, TableTypes, EmptyType DEF ClearAll
  <2>2. QED BY <1>6, <2>1 DEF ClearAll, TypeOK, child, setting, Entries
<1>7. QED BY <1>1, <1>2, <1>3, <1>4, <1>5, <1>6

-----------------------------------------------------------------------------
(* Descriptors: every step but an accept and a restart only closes some *)

Fewer == \A p \in Procs : \A n \in Fds : fds'[p][n] \in {fds[p][n], NoFile}

LEMMA FewerFiles ==
  ASSUME DescriptorInv, Fewer, \A c \in Conns : peer'[c] = "new" => peer[c] = "new"
  PROVE  DescriptorInv'
BY ImAssumption DEF DescriptorInv, Fewer

\* A child that goes on has closed some of its descriptors, or none.
LEMMA GoToFewer ==
  ASSUME TypeOK, NEW c \in Conns, NEW k, NEW f, \A n \in Fds : f[n] \in {fds[c][n], NoFile},
         GoTo(c, k, f)
  PROVE  Fewer
BY DEF TypeOK, GoTo, Fewer, Nothing, Procs

\* So has one that logs somebody off.
LEMMA SearchFewer ==
  ASSUME TypeOK, NEW c \in Conns, NEW u, NEW k, NEW f,
         \A n \in Fds : f[n] \in {fds[c][n], NoFile}, set_user_quit(c, u, k, f)
  PROVE  Fewer
BY GoToFewer DEF set_user_quit

\* Every step of a child.
LEMMA ChildFewer ==
  ASSUME TypeOK, DescriptorInv, NEW c \in Conns, Serve(c) \/ Ask(c)
  PROVE  DescriptorInv'
<1>a. fds[c] \in [Fds -> Files]
  BY DEF TypeOK, Procs
<1>b. \A m : \A n \in Fds : Shut(fds[c], m)[n] \in {fds[c][n], NoFile}
  BY <1>a DEF Shut
<1>c. \A n \in Fds : Received(c)[n] \in {fds[c][n], NoFile}
  BY <1>b DEF Received
<1>d. \A m : \A n \in Fds : Shut(Received(c), m)[n] \in {fds[c][n], NoFile}
  BY <1>a DEF Received, Shut
<1>1. \A d \in Conns : peer'[d] = "new" => peer[d] = "new"
  BY Serving DEF Serve, Ask, Clear, Top, Timeout, HangUp, FindPlace, Store, Missing, Lost,
     Leave,
         Refuse, LoginWrong, Logout, Register, Login, Invalid, Depart, TypeOK
<1>2. Fewer
  <2>1. CASE Clear(c) \/ Timeout(c) \/ FindPlace(c) \/ Store(c)
    BY <2>1, GoToFewer DEF Clear, Timeout, FindPlace, Store
  <2>2. CASE Top(c)
    <3>1. set_user_quit(c, gusr[c], "wait", fds[c]) \/ GoTo(c, "wait", fds[c])
      BY <2>2 DEF Top
    <3>2. QED BY <3>1, GoToFewer, SearchFewer
  <2>3. CASE HangUp(c)
    <3>1. GoTo(c, "top", Shut(fds[c], sock[c])) \/ set_user_quit(c, Nobody, "ended", fds[c])
      BY <2>3 DEF HangUp
    <3>2. QED BY <3>1, <1>b, GoToFewer, SearchFewer
  <2>4. ASSUME NEW u, NEW k, Leave(c, u, k) PROVE Fewer
    BY <2>4, SearchFewer DEF Leave
  <2>5. CASE Missing(c) \/ Lost(c) \/ Invalid(c)
    BY <2>4, <2>5 DEF Missing, Lost, Invalid
  <2>6. ASSUME NEW u, Refuse(c, u) \/ LoginWrong(c, u) \/ Register(c, u) PROVE Fewer
    <3>1. \E k \in {"top", "ended"} : GoTo(c, k, Received(c))
      BY <2>6 DEF Refuse, LoginWrong, Register
    <3>2. QED BY <3>1, <1>c, GoToFewer
  <2>7. ASSUME NEW u, Login(c, u) PROVE Fewer
    <3>1. \/ set_user_quit(c, u, "top", Shut(Received(c), sock[c]))
          \/ GoTo(c, "enter", Received(c))
      BY <2>7 DEF Login
    <3>2. QED BY <3>1, <1>c, <1>d, GoToFewer, SearchFewer
  <2>8. ASSUME NEW u, Logout(c, u) PROVE Fewer
    BY <2>4, <2>8 DEF Logout
  <2>9. CASE Depart(c)
    BY <2>9 DEF Depart, Fewer
  <2>10. CASE Command(c) \/ Answer(c) \/ CopyFromNull(c)
    <3>1. \E k \in {"in", "answer", "ended"} : GoTo(c, k, fds[c])
      BY <2>10, Serving
    <3>2. QED BY <3>1, GoToFewer
  <2>11. QED BY <2>1, <2>2, <2>3, <2>5, <2>6, <2>7, <2>8, <2>9, <2>10 DEF Serve, Ask
<1>3. QED BY <1>1, <1>2, FewerFiles

\* Every other step.
LEMMA MainDescriptors ==
  ASSUME TypeOK, DescriptorInv
  PROVE  /\ \A p \in Procs, c \in Conns : Accept(p, c) => DescriptorInv'
         /\ \A p \in Procs, c \in Conns : func_waitpid(p, c) => DescriptorInv'
         /\ \A p \in Procs : ReadReturns(p) => DescriptorInv'
         /\ \A u \in Users : Kick(u) => DescriptorInv'
         /\ Quit \/ Restart \/ ClearAll => DescriptorInv'
<1>1. ASSUME NEW p \in Procs, NEW c \in Conns, Accept(p, c) PROVE DescriptorInv'
  <2> DEFINE n == Min({m \in Fds : fds[p][m] = NoFile})
  <2>1. n \in Fds /\ fds[p][n] = NoFile
    BY <1>1, FreeDescriptor DEF Accept
  <2>2. /\ peer' = [peer EXCEPT ![c] = "open"] /\ peer[c] = "new"
        /\ fds' = [fds EXCEPT ![p] = [fds[p] EXCEPT ![n] = c],
                              ![c] = [fds[p] EXCEPT ![n] = c]]
    BY <1>1 DEF Accept
  <2> HIDE DEF n
  <2>3. \A m \in Fds : fds[p][m] # c
    BY <2>2 DEF DescriptorInv
  <2> DEFINE files == [fds[p] EXCEPT ![n] = c]
  <2>4. \A m \in Fds : files[m] = IF m = n THEN c ELSE fds[p][m]
    BY DEF TypeOK
  <2>5. \A k, m \in Fds : files[k] = files[m] => k = m \/ files[k] = NoFile
    BY <2>1, <2>3, <2>4 DEF DescriptorInv
  <2>6. \A m \in Fds : \A d \in Conns : peer'[d] = "new" => files[m] # d
    BY <2>2, <2>4 DEF DescriptorInv, TypeOK
  <2>7. \A q \in Procs : fds'[q] = IF q \in {p, c} THEN files ELSE fds[q]
    BY <2>2 DEF TypeOK
  <2>8. \A d \in Conns : peer'[d] = "new" => peer[d] = "new"
    BY <2>2 DEF TypeOK
  <2> HIDE DEF files
  <2>9. QED BY <2>5, <2>6, <2>7, <2>8 DEF DescriptorInv
<1>2. ASSUME NEW p \in Procs, NEW c \in Conns, func_waitpid(p, c) PROVE DescriptorInv'
  BY <1>2, FewerFiles DEF func_waitpid, Fewer, Shut, TypeOK
<1>3. ASSUME NEW p \in Procs, ReadReturns(p) PROVE DescriptorInv'
  BY <1>3, FewerFiles DEF ReadReturns, Fewer
<1>4. ASSUME NEW u \in Users, Kick(u) PROVE DescriptorInv'
  BY <1>4, FewerFiles DEF Kick, Fewer, Shut, TypeOK, Procs
<1>5. CASE Quit
  BY <1>5, FewerFiles DEF Quit, Fewer, Nothing, TypeOK, Procs
<1>6. CASE Restart
  <2>1. peer' = peer /\ fds' = [fds EXCEPT ![Main] = Started]
    BY <1>6 DEF Restart
  <2>2. \A m, n \in Fds : Started[m] = Started[n] => m = n \/ Started[m] = NoFile
    BY ImAssumption DEF Started
  <2>3. \A m \in Fds : Started[m] \notin Conns
    BY ImAssumption DEF Started
  <2>4. \A q \in Procs : fds'[q] = IF q = Main THEN Started ELSE fds[q]
    BY <2>1 DEF TypeOK
  <2>5. QED BY <2>1, <2>2, <2>3, <2>4 DEF DescriptorInv
<1>7. CASE ClearAll
  BY <1>7, FewerFiles DEF ClearAll, Fewer
<1>8. QED BY <1>1, <1>2, <1>3, <1>4, <1>5, <1>6, <1>7

-----------------------------------------------------------------------------
(* The table *)

\* A connection that is still to come has no process.
UnbornInv == \A c \in Conns : peer[c] = "new" => pc[c] = "unborn"

\* A child that has ended while it served a command keeps the user's name it had.
FallenInv == \A c \in fallen : pc[c] \in {"ended", "reaped"}

IInv ==
  /\ TypeOK /\ DescriptorInv /\ GoalInv /\ UnbornInv /\ FallenInv
  /\ RoomForOne /\ NoStaleEntry

\* A step that leaves the table alone and ends no session of the user in it, but by
\* the fall of the child.
LEMMA KeptSessions ==
  ASSUME TypeOK, RoomForOne, NoStaleEntry, share' = share, fallen \subseteq fallen',
         \A c \in fallen : name'[c] = name[c],
         \A c \in Conns : Session(c) /\ name[c] = share[0].user =>
           (Session(c)' \/ c \in fallen') /\ name'[c] = name[c]
  PROVE  RoomForOne' /\ NoStaleEntry'
<1>1. RoomForOne'
  BY DEF RoomForOne
<1>2. ASSUME NEW i \in Slots, share'[i].user # Nobody
      PROVE  \E c \in Conns : /\ c = share'[i].conn /\ name'[c] = share'[i].user
                              /\ Session(c)' \/ c \in fallen'
  <2>1. i = 0
    BY <1>2 DEF RoomForOne, Empty
  <2>2. PICK c \in Conns : /\ c = share[0].conn /\ name[c] = share[0].user
                           /\ Session(c) \/ c \in fallen
    BY <1>2, <2>1 DEF NoStaleEntry
  <2>3. name'[c] = name[c] /\ (Session(c)' \/ c \in fallen')
    BY <2>2
  <2>4. QED BY <2>1, <2>2, <2>3
<1>3. QED BY <1>1, <1>2 DEF NoStaleEntry

\* A step of a process without a session that leaves the table alone.
LEMMA NoSession ==
  ASSUME IInv, NEW c \in Conns, ~ Session(c), share' = share,
         pc[c] \notin {"ended", "reaped"}, fallen' = fallen,
         \A d \in Conns \ {c} : pc'[d] = pc[d] /\ found'[d] = found[d] /\ name'[d] = name[d]
  PROVE  RoomForOne' /\ NoStaleEntry'
<1>1. \A d \in fallen : name'[d] = name[d]
  BY DEF IInv, FallenInv, TypeOK
<1>2. \A d \in Conns : Session(d) => Session(d)' /\ name'[d] = name[d]
  BY DEF Session, LoggedIn
<1>3. QED BY <1>1, <1>2, KeptSessions DEF IInv

\* Clearing slot 0 makes the table empty; clearing another does nothing.
LEMMA Cleared ==
  ASSUME TypeOK, RoomForOne, set_n_get_mem(0, Empty)
  PROVE  RoomForOne' /\ NoStaleEntry'
<1>1. 0 \in Slots /\ 0 * Size \in Slots /\ 0 * Size = 0
  BY ImAssumption DEF Slots
<1>2. share' = [share EXCEPT ![0] = Empty]
  BY <1>1 DEF set_n_get_mem
<1>3. \A i \in Slots : share'[i] = Empty
  BY <1>2 DEF TypeOK, RoomForOne
<1>4. QED BY <1>3 DEF RoomForOne, NoStaleEntry, Empty

\* Only slot 0 can be written.
LEMMA Written ==
  ASSUME TypeOK, NEW i \in Slots, NEW e, set_n_get_mem(i, e)
  PROVE  share' = IF i = 0 THEN [share EXCEPT ![0] = e] ELSE share
<1>1. i * Size \in Slots <=> i = 0
  BY ScaledSlot
<1>2. i = 0 => i * Size = 0
  BY ImAssumption
<1>3. QED BY <1>1, <1>2 DEF set_n_get_mem

\* Going on elsewhere is a step of one process.
LEMMA GoToOne ==
  ASSUME TypeOK, NEW c \in Conns, NEW k, NEW f, GoTo(c, k, f)
  PROVE  pc'[c] = k /\ \A p \in Procs \ {c} : pc'[p] = pc[p]
BY DEF TypeOK, GoTo, Procs

\* So is a search; a child whose search finds somebody clears that entry next.
LEMMA SearchOne ==
  ASSUME TypeOK, NEW c \in Conns, NEW u, NEW k, NEW f, set_user_quit(c, u, k, f)
  PROVE  /\ share' = share
         /\ \A p \in Procs \ {c} : pc'[p] = pc[p]
         /\ \A d \in Conns \ {c} : found'[d] = found[d] /\ then'[d] = then[d]
         /\ \/ /\ user_is_line(u) /\ pc'[c] = "clear"
               /\ found'[c] = Min(SlotsOf(u)) /\ then'[c] = k
            \/ ~ user_is_line(u) /\ pc'[c] = k /\ UNCHANGED <<found, then>>
<1>1. share' = share
  BY DEF set_user_quit
<1>2. CASE user_is_line(u)
  <2>1. found' = [found EXCEPT ![c] = Min(SlotsOf(u))] /\ then' = [then EXCEPT ![c] = k]
        /\ GoTo(c, "clear", f)
    BY <1>2 DEF set_user_quit
  <2>2. QED BY <1>1, <1>2, <2>1, GoToOne DEF TypeOK
<1>3. CASE ~ user_is_line(u)
  <2>1. GoTo(c, k, f) /\ found' = found /\ then' = then
    BY <1>3 DEF set_user_quit
  <2>2. QED BY <1>1, <1>3, <2>1, GoToOne
<1>4. QED BY <1>2, <1>3

\* A child that leaves is on its way to clear its own entry, if there is one.
LEMMA LeaveTable ==
  ASSUME IInv, NEW c \in Conns, NEW u, NEW k, Leave(c, u, k)
  PROVE  RoomForOne' /\ NoStaleEntry'
<1>1. set_user_quit(c, name[c], k, fds[c]) /\ name' = name /\ fallen' = fallen
  BY DEF Leave
<1>2. /\ share' = share
      /\ \A d \in Conns \ {c} : pc'[d] = pc[d] /\ found'[d] = found[d]
      /\ \/ user_is_line(name[c]) /\ pc'[c] = "clear" /\ found'[c] = Min(SlotsOf(name[c]))
         \/ ~ user_is_line(name[c])
  BY <1>1, SearchOne DEF IInv, Procs
<1>3. ASSUME Session(c), name[c] = share[0].user PROVE Session(c)'
  <2>1. 0 \in SlotsOf(name[c])
    BY <1>3, ImAssumption DEF SlotsOf, Slots
  <2>2. Min(SlotsOf(name[c])) = 0
    BY <1>3, <2>1, FoundIsSlot DEF IInv, RoomForOne, Empty, Session
  <2>3. pc'[c] = "clear" /\ found'[c] = 0
    BY <1>2, <2>1, <2>2 DEF user_is_line
  <2>4. QED BY <1>1, <1>3, <2>3 DEF Session
<1>4. \A d \in Conns : Session(d) /\ name[d] = share[0].user => Session(d)'
  BY <1>1, <1>2, <1>3 DEF Session, LoggedIn
<1>5. QED BY <1>1, <1>2, <1>4, KeptSessions DEF IInv

\* A child that logs in writes its user's name, and is a session from then on.
LEMMA StoreTable ==
  ASSUME IInv, NEW c \in Conns, Store(c)
  PROVE  RoomForOne' /\ NoStaleEntry'
<1> DEFINE e == [user |-> gusr[c], sock |-> sock[c], conn |-> c]
<1>1. /\ pc[c] = "store" /\ name'[c] = gusr[c] /\ pc'[c] = "in"
      /\ found[c] \in Slots /\ set_n_get_mem(found[c], e) /\ fallen' = fallen
      /\ \A d \in Conns \ {c} : pc'[d] = pc[d] /\ found'[d] = found[d] /\ name'[d] = name[d]
  BY GoToOne DEF Store, IInv, TypeOK, Procs
<1>2. CASE found[c] = 0
  <2>1. share' = [share EXCEPT ![0] = e]
    BY <1>1, <1>2, Written DEF IInv
  <2>2. \A i \in Slots : share'[i] = IF i = 0 THEN e ELSE share[i]
    BY <2>1 DEF IInv, TypeOK
  <2>3. RoomForOne'
    BY <2>2 DEF IInv, RoomForOne
  <2>4. \A i \in Slots :
          share'[i].user # Nobody => share'[i].user = gusr[c] /\ share'[i].conn = c
    BY <2>2 DEF IInv, RoomForOne, Empty
  <2>5. gusr[c] # Nobody => Session(c)'
    BY <1>1 DEF Session, LoggedIn
  <2>6. NoStaleEntry'
    BY <1>1, <2>4, <2>5 DEF NoStaleEntry
  <2>7. QED BY <2>3, <2>6
<1>3. CASE found[c] # 0
  <2>1. share' = share
    BY <1>1, <1>3, Written DEF IInv
  <2>2. QED BY <1>1, <2>1, NoSession DEF Session, LoggedIn
<1>4. QED BY <1>2, <1>3

\* Every step of a child.
LEMMA ChildTable ==
  ASSUME IInv, NEW c \in Conns, Serve(c) \/ Ask(c)
  PROVE  RoomForOne' /\ NoStaleEntry'
<1>a. TypeOK
  BY DEF IInv
<1>1. CASE Clear(c)
  <2>1. /\ pc[c] = "clear" /\ found[c] \in Slots /\ set_n_get_mem(found[c], Empty)
        /\ fallen' = fallen
        /\ \A d \in Conns \ {c} : pc'[d] = pc[d] /\ found'[d] = found[d] /\ name'[d] = name[d]
    BY <1>1, <1>a, GoToOne DEF Clear, TypeOK, Procs
  <2>2. CASE found[c] = 0
    BY <2>1, <2>2, Cleared DEF IInv
  <2>3. CASE found[c] # 0
    <3>1. share' = share
      BY <1>a, <2>1, <2>3, Written
    <3>2. QED BY <2>1, <2>3, <3>1, NoSession DEF Session, LoggedIn
  <2>4. QED BY <2>2, <2>3
<1>2. CASE Top(c)
  <2>1. set_user_quit(c, gusr[c], "wait", fds[c]) \/
        (GoTo(c, "wait", fds[c]) /\ share' = share /\ found' = found)
    BY <1>2 DEF Top, table
  <2>2. /\ ~ Session(c) /\ share' = share /\ pc[c] = "top" /\ fallen' = fallen
        /\ \A d \in Conns \ {c} : pc'[d] = pc[d] /\ found'[d] = found[d]
    BY <1>2, <1>a, <2>1, SearchOne, GoToOne DEF Top, Session, LoggedIn, Procs
  <2>3. QED BY <1>2, <1>a, <2>2, NoSession DEF Top, TypeOK
<1>3. CASE Timeout(c) \/ FindPlace(c)
  <2>1. /\ ~ Session(c) /\ share' = share /\ name' = name
        /\ pc[c] \in {"wait", "enter"} /\ fallen' = fallen
        /\ \A d \in Conns \ {c} : pc'[d] = pc[d] /\ found'[d] = found[d]
    BY <1>3, <1>a, GoToOne DEF Timeout, FindPlace, Session, LoggedIn, table, TypeOK, Procs
  <2>2. QED BY <2>1, NoSession
<1>4. CASE HangUp(c)
  <2>1. \/ set_user_quit(c, Nobody, "ended", fds[c])
        \/ /\ GoTo(c, "top", Shut(fds[c], sock[c]))
           /\ share' = share /\ found' = found
    BY <1>4 DEF HangUp, table
  <2>2. /\ ~ Session(c) /\ share' = share /\ name' = name
        /\ pc[c] = "wait" /\ fallen' = fallen
        /\ \A d \in Conns \ {c} : pc'[d] = pc[d] /\ found'[d] = found[d]
    BY <1>4, <1>a, <2>1, SearchOne, GoToOne DEF HangUp, Session, LoggedIn, Procs
  <2>3. QED BY <2>2, NoSession
<1>5. CASE Store(c)
  BY <1>5, StoreTable
<1>6. CASE Missing(c) \/ Lost(c) \/ Invalid(c)
  BY <1>6, LeaveTable DEF Missing, Lost, Invalid
<1>7. ASSUME NEW u, Logout(c, u) PROVE RoomForOne' /\ NoStaleEntry'
  BY <1>7, LeaveTable DEF Logout
<1>8. ASSUME NEW u, Refuse(c, u) \/ LoginWrong(c, u) \/ Register(c, u)
      PROVE  RoomForOne' /\ NoStaleEntry'
  <2>1. /\ pc[c] = "wait" /\ \E k \in {"top", "ended"} : GoTo(c, k, Received(c))
        /\ share' = share /\ name' = name /\ found' = found /\ fallen' = fallen
    BY <1>8 DEF Refuse, LoginWrong, Register, Receive, table
  <2>2. \A d \in Conns \ {c} : pc'[d] = pc[d]
    BY <1>a, <2>1, GoToOne DEF Procs
  <2>3. QED BY <2>1, <2>2, NoSession DEF Session, LoggedIn
<1>9. ASSUME NEW u, Login(c, u) PROVE RoomForOne' /\ NoStaleEntry'
  <2>1. /\ pc[c] = "wait" /\ name' = name /\ fallen' = fallen
        /\ \/ set_user_quit(c, u, "top", Shut(Received(c), sock[c]))
           \/ GoTo(c, "enter", Received(c)) /\ share' = share /\ found' = found
    BY <1>9 DEF Login, Receive, table
  <2>2. share' = share /\ \A d \in Conns \ {c} : pc'[d] = pc[d] /\ found'[d] = found[d]
    BY <1>a, <2>1, SearchOne, GoToOne DEF Procs
  <2>3. QED BY <2>1, <2>2, NoSession DEF Session, LoggedIn
<1>10. CASE Depart(c)
  <2>1. UNCHANGED <<share, pc, found, name, fallen>>
    BY <1>10 DEF Depart, table
  <2>2. QED BY <2>1, KeptSessions DEF IInv, Session, LoggedIn
<1>11. CASE Command(c) \/ Answer(c) \/ CopyFromNull(c)
  <2>1. /\ share' = share /\ name' = name /\ found' = found
        /\ \/ fallen' = fallen /\ LoggedIn(c)'
           \/ fallen' = fallen \cup {c}
        /\ \A d \in Conns \ {c} : pc'[d] = pc[d]
    BY <1>11, <1>a, Serving, GoToOne DEF LoggedIn, table, Procs
  <2>2. \A d \in Conns : Session(d) => Session(d)' \/ d \in fallen'
    BY <2>1 DEF Session, LoggedIn
  <2>3. QED BY <2>1, <2>2, KeptSessions DEF IInv
<1>12. QED BY <1>1, <1>2, <1>3, <1>4, <1>5, <1>6, <1>7, <1>8, <1>9, <1>10, <1>11
           DEF Serve, Ask

\* Every other step.
LEMMA MainTable ==
  ASSUME IInv
  PROVE  /\ \A p \in Procs, c \in Conns : Accept(p, c) \/ func_waitpid(p, c) =>
              RoomForOne' /\ NoStaleEntry'
         /\ \A p \in Procs : ReadReturns(p) => RoomForOne' /\ NoStaleEntry'
         /\ \A u \in Users : Kick(u) => RoomForOne' /\ NoStaleEntry'
         /\ Quit \/ Restart \/ ClearAll => RoomForOne' /\ NoStaleEntry'
<1>a. TypeOK /\ pc \in [Procs -> Controls] /\ Main \notin Conns /\ Conns \subseteq Procs
  BY ImAssumption DEF IInv, TypeOK, Controls, Procs
<1>1. ASSUME UNCHANGED <<share, found, name, fallen>>,
             \A c \in Conns : pc[c] \in {"in", "answer", "clear"} => pc'[c] = pc[c]
      PROVE  RoomForOne' /\ NoStaleEntry'
  BY <1>1, KeptSessions DEF IInv, Session, LoggedIn
<1>2. ASSUME NEW p \in Procs, NEW c \in Conns, Accept(p, c) PROVE RoomForOne' /\ NoStaleEntry'
  <2>1. pc[c] = "unborn" /\ pc' = [pc EXCEPT ![c] = "top"]
    BY <1>2 DEF Accept, IInv, UnbornInv
  <2>2. QED BY <1>1, <1>2, <1>a, <2>1 DEF Accept, table
<1>3. ASSUME NEW p \in Procs, NEW c \in Conns, func_waitpid(p, c)
      PROVE  RoomForOne' /\ NoStaleEntry'
  <2>1. /\ pc[c] = "ended" /\ pc[p] = "accept"
        /\ \/ pc' = [pc EXCEPT ![c] = "reaped"]
           \/ \E k \in {"accept", "reading"} : pc' = [pc EXCEPT ![c] = "reaped", ![p] = k]
    BY <1>3 DEF func_waitpid
  <2>2. \A d \in Conns : pc[d] \in {"in", "answer", "clear"} => pc'[d] = pc[d]
    BY <1>a, <2>1
  <2>3. QED BY <1>1, <1>3, <2>2 DEF func_waitpid, table
<1>4. ASSUME NEW p \in Procs, ReadReturns(p) PROVE RoomForOne' /\ NoStaleEntry'
  BY <1>1, <1>4, <1>a DEF ReadReturns, table
<1>5. ASSUME NEW u \in Users, Kick(u) PROVE RoomForOne' /\ NoStaleEntry'
  BY <1>1, <1>5 DEF Kick, table
<1>6. CASE Quit \/ Restart
  BY <1>1, <1>6, <1>a DEF Quit, Restart, table
<1>7. CASE ClearAll
  BY <1>7, Cleared DEF ClearAll, IInv
<1>8. QED BY <1>2, <1>3, <1>4, <1>5, <1>6, <1>7

-----------------------------------------------------------------------------
(* Control *)

\* A step of one process that is running, or that its parent creates.
LEMMA ControlKept ==
  ASSUME TypeOK, GoalInv, UnbornInv,
         \A d \in Conns : peer'[d] = "new" => peer[d] = "new" /\ pc'[d] = pc[d],
         \A d \in Conns : pc'[d] = "clear" =>
           then'[d] # "none" \/ (pc[d] = "clear" /\ then'[d] = then[d])
  PROVE  GoalInv' /\ UnbornInv'
BY DEF GoalInv, UnbornInv

LEMMA ChildControl ==
  ASSUME TypeOK, GoalInv, UnbornInv, NEW c \in Conns, Serve(c) \/ Ask(c)
  PROVE  GoalInv' /\ UnbornInv'
<1>a. \A d \in Conns : peer'[d] = "new" => peer[d] = "new"
  BY Serving DEF Serve, Ask, Clear, Top, Timeout, HangUp, FindPlace, Store, Missing, Lost,
     Leave,
         Refuse, LoginWrong, Logout, Register, Login, Invalid, Depart, TypeOK
<1>1. CASE Depart(c)
  BY <1>1, <1>a, ControlKept DEF Depart, table
<1>b. CASE pc[c] # "unborn"
  <2>a. peer[c] # "new"
    BY <1>b DEF UnbornInv
  <2>1. ASSUME NEW k \in Controls \ {"clear"}, NEW f, GoTo(c, k, f),
               then' = then \/ then' = [then EXCEPT ![c] = "none"]
        PROVE  GoalInv' /\ UnbornInv'
    <3>1. pc'[c] # "clear" /\ \A d \in Conns \ {c} : pc'[d] = pc[d] /\ then'[d] = then[d]
      BY <2>1, GoToOne DEF TypeOK, Procs
    <3>2. QED BY <1>a, <2>a, <3>1, ControlKept DEF GoalInv
  <2>2. ASSUME NEW k \in Goals \ {"none"}, NEW u, NEW f, set_user_quit(c, u, k, f)
        PROVE  GoalInv' /\ UnbornInv'
    <3>1. /\ \A d \in Conns \ {c} : pc'[d] = pc[d] /\ then'[d] = then[d]
          /\ pc'[c] = "clear" => then'[c] # "none"
      BY <2>2, SearchOne DEF Procs, Goals
    <3>2. QED BY <1>a, <2>a, <3>1, ControlKept DEF GoalInv
  <2>3. CASE Clear(c)
    <3>1. then[c] \in Controls \ {"clear"}
      BY <2>3 DEF Clear, GoalInv, TypeOK, Controls
    <3>2. GoTo(c, then[c], fds[c]) /\ then' = [then EXCEPT ![c] = "none"]
      BY <2>3 DEF Clear
    <3>3. QED BY <2>1, <3>1, <3>2
  <2>4. CASE Top(c)
    <3>1. set_user_quit(c, gusr[c], "wait", fds[c]) \/
          (GoTo(c, "wait", fds[c]) /\ then' = then)
      BY <2>4 DEF Top, table
    <3>2. QED BY <2>1, <2>2, <3>1 DEF Controls, Goals
  <2>5. CASE Timeout(c) \/ FindPlace(c) \/ Store(c)
    <3>1. /\ GoTo(c, "top", fds[c]) \/ GoTo(c, "store", fds[c]) \/ GoTo(c, "in", fds[c])
          /\ then' = then
      BY <2>5 DEF Timeout, FindPlace, Store, table
    <3>2. QED BY <2>1, <3>1 DEF Controls
  <2>6. CASE HangUp(c)
    <3>1. \/ set_user_quit(c, Nobody, "ended", fds[c])
          \/ GoTo(c, "top", Shut(fds[c], sock[c])) /\ then' = then
      BY <2>6 DEF HangUp, table
    <3>2. QED BY <2>1, <2>2, <3>1 DEF Controls, Goals
  <2>7. CASE Missing(c) \/ Lost(c) \/ Invalid(c)
    <3>1. \E k \in {"in", "ended", "accept"} : set_user_quit(c, name[c], k, fds[c])
      BY <2>7 DEF Missing, Lost, Invalid, Leave
    <3>2. QED BY <2>2, <3>1 DEF Goals
  <2>8. ASSUME NEW u, Logout(c, u) PROVE GoalInv' /\ UnbornInv'
    <3>1. set_user_quit(c, name[c], "top", fds[c])
      BY <2>8 DEF Logout, Leave
    <3>2. QED BY <2>2, <3>1 DEF Goals
  <2>9. ASSUME NEW u, Refuse(c, u) \/ LoginWrong(c, u) \/ Register(c, u)
        PROVE  GoalInv' /\ UnbornInv'
    <3>1. (\E k \in {"top", "ended"} : GoTo(c, k, Received(c))) /\ then' = then
      BY <2>9 DEF Refuse, LoginWrong, Register, table
    <3>2. QED BY <2>1, <3>1 DEF Controls
  <2>10. ASSUME NEW u, Login(c, u) PROVE GoalInv' /\ UnbornInv'
    <3>1. \/ set_user_quit(c, u, "top", Shut(Received(c), sock[c]))
          \/ GoTo(c, "enter", Received(c)) /\ then' = then
      BY <2>10 DEF Login, table
    <3>2. QED BY <2>1, <2>2, <3>1 DEF Controls, Goals
  <2>11. CASE Command(c) \/ Answer(c) \/ CopyFromNull(c)
    <3>1. (\E k \in {"in", "answer", "ended"} : GoTo(c, k, fds[c])) /\ then' = then
      BY <2>11, Serving DEF table
    <3>2. QED BY <2>1, <3>1 DEF Controls
  <2>12. QED BY <1>1, <2>3, <2>4, <2>5, <2>6, <2>7, <2>8, <2>9, <2>10, <2>11 DEF Serve, Ask
<1>2. CASE pc[c] = "unborn"
  BY <1>1, <1>2, Serving DEF LoggedIn, Serve, Ask, Clear, Top, Timeout, HangUp, FindPlace,
     Store, Missing, Lost,
         Leave, Refuse, LoginWrong, Logout, Register, Login, Receive, Invalid
<1>3. QED BY <1>b, <1>2

LEMMA MainControl ==
  ASSUME TypeOK, GoalInv, UnbornInv
  PROVE  /\ \A p \in Procs, c \in Conns : Accept(p, c) \/ func_waitpid(p, c) =>
              GoalInv' /\ UnbornInv'
         /\ \A p \in Procs : ReadReturns(p) => GoalInv' /\ UnbornInv'
         /\ \A u \in Users : Kick(u) => GoalInv' /\ UnbornInv'
         /\ Quit \/ Restart \/ ClearAll => GoalInv' /\ UnbornInv'
<1>a. pc \in [Procs -> Controls] /\ Main \notin Conns /\ Conns \subseteq Procs
      /\ peer \in [Conns -> {"new", "open", "closed", "reset"}]
  BY ImAssumption DEF TypeOK, Controls, Procs
<1>1. ASSUME NEW p \in Procs, NEW c \in Conns, Accept(p, c) PROVE GoalInv' /\ UnbornInv'
  <2>1. /\ peer' = [peer EXCEPT ![c] = "open"] /\ pc' = [pc EXCEPT ![c] = "top"]
        /\ then' = then
    BY <1>1 DEF Accept, table
  <2>2. QED BY <1>a, <2>1, ControlKept
<1>2. ASSUME NEW p \in Procs, NEW c \in Conns, func_waitpid(p, c)
      PROVE  GoalInv' /\ UnbornInv'
  <2>1. /\ pc[c] = "ended" /\ pc[p] = "accept" /\ peer' = peer /\ then' = then
        /\ \/ pc' = [pc EXCEPT ![c] = "reaped"]
           \/ \E k \in {"accept", "reading"} : pc' = [pc EXCEPT ![c] = "reaped", ![p] = k]
    BY <1>2 DEF func_waitpid, table
  <2>2. \A d \in Conns : pc'[d] \in {"unborn", "clear"} \/ pc[d] = "unborn" => pc'[d] = pc[d]
    BY <1>a, <2>1
  <2>3. QED BY <2>1, <2>2, ControlKept DEF UnbornInv
<1>3. ASSUME NEW p \in Procs, ReadReturns(p) PROVE GoalInv' /\ UnbornInv'
  <2>1. /\ pc[p] = "reading" /\ pc' = [pc EXCEPT ![p] = "accept"]
        /\ peer' = peer /\ then' = then
    BY <1>3 DEF ReadReturns, table
  <2>2. QED BY <1>a, <2>1, ControlKept DEF UnbornInv
<1>4. ASSUME NEW u \in Users, Kick(u) PROVE GoalInv' /\ UnbornInv'
  BY <1>4, ControlKept DEF Kick, table
<1>5. CASE Quit \/ Restart
  BY <1>5, <1>a, ControlKept DEF Quit, Restart, table
<1>6. CASE ClearAll
  BY <1>6, ControlKept DEF ClearAll
<1>7. QED BY <1>1, <1>2, <1>3, <1>4, <1>5, <1>6

\* A child that has ended comes to life no more.
LEMMA ChildFallen ==
  ASSUME TypeOK, FallenInv, NEW c \in Conns, Serve(c) \/ Ask(c)
  PROVE  FallenInv'
<1>1. CASE Depart(c)
  BY <1>1 DEF Depart, FallenInv
<1>2. ASSUME pc[c] \notin {"ended", "reaped"}, fallen' = fallen,
             \A d \in Conns \ {c} : pc'[d] = pc[d]
      PROVE  FallenInv'
  BY <1>2 DEF FallenInv, TypeOK
<1>3. ASSUME NEW k, NEW u, NEW f, GoTo(c, k, f) \/ set_user_quit(c, u, k, f)
      PROVE  \A d \in Conns \ {c} : pc'[d] = pc[d]
  BY <1>3, GoToOne, SearchOne DEF Procs
<1>4. CASE Clear(c) \/ Timeout(c) \/ FindPlace(c) \/ Store(c)
  <2>1. /\ pc[c] \in {"clear", "wait", "enter", "store"} /\ fallen' = fallen
        /\ \E k : GoTo(c, k, fds[c])
    BY <1>4 DEF Clear, Timeout, FindPlace, Store
  <2>2. QED BY <1>2, <1>3, <2>1
<1>5. CASE Top(c)
  <2>1. /\ pc[c] = "top" /\ fallen' = fallen
        /\ GoTo(c, "wait", fds[c]) \/ set_user_quit(c, gusr[c], "wait", fds[c])
    BY <1>5 DEF Top
  <2>2. QED BY <1>2, <1>3, <2>1
<1>6. CASE HangUp(c)
  <2>1. /\ pc[c] = "wait" /\ fallen' = fallen
        /\ \/ GoTo(c, "top", Shut(fds[c], sock[c]))
           \/ set_user_quit(c, Nobody, "ended", fds[c])
    BY <1>6 DEF HangUp
  <2>2. QED BY <1>2, <1>3, <2>1
<1>7. ASSUME NEW u, NEW k, Leave(c, u, k) PROVE FallenInv'
  <2>1. pc[c] = "in" /\ fallen' = fallen /\ set_user_quit(c, name[c], k, fds[c])
    BY <1>7 DEF Leave
  <2>2. QED BY <1>2, <1>3, <2>1
<1>8. CASE Missing(c) \/ Lost(c) \/ Invalid(c)
  BY <1>7, <1>8 DEF Missing, Lost, Invalid
<1>9. ASSUME NEW u, Logout(c, u) PROVE FallenInv'
  BY <1>7, <1>9 DEF Logout
<1>10. ASSUME NEW u, Refuse(c, u) \/ LoginWrong(c, u) \/ Register(c, u) \/ Login(c, u)
       PROVE  FallenInv'
  <2>1. /\ pc[c] = "wait" /\ fallen' = fallen
        /\ \/ \E k : GoTo(c, k, Received(c))
           \/ set_user_quit(c, u, "top", Shut(Received(c), sock[c]))
    BY <1>10 DEF Refuse, LoginWrong, Register, Login, Receive
  <2>2. QED BY <1>2, <1>3, <2>1
<1>11. CASE Command(c) \/ Answer(c) \/ CopyFromNull(c)
  <2>1. \/ fallen' = fallen /\ pc[c] \notin {"ended", "reaped"}
        \/ fallen' = fallen \cup {c} /\ GoTo(c, "ended", fds[c])
    BY <1>11, Serving DEF LoggedIn
  <2>2. \E k : GoTo(c, k, fds[c])
    BY <1>11, Serving
  <2>3. \A d \in Conns \ {c} : pc'[d] = pc[d]
    BY <1>3, <2>2
  <2>4. fallen' = fallen \cup {c} /\ GoTo(c, "ended", fds[c]) => pc'[c] = "ended"
    BY GoToOne
  <2>5. QED BY <1>2, <2>1, <2>3, <2>4 DEF FallenInv, TypeOK
<1>12. QED BY <1>1, <1>4, <1>5, <1>6, <1>8, <1>9, <1>10, <1>11 DEF Serve, Ask

LEMMA MainFallen ==
  ASSUME TypeOK, UnbornInv, FallenInv
  PROVE  /\ \A p \in Procs, c \in Conns : Accept(p, c) \/ func_waitpid(p, c) => FallenInv'
         /\ \A p \in Procs : ReadReturns(p) => FallenInv'
         /\ \A u \in Users : Kick(u) => FallenInv'
         /\ Quit \/ Restart \/ ClearAll => FallenInv'
<1>a. /\ pc \in [Procs -> Controls] /\ Main \notin Conns /\ Conns \subseteq Procs
      /\ fallen \subseteq Conns
  BY ImAssumption DEF TypeOK, Controls, Procs
<1>1. ASSUME NEW p \in Procs, NEW c \in Conns, Accept(p, c) PROVE FallenInv'
  <2>1. pc[c] = "unborn" /\ pc' = [pc EXCEPT ![c] = "top"] /\ fallen' = fallen
    BY <1>1 DEF Accept, UnbornInv
  <2>2. QED BY <1>a, <2>1 DEF FallenInv
<1>2. ASSUME NEW p \in Procs, NEW c \in Conns, func_waitpid(p, c) PROVE FallenInv'
  <2>1. /\ pc[p] = "accept" /\ fallen' = fallen
        /\ \/ pc' = [pc EXCEPT ![c] = "reaped"]
           \/ \E k \in {"accept", "reading"} : pc' = [pc EXCEPT ![c] = "reaped", ![p] = k]
    BY <1>2 DEF func_waitpid
  <2>2. QED BY <1>a, <2>1 DEF FallenInv
<1>3. ASSUME NEW p \in Procs, ReadReturns(p) PROVE FallenInv'
  BY <1>3, <1>a DEF ReadReturns, FallenInv
<1>4. ASSUME NEW u \in Users, Kick(u) PROVE FallenInv'
  BY <1>4 DEF Kick, FallenInv
<1>5. CASE Quit \/ Restart \/ ClearAll
  BY <1>5, <1>a DEF Quit, Restart, ClearAll, FallenInv
<1>6. QED BY <1>1, <1>2, <1>3, <1>4, <1>5

-----------------------------------------------------------------------------
(* Socket numbers *)

\* Nobody has been kicked, no process has ended, and only the main process has accepted.
Calm ==
  ~ kicked /\ \A c \in Conns : boss[c] \in {Main, None} /\ pc[c] \notin {"ended", "reaped"}

Born(c) == peer[c] # "new"

\* What the main process was started with is where it was, until it quits.
MainFds == pc[Main] # "off" => /\ \A n \in {0, 1, 2} : fds[Main][n] # NoFile
                               /\ \A c \in Conns : Born(c) => fds[Main][sock[c]] = c

\* A connection has one number, in every process that has it, and nobody else has that
\* number; a process that has accepted keeps listen_socket, so that no restart can take over.
NumberInv ==
  /\ \A c \in Conns : Born(c) => sock[c] \notin {0, 1, 2} /\ fds[c][2] = Listener
  /\ \A p \in Procs, n \in Fds : /\ fds[p][n] \in Conns => n = sock[fds[p][n]]
                                 /\ n \in {0, 1, 2} \/ fds[p][n] \in Conns \cup {NoFile}
  /\ \A c, d \in Conns : Born(c) /\ Born(d) /\ sock[c] = sock[d] => c = d

\* The table has the number of its connection.
EntryInv ==
  \A i \in Slots : share[i].user # Nobody =>
    share[i].conn \in Conns /\ Born(share[i].conn) /\ share[i].sock = sock[share[i].conn]

PeerInv ==
  /\ \A c \in Conns : ~ Born(c) => boss[c] = None
  /\ Calm => MainFds /\ NumberInv /\ EntryInv

\* A step of child c: it may close one descriptor, not that of listen_socket.
ChildStep(c) ==
  /\ \A p \in Procs \ {c} : fds'[p] = fds[p] /\ pc'[p] = pc[p]
  /\ \A n \in Fds : fds'[c][n] \in {fds[c][n], NoFile}
  /\ Born(c) /\ Calm /\ pc'[c] \notin {"ended", "reaped"} => fds'[c][2] = fds[c][2]

\* The table as it was, cleared, or with the connection of the child.
TableStep(c) ==
  \A i \in Slots : \/ share'[i] = share[i] \/ share'[i].user = Nobody
                   \/ Born(c) /\ share'[i].conn = c /\ share'[i].sock = sock[c]

LEMMA PeerKept ==
  ASSUME TypeOK, PeerInv, NEW c \in Conns, ChildStep(c), TableStep(c),
         UNCHANGED <<boss, sock, kicked>>, \A d \in Conns : Born(d)' = Born(d),
         pc[c] \notin {"ended", "reaped"}
  PROVE  PeerInv'
<1>1. Main \in Procs \ {c} /\ Conns \subseteq Procs
  BY ImAssumption DEF Procs
<1>2. SUFFICES ASSUME Calm' PROVE MainFds' /\ NumberInv' /\ EntryInv'
  BY DEF PeerInv
<1>3. Calm
  BY <1>1, <1>2 DEF Calm, ChildStep
<1>4. MainFds /\ NumberInv /\ EntryInv
  BY <1>3 DEF PeerInv
<1>5. MainFds'
  BY <1>1, <1>4 DEF MainFds, ChildStep
<1>6. \A d \in Conns : Born(d) => fds'[d][2] = Listener
  BY <1>1, <1>2, <1>3, <1>4 DEF ChildStep, NumberInv, Calm
<1>7. \A p \in Procs, n \in Fds : fds'[p][n] \in {fds[p][n], NoFile}
  BY DEF ChildStep
<1>8. NumberInv'
  <2>1. ASSUME NEW p \in Procs, NEW n \in Fds
        PROVE  /\ fds'[p][n] \in Conns => n = sock'[fds'[p][n]]
               /\ n \in {0, 1, 2} \/ fds'[p][n] \in Conns \cup {NoFile}
    BY <1>4, <1>7, ImAssumption DEF NumberInv
  <2>2. QED BY <1>4, <1>6, <2>1 DEF NumberInv
<1>9. EntryInv'
  BY <1>4 DEF EntryInv, TableStep
<1>10. QED BY <1>5, <1>8, <1>9


\* Going on elsewhere, with some descriptors closed.
LEMMA GoToStep ==
  ASSUME TypeOK, NEW c \in Conns, NEW k, NEW f, GoTo(c, k, f),
         \A n \in Fds : f[n] \in {fds[c][n], NoFile}, Born(c) /\ Calm => f[2] = fds[c][2]
  PROVE  ChildStep(c)
BY FdsType DEF TypeOK, GoTo, ChildStep, Nothing, Procs

LEMMA SearchStep ==
  ASSUME TypeOK, NEW c \in Conns, NEW u, NEW k, NEW f, set_user_quit(c, u, k, f),
         \A n \in Fds : f[n] \in {fds[c][n], NoFile}, Born(c) /\ Calm => f[2] = fds[c][2]
  PROVE  ChildStep(c)
BY GoToStep DEF set_user_quit

\* What a child closes: its socket, the end of the pipe, or both.
LEMMA Closes ==
  ASSUME TypeOK, PeerInv, NEW c \in Conns,
         NEW f \in {fds[c], Shut(fds[c], sock[c]), Received(c), Shut(Received(c), sock[c])}
  PROVE  /\ \A n \in Fds : f[n] \in {fds[c][n], NoFile}
         /\ Born(c) /\ Calm => f[2] = fds[c][2]
<1>1. fds[c] \in [Fds -> Files] /\ sock[c] \in Fds /\ 2 \in Fds /\ 0 \in Fds
  BY FdsType DEF TypeOK, Procs
<1>2. Born(c) /\ Calm => sock[c] # 2
  BY DEF PeerInv, NumberInv
<1>3. QED BY <1>1, <1>2 DEF Received, Shut

\* Every step of a child.
LEMMA ChildPeer ==
  ASSUME IInv, PeerInv, NEW c \in Conns, Serve(c) \/ Ask(c)
  PROVE  PeerInv'
<1>a. TypeOK /\ c \in Procs
  BY DEF IInv, Procs
<1>b. pc[c] # "unborn" => Born(c)
  BY DEF IInv, UnbornInv, Born
<1>1. CASE Depart(c)
  <2>1. /\ UNCHANGED <<share, boss, sock, pc, fds, kicked>>
        /\ \A d \in Conns : Born(d)' = Born(d)
    BY <1>1, <1>a DEF Depart, table, child, Born, TypeOK
  <2>2. QED BY <2>1 DEF PeerInv, Calm, MainFds, NumberInv, EntryInv
<1>2. ASSUME ChildStep(c), TableStep(c), pc[c] \notin {"ended", "reaped"},
             UNCHANGED <<peer, boss, sock, kicked>>
      PROVE  PeerInv'
  <2>1. \A d \in Conns : Born(d)' = Born(d)
    BY <1>2 DEF Born
  <2>2. QED BY <1>2, <1>a, <2>1, PeerKept
<1>3. share' = share => TableStep(c)
  BY DEF TableStep
<1>4. ASSUME NEW k, NEW u,
             NEW f \in {fds[c], Shut(fds[c], sock[c]), Received(c), Shut(Received(c), sock[c])},
             GoTo(c, k, f) \/ set_user_quit(c, u, k, f)
      PROVE  ChildStep(c)
  BY <1>4, <1>a, Closes, GoToStep, SearchStep
<1>5. CASE Clear(c)
  <2>1. /\ pc[c] = "clear" /\ GoTo(c, then[c], fds[c]) /\ found[c] \in Slots
        /\ set_n_get_mem(found[c], Empty) /\ UNCHANGED <<peer, boss, sock, kicked>>
    BY <1>5, <1>a DEF Clear, child, TypeOK
  <2>2. share' = IF found[c] = 0 THEN [share EXCEPT ![0] = Empty] ELSE share
    BY <1>a, <2>1, Written
  <2>3. TableStep(c)
    BY <1>a, <2>2 DEF TableStep, TypeOK, Empty
  <2>4. QED BY <1>2, <1>4, <2>1, <2>3
<1>6. CASE Store(c)
  <2> DEFINE e == [user |-> gusr[c], sock |-> sock[c], conn |-> c]
  <2>1. /\ pc[c] = "store" /\ GoTo(c, "in", fds[c]) /\ found[c] \in Slots
        /\ set_n_get_mem(found[c], e) /\ UNCHANGED <<peer, boss, sock, kicked>>
    BY <1>6, <1>a DEF Store, child, TypeOK
  <2>2. share' = IF found[c] = 0 THEN [share EXCEPT ![0] = e] ELSE share
    BY <1>a, <2>1, Written
  <2>3. TableStep(c)
    BY <1>a, <1>b, <2>1, <2>2 DEF TableStep, TypeOK
  <2>4. QED BY <1>2, <1>4, <2>1, <2>3
<1>7. CASE Top(c)
  <2>1. /\ pc[c] = "top" /\ UNCHANGED <<share, peer, boss, sock, kicked>>
        /\ GoTo(c, "wait", fds[c]) \/ set_user_quit(c, gusr[c], "wait", fds[c])
    BY <1>7 DEF Top, child, table, set_user_quit
  <2>2. QED BY <1>2, <1>3, <1>4, <2>1
<1>8. CASE Timeout(c) \/ FindPlace(c)
  <2>1. /\ pc[c] \in {"wait", "enter"} /\ UNCHANGED <<share, peer, boss, sock, kicked>>
        /\ \E k \in {"top", "store"} : GoTo(c, k, fds[c])
    BY <1>8 DEF Timeout, FindPlace, child, table
  <2>2. QED BY <1>2, <1>3, <1>4, <2>1
<1>9. CASE HangUp(c)
  <2>1. /\ pc[c] = "wait" /\ UNCHANGED <<share, peer, boss, sock, kicked>>
        /\ \/ GoTo(c, "top", Shut(fds[c], sock[c]))
           \/ set_user_quit(c, Nobody, "ended", fds[c])
    BY <1>9 DEF HangUp, child, table, set_user_quit
  <2>2. QED BY <1>2, <1>3, <1>4, <2>1
<1>10. ASSUME NEW u, NEW k, Leave(c, u, k) PROVE PeerInv'
  <2>1. /\ pc[c] = "in" /\ UNCHANGED <<share, peer, boss, sock, kicked>>
        /\ set_user_quit(c, name[c], k, fds[c])
    BY <1>10 DEF Leave, child, set_user_quit
  <2>2. QED BY <1>2, <1>3, <1>4, <2>1
<1>11. CASE Missing(c) \/ Lost(c) \/ Invalid(c)
  BY <1>10, <1>11 DEF Missing, Lost, Invalid
<1>12. ASSUME NEW u, Logout(c, u) PROVE PeerInv'
  BY <1>10, <1>12 DEF Logout
<1>13. ASSUME NEW u, Refuse(c, u) \/ LoginWrong(c, u) \/ Register(c, u) PROVE PeerInv'
  <2>1. /\ pc[c] = "wait" /\ UNCHANGED <<share, peer, boss, sock, kicked>>
        /\ \E k \in {"top", "ended"} : GoTo(c, k, Received(c))
    BY <1>13 DEF Refuse, LoginWrong, Register, Receive, child, table
  <2>2. QED BY <1>2, <1>3, <1>4, <2>1
<1>14. ASSUME NEW u, Login(c, u) PROVE PeerInv'
  <2>1. /\ pc[c] = "wait" /\ UNCHANGED <<share, peer, boss, sock, kicked>>
        /\ \/ set_user_quit(c, u, "top", Shut(Received(c), sock[c]))
           \/ GoTo(c, "enter", Received(c))
    BY <1>14 DEF Login, Receive, child, table, set_user_quit
  <2>2. QED BY <1>2, <1>3, <1>4, <2>1
<1>15. CASE Command(c) \/ Answer(c) \/ CopyFromNull(c)
  <2>1. /\ pc[c] \in {"in", "answer"} /\ UNCHANGED <<share, peer, boss, sock, kicked>>
        /\ \E k \in {"in", "answer", "ended"} : GoTo(c, k, fds[c])
    BY <1>15, Serving DEF LoggedIn, child, table
  <2>2. QED BY <1>2, <1>3, <1>4, <2>1
<1>16. QED BY <1>1, <1>5, <1>6, <1>7, <1>8, <1>9, <1>11, <1>12, <1>13, <1>14, <1>15
           DEF Serve, Ask

\* A connection accepted by the main process gets a number that no connection has.
LEMMA AcceptPeer ==
  ASSUME IInv, PeerInv, NEW p \in Procs, NEW c \in Conns, Accept(p, c)
  PROVE  PeerInv'
<1> DEFINE n == Min({m \in Fds : fds[p][m] = NoFile})
           files == [fds[p] EXCEPT ![n] = c]
<1>a. TypeOK /\ DescriptorInv /\ Main \in Procs /\ Main \notin Conns /\ Conns \subseteq Procs
  BY ImAssumption DEF IInv, Procs
<1>1. n \in Fds /\ fds[p][n] = NoFile /\ peer[c] = "new"
  BY <1>a, FreeDescriptor DEF Accept
<1>2. /\ peer' = [peer EXCEPT ![c] = "open"] /\ boss' = [boss EXCEPT ![c] = p]
      /\ sock' = [sock EXCEPT ![c] = n] /\ fds' = [fds EXCEPT ![p] = files, ![c] = files]
      /\ pc' = [pc EXCEPT ![c] = "top"] /\ pc[p] = "accept" /\ fds[p][2] = Listener
      /\ share' = share /\ kicked' = kicked
  BY DEF Accept, table
<1> HIDE DEF n
<1>3. \A d \in Conns : /\ Born(d)' <=> Born(d) \/ d = c
                       /\ boss'[d] = (IF d = c THEN p ELSE boss[d])
                       /\ sock'[d] = (IF d = c THEN n ELSE sock[d])
  BY <1>1, <1>2, <1>a DEF Born, TypeOK
<1>4. \A q \in Procs : fds'[q] = IF q \in {p, c} THEN files ELSE fds[q]
  BY <1>2, <1>a DEF TypeOK
<1>5. \A m \in Fds : files[m] = IF m = n THEN c ELSE fds[p][m]
  BY <1>a DEF TypeOK
<1> HIDE DEF files
<1>6. ~ Born(c) /\ pc[c] = "unborn"
  BY <1>1 DEF Born, IInv, UnbornInv
<1>7. \A d \in Conns : ~ Born(d)' => boss'[d] = None
  BY <1>3 DEF PeerInv
<1>8. ASSUME Calm' PROVE MainFds' /\ NumberInv' /\ EntryInv'
  <2>1. p = Main
    <3>1. boss'[c] = p /\ None \notin Procs
      BY <1>3, ImAssumption
    <3>2. QED BY <1>8, <3>1 DEF Calm
  <2>2. Calm
    <3>1. boss[c] = None
      BY <1>6 DEF PeerInv
    <3>2. \A d \in Conns : d # c => boss'[d] = boss[d] /\ pc'[d] = pc[d]
      BY <1>2, <1>3, <1>a DEF TypeOK
    <3>3. QED BY <1>2, <1>6, <1>8, <3>1, <3>2 DEF Calm
  <2>3. /\ MainFds /\ NumberInv /\ EntryInv /\ pc[Main] = "accept"
    BY <1>2, <2>1, <2>2 DEF PeerInv
  <2>4. \A d \in Conns : Born(d) => fds[p][sock[d]] = d /\ sock[d] \in Fds
    BY <1>a, <2>1, <2>3 DEF MainFds, TypeOK
  <2>5. n \notin {0, 1, 2} /\ \A d \in Conns : Born(d) => sock[d] # n
    BY <1>1, <2>1, <2>3, <2>4, ImAssumption DEF MainFds
  <2>6. MainFds'
    <3>1. \A m \in {0, 1, 2} : fds'[Main][m] # NoFile
      BY <1>4, <1>5, <1>a, <2>1, <2>3, <2>5, FdsType DEF MainFds
    <3>2. \A d \in Conns : Born(d)' => fds'[Main][sock'[d]] = d
      BY <1>1, <1>3, <1>4, <1>5, <1>a, <2>1, <2>4, <2>5
    <3>3. QED BY <3>1, <3>2 DEF MainFds
  <2>7. NumberInv'
    <3>1. \A d \in Conns : Born(d)' => sock'[d] \notin {0, 1, 2}
      BY <1>3, <2>3, <2>5 DEF NumberInv
    <3>2. \A d \in Conns : Born(d)' => fds'[d][2] = Listener
      <4>1. files[2] = Listener
        BY <1>2, <1>5, <2>5, FdsType
      <4>2. ASSUME NEW d \in Conns, Born(d)' PROVE fds'[d][2] = Listener
        <5>1. CASE d = c
          BY <1>4, <1>a, <4>1, <5>1
        <5>2. CASE d # c
          <6>1. fds'[d] = fds[d] /\ Born(d)
            BY <1>3, <1>4, <1>a, <2>1, <4>2, <5>2
          <6>2. QED BY <2>3, <6>1 DEF NumberInv
        <5>3. QED BY <5>1, <5>2
      <4>3. QED BY <4>2
    <3>3. \A q \in Procs, m \in Fds :
            /\ fds'[q][m] \in Conns => m = sock'[fds'[q][m]]
            /\ m \in {0, 1, 2} \/ fds'[q][m] \in Conns \cup {NoFile}
      <4>1. \A q \in Procs, m \in Fds :
              fds'[q][m] \in Conns => \/ fds'[q][m] = c /\ m = n
                                      \/ fds'[q][m] # c /\ m = sock[fds'[q][m]]
        <5>1. \A q \in Procs, m \in Fds : fds[q][m] # c
          BY <1>1, <1>a DEF DescriptorInv
        <5>2. \A m \in Fds : files[m] \in Conns => \/ files[m] = c /\ m = n
                                                   \/ files[m] # c /\ m = sock[files[m]]
          <6>1. \A m \in Fds : fds[p][m] \in Conns => m = sock[fds[p][m]]
            BY <2>3 DEF NumberInv
          <6>2. QED BY <1>5, <5>1, <6>1
        <5>3. \A q \in Procs, m \in Fds : fds[q][m] \in Conns => m = sock[fds[q][m]]
          BY <2>3 DEF NumberInv
        <5>4. QED BY <1>4, <5>1, <5>2, <5>3
      <4>2. \A q \in Procs, m \in Fds : m \in {0, 1, 2} \/ fds'[q][m] \in Conns \cup {NoFile}
        BY <1>4, <1>5, <2>3 DEF NumberInv
      <4>3. QED BY <1>3, <4>1, <4>2
    <3>4. \A d, e \in Conns : Born(d)' /\ Born(e)' /\ sock'[d] = sock'[e] => d = e
      BY <1>3, <2>3, <2>5 DEF NumberInv
    <3>5. QED BY <3>1, <3>2, <3>3, <3>4 DEF NumberInv
  <2>8. EntryInv'
    BY <1>2, <1>3, <1>6, <2>3 DEF EntryInv
  <2>9. QED BY <2>6, <2>7, <2>8
<1>9. QED BY <1>7, <1>8 DEF PeerInv

\* Every other step.
LEMMA MainPeer ==
  ASSUME IInv, PeerInv
  PROVE  /\ \A p \in Procs, c \in Conns : Accept(p, c) \/ func_waitpid(p, c) => PeerInv'
         /\ \A p \in Procs : ReadReturns(p) => PeerInv'
         /\ \A u \in Users : Kick(u) => PeerInv'
         /\ Quit \/ Restart \/ ClearAll => PeerInv'
<1>a. TypeOK /\ Main \in Procs /\ Main \notin Conns /\ Conns \subseteq Procs
  BY ImAssumption DEF IInv, Procs
<1>b. ASSUME peer' = peer, boss' = boss, ~ Calm' PROVE PeerInv'
  BY <1>b DEF PeerInv, Born
<1>1. ASSUME NEW p \in Procs, NEW c \in Conns, func_waitpid(p, c) PROVE PeerInv'
  <2>1. pc[c] = "ended" /\ pc[p] = "accept" /\ peer' = peer /\ boss' = boss
        /\ \/ pc' = [pc EXCEPT ![c] = "reaped"]
           \/ \E k \in {"accept", "reading"} : pc' = [pc EXCEPT ![c] = "reaped", ![p] = k]
    BY <1>1 DEF func_waitpid, child
  <2>2. pc'[c] = "reaped"
    BY <1>a, <2>1 DEF TypeOK
  <2>3. QED BY <1>b, <2>1, <2>2 DEF Calm
<1>2. ASSUME NEW p \in Procs, ReadReturns(p) PROVE PeerInv'
  <2>1. /\ pc[p] = "reading" /\ pc' = [pc EXCEPT ![p] = "accept"]
        /\ UNCHANGED <<share, peer, boss, sock, fds, kicked>>
    BY <1>2 DEF ReadReturns, table, child
  <2>2. /\ pc'[Main] = "off" <=> pc[Main] = "off"
        /\ \A c \in Conns : pc'[c] \in {"ended", "reaped"} <=> pc[c] \in {"ended", "reaped"}
    BY <1>a, <2>1 DEF TypeOK
  <2>3. Calm' => Calm
    BY <2>1, <2>2 DEF Calm
  <2>4. QED BY <2>1, <2>2, <2>3 DEF PeerInv, MainFds, NumberInv, EntryInv, Born
<1>3. ASSUME NEW u \in Users, Kick(u) PROVE PeerInv'
  BY <1>3, <1>b DEF Kick, child, Calm
<1>4. CASE Quit
  <2>1. /\ pc' = [pc EXCEPT ![Main] = "off"] /\ fds' = [fds EXCEPT ![Main] = Nothing]
        /\ UNCHANGED <<share, peer, boss, sock, kicked>>
    BY <1>4 DEF Quit, table, child
  <2>2. /\ \A c \in Conns : pc'[c] = pc[c] /\ fds'[c] = fds[c]
        /\ \A p \in Procs, m \in Fds : fds'[p][m] \in {fds[p][m], NoFile}
        /\ pc'[Main] = "off"
    BY <1>a, <2>1 DEF TypeOK, Nothing, Procs
  <2>3. Calm' => Calm
    BY <2>1, <2>2 DEF Calm
  <2>4. MainFds'
    BY <2>2 DEF MainFds
  <2>5. ASSUME NumberInv PROVE NumberInv'
    <3>1. \A p \in Procs, m \in Fds :
            /\ fds'[p][m] \in Conns => m = sock[fds'[p][m]]
            /\ m \in {0, 1, 2} \/ fds'[p][m] \in Conns \cup {NoFile}
      BY <2>2, <2>5, ImAssumption DEF NumberInv
    <3>2. QED BY <2>1, <2>2, <2>5, <3>1 DEF NumberInv, Born
  <2>6. QED BY <2>1, <2>3, <2>4, <2>5 DEF PeerInv, EntryInv, Born
<1>5. CASE Restart
  <2>1. /\ pc' = [pc EXCEPT ![Main] = "accept"] /\ fds' = [fds EXCEPT ![Main] = Started]
        /\ \A c \in Conns : \A n \in Fds : fds[c][n] # Listener
        /\ UNCHANGED <<share, peer, boss, sock, kicked>>
    BY <1>5 DEF Restart, table, child
  <2>2. /\ \A c \in Conns : pc'[c] = pc[c]
        /\ \A p \in Procs : fds'[p] = IF p = Main THEN Started ELSE fds[p]
    BY <1>a, <2>1 DEF TypeOK
  <2>3. Calm' => Calm
    BY <2>1, <2>2 DEF Calm
  <2>4. ASSUME Calm PROVE MainFds' /\ NumberInv' /\ EntryInv'
    <3>1. NumberInv /\ EntryInv
      BY <2>4 DEF PeerInv
    <3>2. \A c \in Conns : ~ Born(c)
      BY <2>1, <3>1, FdsType DEF NumberInv
    <3>3. MainFds'
      <4>1. \A n \in {0, 1, 2} : Started[n] # NoFile
        BY FdsType, ImAssumption DEF Started
      <4>2. QED BY <1>a, <2>1, <2>2, <3>2, <4>1 DEF MainFds, Born
    <3>4. NumberInv'
      <4>1. \A n \in Fds : Started[n] \notin Conns /\ (n \in {0, 1, 2} \/ Started[n] = NoFile)
        BY ImAssumption DEF Started
      <4>2. QED BY <1>a, <2>1, <2>2, <3>1, <3>2, <4>1 DEF NumberInv, Born
    <3>5. QED BY <2>1, <3>1, <3>3, <3>4 DEF EntryInv, Born
  <2>5. QED BY <2>1, <2>3, <2>4 DEF PeerInv, Born
<1>6. CASE ClearAll
  <2>1. set_n_get_mem(0, Empty) /\ UNCHANGED <<peer, pc, boss, sock, fds, kicked>>
    BY <1>6 DEF ClearAll, child
  <2>2. \A i \in Slots : share'[i] = share[i] \/ share'[i] = Empty
    BY <1>a, <2>1, ImAssumption DEF set_n_get_mem, TypeOK
  <2>3. EntryInv => EntryInv'
    BY <2>1, <2>2 DEF EntryInv, Empty, Born
  <2>4. QED BY <2>1, <2>3 DEF PeerInv, Calm, MainFds, NumberInv, Born
<1>7. QED BY <1>1, <1>2, <1>3, <1>4, <1>5, <1>6, AcceptPeer

LEMMA InitPeer == Init => PeerInv
<1> SUFFICES ASSUME Init PROVE PeerInv
  OBVIOUS
<1>1. /\ \A c \in Conns : ~ Born(c) /\ boss[c] = None
      /\ \A p \in Procs : fds[p] = IF p = Main THEN Started ELSE Nothing
      /\ Main \in Procs
  BY DEF Init, Born, Procs
<1>2. /\ \A n \in Fds : Started[n] \notin Conns /\ Nothing[n] \notin Conns
      /\ \A n \in Fds : n \in {0, 1, 2} \/ (Started[n] = NoFile /\ Nothing[n] = NoFile)
      /\ \A n \in {0, 1, 2} : Started[n] # NoFile
  BY FdsType, ImAssumption DEF Started, Nothing
<1>3. MainFds /\ NumberInv
  BY <1>1, <1>2 DEF MainFds, NumberInv
<1>4. EntryInv
  BY DEF Init, EntryInv, Empty
<1>5. QED BY <1>1, <1>3, <1>4 DEF PeerInv

LEMMA StepPeer == IInv /\ PeerInv /\ [Next]_vars => PeerInv'
<1> SUFFICES ASSUME IInv, PeerInv, [Next]_vars PROVE PeerInv'
  OBVIOUS
<1>1. CASE UNCHANGED vars
  BY <1>1 DEF vars, table, child, PeerInv, Calm, MainFds, NumberInv, EntryInv, Born
<1>2. QED BY <1>1, ChildPeer, MainPeer DEF Next

\* What the table and the descriptors then show.
LEMMA PeerFound ==
  ASSUME IInv, PeerInv
  PROVE  RightPeer
<1> SUFFICES ASSUME Undisturbed, NEW c \in Conns, NEW u \in Users, user_is_line(u)
             PROVE  Sent(c, u) \in {share[Min(SlotsOf(u))].conn, NoFile}
  BY DEF RightPeer
<1> DEFINE i == Min(SlotsOf(u))
<1>1. i \in Slots /\ share[i].user = u /\ u # Nobody
  BY FoundIsSlot, ImAssumption DEF user_is_line
<1>2. Calm
  BY DEF Undisturbed, Calm
<1>3. NumberInv /\ EntryInv
  BY <1>2 DEF PeerInv
<1> HIDE DEF i
<1>4. /\ share[i].conn \in Conns /\ Born(share[i].conn)
      /\ share[i].sock = sock[share[i].conn]
  BY <1>1, <1>3 DEF EntryInv
<1>5. share[i].sock \in Fds /\ share[i].sock \notin {0, 1, 2} /\ c \in Procs
  BY <1>3, <1>4 DEF NumberInv, IInv, TypeOK, Procs
<1>6. fds[c][share[i].sock] \in Conns \cup {NoFile}
  BY <1>3, <1>5 DEF NumberInv
<1>7. ASSUME fds[c][share[i].sock] \in Conns PROVE fds[c][share[i].sock] = share[i].conn
  <2>1. Born(fds[c][share[i].sock])
    BY <1>5, <1>7 DEF IInv, DescriptorInv, Born
  <2>2. share[i].sock = sock[fds[c][share[i].sock]]
    BY <1>3, <1>5, <1>7 DEF NumberInv
  <2>3. QED BY <1>3, <1>4, <1>7, <2>1, <2>2 DEF NumberInv
<1>8. QED BY <1>6, <1>7 DEF Sent, i
-----------------------------------------------------------------------------
(* The theorems *)

LEMMA InitInv == Init => IInv
<1> SUFFICES ASSUME Init PROVE IInv
  OBVIOUS
<1>a. Nothing \in [Fds -> Files] /\ Started \in [Fds -> Files] /\ Main \notin Conns
  BY ImAssumption DEF Nothing, Started, Files
<1>1. TypeOK
  <2>1. share \in [Slots -> Entries]
    BY EmptyType DEF Init
  <2>2. fds \in [Procs -> [Fds -> Files]]
    BY <1>a DEF Init
  <2>3. found \in [Conns -> Slots] /\ sock \in [Conns -> Fds] /\ pipe \in 0 .. MaxPipe
    BY FdsType, ImAssumption DEF Init, Slots
  <2>4. known \in [Procs -> SUBSET Users] /\ errno \in [Procs -> BOOLEAN]
    BY ImAssumption DEF Init
  <2>5. QED BY <2>1, <2>2, <2>3, <2>4 DEF Init, TypeOK, Entries
<1>2. DescriptorInv
  BY ImAssumption DEF Init, DescriptorInv, Started, Nothing
<1>3. GoalInv /\ UnbornInv /\ FallenInv
  BY <1>a DEF Init, GoalInv, UnbornInv, FallenInv, Procs
<1>4. RoomForOne /\ NoStaleEntry
  BY DEF Init, RoomForOne, NoStaleEntry, Empty
<1>5. QED BY <1>1, <1>2, <1>3, <1>4 DEF IInv

LEMMA StepInv == IInv /\ [Next]_vars => IInv'
<1> SUFFICES ASSUME IInv, [Next]_vars PROVE IInv'
  OBVIOUS
<1>a. TypeOK /\ DescriptorInv /\ GoalInv /\ UnbornInv /\ FallenInv
  BY DEF IInv
<1>1. ASSUME NEW c \in Conns, Serve(c) \/ Ask(c) PROVE IInv'
  BY <1>1, <1>a, ServeTypes, AskTypes, ChildFewer, ChildControl, ChildFallen, ChildTable
     DEF IInv
<1>2. ASSUME NEW p \in Procs, NEW c \in Conns, Accept(p, c) \/ func_waitpid(p, c) PROVE IInv'
  BY <1>2, <1>a, AcceptTypes, MainTypes, MainDescriptors, MainControl, MainFallen, MainTable
     DEF IInv
<1>3. ASSUME NEW p \in Procs, ReadReturns(p) PROVE IInv'
  BY <1>3, <1>a, MainTypes, MainDescriptors, MainControl, MainFallen, MainTable
     DEF IInv
<1>4. ASSUME NEW u \in Users, Kick(u) PROVE IInv'
  BY <1>4, <1>a, MainTypes, MainDescriptors, MainControl, MainFallen, MainTable
     DEF IInv
<1>5. CASE Quit \/ Restart \/ ClearAll
  BY <1>5, <1>a, MainTypes, MainDescriptors, MainControl, MainFallen, MainTable
     DEF IInv
<1>6. CASE UNCHANGED vars
  BY <1>6 DEF IInv, TypeOK, DescriptorInv, GoalInv, UnbornInv, FallenInv, RoomForOne,
              NoStaleEntry, Session, LoggedIn, vars, table, child, setting
<1>7. QED BY <1>1, <1>2, <1>3, <1>4, <1>5, <1>6 DEF Next

\* The inductive invariant holds in every reachable state.
THEOREM Invariance == Spec => []IInv
BY InitInv, StepInv, PTL DEF Spec

\* The variables of the chat server keep their types: among other things, a
\* process that accepts always has a free descriptor, and no child forgets what
\* it has to do after clearing an entry.
THEOREM TypeCorrect == Spec => []TypeOK
<1>1. IInv => TypeOK
  BY DEF IInv
<1>2. QED BY <1>1, Invariance, PTL

\* However large the table and however many log in, set_n_get_mem only ever
\* writes its first slot.
THEOREM OnlyFirstSlot == Spec => []RoomForOne
<1>1. IInv => RoomForOne
  BY DEF IInv
<1>2. QED BY <1>1, Invariance, PTL

\* Every entry of the table is that of a process that serves the user it names, however
\* children end, servers restart and steps of processes interleave; or of one that ended
\* while it served a command, because its reply could not be sent or in join_zone.
THEOREM NeverStale == Spec => []NoStaleEntry
<1>1. IInv => NoStaleEntry
  BY DEF IInv
<1>2. QED BY <1>1, Invariance, PTL

\* While nobody was kicked, no process has ended and only the main process accepts, a
\* message by P2P or NDT reaches the client in whose name the table entry is, or
\* nobody: the descriptor that one process wrote into the table means the same
\* connection in every other process that has it open.
THEOREM NeverAThirdClient == Spec => []RightPeer
<1>1. IInv /\ PeerInv => RightPeer
  BY PeerFound
<1>2. Init => PeerInv
  BY InitPeer
<1>3. IInv /\ PeerInv /\ [Next]_vars => PeerInv'
  BY StepPeer
<1>4. QED BY <1>1, <1>2, <1>3, Invariance, PTL DEF Spec

=============================================================================
