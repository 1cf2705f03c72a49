----------------------------- MODULE WebevProofs ------------------------------
(***************************************************************************)
(* Proofs about the HTTP server and the client library, for every set of   *)
(* requests and event bases and for every script of calls.                 *)
(***************************************************************************)
EXTENDS Webev, FiniteSetTheorems, WellFoundedInduction, TLAPS

-----------------------------------------------------------------------------
(* The inductive invariant of the server *)

Replied == {r \in Reqs : reply[r] # None}

\* The request that the handler is at.
Busy == IF handler.pc = "loop" THEN {} ELSE {handler.req}

ServerTypes ==
  /\ \A s \in {arrived, open, gone, forgotten} : s \subseteq Reqs
  /\ reply \in [Reqs -> Statuses \cup {None}]
  /\ handler \in [pc : {"loop", "pipe", "fork", "wait", "close", "read", "respond"},
                  req : Reqs \cup {None}, status : Statuses]
  /\ child \in {"none", "running", "done"}
  /\ pipe \in [status : Statuses \cup {None}, writers : SUBSET {"server", "child"}]
  /\ leaked \in Nat

FiniteInv == IsFiniteSet(open) /\ IsFiniteSet(forgotten) /\ IsFiniteSet(Replied)

\* Every request is accepted once: it waits, or has the handler, or is
\* forgotten, or has its reply.
OnceInv ==
  /\ Busy \subseteq open \ (forgotten \cup Replied)
  /\ arrived \cap (open \cup forgotten \cup Replied) = {}
  /\ open \subseteq forgotten \cup Busy

\* Descriptors: what is open, what the handler holds and what has leaked.
CostInv ==
  /\ Fds <= MaxFds
  /\ leaked <= Cardinality(Replied) + 2 * Cardinality(forgotten)

\* The child, its pipe and the status in the handler belong to the request
\* that the handler is at.
ChildInv ==
  /\ child # "none" => handler.pc = "wait"
  /\ child = "running" \/ handler.pc = "fork" => pipe.status = None
  /\ handler.pc \in {"wait", "close", "read"} =>
       pipe.status \in {None, Outcome(Kind[handler.req])}
  /\ handler.pc \in {"pipe", "fork", "wait", "close", "read"} => handler.status = 0
  /\ handler.pc = "respond" => handler.status \in {0, Outcome(Kind[handler.req])}

ServerInv ==
  ServerTypes /\ FiniteInv /\ OnceInv /\ CostInv /\ ChildInv /\ RightStatus

\* What a request has not yet been: sent.
Unsent(r) == r \notin arrived \cup open \cup forgotten \cup Replied

-----------------------------------------------------------------------------
(* The server's steps *)

LEMMA SizeTypes ==
  ASSUME FiniteInv
  PROVE  /\ Cardinality(open) \in Nat /\ Cardinality(forgotten) \in Nat
         /\ Cardinality(Replied) \in Nat
BY FS_CardinalityType DEF FiniteInv

LEMMA GoToKeeps ==
  ASSUME ServerTypes, NEW p \in {"loop", "pipe", "fork", "wait", "close", "read", "respond"},
         GoTo(p)
  PROVE  /\ handler'.pc = p /\ handler'.req = handler.req
         /\ handler'.status = handler.status
         /\ handler' \in [pc : {"loop", "pipe", "fork", "wait", "close", "read", "respond"},
                          req : Reqs \cup {None}, status : Statuses]
BY DEF ServerTypes, GoTo

\* A step that neither opens nor answers anything, for the handler at a
\* request between the pipe and the reply.
LEMMA HandlerStep ==
  ASSUME ServerInv, UNCHANGED <<arrived, open, gone, reply, forgotten, leaked>>,
         handler.pc # "loop", handler'.pc # "loop", handler'.req = handler.req,
         Ends' = Ends \/ (Ends' < Ends) \/ Fds + Ends' - Ends <= MaxFds
  PROVE  FiniteInv' /\ OnceInv' /\ CostInv' /\ RightStatus'
<1> USE DEF ServerInv
<1>1. Replied' = Replied /\ Busy' = Busy
  BY DEF Replied, Busy
<1>2. FiniteInv' /\ OnceInv'
  BY <1>1 DEF FiniteInv, OnceInv
<1>3. RightStatus'
  BY DEF RightStatus
<1>4. Cardinality(open) \in Nat /\ Ends \in Nat /\ Ends' \in Nat /\ leaked \in Nat
      /\ MaxFds \in Nat
  BY SizeTypes, ServerAssumption DEF Ends, ServerTypes
<1>5. Fds' <= MaxFds
  BY <1>4 DEF CostInv, Fds
<1>6. CostInv'
  BY <1>1, <1>5 DEF CostInv
<1>7. QED BY <1>2, <1>3, <1>6

LEMMA AcceptStep ==
  ASSUME ServerInv, NEW r \in Reqs, Accept(r)
  PROVE  ServerInv'
<1> USE DEF ServerInv
<1>1. /\ handler.pc = "loop" /\ r \in arrived /\ Fds < MaxFds
      /\ arrived' = arrived \ {r} /\ open' = open \cup {r}
      /\ handler' = [pc |-> "pipe", req |-> r, status |-> 0]
      /\ UNCHANGED <<gone, reply, forgotten, child, pipe, leaked>>
  BY DEF Accept
<1>2. handler'.pc = "pipe" /\ handler'.req = r /\ handler'.status = 0
  BY <1>1
<1>3. ServerTypes'
  BY <1>1 DEF ServerTypes, Statuses
<1>4. Replied' = Replied /\ Busy' = {r} /\ Busy = {}
  BY <1>1, <1>2 DEF Replied, Busy
<1>5. OnceInv'
  BY <1>1, <1>4 DEF OnceInv
<1>6. /\ IsFiniteSet(open')
      /\ Cardinality(open') \in {Cardinality(open), Cardinality(open) + 1}
  BY <1>1, FS_AddElement DEF FiniteInv
<1>7. FiniteInv'
  BY <1>1, <1>4, <1>6 DEF FiniteInv
<1>8. CostInv'
  <2>1. Ends = 0 /\ Ends' = 0
    BY <1>1, <1>2 DEF Ends
  <2>2. Cardinality(open) \in Nat /\ leaked \in Nat /\ MaxFds \in Nat
    BY SizeTypes, ServerAssumption DEF ServerTypes
  <2>3. Fds' <= MaxFds
    BY <1>1, <1>6, <2>1, <2>2 DEF Fds
  <2>4. QED BY <1>1, <1>4, <2>3 DEF CostInv
<1>9. ChildInv'
  BY <1>1, <1>2 DEF ChildInv
<1>10. RightStatus'
  BY <1>1 DEF RightStatus
<1>11. QED BY <1>3, <1>5, <1>7, <1>8, <1>9, <1>10

LEMMA CloseStep ==
  ASSUME ServerInv, NEW r \in Reqs, Close(r)
  PROVE  ServerInv'
<1> USE DEF ServerInv
<1>1. /\ handler.pc = "loop" /\ open' = open \ {r}
      /\ UNCHANGED <<arrived, gone, reply, forgotten, handler, child, pipe, leaked>>
  BY DEF Close
<1>2. Replied' = Replied /\ Busy' = {} /\ Busy = {}
  BY <1>1 DEF Replied, Busy
<1>3. /\ IsFiniteSet(open') /\ Cardinality(open') \in Nat
      /\ Cardinality(open') <= Cardinality(open)
  <2>1. IsFiniteSet(open) /\ open' \in SUBSET open
    BY <1>1 DEF FiniteInv
  <2>2. QED BY <2>1, FS_Subset, FS_CardinalityType
<1>4. ServerTypes' /\ FiniteInv' /\ OnceInv' /\ ChildInv' /\ RightStatus'
  BY <1>1, <1>2, <1>3
  DEF ServerTypes, FiniteInv, OnceInv, ChildInv, RightStatus, Outcome
<1>5. CostInv'
  <2>1. Cardinality(open) \in Nat /\ leaked \in Nat /\ MaxFds \in Nat /\ Ends = 0 /\ Ends' = 0
    BY <1>1, SizeTypes, ServerAssumption DEF ServerTypes, Ends
  <2>2. Fds' <= MaxFds
    BY <1>1, <1>3, <2>1 DEF CostInv, Fds
  <2>3. QED BY <1>1, <1>2, <2>2 DEF CostInv
<1>6. QED BY <1>4, <1>5

\* The handler gives its request up, and n descriptors of its own with it.
LEMMA ForgetStep ==
  ASSUME ServerInv, handler.pc \in {"pipe", "fork"}, child = "none", Forget,
         NEW n \in 0 .. 2, leaked' = leaked + n, n = Ends,
         UNCHANGED <<arrived, open, gone, reply, child>>,
         pipe' \in [status : Statuses \cup {None}, writers : SUBSET {"server", "child"}]
  PROVE  ServerInv'
<1> USE DEF ServerInv
<1>1. handler'.pc = "loop" /\ ServerTypes' /\ forgotten' = forgotten \cup {handler.req}
  <2>1. handler.req \in Reqs
    BY DEF OnceInv, Busy, ServerTypes
  <2>2. QED BY <2>1, GoToKeeps DEF Forget, ServerTypes
<1>2. Replied' = Replied /\ Busy' = {} /\ Busy = {handler.req}
  BY <1>1 DEF Replied, Busy
<1>3. handler.req \notin forgotten /\ IsFiniteSet(forgotten)
  BY <1>2 DEF OnceInv, FiniteInv
<1>4. IsFiniteSet(forgotten') /\ Cardinality(forgotten') = Cardinality(forgotten) + 1
  BY <1>1, <1>3, FS_AddElement
<1>5. FiniteInv' /\ OnceInv'
  BY <1>1, <1>2, <1>4 DEF FiniteInv, OnceInv
<1>6. CostInv'
  <2>1. /\ Cardinality(open) \in Nat /\ Cardinality(forgotten) \in Nat
        /\ Cardinality(Replied) \in Nat /\ leaked \in Nat /\ MaxFds \in Nat
    BY SizeTypes, ServerAssumption DEF ServerTypes
  <2>2. Ends' = 0
    BY <1>1 DEF Ends
  <2>3. Fds' = Fds
    BY <2>1, <2>2 DEF Fds
  <2>4. leaked' <= Cardinality(Replied) + 2 * (Cardinality(forgotten) + 1)
    BY <2>1 DEF CostInv
  <2>5. QED BY <1>2, <1>4, <2>3, <2>4, ServerAssumption DEF CostInv
<1>7. ChildInv' /\ RightStatus'
  BY <1>1 DEF ChildInv, RightStatus
<1>8. QED BY <1>1, <1>5, <1>6, <1>7

LEMMA RespondStep ==
  ASSUME ServerInv, Respond
  PROVE  ServerInv'
<1> USE DEF ServerInv
<1> DEFINE r == handler.req
           st == Response(Kind[r], handler.status)
<1>1. /\ handler.pc = "respond" /\ GoTo("loop")
      /\ reply' = [reply EXCEPT ![r] = st]
      /\ open' = open \ {r} /\ leaked' = leaked + 1 /\ pipe' = NoPipe
      /\ UNCHANGED <<arrived, gone, forgotten, child>>
  BY DEF Respond
<1>2. handler'.pc = "loop" /\ handler'.req = r
  BY <1>1, GoToKeeps
<1>3. r \in Reqs /\ r \in open /\ r \notin forgotten \cup Replied
  BY <1>1 DEF OnceInv, Busy, ServerTypes
<1>4. Kind[r] \in Kinds /\ None \notin Statuses
  BY <1>3, ServerAssumption
<1>5. /\ st \in Statuses
      /\ st = Found[Kind[r]] \/ (st = 405 /\ Kind[r] # "options")
  <2>1. handler.status \in {0, Outcome(Kind[r])}
    BY <1>1 DEF ChildInv
  <2>2. CASE Kind[r] = "log"
    BY <2>1, <2>2 DEF Outcome, Response, Found, Statuses
  <2>3. CASE Kind[r] = "badserver"
    BY <2>1, <2>3 DEF Outcome, Response, Found, Statuses
  <2>4. CASE Kind[r] = "options"
    BY <2>4 DEF Response, Found, Statuses
  <2>5. CASE Kind[r] = "other"
    BY <2>1, <2>5 DEF Outcome, Response, Found, Statuses
  <2>6. QED BY <1>4, <2>2, <2>3, <2>4, <2>5 DEF Kinds
<1> HIDE DEF r, st
<1>6. reply'[r] = st /\ \A q \in Reqs \ {r} : reply'[q] = reply[q]
  BY <1>1, <1>3 DEF ServerTypes
<1>7. st # None /\ Replied' = Replied \cup {r} /\ Busy' = {} /\ Busy = {r}
  BY <1>1, <1>2, <1>3, <1>4, <1>5, <1>6 DEF Replied, Busy, r
<1>8. ServerTypes'
  <2>1. reply' \in [Reqs -> Statuses \cup {None}]
    BY <1>1, <1>5 DEF ServerTypes
  <2>2. pipe' \in [status : Statuses \cup {None}, writers : SUBSET {"server", "child"}]
    BY <1>1 DEF NoPipe
  <2>3. QED BY <1>1, <2>1, <2>2, GoToKeeps DEF ServerTypes
<1>9. OnceInv'
  BY <1>1, <1>3, <1>7 DEF OnceInv
<1>10. /\ IsFiniteSet(Replied') /\ Cardinality(Replied') = Cardinality(Replied) + 1
  BY <1>3, <1>7, FS_AddElement DEF FiniteInv
<1>11. /\ IsFiniteSet(open') /\ Cardinality(open') = Cardinality(open) - 1
  BY <1>1, <1>3, FS_RemoveElement DEF FiniteInv
<1>12. FiniteInv'
  BY <1>1, <1>10, <1>11 DEF FiniteInv
<1>13. CostInv'
  <2>1. /\ Cardinality(open) \in Nat /\ Cardinality(forgotten) \in Nat
        /\ Cardinality(Replied) \in Nat /\ leaked \in Nat /\ MaxFds \in Nat
    BY SizeTypes, ServerAssumption DEF ServerTypes
  <2>2. Ends = 1 /\ Ends' = 0
    BY <1>1, <1>2 DEF Ends
  <2>3. Fds' <= MaxFds
    BY <1>1, <1>11, <2>1, <2>2 DEF Fds, CostInv
  <2>4. leaked' <= Cardinality(Replied) + 1 + 2 * Cardinality(forgotten)
    BY <1>1, <2>1 DEF CostInv
  <2>5. QED BY <1>1, <1>10, <2>3, <2>4 DEF CostInv
<1>14. ChildInv'
  BY <1>1, <1>2 DEF ChildInv
<1>15. RightStatus'
  BY <1>5, <1>6 DEF RightStatus
<1>16. QED BY <1>8, <1>9, <1>12, <1>13, <1>14, <1>15

\* Every step of the server and of the child that it has forked keeps the
\* invariant.
LEMMA ServerKeeps ==
  ASSUME ServerInv, ServerStep \/ ChildStep
  PROVE  ServerInv'
<1> USE DEF ServerInv
<1>1. ASSUME handler.pc = "pipe", MakePipe PROVE ServerInv'
  <2>1. UNCHANGED <<arrived, open, gone, reply, child, leaked>> /\ child = "none"
    BY <1>1 DEF MakePipe, ChildInv, ServerTypes
  <2>2. CASE Fds + 2 <= MaxFds
    <3>1. /\ GoTo("fork") /\ forgotten' = forgotten
          /\ pipe' = [status |-> None, writers |-> {"server"}]
      BY <1>1, <2>2 DEF MakePipe
    <3>2. ServerTypes' /\ handler'.pc = "fork" /\ handler'.req = handler.req
          /\ handler'.status = handler.status /\ pipe'.status = None
      BY <2>1, <3>1, GoToKeeps DEF ServerTypes
    <3>3. Ends = 0 /\ Ends' = 2
      BY <1>1, <3>2 DEF Ends
    <3>4. Fds + Ends' - Ends <= MaxFds
      BY <2>2, <3>3
    <3>5. FiniteInv' /\ OnceInv' /\ CostInv' /\ RightStatus'
      BY <1>1, <2>1, <3>1, <3>2, <3>4, HandlerStep
    <3>6. ChildInv'
      BY <1>1, <2>1, <3>2 DEF ChildInv
    <3>7. QED BY <3>2, <3>5, <3>6
  <2>3. CASE ~ (Fds + 2 <= MaxFds)
    <3>1. Forget /\ pipe' = pipe
      BY <1>1, <2>3 DEF MakePipe
    <3>2. leaked' = leaked + 0 /\ Ends = 0
      BY <1>1, <2>1 DEF Ends, ServerTypes
    <3>3. pipe' \in [status : Statuses \cup {None}, writers : SUBSET {"server", "child"}]
      BY <3>1 DEF ServerTypes
    <3>4. QED BY <1>1, <2>1, <3>1, <3>2, <3>3, ForgetStep
  <2>4. QED BY <2>2, <2>3
<1>2. CASE Fork
  <2>1. /\ handler.pc = "fork" /\ GoTo("wait") /\ child' = "running"
        /\ pipe' = [pipe EXCEPT !.writers = @ \cup {"child"}]
        /\ UNCHANGED <<arrived, open, gone, reply, forgotten, leaked>>
    BY <1>2 DEF Fork
  <2>2. handler'.pc = "wait" /\ handler'.req = handler.req /\ handler'.status = handler.status
    BY <2>1, GoToKeeps
  <2>3. pipe'.status = pipe.status /\ pipe.status = None
        /\ pipe' \in [status : Statuses \cup {None}, writers : SUBSET {"server", "child"}]
    BY <2>1 DEF ServerTypes, ChildInv
  <2>4. ServerTypes'
    BY <2>1, <2>3, GoToKeeps DEF ServerTypes
  <2>5. Ends' = Ends
    BY <2>1, <2>2 DEF Ends
  <2>6. FiniteInv' /\ OnceInv' /\ CostInv' /\ RightStatus'
    BY <2>1, <2>2, <2>5, HandlerStep
  <2>7. ChildInv'
    BY <2>1, <2>2, <2>3 DEF ChildInv
  <2>8. QED BY <2>4, <2>6, <2>7
<1>3. CASE ForkFails
  <2>1. /\ handler.pc = "fork" /\ Forget /\ leaked' = leaked + 2 /\ pipe' = NoPipe
        /\ UNCHANGED <<arrived, open, gone, reply, child>>
    BY <1>3 DEF ForkFails
  <2>2. child = "none" /\ Ends = 2
    BY <2>1 DEF ChildInv, ServerTypes, Ends
  <2>3. pipe' \in [status : Statuses \cup {None}, writers : SUBSET {"server", "child"}]
    BY <2>1 DEF NoPipe
  <2>4. QED BY <2>1, <2>2, <2>3, ForgetStep
<1>4. ASSUME child = "running", child' = "done",
             UNCHANGED <<arrived, open, gone, reply, forgotten, handler, leaked>>,
             pipe' \in [status : Statuses \cup {None}, writers : SUBSET {"server", "child"}],
             pipe'.status \in {None, Outcome(Kind[handler.req])}
      PROVE  ServerInv'
  <2>1. handler.pc = "wait"
    BY <1>4 DEF ChildInv
  <2>2. ServerTypes'
    BY <1>4 DEF ServerTypes
  <2>3. Ends' = Ends
    BY <1>4 DEF Ends
  <2>4. FiniteInv' /\ OnceInv' /\ CostInv' /\ RightStatus'
    BY <1>4, <2>1, <2>3, HandlerStep
  <2>5. ChildInv'
    BY <1>4, <2>1 DEF ChildInv, Outcome
  <2>6. QED BY <2>2, <2>4, <2>5
<1>5. CASE ChildWrites
  <2>1. pipe' = [status |-> Outcome(Kind[handler.req]), writers |-> pipe.writers \ {"child"}]
    BY <1>5 DEF ChildWrites
  <2>2. Outcome(Kind[handler.req]) \in Statuses
    BY DEF Outcome, Statuses
  <2>3. QED BY <1>4, <1>5, <2>1, <2>2 DEF ChildWrites, ServerTypes
<1>6. CASE ChildDies
  <2>1. child = "running" /\ pipe' = [pipe EXCEPT !.writers = @ \ {"child"}]
    BY <1>6 DEF ChildDies
  <2>2. pipe'.status = None
        /\ pipe' \in [status : Statuses \cup {None}, writers : SUBSET {"server", "child"}]
    BY <2>1 DEF ServerTypes, ChildInv
  <2>3. QED BY <1>4, <1>6, <2>2 DEF ChildDies
<1>7. CASE Wait
  <2>1. /\ handler.pc = "wait" /\ child' = "none" /\ GoTo("close")
        /\ UNCHANGED <<arrived, open, gone, reply, forgotten, pipe, leaked>>
    BY <1>7 DEF Wait
  <2>2. handler'.pc = "close" /\ handler'.req = handler.req /\ handler'.status = handler.status
    BY <2>1, GoToKeeps
  <2>3. ServerTypes' /\ Ends' = Ends
    BY <2>1, <2>2, GoToKeeps DEF ServerTypes, Ends
  <2>4. FiniteInv' /\ OnceInv' /\ CostInv' /\ RightStatus'
    BY <2>1, <2>2, <2>3, HandlerStep
  <2>5. ChildInv'
    BY <2>1, <2>2 DEF ChildInv
  <2>6. QED BY <2>3, <2>4, <2>5
<1>8. CASE CloseEnd
  <2>1. /\ handler.pc = "close" /\ GoTo("read")
        /\ pipe' = [pipe EXCEPT !.writers = @ \ {"server"}]
        /\ UNCHANGED <<arrived, open, gone, reply, forgotten, child, leaked>>
    BY <1>8 DEF CloseEnd
  <2>2. handler'.pc = "read" /\ handler'.req = handler.req /\ handler'.status = handler.status
    BY <2>1, GoToKeeps
  <2>3. pipe'.status = pipe.status
        /\ pipe' \in [status : Statuses \cup {None}, writers : SUBSET {"server", "child"}]
    BY <2>1 DEF ServerTypes
  <2>4. ServerTypes' /\ Ends' = 1 /\ Ends = 2
    BY <2>1, <2>2, <2>3, GoToKeeps DEF ServerTypes, Ends
  <2>5. FiniteInv' /\ OnceInv' /\ CostInv' /\ RightStatus'
    BY <2>1, <2>2, <2>4, HandlerStep
  <2>6. ChildInv'
    BY <2>1, <2>2, <2>3 DEF ChildInv
  <2>7. QED BY <2>4, <2>5, <2>6
<1>9. CASE Read
  <2>1. /\ handler.pc = "read"
        /\ handler' = [handler EXCEPT !.pc = "respond",
                         !.status = IF pipe.status = None THEN @ ELSE pipe.status]
        /\ UNCHANGED <<arrived, open, gone, reply, forgotten, child, pipe, leaked>>
    BY <1>9 DEF Read
  <2>2. /\ handler'.pc = "respond" /\ handler'.req = handler.req
        /\ handler'.status = IF pipe.status = None THEN handler.status ELSE pipe.status
    BY <2>1 DEF ServerTypes
  <2>3. ServerTypes' /\ Ends' = Ends
    BY <2>1, <2>2 DEF ServerTypes, Ends
  <2>4. FiniteInv' /\ OnceInv' /\ CostInv' /\ RightStatus'
    BY <2>1, <2>2, <2>3, HandlerStep
  <2>5. ChildInv'
    BY <2>1, <2>2 DEF ChildInv
  <2>6. QED BY <2>3, <2>4, <2>5
<1>10. QED
  BY <1>1, <1>2, <1>3, <1>5, <1>6, <1>7, <1>8, <1>9, AcceptStep, CloseStep, RespondStep
  DEF ServerStep, ChildStep, MakePipe

\* A step of the clients: some may go, and a request may be sent.
LEMMA ClientsKeep ==
  ASSUME ServerInv, UNCHANGED <<open, reply, forgotten, handler, child, pipe, leaked>>,
         gone' \subseteq Reqs,
         \/ arrived' = arrived
         \/ \E r \in Reqs : Unsent(r) /\ arrived' = arrived \cup {r}
  PROVE  ServerInv'
<1> USE DEF ServerInv
<1>1. Replied' = Replied /\ Busy' = Busy /\ Ends' = Ends
  BY DEF Replied, Busy, Ends
<1>2. ServerTypes' /\ FiniteInv'
  BY <1>1 DEF ServerTypes, FiniteInv
<1>3. OnceInv'
  BY <1>1 DEF OnceInv, Unsent
<1>4. CostInv' /\ RightStatus' /\ ChildInv'
  BY <1>1 DEF CostInv, Fds, RightStatus, ChildInv, Outcome
<1>5. QED BY <1>2, <1>3, <1>4

-----------------------------------------------------------------------------
(* The client *)

Pcs == {"unborn", "start", "prepare", "made", "dispatch", "answered", "return", "done"}
Threads == [pc : Pcs, base : Bases \cup {None}]
Mains ==
  [pc : {"idle", "pass", "wait", "break", "join", "nap", "gather"},
   call : 1 .. Len(script) + 1, base : Bases \cup {None}, count : 0 .. MaxCount + 1]
ClientTypes ==
  /\ script \in Scripts
  /\ proc \in {"running", "returned", "exit", "crash"}
  /\ main \in Mains
  /\ details \in [Calls -> Bases \cup {None}]
  /\ thread \in [Calls -> Threads]
  /\ allocated \subseteq Bases /\ g_msgRecv \in [Bases -> Calls \cup {None}]

\* Calls are made one after the other, and each sends its request once.
Unmade == {"unborn", "start", "prepare", "made"}
CallInv ==
  /\ main.pc # "idle" => main.call \in Calls
  /\ \A k \in Calls : k > main.call \/ (k = main.call /\ main.pc = "idle") =>
                        thread[k].pc = "unborn"
  /\ \A k \in Calls : thread[k].pc \in Unmade => Unsent(k)

\* Every thread at work has an allocated base, and no two have the same.
Working == {k \in Calls : thread[k].pc \in {"prepare", "made", "dispatch", "answered"}}
BaseInv ==
  /\ allocated = {thread[k].base : k \in Working}
  /\ \A j, k \in Working : thread[j].base = thread[k].base => j = k

ClientInv == ClientTypes /\ CallInv /\ BaseInv

\* What the assumptions say of a script.
LEMMA ScriptShape ==
  ASSUME ClientTypes
  PROVE  /\ Len(script) \in Nat /\ Calls = 1 .. Len(script) /\ Calls \subseteq Reqs
         /\ script # <<>> /\ ~ script[1].reuse
         /\ IsFiniteSet(Calls)
<1>1. /\ script \in Seq([hook : BOOLEAN, reuse : BOOLEAN]) /\ DOMAIN script \subseteq Reqs
      /\ script # <<>> /\ ~ script[1].reuse
  BY ClientAssumption DEF ClientTypes
<1>2. Len(script) \in Nat /\ Calls = 1 .. Len(script)
  BY <1>1 DEF Calls
<1>3. QED BY <1>1, <1>2, FS_Interval DEF Calls

\* A nonempty set of naturals with a bound has a largest element.
LEMMA LargestExists ==
  ASSUME NEW n \in Nat, NEW T \in SUBSET (0 .. n), T # {}
  PROVE  \E x \in T : \A y \in T : y <= x
<1> DEFINE R == OpToRel(<, Nat)
           U == {n - x : x \in T}
<1>1. IsWellFoundedOn(R, Nat)
  BY NatLessThanWellFounded, Zenon
<1>2. \A x, y \in Nat : x < y => <<x, y>> \in R
  BY Zenon DEF OpToRel
<1>3. \A x \in T : x \in Nat /\ x <= n /\ n - x \in Nat
  OBVIOUS
<1>4. U \subseteq Nat /\ U # {}
  BY <1>3
<1>5. \A x \in T : n - x \in U
  OBVIOUS
<1>6. \A x \in U : \E y \in T : x = n - y
  OBVIOUS
<1> HIDE DEF R, U
<1>7. \E x \in U : \A y \in U : ~ (<<y, x>> \in R)
  BY <1>1, <1>4, WFMin
<1>8. PICK x \in U : \A y \in U : ~ (y < x)
  BY <1>2, <1>4, <1>7
<1>9. PICK z \in T : x = n - z
  BY <1>6
<1>10. \A y \in T : y <= z
  BY <1>3, <1>5, <1>8, <1>9
<1>11. QED BY <1>10

\* Every call uses the detail of some call, its own or an earlier one.
LEMMA DetailIsCall ==
  ASSUME ClientTypes, NEW k \in Calls
  PROVE  Detail(k) \in Calls
<1> DEFINE T == {j \in 1 .. k : ~ script[j].reuse}
<1>1. Len(script) \in Nat /\ Calls = 1 .. Len(script) /\ ~ script[1].reuse
  BY ScriptShape
<1>2. k \in Nat /\ T \in SUBSET (0 .. k) /\ 1 \in T
  BY <1>1
<1>3. PICK j \in T : \A i \in T : i <= j
  <2> HIDE DEF T
  <2>1. T # {}
    BY <1>2
  <2>2. QED BY <1>2, <2>1, LargestExists
<1>4. j \in 1 .. k /\ ~ script[j].reuse /\ \A i \in j + 1 .. k : script[i].reuse
  BY <1>2, <1>3
<1>5. Detail(k) \in 1 .. k
  BY <1>4 DEF Detail
<1>6. QED BY <1>1, <1>5

\* What a step of one thread does to its record and to the others.
LEMMA ThreadMoves ==
  ASSUME ClientTypes, NEW k \in Calls, NEW p \in Pcs, ThreadTo(k, p)
  PROVE  /\ thread' \in [Calls -> Threads]
         /\ thread'[k].pc = p /\ thread'[k].base = thread[k].base
         /\ \A j \in Calls \ {k} : thread'[j] = thread[j]
BY DEF ClientTypes, ThreadTo, Threads

\* A thread that does not change sides keeps the bases as they are.
LEMMA BasesKept ==
  ASSUME ClientTypes, BaseInv, allocated' = allocated, Calls' = Calls,
         \A j \in Calls : thread'[j].base = thread[j].base,
         Working' = Working
  PROVE  BaseInv'
BY DEF BaseInv, Working

\* No step of the server touches a request that has not been sent.
LEMMA UnsentStays ==
  ASSUME ServerInv, ServerStep \/ ChildStep, NEW r \in Reqs, Unsent(r)
  PROVE  Unsent(r)'
<1> USE DEF Unsent, Replied
<1>1. handler.pc # "loop" => handler.req \in open
  BY DEF ServerInv, OnceInv, Busy
<1>2. CASE \E q \in Reqs : Accept(q) \/ Close(q)
  BY <1>2 DEF Accept, Close
<1>3. ASSUME Forget, handler.pc # "loop", UNCHANGED <<arrived, open, reply>>
      PROVE  Unsent(r)'
  BY <1>1, <1>3 DEF Forget
<1>4. CASE MakePipe
  BY <1>3, <1>4 DEF MakePipe
<1>5. CASE ForkFails
  BY <1>3, <1>5 DEF ForkFails
<1>6. CASE Fork \/ Wait \/ CloseEnd \/ Read \/ ChildStep
  BY <1>6 DEF Fork, Wait, CloseEnd, Read, ChildStep, ChildWrites, ChildDies
<1>7. CASE Respond
  BY <1>1, <1>7 DEF Respond, ServerInv, ServerTypes
<1>8. QED BY <1>2, <1>4, <1>5, <1>6, <1>7 DEF ServerStep

Inv == ServerInv /\ ClientInv

\* A step of thread k that leaves it without a base of its own.
LEMMA ReleaseStep ==
  ASSUME ClientInv, Calls' = Calls, NEW k \in Working, Release(k)
  PROVE  BaseInv' /\ thread' \in [Calls -> Threads] /\ allocated' \subseteq Bases
         /\ thread'[k].pc = "return" /\ \A j \in Calls \ {k} : thread'[j] = thread[j]
<1> USE DEF ClientInv
<1>1. /\ k \in Calls /\ allocated' = allocated \ {thread[k].base}
      /\ thread' = [thread EXCEPT ![k] = [pc |-> "return", base |-> None]]
  BY DEF Working, Release
<1>2. /\ thread'[k] = [pc |-> "return", base |-> None]
      /\ \A j \in Calls \ {k} : thread'[j] = thread[j]
      /\ thread' \in [Calls -> Threads]
  BY <1>1 DEF ClientTypes, Threads, Pcs
<1>3. Working' = Working \ {k}
  BY <1>1, <1>2 DEF Working
<1>4. allocated' = {thread'[j].base : j \in Working \ {k}}
  <2>1. \A j \in Working \ {k} : thread'[j] = thread[j] /\ thread[j].base # thread[k].base
    BY <1>2 DEF BaseInv, Working
  <2>2. QED BY <1>1, <2>1 DEF BaseInv
<1>5. \A i, j \in Working \ {k} : thread'[i].base = thread'[j].base => i = j
  BY <1>2 DEF BaseInv, Working
<1>6. QED BY <1>1, <1>2, <1>3, <1>4, <1>5 DEF BaseInv, ClientTypes

\* A step of thread k from p to q.
LEMMA ThreadKeepsCalls ==
  ASSUME ClientInv, UNCHANGED <<script, main>>, NEW k \in Calls,
         thread[k].pc # "unborn",
         thread'[k].pc \in Unmade => thread[k].pc \in Unmade,
         \A j \in Calls \ {k} : thread'[j] = thread[j],
         \A j \in Calls : thread'[j].pc \in Unmade /\ Unsent(j) => Unsent(j)'
  PROVE  CallInv'
<1> USE DEF ClientInv
<1>1. Calls' = Calls
  BY DEF Calls
<1>2. main.pc' # "idle" => main.call' \in Calls
  BY <1>1 DEF CallInv
<1>3. ASSUME NEW j \in Calls, thread'[j].pc \in Unmade PROVE Unsent(j)'
  BY <1>3 DEF CallInv
<1>4. ASSUME NEW j \in Calls, j > main.call \/ (j = main.call /\ main.pc = "idle")
      PROVE  thread'[j].pc = "unborn"
  BY <1>4 DEF CallInv
<1>5. QED BY <1>1, <1>2, <1>3, <1>4 DEF CallInv

LEMMA ThreadStepKeeps ==
  ASSUME Inv, NEW k \in Calls, ThreadStep(k)
  PROVE  Inv'
<1> USE DEF Inv, ClientInv
<1>1. /\ UNCHANGED <<script, main>> /\ Calls' = Calls /\ Calls \subseteq Reqs
  BY ScriptShape
  DEF ThreadStep, NewBase, PrepareFails, Prepare, FileFails, MakeRequest, ReadChunk,
      DispatchEnds, Return, Calls
<1>2. /\ UNCHANGED <<open, reply, forgotten, handler, child, pipe, leaked>>
      /\ gone' \subseteq Reqs
      /\ proc' \in {"running", "returned", "exit", "crash"}
  BY <1>1
  DEF ThreadStep, NewBase, PrepareFails, Prepare, FileFails, MakeRequest, ReadChunk,
      DispatchEnds, Return, serverVars, End, ServerInv, ServerTypes, ClientTypes
<1>3. ASSUME arrived' = arrived PROVE ServerInv'
  BY <1>2, <1>3, ClientsKeep
<1>4. ASSUME arrived' = arrived PROVE \A j \in Calls : Unsent(j) => Unsent(j)'
  BY <1>2, <1>4 DEF Unsent, Replied
<1>5. ASSUME /\ details' \in [Calls -> Bases \cup {None}]
             /\ thread' \in [Calls -> Threads] /\ allocated' \subseteq Bases
             /\ g_msgRecv' \in [Bases -> Calls \cup {None}]
      PROVE  ClientTypes'
  BY <1>1, <1>2, <1>5 DEF ClientTypes, Mains
<1>6. ASSUME arrived' = arrived, thread[k].pc # "unborn",
             thread'[k].pc \in Unmade => thread[k].pc \in Unmade,
             \A j \in Calls \ {k} : thread'[j] = thread[j]
      PROVE  CallInv'
  BY <1>1, <1>4, <1>6, ThreadKeepsCalls
<1>7. CASE NewBase(k)
  <2>1. /\ thread[k].pc = "start" /\ UNCHANGED <<arrived, details, g_msgRecv>>
    BY <1>7 DEF NewBase, Runs, serverVars
  <2>2. ASSUME NEW b \in Bases \ allocated,
               thread' = [thread EXCEPT ![k].pc = "prepare", ![k].base = b],
               allocated' = allocated \cup {b}
        PROVE  Inv'
    <3>1. /\ thread' \in [Calls -> Threads] /\ thread'[k].pc = "prepare"
          /\ thread'[k].base = b /\ \A j \in Calls \ {k} : thread'[j] = thread[j]
      BY <2>2 DEF ClientTypes, Threads, Pcs
    <3>2. Working' = Working \cup {k} /\ k \notin Working
      BY <1>1, <2>1, <3>1 DEF Working
    <3>3. allocated' = {thread'[j].base : j \in Working'}
      <4>1. \A j \in Working : thread'[j] = thread[j]
        BY <3>1, <3>2 DEF Working
      <4>2. {thread'[j].base : j \in Working} = allocated
        BY <4>1 DEF BaseInv
      <4>3. {thread'[j].base : j \in Working \cup {k}}
              = {thread'[j].base : j \in Working} \cup {thread'[k].base}
        OBVIOUS
      <4>4. QED BY <2>2, <3>1, <3>2, <4>2, <4>3
    <3>4. \A j \in Working : thread[j].base # b /\ thread'[j] = thread[j]
      BY <2>2, <3>1, <3>2 DEF BaseInv, Working
    <3>5. \A i, j \in Working' : thread'[i].base = thread'[j].base => i = j
      BY <3>1, <3>2, <3>4 DEF BaseInv
    <3>6. BaseInv'
      BY <3>3, <3>5 DEF BaseInv
    <3>7. ClientTypes' /\ CallInv'
      BY <1>5, <1>6, <2>1, <2>2, <3>1 DEF ClientTypes, Unmade
    <3>8. QED BY <1>3, <2>1, <3>6, <3>7
  <2>3. CASE ThreadTo(k, "return") /\ UNCHANGED allocated
    <3>1. /\ thread' \in [Calls -> Threads] /\ thread'[k].pc = "return"
          /\ thread'[k].base = thread[k].base
          /\ \A j \in Calls \ {k} : thread'[j] = thread[j]
      BY <2>3, ThreadMoves DEF Pcs
    <3>2. Working' = Working
      BY <1>1, <2>1, <3>1 DEF Working
    <3>3. BaseInv'
      BY <1>1, <2>3, <3>1, <3>2, BasesKept
    <3>4. ClientTypes' /\ CallInv'
      BY <1>5, <1>6, <2>1, <2>3, <3>1 DEF ClientTypes, Unmade
    <3>5. QED BY <1>3, <2>1, <3>3, <3>4
  <2>4. QED BY <1>7, <2>2, <2>3 DEF NewBase
<1>8. ASSUME thread[k].pc \in {"prepare", "made", "dispatch", "answered"}, Release(k),
             UNCHANGED <<arrived, details, g_msgRecv>>
      PROVE  Inv'
  <2>1. k \in Working
    BY <1>8 DEF Working
  <2>2. /\ BaseInv' /\ thread' \in [Calls -> Threads] /\ allocated' \subseteq Bases
        /\ thread'[k].pc = "return" /\ \A j \in Calls \ {k} : thread'[j] = thread[j]
    BY <1>1, <1>8, <2>1, ReleaseStep
  <2>3. ClientTypes' /\ CallInv'
    BY <1>5, <1>6, <1>8, <2>2 DEF ClientTypes, Unmade
  <2>4. QED BY <1>3, <1>8, <2>2, <2>3
<1>9. CASE PrepareFails(k) \/ FileFails(k) \/ DispatchEnds(k)
  BY <1>8, <1>9 DEF PrepareFails, FileFails, DispatchEnds, Runs, serverVars
<1>10. CASE Prepare(k)
  <2>1. /\ thread[k].pc = "prepare" /\ ThreadTo(k, "made")
        /\ details' = [details EXCEPT ![Detail(k)] = thread[k].base]
        /\ UNCHANGED <<arrived, allocated, g_msgRecv>>
    BY <1>10 DEF Prepare, Runs, serverVars
  <2>2. /\ thread' \in [Calls -> Threads] /\ thread'[k].pc = "made"
        /\ thread'[k].base = thread[k].base
        /\ \A j \in Calls \ {k} : thread'[j] = thread[j]
    BY <2>1, ThreadMoves DEF Pcs
  <2>3. Working' = Working
    BY <1>1, <2>1, <2>2 DEF Working
  <2>4. BaseInv'
    BY <1>1, <2>1, <2>2, <2>3, BasesKept
  <2>5. details' \in [Calls -> Bases \cup {None}]
    BY <2>1 DEF ClientTypes, Threads
  <2>6. ClientTypes' /\ CallInv'
    BY <1>5, <1>6, <2>1, <2>2, <2>5 DEF ClientTypes, Unmade
  <2>7. QED BY <1>3, <2>1, <2>4, <2>6
<1>11. CASE MakeRequest(k)
  <2>1. /\ thread[k].pc = "made" /\ ThreadTo(k, "dispatch") /\ arrived' = arrived \cup {k}
        /\ UNCHANGED <<details, allocated, g_msgRecv>>
    BY <1>11 DEF MakeRequest, Runs
  <2>2. /\ thread' \in [Calls -> Threads] /\ thread'[k].pc = "dispatch"
        /\ thread'[k].base = thread[k].base
        /\ \A j \in Calls \ {k} : thread'[j] = thread[j]
    BY <2>1, ThreadMoves DEF Pcs
  <2>3. Working' = Working
    BY <1>1, <2>1, <2>2 DEF Working
  <2>4. BaseInv'
    BY <1>1, <2>1, <2>2, <2>3, BasesKept
  <2>5. Unsent(k)
    BY <2>1 DEF CallInv, Unmade
  <2>6. ServerInv'
    BY <1>1, <1>2, <2>1, <2>5, ClientsKeep
  <2>7. \A j \in Calls \ {k} : Unsent(j) => Unsent(j)'
    BY <1>2, <2>1 DEF Unsent, Replied
  <2>8. CallInv'
    BY <1>1, <2>1, <2>2, <2>7, ThreadKeepsCalls DEF Unmade
  <2>9. ClientTypes'
    BY <1>5, <2>1, <2>2 DEF ClientTypes
  <2>10. QED BY <2>4, <2>6, <2>8, <2>9
<1>12. CASE ReadChunk(k)
  <2>1. /\ thread[k].pc = "dispatch" /\ ThreadTo(k, "answered")
        /\ g_msgRecv' = [g_msgRecv EXCEPT ![thread[k].base] = k]
        /\ UNCHANGED <<arrived, details, allocated>>
    BY <1>12 DEF ReadChunk, Runs
  <2>2. /\ thread' \in [Calls -> Threads] /\ thread'[k].pc = "answered"
        /\ thread'[k].base = thread[k].base
        /\ \A j \in Calls \ {k} : thread'[j] = thread[j]
    BY <2>1, ThreadMoves DEF Pcs
  <2>3. Working' = Working
    BY <1>1, <2>1, <2>2 DEF Working
  <2>4. BaseInv'
    BY <1>1, <2>1, <2>2, <2>3, BasesKept
  <2>5. ClientTypes' /\ CallInv'
    BY <1>5, <1>6, <2>1, <2>2 DEF ClientTypes, Unmade
  <2>6. QED BY <1>3, <2>1, <2>4, <2>5
<1>13. CASE Return(k)
  <2>1. /\ thread[k].pc = "return" /\ ThreadTo(k, "done")
        /\ UNCHANGED <<arrived, details, allocated, g_msgRecv>>
    BY <1>13 DEF Return, Runs
  <2>2. /\ thread' \in [Calls -> Threads] /\ thread'[k].pc = "done"
        /\ thread'[k].base = thread[k].base
        /\ \A j \in Calls \ {k} : thread'[j] = thread[j]
    BY <2>1, ThreadMoves DEF Pcs
  <2>3. Working' = Working
    BY <1>1, <2>1, <2>2 DEF Working
  <2>4. BaseInv'
    BY <1>1, <2>1, <2>2, <2>3, BasesKept
  <2>5. ClientTypes' /\ CallInv'
    BY <1>5, <1>6, <2>1, <2>2 DEF ClientTypes, Unmade
  <2>6. QED BY <1>3, <2>1, <2>4, <2>5
<1>14. QED
  BY <1>7, <1>9, <1>10, <1>11, <1>12, <1>13 DEF ThreadStep

\* The calling thread: its calls are in order, and what it does to the records
\* of its threads is to start one.
LEMMA MainStepKeeps ==
  ASSUME Inv, MainStep
  PROVE  Inv'
<1> USE DEF Inv, ClientInv, Mains
<1>1. /\ script' = script /\ Calls' = Calls /\ Calls \subseteq Reqs
      /\ Calls = 1 .. Len(script) /\ Len(script) \in Nat
  BY ScriptShape
  DEF MainStep, Start, Pass, Look, Break, Join, Nap, Gather, Leave, Calls
<1>2. /\ UNCHANGED <<arrived, open, reply, forgotten, handler, child, pipe, leaked>>
      /\ gone' \subseteq Reqs
      /\ UNCHANGED <<details, allocated, g_msgRecv>>
      /\ proc' \in {"running", "returned", "exit", "crash"}
  BY <1>1
  DEF MainStep, Start, Pass, Look, Break, Join, Nap, Gather, Leave, serverVars, End,
      ServerInv, ServerTypes, ClientTypes
<1>3. ServerInv'
  BY <1>2, ClientsKeep
<1>4. \A j \in Calls : Unsent(j) => Unsent(j)'
  BY <1>2 DEF Unsent, Replied
<1>5. ASSUME thread' = thread,
             main' \in Mains,
             main'.pc # "idle" => main'.call \in Calls,
             main'.call >= main.call, main.pc # "idle" \/ main' = main,
             main'.call > main.call \/ main'.pc # "idle" \/ main' = main
      PROVE  Inv'
  <2>1. ClientTypes'
    BY <1>1, <1>2, <1>5 DEF ClientTypes
  <2>2. Working' = Working
    BY <1>1, <1>5 DEF Working
  <2>3. BaseInv'
    BY <1>1, <1>2, <1>5, <2>2, BasesKept
  <2>4. \A k \in Calls : k > main'.call \/ (k = main'.call /\ main'.pc = "idle") =>
                           k > main.call \/ (k = main.call /\ main.pc = "idle")
    BY <1>1, <1>5 DEF ClientTypes
  <2>5. CallInv'
    BY <1>1, <1>4, <1>5, <2>4 DEF CallInv
  <2>6. QED BY <1>3, <2>1, <2>3, <2>5
<1>6. CASE Start
  <2>1. /\ main.pc = "idle" /\ main.call \in Calls /\ ThreadTo(main.call, "start")
        /\ MainTo(IF script[main.call].hook THEN "pass" ELSE "nap")
    BY <1>6 DEF Start, Main
  <2>2. /\ main'.pc \in {"pass", "nap"} /\ main'.call = main.call
        /\ main' \in Mains
    BY <2>1 DEF MainTo, ClientTypes
  <2>3. /\ thread' \in [Calls -> Threads] /\ thread'[main.call].pc = "start"
        /\ thread'[main.call].base = thread[main.call].base
        /\ \A j \in Calls \ {main.call} : thread'[j] = thread[j]
    BY <2>1, ThreadMoves DEF Pcs
  <2>4. thread[main.call].pc = "unborn"
    BY <2>1 DEF CallInv
  <2>5. Working' = Working
    BY <1>1, <2>3, <2>4 DEF Working
  <2>6. BaseInv'
    BY <1>1, <1>2, <2>3, <2>5, BasesKept
  <2>7. ClientTypes'
    BY <1>1, <1>2, <2>2, <2>3 DEF ClientTypes
  <2>8. \A k \in Calls : k > main.call => thread'[k].pc = "unborn"
    BY <1>1, <2>1, <2>3 DEF CallInv
  <2>9. \A k \in Calls : thread'[k].pc \in Unmade => Unsent(k)
    BY <2>3, <2>4 DEF CallInv, Unmade
  <2>10. CallInv'
    BY <1>1, <1>4, <2>1, <2>2, <2>8, <2>9 DEF CallInv
  <2>11. QED BY <1>3, <2>6, <2>7, <2>10
<1>7. CASE Pass
  <2>1. main.pc = "pass" /\ main.call \in Calls /\ thread' = thread
    BY <1>7 DEF Pass, Main, CallInv
  <2>2. PICK b \in Bases \cup {None} :
          main' = [main EXCEPT !.pc = "wait", !.count = 0, !.base = b]
    <3>1. details[Detail(main.call)] \in Bases \cup {None}
      BY <2>1, DetailIsCall DEF ClientTypes
    <3>2. QED BY <1>7, <3>1 DEF Pass
  <2>3. main'.pc = "wait" /\ main'.call = main.call
    BY <2>2 DEF ClientTypes
  <2>3a. main' \in Mains
    <3>1. 0 \in 0 .. MaxCount + 1
      BY ClientAssumption
    <3>2. QED BY <2>2, <3>1 DEF ClientTypes
  <2>4. main.call \in Nat
    BY <1>1, <2>1
  <2>5. QED BY <1>5, <2>1, <2>3, <2>3a, <2>4
<1>8. ASSUME NEW p \in {"break", "join", "gather"}, MainTo(p), main.pc # "idle",
             thread' = thread
      PROVE  Inv'
  <2>1. main' \in Mains
        /\ main'.pc = p /\ main'.call = main.call
    BY <1>8 DEF MainTo, ClientTypes
  <2>2. main.call \in Calls /\ main.call \in Nat
    BY <1>1, <1>8 DEF CallInv
  <2>3. QED BY <1>5, <1>8, <2>1, <2>2
<1>9. CASE Look
  <2>1. main.pc = "wait" /\ thread' = thread
    BY <1>9 DEF Look, Main
  <2>2. CASE Answered \/ main.count > MaxCount
    BY <1>8, <1>9, <2>1, <2>2 DEF Look
  <2>3. CASE ~ (Answered \/ main.count > MaxCount)
    <3>1. main' = [main EXCEPT !.count = @ + 1]
      BY <1>9, <2>3 DEF Look
    <3>2. main.count + 1 \in 0 .. MaxCount + 1
      BY <2>3, ClientAssumption DEF ClientTypes
    <3>3. main' \in Mains
          /\ main'.pc = "wait" /\ main'.call = main.call
      BY <2>1, <3>1, <3>2 DEF ClientTypes
    <3>4. main.call \in Calls /\ main.call \in Nat
      BY <1>1, <2>1 DEF CallInv
    <3>5. QED BY <1>5, <2>1, <3>3, <3>4
  <2>4. QED BY <2>2, <2>3
<1>10. CASE Break \/ Join \/ Nap
  BY <1>8, <1>10 DEF Break, Join, Nap, Main
<1>11. CASE Gather
  <2>1. /\ main.pc = "gather" /\ thread' = thread
        /\ main' = [main EXCEPT !.pc = "idle", !.call = @ + 1]
    BY <1>11 DEF Gather, Main
  <2>2. main.call \in 1 .. Len(script)
    BY <1>1, <2>1 DEF CallInv
  <2>3. main.call + 1 \in 1 .. Len(script) + 1
    BY <1>1, <2>2
  <2>4. main' \in Mains
        /\ main'.pc = "idle" /\ main'.call = main.call + 1
    BY <2>1, <2>3 DEF ClientTypes
  <2>5. QED BY <1>1, <1>5, <2>1, <2>2, <2>4
<1>12. CASE Leave
  <2>1. main' = main /\ thread' = thread /\ main.pc = "idle"
    BY <1>12 DEF Leave, Main
  <2>2. main.call \in Nat
    BY <1>1 DEF ClientTypes
  <2>3. main' \in Mains
    BY <2>1 DEF ClientTypes
  <2>4. QED BY <1>5, <2>1, <2>2, <2>3
<1>13. QED
  BY <1>6, <1>7, <1>9, <1>10, <1>11, <1>12 DEF MainStep

LEMMA NextKeeps ==
  ASSUME Inv, Next
  PROVE  Inv'
<1> USE DEF Inv, ClientInv
<1>1. Calls = 1 .. Len(script) /\ Calls \subseteq Reqs
  BY ScriptShape
<1>2. ASSUME UNCHANGED clientVars, ServerInv',
             \A k \in Calls : Unsent(k) => Unsent(k)'
      PROVE  Inv'
  <2>1. UNCHANGED <<script, proc, main, details, thread, allocated, g_msgRecv>>
        /\ Calls' = Calls
    BY <1>2 DEF clientVars, Calls
  <2>2. Working' = Working
    BY <2>1 DEF Working
  <2>3a. ClientTypes'
    BY <2>1 DEF ClientTypes, Mains
  <2>3. BaseInv'
    BY <2>1, <2>2, BasesKept
  <2>4. CallInv'
    BY <1>2, <2>1 DEF CallInv
  <2>5. QED BY <1>2, <2>3, <2>3a, <2>4
<1>3. CASE MainStep
  BY <1>3, MainStepKeeps
<1>4. CASE \E k \in Calls : ThreadStep(k)
  BY <1>4, ThreadStepKeeps
<1>5. CASE (ServerStep \/ ChildStep) /\ UNCHANGED clientVars
  <2>1. ServerInv'
    BY <1>5, ServerKeeps
  <2>2. \A k \in Calls : Unsent(k) => Unsent(k)'
    BY <1>1, <1>5, UnsentStays
  <2>3. QED BY <1>2, <1>5, <2>1, <2>2
<1>6. ASSUME NEW r \in Others, OtherSends(r)
      PROVE  Inv'
  <2>1. /\ UNCHANGED <<open, gone, reply, forgotten, handler, child, pipe, leaked, clientVars>>
        /\ arrived' = arrived \cup {r} /\ r \in Reqs /\ r \notin Calls /\ Unsent(r)
    BY <1>6 DEF OtherSends, Others, Unsent, Replied
  <2>2. ServerInv'
    BY <2>1, ClientsKeep DEF ServerInv, ServerTypes
  <2>3. \A k \in Calls : Unsent(k) => Unsent(k)'
    BY <2>1 DEF Unsent, Replied
  <2>4. QED BY <1>2, <2>1, <2>2, <2>3
<1>7. ASSUME NEW r \in Others, OtherGoes(r)
      PROVE  Inv'
  <2>1. /\ UNCHANGED <<arrived, open, reply, forgotten, handler, child, pipe, leaked, clientVars>>
        /\ gone' = gone \cup {r} /\ r \in Reqs
    BY <1>7 DEF OtherGoes, Others
  <2>2. ServerInv'
    BY <2>1, ClientsKeep DEF ServerInv, ServerTypes
  <2>3. \A k \in Calls : Unsent(k) => Unsent(k)'
    BY <2>1 DEF Unsent, Replied
  <2>4. QED BY <1>2, <2>1, <2>2, <2>3
<1>8. QED BY <1>3, <1>4, <1>5, <1>6, <1>7 DEF Next

-----------------------------------------------------------------------------
(* The theorems *)

\* Inv is an inductive invariant of server and client together.
THEOREM Invariance == Spec => []Inv
<1>1. Init => Inv
  <2> SUFFICES ASSUME Init PROVE Inv
    OBVIOUS
  <2>1. Replied = {} /\ Busy = {} /\ Ends = 0 /\ Fds = 0
    <3>1. Replied = {} /\ Busy = {} /\ Ends = 0
      BY DEF Init, ServerInit, Replied, Busy, Ends
    <3>2. QED BY <3>1, FS_EmptySet DEF Fds, Init, ServerInit
  <2>2. ServerTypes /\ OnceInv /\ ChildInv /\ RightStatus
    BY <2>1 DEF Init, ServerInit, ServerTypes, OnceInv, ChildInv, RightStatus, NoPipe, Statuses
  <2>3. FiniteInv /\ CostInv
    BY <2>1, FS_EmptySet, ServerAssumption DEF Init, ServerInit, FiniteInv, CostInv
  <2>4. script \in Scripts
    BY DEF Init
  <2>5. Len(script) \in Nat /\ Calls = 1 .. Len(script) /\ Calls \subseteq Reqs
    BY <2>4, ClientAssumption DEF Calls
  <2>6. ClientTypes
    BY <2>5, ClientAssumption DEF Init, ClientTypes, Threads, Mains, Pcs
  <2>7. CallInv
    BY <2>1, <2>5 DEF Init, ServerInit, CallInv, Unsent
  <2>8. BaseInv
    BY DEF Init, BaseInv, Working
  <2>9. QED BY <2>2, <2>3, <2>6, <2>7, <2>8 DEF Inv, ServerInv, ClientInv
<1>2. Inv /\ [Next]_vars => Inv'
  <2> SUFFICES ASSUME Inv, [Next]_vars PROVE Inv'
    OBVIOUS
  <2>1. CASE Next
    BY <2>1, NextKeeps
  <2>2. CASE UNCHANGED vars
    BY <2>2
    DEF vars, serverVars, clientVars, Inv, ServerInv, ClientInv, ServerTypes, FiniteInv,
        OnceInv, CostInv, ChildInv, RightStatus, Outcome, Replied, Busy, Ends, Fds,
        ClientTypes, Mains, CallInv, BaseInv, Unsent, Working, Calls
  <2>3. QED BY <2>1, <2>2
<1>3. QED BY <1>1, <1>2, PTL DEF Spec

\* No client is told the outcome of another one's request, or, but for OPTIONS, a
\* success that no child has found: for every number and kind of requests.
THEOREM StatusIsOwn == Spec => []RightStatus
<1>1. Inv => RightStatus
  BY DEF Inv, ServerInv
<1>2. QED BY <1>1, Invariance, PTL

\* Descriptors and event bases: what answered and forgotten requests have cost
\* is bounded by their number, the limit is never exceeded, and each thread at
\* work has a base of its own, freed when it returns.
THEOREM HoldingsKept == Spec => []Holdings
<1>1. ASSUME Inv PROVE Holdings
  <2> USE <1>1 DEF Inv, ServerInv, ClientInv
  <2>1. leaked \in 0 .. MaxFds
    <3>1. Cardinality(open) \in Nat /\ leaked \in Nat /\ MaxFds \in Nat /\ Ends \in 0 .. 2
      BY SizeTypes, ServerAssumption DEF ServerTypes, Ends
    <3>2. QED BY <3>1 DEF CostInv, Fds
  <2>2. ServerTypeOK
    BY <2>1 DEF ServerTypes, ServerTypeOK
  <2>3. TypeOK
    BY <2>2 DEF TypeOK, ClientTypes, Threads, Mains, Pcs
  <2>4. DescriptorsAccounted
    BY DEF DescriptorsAccounted, CostInv, OnceInv, Busy, Replied
  <2>5. OwnBase
    <3>1. Working \in SUBSET Calls /\ IsFiniteSet(Calls)
      BY ScriptShape DEF Working
    <3>2. IsFiniteSet(Working)
      BY <3>1, FS_Subset
    <3>3. allocated = {thread[k].base : k \in Working}
      BY DEF BaseInv
    <3> DEFINE f == [k \in Working |-> thread[k].base]
    <3>4. f \in Bijection(Working, allocated)
      BY <3>3 DEF BaseInv, Bijection, Injection, Surjection, IsInjective
    <3>5. Cardinality(allocated) = Cardinality(Working)
      BY <3>2, <3>4, FS_Bijection DEF ExistsBijection
    <3>6. QED BY <3>3, <3>5 DEF OwnBase, Working
  <2>6. QED BY <2>3, <2>4, <2>5 DEF Holdings
<1>2. QED BY <1>1, Invariance, PTL

=============================================================================
