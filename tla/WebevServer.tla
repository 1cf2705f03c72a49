---------------------------- MODULE WebevServer ----------------------------
(***************************************************************************)
(* The HTTP server of LinxSrvc/webev: StartServer without callbacks, as    *)
(* WebMain.cpp starts it.  One event loop runs GenericHandler for one      *)
(* request at a time; the handler forks a child, which reports a status    *)
(* through a pipe.                                                         *)
(***************************************************************************)
EXTENDS Integers, FiniteSets

CONSTANTS
  Reqs,      \* the requests that clients may make
  Kind,      \* for each what it asks for
  MaxFds,    \* descriptors, beyond those of the event loop
  None

Kinds == {"log", "badserver", "other", "options"}
Statuses == {0, 200, 405, 501}

ASSUME ServerAssumption ==
  Kind \in [Reqs -> Kinds] /\ MaxFds \in Nat /\ None \notin Statuses

VARIABLES
  arrived,   \* requests sent to the server, which has not accepted the connection yet
  open,      \* requests whose connection the server has open
  gone,      \* requests whose client has closed the connection
  reply,     \* the status sent
  forgotten, \* requests whose handler returned without an answer
  handler,   \* pc; req: the request; status
  child,     \* none, running or done
  pipe,      \* status: what has been written to it; writers: who can write to it
  leaked     \* descriptors that nothing will close

serverVars == <<arrived, open, gone, reply, forgotten, handler, child, pipe, leaked>>

NoPipe == [status |-> None, writers |-> {}]

ServerInit ==
  /\ arrived = {} /\ open = {} /\ gone = {} /\ forgotten = {}
  /\ reply = [r \in Reqs |-> None]
  /\ handler = [pc |-> "loop", req |-> None, status |-> 0]
  /\ child = "none" /\ pipe = NoPipe /\ leaked = 0

\* While a handler has a pipe it holds both ends, until it closes the one for writing.
Ends == IF handler.pc \in {"fork", "wait", "close"} THEN 2
        ELSE IF handler.pc \in {"read", "respond"} THEN 1 ELSE 0
Fds == Cardinality(open) + Ends + leaked

GoTo(pc) == handler' = [handler EXCEPT !.pc = pc]

\* Mutant of Accept: the status of the last request is kept.
AcceptStale(r) ==
  /\ handler.pc = "loop" /\ r \in arrived /\ Fds < MaxFds
  /\ arrived' = arrived \ {r} /\ open' = open \cup {r}
  /\ handler' = [handler EXCEPT !.pc = "pipe", !.req = r]
  /\ UNCHANGED <<gone, reply, forgotten, child, pipe, leaked>>

\* libevent accepts and reads a request, and calls the handler.
Accept(r) ==
  /\ handler.pc = "loop" /\ r \in arrived /\ Fds < MaxFds
  /\ arrived' = arrived \ {r} /\ open' = open \cup {r}
  /\ handler' = [pc |-> "pipe", req |-> r, status |-> 0]
  /\ UNCHANGED <<gone, reply, forgotten, child, pipe, leaked>>

\* libevent sees that a client has gone.
Close(r) ==
  /\ handler.pc = "loop" /\ r \in open \cap gone /\ open' = open \ {r}
  /\ UNCHANGED <<arrived, gone, reply, forgotten, handler, child, pipe, leaked>>

Forget == forgotten' = forgotten \cup {handler.req} /\ GoTo("loop")

MakePipe ==
  /\ handler.pc = "pipe"
  /\ IF Fds + 2 <= MaxFds
     THEN /\ GoTo("fork") /\ pipe' = [status |-> None, writers |-> {"server"}]
          /\ UNCHANGED forgotten
     ELSE Forget /\ UNCHANGED pipe
  /\ UNCHANGED <<arrived, open, gone, reply, child, leaked>>

Fork ==
  /\ handler.pc = "fork" /\ GoTo("wait")
  /\ child' = "running" /\ pipe' = [pipe EXCEPT !.writers = @ \cup {"child"}]
  /\ UNCHANGED <<arrived, open, gone, reply, forgotten, leaked>>

\* Neither end of the pipe is closed.
ForkFails ==
  /\ handler.pc = "fork" /\ Forget /\ leaked' = leaked + 2 /\ pipe' = NoPipe
  /\ UNCHANGED <<arrived, open, gone, reply, child>>

\* What the child finds out.
Outcome(kind) == CASE kind = "log" -> 200 [] kind = "badserver" -> 501 [] OTHER -> 0

ChildWrites ==
  /\ child = "running" /\ child' = "done"
  /\ pipe' = [status |-> Outcome(Kind[handler.req]), writers |-> pipe.writers \ {"child"}]
  /\ UNCHANGED <<arrived, open, gone, reply, forgotten, handler, leaked>>

\* The child is killed before it writes.
ChildDies ==
  /\ child = "running" /\ child' = "done"
  /\ pipe' = [pipe EXCEPT !.writers = @ \ {"child"}]
  /\ UNCHANGED <<arrived, open, gone, reply, forgotten, handler, leaked>>

Wait ==
  /\ handler.pc = "wait" /\ child = "done" /\ child' = "none" /\ GoTo("close")
  /\ UNCHANGED <<arrived, open, gone, reply, forgotten, pipe, leaked>>

\* Mutant of CloseEnd: the handler keeps its end for writing.
CloseForgotten ==
  /\ handler.pc = "close" /\ GoTo("read") /\ leaked' = leaked + 1
  /\ UNCHANGED <<arrived, open, gone, reply, forgotten, child, pipe>>

CloseEnd ==
  /\ handler.pc = "close" /\ GoTo("read")
  /\ pipe' = [pipe EXCEPT !.writers = @ \ {"server"}]
  /\ UNCHANGED <<arrived, open, gone, reply, forgotten, child, leaked>>

\* A status, or nothing if nobody can write any more; otherwise read blocks.
Read ==
  /\ handler.pc = "read" /\ (pipe.status # None \/ pipe.writers = {})
  /\ handler' = [handler EXCEPT !.pc = "respond", !.status = IF pipe.status = None THEN @ ELSE pipe.status]
  /\ UNCHANGED <<arrived, open, gone, reply, forgotten, child, pipe, leaked>>

Response(kind, status) == IF kind = "options" THEN 200 ELSE IF status = 0 THEN 405 ELSE status

\* Mutant of Respond: only a request that is answered with 200 is closed.
RespondKeeps ==
  /\ handler.pc = "respond" /\ GoTo("loop")
  /\ reply' = [reply EXCEPT ![handler.req] = Response(Kind[handler.req], handler.status)]
  /\ open' = IF handler.status = 200 THEN open \ {handler.req} ELSE open
  /\ leaked' = leaked + 1 /\ pipe' = NoPipe
  /\ UNCHANGED <<arrived, gone, forgotten, child>>

\* The connection is closed after the reply; the end for reading never is.
Respond ==
  /\ handler.pc = "respond" /\ GoTo("loop")
  /\ reply' = [reply EXCEPT ![handler.req] = Response(Kind[handler.req], handler.status)]
  /\ open' = open \ {handler.req} /\ leaked' = leaked + 1 /\ pipe' = NoPipe
  /\ UNCHANGED <<arrived, gone, forgotten, child>>

ServerStep ==
  \/ \E r \in Reqs : Accept(r) \/ Close(r)
  \/ MakePipe \/ Fork \/ ForkFails \/ Wait \/ CloseEnd \/ Read \/ Respond

ChildStep == ChildWrites \/ ChildDies

-----------------------------------------------------------------------------
(* Properties *)

ServerTypeOK ==
  /\ \A s \in {arrived, open, gone, forgotten} : s \subseteq Reqs
  /\ reply \in [Reqs -> Statuses \cup {None}]
  /\ handler.pc \in {"loop", "pipe", "fork", "wait", "close", "read", "respond"}
  /\ handler.req \in Reqs \cup {None} /\ handler.status \in Statuses
  /\ child \in {"none", "running", "done"}
  /\ pipe.status \in Statuses \cup {None} /\ pipe.writers \subseteq {"server", "child"}
  /\ leaked \in 0 .. MaxFds

\* The status that a client gets is the one that the child of its own request has found,
\* or 405 if the child was killed: never the one of another request, and never a success
\* that no child has reported, but for OPTIONS, which gets 200 whatever its child did.
Found == [log |-> 200, options |-> 200, badserver |-> 501, other |-> 405]
RightStatus ==
  \A r \in Reqs : reply[r] # None =>
    \/ reply[r] = Found[Kind[r]]
    \/ reply[r] = 405 /\ Kind[r] # "options"

\* What a request costs for good is known: one descriptor if it is answered, two if fork
\* failed, and a connection only as long as its client waits for the answer it will not
\* get.  So only the number of requests exhausts the descriptors, not who makes them.
DescriptorsAccounted ==
  LET answered == {r \in Reqs : reply[r] # None}
  IN /\ leaked <= Cardinality(answered) + 2 * Cardinality(forgotten)
     /\ handler.pc = "loop" => open \subseteq forgotten

\* The one event loop is never kept by a request: the handler, which waits for the child
\* and then for the pipe, returns, also when the child is killed before it writes.
HandlerReturns == handler.pc # "loop" ~> handler.pc = "loop"

=============================================================================
