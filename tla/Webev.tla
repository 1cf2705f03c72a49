------------------------------- MODULE Webev -------------------------------
(***************************************************************************)
(* RequestClient of LinxSrvc/webev in a process that makes a few calls one *)
(* after the other, against WebevServer.                                   *)
(*                                                                         *)
(* A call starts a thread that runs HttpClient on an event base of its     *)
(* own.  With a hook the caller waits for the answer and joins the thread; *)
(* without one it leaves the thread to itself after a tenth of a second.   *)
(***************************************************************************)
EXTENDS WebevServer, Sequences

CONSTANTS
  Scripts,   \* what the process does: per call, hook and reuse (of the last HookDetail)
  Bases,     \* addresses that event_base_new may return
  MaxCount   \* times that WaitMsgTask looks again (3)

ASSUME ClientAssumption ==
  /\ \A s \in Scripts : s \in Seq([hook : BOOLEAN, reuse : BOOLEAN]) /\ DOMAIN s \subseteq Reqs
                       /\ s # <<>> /\ ~ s[1].reuse
  /\ None \notin Bases /\ MaxCount \in Nat

VARIABLES
  script,    \* one of Scripts, all along
  proc,      \* the process: running, or how it ended: returned, exit or crash
  main,      \* the caller: pc, call, base (as passed to WaitMsgTask), count
  details,   \* HookDetail of each call: base
  thread,    \* of each call: pc, base
  allocated, \* event bases not freed
  g_msgRecv  \* the request whose answer is kept under the address of a base

clientVars == <<script, proc, main, details, thread, allocated, g_msgRecv>>
vars == <<serverVars, clientVars>>

Calls == DOMAIN script
Others == Reqs \ Calls

Init ==
  /\ ServerInit /\ script \in Scripts /\ proc = "running"
  /\ main = [pc |-> "idle", call |-> 1, base |-> None, count |-> 0]
  /\ details = [k \in Calls |-> None]
  /\ thread = [k \in Calls |-> [pc |-> "unborn", base |-> None]]
  /\ allocated = {} /\ g_msgRecv = [b \in Bases |-> None]

Main(pc) == proc = "running" /\ main.pc = pc
MainTo(pc) == main' = [main EXCEPT !.pc = pc]
Runs(k, pc) == proc = "running" /\ thread[k].pc = pc
ThreadTo(k, pc) == thread' = [thread EXCEPT ![k].pc = pc]

\* The detail that call k uses: its own, or the one that the calls before it used.
Detail(k) ==
  CHOOSE j \in 1 .. k : ~ script[j].reuse /\ \A i \in j + 1 .. k : script[i].reuse

\* The process ends: with it its threads and connections.
End(how) ==
  /\ proc' = how
  /\ gone' = gone \cup {k \in Calls : thread[k].pc \in {"dispatch", "answered"}}

-----------------------------------------------------------------------------
(* HttpClient, in the thread of call k *)

NewBase(k) ==
  /\ Runs(k, "start")
  /\ \/ \E b \in Bases \ allocated :
          /\ thread' = [thread EXCEPT ![k].pc = "prepare", ![k].base = b]
          /\ allocated' = allocated \cup {b}
     \/ ThreadTo(k, "return") /\ UNCHANGED allocated
  /\ UNCHANGED <<serverVars, script, proc, main, details, g_msgRecv>>

Release(k) ==
  /\ allocated' = allocated \ {thread[k].base}
  /\ thread' = [thread EXCEPT ![k] = [pc |-> "return", base |-> None]]

\* An error of the URL, the request or the connection.
PrepareFails(k) ==
  /\ Runs(k, "prepare") /\ Release(k)
  /\ UNCHANGED <<serverVars, script, proc, main, details, g_msgRecv>>

Prepare(k) ==
  /\ Runs(k, "prepare") /\ ThreadTo(k, "made")
  /\ details' = [details EXCEPT ![Detail(k)] = thread[k].base]
  /\ UNCHANGED <<serverVars, script, proc, main, allocated, g_msgRecv>>

\* Mutant of FileFails: the base is kept.
FileFailsKeeping(k) ==
  /\ Runs(k, "made") /\ ThreadTo(k, "return")
  /\ UNCHANGED <<serverVars, script, proc, main, details, allocated, g_msgRecv>>

\* The file to be sent cannot be read.
FileFails(k) ==
  /\ Runs(k, "made") /\ Release(k)
  /\ UNCHANGED <<serverVars, script, proc, main, details, g_msgRecv>>

MakeRequest(k) ==
  /\ Runs(k, "made") /\ ThreadTo(k, "dispatch") /\ arrived' = arrived \cup {k}
  /\ UNCHANGED <<open, gone, reply, forgotten, handler, child, pipe, leaked>>
  /\ UNCHANGED <<script, proc, main, details, allocated, g_msgRecv>>

\* The answer comes in.  g_msgRecv has no lock: if the caller is at it as well, the
\* process may crash.
ReadChunk(k) ==
  /\ Runs(k, "dispatch") /\ reply[k] # None /\ ThreadTo(k, "answered")
  /\ g_msgRecv' = [g_msgRecv EXCEPT ![thread[k].base] = k]
  /\ \/ UNCHANGED <<proc, gone>>
     \/ main.pc \in {"wait", "gather"} /\ End("crash")
  /\ UNCHANGED <<arrived, open, reply, forgotten, handler, child, pipe, leaked>>
  /\ UNCHANGED <<script, main, details, allocated>>

\* The loop ends after the answer, or without one: the server cannot be reached, libevent
\* waits no longer, or another thread has asked the loop to end.
DispatchEnds(k) ==
  /\ proc = "running" /\ thread[k].pc \in {"dispatch", "answered"} /\ Release(k)
  /\ gone' = gone \cup {k}
  /\ UNCHANGED <<arrived, open, reply, forgotten, handler, child, pipe, leaked>>
  /\ UNCHANGED <<script, proc, main, details, g_msgRecv>>

\* Its result is written to a variable of RequestClient; if that has returned, to
\* whatever is in its place.
Return(k) ==
  /\ Runs(k, "return") /\ ThreadTo(k, "done")
  /\ \/ UNCHANGED <<proc, gone>>
     \/ main.call > k /\ End("crash")
  /\ UNCHANGED <<arrived, open, reply, forgotten, handler, child, pipe, leaked>>
  /\ UNCHANGED <<script, main, details, allocated, g_msgRecv>>

ThreadStep(k) ==
  \/ NewBase(k) \/ PrepareFails(k) \/ Prepare(k) \/ FileFails(k) \/ MakeRequest(k)
  \/ ReadChunk(k) \/ DispatchEnds(k) \/ Return(k)

-----------------------------------------------------------------------------
(* RequestClient and WaitMsgTask, in the calling thread *)

Start ==
  /\ Main("idle") /\ main.call \in Calls
  /\ ThreadTo(main.call, "start")
  /\ MainTo(IF script[main.call].hook THEN "pass" ELSE "nap")
  /\ UNCHANGED <<serverVars, script, proc, details, allocated, g_msgRecv>>

\* detail.base, as it is at this moment.
Pass ==
  /\ Main("pass")
  /\ main' = [main EXCEPT !.pc = "wait", !.count = 0, !.base = details[Detail(main.call)]]
  /\ UNCHANGED <<serverVars, script, proc, details, thread, allocated, g_msgRecv>>

Answered == main.base # None /\ g_msgRecv[main.base] # None

\* Mutant of Look: there is no end to it.
LookOn ==
  /\ Main("wait")
  /\ IF Answered THEN MainTo("break") ELSE UNCHANGED main
  /\ UNCHANGED <<serverVars, script, proc, details, thread, allocated, g_msgRecv>>

\* Mutant of Look: once too often.
LookAgain ==
  /\ Main("wait")
  /\ IF Answered \/ main.count > MaxCount + 1 THEN MainTo("break")
     ELSE main' = [main EXCEPT !.count = @ + 1]
  /\ UNCHANGED <<serverVars, script, proc, details, thread, allocated, g_msgRecv>>

Look ==
  /\ Main("wait")
  /\ IF Answered \/ main.count > MaxCount THEN MainTo("break")
     ELSE main' = [main EXCEPT !.count = @ + 1]
  /\ UNCHANGED <<serverVars, script, proc, details, thread, allocated, g_msgRecv>>

\* ElegantlyBreak, or exit(0).  A base that has been freed may still look like one.
Break ==
  /\ Main("break") /\ MainTo("join")
  /\ \/ main.base = None /\ End("exit")
     \/ main.base # None /\ UNCHANGED <<proc, gone>>
     \/ main.base # None /\ main.base \notin allocated /\ End("crash")
  /\ UNCHANGED <<arrived, open, reply, forgotten, handler, child, pipe, leaked>>
  /\ UNCHANGED <<script, details, thread, allocated, g_msgRecv>>

Join ==
  /\ Main("join") /\ thread[main.call].pc = "done" /\ MainTo("gather")
  /\ UNCHANGED <<serverVars, script, proc, details, thread, allocated, g_msgRecv>>

\* detach, and a tenth of a second.
Nap ==
  /\ Main("nap") /\ MainTo("gather")
  /\ UNCHANGED <<serverVars, script, proc, details, thread, allocated, g_msgRecv>>

\* The messages are looked through, and the call returns.
Gather ==
  /\ Main("gather") /\ main' = [main EXCEPT !.pc = "idle", !.call = @ + 1]
  /\ UNCHANGED <<serverVars, script, proc, details, thread, allocated, g_msgRecv>>

\* main returns, whatever threads are left.
Leave ==
  /\ Main("idle") /\ main.call \notin Calls /\ End("returned")
  /\ UNCHANGED <<arrived, open, reply, forgotten, handler, child, pipe, leaked>>
  /\ UNCHANGED <<script, main, details, thread, allocated, g_msgRecv>>

MainStep == Start \/ Pass \/ Look \/ Break \/ Join \/ Nap \/ Gather \/ Leave

-----------------------------------------------------------------------------

\* Another client sends a request, or goes when it has waited long enough.
OtherSends(r) ==
  /\ arrived' = arrived \cup {r} /\ r \notin open \cup gone \cup forgotten /\ reply[r] = None
  /\ r \notin arrived
  /\ UNCHANGED <<open, gone, reply, forgotten, handler, child, pipe, leaked, clientVars>>

OtherGoes(r) ==
  /\ r \in forgotten \ gone /\ gone' = gone \cup {r}
  /\ UNCHANGED <<arrived, open, reply, forgotten, handler, child, pipe, leaked, clientVars>>

Next ==
  \/ MainStep \/ \E k \in Calls : ThreadStep(k)
  \/ (ServerStep \/ ChildStep) /\ UNCHANGED clientVars
  \/ \E r \in Others : OtherSends(r) \/ OtherGoes(r)

Spec == Init /\ [][Next]_vars

\* Threads and processes run; libevent ends a loop sooner or later.
FairSpec ==
  /\ Spec /\ WF_vars(MainStep)
  /\ WF_vars(ServerStep /\ UNCHANGED clientVars) /\ WF_vars(ChildStep /\ UNCHANGED clientVars)
  /\ \A k \in Reqs : WF_vars(k \in Calls /\ ThreadStep(k))

-----------------------------------------------------------------------------
(* Properties *)

TypeOK ==
  /\ ServerTypeOK /\ script \in Scripts
  /\ proc \in {"running", "returned", "exit", "crash"}
  /\ main.pc \in {"idle", "pass", "wait", "break", "join", "nap", "gather"}
  /\ main.call \in 1 .. Len(script) + 1 /\ main.base \in Bases \cup {None}
  /\ main.count \in 0 .. MaxCount + 1
  /\ details \in [Calls -> Bases \cup {None}]
  /\ thread \in [Calls -> [pc : {"unborn", "start", "prepare", "made", "dispatch", "answered", "return", "done"},
                           base : Bases \cup {None}]]
  /\ allocated \subseteq Bases /\ g_msgRecv \in [Bases -> Calls \cup {None}]

\* However a request fails, its thread has freed its base when it returns, and only its
\* own: the bases that exist are those of the threads at work, each with one.
OwnBase ==
  LET working == {k \in Calls : thread[k].pc \in {"prepare", "made", "dispatch", "answered"}}
  IN /\ allocated = {thread[k].base : k \in working}
     /\ Cardinality(allocated) = Cardinality(working)

\* What the server has lost, descriptors that nothing will close, is accounted for; what the
\* caller's threads hold, bases, they will free.
Holdings == TypeOK /\ DescriptorsAccounted /\ OwnBase

\* A call returns, or the process ends: with a hook it waits for a thread that may have
\* failed, or got no answer.
CallReturns == main.pc # "idle" ~> main.pc = "idle" \/ proc # "running"

\* "dispatch timeout %us to exit" (WebevApi.cpp:236): the process is ended after the time
\* is over, and then only if no answer has come.
ExitOnTimeout == proc = "exit" => \A k \in Calls : thread[k].pc # "answered" /\ g_msgRecv = [b \in Bases |-> None]

=============================================================================
