------------------------------ MODULE ImServer ------------------------------
(***************************************************************************)
(* The chat server of LinxSrvc/IM/IM.cc, as its Makefile builds it for     *)
(* Linux (_DEBUG, no THREAD_PER_CONN): one process per connection.         *)
(*                                                                         *)
(* The main process accepts and forks; a child runs monitor().  Accounts,  *)
(* zones and descriptors are private copies made by fork; what processes   *)
(* share is the table `active` of the users on line, in a shared memory    *)
(* segment that set_n_get_mem reads and writes without a lock, and a pipe  *)
(* through which children tell the main process their socket.              *)
(*                                                                         *)
(* A pass over the table is one step: it matters who is found, and only    *)
(* slot 0 ever changes (RoomForOne).  What is found and what is then       *)
(* written are steps apart.  A password is right or wrong.  Of the         *)
(* commands of a logged-in client that touch neither table nor descriptors *)
(* it matters only that they are answered, or end the child (Command).     *)
(***************************************************************************)
EXTENDS Integers, FiniteSets, FiniteSetsExt

CONSTANTS
  Users, Conns,             \* user names; connections, each used once
  Main,                     \* the main process; a child has its connection's name
  Accounts,                 \* the users in the accounts file
  Scripts,                  \* the names that each client sends (uses), the clients
                            \* that may go, and what the operator does (commands)
  MaxActive,                \* slots of the table
  Size,                     \* sizeof(ONLINE), 48
  MaxPipe,                  \* so many sockets in the pipe, or more, are many
  Nobody, None, NoFile, ReadEnd, WriteEnd, Listener

Procs == Conns \cup {Main}
Slots == 0 .. MaxActive - 1
Fds == 0 .. 2 + Cardinality(Conns)
Files == Conns \cup {NoFile, ReadEnd, WriteEnd, Listener}

ASSUME ImAssumption ==
  /\ MaxActive \in Nat \ {0, 1} /\ Size \in Nat /\ Size >= MaxActive
  /\ MaxPipe \in Nat \ {0} /\ Accounts \subseteq Users /\ IsFiniteSet(Conns)
  /\ Scripts \subseteq [uses : [Conns -> SUBSET (Users \cup {Nobody})],
                         goers : SUBSET Conns,
                         commands : SUBSET {"kick", "quit", "-x"}]
  /\ Nobody \notin Users /\ None \notin Procs /\ Main \notin Conns
  /\ {NoFile, ReadEnd, WriteEnd, Listener} \cap Conns = {}
  /\ NoFile \notin {ReadEnd, WriteEnd, Listener}
  /\ ReadEnd \notin {WriteEnd, Listener} /\ WriteEnd # Listener

VARIABLES
  script,                   \* one of Scripts, all along
  share,                    \* the table, and whose connection an entry is (conn)
  peer,                     \* the client's end of a connection
  pc,                       \* control of each process
  found, then,              \* the slot a child has found; what it does afterwards
  boss, sock,               \* the process that accepted; the child's cur_sock
  fds,                      \* what is behind each descriptor of a process
  gusr, name,               \* g_usrMsg.usr and userName
  errno,                    \* whether errno is set
  known,                    \* users[]
  pipe,                     \* how many sockets are in the pipe
  hasAll,                   \* all along: zone 0 is "all" and has a free place
  kicked,                   \* somebody has been kicked
  fallen                    \* the children that ended while they served a command

table == <<found, then, share>>
child == <<boss, sock, known>>
setting == <<script, hasAll>>
vars == <<table, peer, pc, child, fds, gusr, name, errno, pipe, setting, kicked, fallen>>

Empty == [user |-> Nobody, sock |-> 0, conn |-> None]

\* The descriptors of inst_mssg: a pipe, then listen_socket.
Started == [n \in Fds |-> IF n = 0 THEN ReadEnd ELSE IF n = 1 THEN WriteEnd ELSE
                          IF n = 2 THEN Listener ELSE NoFile]
Nothing == [n \in Fds |-> NoFile]

Init ==
  /\ script \in Scripts
  /\ share = [i \in Slots |-> Empty]
  /\ peer = [c \in Conns |-> "new"]
  /\ pc = [p \in Procs |-> IF p = Main THEN "accept" ELSE "unborn"]
  /\ found = [c \in Conns |-> 0] /\ then = [c \in Conns |-> "none"]
  /\ boss = [c \in Conns |-> None] /\ sock = [c \in Conns |-> 0]
  /\ fds = [p \in Procs |-> IF p = Main THEN Started ELSE Nothing]
  /\ gusr = [p \in Procs |-> Nobody] /\ name = [c \in Conns |-> Nobody]
  /\ errno \in {[p \in Procs |-> e] : e \in BOOLEAN}
  /\ known = [p \in Procs |-> IF p = Main THEN Accounts ELSE {}]
  /\ pipe = 0 /\ hasAll \in BOOLEAN /\ kicked = FALSE
  /\ fallen = {}

-----------------------------------------------------------------------------
(* The table.  set_n_get_mem reads slot i at share + i * Size bytes, but    *)
(* writes and clears at share + i * Size entries.                           *)

SlotsOf(u) == {i \in Slots : share[i].user = u}

user_is_line(u) == SlotsOf(u) # {}

\* Mutant of set_n_get_mem: written where it is read.
SetInPlace(i, e) == share' = [share EXCEPT ![i] = e]

set_n_get_mem(i, e) ==
  share' = IF i * Size \in Slots THEN [share EXCEPT ![i * Size] = e] ELSE share

\* Child c goes on at k.
GoTo(c, k, files) ==
  /\ pc' = [pc EXCEPT ![c] = k]
  /\ fds' = [fds EXCEPT ![c] = IF k = "ended" THEN Nothing ELSE files]

\* The first half of set_user_quit: the search.
set_user_quit(c, u, k, files) ==
  /\ errno' = [errno EXCEPT ![c] = TRUE]
  /\ \/ /\ user_is_line(u)
        /\ found' = [found EXCEPT ![c] = Min(SlotsOf(u))]
        /\ then' = [then EXCEPT ![c] = k]
        /\ GoTo(c, "clear", files)
     \/ /\ ~ user_is_line(u)
        /\ GoTo(c, k, files)
        /\ UNCHANGED <<found, then>>
  /\ UNCHANGED share

\* The second half: the slot found is cleared, whoever is there by now.
Clear(c) ==
  /\ pc[c] = "clear"
  /\ set_n_get_mem(found[c], Empty)
  /\ GoTo(c, then[c], fds[c])
  /\ found' = [found EXCEPT ![c] = 0] /\ then' = [then EXCEPT ![c] = "none"]
  /\ UNCHANGED <<peer, child, gusr, name, errno, pipe, setting, kicked, fallen>>

-----------------------------------------------------------------------------
(* A child before the login.  The name u that a message gives may be empty. *)

HasSocket(c) == fds[c][sock[c]] = c
Shut(f, n) == [f EXCEPT ![n] = NoFile]

\* Each pass begins by logging off the user that the last message named, if
\* errno is set.  A child whose socket is closed passes on for ever.
Top(c) ==
  /\ pc[c] = "top" /\ HasSocket(c)
  /\ name' = [name EXCEPT ![c] = Nobody]
  /\ \/ errno[c] /\ set_user_quit(c, gusr[c], "wait", fds[c])
     \/ /\ ~ errno[c]
        /\ GoTo(c, "wait", fds[c])
        /\ UNCHANGED <<table, errno>>
  /\ UNCHANGED <<peer, child, gusr, pipe, setting, kicked, fallen>>

Timeout(c) ==
  /\ pc[c] = "wait"
  /\ GoTo(c, "top", fds[c])
  /\ UNCHANGED <<table, peer, child, gusr, name, errno, pipe, setting, kicked, fallen>>

\* recv returns 0, or an error.
HangUp(c) ==
  /\ pc[c] = "wait" /\ gusr' = [gusr EXCEPT ![c] = Nobody]
  /\ \/ /\ peer[c] = "closed"
        /\ GoTo(c, "top", Shut(fds[c], sock[c]))
        /\ UNCHANGED <<table, errno>>
     \/ /\ peer[c] = "reset"
        /\ set_user_quit(c, Nobody, "ended", fds[c])
  /\ UNCHANGED <<peer, child, name, pipe, setting, kicked, fallen>>

\* With every message the child closes g_filedes[0] and writes its socket to
\* g_filedes[1], if those are still the pipe.
Receive(c, u) ==
  /\ pc[c] = "wait" /\ peer[c] = "open"
  /\ gusr' = [gusr EXCEPT ![c] = u]
  /\ pipe' = IF fds[c][1] = WriteEnd THEN Min({pipe + 1, MaxPipe}) ELSE pipe
Received(c) == Shut(fds[c], 0)

\* new_user, for a new name, and join_zone, which copies from a null pointer.
Register(c, u) ==
  /\ Receive(c, u) /\ u \in Users \ known[c]
  /\ known' = [known EXCEPT ![c] = @ \cup {u}]
  /\ GoTo(c, IF hasAll THEN "ended" ELSE "top", Received(c))
  /\ UNCHANGED <<table, peer, boss, sock, name, errno, setting, kicked, fallen>>

\* Any other request: it is refused, and the name it gave is kept.
Refuse(c, u) ==
  /\ Receive(c, u)
  /\ GoTo(c, "top", Received(c))
  /\ UNCHANGED <<table, peer, child, name, errno, setting, kicked, fallen>>

\* loggedIn is set before the answer of user_auth is looked at: a wrong
\* password ends the loop and the process.
LoginWrong(c, u) ==
  /\ Receive(c, u)
  /\ GoTo(c, "ended", Received(c))
  /\ UNCHANGED <<table, peer, child, name, errno, setting, kicked, fallen>>

\* user_auth succeeds.  A user on line is logged off and the connection closed.
Login(c, u) ==
  /\ Receive(c, u) /\ u \in known[c]
  /\ \/ /\ user_is_line(u)
        /\ set_user_quit(c, u, "top", Shut(Received(c), sock[c]))
     \/ /\ ~ user_is_line(u)
        /\ GoTo(c, "enter", Received(c))
        /\ errno' = [errno EXCEPT ![c] = TRUE]
        /\ UNCHANGED table
  /\ UNCHANGED <<peer, child, name, setting, kicked, fallen>>

\* set_user_line: the first empty slot is searched, and then written.
FindPlace(c) ==
  /\ pc[c] = "enter" /\ SlotsOf(Nobody) # {}
  /\ found' = [found EXCEPT ![c] = Min(SlotsOf(Nobody))]
  /\ GoTo(c, "store", fds[c])
  /\ UNCHANGED <<then, share, peer, child, gusr, name, errno, pipe, setting, kicked, fallen>>

Store(c) ==
  /\ pc[c] = "store"
  /\ set_n_get_mem(found[c], [user |-> gusr[c], sock |-> sock[c], conn |-> c])
  /\ found' = [found EXCEPT ![c] = 0]
  /\ name' = [name EXCEPT ![c] = gusr[c]]
  /\ GoTo(c, "in", fds[c])
  /\ UNCHANGED <<then, peer, child, gusr, errno, pipe, setting, kicked, fallen>>

-----------------------------------------------------------------------------
(* A child that serves a logged-in client: it hears nothing any more if its *)
(* socket is closed.                                                        *)

Leave(c, u, k) ==
  /\ pc[c] = "in" /\ HasSocket(c)
  /\ gusr' = [gusr EXCEPT ![c] = u]
  /\ set_user_quit(c, name[c], k, fds[c])
  /\ UNCHANGED <<peer, child, name, pipe, setting, kicked, fallen>>

Logout(c, u) == peer[c] = "open" /\ Leave(c, u, "top")

\* Mutant of Invalid: the process ends without set_user_quit.
InvalidKept(c) ==
  /\ peer[c] = "open" /\ pc[c] = "in" /\ HasSocket(c)
  /\ GoTo(c, "ended", fds[c])
  /\ UNCHANGED <<table, peer, child, gusr, name, errno, pipe, setting, kicked, fallen>>

\* A message of less than eight bytes.
Invalid(c) == peer[c] = "open" /\ Leave(c, Nobody, "ended")

\* Mutant of Missing: the loop goes on without set_user_quit.
MissingKept(c) ==
  /\ peer[c] = "closed" /\ pc[c] = "in" /\ HasSocket(c)
  /\ gusr' = [gusr EXCEPT ![c] = Nobody]
  /\ GoTo(c, "in", fds[c])
  /\ UNCHANGED <<table, peer, child, name, errno, pipe, setting, kicked, fallen>>

\* recv returns 0: the loop goes on until sending fails.
Missing(c) == peer[c] = "closed" /\ \E k \in {"in", "ended"} : Leave(c, Nobody, k)

\* recv fails: monitor returns, and the child goes on as a server of its own.
Lost(c) == peer[c] = "reset" /\ Leave(c, Nobody, "accept")

\* Any other command is being served.  What it names is overwritten before it is read again.
Command(c) ==
  /\ peer[c] = "open" /\ pc[c] = "in" /\ HasSocket(c)
  /\ GoTo(c, "answer", fds[c])
  /\ UNCHANGED <<table, peer, child, gusr, name, errno, pipe, setting, kicked, fallen>>

\* The reply is sent, or P2P sends none; or the client has gone and sending fails.  Then the
\* child ends by comm_err0, which clears a copy of the entry, and not the table.
Answer(c) ==
  /\ pc[c] = "answer"
  /\ \/ GoTo(c, "in", fds[c]) /\ UNCHANGED fallen
     \/ peer[c] # "open" /\ GoTo(c, "ended", fds[c]) /\ fallen' = fallen \cup {c}
  /\ UNCHANGED <<table, peer, child, gusr, name, errno, pipe, setting, kicked>>

\* JOIN_ZONE of a zone that has a free place, and HOST_ZONE of one that is there: join_zone
\* copies from the null pointer that cert is, and the child is killed.  The client can have
\* made the zone itself.
CopyFromNull(c) ==
  /\ pc[c] = "answer" /\ GoTo(c, "ended", fds[c]) /\ fallen' = fallen \cup {c}
  /\ UNCHANGED <<table, peer, child, gusr, name, errno, pipe, setting, kicked>>

\* P2P, NDT: the connection that a message of child c to user u is sent on.
Sent(c, u) == fds[c][share[Min(SlotsOf(u))].sock]

-----------------------------------------------------------------------------
(* The main process, and children that have become servers *)

\* Mutant of Accept: the parent closes its copy of the connection.
AcceptAndClose(p, c) ==
  LET n == Min({m \in Fds : fds[p][m] = NoFile})
  IN /\ pc[p] = "accept" /\ fds[p][2] = Listener
     /\ peer[c] = "new" /\ script.uses[c] # {}
     /\ peer' = [peer EXCEPT ![c] = "open"]
     /\ boss' = [boss EXCEPT ![c] = p] /\ sock' = [sock EXCEPT ![c] = n]
     /\ fds' = [fds EXCEPT ![c] = [fds[p] EXCEPT ![n] = c]]
     /\ pc' = [pc EXCEPT ![c] = "top"]
     /\ gusr' = [gusr EXCEPT ![c] = gusr[p]] /\ errno' = [errno EXCEPT ![c] = errno[p]]
     /\ known' = [known EXCEPT ![c] = known[p]]
     /\ UNCHANGED <<table, name, pipe, setting, kicked, fallen>>

\* The accepted connection stays open in the process that forks.
Accept(p, c) ==
  LET files == [fds[p] EXCEPT ![Min({n \in Fds : fds[p][n] = NoFile})] = c]
  IN /\ pc[p] = "accept" /\ fds[p][2] = Listener
     /\ peer[c] = "new" /\ script.uses[c] # {}
     /\ peer' = [peer EXCEPT ![c] = "open"]
     /\ boss' = [boss EXCEPT ![c] = p]
     /\ sock' = [sock EXCEPT ![c] = Min({n \in Fds : fds[p][n] = NoFile})]
     /\ fds' = [fds EXCEPT ![p] = files, ![c] = files]
     /\ pc' = [pc EXCEPT ![c] = "top"]
     /\ gusr' = [gusr EXCEPT ![c] = gusr[p]]
     /\ errno' = [errno EXCEPT ![c] = errno[p]]
     /\ known' = [known EXCEPT ![c] = known[p]]
     /\ UNCHANGED <<table, name, pipe, setting, kicked, fallen>>

\* A socket is read from the pipe; of many, there may be many left.
Take == pipe > 0 /\ (pipe' = pipe - 1 \/ (pipe = MaxPipe /\ pipe' = pipe))

\* func_waitpid: g_filedes[1] is closed, whatever that is by now, and one socket
\* is read from g_filedes[0].
func_waitpid(p, c) ==
  LET files == Shut(fds[p], 1)
      open == \E q \in Procs \ {p} : \E n \in Fds : fds[q][n] = WriteEnd
  IN /\ pc[p] = "accept" /\ boss[c] = p /\ pc[c] = "ended"
     /\ fds' = [fds EXCEPT ![p] = files]
     /\ \/ /\ files[0] = ReadEnd /\ Take
           /\ pc' = [pc EXCEPT ![c] = "reaped"]
        \/ /\ files[0] = ReadEnd /\ pipe = 0 /\ open
           /\ pc' = [pc EXCEPT ![c] = "reaped", ![p] = "reading"] /\ UNCHANGED pipe
        \/ /\ files[0] = ReadEnd /\ pipe = 0 /\ ~ open
           /\ pc' = [pc EXCEPT ![c] = "reaped"] /\ UNCHANGED pipe
        \/ /\ files[0] = NoFile
           /\ pc' = [pc EXCEPT ![c] = "reaped"] /\ UNCHANGED pipe
        \/ /\ files[0] \in Conns
           /\ \E k \in {"accept", "reading"} :
                pc' = [pc EXCEPT ![c] = "reaped", ![p] = k]
           /\ UNCHANGED pipe
     /\ UNCHANGED <<table, peer, child, gusr, name, errno, setting, kicked, fallen>>

\* The read of func_waitpid returns: a socket, the end of the pipe, or bytes of
\* the client that has taken the pipe's number.
ReadReturns(p) ==
  /\ pc[p] = "reading" /\ pc' = [pc EXCEPT ![p] = "accept"]
  /\ \/ /\ fds[p][0] = ReadEnd /\ Take
     \/ /\ fds[p][0] = ReadEnd /\ pipe = 0 /\ UNCHANGED pipe
        /\ \A q \in Procs : \A n \in Fds : fds[q][n] # WriteEnd
     \/ /\ fds[p][0] \in Conns /\ UNCHANGED pipe
  /\ UNCHANGED <<table, peer, child, fds, gusr, name, errno, setting, kicked, fallen>>

\* commands(): kick closes the main process's descriptor of that number.
Kick(u) ==
  /\ pc[Main] # "off" /\ user_is_line(u)
  /\ fds' = [fds EXCEPT ![Main] = Shut(@, share[Min(SlotsOf(u))].sock)]
  /\ kicked' = TRUE
  /\ UNCHANGED <<table, peer, pc, child, gusr, name, errno, pipe, setting, fallen>>

\* commands(): quit saves users[] of the main process.
Quit ==
  /\ pc[Main] # "off"
  /\ pc' = [pc EXCEPT ![Main] = "off"]
  /\ fds' = [fds EXCEPT ![Main] = Nothing]
  /\ UNCHANGED <<table, peer, child, gusr, name, errno, pipe, setting, kicked, fallen>>

\* inst_mssg again: bind fails while any process has the old listen_socket.
Restart ==
  /\ pc[Main] = "off"
  /\ \A c \in Conns : \A n \in Fds : fds[c][n] # Listener
  /\ pc' = [pc EXCEPT ![Main] = "accept"]
  /\ fds' = [fds EXCEPT ![Main] = Started]
  /\ pipe' = 0
  /\ UNCHANGED <<table, peer, child, gusr, name, errno, setting, kicked, fallen>>

\* The program called with -x: every slot is cleared.
ClearAll ==
  /\ set_n_get_mem(0, Empty)
  /\ UNCHANGED <<found, then, peer, pc, child, fds, gusr, name, errno, pipe, setting, kicked,
                 fallen>>

\* A client goes, in order or not.
Depart(c) ==
  /\ peer[c] = "open" /\ c \in script.goers
  /\ \E how \in {"closed", "reset"} : peer' = [peer EXCEPT ![c] = how]
  /\ UNCHANGED <<table, pc, child, fds, gusr, name, errno, pipe, setting, kicked, fallen>>

\* What a child does without being asked.
Serve(c) ==
  Clear(c) \/ Top(c) \/ Timeout(c) \/ HangUp(c) \/ FindPlace(c) \/ Store(c)
  \/ Missing(c) \/ Lost(c) \/ Answer(c) \/ CopyFromNull(c)

Ask(c) ==
  \/ \E u \in script.uses[c] :
       Refuse(c, u) \/ LoginWrong(c, u) \/ Logout(c, u) \/ Register(c, u) \/ Login(c, u)
  \/ Command(c) \/ Invalid(c) \/ Depart(c)

Next ==
  \/ \E c \in Conns : Serve(c) \/ Ask(c)
  \/ \E p \in Procs, c \in Conns : Accept(p, c) \/ func_waitpid(p, c)
  \/ \E p \in Procs : ReadReturns(p)
  \/ "kick" \in script.commands /\ \E u \in Users : Kick(u)
  \/ "quit" \in script.commands /\ (Quit \/ Restart)
  \/ "-x" \in script.commands /\ ClearAll

Spec == Init /\ [][Next]_vars

\* A child's process is scheduled, and what it waits for is on time.
FairSpec == Spec /\ \A c \in Conns : WF_vars(Serve(c))

-----------------------------------------------------------------------------
(* Properties *)

\* Types of the variables; nobody but Users is in the table.
TypeOK ==
  /\ script \in Scripts
  /\ share \in [Slots -> [user : Users \cup {Nobody}, sock : Fds, conn : Conns \cup {None}]]
  /\ peer \in [Conns -> {"new", "open", "closed", "reset"}]
  /\ pc \in [Procs -> {"unborn", "top", "wait", "clear", "enter", "store", "in", "answer",
                       "accept", "reading", "ended", "reaped", "off"}]
  /\ found \in [Conns -> Slots]
  /\ then \in [Conns -> {"none", "top", "wait", "in", "accept", "ended"}]
  /\ boss \in [Conns -> Procs \cup {None}] /\ sock \in [Conns -> Fds]
  /\ fds \in [Procs -> [Fds -> Files]]
  /\ gusr \in [Procs -> Users \cup {Nobody}] /\ name \in [Conns -> Users \cup {Nobody}]
  /\ errno \in [Procs -> BOOLEAN] /\ known \in [Procs -> SUBSET Users]
  /\ pipe \in 0 .. MaxPipe /\ hasAll \in BOOLEAN /\ kicked \in BOOLEAN
  /\ fallen \subseteq Conns

\* set_n_get_mem scales the slot twice when it writes, so however many users log
\* in, the table never shows more than the one in slot 0.
RoomForOne == \A i \in Slots \ {0} : share[i] = Empty

\* A child that is logged in, or is just about to clear its entry.
LoggedIn(c) == pc[c] \in {"in", "answer"}
Session(c) == name[c] # Nobody /\ (LoggedIn(c) \/ (pc[c] = "clear" /\ found[c] = 0))

\* Processes read and write the table without a lock, end on errors and become servers;
\* still every entry is that of a process that serves the user it names.  No end of a child
\* and no restart leaves an entry behind, with two exceptions that the code makes: a child
\* that cannot send a reply, and one that join_zone kills, leave theirs.
NoStaleEntry ==
  \A i \in Slots : share[i].user # Nobody =>
    \E c \in Conns :
      c = share[i].conn /\ name[c] = share[i].user /\ (Session(c) \/ c \in fallen)

\* The socket number in the table is one of another process.  As long as no
\* process has ended, nobody was kicked and only the main process accepts, it is
\* the right connection in every other process, or none: a message by P2P or NDT
\* never reaches a third client.
Undisturbed ==
  /\ ~ kicked /\ pc[Main] \in {"accept", "reading"}
  /\ \A c \in Conns : boss[c] \in {Main, None} /\ pc[c] \notin {"ended", "reaped"}
RightPeer ==
  Undisturbed => \A c \in Conns, u \in Users : LoggedIn(c) /\ user_is_line(u) =>
    Sent(c, u) \in {share[Min(SlotsOf(u))].conn, NoFile}

\* When the client of a logged-in child has gone, the child finds that out and its user's
\* name is taken off the table, unless the child ends while it serves a last command: by
\* sending the reply, or in join_zone.
LostPeerLeaves ==
  \A c \in Conns, u \in Users :
    (LoggedIn(c) /\ name[c] = u /\ HasSocket(c) /\ peer[c] \in {"closed", "reset"})
      ~> (~ user_is_line(u) \/ c \in fallen)

\* user_auth asks the table so that a second session of a user is refused, with
\* "Warn: another [%s] been on-line." or "Logging status invalid, ..."; so no two
\* clients are logged in as one user.
OneSession ==
  \A c, d \in Conns :
    c # d /\ pc[c] = "in" /\ pc[d] = "in" /\ peer[c] = "open" /\ peer[d] = "open"
      => name[c] # name[d]

\* Not kept by the code, and not in a run.
\* "Logging status invalid, we will close this connect.": once the child has
\* closed the socket of a client that is still there, no process holds it.
ClosedAsPromised ==
  \A c \in Conns :
    pc[c] = "top" /\ ~ HasSocket(c) /\ peer[c] = "open" /\ boss[c] = Main
      => \A p \in Procs, n \in Fds : fds[p][n] # c

=============================================================================
