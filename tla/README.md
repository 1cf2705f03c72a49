# Verification of MyAutomatic

TLA+ models of the stateful parts of this repository, the TLC configurations
that check them on small instances, and TLAPS proofs for instances of any size.
Paths below are relative to the repository root.

The repository is a collection of programs. Most of its code draws, parses or
calls libraries. What can go wrong in ways that tests do not reach is in a few
programs of `LinxSrvc/` and of `WinNTKline/`: a worker queue, a thread pool, a timer,
a publish/subscribe broker, a chat server and its client, an HTTP server and its
client, a video capture program and a linked list. These are modelled. Most do not call
each other, so each has a module of its own; what they interact with is their clients,
their threads, a driver. Two pairs do talk to each other: the chat client with the chat
server, and `RequestClient` with the HTTP server. `ChatClient` and `Webev` compose them.

## Contents

| File | What it is |
|---|---|
| `SoapQueue.tla` | worker queue of the gSOAP server |
| `FifoServer.tla` | what that queue promises: a bounded first-in first-out server |
| `SoapQueueProofs.tla` | proofs about `SoapQueue` |
| `ThreadPool.tla`, `ThreadPoolProofs.tla` | thread pool, proofs about its counter, its tasks and its end |
| `Timing.tla` | repeating timer |
| `KaiBroker.tla`, `KaiBrokerProofs.tla` | publish/subscribe broker, proofs |
| `ImServer.tla` | chat server |
| `ImServerProofs.tla` | proofs about the table of users in `ImServer` and the descriptors in it |
| `ChatClient.tla`, `ChatClientProofs.tla` | chat client, with the answers of the chat server; proofs |
| `WebevServer.tla`, `Webev.tla` | HTTP server; a process that makes requests, with that server |
| `WebevProofs.tla` | proofs about both |
| `VideoCapture.tla`, `VideoCaptureProofs.tla` | video capture, with driver and camera; proofs |
| `LinkedList.tla` | doubly linked list, pointer by pointer |
| `ListSpec.tla` | what that list promises: a sequence |
| `ClassProofs.tla` | proofs about the two C++ classes, `Timing` and `LinkedList` |
| `MC*.tla`, `*.cfg` | instances for TLC |
| `PROJECT.json` | components, runs, mutants, map to the source, findings, hazards, theorems |

Check a module with `tlc -config SoapQueue.cfg MCSoapQueue`, prove one with
`tlapm SoapQueueProofs.tla`. Operators whose comment says "Mutant of X" are not
part of any specification: each is a plausible mistake in X, and putting it in
the place of X must make TLC report the property that `PROJECT.json` pairs it with.

## Inventory

### gSOAP worker queue - `LinxSrvc/gSOAPverify/main/mainSoap.cc`

*State.* A ring `queue[MAX_QUEUE]` with `head` and `tail`, `queue_lock`, one
condition variable, and per thread a `soap` environment with its socket.
*Operations.* `main_server` binds, creates `MAX_THR` threads, accepts, puts
sockets in with `enqueue` (and retries while it returns `SOAP_EOM`); after a timeout
it enqueues one invalid socket per thread and joins them. `process_queue` takes
sockets out with `dequeue()` and a second, unlocked `dequeue(ip)` for an index.
*Hard.* Lost wakeups, woken threads that find the ring empty again, a full ring at
shutdown, the unlocked reads of `head`.
*Correct when* no connection is lost, duplicated or overtaken, every accepted
connection is served and the shutdown ends.

### Thread pool - `LinxSrvc/thread/pthdpool.c`

*State.* A ring of functions and arguments, `prev`/`tail` indices, `cur_thrd_no`
that counts threads and tasks together, `dispose`, one mutex, one condition.
*Operations.* `pthd_pool_init`, `_add_task`, `_wait`, `_destroy`, `_free`, and the
body of the threads, `pthd_thrd_func`.
*Hard.* A worker releases `queue_lock` up to twice and so takes it away from others;
the counter is read and written without the lock; threads end after one task; thread
ids are cast to `int`.
*Correct when* a task runs at most once, the pool is not freed under a thread, and
`wait` and the first two calls of `destroy` return. A third does not: the second leaves
`queue_lock` locked (`pthdpool.c:184`).

### Timer - `WinNTKline/KlineUtil/com/Timing.hpp`

*State.* `expired_`, `try_to_expire_` (atomics), a mutex and a condition.
*Operations.* `StartTimer` detaches a thread that sleeps and runs a task until told
to expire; `Expire` tells it and waits; the destructor calls `Expire`.
*Hard.* Tests and assignments of the atomics are separate steps, and `StartTimer`
does not take the mutex.
*Correct when* one task runs at a time, no task runs after `Expire`, the object
outlives its thread, and `Expire` returns.

### Message broker - `LinxSrvc/IM/KaiSocket.cc`

*State.* `m_networks` (a vector of connections), `m_network` (the connection accepted
last, used by every thread), the message queue, a static `prsid`, `errno` per thread.
*Operations.* `start` (edge-triggered epoll, one accept per event, one detached thread
per connection), `recv` (read, match, store, forward), `handleNotify`, `produce`,
`consume`, `writes`, `rsync`, `checkSsid`; the clients `Publisher` and `Subscriber`.
*Hard.* Everything that is read from `m_network` belongs to whoever connected last or
spoke last.
*Correct when* messages go to registered subscribers of their topic, threads,
descriptors and entries correspond, and the connection that ends is the one closed.

### Chat server - `LinxSrvc/IM/IM.cc`

*State.* Accounts, zones and descriptors, private to each process after `fork`; the
table of users on line in a shared memory segment that outlives the server; a pipe
from the children to the main process.
*Operations.* `inst_mssg` accepts and forks; `monitor` serves one client; `user_auth`,
`new_user`, `set_user_line`, `set_user_quit`, `user_is_line`, `set_n_get_mem`;
`func_waitpid` on SIGCHLD; the operator's `commands`.
*Hard.* The table is used by all processes without a lock; descriptors in it belong to
another process; children end on many paths; copies made by `fork` go stale.
*Correct when* the table tells who is on line, one client per user, and a message
reaches the client it is meant for.

### Chat client - `WinNTKline/IMclient/imclient.cpp`, `WinNTKline/KlineUtil/IM/client.cc`

*State.* `g_client` (`flag`, `status`, `count`, sockets) and `g_content` (the message
to be sent), used by three threads without a lock.
*Operations.* `Chat_Msg` connects and starts the receiving thread; the main loop waits
for a status, prompts, and sends with `SendClientMessage`; `parseRcvMsg` receives,
sets the status and runs `p2pMessage`; `RecvThreadProc` receives datagrams.
*Hard.* A status set by one message and tested after another; a buffer filled by one
thread and sent by the other; retries whose sockets are not closed; a thread that is left
the address of a local variable.
*Correct when* every command gets its turn, in step with the replies; retries end; and
the client ends when its connection does.

### HTTP server and client library - `LinxSrvc/webev/WebevApi.cpp`

*State.* The server: one event loop, per request a pipe and a child process. The client:
per call an event base, shared by the thread that waits and the one that dispatches;
`g_msgRecv`, answers by address of a base.
*Operations.* `StartServer` with `GenericHandler`; `RequestClient`, `HttpClient`,
`WaitMsgTask`, `ElegantlyBreak`.
*Hard.* The handler blocks the loop until its child has written; `pipe` and `fork` fail when
descriptors run out; a base is freed by one thread and used by the other; `detail.base` is
passed before it is set.
*Correct when* each request gets its own status, the handler returns, calls return, and
neither descriptors nor bases leak.

### Video capture - `LinxSrvc/hdware/routine.c`

*State.* A device, up to four buffers that travel between driver and program, `io`,
`n_buffers`, the options still to come.
*Operations.* `video_capture` works through its options; `local_routine` and
`socket_routine` open, initialise, capture (`mainloop`, `read_frame`), give each frame to a
callback, stop, release and close.
*Hard.* The camera goes on while a frame is written out; `EAGAIN`, timeouts and a camera
that stops; failures of `fwrite` and `send` that nobody looks at, and a peer that does not read; several routines with different methods in one call, over static variables.
*Correct when* the frames are written once and in order, and all if no write fails, no buffer
is lost on the way round, and nothing is left over for the next routine.

### Containers - `LinxSrvc/include/Structures.h`

*State.* `LinkedList`: nodes with two pointers, `m_list` somewhere among them, a count.
*Operations.* `insert`, `add`, `remove` and eight queries.
*Hard.* `m_list` is not the first node: every search goes both ways from it, bounded by the
count.
*Correct when* the pointers agree, no node is lost, and the calls are those of a sequence.

### Not modelled

| Component | Why |
|---|---|
| Character device (`LinxSrvc/hdware/virtex/virtexdrv.c`) | nothing calls the functions of its message queue or sets `ev_ok`; its file operations copy one global structure, without a promise between calls |
| FIFO (`LinxSrvc/hdware/pipefifo.h`), `linuxsnap.c` | `read_fifo` opens the FIFO again after each message for others and writes to it from an invalid address, so what it does with a second message is undefined; `linuxsnap.c` makes the calls of `routine.c` for one picture |
| Stack and trees of `Structures.h` | the stack is an index into an array; `AVLBinTree::Insert` and `BinaryTree::Delete` lose a subtree in the first rotation or deletion of a node with two children, so there is no promise left to check |
| Client side of the broker: reconnecting, heartbeat | a loop of `connect` and sleep; its heartbeat thread is the broker's `InStep` problem again, seen from the client |
| `SyncWait`, `AsyncWait` of the timer | no state |

Everything else is sequential, generated, third-party or user interface: the SOAP
operations and the gSOAP runtime, the number generator, the code comparison, the
language-model chat, the market data collectors (their threads are a vendor's),
hashing and encoding, the MFC, WPF, Qt and OpenGL programs, scripts. They are listed
one by one, with the reason, under `components` in `PROJECT.json`. By lines, nearly all
of the repository is of these kinds: generated SOAP code, interface headers of other
products, OpenGL loaders.

## Plan

Order of work, most important behaviour first. All steps are done.

1. `SoapQueue` with `FifoServer` (safety, liveness, refinement), and its proofs.
2. `ThreadPool`: what still holds under overlapping critical sections.
3. `Timing`: which division of roles makes it safe.
4. `KaiBroker`: routing through shared variables.
5. `ImServer`: processes, descriptors and the shared table.
6. `ImServerProofs`: only slot 0 of the table ever changes, and it is never stale.
7. `ChatClient`, with what the chat server answers.
8. `WebevServer` and `Webev`; `VideoCapture`; `LinkedList` against `ListSpec`.
9. Proofs: the remaining safety invariants of `SoapQueue`; `VideoCapture`, `Timing`,
   `WebevServer` with `Webev`; `ThreadPool` (`Counted`, `CleanEnd`); `KaiBroker`; `ChatClient` (`Turns`).
10. Proofs: `ImServer` (`RightPeer`), `ThreadPool` (`RightTasks`, for two workers),
    `LinkedList` (`WellFormed`, its queries, the refinement of `ListSpec`), `KaiBroker`
    (`OnlySubscribers` with one hasty client).

Abstract specifications: the FIFO server and the sequence are written. A mailbox per topic
for the broker and a map from users to connections for the table would state what these
programs do not keep (see "Documented promises that fail").

One run per component checks safety and liveness together under a fair specification;
the broker and the chat server's table, whose instances are the largest, are checked
for safety by themselves. Two more runs refute a documented promise.

## The models

Each module has one action per operation, or, where threads interleave, per access to
shared state. Control is in variables named `pc`, `mpc`, `wpc`, `lpc`: one value for
each point at which the thread can be interrupted with effect. `map` in `PROJECT.json`
gives the lines of each definition. Each module has one type invariant, `TypeOK`. For
`SoapQueue` and `ImServer` it is a theorem of its own; in the others it is a conjunct of the
invariant that describes the module's data: `Counted`, `FlagsHold`, `Bookkeeping`, `Turns`,
`Holdings`, `Buffering`, `WellFormed`.

### SoapQueue

`queue`, `head`, `tail`, `lock` are the ring and the owner of `queue_lock`. `mpc`, `i`,
`sock` are `main_server`; `wpc`, `job`, `j` are the threads (`job` is the environment's
socket, `j` the index that `dequeue(ip)` computes). `fresh` and `served` are the ends of
a connection's life. The lock shows only while `dequeue` holds it over two steps: the
increment and the wrap of `head` (`DequeueTake`, `DequeueWrap`), because `dequeue(ip)`
reads `head` without it (`IpTestHead`, `IpReadHead`). All else under the lock is one
step. `Signal` is `pthread_cond_signal`: it wakes one waiting thread; `SpuriousWakeup`
is the wakeup that POSIX allows. Full rings are a disabled action: the code sleeps and
tries again, without effect. `BindFails` is one step to the end although a comment at
line 181 speaks of binding in a loop: at the first failure the process exits
(line 183).

| Property | Says |
|---|---|
| `ExactlyOnePlace` | each connection is in exactly one of: unopened, in hand, one slot, one worker, served |
| `NoLostWakeup` | while threads sleep, enough others are awake for all that is in the ring |
| `DrainedAtShutdown` | when all threads are joined, everything accepted was served |
| `IpIndexOfLast` | the worker that took a connection last gets its slot from the unlocked reads |
| `ImplementsFifo` | refinement: `SoapQueue` implements `FifoServer`, with the slots from the front to the tail as the line |
| `Served`, `Ends` | an accepted connection is served; the shutdown ends; both though some client may keep its worker for ever |

### ThreadPool

A client thread with control `cpc` makes the API's calls in any order, as
`pthdtest.c` does; `wpc` is the control of the workers. `cur` is `cur_thrd_no`;
`cload` and `wload` hold what was loaded of it before it is stored. `locked` is a
Boolean and has no owner, because a worker's extra unlock frees the mutex whoever holds
it (on Linux, for a normal mutex; by the standard it is undefined). `highIds` are the
threads whose `pthread_t` is negative when cast to `int`: chosen at the start.
`CreateFails` is the failure of `pthread_create`, after which the pool is freed under
the threads already created; nothing is claimed of them. `prev` is loaded and stored in
steps of their own, twice for each task taken (`AdvanceLoad`, `Advance`, `WrapLoad`, `Wrap`),
as two workers may do so at once; a slot beyond the ring would hold `Junk`.

| Property | Says |
|---|---|
| `RightTasks` = `AtMostOnce`, `NoNullCall` | with two workers no task runs twice, no refused task runs, no null function is called |
| `Counted` = `TypeOK`, `CountBounds`, `OnlyFirstWaits` | the counter never exceeds the queue (or the number of threads, if that is larger) and still counts every worker that has not left; `prev` never leaves the ring, although it is moved and wrapped in two steps; only the first thread ever waits for a task |
| `CleanEnd` = `NoUseAfterFree`, `LockFreeAtEnd` | `destroy` frees the pool only without threads, but for those whose id it misread; when all has ended, the lock is free |
| `WaitReturns`, `DestroyReturns` | `wait` (once a task was accepted) and the first two calls of `destroy` return; a third, and any `add_task` after the second, waits for the lock for ever |

The bound of two workers matters: with three, `AtMostOnce` and `NoNullCall` fail,
because two critical sections overlap with a third. With two, `func` and `arg` may
still be of different tasks.

### Timing

`upc` is the control of each user of the timer, `lpc` of each detached thread. Who
calls `StartTimer` and who `Expire` is chosen at the start (`starters`, `expirers`), so
that each property can name the discipline it needs: `OneRunning` one starter,
`ExpireStops` one starter and one expirer, `NoUseAfterDestroy` and
`TryingIsTryingAlone` one user, `ExpireReturns` one expirer. Without its premise each
fails. `FlagsHold` is `TypeOK`, `OneRunning` and `TryingIsTryingAlone`. `MaxStarts` bounds
the threads the timer detaches. The destructor is an `Expire` during which `dying` is set;
it may not run while another thread is inside the object, which would be the caller's
mistake. `destroyed` is set when it returns, on each of its paths: also on the first line of
`Expire`, where a detached thread may be about to unlock the mutex of a timer that has
expired.

### KaiBroker

`mpc` is `start()`, `tpc` each connection's thread. `fds` maps descriptors to clients,
`networks` is `m_networks`, `mnet` is `m_network`, `stored` the length of the message
queue (whose elements point to dead local variables: only the length is defined).
`backlog` and `edge` are the listening socket with its edge-triggered event. A thread
that is blocked in `recv` keeps the connection it blocked on (`conn`), whatever
`m_network` is meanwhile. `handleNotify` closes and erases, and from an `EBADF` on
sweeps all further entries. Called by `writes()` it has a reference into the vector, to which
each erase moves the next entry: all entries from that one on are closed (`ClosedWith`).

A `recv` may return less than it asks for, and no loop goes on with it. Of a header `recv()` only
logs it; of a body the rest is the next header. `short` remembers that this has happened.
`garbled` stops a behaviour where a thread reads something else than it takes it for, or
where the search in `handleNotify` moves its own reference away: what follows depends on bytes.

`networks` is a set of entries, each with its place `at` in the vector.

Clients are *hasty* or not. Those that are not act in turn: a client acts only when every
thread waits for a message or has ended and `start()` waits in `epoll_wait` (`Idle`), and a
client connects only when each subscriber that is connected has registered (`Answered`:
`Subscriber()` answers the ssid at once). A thread that waits for a body counts as idle
too, so that a broker out of step is not hidden by a discipline that would wait for it for ever.
`InStep`, `OneThreadEach`, `RightTopic` and `LastStaysReachable` have the premise `Orderly`:
clients in turn, and no read has been short. Without it they are false of the code. With a
second connection within one read, a thread reads another's bytes; after a short read, of one
client alone, a thread takes the rest of a body for a header. They show that sharing
`m_network` does no harm to clients that take turns and whose messages arrive in one piece, and nothing
of two clients at once. `OnlySubscribers` holds with short reads and with one hasty client.
With three it fails: a thread closes the connection that `start()` is about to enter,
the next one gets the same descriptor, and with it an old entry that says consumer.
`SocketBits` is what `checkSsid` finds in an ssid: eight bits of the descriptor, in which `setSsid` may
set more, as the address that it puts beside them is taken from the bytes of a
`std::string` object. In the run it finds the descriptor;
`RightTopic` and `LastStaysReachable` fail if it does not.

| Property | Says |
|---|---|
| `InStep` | nobody reads another connection's body, or a body for a header (`Orderly`) |
| `Bookkeeping` = `TypeOK`, `OneThreadEach` | entries, open descriptors and blocked threads correspond (`Orderly`) |
| `OnlySubscribers` | a client that has not registered is sent nothing |
| `RightTopic` | messages reach subscribers of their topic only (`Orderly`) |
| `LastStaysReachable` | the subscriber that registered last stays reachable (`Orderly`, and only the connection accepted last is closed) |

Not in the model: the reconnecting client and its heartbeat, a pass over `m_networks`
while another thread changes the vector (undefined), the slots past its end that the loop of
`recv()` goes over when a write has failed (also undefined; they hold copies of the last entry), a
write that is cut short (the code sends the same bytes again).

### ImServer

The build is that of `LinxSrvc/IM/Makefile`: Linux, `_DEBUG`, a process per connection.
`share` is the table; `fds` the descriptors of every process, filled lowest first, as
`fork` copies them; `known` each process's accounts; `pipe` the number of sockets in the
pipe, where `MaxPipe` stands for many. `pc` is the control: `top` and `wait` are the two
halves of the login loop, `enter` and `store` of `set_user_line`, `clear` the second half
of `set_user_quit`, `in` the loop of a logged-in client, `answer` a command of his that is
being served, `accept` a process that accepts, `reading` one that is blocked in `func_waitpid`. What is found in the table
and what is then written are separate steps, so that another process can come between.

Facts that shape the model:

- `set_n_get_mem` scales the slot twice when it writes and once when it reads
  (lines 1239 ff.). With 48 bytes per entry, writes to slots above 0 land behind all
  that is ever read. Hence `RoomForOne`.
- `errno` is never cleared, so after the first access to the table each pass of the
  login loop logs off the user that the last message named (`Top`).
- A wrong password ends the child (`LoginWrong`); a successful registration ends it too
  when zone 0 is "all" with a free place, in `join_zone` (`Register`, `hasAll`).
- A logged-in child may end while it serves a command (`Command`): a reply that cannot be
  sent leads to `comm_err0`, which clears a private copy of the entry (`Answer`), and
  `JOIN_ZONE` and `HOST_ZONE` make `join_zone` copy from a null pointer (`CopyFromNull`). Both
  leave the entry in the segment; `fallen` has these children.
- A child whose client resets the connection returns from `monitor` and becomes another
  acceptor (`Lost`).
- `func_waitpid` closes the number in `g_filedes[1]` each time, which later belongs
  to a client, and may block in a signal handler.
- `kick` closes only the main process's descriptor; `quit` saves only what the main
  process knows; after it, bind fails while any child holds the listening socket
  (`Restart`).

| Property | Says |
|---|---|
| `RoomForOne` | the table never shows more than slot 0 |
| `NoStaleEntry` | an entry of the table is that of a process that serves the user it names, through all ends, restarts and `-x`; or of a child in `fallen` |
| `RightPeer` | undisturbed (nobody ended, kicked, or accepts but the main process), the descriptor in the table is the right client in every process, or none |
| `LostPeerLeaves` | the name of a client that has gone is taken off the table, or its child falls |

`RightPeer` is false without its premise: after a kick the number is given to the next
client. Passwords are right or wrong. Of a command it matters only how it ends; what zones and
the user's image contain, no other process sees. EXEC is taken to start its program
(after a failed `execvp` two processes would share one memory). When P2P and NDT find
no peer in the table they use the numbers in `users[].ntwrk`, which are not modelled. A pass over the table is one step. SIGCHLD
signals that coalesce are handled here one by one, and possibly earlier than in the code.

### ChatClient

The build is that of `LinxSrvc/IM/Makefile` (Linux, `_DEBUG`). `main`, `rcv` and `p2p` are the
three threads of a client with their locals, `client` and `content` are `g_client` and
`g_content`, `toServer` and `toClient` the two directions of the connection. A step of a thread
ends where it next looks at or changes something shared: sending a command takes four
(`Mark` resets the status, `Fill` and `Copy` write `g_content`, `Send` sends it),
and so does the request that `p2pMessage` makes from the receiving thread, with the same
buffer (`AskFill`, `AskCopy`, `AskSend`). What the user types is `Scripts`; the user may also
quit. The server's side is translated from `IM.cc`: `Admit` before login and `Serve` after
it, with the heartbeat that may come along. `Drop` is the network. `p2p.frame` says whether the
local variable `pp_sock`, whose address the datagram thread has, still exists; once it does
not, `client.flag` and the loop are as undefined as what it reads.

The connection is a stream, and each end makes one `recv` of 256 bytes and takes what it returns
for one message. In the model the queues keep the borders of the messages, and a read (`Take`,
`Answer`) returns the first `n` of them (`Returns`; a block of an image fills a read) and is judged by
the first, or ends within the `n`-th and leaves a `Rest` (`Left`). Of a message that was cut, its
beginning is seen (`Parts`, `Nameless`): the command without the names, the image without its
length. What begins with a `Rest` is taken for whatever the bytes happen to say (`Strays`), as text
and image data stand where the next header is expected. `cuts` counts the reads that
ended within a message; a script limits them. A message is cut at most once; the rest of a block may
come together with the beginning of the next.

| Property | Says |
|---|---|
| `Turns` = `TypeOK`, `InTurn`, `NoLostTurn` | for a client alone, nothing of an earlier command is under way while the user is asked; no reply is used up without giving the turn back |
| `TurnComesBack` | the user is asked again, whatever the other client sends |
| `LostEnds` | a client whose connection is lost ends, also from within `p2pMessage` |

Premises: `InTurn` is false with another client's messages, which set the status too, and with
messages to oneself, which come back before the reply and end the wait for it. It is false also once
a read has ended within a message (`cuts`), which nothing in the code prevents: the following blocks
of an image are then shifted, their data are taken for commands, and the user is asked in the middle
of the transfer. So it says what holds as long as the network delivers each message to one read.
`Excepted`, in `NoLostTurn` and `TurnComesBack`, names the cases in which a reply really is lost:
after `p2pMessage`, since what is sent may be its request instead of the command and its sockets
use up the descriptors; when an image is gone that was fetched before; and again after a read that ended
within a message, since the reply may be taken for nothing. `LostEnds` needs no such premise: the
run's scripts `Shifted` and `Garbled` check it with reads that are cut.

### WebevServer and Webev

`WebevServer` is `StartServer` without callbacks. `handler.pc` walks through
`GenericHandler`: pipe, fork, wait for the child, close one end, read, respond. The
descriptors are counted (`Fds`): `leaked` are those that nothing will close. `pipe` and
`fork` may fail, the child may be killed before it writes. `Webev` adds `RequestClient`: `main`
is the caller, `thread[k]` `HttpClient` in the thread of call `k`, `details` the caller's
`HookDetail`s, `allocated` the event bases, `g_msgRecv` the answers under the addresses of
bases, which are used again. What a freed base or a dead stack frame does is
a choice between nothing and a crash (`Break`, `Return`, `ReadChunk`). libevent and the
kernel are external. Requests of others may come at any time.

| Property | Says |
|---|---|
| `Holdings` = `TypeOK`, `DescriptorsAccounted`, `OwnBase` | the descriptors lost are one per answer and two per failed fork, and no connection but of clients that wait in vain; a thread has freed its base, and only its own, on each path |
| `RightStatus` | a client gets the status its own child has found, or 405 if that was killed; for OPTIONS always 200 |
| `HandlerReturns` | the event loop always comes back from the handler |
| `CallReturns` | a call returns or the process ends |

### VideoCapture

`pc` is the place in `video_capture`, `socket_routine` or `routine`; `script` the options
that are left. `driver` has the two queues of V4L2, `content` the frame in each buffer. Driver and
camera are external: a frame may come at any time while a buffer is queued, and the camera
may stop (`CameraStops`). `Exit` stands for `errno_exit` and signals alike. What shapes the model:

- With `-u` `posix_memalign` gets a null pointer, so `init_userp` ends the program.
- `select` that is interrupted, and its repetition, change nothing; that it wakes up for
  nothing is `TryAgain`, possible while the camera is alive.
- `-d` is overridden in `routine` before it is used.
- The wait between attempts to connect overflows at the 26th: `SleepsForever`.
- The byte that the callback of `read` sets behind the buffer is not modelled.
- `save_file` and `send_data` ignore what `fwrite` and `send` return (`routine.c:581`, `:586`):
  `Dealt` writes the frame or counts it in `lost`, and the routine goes on either way. A `send`
  to a peer that does not read waits without a timeout (`stalled`) until it reads or goes
  (`PeerReads`, external and not fair).

| Property | Says |
|---|---|
| `Buffering` = `TypeOK`, `BuffersKept`, `DealtIntact` | while capturing, each buffer is in exactly one place; the frame that is written out does not change meanwhile |
| `WholeFile` | a routine that ends has given out all its frames, once and in order, but those whose `fwrite` or `send` failed; without a failure the file is whole |
| `CleanBetween` | between routines nothing is mapped, open or streaming, whatever method came before |
| `RoutineEnds` | a routine returns or ends the program, also if the camera stops, provided that no peer of a socket stops reading for ever |

### LinkedList

The specification is `NodesSpec`, over `nodeVars`, so that one module of proofs can extend this
module and `Timing`. `alive`, `addr`, `prev`, `next` are the heap, `m_list` and `m_count` the object. Following null is
`crashed`; a behaviour ends there, or when `m_list` dangles. `ListSpec` is a sequence with a position in it. The refinement reads the
nodes from the first one on; `m_list` becomes the position. What a client has to know is part of
`ListSpec`: an insertion at 1 puts the element first if there are others, a
search prefers what is left of `m_list`, `get` and `indexOf` count from `m_list`, removal of
the last element crashes. `insert(element, position)` and `MakeEmpty` are left out: after
them count and nodes do not agree.

| Property | Says |
|---|---|
| `WellFormed` = `TypeOK`, `DoublyLinked`, `AllReached` | the pointers agree; the nodes allocated are those that are reached, and as many as counted |
| `AnswersForSequence` | every query returns what it does for the sequence |
| `ImplementsList` | refinement: each call is a call of `ListSpec` |

## Runs

| Run | Instance | Shows |
|---|---|---|
| `soap` | 3 workers, 3 slots (2 usable), 3 connections, 1 client that may keep its worker | safety, the refinement, `Served`, `Ends` |
| `pool` | 2 workers, 4 slots, 4 tasks, up to 3 calls of `destroy` | what survives overlapping critical sections; `wait` and two calls of `destroy` return, the third blocks |
| `timer` | 2 users in every division of roles, 3 starts | safety and `ExpireReturns` |
| `kai_safety` | 2 subscribers, 2 publishers, 2 topics, in turn, or one publisher or one subscriber hasty; every read may be short | routing and bookkeeping |
| `im_safety` | 2 clients that come and go with an operator, or 3 that stay; 2 users, 1 with an account; 2 slots | the table and the peers |
| `im_live` | 2 clients whose messages may name nobody, operator clears the table | `LostPeerLeaves` |
| `im_session` | 2 clients, 2 accounts | *violation*: two clients logged in as one user |
| `chat` | 1 client that fetches an image, once or twice, also with reads that end within a message, or looks for a hole, or writes to itself; or 2 that chat | turns, retries, the end |
| `webev` | 1 or 2 calls, with and without a hook, and a request of another client; 4 descriptors, 2 bases | answers, descriptors, bases, progress |
| `webev_exit` | 1 call with a hook | *violation*: the process is ended although the answer has come |
| `video` | command lines with up to 3 routines, 4 buffers, 5 frames each | buffers, files (writes may fail, peers may stop reading), what routines leave |
| `list` | every sequence of calls with 5 nodes, 2 elements | the list is a sequence |

Why the bounds suffice to be of interest: in the SOAP run the ring is full, empty and
wrapped, with several threads woken for one socket, and pills compete with connections
for slots. In the pool two workers are the least number whose critical sections
overlap, four tasks on four slots fill the counter. Three
starts of the timer let a start come between any two steps of an `Expire` and still have
one more. Four broker clients on four descriptors reuse descriptors of both kinds.
In the chat server two users and two slots are needed for slot 1 to matter, three
connections for a third client to be confused with. The chat client tries twice
(`MAXRETRY`, 5 in the code), opens two sockets and fetches images of up to two blocks: one
try can be the last or not, a second `p2pMessage` finds what the first left, a block can be
the last or not. `MaxMerge` is two: of merged messages only the first is looked at.
At most two of its reads are cut: a block cut twice in a row, or a command and a reply.
`WaitMsgTask` looks again once (three times in the code). Four descriptors
are used up by two requests, two bases are enough for an address to be used again. Five
frames on four buffers use each buffer, and one twice; the code's count is 100.
In a list of five nodes a node can have two neighbours on both sides.

`CHECK_DEADLOCK FALSE` is set in all runs: every one of these systems may stop (the
server has shut down, the pool is destroyed, clients need not come again).

### Fairness

`kai_safety`, `im_safety`, `list` and the violations assume none. In `soap` each step of the
server is weakly fair: the threads are preemptively scheduled and the mutex is held for a few
instructions. Not fair are clients, the accept timeout, spurious wakeups, and `soap_serve` of the
clients in `Stuck`, as no receive timeout is set. In `pool` the client's steps
inside a call, and each worker's, are weakly fair; the client need not call. `timer`
adds strong fairness for getting `mutex_`: other threads take it again and again, and
a lock is granted in the end to one who keeps asking. In `im_live` what a child does
unasked is weakly fair (`Serve`); the code waits there in `recv` and `select` with
timeouts, and a connection that has gone makes them return or makes `send` fail. `LostPeerLeaves`
rests on reading from a closed connection in a loop that goes on.
In `chat` the main thread's polling, the receiving thread and the server are weakly fair:
their waits are sleeps and timeouts. The user, the datagram thread and the network are not. In
`webev` the caller, each thread, the server and its child are; libevent ends a dispatch sooner
or later, as its connections time out. In `video` the program's steps are, except
in the sleep that never ends and in a `send` that waits for its peer, and so is the camera as long as it works.

### Documented promises that fail

Two have a run, and are the `findings` in `PROJECT.json`:

- `IM.cc:456`, "Warn: another [%s] been on-line.": the second session is not always
  noticed (`OneSession`, run `im_session`).
- `WebevApi.cpp:236`, "dispatch timeout %us to exit": `detail.base` is passed before it is set, and
  the process ends answered or not (`ExitOnTimeout`, run `webev_exit`).

Five more are stated in the modules, and TLC refutes each when it is added to the run named:

- `pthdpool.c:39`, "When returning from pthread_cond_wait(), we own the lock": the lock may be
  held by another thread as well (`OwnsLock` as an invariant of `ThreadPool.cfg`).
- `KaiSocket.cc:348`, "delete this publisher network": the network deleted is the one
  accepted last (`OwnNetworkDeleted` as a property of `KaiBroker.cfg`).
- `IM.cc:469`, "we will close this connect": the main process keeps it
  (`ClosedAsPromised` as an invariant of `ImServer.cfg`).
- `client.cc:296` (in Chinese): the server then asks that client to send this host the message
  that digs the hole; in fact the request
  comes back to the client that made it (`HoleFromPeer` as an invariant of `ChatClient.cfg`, with
  `Scripts <- JustSeeking`).
- `client.cc:295` to `297` (in Chinese): after the time has run out the sender asks the server for a hole,
  and this is repeated MAXRETRY times; in fact the server is asked once, before the first
  try, and the tries are repeated without it (`AsksAgain` as a property of `ChatClient.cfg`, with
  `Scripts <- JustSeeking`).

Further disagreements seen while reading, without a property: `pthd_pool_destroy` returns -5
when all went well (`pthdpool.c:69`, `:208`; `pthdpool.h:73` says 0); `add_task` may refuse a task
on an empty queue, since the counter starts at the number of threads
(`pthdpool.h:67` says "queue full"); an accepted task may never be run, as workers
leave after one; the loop announced at `mainSoap.cc:181`; the option `-d` of
`routine.c:635` has no effect; `socket_routine` never reaches its `maxTimes`;
`AVLBinTree::Insert` rotates the wrong way after an insertion on the right
(`Structures.h:614`).

## Proofs

TLC looks at the instances above. The proofs hold for every value of the constants
that satisfies the named assumptions of the module:

| Assumption | Says |
|---|---|
| `ConstantsAssumption`, `NobodyAssumption` | a ring of at least two slots, at least one worker; special values differ from connections, workers and each other |
| `PoolAssumption` | at least one slot and one thread; `None` is no task |
| `TimingAssumption` | finitely many users, at least one, that are not named like detached threads; at least one start |
| `BrokerAssumption` | finitely many clients, each publisher or subscriber; at least one descriptor, and what `checkSsid` finds of each; special values differ from clients and descriptors |
| `ImAssumption` | a table of at least two slots, finitely many connections, special values differ from users and processes |
| `ServerAssumption`, `ClientAssumption` | each request has a kind; a script is not empty and does not begin with the reuse of a hook; special values differ from statuses and bases |
| `ChatAssumption` | scripts of commands, with a client as peer; bounds of at least one; `None` is no client |
| `ListAssumption` | finitely many numbered nodes, at least the one that the constructor allocates; `Null` is neither node nor element |
| `CaptureAssumption`, `NoneAssumption` | at least one frame to capture, at least two buffers; `None` is no filled buffer |

The modules of the proofs are laid out alike: the inductive invariant as named parts, each
with its reason; lemmas about the operators; one lemma per action or part; `Invariance`;
and the properties of the runs as its consequences.

### SoapQueue

`Invariance` proves `Spec => []IInv`, where `IInv` is the conjunction of

- `TypeOK`;
- `LockInv`: the thread between increment and wrap is the owner of `queue_lock`, and
  nobody else is. Without it `head = MAX_QUEUE` could be seen by `enqueue`;
- `HandInv`: a thread holds a socket exactly from the take to the end of its turn, and
  main_server exactly while it enqueues. Without it a take could overwrite a socket;
- `SpawnInv`: threads not yet created do not exist, so that creating one changes
  no thread that runs;
- `QueuedInv`: occupied slots have been written;
- `ExactlyOnePlace`, which is then inductive.

The proof reduces each action to what it does to the set of occupied slots:
`OccupiedByEnqueue` (the tail is added and was free), `OccupiedByTake` (the head is
removed and was occupied), `OccupiedByWrap` (nothing). `TypeCorrect` and
`NothingLostOrDuplicated` are its consequences for the properties that the runs check.

`NoWakeupLost` is inductive next to `IInv`. It compares two numbers, and the proof says
of each action what it does to both: an enqueue adds one socket and wakes one thread if any
sleeps; a take removes one socket, and its thread stays awake unless the socket is a pill;
a thread falls asleep only when the ring is empty.

`ShutdownDrains` needs `ShutdownInv`: the pills in the ring and those with threads are as
many as `main_server` has put in (`PillCount`), the last thing in the ring's array is a pill
once there is one (`LastIsPill`), and the threads joined have ended (`JoinInv`). When all are
joined every thread holds a pill, so that none is in the ring; a ring that was not empty
would end with one (`JoinedIsDrained`).

`IndexOfLast` needs `IpInv`: what the two unlocked reads of a thread can have seen as long as
its connection is the one taken last.

`RefinesFifo` proves that `SoapQueue` implements `FifoServer`. The ring is read as the
sequence `Contents`; `EnqueueAppends` and `TakeIsTail` show that the two operations
are Append and Tail of it, `FifoStutter` and `FifoStep` that each action is a step
of the abstract server or leaves it alone.

### ThreadPool

`Invariance` proves the conjunction of

- `TypeInv`, and `MakeInv`: while `pthd_pool_init` still creates threads there is no task, so that
  those that run already can only wait or leave, and `cur` is what it has counted;
- `UpperInv` and `LowerInv`: `cur_thrd_no` and each copy of it that a thread is about to
  write back are at least the number of workers that have yet to take themselves off
  (`Pending`), and no more than slots or threads. The copies are what
  makes the invariant: a stale value may overwrite a newer one, but a copy was loaded when
  more workers were pending;
- `LoopInv`: hence no worker past the loop finds the counter zero, and only worker 0 waits;
- `FreedInv`, `JoinInv`: what `destroy` has joined when it frees the pool;
- `LockInv`: a lock that is taken is held by somebody who will still release it;
- `PrevInv`, `RoomInv`: `prev` has been moved at most once by each worker, and with no more
  slots than threads `add_task` accepts nothing, so that nobody moves it: it never
  reaches the end of the ring, and the wrap at `pthdpool.c:56` is never taken.

`CounterHolds` and `LeftClean` follow.

Tasks need more. `NewInv` follows a task from the call of `add_task`: it is refused before
it is written, and it is in one slot at most; `OneInv`: a worker takes one task, and only
what was taken is run. Both hold for any number of workers, and give `RefusedNeverRun`.

That no task is run twice rests on there being at most two. The lock is broken only by a worker
that has ended, so until then (`HoldInv`) critical sections do not overlap, and
after that there is only one worker left for them to overlap with: what it has to be protected
from is the task that the first one took, which lies in slot 0 while `prev` has
gone on (`SlotInv`, `TaskInv`). `RunInv` counts the runs, and `TasksRunOnce`
follows. With three workers it is false.

### Timing

`Inv` names the parts by the premise each needs: `RoleInv`, `MutexInv`, `BornInv` always;
`LiveInv` (at most one detached thread has still to set `expired_`) with one starter;
`StopInv` (a call of `Expire` that goes on under the mutex has seen the end of every older
timer; one that finds `try_to_expire_` set finds it set for good) with one starter and one
expirer; `AloneInv` (a detached thread on its way out finds the user waiting for it) with
one user.

### KaiBroker

`Inv` has five parts.

- `TypeInv`, whatever the clients do: the types, a backlog that is not empty when it is
  accepted from, and what each thread holds at each point.
- `HastyInv`, if at most one client is hasty. `SockInv` is what it is about: an entry of `m_networks`
  has its own descriptor, with one exception. A thread may close the connection that `start()` has
  accepted and not yet entered; its entry is then made for a closed descriptor, which
  the next connection would get. That there is no next one before the new connection's
  thread has found the descriptor closed and swept all entries away is what `RestInv` is
  for: before the hasty client has connected no thread is at work while a connection is accepted, so
  that none is closed; once it has connected, others wait for all threads to rest (`Late`). With
  `KnownInv` (who sends and who is known) and `RouteInv` (`prsid` has registered), whatever is
  sent reaches `prsid` or nobody.
- `InTurn`, for clients in turn as long as no read is short (`Orderly`). `TurnInv` is the heart: at most one thread is *active* (at
  work, or about to find its client gone), and while one is, nothing is accepted; so
  whoever writes to `m_network` is alone. `LastInv`: the active thread's connection is
  `m_network`, or was closed by it. With `OwnInv` and `StreamInv` (each thread finds on its own
  connection what it expects) this gives `InStep`. `BookInv` and `AliveInv` are the
  books: every entry has its descriptor and its client, every open descriptor its entry, every
  connected client its thread. `Closing` and `ClosingEntries` show
  that `handleNotify` keeps them, which rests on no thread ever having `EBADF`: that every
  entry that a failed write closes is open is `BookInv` itself.
- `TopicInv`: the entry of `prsid` has role and topic of its client, and
  the topic in `m_network` is that of the message at hand. `OwnEntry` is where the ssid
  matters: if `checkSsid` finds the descriptor in it (`Legible`), it fits the subscriber's own entry only.
- `StayInv`: as long as only the connection accepted last was closed by its client, every
  thread has its entry. `NoWriteFails` is a consequence.

`BooksAreKept`, `StaysInStep`, `OnlyRegistered` (which is `OnlySubscribers`), and, if `Legible`, `TopicsMatch` and `LastReachable` follow.

### ImServer

`Invariance` proves `Spec => []IInv` for every number of slots, every finite set of
connections, all users, accounts and scripts. `IInv` is the conjunction of

- `TypeOK`;
- `DescriptorInv`: a process has nothing open at two descriptors, and nobody has a
  connection that is not yet accepted. With it a pigeonhole argument (`FreeDescriptor`)
  gives every accept a free descriptor, without which `sock` has no type;
- `GoalInv`: a child that clears an entry knows where it goes on. Without it `Clear`
  could send it nowhere;
- `UnbornInv`: a connection that is still to come has no process, so that an accept
  ends no session;
- `FallenInv`: a child that fell has ended for good, so that the name it had stays its own;
- `RoomForOne` and `NoStaleEntry`, which are inductive together: that `set_user_quit`
  finds its own user in the table, and not another entry of the same name, rests on
  slot 0 being the only one in use.

`ScaledSlot` is the arithmetic behind `RoomForOne`: of the places at which
`set_n_get_mem` writes, `i * Size`, only that of slot 0 is in the table.
`KeptSessions` says when a step that leaves the table alone keeps `NoStaleEntry`;
`Cleared`, `StoreTable` and `LeaveTable` are the steps that do not leave it alone or that
end a session. `TypeCorrect`, `OnlyFirstSlot` and `NeverStale` are the consequences.

`NeverAThirdClient` proves `RightPeer`. Descriptors mean the same in all processes as long as
nothing was kicked, no child has ended and only the main process has accepted (`Calm`). Then each
connection has one number, which is not that of another connection nor of the pipe or
the listening socket (`NumberInv`); the main process, which never closes what it accepted, has all of
them open (`MainFds`), which is why the number given next is new; and the table holds the number of
the connection it names (`EntryInv`). A new child copies this from the main process. `Calm` is wider than the
premise of `RightPeer`, which lets the main process be gone in between:
children keep `listen_socket`, so a restart cannot bind and nobody else accepts.

### ChatClient

`ShapeInv` is the types, with `CallInv`: `p2pMessage` runs only for a message that names a client.
`CountInv` bounds `g_client.count` by the sockets opened: it counts what has been done together
with the tries left in the current call (`TriesToCome`).

`TurnsKept` is `Spec => []Turns`. With the above, `TurnInv` is inductive. Its parts speak of a
connection on which no read has ended within a message (`cuts[c] = 0`; `CutsGrow`: it was so before,
too): the queues then hold whole messages, and so does the receiving thread (`Unbroken`).

- `LostInv`, of every client, for `NoLostTurn`. What gives the turn back is under way
  (`OwedInv`), and for that an image whose first blocks have been read must still end.
  Its end is a length that comes twice, so `ImageInv` says that the last image block
  in the queue has the length of the block before it, in the queue, in hand or remembered
  in `rcv.fw`. `EarlyInv` and `SocksInv` are the two times at which nothing can be owed:
  before there is a connection, and before the first call of `p2pMessage`.
- `AbsentInv`: who types nothing never connects, so that a client that is alone has nobody else's
  messages in its queue.
- `AloneInv`, for `InTurn`: the cycle of a command. A client that is alone is `Idle`, has `Asked`,
  is `Answered`, or holds the reply, or a block of the image, in hand (`HoldsReply`, `HoldsBlock`),
  and is `Idle` again; a heartbeat may be in between. While the user is asked it is `Idle`.
  `IntentInv` relates the command to be sent to the script: without it a second image, or a message to
  oneself, could not be excluded.

The lemmas on images in a queue (`ImagesTaken`, `ImagesAppended`, `BlocksAppended`) say what
taking a message and appending a reply do to `LastTwice`. Each action's effect on its own
client is a lemma (`SendEffect`, `CallEffect`, ...), as is that of others' steps (`ElsewhereEffect`).

### WebevServer and Webev

`ServerInv` is proved of the server's steps and `ClientInv` of the client's. Every request is
in one state (`OnceInv`): it waits, has the handler, is forgotten or has its reply; child, pipe
and status belong to the request that the handler is at (`ChildInv`), which gives
`RightStatus`. `CostInv` counts descriptors: what leaked is at most one per reply and two per
request forgotten. Cardinalities need finite sets, so `FiniteInv`: whatever the
set of requests, those seen so far are finitely many. `BaseInv`: the bases allocated are those
of the calls at work, each with its own. `StatusIsOwn` and `HoldingsKept` follow.

### VideoCapture

`PhaseInv` says what each phase of a routine leaves to the next; with it `uninit_device`
finds exactly what `init_device` has mapped, although it goes by `io` and an `n_buffers` that
is never reset. `BufferInv`: each buffer is in one place, queued, filled or in hand, counted by
position, since the driver's two queues are sequences (`Placed`, with lemmas for each of the moves).
`DealingSteps` says what the callback can do, at once or after a wait. `CountInv` and `OrderInv`
relate the frames written and lost to those to come. `BuffersTravel`,
`WholeFileWritten`, `CleanBetweenRoutines` follow.

### LinkedList

`NodeInv` says that there is a sequence of all nodes in use, such that the pointers of each lead to
its neighbours (`InOrder`); that what is not in use is as a constructor leaves it; and that
`m_list` is in use. Calls add to the sequence after one of its places, or in front, or take one
out: `Longer` and `Shorter` are those sequences, and `AddKeeps` and `RemoveKeeps` show that the
assignments of `insert`, `add` and `remove` lead from the old to the new. `NodesInvariance` follows, and
with `Counted` (the sequence has as many entries as there are nodes) `LinksStayWellFormed`.

What the code finds by following pointers, the model finds with `Along`, a recursive function
of the number of steps. `AlongIs` says what it is at each number: a fact about data that needs
induction. The library's induction theorem takes an operator, which the provers cannot
instantiate, so `SetInduction` states it for subsets of `Nat`: it follows from
`HasLeast`, that a set of numbers has a least element, which the well-foundedness of `<` gives. With
it, `Forwards` and `Backwards` say that k steps from a place lead to the place k further, `FirstIs`
and `FindIs` what the searches of the code return, whatever `m_list` is, and `QueriesAnswer`
that all queries answer as for the sequence of elements.

`NodesAreASequence` is the refinement: `InsertedIs` and `RemovedIs` are the laws of `InsertAt` and
`RemoveAt`, `AddsAsSequence` and `RemovesAsSequence` that a call does the same to the elements read
from the nodes, `ListStutter` and `ListStep` that each step is one of `ListSpec`.

### What the proofs corrected

Attempts that failed showed five places where a model or a property was wrong, all of which the
small instances had not shown:

- `Timing`: a destructor that found the timer expired did not count as having destroyed it,
  so that `NoUseAfterDestroy` left out the case in which a detached thread is about to unlock;
- `ThreadPool`: the counter exceeds the queue when there are more threads than slots;
- `KaiBroker`: a thread waiting for a body never let the next client act, so that a broker
  out of step could not be seen to fail; and `OnlySubscribers` does not hold whatever the clients do;
- `ChatClient`: `InTurn` does not hold of a client that writes to itself, which no script did;
  one does now.

### Only model-checked

Every invariant and every action property of the runs that pass is stated by a theorem. What
the theorems leave to TLC:

- Liveness, and every property with fairness: the provers have no rules for it.
- `RightTasks` of `ThreadPool` is no theorem of every instance: it fails for three workers. It is
  proved of two.
