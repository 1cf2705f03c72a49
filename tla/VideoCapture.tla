---------------------------- MODULE VideoCapture ----------------------------
(***************************************************************************)
(* LinxSrvc/hdware/routine.c: video_capture works through its options;     *)
(* each -f or -s captures a number of frames from a V4L2 device, with the  *)
(* method that -m, -r or -u has chosen, and gives each to a callback that  *)
(* writes it to a file or a socket.  The driver and the camera run         *)
(* meanwhile; they are external.                                           *)
(***************************************************************************)
EXTENDS Integers, Sequences, SequencesExt

CONSTANTS
  Scripts,      \* command lines: sequences of options
  Frames,       \* count in mainloop: the frames of one routine
  MaxBuffers,   \* req.count: buffers that the program asks for
  None

CaptureOptions == {"f", "s", "m", "r", "u"}

ASSUME CaptureAssumption ==
  /\ Scripts \subseteq Seq(CaptureOptions)
  /\ Frames \in Nat \ {0} /\ MaxBuffers \in Nat \ {0, 1}

VARIABLES
  script,    \* the options still to come
  io,        \* the method
  sink,      \* file or socket, while a routine runs
  pc,        \* where the program is
  times,     \* attempts to connect
  fd,        \* whether the device is open
  n_buffers, \* as in the code, which does not reset it
  mapped,    \* the buffers with memory in this process: indices of data_buff
  count,     \* frames still to read
  buf,       \* the buffer taken from the driver and the frame it held then, or None
  written,   \* the frames that have gone out in this routine, in fwrite or send
  lost,      \* how many have not, or not whole
  driver,    \* incoming, outgoing: queues of buffers; frames: taken so far; on
  content    \* the frame in each buffer

progVars == <<script, io, sink, pc, times, fd, n_buffers, mapped, count, buf, written, lost>>
vars == <<progVars, driver, content>>

Buffers == 0 .. MaxBuffers - 1

\* None is not a buffer with its frame.
ASSUME NoneAssumption == None \notin [index : Buffers, frame : Nat]

Off == [incoming |-> <<>>, outgoing |-> <<>>, frames |-> 0, on |-> FALSE, alive |-> TRUE]

Init ==
  /\ script \in Scripts /\ io = "mmap" /\ sink = None /\ pc = "options" /\ times = 0
  /\ fd = FALSE /\ n_buffers = 0 /\ mapped = {} /\ count = 0 /\ buf = None
  /\ written = <<>> /\ lost = 0
  /\ driver = Off /\ content = [b \in Buffers |-> 0]

GoTo(next) == pc' = next

\* errno_exit, exit, or a signal.
Exit == pc' = "exited"

-----------------------------------------------------------------------------
(* Options *)

Method == [m |-> "mmap", r |-> "read", u |-> "userp"]

SetMethod ==
  /\ pc = "options" /\ script # <<>> /\ Head(script) \in DOMAIN Method
  /\ io' = Method[Head(script)] /\ script' = Tail(script)
  /\ UNCHANGED <<sink, pc, times, fd, n_buffers, mapped, count, buf, written, lost, driver,
                 content>>

\* The file is opened, or the option has no effect.
local_routine ==
  /\ pc = "options" /\ script # <<>> /\ Head(script) = "f" /\ script' = Tail(script)
  /\ \/ GoTo("open") /\ sink' = "file" /\ written' = <<>> /\ lost' = 0
     \/ UNCHANGED <<pc, sink, written, lost>>
  /\ UNCHANGED <<io, times, fd, n_buffers, mapped, count, buf, driver, content>>

\* An address that IPv4_verify refuses has no effect.
socket_routine ==
  /\ pc = "options" /\ script # <<>> /\ Head(script) = "s" /\ script' = Tail(script)
  /\ \/ GoTo("connect") /\ times' = 0
     \/ UNCHANGED <<pc, times>>
  /\ UNCHANGED <<io, sink, fd, n_buffers, mapped, count, buf, written, lost, driver, content>>

Connect ==
  /\ pc = "connect" /\ GoTo("open") /\ sink' = "socket" /\ written' = <<>> /\ lost' = 0
  /\ UNCHANGED <<script, io, times, fd, n_buffers, mapped, count, buf, driver, content>>

\* The wait of 100 * 2^times microseconds is computed in 32 bits with a sign (in quarters
\* here); a negative one is converted to an unsigned long, and the sleep lasts for ever.
SleepsForever(n) == (25 * 2^n) % 2^30 >= 2^29

\* maxTimes, 100, is never reached.
ConnectFails ==
  /\ pc = "connect" /\ times' = times + 1
  /\ GoTo(IF SleepsForever(times) THEN "asleep" ELSE "connect")
  /\ UNCHANGED <<script, io, sink, fd, n_buffers, mapped, count, buf, written, lost,
                 driver, content>>

Usage ==
  /\ pc = "options" /\ script = <<>> /\ Exit
  /\ UNCHANGED <<script, io, sink, times, fd, n_buffers, mapped, count, buf, written, lost,
                 driver, content>>

-----------------------------------------------------------------------------
(* routine *)

open_device ==
  /\ pc = "open"
  /\ \/ GoTo("init") /\ fd' = TRUE
     \/ Exit /\ UNCHANGED fd
  /\ UNCHANGED <<script, io, sink, times, n_buffers, mapped, count, buf, written, lost,
                 driver, content>>

\* The driver refuses to set a format, or to give out buffers, while there is memory
\* mapped from buffers of an earlier use; and it may lack the capability, or memory.
init_fails ==
  /\ pc = "init" /\ Exit
  /\ UNCHANGED <<script, io, sink, times, fd, n_buffers, mapped, count, buf, written, lost,
                 driver, content>>

\* data_buff has one element; n_buffers stays as it is.
init_read ==
  /\ pc = "init" /\ io = "read" /\ mapped = {}
  /\ mapped' = {0} /\ GoTo("start")
  /\ UNCHANGED <<script, io, sink, times, fd, n_buffers, count, buf, written, lost, driver,
                 content>>

\* Mutant of init_mmap: the driver's answer is not tested.
InitAnyNumber ==
  /\ pc = "init" /\ io = "mmap" /\ mapped = {}
  /\ \E granted \in 1 .. MaxBuffers :
       n_buffers' = granted /\ mapped' = 0 .. granted - 1 /\ GoTo("start")
  /\ UNCHANGED <<script, io, sink, times, fd, count, buf, written, lost, driver, content>>

\* The driver gives as many buffers as it likes, up to the number asked for; with less
\* than two the program ends.
init_mmap ==
  /\ pc = "init" /\ io = "mmap" /\ mapped = {}
  /\ \E granted \in 1 .. MaxBuffers :
       IF granted < 2
       THEN Exit /\ UNCHANGED <<n_buffers, mapped>>
       ELSE n_buffers' = granted /\ mapped' = 0 .. granted - 1 /\ GoTo("start")
  /\ UNCHANGED <<script, io, sink, times, fd, count, buf, written, lost, driver, content>>

\* posix_memalign is given the null pointer that data_buff[0].start still is, instead of
\* its address, and writes there: the process is killed by a signal.
init_userp ==
  /\ pc = "init" /\ io = "userp" /\ mapped = {}
  /\ Exit /\ n_buffers' = 0
  /\ UNCHANGED <<script, io, sink, times, fd, mapped, count, buf, written, lost, driver,
                 content>>

\* All buffers are queued and the stream is switched on; nothing to do for read.
start_capturing ==
  /\ pc = "start"
  /\ \/ /\ GoTo("select") /\ count' = Frames
        /\ driver' = IF io = "read" THEN driver
                     ELSE [Off EXCEPT !.incoming = [i \in 1 .. n_buffers |-> i - 1], !.on = TRUE]
     \/ io = "mmap" /\ Exit /\ UNCHANGED <<count, driver>>
  /\ UNCHANGED <<script, io, sink, times, fd, n_buffers, mapped, buf, written, lost, content>>

\* A frame is ready, or the driver wakes the program up for nothing.  With read, the
\* first select starts the camera.
Select ==
  /\ pc = "select" /\ (driver.outgoing # <<>> \/ driver.alive)
  /\ GoTo("read") /\ driver' = [driver EXCEPT !.on = TRUE]
  /\ UNCHANGED <<script, io, sink, times, fd, n_buffers, mapped, count, buf, written, lost,
                 content>>

\* Mutant of SelectTimeout: the loop goes on.
TimeoutIgnored ==
  /\ pc = "select" /\ driver.outgoing = <<>>
  /\ UNCHANGED vars

\* Nothing for two seconds.
SelectTimeout ==
  /\ pc = "select" /\ driver.outgoing = <<>> /\ Exit
  /\ UNCHANGED <<script, io, sink, times, fd, n_buffers, mapped, count, buf, written, lost,
                 driver, content>>

NextFrame(left) == count' = left /\ GoTo(IF left = 0 THEN "end" ELSE "select")

\* Mutant of TryAgain: EAGAIN counts as a frame.
TryAgainCounts ==
  /\ pc = "read" /\ driver.outgoing = <<>> /\ NextFrame(count - 1)
  /\ UNCHANGED <<script, io, sink, times, fd, n_buffers, mapped, buf, written, lost,
                 driver, content>>

\* read_frame finds nothing: EAGAIN, and back to select.
TryAgain ==
  /\ pc = "read" /\ driver.outgoing = <<>> /\ GoTo("select")
  /\ UNCHANGED <<script, io, sink, times, fd, n_buffers, mapped, count, buf, written, lost,
                 driver, content>>

\* Any other error of read or VIDIOC_DQBUF.
ReadFails ==
  /\ pc = "read" /\ Exit
  /\ UNCHANGED <<script, io, sink, times, fd, n_buffers, mapped, count, buf, written, lost,
                 driver, content>>

\* read copies the frame into data_buff[0].
read_frame_read ==
  /\ pc = "read" /\ io = "read" /\ driver.outgoing # <<>>
  /\ LET got == Head(driver.outgoing).frame
     IN content' = [content EXCEPT ![0] = got] /\ buf' = [index |-> 0, frame |-> got]
  /\ driver' = [driver EXCEPT !.outgoing = Tail(@)] /\ GoTo("deal")
  /\ UNCHANGED <<script, io, sink, times, fd, n_buffers, mapped, count, written, lost>>

\* Mutant of read_frame_mmap: the buffer is given back before the callback has seen it.
DequeueAndRequeue ==
  /\ pc = "read" /\ io = "mmap" /\ driver.outgoing # <<>>
  /\ buf' = Head(driver.outgoing)
  /\ driver' = [driver EXCEPT !.outgoing = Tail(@), !.incoming = Append(@, buf'.index)]
  /\ GoTo("deal")
  /\ UNCHANGED <<script, io, sink, times, fd, n_buffers, mapped, count, written, lost, content>>

\* VIDIOC_DQBUF takes the buffer that was filled first, of which index < n_buffers.
read_frame_mmap ==
  /\ pc = "read" /\ io = "mmap" /\ driver.outgoing # <<>>
  /\ buf' = Head(driver.outgoing) /\ driver' = [driver EXCEPT !.outgoing = Tail(@)]
  /\ GoTo("deal")
  /\ UNCHANGED <<script, io, sink, times, fd, n_buffers, mapped, count, written, lost, content>>

\* What is in the buffer now goes out, or does not: the disk is full, the connection is
\* reset, send takes less than it was given.  save_file and send_data ignore the result, and
\* with read the frame is done in any case.
Dealt ==
  /\ \/ written' = Append(written, content[buf.index]) /\ UNCHANGED lost
     \/ lost' = lost + 1 /\ UNCHANGED written
  /\ IF io = "read" THEN NextFrame(count - 1) /\ buf' = None
     ELSE GoTo("requeue") /\ UNCHANGED <<count, buf>>

\* The callback.  Sending to a socket whose peer has gone ends the process by SIGPIPE, and
\* to one whose peer does not read waits, without a timeout.
deal_image ==
  /\ pc = "deal"
  /\ \/ Dealt
     \/ sink = "socket" /\ (Exit \/ GoTo("stalled")) /\ UNCHANGED <<written, lost, count, buf>>
  /\ UNCHANGED <<script, io, sink, times, fd, n_buffers, mapped, driver, content>>

\* Mutant of Requeue: without VIDIOC_QBUF.
RequeueForgotten ==
  /\ pc = "requeue" /\ buf' = None /\ NextFrame(count - 1)
  /\ UNCHANGED <<script, io, sink, times, fd, n_buffers, mapped, written, lost, driver,
                 content>>

\* The end of read_frame: VIDIOC_QBUF.
Requeue ==
  /\ pc = "requeue"
  /\ \/ /\ driver' = [driver EXCEPT !.incoming = Append(@, buf.index)] /\ buf' = None
        /\ NextFrame(count - 1)
     \/ Exit /\ UNCHANGED <<driver, buf, count>>
  /\ UNCHANGED <<script, io, sink, times, fd, n_buffers, mapped, written, lost, content>>

\* VIDIOC_STREAMOFF takes all buffers from the queues.
end_capturing ==
  /\ pc = "end"
  /\ \/ /\ GoTo("uninit")
        /\ driver' = IF io = "read" THEN driver ELSE [Off EXCEPT !.alive = driver.alive]
     \/ io = "mmap" /\ Exit /\ UNCHANGED driver
  /\ UNCHANGED <<script, io, sink, times, fd, n_buffers, mapped, count, buf, written, lost,
                 content>>

\* Mutant of uninit_device: the last buffer is forgotten.
UninitShort ==
  /\ pc = "uninit" /\ GoTo("close")
  /\ mapped' = mapped \ (IF io = "read" THEN {0} ELSE 0 .. n_buffers - 2)
  /\ UNCHANGED <<script, io, sink, times, fd, n_buffers, count, buf, written, lost, driver,
                 content>>

uninit_device ==
  /\ pc = "uninit"
  /\ \/ /\ GoTo("close")
        /\ mapped' = mapped \ (IF io = "read" THEN {0} ELSE 0 .. n_buffers - 1)
     \/ io = "mmap" /\ Exit /\ UNCHANGED mapped
  /\ UNCHANGED <<script, io, sink, times, fd, n_buffers, count, buf, written, lost, driver,
                 content>>

\* And the file or the socket is closed.
close_device ==
  /\ pc = "close"
  /\ \/ GoTo("options") /\ fd' = FALSE /\ sink' = None /\ driver' = Off
     \/ Exit /\ UNCHANGED <<fd, sink, driver>>
  /\ UNCHANGED <<script, io, times, n_buffers, mapped, count, buf, written, lost, content>>

-----------------------------------------------------------------------------
(* The driver, the camera and the peer of the socket: external *)

\* A frame is stored in the buffer that was queued first; frames are not taken, or are
\* lost, while none is queued.
Capture ==
  /\ driver.on /\ driver.alive /\ driver.incoming # <<>>
  /\ LET b == Head(driver.incoming)
         f == driver.frames + 1
     IN /\ content' = [content EXCEPT ![b] = f]
        /\ driver' = [driver EXCEPT !.incoming = Tail(@), !.frames = f,
                        !.outgoing = Append(@, [index |-> b, frame |-> f])]
  /\ UNCHANGED progVars

\* For read the driver has a buffer of its own.
CaptureForRead ==
  /\ io = "read" /\ driver.on /\ driver.alive /\ driver.outgoing = <<>>
  /\ driver' = [driver EXCEPT !.frames = @ + 1,
                  !.outgoing = <<[index |-> None, frame |-> driver.frames + 1]>>]
  /\ UNCHANGED <<progVars, content>>

CameraStops ==
  /\ driver.on /\ driver.alive /\ driver' = [driver EXCEPT !.alive = FALSE]
  /\ UNCHANGED <<progVars, content>>

\* The peer of a socket that is full reads again, or goes.
PeerReads ==
  /\ pc = "stalled"
  /\ \/ Dealt
     \/ Exit /\ UNCHANGED <<written, lost, count, buf>>
  /\ UNCHANGED <<script, io, sink, times, fd, n_buffers, mapped, driver, content>>

-----------------------------------------------------------------------------

Step ==
  \/ SetMethod \/ local_routine \/ socket_routine \/ Connect \/ ConnectFails \/ Usage
  \/ open_device \/ init_fails \/ init_read \/ init_mmap \/ init_userp \/ start_capturing
  \/ Select \/ SelectTimeout \/ TryAgain \/ ReadFails \/ read_frame_read \/ read_frame_mmap
  \/ deal_image \/ Requeue \/ end_capturing \/ uninit_device \/ close_device

Camera == Capture \/ CaptureForRead

Next == Step \/ Camera \/ CameraStops \/ PeerReads

Spec == Init /\ [][Next]_vars

\* The program goes on unless it sleeps for ever or waits for the peer of its socket, and a
\* camera that works takes frames.
FairSpec == Spec /\ WF_vars(Step) /\ WF_vars(Camera)

-----------------------------------------------------------------------------
(* Properties *)

Capturing == {"select", "read", "deal", "stalled", "requeue"}

\* Types of the variables; with mmap there are never less than two buffers.
TypeOK ==
  /\ script \in Seq(CaptureOptions) /\ io \in {"mmap", "read", "userp"}
  /\ sink \in {"file", "socket", None}
  /\ pc \in Capturing \cup {"options", "connect", "asleep", "exited", "open", "init", "start",
                            "end", "uninit", "close"}
  /\ times \in Nat /\ fd \in BOOLEAN /\ n_buffers \in {0} \cup 2 .. MaxBuffers
  /\ mapped \subseteq Buffers /\ count \in 0 .. Frames
  /\ buf = None \/ buf \in [index : Buffers, frame : Nat]
  /\ written \in Seq(Nat) /\ lost \in Nat /\ content \in [Buffers -> Nat]
  /\ driver.incoming \in Seq(Buffers)
  /\ \A e \in Range(driver.outgoing) : e.index \in Buffers \cup {None} /\ e.frame \in Nat

\* While the callback reads a buffer, also in a send that waits, the camera does not write
\* into it: what is written out is the frame that VIDIOC_DQBUF returned, although capturing
\* goes on (read_frame).
DealtIntact == pc \in {"deal", "stalled", "requeue"} => content[buf.index] = buf.frame

\* While the program captures, the driver has every buffer but the one in the program's
\* hands, once: none is lost on the way round, or the camera would run out of buffers
\* after a while and the program into its timeout (VIDIOC_QBUF in start_capturing and
\* read_frame).
BuffersKept ==
  pc \in Capturing /\ io = "mmap" =>
    LET held == IF buf = None THEN <<>> ELSE <<buf.index>>
        all == driver.incoming \o [i \in DOMAIN driver.outgoing |-> driver.outgoing[i].index] \o held
    IN Len(all) = n_buffers /\ Range(all) = 0 .. n_buffers - 1

\* The buffers travel between driver and program as start_capturing and read_frame intend.
Buffering == TypeOK /\ BuffersKept /\ DealtIntact

\* A routine that comes to its end has given the callback as many frames as it was to, each
\* once and in the order they were taken in, whatever EAGAIN came in between (mainloop
\* counts a frame only if read_frame returns 1).  The file is whole if no fwrite failed: the
\* frames that are missing are those whose failure save_file and send_data ignored.  What
\* stdio still holds at the end, fclose writes, and its result is ignored as well.
WholeFile ==
  pc = "end" => /\ Len(written) + lost = Frames
                /\ \A i, j \in 1 .. Len(written) : i < j => written[i] < written[j]

\* After a routine, whatever method it and the ones before it used, nothing is left of
\* it that would make the next one fail: no memory mapped, no open device, no stream
\* (n_buffers keeps its value, and uninit_device depends on io).
CleanBetween ==
  pc \in {"options", "connect", "open"} => ~ fd /\ mapped = {} /\ driver = Off

\* A routine that has begun comes back or ends the program, also when the camera stops in
\* the middle of it (select with a timeout in mainloop).  The premise: no peer of a socket
\* stops reading for ever, for send has no timeout and would wait as long.
RoutineEnds ==
  []<>(pc # "stalled") => (pc \in {"open"} \cup Capturing ~> pc \in {"options", "exited"})

=============================================================================
