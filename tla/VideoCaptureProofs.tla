------------------------- MODULE VideoCaptureProofs -------------------------
(***************************************************************************)
(* Proofs about VideoCapture, for every set of command lines, every number *)
(* of frames and every number of buffers.                                  *)
(***************************************************************************)
EXTENDS VideoCapture, SequenceTheorems, TLAPS

-----------------------------------------------------------------------------
(* The inductive invariant *)

Filled == [index : Buffers \cup {None}, frame : Nat]

\* Types of the driver's state.
DriverStates ==
  [incoming : Seq(Buffers), outgoing : Seq(Filled), frames : Nat, on : BOOLEAN, alive : BOOLEAN]
DriverType == driver \in DriverStates

Holding == pc \in {"deal", "stalled", "requeue"}
BuffersOfRoutine == IF io = "read" THEN {0} ELSE 0 .. n_buffers - 1

\* What each phase of a routine leaves for the next one.
PhaseInv ==
  /\ pc \in {"options", "connect", "open"} => ~ fd
  /\ pc \in {"options", "connect", "open", "init"} => mapped = {}
  /\ pc \in {"options", "connect", "open", "init", "start"} => driver = Off
  /\ pc \in {"start", "end", "uninit"} \cup Capturing =>
       /\ io \in {"read", "mmap"} /\ mapped = BuffersOfRoutine
       /\ io = "mmap" => n_buffers \in 2 .. MaxBuffers
  /\ pc = "close" => mapped = {}
  /\ Holding => buf # None
  /\ buf # None => Holding \/ pc = "exited"
  /\ pc = "requeue" => io = "mmap"

\* Each of n buffers is in one place: queued, filled, or in the program's hands.
Placed(in, out, held, n) ==
  /\ \A i \in 1 .. Len(in) : in[i] \in 0 .. n - 1 /\ in[i] \notin held
  /\ \A i \in 1 .. Len(out) : out[i].index \in 0 .. n - 1 /\ out[i].index \notin held
  /\ held \subseteq 0 .. n - 1
  /\ \A i, j \in 1 .. Len(in) : in[i] = in[j] => i = j
  /\ \A i, j \in 1 .. Len(out) : out[i].index = out[j].index => i = j
  /\ \A i \in 1 .. Len(in), j \in 1 .. Len(out) : in[i] # out[j].index
  /\ \A b \in 0 .. n - 1 : \/ \E i \in 1 .. Len(in) : in[i] = b
                           \/ \E i \in 1 .. Len(out) : out[i].index = b
                           \/ b \in held
  /\ Len(in) + Len(out) + (IF held = {} THEN 0 ELSE 1) = n

Held == IF Holding THEN {buf.index} ELSE {}
Places == Placed(driver.incoming, driver.outgoing, Held, n_buffers)

\* With mmap a filled buffer still holds its frame; with read nothing is ever queued.
ContentInv ==
  /\ io = "mmap" => \A i \in 1 .. Len(driver.outgoing) :
       content[driver.outgoing[i].index] = driver.outgoing[i].frame
  /\ io = "read" => driver.incoming = <<>>
  /\ Holding => content[buf.index] = buf.frame

BufferInv == pc \in Capturing => (io = "mmap" => Places) /\ ContentInv

\* How many frames are written or lost, and which of the frames taken are older than which.
CountInv ==
  /\ pc \in {"open", "init", "start"} => written = <<>> /\ lost = 0
  /\ pc \in Capturing => count > 0
  /\ pc \in {"select", "read", "deal", "stalled"} => Len(written) + lost + count = Frames
  /\ pc = "requeue" => Len(written) + lost + count = Frames + 1
  /\ pc = "end" => Len(written) + lost = Frames

Ascending(s) == \A i, j \in 1 .. Len(s) : i < j => s[i] < s[j]

\* The frames in the driver's queue against each other and those written.
Ordered(out, frames, done) ==
  /\ \A i, j \in 1 .. Len(out) : i < j => out[i].frame < out[j].frame
  /\ \A i \in 1 .. Len(out) : out[i].frame <= frames
  /\ \A i \in 1 .. Len(done) : done[i] <= frames
  /\ \A i \in 1 .. Len(done), j \in 1 .. Len(out) : done[i] < out[j].frame

OrderInv ==
  /\ pc \in Capturing \cup {"end"} => Ascending(written)
  /\ pc \in Capturing => Ordered(driver.outgoing, driver.frames, written)
  /\ Holding => /\ buf.frame <= driver.frames
                /\ \A j \in 1 .. Len(driver.outgoing) : buf.frame < driver.outgoing[j].frame
  /\ pc \in {"deal", "stalled"} => \A i \in 1 .. Len(written) : written[i] < buf.frame
  /\ pc = "requeue" => \A i \in 1 .. Len(written) : written[i] <= buf.frame

Inv == TypeOK /\ DriverType /\ PhaseInv /\ BufferInv /\ CountInv /\ OrderInv

-----------------------------------------------------------------------------
(* Lemmas about queues *)

LEMMA TailOf ==
  ASSUME NEW S, NEW s \in Seq(S), s # <<>>
  PROVE  /\ Head(s) = s[1] /\ s[1] \in S /\ Len(s) \in Nat \ {0}
         /\ Tail(s) \in Seq(S) /\ Len(Tail(s)) = Len(s) - 1
         /\ \A i \in 1 .. Len(s) - 1 : Tail(s)[i] = s[i + 1] /\ s[i + 1] \in S
OBVIOUS

LEMMA NoFrames == <<>> \in Seq(Nat) /\ Len(<<>>) = 0
OBVIOUS

LEMMA AppendTo ==
  ASSUME NEW S, NEW s \in Seq(S), NEW x \in S
  PROVE  /\ Append(s, x) \in Seq(S) /\ Len(Append(s, x)) = Len(s) + 1 /\ Len(s) \in Nat
         /\ Append(s, x)[Len(s) + 1] = x
         /\ \A i \in 1 .. Len(s) : Append(s, x)[i] = s[i] /\ s[i] \in S
OBVIOUS

LEMMA RangeOf ==
  ASSUME NEW S, NEW s \in Seq(S)
  PROVE  /\ \A x \in Range(s) : \E i \in 1 .. Len(s) : x = s[i]
         /\ \A i \in 1 .. Len(s) : s[i] \in Range(s)
         /\ Range(s) \subseteq S
BY DEF Range

\* The buffers granted are among those asked for.
LEMMA GrantedBuffers ==
  ASSUME NEW n \in 1 .. MaxBuffers
  PROVE  0 .. n - 1 \subseteq Buffers
BY CaptureAssumption DEF Buffers

LEMMA FirstBuffer == 0 \in Buffers
BY CaptureAssumption DEF Buffers

-----------------------------------------------------------------------------
(* Types *)

\* What the driver hands out with mmap is a buffer of the program.
LEMMA FilledBuffer ==
  ASSUME Inv, pc = "read", io = "mmap", driver.outgoing # <<>>
  PROVE  /\ Head(driver.outgoing) \in [index : Buffers, frame : Nat]
         /\ Head(driver.outgoing).index \in 0 .. n_buffers - 1
<1>1. driver.outgoing \in Seq(Filled)
  BY DEF Inv, DriverType, DriverStates
<1>2. Head(driver.outgoing) = driver.outgoing[1] /\ 1 \in 1 .. Len(driver.outgoing)
      /\ driver.outgoing[1] \in Filled
  BY <1>1, TailOf
<1>3. driver.outgoing[1].index \in 0 .. n_buffers - 1
  BY <1>2 DEF Inv, BufferInv, Places, Placed, Capturing
<1>4. 0 .. n_buffers - 1 \subseteq Buffers
  BY GrantedBuffers DEF Inv, PhaseInv, Capturing
<1>5. \A e \in Filled : e.index \in Buffers => e \in [index : Buffers, frame : Nat]
  BY DEF Filled
<1>6. QED BY <1>2, <1>3, <1>4, <1>5

\* The callback: a frame goes out or is lost and the next one is due, or the buffer must be
\* given back first; or it waits for the peer, or the process ends.
Dealing == deal_image \/ PeerReads

GoneOrLost ==
  \/ written' = Append(written, buf.frame) /\ lost' = lost
  \/ written' = written /\ lost' = lost + 1

ReadNext == buf' = None /\ count' = count - 1 /\ pc' = IF count - 1 = 0 THEN "end" ELSE "select"
GiveBack == pc' = "requeue" /\ count' = count /\ buf' = buf
NotYet == pc' \in {"stalled", "exited"} /\ UNCHANGED <<written, lost, count, buf>>

LEMMA DealingSteps ==
  ASSUME Inv, Dealing
  PROVE  /\ pc \in {"deal", "stalled"} /\ Holding /\ pc \in Capturing
         /\ UNCHANGED <<script, io, sink, times, fd, n_buffers, mapped, driver, content>>
         /\ buf \in [index : Buffers, frame : Nat] /\ content[buf.index] = buf.frame
         /\ \/ GoneOrLost /\ io = "read" /\ ReadNext
            \/ GoneOrLost /\ io = "mmap" /\ GiveBack
            \/ NotYet
<1>1. pc \in {"deal", "stalled"} /\ Holding /\ pc \in Capturing
  BY DEF Dealing, deal_image, PeerReads, Holding, Capturing
<1>2. UNCHANGED <<script, io, sink, times, fd, n_buffers, mapped, driver, content>>
  BY DEF Dealing, deal_image, PeerReads
<1>3. buf \in [index : Buffers, frame : Nat] /\ content[buf.index] = buf.frame
  BY <1>1 DEF Inv, TypeOK, PhaseInv, BufferInv, ContentInv
<1>4. io \in {"read", "mmap"}
  BY <1>1 DEF Inv, PhaseInv
<1>5. Dealt \/ NotYet
  BY DEF Dealing, deal_image, PeerReads, Exit, GoTo, NotYet
<1>6. ASSUME Dealt
      PROVE  GoneOrLost /\ ((io = "read" /\ ReadNext) \/ (io = "mmap" /\ GiveBack))
  <2>1. GoneOrLost
    BY Zenon, <1>3, <1>6 DEF Dealt, GoneOrLost
  <2>2. CASE io = "read"
    <3>1. buf' = None /\ NextFrame(count - 1)
      BY Zenon, <1>6, <2>2 DEF Dealt
    <3>2. QED BY Zenon, <2>1, <2>2, <3>1 DEF NextFrame, GoTo, ReadNext
  <2>3. CASE io = "mmap"
    <3>1. ~ (io = "read")
      BY <2>3
    <3>2. GoTo("requeue") /\ UNCHANGED <<count, buf>>
      BY Zenon, <1>6, <3>1 DEF Dealt
    <3>3. QED BY <2>1, <2>3, <3>2 DEF GoTo, GiveBack
  <2>4. QED BY <1>4, <2>2, <2>3
<1>7. QED BY <1>1, <1>2, <1>3, <1>5, <1>6

\* A queue of the driver is one of the same kind without its head, and with another buffer.
LEMMA QueueTypes ==
  ASSUME driver \in DriverStates
  PROVE  /\ driver.incoming \in Seq(Buffers) /\ driver.outgoing \in Seq(Filled)
         /\ driver.frames \in Nat
         /\ driver.incoming # <<>> => /\ Tail(driver.incoming) \in Seq(Buffers)
                                     /\ Head(driver.incoming) \in Buffers
         /\ driver.outgoing # <<>> => /\ Tail(driver.outgoing) \in Seq(Filled)
                                     /\ Head(driver.outgoing) \in Filled
         /\ \A b \in Buffers : Append(driver.incoming, b) \in Seq(Buffers)
         /\ \A e \in Filled : Append(driver.outgoing, e) \in Seq(Filled)
<1>1. driver.incoming \in Seq(Buffers) /\ driver.outgoing \in Seq(Filled) /\ driver.frames \in Nat
  BY DEF DriverStates
<1>2. QED BY <1>1

LEMMA DriverTypeStep ==
  ASSUME Inv, Next
  PROVE  DriverType'
<1> USE DEF DriverType
<1>0. driver \in DriverStates /\ Off \in DriverStates
  BY DEF Inv, Off, DriverStates
<1>1. CASE start_capturing
  <2>1. CASE UNCHANGED driver
    BY <1>0, <2>1
  <2>2. CASE /\ io = "mmap"
             /\ driver' = [Off EXCEPT !.incoming = [i \in 1 .. n_buffers |-> i - 1], !.on = TRUE]
    <3>1. n_buffers \in 2 .. MaxBuffers
      BY <1>1, <2>2 DEF Inv, PhaseInv, start_capturing
    <3>2. [i \in 1 .. n_buffers |-> i - 1] \in Seq(Buffers)
      <4>1. \A i \in 1 .. n_buffers : i - 1 \in Buffers
        BY <3>1, CaptureAssumption DEF Buffers
      <4>2. QED BY <3>1, <4>1, CaptureAssumption
    <3>3. QED BY <1>0, <2>2, <3>2 DEF Off, DriverStates
  <2>3. QED BY <1>1, <2>1, <2>2 DEF start_capturing, Inv, PhaseInv
<1>2. CASE Select
  BY <1>0, <1>2 DEF Select, DriverStates
<1>3. CASE read_frame_read
  <2>1. driver' = [driver EXCEPT !.outgoing = Tail(@)] /\ Tail(driver.outgoing) \in Seq(Filled)
    BY <1>0, <1>3, QueueTypes DEF read_frame_read
  <2>2. QED BY <1>0, <2>1 DEF DriverStates
<1>4. CASE read_frame_mmap
  <2>1. driver' = [driver EXCEPT !.outgoing = Tail(@)] /\ Tail(driver.outgoing) \in Seq(Filled)
    BY <1>0, <1>4, QueueTypes DEF read_frame_mmap
  <2>2. QED BY <1>0, <2>1 DEF DriverStates
<1>5. CASE Requeue
  <2>1. CASE UNCHANGED driver
    BY <1>0, <2>1
  <2>2. CASE driver' = [driver EXCEPT !.incoming = Append(@, buf.index)]
    <3>1. buf.index \in Buffers
      BY <1>5 DEF Requeue, Inv, PhaseInv, Holding, TypeOK
    <3>2. Append(driver.incoming, buf.index) \in Seq(Buffers)
      BY <1>0, <3>1, QueueTypes
    <3>3. QED BY <1>0, <2>2, <3>2 DEF DriverStates
  <2>3. QED BY <1>5, <2>1, <2>2 DEF Requeue
<1>6. CASE end_capturing \/ close_device
  BY <1>0, <1>6 DEF end_capturing, close_device, Off, DriverStates
<1>7. CASE Capture
  <2> DEFINE e == [index |-> Head(driver.incoming), frame |-> driver.frames + 1]
  <2>1. Tail(driver.incoming) \in Seq(Buffers) /\ e \in Filled
    BY <1>0, <1>7, QueueTypes DEF Capture, Filled
  <2>2. Append(driver.outgoing, e) \in Seq(Filled) /\ driver.frames + 1 \in Nat
    BY <1>0, <2>1, QueueTypes
  <2>3. driver' = [driver EXCEPT !.incoming = Tail(@), !.frames = driver.frames + 1,
                                 !.outgoing = Append(@, e)]
    BY <1>7 DEF Capture
  <2> HIDE DEF e
  <2>4. QED BY <1>0, <2>1, <2>2, <2>3 DEF DriverStates
<1>8. CASE CaptureForRead
  <2> DEFINE e == [index |-> None, frame |-> driver.frames + 1]
  <2>1. driver.frames + 1 \in Nat /\ e \in Filled
    BY <1>0, QueueTypes DEF Filled
  <2>2. driver' = [driver EXCEPT !.frames = driver.frames + 1, !.outgoing = <<e>>]
    BY <1>8 DEF CaptureForRead
  <2> HIDE DEF e
  <2>3. <<e>> \in Seq(Filled)
    BY <2>1
  <2>4. QED BY <1>0, <2>1, <2>2, <2>3 DEF DriverStates
<1>9. CASE CameraStops
  BY <1>0, <1>9 DEF CameraStops, DriverStates
<1>10. CASE UNCHANGED driver
  BY <1>0, <1>10
<1>11. QED
  BY <1>1, <1>2, <1>3, <1>4, <1>5, <1>6, <1>7, <1>8, <1>9, <1>10
     DEF Next, Step, Camera, SetMethod, local_routine, socket_routine, Connect, ConnectFails,
         Usage, open_device, init_fails, init_read, init_mmap, init_userp, SelectTimeout,
         TryAgain, ReadFails, deal_image, PeerReads, uninit_device

\* A buffer that is given back: its content is a number, and it is one of the driver's.
LEMMA TypeStep ==
  ASSUME Inv, Next
  PROVE  TypeOK'
<1> USE DEF TypeOK
<1>0. TypeOK /\ PhaseInv /\ CountInv
  BY DEF Inv
<1>1. \A e \in Range(driver.outgoing)' : e.index \in Buffers \cup {None} /\ e.frame \in Nat
  <2>1. driver'.outgoing \in Seq(Filled)
    BY DriverTypeStep DEF DriverType, DriverStates
  <2>2. \A e \in Range(driver'.outgoing) : e \in Filled
    BY <2>1, RangeOf
  <2>3. Range(driver.outgoing)' = Range(driver'.outgoing)
    BY DEF Range
  <2>4. QED BY <2>2, <2>3 DEF Filled
<1>2. driver'.incoming \in Seq(Buffers)
  BY DriverTypeStep DEF DriverType, DriverStates
<1>3. script \in Seq(CaptureOptions) /\ script # <<>> =>
         Tail(script) \in Seq(CaptureOptions) /\ Head(script) \in CaptureOptions
  OBVIOUS
<1>4. CASE SetMethod
  <2>1. io' \in {"mmap", "read", "userp"}
    BY <1>4 DEF SetMethod, Method
  <2>2. QED BY <1>0, <1>1, <1>2, <1>3, <1>4, <2>1 DEF SetMethod
<1>5. CASE local_routine
  <2>1. Tail(script) \in Seq(CaptureOptions)
    BY <1>0, <1>3, <1>5 DEF local_routine
  <2>2. written' \in Seq(Nat)
    <3>1. written' = <<>> \/ written' = written
      BY <1>5 DEF local_routine
    <3>2. QED BY <1>0, <3>1, NoFrames
  <2>3. QED BY <1>0, <1>1, <1>2, <1>5, <2>1, <2>2 DEF local_routine, GoTo, Capturing
<1>6. CASE socket_routine
  <2>1. Tail(script) \in Seq(CaptureOptions)
    BY <1>0, <1>3, <1>6 DEF socket_routine
  <2>2. QED BY <1>0, <1>1, <1>2, <1>6, <2>1 DEF socket_routine, GoTo, Capturing
<1>7. CASE Connect \/ ConnectFails
  <2>1. written' \in Seq(Nat)
    <3>1. written' = <<>> \/ written' = written
      BY <1>7 DEF Connect, ConnectFails
    <3>2. QED BY <1>0, <3>1, NoFrames
  <2>2. QED BY SMTT(30), <1>0, <1>1, <1>2, <1>7, <2>1 DEF Connect, ConnectFails, GoTo, Capturing
<1>8. CASE Usage \/ open_device \/ init_fails
  BY <1>0, <1>1, <1>2, <1>8 DEF Usage, open_device, init_fails, GoTo, Exit, Capturing
<1>9. CASE init_read \/ init_mmap \/ init_userp
  <2>1. mapped' \subseteq Buffers /\ n_buffers' \in {0} \cup 2 .. MaxBuffers
    <3>1. CASE init_read \/ init_userp
      BY <1>0, <3>1, FirstBuffer DEF init_read, init_userp
    <3>2. CASE init_mmap
      <4>1. PICK granted \in 1 .. MaxBuffers :
              IF granted < 2 THEN UNCHANGED <<n_buffers, mapped>>
              ELSE n_buffers' = granted /\ mapped' = 0 .. granted - 1
        BY <3>2 DEF init_mmap
      <4>2. 0 .. granted - 1 \subseteq Buffers
        BY GrantedBuffers
      <4>3. CASE granted < 2
        BY <1>0, <4>1, <4>3
      <4>4. CASE ~ (granted < 2)
        <5>1. n_buffers' = granted /\ mapped' = 0 .. granted - 1
          BY <4>1, <4>4
        <5>2. granted \in 2 .. MaxBuffers
          BY <4>4, CaptureAssumption
        <5> HIDE DEF TypeOK
        <5>3. QED BY <4>2, <5>1, <5>2
      <4>5. QED BY <4>3, <4>4
    <3>3. QED BY <1>9, <3>1, <3>2
  <2>2. pc' \in {"start", "exited"}
    BY <1>9 DEF init_read, init_mmap, init_userp, GoTo, Exit
  <2>3. UNCHANGED <<script, io, sink, times, fd, count, buf, written, lost, driver, content>>
    BY <1>9 DEF init_read, init_mmap, init_userp
  <2>4. QED BY <1>0, <1>1, <1>2, <2>1, <2>2, <2>3 DEF Capturing
<1>10. CASE start_capturing \/ Select \/ SelectTimeout \/ TryAgain \/ ReadFails
  BY <1>0, <1>1, <1>2, <1>10, CaptureAssumption
     DEF start_capturing, Select, SelectTimeout, TryAgain, ReadFails, GoTo, Exit, Capturing
<1>11. CASE read_frame_read
  <2>1. Head(driver.outgoing).frame \in Nat
    BY <1>11, QueueTypes DEF read_frame_read, Inv, DriverType, Filled
  <2>2. content' \in [Buffers -> Nat] /\ buf' \in [index : Buffers, frame : Nat]
    BY <1>0, <1>11, <2>1, FirstBuffer DEF read_frame_read
  <2>3. QED BY <1>0, <1>1, <1>2, <1>11, <2>2 DEF read_frame_read, GoTo, Capturing
<1>12. CASE read_frame_mmap
  <2>1. buf' \in [index : Buffers, frame : Nat]
    BY <1>12, FilledBuffer DEF read_frame_mmap
  <2>2. QED BY <1>0, <1>1, <1>2, <1>12, <2>1 DEF read_frame_mmap, GoTo, Capturing
<1>13. CASE Dealing
  <2>1. buf.frame \in Nat
    BY <1>13, DealingSteps
  <2>2. Append(written, buf.frame) \in Seq(Nat)
    BY <1>0, <2>1
  <2>3. count - 1 \in 0 .. Frames
    BY <1>0, <1>13, DealingSteps, CaptureAssumption DEF CountInv
  <2>4. written' \in Seq(Nat) /\ lost' \in Nat /\ count' \in 0 .. Frames
    <3>1. lost \in Nat /\ written \in Seq(Nat) /\ count \in 0 .. Frames
      BY <1>0
    <3>2. CASE GoneOrLost /\ (ReadNext \/ GiveBack)
      <4> HIDE DEF TypeOK
      <4>1. written' \in Seq(Nat) /\ lost' \in Nat
        <5>1. CASE written' = Append(written, buf.frame) /\ lost' = lost
          BY <2>2, <3>1, <5>1
        <5>2. CASE written' = written /\ lost' = lost + 1
          BY <3>1, <5>2
        <5>3. QED BY <3>2, <5>1, <5>2 DEF GoneOrLost
      <4>2. count' = count - 1 \/ count' = count
        BY <3>2 DEF ReadNext, GiveBack
      <4>3. QED BY <2>3, <3>1, <4>1, <4>2
    <3>3. CASE NotYet
      BY <3>1, <3>3 DEF NotYet
    <3>4. QED BY <1>13, <3>2, <3>3, DealingSteps
  <2>5. /\ buf' = None \/ buf' \in [index : Buffers, frame : Nat]
        /\ pc' \in Capturing \cup {"end", "exited"}
        /\ UNCHANGED <<script, io, sink, times, fd, n_buffers, mapped, driver, content>>
    BY <1>13, DealingSteps DEF GoneOrLost, ReadNext, GiveBack, NotYet, Capturing
  <2>6. QED BY <1>0, <1>1, <1>2, <2>4, <2>5
<1>14. CASE Requeue
  <2>1. count - 1 \in 0 .. Frames
    BY <1>0, <1>14, CaptureAssumption DEF Requeue, CountInv, Capturing
  <2>2. QED BY <1>0, <1>1, <1>2, <1>14, <2>1 DEF Requeue, NextFrame, GoTo, Exit, Capturing
<1>15. CASE end_capturing \/ uninit_device \/ close_device
  BY <1>0, <1>1, <1>2, <1>15
     DEF end_capturing, uninit_device, close_device, GoTo, Exit, Capturing
<1>16. CASE Capture
  <2>1. Head(driver.incoming) \in Buffers /\ driver.frames + 1 \in Nat
    BY <1>16, QueueTypes DEF Capture, Inv, DriverType
  <2>2. content' = [content EXCEPT ![Head(driver.incoming)] = driver.frames + 1]
    BY <1>16 DEF Capture
  <2>3. content' \in [Buffers -> Nat]
    BY <1>0, <2>1, <2>2
  <2>4. QED BY <1>0, <1>1, <1>2, <1>16, <2>3 DEF Capture, progVars
<1>17. CASE CaptureForRead \/ CameraStops
  BY <1>0, <1>1, <1>2, <1>17 DEF CaptureForRead, CameraStops, progVars
<1>18. QED
  BY <1>4, <1>5, <1>7, <1>9, <1>10, <1>11, <1>12, <1>13, <1>14, <1>15, <1>16, <1>17, <1>6, <1>8
     DEF Next, Step, Camera, Dealing

LEMMA PhaseStep ==
  ASSUME Inv, Next
  PROVE  PhaseInv'
<1> USE DEF PhaseInv, Holding, BuffersOfRoutine, Capturing
<1>0. PhaseInv /\ TypeOK
  BY DEF Inv
<1>1. CASE SetMethod \/ local_routine \/ socket_routine \/ Connect \/ ConnectFails \/ Usage
  BY <1>0, <1>1
     DEF SetMethod, local_routine, socket_routine, Connect, ConnectFails, Usage, GoTo, Exit
<1>2. CASE open_device \/ init_fails \/ init_read \/ init_userp
  BY <1>0, <1>2 DEF open_device, init_fails, init_read, init_userp, GoTo, Exit
<1>3. CASE init_mmap
  BY <1>0, <1>3, CaptureAssumption DEF init_mmap, GoTo, Exit
<1>4. CASE start_capturing \/ Select \/ SelectTimeout \/ TryAgain \/ ReadFails
  BY <1>0, <1>4
     DEF start_capturing, Select, SelectTimeout, TryAgain, ReadFails, GoTo, Exit
<1>5. CASE read_frame_read
  <2>1. buf' \in [index : Buffers, frame : Nat]
    <3>1. Head(driver.outgoing).frame \in Nat
      BY <1>5, QueueTypes DEF read_frame_read, Inv, DriverType, Filled
    <3>2. QED BY <1>5, <3>1, FirstBuffer DEF read_frame_read
  <2>2. buf' # None
    BY <2>1, NoneAssumption
  <2>3. QED BY <1>0, <1>5, <2>2 DEF read_frame_read, GoTo
<1>6. CASE read_frame_mmap
  <2>1. buf' # None
    BY <1>6, FilledBuffer, NoneAssumption DEF read_frame_mmap
  <2>2. QED BY <1>0, <1>6, <2>1 DEF read_frame_mmap, GoTo
<1>7. CASE Requeue
  BY <1>0, <1>7 DEF Requeue, NextFrame, GoTo, Exit
<1>8. CASE end_capturing \/ uninit_device \/ close_device
  BY <1>0, <1>8 DEF end_capturing, uninit_device, close_device, GoTo, Exit
<1>9. CASE Capture \/ CaptureForRead \/ CameraStops
  BY <1>0, <1>9 DEF Capture, CaptureForRead, CameraStops, progVars, Off
<1>10. CASE Dealing
  BY <1>0, <1>10, DealingSteps DEF ReadNext, GiveBack, NotYet
<1>11. QED
  BY <1>1, <1>2, <1>3, <1>4, <1>5, <1>6, <1>7, <1>8, <1>9, <1>10
     DEF Next, Step, Camera, Dealing

-----------------------------------------------------------------------------
(* Buffers *)

\* VIDIOC_DQBUF: the buffer that was filled first comes into the program's hands.
LEMMA TakePlaced ==
  ASSUME NEW n \in Nat, NEW in \in Seq(Buffers), NEW out \in Seq(Filled), out # <<>>,
         Placed(in, out, {}, n)
  PROVE  Placed(in, Tail(out), {out[1].index}, n)
<1> DEFINE t == Tail(out)
           b0 == out[1].index
<1>1. /\ Len(in) \in Nat /\ Len(out) \in Nat \ {0} /\ Len(t) = Len(out) - 1
      /\ \A i \in 1 .. Len(out) - 1 : t[i] = out[i + 1]
  BY TailOf
<1> HIDE DEF t
<1>2. \A i \in 1 .. Len(in) : in[i] \in 0 .. n - 1 /\ in[i] # b0
  BY <1>1 DEF Placed
<1>3. \A i \in 1 .. Len(t) : i + 1 \in 1 .. Len(out) /\ i + 1 # 1 /\ t[i] = out[i + 1]
  BY <1>1
<1>4. 1 \in 1 .. Len(out)
  BY <1>1
<1>5. \A i \in 1 .. Len(t) : t[i].index \in 0 .. n - 1 /\ t[i].index # b0
  BY <1>3, <1>4 DEF Placed
<1>6. b0 \in 0 .. n - 1
  BY <1>1 DEF Placed
<1>7. \A i, j \in 1 .. Len(t) : t[i].index = t[j].index => i = j
  <2> TAKE i, j \in 1 .. Len(t)
  <2>1. out[i + 1].index = out[j + 1].index => i + 1 = j + 1
    BY <1>3 DEF Placed
  <2>2. i \in Int /\ j \in Int
    BY <1>1
  <2>3. QED BY <1>3, <2>1, <2>2
<1>8. \A i \in 1 .. Len(in), j \in 1 .. Len(t) : in[i] # t[j].index
  BY SMTT(30), <1>3 DEF Placed
<1>9. ASSUME NEW b \in 0 .. n - 1, NEW i \in 1 .. Len(out), out[i].index = b, b # b0
      PROVE  \E j \in 1 .. Len(t) : t[j].index = b
  <2>1. i - 1 \in 1 .. Len(t) /\ t[i - 1] = out[i]
    BY <1>1, <1>9
  <2>2. QED BY <1>9, <2>1
<1>10. Len(in) + Len(t) + 1 = n
  BY <1>1 DEF Placed
<1>11. QED
  BY <1>2, <1>5, <1>6, <1>7, <1>8, <1>9, <1>10 DEF Placed, t

\* VIDIOC_QBUF: the buffer in the program's hands is queued.
LEMMA ReturnPlaced ==
  ASSUME NEW n \in Nat, NEW in \in Seq(Buffers), NEW out \in Seq(Filled), NEW b0 \in Buffers,
         Placed(in, out, {b0}, n)
  PROVE  Placed(Append(in, b0), out, {}, n)
<1> DEFINE t == Append(in, b0)
<1>1. /\ Len(in) \in Nat /\ Len(out) \in Nat /\ Len(t) = Len(in) + 1 /\ t[Len(in) + 1] = b0
      /\ \A i \in 1 .. Len(in) : t[i] = in[i]
  BY AppendTo
<1> HIDE DEF t
<1>2. \A i \in 1 .. Len(t) : \/ i \in 1 .. Len(in) /\ t[i] = in[i]
                             \/ i = Len(in) + 1 /\ t[i] = b0
  <2> TAKE i \in 1 .. Len(t)
  <2>1. i \in 1 .. Len(in) + 1
    BY <1>1
  <2>2. i \in 1 .. Len(in) \/ i = Len(in) + 1
    BY <1>1, <2>1
  <2>3. QED BY <1>1, <2>2
<1>3. \A i \in 1 .. Len(t) : t[i] \in 0 .. n - 1
  BY <1>2 DEF Placed
<1>4. \A i, j \in 1 .. Len(t) : t[i] = t[j] => i = j
  BY <1>2 DEF Placed
<1>5. \A i \in 1 .. Len(t), j \in 1 .. Len(out) : t[i] # out[j].index
  BY <1>2 DEF Placed
<1>6. ASSUME NEW b \in 0 .. n - 1, (\E i \in 1 .. Len(in) : in[i] = b) \/ b = b0
      PROVE  \E i \in 1 .. Len(t) : t[i] = b
  BY <1>1, <1>6
<1>7. Len(t) + Len(out) = n
  BY <1>1 DEF Placed
<1>8. \A i \in 1 .. Len(out) : out[i].index \in 0 .. n - 1
  BY DEF Placed
<1>9. \A i, j \in 1 .. Len(out) : out[i].index = out[j].index => i = j
  BY DEF Placed
<1>10. \A b \in 0 .. n - 1 : \/ \E i \in 1 .. Len(t) : t[i] = b
                            \/ \E i \in 1 .. Len(out) : out[i].index = b
  BY <1>6 DEF Placed
<1>11. Placed(t, out, {}, n)
  BY <1>3, <1>4, <1>5, <1>7, <1>8, <1>9, <1>10 DEF Placed
<1>12. QED BY <1>11 DEF t

\* The camera: the buffer that was queued first is filled.
LEMMA FillPlaced ==
  ASSUME NEW n \in Nat, NEW in \in Seq(Buffers), NEW out \in Seq(Filled), NEW e \in Filled,
         NEW held, in # <<>>, e.index = in[1], Placed(in, out, held, n)
  PROVE  Placed(Tail(in), Append(out, e), held, n)
<1> DEFINE s == Tail(in)
           t == Append(out, e)
<1>1. /\ Len(in) \in Nat \ {0} /\ Len(s) = Len(in) - 1
      /\ \A i \in 1 .. Len(in) - 1 : s[i] = in[i + 1]
  BY TailOf
<1>2. /\ Len(out) \in Nat /\ Len(t) = Len(out) + 1 /\ t[Len(out) + 1] = e
      /\ \A i \in 1 .. Len(out) : t[i] = out[i]
  BY AppendTo
<1> HIDE DEF s, t
<1>3. \A i \in 1 .. Len(t) : \/ i \in 1 .. Len(out) /\ t[i] = out[i]
                             \/ i = Len(out) + 1 /\ t[i] = e
  BY <1>2
<1>4. \A i \in 1 .. Len(s) : i + 1 \in 1 .. Len(in) /\ i + 1 # 1 /\ s[i] = in[i + 1]
  BY <1>1
<1>5. \A i \in 1 .. Len(s) : s[i] \in 0 .. n - 1 /\ s[i] \notin held
  BY <1>4 DEF Placed
<1>6. 1 \in 1 .. Len(in)
  BY <1>1
<1>7. \A i \in 1 .. Len(t) : t[i].index \in 0 .. n - 1 /\ t[i].index \notin held
  BY <1>3, <1>6 DEF Placed
<1>8. \A i, j \in 1 .. Len(s) : s[i] = s[j] => i = j
  <2> TAKE i, j \in 1 .. Len(s)
  <2>1. s[i] = s[j] => i + 1 = j + 1
    BY <1>4 DEF Placed
  <2>2. i \in Int /\ j \in Int
    BY <1>1
  <2>3. QED BY <2>1, <2>2
<1>9. \A i, j \in 1 .. Len(t) : t[i].index = t[j].index => i = j
  <2>1. \A i \in 1 .. Len(out) : out[i].index # e.index
    BY <1>6 DEF Placed
  <2>2. QED BY <1>3, <2>1 DEF Placed
<1>10. \A i \in 1 .. Len(s), j \in 1 .. Len(t) : s[i] # t[j].index
  <2> TAKE i \in 1 .. Len(s), j \in 1 .. Len(t)
  <2>1. s[i] # in[1]
    BY <1>4, <1>6 DEF Placed
  <2>2. \A k \in 1 .. Len(out) : s[i] # out[k].index
    BY <1>4 DEF Placed
  <2>3. QED BY <1>3, <2>1, <2>2
<1>11. ASSUME NEW b \in 0 .. n - 1, NEW i \in 1 .. Len(in), in[i] = b
       PROVE  \/ \E j \in 1 .. Len(s) : s[j] = b
              \/ \E j \in 1 .. Len(t) : t[j].index = b
  <2>1. CASE i = 1
    BY <1>2, <1>11, <2>1
  <2>2. CASE i # 1
    <3>1. i - 1 \in 1 .. Len(s) /\ s[i - 1] = b
      BY <1>1, <1>11, <2>2
    <3>2. QED BY <3>1
  <2>3. QED BY <2>1, <2>2
<1>12. ASSUME NEW b \in 0 .. n - 1, NEW i \in 1 .. Len(out), out[i].index = b
       PROVE  \E j \in 1 .. Len(t) : t[j].index = b
  BY <1>2, <1>12
<1>13. Len(s) + Len(t) = Len(in) + Len(out)
  BY <1>1, <1>2
<1>14. held \subseteq 0 .. n - 1 /\ Len(s) + Len(t) + (IF held = {} THEN 0 ELSE 1) = n
  BY <1>13 DEF Placed
<1>15. QED
  BY <1>5, <1>7, <1>8, <1>9, <1>10, <1>11, <1>12, <1>14 DEF Placed, s, t

\* The first n buffers, all queued by start_capturing.
LEMMA AllQueued ==
  ASSUME NEW n \in Nat
  PROVE  Placed([i \in 1 .. n |-> i - 1], <<>>, {}, n)
<1> DEFINE in == [i \in 1 .. n |-> i - 1]
<1>1. Len(in) = n /\ \A i \in 1 .. n : in[i] = i - 1
  OBVIOUS
<1> HIDE DEF in
<1>2. \A b \in 0 .. n - 1 : \E i \in 1 .. n : in[i] = b
  <2> TAKE b \in 0 .. n - 1
  <2>1. b + 1 \in 1 .. n /\ in[b + 1] = b
    BY <1>1
  <2>2. QED BY <2>1
<1>3. Placed(in, <<>>, {}, n)
  BY <1>1, <1>2 DEF Placed
<1>4. QED BY <1>3 DEF in

\* The camera writes into a buffer that is queued, and into no other.
LEMMA CaptureBuffers ==
  ASSUME Inv, Capture
  PROVE  BufferInv'
<1> SUFFICES ASSUME pc \in Capturing PROVE (io = "mmap" => Places') /\ ContentInv'
  BY DEF BufferInv, Capture, progVars
<1> DEFINE in == driver.incoming
           out == driver.outgoing
           e == [index |-> Head(in), frame |-> driver.frames + 1]
<1>0. /\ in \in Seq(Buffers) /\ out \in Seq(Filled) /\ in # <<>>
      /\ driver.frames + 1 \in Nat /\ n_buffers \in Nat
  BY SMTT(30), QueueTypes DEF Inv, DriverType, Capture, TypeOK
<1>1. /\ in \in Seq(Buffers) /\ out \in Seq(Filled) /\ e \in Filled /\ in # <<>>
      /\ n_buffers \in Nat /\ e.index = in[1] /\ in[1] \in Buffers /\ 1 \in 1 .. Len(in)
  <2>1. Head(in) = in[1] /\ in[1] \in Buffers /\ Len(in) \in Nat \ {0}
    BY <1>0, TailOf
  <2>2. QED BY <1>0, <2>1 DEF Filled
<1>2. /\ driver'.incoming = Tail(in) /\ driver'.outgoing = Append(out, e)
      /\ content' = [content EXCEPT ![in[1]] = e.frame]
  BY <1>1 DEF Capture, Inv, DriverType, DriverStates
<1>3. io = "mmap" /\ io' = io /\ Places /\ ContentInv /\ Held' = Held /\ n_buffers' = n_buffers
  BY <1>1 DEF Inv, BufferInv, ContentInv, PhaseInv, Capture, progVars, Held, Holding
<1>4. /\ Len(out) \in Nat /\ Len(Append(out, e)) = Len(out) + 1
      /\ Append(out, e)[Len(out) + 1] = e
      /\ \A i \in 1 .. Len(out) : Append(out, e)[i] = out[i] /\ out[i] \in Filled
  BY <1>1, AppendTo
<1> HIDE DEF in, out, e
<1>5. Placed(in, out, Held, n_buffers)
  BY <1>3 DEF Places, in, out
<1>6. Places'
  <2>1. Placed(Tail(in), Append(out, e), Held, n_buffers)
    BY <1>1, <1>5, FillPlaced
  <2>2. QED BY <1>2, <1>3, <2>1 DEF Places
<1>7. content \in [Buffers -> Nat]
  BY DEF Inv, TypeOK
<1>8. \A i \in 1 .. Len(out) : out[i].index \in Buffers /\ out[i].index # in[1]
  <2>1. \A i \in 1 .. Len(out) : out[i].index \in 0 .. n_buffers - 1 /\ out[i].index # in[1]
    BY <1>1, <1>5 DEF Placed
  <2>2. 0 .. n_buffers - 1 \subseteq Buffers
    BY <1>3, GrantedBuffers DEF Inv, PhaseInv, Capturing
  <2>3. QED BY <2>1, <2>2
<1>9. \A i \in 1 .. Len(Append(out, e)) :
        content'[Append(out, e)[i].index] = Append(out, e)[i].frame
  <2> TAKE i \in 1 .. Len(Append(out, e))
  <2>1. CASE i = Len(out) + 1
    BY <1>1, <1>2, <1>4, <1>7, <2>1
  <2>2. CASE i # Len(out) + 1
    <3>1. i \in 1 .. Len(out)
      BY <1>4, <2>2
    <3>2. content[out[i].index] = out[i].frame
      BY <1>3, <3>1 DEF ContentInv, out
    <3>3. QED BY <1>1, <1>2, <1>4, <1>7, <1>8, <3>1, <3>2
  <2>3. QED BY <2>1, <2>2
<1>10. ASSUME Holding PROVE content'[buf.index] = buf.frame /\ buf' = buf
  <2>1. buf.index \in Buffers /\ content[buf.index] = buf.frame
    BY <1>3, <1>10 DEF Inv, TypeOK, PhaseInv, ContentInv
  <2>2. buf.index # in[1]
    BY <1>1, <1>5, <1>10 DEF Placed, Held
  <2>3. QED BY <1>1, <1>2, <1>7, <2>1, <2>2 DEF Capture, progVars
<1>11. ContentInv'
  <2>1. Holding' <=> Holding
    BY DEF Capture, progVars, Holding
  <2>2. QED BY <1>2, <1>3, <1>9, <1>10, <2>1 DEF ContentInv
<1>12. QED BY <1>6, <1>11

LEMMA BufferStep ==
  ASSUME Inv, Next
  PROVE  BufferInv'
<1>0. BufferInv /\ PhaseInv /\ n_buffers \in Nat
  BY DEF Inv, TypeOK
<1>1. CASE pc' \notin Capturing
  BY <1>1 DEF BufferInv
<1>2. CASE UNCHANGED <<pc, io, n_buffers, buf, content, driver.incoming, driver.outgoing>>
  BY <1>0, <1>2 DEF BufferInv, Places, Held, Holding, ContentInv
<1>3. CASE start_capturing /\ pc' = "select"
  <2>1. ~ Holding' /\ Off.outgoing = <<>> /\ Off.incoming = <<>> /\ UNCHANGED <<n_buffers, io>>
    BY <1>3 DEF Holding, start_capturing, Off
  <2>2. CASE io = "read"
    <3>1. driver' = Off
      BY <1>0, <1>3, <2>2 DEF PhaseInv, start_capturing, GoTo, Exit
    <3>2. QED BY <2>1, <2>2, <3>1 DEF BufferInv, ContentInv
  <2>3. CASE io = "mmap"
    <3>1. driver'.incoming = [i \in 1 .. n_buffers |-> i - 1] /\ driver'.outgoing = <<>>
      BY <1>3, <2>3 DEF start_capturing, GoTo, Exit, Off
    <3>2. Places'
      BY <1>0, <2>1, <3>1, AllQueued DEF Places, Held
    <3>3. QED BY <2>1, <2>3, <3>1, <3>2 DEF BufferInv, ContentInv
  <2>4. QED BY <1>0, <1>3, <2>2, <2>3 DEF PhaseInv, start_capturing
<1>4. CASE (Select \/ TryAgain) /\ pc' \in Capturing
  <2>1. ~ Holding /\ ~ Holding' /\ pc \in Capturing /\ UNCHANGED <<io, n_buffers, content>>
    BY <1>4 DEF Select, TryAgain, Holding, GoTo, Capturing
  <2>2. driver'.incoming = driver.incoming /\ driver'.outgoing = driver.outgoing
    BY <1>4 DEF Select, TryAgain, Inv, DriverType, DriverStates
  <2>3. QED BY <1>0, <2>1, <2>2 DEF BufferInv, Places, Held, ContentInv
<1>5. CASE read_frame_read
  <2>1. io' = "read" /\ driver.incoming = <<>>
    BY <1>0, <1>5 DEF read_frame_read, BufferInv, ContentInv, Capturing
  <2>2. driver'.incoming = driver.incoming
    BY <1>5 DEF read_frame_read, Inv, DriverType, DriverStates
  <2>3. content'[buf'.index] = buf'.frame
    BY <1>5, FirstBuffer DEF read_frame_read, Inv, TypeOK
  <2>4. QED BY <2>1, <2>2, <2>3 DEF BufferInv, ContentInv
<1>6. CASE read_frame_mmap
  <2> DEFINE in == driver.incoming
             out == driver.outgoing
  <2>1. /\ in \in Seq(Buffers) /\ out \in Seq(Filled) /\ out # <<>>
        /\ io' = "mmap" /\ n_buffers' = n_buffers /\ content' = content
    BY <1>6, QueueTypes DEF read_frame_mmap, Inv, DriverType
  <2>2. driver'.incoming = in /\ driver'.outgoing = Tail(out) /\ buf' = out[1]
    BY <1>6, <2>1, TailOf DEF read_frame_mmap, Inv, DriverType, DriverStates
  <2>3. Placed(in, out, {}, n_buffers) /\ ContentInv /\ io = "mmap" /\ Holding'
    BY <1>0, <1>6 DEF read_frame_mmap, BufferInv, Places, Held, Holding, Capturing, GoTo
  <2>4. /\ 1 \in 1 .. Len(out)
        /\ \A i \in 1 .. Len(Tail(out)) : i + 1 \in 1 .. Len(out) /\ Tail(out)[i] = out[i + 1]
    BY <2>1, TailOf
  <2>5. \A i \in 1 .. Len(out) : content[out[i].index] = out[i].frame
    BY <2>3 DEF ContentInv
  <2> HIDE DEF in, out
  <2>6. Placed(in, Tail(out), {out[1].index}, n_buffers)
    BY <1>0, <2>1, <2>3, TakePlaced
  <2>7. Places'
    BY <2>1, <2>2, <2>3, <2>6 DEF Places, Held
  <2>8. ContentInv'
    BY <2>1, <2>2, <2>4, <2>5 DEF ContentInv
  <2>9. QED BY <2>7, <2>8 DEF BufferInv
<1>7. CASE Dealing /\ pc' \in Capturing
  <2>1. /\ UNCHANGED <<io, n_buffers, content, driver>> /\ pc \in Capturing /\ Holding
        /\ \/ io = "read" /\ ~ Holding'
           \/ Holding' /\ buf' = buf
    BY <1>7, DealingSteps DEF ReadNext, GiveBack, NotYet, Holding, Capturing
  <2>2. QED BY <1>0, <2>1 DEF BufferInv, Places, Held, ContentInv
<1>8. CASE Requeue /\ pc' \in Capturing
  <2> DEFINE in == driver.incoming
             out == driver.outgoing
  <2>1. /\ in \in Seq(Buffers) /\ out \in Seq(Filled) /\ buf.index \in Buffers
        /\ UNCHANGED <<io, n_buffers, content>> /\ io = "mmap" /\ ~ Holding'
    BY <1>0, <1>8, QueueTypes
       DEF Requeue, Inv, DriverType, TypeOK, PhaseInv, Holding, NextFrame, GoTo, Exit, Capturing
  <2>2. driver'.incoming = Append(in, buf.index) /\ driver'.outgoing = out
    BY <1>8 DEF Requeue, Inv, DriverType, DriverStates, Exit, Capturing
  <2>3. Placed(in, out, {buf.index}, n_buffers) /\ ContentInv
    BY <1>0, <1>8, <2>1 DEF Requeue, BufferInv, Places, Held, Holding, Capturing
  <2>4. \A i \in 1 .. Len(out) : content[out[i].index] = out[i].frame
    BY <2>1, <2>3 DEF ContentInv
  <2> HIDE DEF in, out
  <2>5. Placed(Append(in, buf.index), out, {}, n_buffers)
    BY <1>0, <2>1, <2>3, ReturnPlaced
  <2>6. Places' /\ ContentInv'
    BY <2>1, <2>2, <2>4, <2>5 DEF Places, Held, ContentInv
  <2>7. QED BY <2>6 DEF BufferInv
<1>9. CASE Capture
  BY <1>9, CaptureBuffers
<1>10. CASE CaptureForRead
  <2>1. io' = "read" /\ driver'.incoming = driver.incoming /\ UNCHANGED <<pc, buf, content>>
    BY <1>10 DEF CaptureForRead, progVars, Inv, DriverType, DriverStates
  <2>2. io = "read"
    BY <1>10 DEF CaptureForRead
  <2>3. QED BY <1>0, <2>1, <2>2 DEF BufferInv, ContentInv, Holding
<1>11. CASE CameraStops
  <2>1. UNCHANGED <<driver.incoming, driver.outgoing>>
    BY <1>11 DEF CameraStops, Inv, DriverType, DriverStates
  <2>2. QED BY <1>2, <1>11, <2>1 DEF CameraStops, progVars
<1>12. QED
  BY <1>1, <1>3, <1>4, <1>5, <1>6, <1>7, <1>8, <1>9, <1>10, <1>11
     DEF Next, Step, Camera, Dealing, SetMethod, local_routine, socket_routine, Connect,
         ConnectFails, Usage, open_device, init_fails, init_read, init_mmap, init_userp,
         start_capturing,
         SelectTimeout, ReadFails, end_capturing, uninit_device, close_device, GoTo, Exit,
         Capturing

-----------------------------------------------------------------------------
(* Frames *)

LEMMA CountStep ==
  ASSUME Inv, Next
  PROVE  CountInv'
<1> USE DEF CountInv, Capturing
<1>0. /\ CountInv /\ PhaseInv /\ written \in Seq(Nat) /\ lost \in Nat
      /\ count \in Nat /\ Frames \in Nat \ {0}
  BY CaptureAssumption DEF Inv, TypeOK
<1>1. Len(written) \in Nat
  BY <1>0
<1>2. CASE Dealing
  <2>1. /\ Len(written) + lost + count = Frames /\ count > 0 /\ lost \in Nat
        /\ pc \in {"deal", "stalled"} /\ buf.frame \in Nat
    BY <1>0, <1>2, DealingSteps
  <2>2. Len(Append(written, buf.frame)) = Len(written) + 1
    BY <1>0, <2>1, AppendTo
  <2>3. CASE NotYet
    BY <2>1, <2>3 DEF NotYet
  <2>4. CASE GoneOrLost /\ (ReadNext \/ GiveBack)
    <3>1. Len(written') + lost' = Len(written) + lost + 1
      BY <1>1, <2>1, <2>2, <2>4 DEF GoneOrLost
    <3>2. \/ pc' \in {"select", "end"} /\ count' = count - 1 /\ (count' = 0 <=> pc' = "end")
          \/ pc' = "requeue" /\ count' = count
      BY <2>4 DEF ReadNext, GiveBack
    <3>3. QED BY <1>0, <1>1, <2>1, <3>1, <3>2
  <2>5. QED BY <1>2, <2>3, <2>4, DealingSteps
<1>3. CASE Requeue
  BY <1>0, <1>1, <1>3 DEF Requeue, NextFrame, GoTo, Exit
<1>4. CASE start_capturing
  BY <1>0, <1>4, NoFrames DEF start_capturing, GoTo, Exit
<1>5. CASE SetMethod \/ local_routine \/ socket_routine \/ Connect \/ ConnectFails \/ Usage
  BY <1>0, <1>5
     DEF SetMethod, local_routine, socket_routine, Connect, ConnectFails, Usage, GoTo, Exit
<1>6. CASE open_device \/ init_fails \/ init_read \/ init_mmap \/ init_userp
  BY <1>0, <1>6 DEF open_device, init_fails, init_read, init_mmap, init_userp, GoTo, Exit
<1>7. CASE Select \/ SelectTimeout \/ TryAgain \/ ReadFails \/ read_frame_read \/ read_frame_mmap
  BY <1>0, <1>7
     DEF Select, SelectTimeout, TryAgain, ReadFails, read_frame_read, read_frame_mmap, GoTo, Exit
<1>8. CASE end_capturing \/ uninit_device \/ close_device
  BY <1>0, <1>8 DEF end_capturing, uninit_device, close_device, GoTo, Exit
<1>9. CASE Capture \/ CaptureForRead \/ CameraStops
  BY <1>0, <1>9 DEF Capture, CaptureForRead, CameraStops, progVars
<1>10. QED
  BY <1>2, <1>3, <1>4, <1>5, <1>6, <1>7, <1>8, <1>9 DEF Next, Step, Camera, Dealing

\* A frame that is later than all that are written keeps them in order.
LEMMA AscendingAppend ==
  ASSUME NEW s \in Seq(Nat), NEW x \in Nat, Ascending(s), \A i \in 1 .. Len(s) : s[i] < x
  PROVE  /\ Ascending(Append(s, x))
         /\ \A i \in 1 .. Len(Append(s, x)) : Append(s, x)[i] <= x
<1> DEFINE t == Append(s, x)
<1>1. /\ Len(s) \in Nat /\ Len(t) = Len(s) + 1 /\ t[Len(s) + 1] = x
      /\ \A i \in 1 .. Len(s) : t[i] = s[i] /\ s[i] \in Nat
  BY AppendTo
<1> HIDE DEF t
<1>2. \A i \in 1 .. Len(t) : \/ i \in 1 .. Len(s) /\ t[i] = s[i] /\ s[i] \in Nat
                             \/ i = Len(s) + 1 /\ t[i] = x
  BY <1>1
<1>3. \A i \in 1 .. Len(t) : t[i] <= x
  BY <1>2
<1>4. \A i, j \in 1 .. Len(t) : i < j => t[i] < t[j]
  <2> TAKE i, j \in 1 .. Len(t)
  <2> HAVE i < j
  <2>1. i \in 1 .. Len(s)
    BY <1>1
  <2>2. QED BY <1>1, <1>2, <2>1 DEF Ascending
<1>5. QED BY <1>3, <1>4 DEF Ascending, t

\* The camera: the newest frame is queued last.
LEMMA OrderedAppend ==
  ASSUME NEW out \in Seq(Filled), NEW frames \in Nat, NEW done \in Seq(Nat), NEW e \in Filled,
         e.frame = frames + 1, Ordered(out, frames, done)
  PROVE  Ordered(Append(out, e), frames + 1, done)
<1> DEFINE t == Append(out, e)
<1>1. /\ Len(out) \in Nat /\ Len(t) = Len(out) + 1 /\ t[Len(out) + 1] = e
      /\ \A i \in 1 .. Len(out) : t[i] = out[i] /\ out[i] \in Filled
  BY AppendTo
<1> HIDE DEF t
<1>2. \A i \in 1 .. Len(t) : \/ i \in 1 .. Len(out) /\ t[i] = out[i] /\ out[i].frame \in Nat
                             \/ i = Len(out) + 1 /\ t[i].frame = frames + 1
  BY <1>1 DEF Filled
<1>3. \A i \in 1 .. Len(done) : done[i] \in Nat
  OBVIOUS
<1>4. \A i, j \in 1 .. Len(t) : i < j => t[i].frame < t[j].frame
  <2> TAKE i, j \in 1 .. Len(t)
  <2> HAVE i < j
  <2>1. i \in 1 .. Len(out)
    BY <1>1
  <2>2. t[i] = out[i] /\ out[i].frame \in Nat /\ out[i].frame <= frames
    BY <1>2, <2>1 DEF Ordered
  <2>3. CASE j \in 1 .. Len(out)
    BY <1>1, <2>1, <2>3 DEF Ordered
  <2>4. CASE t[j].frame = frames + 1
    BY <2>2, <2>4
  <2>5. QED BY <1>2, <2>3, <2>4
<1>5. \A i \in 1 .. Len(t) : t[i].frame <= frames + 1
  BY <1>2 DEF Ordered
<1>6. \A i \in 1 .. Len(done) : done[i] <= frames + 1
  BY <1>3 DEF Ordered
<1>7. \A i \in 1 .. Len(done), j \in 1 .. Len(t) : done[i] < t[j].frame
  <2> TAKE i \in 1 .. Len(done), j \in 1 .. Len(t)
  <2>1. CASE j \in 1 .. Len(out) /\ t[j] = out[j]
    BY <2>1 DEF Ordered
  <2>2. CASE t[j].frame = frames + 1
    <3>1. done[i] \in Nat /\ done[i] <= frames
      BY <1>3 DEF Ordered
    <3>2. QED BY <2>2, <3>1
  <2>3. QED BY <1>2, <2>1, <2>2
<1>8. QED BY <1>4, <1>5, <1>6, <1>7 DEF Ordered, t

LEMMA OrderStep ==
  ASSUME Inv, Next
  PROVE  OrderInv'
<1> DEFINE out == driver.outgoing
<1>0. /\ OrderInv /\ PhaseInv /\ CountInv /\ written \in Seq(Nat)
      /\ out \in Seq(Filled) /\ driver.frames \in Nat
  BY QueueTypes DEF Inv, TypeOK, DriverType
<1>1. CASE pc' \notin Capturing \cup {"end"}
  BY <1>1 DEF OrderInv, Holding, Capturing
<1>2. ASSUME pc' = pc \/ (~ Holding /\ ~ Holding' /\ pc \in Capturing /\ pc' \in Capturing),
             UNCHANGED <<buf, written, driver.outgoing, driver.frames>>
      PROVE  OrderInv'
  BY <1>0, <1>2 DEF OrderInv, Holding, Capturing, Ordered
<1>3. CASE start_capturing /\ pc' \in Capturing \cup {"end"}
  <2>1. written' = <<>> /\ pc' = "select"
    BY <1>0, <1>3 DEF start_capturing, CountInv, GoTo, Exit, Capturing
  <2>2. driver'.outgoing = <<>>
    <3>1. driver = Off
      BY <1>0, <1>3 DEF start_capturing, PhaseInv
    <3>2. \/ driver' = Off
          \/ driver' = [Off EXCEPT !.incoming = [i \in 1 .. n_buffers |-> i - 1], !.on = TRUE]
      BY <1>3, <3>1 DEF start_capturing
    <3>3. Off.outgoing = <<>> /\ \A q : [Off EXCEPT !.incoming = q, !.on = TRUE].outgoing = <<>>
      BY DEF Off
    <3>4. QED BY <3>2, <3>3
  <2>3. QED BY <2>1, <2>2 DEF OrderInv, Ordered, Ascending, Holding, Capturing
<1>4. CASE Select \/ TryAgain \/ CameraStops
  <2>1. UNCHANGED <<buf, written>>
    BY <1>4 DEF Select, TryAgain, CameraStops, progVars
  <2>2. UNCHANGED <<driver.outgoing, driver.frames>>
    BY <1>4 DEF Select, TryAgain, CameraStops, Inv, DriverType, DriverStates
  <2>3. pc' = pc \/ (~ Holding /\ ~ Holding' /\ pc \in Capturing /\ pc' \in Capturing)
    BY <1>4 DEF Select, TryAgain, CameraStops, progVars, GoTo, Holding, Capturing
  <2>4. QED BY <1>2, <2>1, <2>2, <2>3
<1>5. CASE read_frame_read \/ read_frame_mmap
  <2>1. /\ out # <<>> /\ pc = "read" /\ pc' = "deal" /\ written' = written
        /\ buf'.frame = Head(out).frame
    BY <1>5 DEF read_frame_read, read_frame_mmap, GoTo
  <2>2. driver'.outgoing = Tail(out) /\ driver'.frames = driver.frames
    BY <1>5 DEF read_frame_read, read_frame_mmap, Inv, DriverType, DriverStates
  <2>3. /\ Head(out) = out[1] /\ 1 \in 1 .. Len(out) /\ Len(out) \in Nat
        /\ \A i \in 1 .. Len(Tail(out)) : i + 1 \in 1 .. Len(out) /\ Tail(out)[i] = out[i + 1]
        /\ Len(Tail(out)) \in Nat
    BY <1>0, <2>1, TailOf
  <2>4. Ordered(out, driver.frames, written) /\ Ascending(written)
    BY <1>0, <2>1 DEF OrderInv, Capturing
  <2> HIDE DEF out
  <2>5. Ordered(Tail(out), driver.frames, written)
    <3>1. \A i, j \in 1 .. Len(Tail(out)) : i < j => Tail(out)[i].frame < Tail(out)[j].frame
      <4> TAKE i, j \in 1 .. Len(Tail(out))
      <4>1. i < j => i + 1 < j + 1
        BY <2>3
      <4>2. QED BY <2>3, <2>4, <4>1 DEF Ordered
    <3>2. QED BY <2>3, <2>4, <3>1 DEF Ordered
  <2>6. /\ out[1].frame <= driver.frames
        /\ \A i \in 1 .. Len(written) : written[i] < out[1].frame
    BY <2>3, <2>4 DEF Ordered
  <2>7. \A j \in 1 .. Len(Tail(out)) : out[1].frame < Tail(out)[j].frame
    <3> TAKE j \in 1 .. Len(Tail(out))
    <3>1. 1 < j + 1 /\ j + 1 \in 1 .. Len(out) /\ Tail(out)[j] = out[j + 1]
      BY <2>3
    <3>2. QED BY <2>3, <2>4, <3>1 DEF Ordered
  <2>8. QED BY <2>1, <2>2, <2>3, <2>4, <2>5, <2>6, <2>7 DEF OrderInv, Holding
<1>6. CASE Dealing /\ pc' \in Capturing \cup {"end"}
  <2>1. /\ Holding /\ pc \in {"deal", "stalled"} /\ UNCHANGED driver
        /\ written' = Append(written, buf.frame) \/ written' = written
    BY <1>6, DealingSteps DEF GoneOrLost, NotYet
  <2>2. buf.frame \in Nat
    BY <1>6, DealingSteps
  <2>3. /\ \A i \in 1 .. Len(written) : written[i] < buf.frame
        /\ Ascending(written) /\ Ordered(out, driver.frames, written)
        /\ buf.frame <= driver.frames
        /\ \A j \in 1 .. Len(out) : buf.frame < out[j].frame
    BY <1>0, <2>1 DEF OrderInv, Capturing
  <2>4. Ascending(written') /\ \A i \in 1 .. Len(written') : written'[i] <= buf.frame
    <3>1. CASE written' = Append(written, buf.frame)
      BY <1>0, <2>2, <2>3, <3>1, AscendingAppend
    <3>2. CASE written' = written
      <4>1. \A i \in 1 .. Len(written) : written[i] \in Nat
        BY <1>0
      <4>2. QED BY <2>2, <2>3, <3>2, <4>1 DEF Ascending
    <3>3. QED BY <2>1, <3>1, <3>2
  <2>5. \A i \in 1 .. Len(written') : written'[i] \in Nat
    BY <1>0, <2>1, <2>2, AppendTo
  <2>6. \A j \in 1 .. Len(out) : out[j].frame \in Nat
    <3>1. \A j \in 1 .. Len(out) : out[j] \in Filled
      BY <1>0
    <3>2. QED BY <3>1 DEF Filled
  <2> HIDE DEF out
  <2>7. Ordered(out, driver.frames, written')
    BY <1>0, <2>2, <2>3, <2>4, <2>5, <2>6 DEF Ordered
  <2>8. \/ pc' = "requeue" /\ buf' = buf
        \/ pc' \in {"select", "end"}
        \/ pc' = "stalled" /\ UNCHANGED <<buf, written>>
    BY <1>6, DealingSteps DEF GoneOrLost, ReadNext, GiveBack, NotYet, Capturing
  <2>9. QED
    BY <2>1, <2>2, <2>3, <2>4, <2>7, <2>8 DEF OrderInv, Holding, Capturing, out
<1>7. CASE Requeue /\ pc' \in Capturing \cup {"end"}
  <2>1. pc = "requeue" /\ ~ Holding' /\ pc' # "deal" /\ written' = written
    BY <1>7 DEF Requeue, NextFrame, GoTo, Exit, Holding, Capturing
  <2>2. driver'.outgoing = out /\ driver'.frames = driver.frames
    BY <1>7 DEF Requeue, Inv, DriverType, DriverStates, Exit, Capturing
  <2>3. Ordered(out, driver.frames, written) /\ Ascending(written)
    BY <1>0, <2>1 DEF OrderInv, Capturing
  <2> HIDE DEF out
  <2>4. QED BY <2>1, <2>2, <2>3 DEF OrderInv, Holding
<1>8. CASE Camera
  <2>1. UNCHANGED <<pc, buf, written>>
    BY <1>8 DEF Camera, Capture, CaptureForRead, progVars
  <2>2. PICK e \in Filled : /\ e.frame = driver.frames + 1 /\ driver'.frames = driver.frames + 1
                            /\ driver'.outgoing = Append(out, e)
    <3>1. CASE Capture
      <4> DEFINE e == [index |-> Head(driver.incoming), frame |-> driver.frames + 1]
      <4>1. e \in Filled
        BY <1>0, <3>1, QueueTypes DEF Capture, Inv, DriverType, Filled
      <4>2. e.frame = driver.frames + 1
        OBVIOUS
      <4>3. driver'.frames = driver.frames + 1 /\ driver'.outgoing = Append(out, e)
        BY <3>1 DEF Capture, Inv, DriverType, DriverStates
      <4>4. QED BY <4>1, <4>2, <4>3
    <3>2. CASE CaptureForRead
      <4> DEFINE e == [index |-> None, frame |-> driver.frames + 1]
      <4>1. e \in Filled /\ e.frame = driver.frames + 1
        BY <1>0 DEF Filled
      <4>2. driver'.frames = driver.frames + 1 /\ driver'.outgoing = <<e>> /\ out = <<>>
        BY <3>2 DEF CaptureForRead, Inv, DriverType, DriverStates
      <4> HIDE DEF e
      <4>3. <<e>> = Append(<<>>, e)
        OBVIOUS
      <4>4. QED BY <4>1, <4>2, <4>3
    <3>3. QED BY <1>8, <3>1, <3>2 DEF Camera
  <2> HIDE DEF out
  <2>3. ASSUME pc \in Capturing PROVE Ordered(Append(out, e), driver.frames + 1, written)
    <3>1. Ordered(out, driver.frames, written)
      BY <1>0, <2>3 DEF OrderInv, out
    <3>2. QED BY <1>0, <2>2, <3>1, OrderedAppend
  <2>4. ASSUME Holding
        PROVE  /\ buf.frame <= driver.frames + 1
               /\ \A j \in 1 .. Len(Append(out, e)) : buf.frame < Append(out, e)[j].frame
    <3>1. /\ buf.frame \in Nat /\ buf.frame <= driver.frames
          /\ \A j \in 1 .. Len(out) : buf.frame < out[j].frame
      BY <1>0, <2>4 DEF OrderInv, PhaseInv, Inv, TypeOK, out
    <3>2. /\ Len(out) \in Nat /\ Len(Append(out, e)) = Len(out) + 1
          /\ Append(out, e)[Len(out) + 1] = e
          /\ \A j \in 1 .. Len(out) : Append(out, e)[j] = out[j]
      BY <1>0, AppendTo
    <3>3. \A j \in 1 .. Len(Append(out, e)) : j \in 1 .. Len(out) \/ j = Len(out) + 1
      BY <3>2
    <3>4. buf.frame < driver.frames + 1
      BY <1>0, <3>1
    <3>5. \A j \in 1 .. Len(Append(out, e)) : buf.frame < Append(out, e)[j].frame
      <4> TAKE j \in 1 .. Len(Append(out, e))
      <4>1. CASE j \in 1 .. Len(out)
        BY <3>1, <3>2, <4>1
      <4>2. CASE j = Len(out) + 1
        BY <2>2, <3>2, <3>4, <4>2
      <4>3. QED BY <3>3, <4>1, <4>2
    <3>6. QED BY <1>0, <3>1, <3>4, <3>5
  <2>5. QED BY <1>0, <2>1, <2>2, <2>3, <2>4 DEF OrderInv, Holding
<1>9. QED
  BY <1>1, <1>3, <1>4, <1>5, <1>6, <1>7, <1>8
     DEF Next, Step, Dealing, SetMethod, local_routine, socket_routine, Connect, ConnectFails,
         Usage, open_device, init_fails, init_read, init_mmap, init_userp, start_capturing,
         SelectTimeout, ReadFails, end_capturing, uninit_device, close_device, GoTo, Exit,
         Capturing

-----------------------------------------------------------------------------
(* The theorems *)

LEMMA InvInit == Init => Inv
<1> SUFFICES ASSUME Init PROVE Inv
  OBVIOUS
<1>1. TypeOK
  <2>1. script \in Seq(CaptureOptions)
    BY CaptureAssumption DEF Init
  <2>2. content \in [Buffers -> Nat]
    BY DEF Init
  <2>3. Range(driver.outgoing) = {} /\ driver.incoming \in Seq(Buffers)
    BY DEF Init, Off, Range
  <2>4. count \in 0 .. Frames /\ written \in Seq(Nat)
    BY CaptureAssumption, NoFrames DEF Init
  <2>5. QED BY <2>1, <2>2, <2>3, <2>4 DEF Init, TypeOK
<1>2. DriverType
  BY DEF Init, DriverType, DriverStates, Off
<1>3. QED
  BY <1>1, <1>2
     DEF Init, Inv, PhaseInv, BufferInv, CountInv, OrderInv, Holding, Capturing

LEMMA InvStep == Inv /\ [Next]_vars => Inv'
<1> SUFFICES ASSUME Inv, [Next]_vars PROVE Inv'
  OBVIOUS
<1>1. CASE Next
  BY <1>1, TypeStep, DriverTypeStep, PhaseStep, BufferStep, CountStep, OrderStep DEF Inv
<1>2. CASE UNCHANGED vars
  <2>1. UNCHANGED <<script, io, sink, pc, times, fd, n_buffers, mapped, count, buf, written,
                    lost, driver, content>>
    BY <1>2 DEF vars, progVars
  <2>2. TypeOK' /\ DriverType'
    BY <2>1 DEF Inv, TypeOK, DriverType, Range
  <2>3. PhaseInv' /\ CountInv'
    BY <2>1 DEF Inv, PhaseInv, CountInv, Holding, BuffersOfRoutine
  <2>4. BufferInv' /\ OrderInv'
    BY <2>1 DEF Inv, BufferInv, OrderInv, Places, Held, Holding, ContentInv
  <2>5. QED BY <2>2, <2>3, <2>4 DEF Inv
<1>3. QED BY <1>1, <1>2

\* The six parts together hold in every reachable state.
THEOREM Invariance == Spec => []Inv
BY InvInit, InvStep, PTL DEF Spec

LEMMA Concatenation ==
  ASSUME NEW S, NEW s \in Seq(S), NEW t \in Seq(S)
  PROVE  /\ s \o t \in Seq(S) /\ Len(s \o t) = Len(s) + Len(t)
         /\ Range(s \o t) = Range(s) \cup Range(t)
BY RangeConcatenation

LEMMA ThreeQueues ==
  ASSUME NEW S, NEW r \in Seq(S), NEW s \in Seq(S), NEW t \in Seq(S)
  PROVE  /\ Len(r \o s \o t) = Len(r) + Len(s) + Len(t)
         /\ Range(r \o s \o t) = Range(r) \cup Range(s) \cup Range(t)
<1> DEFINE rs == r \o s
<1>1. rs \in Seq(S) /\ Len(rs) = Len(r) + Len(s) /\ Range(rs) = Range(r) \cup Range(s)
  BY Concatenation
<1> HIDE DEF rs
<1>2. Len(rs \o t) = Len(rs) + Len(t) /\ Range(rs \o t) = Range(rs) \cup Range(t)
  BY <1>1, Concatenation
<1>3. Len(r) \in Nat /\ Len(s) \in Nat /\ Len(t) \in Nat
  OBVIOUS
<1>4. Len(rs \o t) = Len(r) + Len(s) + Len(t)
  BY <1>1, <1>2, <1>3
<1>5. Range(rs \o t) = Range(r) \cup Range(s) \cup Range(t)
  BY <1>1, <1>2
<1>6. QED BY <1>4, <1>5 DEF rs

\* Wherever each buffer is, all of them make up the queues and the program's hands.
LEMMA AllPlaces ==
  ASSUME Inv
  PROVE  BuffersKept
<1> SUFFICES ASSUME pc \in Capturing, io = "mmap"
             PROVE  LET held == IF buf = None THEN <<>> ELSE <<buf.index>>
                        out == driver.outgoing
                        all == driver.incoming \o [i \in DOMAIN out |-> out[i].index] \o held
                    IN Len(all) = n_buffers /\ Range(all) = 0 .. n_buffers - 1
  BY DEF BuffersKept
<1> DEFINE in == driver.incoming
           out == driver.outgoing
           mid == [i \in DOMAIN out |-> out[i].index]
           hand == IF buf = None THEN <<>> ELSE <<buf.index>>
           Items == Buffers \cup {None}
<1>1. Placed(in, out, Held, n_buffers)
  BY DEF Inv, BufferInv, Places
<1>2. (buf = None <=> ~ Holding) /\ (buf = None \/ buf.index \in Buffers)
  BY DEF Inv, PhaseInv, TypeOK, Capturing
<1>3. hand \in Seq(Items) /\ Len(hand) = (IF Held = {} THEN 0 ELSE 1) /\ Held = Range(hand)
  <2>1. CASE Holding
    <3>1. hand = <<buf.index>> /\ Held = {buf.index} /\ buf.index \in Items
      BY <1>2, <2>1 DEF Held
    <3> HIDE DEF hand, Items
    <3>2. QED BY <3>1 DEF Range
  <2>2. CASE ~ Holding
    <3>1. hand = <<>> /\ Held = {}
      BY <1>2, <2>2 DEF Held
    <3> HIDE DEF hand, Items
    <3>2. QED BY <3>1 DEF Range
  <2>3. QED BY <2>1, <2>2
<1>4. in \in Seq(Items) /\ out \in Seq(Filled) /\ n_buffers \in Nat
  BY DEF Inv, DriverType, DriverStates, TypeOK
<1>5. /\ mid \in Seq(Items) /\ Len(mid) = Len(out)
      /\ \A i \in 1 .. Len(out) : mid[i] = out[i].index
  <2>1. \A i \in 1 .. Len(out) : out[i].index \in Items
    <3>1. \A i \in 1 .. Len(out) : out[i] \in Filled
      BY <1>4
    <3>2. QED BY <3>1 DEF Filled
  <2>2. DOMAIN out = 1 .. Len(out) /\ Len(out) \in Nat
    BY <1>4
  <2>3. QED BY <2>1, <2>2
<1> HIDE DEF in, out, hand, mid, Items
<1>6. in \in Seq(Items) /\ mid \in Seq(Items) /\ hand \in Seq(Items)
  BY <1>3, <1>4, <1>5
<1>7. Range(in) \cup Range(mid) \cup Held = 0 .. n_buffers - 1
  <2>1. ASSUME NEW x \in Range(in) PROVE x \in 0 .. n_buffers - 1
    <3>1. PICK i \in 1 .. Len(in) : x = in[i]
      BY <1>6, <2>1, RangeOf
    <3>2. QED BY <1>1, <3>1 DEF Placed
  <2>2. ASSUME NEW x \in Range(mid) PROVE x \in 0 .. n_buffers - 1
    <3>1. PICK i \in 1 .. Len(mid) : x = mid[i]
      BY <1>6, <2>2, RangeOf
    <3>2. QED BY <1>1, <1>5, <3>1 DEF Placed
  <2>3. Held \subseteq 0 .. n_buffers - 1
    BY <1>1 DEF Placed
  <2>4. ASSUME NEW b \in 0 .. n_buffers - 1 PROVE b \in Range(in) \cup Range(mid) \cup Held
    <3>1. CASE \E i \in 1 .. Len(in) : in[i] = b
      BY <1>6, <3>1, RangeOf
    <3>2. CASE \E i \in 1 .. Len(out) : out[i].index = b
      <4>1. PICK i \in 1 .. Len(out) : out[i].index = b
        BY <3>2
      <4>2. \A j \in 1 .. Len(mid) : mid[j] \in Range(mid)
        BY <1>6, RangeOf
      <4>3. QED BY <1>5, <4>1, <4>2
    <3>3. QED BY <1>1, <3>1, <3>2 DEF Placed
  <2>5. QED BY <2>1, <2>2, <2>3, <2>4
<1>8. Len(in) + Len(mid) + Len(hand) = n_buffers
  BY <1>1, <1>3, <1>5 DEF Placed
<1>9. /\ Len(in \o mid \o hand) = Len(in) + Len(mid) + Len(hand)
      /\ Range(in \o mid \o hand) = Range(in) \cup Range(mid) \cup Range(hand)
  BY <1>6, ThreeQueues
<1>10. Len(in \o mid \o hand) = n_buffers /\ Range(in \o mid \o hand) = 0 .. n_buffers - 1
  BY <1>3, <1>7, <1>8, <1>9
<1>11. QED BY <1>10 DEF in, out, hand, mid

\* The buffers travel between driver and program as start_capturing and read_frame intend:
\* none is lost, none is in two places, and the one in the program's hands is not written.
THEOREM BuffersTravel == Spec => []Buffering
<1>1. ASSUME Inv PROVE Buffering
  <2>1. TypeOK /\ DealtIntact
    <3>1. TypeOK /\ BufferInv
      BY <1>1 DEF Inv
    <3>2. QED BY <3>1 DEF BufferInv, ContentInv, DealtIntact, Holding, Capturing
  <2>2. BuffersKept
    BY <1>1, AllPlaces
  <2>3. QED BY <2>1, <2>2 DEF Buffering
<1>2. QED BY <1>1, Invariance, PTL

\* A routine that comes to its end has given out all its frames, each once and in order, but
\* those whose fwrite or send failed: the file is whole if none did.
THEOREM WholeFileWritten == Spec => []WholeFile
<1>1. ASSUME Inv PROVE WholeFile
  BY <1>1 DEF Inv, CountInv, OrderInv, Ascending, WholeFile
<1>2. QED BY <1>1, Invariance, PTL

\* A routine that comes back leaves nothing that makes the next one fail, whatever methods
\* and numbers of buffers there were before.
THEOREM CleanBetweenRoutines == Spec => []CleanBetween
<1>1. ASSUME Inv PROVE CleanBetween
  BY <1>1 DEF Inv, PhaseInv, CleanBetween
<1>2. QED BY <1>1, Invariance, PTL

=============================================================================
