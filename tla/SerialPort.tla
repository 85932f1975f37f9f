----------------------------- MODULE SerialPort -----------------------------
(***************************************************************************)
(* SerialPort after Init: the UART read thread of SetupSeparateThread, the *)
(* message thread that calls ProcessMessages in a loop, and the thread     *)
(* that destroys the node.  They share the ring (module ByteFifo, which    *)
(* BipartiteBuf implements), a counting semaphore, an eventfd and three    *)
(* atomic flags.                                                           *)
(*                                                                         *)
(* The tty, the kernel and the parser are choices: any number of bytes may *)
(* arrive at any time or never, read and poll may be interrupted, may fail *)
(* or return nothing, and the parser leaves any truncated tail.            *)
(***************************************************************************)
EXTENDS ByteFifo

CONSTANTS
  BufSize,    (* buffer_size: capacity of the parser's linear Buffer       *)
  MaxTail,    (* longest truncated frame ProcessMessages leaves there      *)
  HasEventFd, (* did eventfd() succeed in the constructor?                 *)
  MaxBytes    (* bound: bytes the device sends in a behaviour              *)

ASSUME PortAssumption ==
  /\ BufSize \in Nat /\ MaxTail \in Nat /\ MaxBytes \in Nat
  /\ HasEventFd \in BOOLEAN

VARIABLES
  rpc,            (* where the read thread is                              *)
  mpc,            (* where the message thread is                           *)
  stage,          (* where the destroying thread is                        *)
  sem,            (* read_semaphare                                        *)
  eventFd,        (* counter of stop_event_fd                              *)
  stopRequested,  (* stop_requested                                        *)
  readRunning,    (* read_thread_running                                   *)
  m7xxRunning,    (* m7xx_thread_running of the node                       *)
  bufR, bufW,     (* read_pointer and write_pointer of the linear Buffer   *)
  left,           (* PrepareDataFromBipBuffer's left_bytes                 *)
  readBytes,      (* ... and its read_bytes                                *)
  parsed          (* history: bytes the parser dropped or delivered        *)

bufVars == <<bufR, bufW, left, readBytes, parsed>>
flagVars == <<stopRequested, readRunning, m7xxRunning>>
vars == <<fifoVars, rpc, mpc, stage, sem, eventFd, flagVars, bufVars>>

Least(a, b) == IF a <= b THEN a ELSE b
Stopping == stopRequested \/ ~readRunning
Held == bufW - bufR

(* SetupSeparateThread has run and the node has started its thread. *)
Init ==
  /\ FifoInit
  /\ rpc = "check" /\ mpc = "loop" /\ stage = "run"
  /\ sem = 0 /\ eventFd = 0
  /\ stopRequested = FALSE /\ readRunning = TRUE /\ m7xxRunning = TRUE
  /\ bufR = 0 /\ bufW = 0 /\ left = 0 /\ readBytes = 0 /\ parsed = 0

-----------------------------------------------------------------------------
(* The read thread. *)

ReaderOnly == UNCHANGED <<mpc, stage, m7xxRunning, stopRequested, readRunning, bufVars>>

(* The loop's condition and the test at its top. *)
ReadCheck ==
  /\ rpc = "check"
  /\ rpc' = IF Stopping THEN "done" ELSE "acquire"
  /\ UNCHANGED <<fifoVars, sem, eventFd>> /\ ReaderOnly

ReadAcquire ==
  /\ rpc = "acquire"
  /\ \/ Grant /\ rpc' = "poll"
     \/ Refuse /\ rpc' = "full"
  /\ UNCHANGED <<sem, eventFd>> /\ ReaderOnly

(* nullptr: "Uart BipBuffer Full. Waiting to be consumed.", 1 ms, again. *)
ReadFull ==
  /\ rpc = "full"
  /\ \/ stopRequested /\ rpc' = "done" /\ UNCHANGED fifoVars
     \/ ~stopRequested /\ Retry /\ rpc' = "check"
  /\ UNCHANGED <<sem, eventFd>> /\ ReaderOnly

(* poll returns for the stop event; the device may be readable as well, or *)
(* the flags may say that nobody wants to stop after all.                  *)
PollStop ==
  /\ rpc = "poll" /\ HasEventFd /\ eventFd > 0
  /\ eventFd' = 0
  /\ IF Stopping
     THEN rpc' = "done" /\ UNCHANGED fifoVars
     ELSE \/ rpc' = "read" /\ UNCHANGED fifoVars
          \/ rpc' = "check" /\ Retry
  /\ UNCHANGED sem /\ ReaderOnly

(* poll returns for the device alone: POLLIN, POLLERR, POLLHUP, POLLNVAL. *)
PollDevice ==
  /\ rpc = "poll" /\ (HasEventFd => eventFd = 0)
  /\ rpc' = "read"
  /\ UNCHANGED <<fifoVars, sem, eventFd>> /\ ReaderOnly

(* poll fails: EINTR is retried while the thread is to run, and any other  *)
(* error ends the thread ("Uart poll failed") without a sem_post.          *)
PollFails ==
  /\ rpc = "poll"
  /\ rpc' = "done"
  /\ UNCHANGED <<fifoVars, sem, eventFd>> /\ ReaderOnly

(* read returns n > 0 bytes and WriteRelease publishes them. *)
ReadBytes(n) ==
  /\ rpc = "read"
  /\ put + n <= MaxBytes
  /\ Publish(n)
  /\ rpc' = "post"
  /\ UNCHANGED <<sem, eventFd>> /\ ReaderOnly

(* read returns 0, or is interrupted. *)
ReadNothing ==
  /\ rpc = "read"
  /\ \/ Stopping /\ rpc' = "done" /\ UNCHANGED fifoVars
     \/ Retry /\ rpc' = "check"
  /\ UNCHANGED <<sem, eventFd>> /\ ReaderOnly

(* read fails: "Uart Read Bytes < 0", the thread ends. *)
ReadFails ==
  /\ rpc = "read"
  /\ rpc' = "done"
  /\ UNCHANGED <<fifoVars, sem, eventFd>> /\ ReaderOnly

(* Slip: the message thread is woken only when it may be asleep. *)
ReadPostIfZero ==
  /\ rpc = "post"
  /\ sem' = IF sem = 0 /\ mpc = "wait" THEN 1 ELSE sem
  /\ rpc' = "check"
  /\ UNCHANGED <<fifoVars, eventFd>> /\ ReaderOnly

ReadPost ==
  /\ rpc = "post"
  /\ sem' = sem + 1
  /\ rpc' = "check"
  /\ UNCHANGED <<fifoVars, eventFd>> /\ ReaderOnly

-----------------------------------------------------------------------------
(* The message thread: while (m7xx_thread_running) ProcessMessages(), which *)
(* starts with PrepareDataFromBipBuffer.                                    *)

MessageOnly == UNCHANGED <<rpc, stage, eventFd, flagVars>>

(* Buffer::Reorganization moves what is left to the front. *)
MessageLoop ==
  /\ mpc = "loop"
  /\ IF m7xxRunning
     THEN /\ mpc' = "wait"
          /\ bufR' = 0 /\ bufW' = Held /\ left' = Held /\ readBytes' = 0
          /\ UNCHANGED parsed
     ELSE mpc' = "done" /\ UNCHANGED bufVars
  /\ UNCHANGED <<fifoVars, sem>> /\ MessageOnly

MessageWait ==
  /\ mpc = "wait" /\ sem > 0
  /\ sem' = sem - 1
  /\ mpc' = "drain"
  /\ UNCHANGED <<fifoVars, bufVars>> /\ MessageOnly

(* sem_wait is interrupted by a signal: it gives up only when stopping. *)
MessageInterrupted ==
  /\ mpc = "wait" /\ stopRequested
  /\ mpc' = "parse"
  /\ UNCHANGED <<fifoVars, sem, bufVars>> /\ MessageOnly

(* ReadAcquire returned nullptr: the drain loop ends. *)
DrainEmpty ==
  /\ mpc = "drain"
  /\ ReportEmpty
  /\ mpc' = "parse"
  /\ UNCHANGED <<sem, bufVars>> /\ MessageOnly

DrainOffer(n) ==
  /\ mpc = "drain"
  /\ Offer(n)
  /\ mpc' = "copy"
  /\ UNCHANGED <<sem, bufVars>> /\ MessageOnly

(* Slip: the bytes this call has already appended are forgotten. *)
AvailableAtEntry == BufSize - left
Available == BufSize - left - readBytes

(* memcpy of used_bytes; when fewer than offered, the code only warns       *)
(* "Uart Buffer Full, Please Consider Resizing The Buffer."                 *)
DrainCopy ==
  /\ mpc = "copy"
  /\ Take(Least(Available, offered))
  /\ mpc' = "release"
  /\ UNCHANGED <<sem, bufVars>> /\ MessageOnly

(* Slip: the loop is left after the first area. *)
DrainReleaseOnce ==
  /\ mpc = "release"
  /\ Consume
  /\ bufW' = bufW + Least(offered, BufSize - bufW)
  /\ readBytes' = readBytes + offered
  /\ mpc' = "parse"
  /\ UNCHANGED <<sem, bufR, left, parsed>> /\ MessageOnly

(* ReadRelease, UpdateWritePointer (which clamps), and round again. *)
DrainRelease ==
  /\ mpc = "release"
  /\ Consume
  /\ bufW' = bufW + Least(offered, BufSize - bufW)
  /\ readBytes' = readBytes + offered
  /\ mpc' = "drain"
  /\ UNCHANGED <<sem, bufR, left, parsed>> /\ MessageOnly

Tails == 0 .. Least(Held, MaxTail)

(* The rest of ProcessMessages: nothing when stopped without data, else    *)
(* the parser consumes all but a truncated tail.                           *)
Parse ==
  /\ mpc = "parse"
  /\ \/ LeaveEmpty
     \/ reader = "idle" /\ UNCHANGED fifoVars
  /\ mpc' = "loop"
  /\ IF left + readBytes = 0 /\ stopRequested
     THEN UNCHANGED bufVars
     ELSE \E keep \in Tails :
            /\ bufR' = bufW - keep
            /\ parsed' = parsed + (Held - keep)
            /\ UNCHANGED <<bufW, left, readBytes>>
  /\ UNCHANGED sem /\ MessageOnly

-----------------------------------------------------------------------------
(* The destroying thread: ~HuaceM7xxDriverNode, that is BeginShutdown,     *)
(* RequestStop, the join of the message thread, and ~SerialPort, whose own *)
(* RequestStop finds stop_requested set and does nothing.                  *)

(* Slip: RequestStop comes before the message thread's flag is cleared. *)
StopFirst(s) ==
  CASE s = "run" -> "exchange"
    [] s = "exchange" -> "clearRead"
    [] s = "clearRead" -> "event"
    [] s = "event" -> "post"
    [] s = "post" -> "clearM7xx"
    [] s = "clearM7xx" -> "joinM7xx"
    [] s = "joinM7xx" -> "joinRead"
    [] s = "joinRead" -> "destroyed"

(* Slip: the destructor does not join the read thread. *)
SkipReadJoin(s) ==
  CASE s = "run" -> "clearM7xx"
    [] s = "clearM7xx" -> "exchange"
    [] s = "exchange" -> "clearRead"
    [] s = "clearRead" -> "event"
    [] s = "event" -> "post"
    [] s = "post" -> "joinM7xx"
    [] s = "joinM7xx" -> "destroyed"

StageAfter(s) ==
  CASE s = "run" -> "clearM7xx"
    [] s = "clearM7xx" -> "exchange"
    [] s = "exchange" -> "clearRead"
    [] s = "clearRead" -> "event"
    [] s = "event" -> "post"
    [] s = "post" -> "joinM7xx"
    [] s = "joinM7xx" -> "joinRead"
    [] s = "joinRead" -> "destroyed"

Advance(s) == stage = s /\ stage' = StageAfter(s)
StopperOnly == UNCHANGED <<fifoVars, rpc, mpc, bufVars>>

(* shutdown_started is set and OFFMSG is sent. *)
BeginShutdown ==
  /\ Advance("run")
  /\ UNCHANGED <<sem, eventFd, flagVars>> /\ StopperOnly

ClearM7xxRunning ==
  /\ Advance("clearM7xx")
  /\ m7xxRunning' = FALSE
  /\ UNCHANGED <<sem, eventFd, stopRequested, readRunning>> /\ StopperOnly

RequestStop ==
  /\ Advance("exchange")
  /\ stopRequested' = TRUE
  /\ UNCHANGED <<sem, eventFd, readRunning, m7xxRunning>> /\ StopperOnly

ClearReadRunning ==
  /\ Advance("clearRead")
  /\ readRunning' = FALSE
  /\ UNCHANGED <<sem, eventFd, stopRequested, m7xxRunning>> /\ StopperOnly

(* Slip: the event is not written. *)
NoStopEvent ==
  /\ Advance("event")
  /\ UNCHANGED <<sem, eventFd, flagVars>> /\ StopperOnly

WriteStopEvent ==
  /\ Advance("event")
  /\ eventFd' = IF HasEventFd THEN eventFd + 1 ELSE eventFd
  /\ UNCHANGED <<sem, flagVars>> /\ StopperOnly

PostStop ==
  /\ Advance("post")
  /\ sem' = sem + 1
  /\ UNCHANGED <<eventFd, flagVars>> /\ StopperOnly

JoinM7xx ==
  /\ Advance("joinM7xx")
  /\ mpc = "done"
  /\ UNCHANGED <<sem, eventFd, flagVars>> /\ StopperOnly

JoinRead ==
  /\ Advance("joinRead")
  /\ rpc = "done"
  /\ UNCHANGED <<sem, eventFd, flagVars>> /\ StopperOnly

-----------------------------------------------------------------------------
(* What the read thread does on its own, and what the device decides.      *)
ReadThread ==
  \/ ReadCheck \/ ReadAcquire \/ ReadFull \/ PollStop
  \/ \E n \in 1 .. Expect : ReadBytes(n)
  \/ ReadNothing \/ ReadFails \/ ReadPost
Device == PollDevice \/ PollFails

MessageThread ==
  \/ MessageLoop \/ MessageWait
  \/ DrainEmpty \/ (\E n \in 1 .. Unread : DrainOffer(n)) \/ DrainCopy \/ DrainRelease
  \/ Parse

Stopper ==
  \/ ClearM7xxRunning \/ RequestStop \/ ClearReadRunning \/ WriteStopEvent \/ PostStop
  \/ JoinM7xx \/ JoinRead

Next ==
  \/ ReadThread \/ Device
  \/ MessageThread \/ MessageInterrupted
  \/ BeginShutdown \/ Stopper

Spec == Init /\ [][Next]_vars

(* The scheduler runs every thread that can run.  Nothing is assumed about *)
(* the device, about signals, or about anyone wanting the node to stop.    *)
FairSpec ==
  /\ Spec
  /\ WF_vars(ReadThread) /\ WF_vars(MessageThread) /\ WF_vars(Stopper)

-----------------------------------------------------------------------------
Stages == {"run", "clearM7xx", "exchange", "clearRead", "event", "post", "joinM7xx",
           "joinRead", "destroyed"}
Draining == {"drain", "copy", "release"}
StopPosted == {"joinM7xx", "joinRead", "destroyed"}

(* Counters, places and Buffer pointers stay in their ranges. *)
TypeOK ==
  /\ put \in Nat /\ got \in Nat /\ got <= put
  /\ writer \in {"idle", "granted", "refused"}
  /\ reader \in {"idle", "empty", "offered", "taken"} /\ offered \in Nat
  /\ rpc \in {"check", "acquire", "full", "poll", "read", "post", "done"}
  /\ mpc \in {"loop", "wait", "parse", "done"} \cup Draining
  /\ stage \in Stages
  /\ sem \in Nat /\ eventFd \in Nat
  /\ stopRequested \in BOOLEAN /\ readRunning \in BOOLEAN /\ m7xxRunning \in BOOLEAN
  /\ bufR \in 0 .. bufW /\ bufW \in 0 .. BufSize
  /\ left \in Nat /\ readBytes \in Nat /\ parsed \in Nat

(* No wake-up is lost: published bytes that nobody has read imply a token  *)
(* in the semaphore, a sem_post about to happen, or a message thread that  *)
(* is still draining the ring and will look again before it sleeps.        *)
NoLostWakeup ==
  put # got => sem > 0 \/ rpc = "post" \/ mpc \in Draining

(* RequestStop posts one token only, and that is enough: once it is posted *)
(* the message thread is never asleep without one, whatever it was doing   *)
(* when the node began to shut down.                                       *)
StopReachesMessageThread ==
  stage \in StopPosted /\ mpc = "wait" => sem > 0

(* Likewise a read thread blocked in poll has the stop event pending.      *)
StopReachesReadThread ==
  HasEventFd /\ stage \in {"post"} \cup StopPosted /\ rpc = "poll" => eventFd > 0

(* memcpy appends at the write pointer and never past the Buffer's end,    *)
(* and every byte taken from the ring is in the Buffer or was parsed.      *)
BufferConsistent ==
  /\ got = parsed + Held
  /\ mpc \in Draining => bufR = 0 /\ bufW = left + readBytes
  /\ mpc = "release" => bufW + offered <= BufSize

(* The semaphore, the eventfd and the ring are destroyed after both        *)
(* threads that use them have ended.                                       *)
DestroyedLast ==
  stage = "destroyed" => rpc = "done" /\ mpc = "done"

(* What the threads know of one another, which makes the above inductive:  *)
(* the message thread's place tells what it holds of the ring; every stage *)
(* of the shutdown finds the flags of the earlier ones still set; and the  *)
(* stop event, once written, is consumed by a read thread that ends.       *)
HandOver ==
  /\ mpc = "copy" <=> reader = "offered"
  /\ mpc = "release" <=> reader = "taken"
  /\ reader = "empty" => mpc = "parse"
  /\ reader \in {"offered", "taken"} => offered <= Unread

Appending ==
  mpc \in {"wait", "parse"} \cup Draining => bufR = 0 /\ bufW = left + readBytes

FlagsStay ==
  /\ stage \notin {"run", "clearM7xx"} => ~m7xxRunning
  /\ stage \notin {"run", "clearM7xx", "exchange"} => stopRequested
  /\ stage \in {"post"} \cup StopPosted /\ HasEventFd /\ rpc # "done" => eventFd > 0
  /\ stage \in {"joinRead", "destroyed"} => mpc = "done"

PortInv ==
  /\ HandOver /\ Appending /\ FlagsStay
  /\ NoLostWakeup /\ StopReachesMessageThread /\ BufferConsistent /\ DestroyedLast

(* The drain loop has room for what the ring offers.  When it has not, it   *)
(* turns for ever (FullIsConsumed).                                         *)
RoomLeft == mpc = "copy" => Available >= offered

(* A node that begins to shut down is destroyed: no join waits forever,    *)
(* whatever the device does, unless the drain loop turns for ever.         *)
ShutdownCompletes == <>[]RoomLeft => ((stage = "clearM7xx") ~> (stage = "destroyed"))

(* A byte the read thread published is taken out of the ring, unless the   *)
(* message thread ends first or turns for ever.                            *)
BytesAreRead ==
  <>[]RoomLeft =>
    \A n \in 1 .. MaxBytes : (put >= n) ~> (got >= n \/ mpc = "done")

(* "Uart BipBuffer Full. Waiting to be consumed.": a refused read thread   *)
(* gets its area, or ends.                                                 *)
FullIsConsumed == (rpc = "full") ~> (rpc \in {"poll", "done"})
=============================================================================
