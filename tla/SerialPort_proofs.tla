------------------------- MODULE SerialPort_proofs --------------------------
(***************************************************************************)
(* Proofs about module SerialPort for every ring, Buffer and tail length,  *)
(* with or without an eventfd, and any number of bytes.                    *)
(*                                                                         *)
(* Inv is inductive: none of the properties is on its own.  A wake-up is   *)
(* not lost because of where the message thread is when the ring is        *)
(* refilled (NoLostWakeup carries itself); the single stop token suffices  *)
(* because m7xxRunning was cleared before it was posted (FlagsStay); the   *)
(* Buffer is never overrun because bufW is left + readBytes for as long as *)
(* the drain loop runs (Appending).  The three threads touch different     *)
(* parts of the state, so there is one lemma for each.                     *)
(***************************************************************************)
EXTENDS SerialPort, TLAPS

Inv == TypeOK /\ PortInv

(* The state of SetupSeparateThread satisfies the invariant. *)
LEMMA InitInv == Init => Inv
<1> SUFFICES ASSUME Init PROVE Inv
  OBVIOUS
<1>i. /\ put = 0 /\ got = 0 /\ writer = "idle" /\ reader = "idle" /\ offered = 0
      /\ rpc = "check" /\ mpc = "loop" /\ stage = "run" /\ sem = 0 /\ eventFd = 0
      /\ bufR = 0 /\ bufW = 0 /\ left = 0 /\ readBytes = 0 /\ parsed = 0
  BY DEF Init, FifoInit
<1>b. stopRequested \in BOOLEAN /\ readRunning \in BOOLEAN /\ m7xxRunning \in BOOLEAN
  BY DEF Init
<1>1. TypeOK
  BY <1>i, <1>b, PortAssumption DEF TypeOK, Stages, Draining
<1>2. HandOver /\ Appending /\ BufferConsistent
  BY <1>i DEF HandOver, Appending, BufferConsistent, Held, Unread, Draining
<1>3. FlagsStay /\ NoLostWakeup /\ StopReachesMessageThread /\ DestroyedLast
  BY <1>i DEF FlagsStay, NoLostWakeup, StopReachesMessageThread, DestroyedLast, StopPosted
<1> QED
  BY <1>1, <1>2, <1>3 DEF Inv, PortInv

(* An area offered to the message thread stays unread while more arrives.  *)
LEMMA StillUnread ==
  ASSUME NEW o \in Nat, NEW g \in Nat, NEW p \in Nat, NEW q \in Nat, p <= q, o <= p - g
  PROVE  o <= q - g
  OBVIOUS

(* No step of the read thread disturbs it: it adds tokens and bytes, and   *)
(* consumes the stop event only to end.                                    *)
LEMMA ReadThreadInv == Inv /\ (ReadThread \/ Device) => Inv'
<1> SUFFICES ASSUME Inv, ReadThread \/ Device PROVE Inv'
  OBVIOUS
<1>f. /\ UNCHANGED <<mpc, stage, stopRequested, readRunning, m7xxRunning>>
      /\ UNCHANGED <<bufR, bufW, left, readBytes, parsed, reader, offered, got>>
  BY DEF ReadThread, Device, ReadCheck, ReadAcquire, ReadFull, PollStop, ReadBytes, ReadNothing,
         ReadFails, ReadPost, PollDevice, PollFails, ReaderOnly, bufVars, fifoVars, Grant,
         Refuse, Retry, Publish
<1>p. /\ put' \in Nat /\ put <= put'
      /\ sem' \in Nat /\ sem <= sem'
      /\ eventFd' \in Nat
  BY DEF ReadThread, Device, ReadCheck, ReadAcquire, ReadFull, PollStop, ReadBytes, ReadNothing,
         ReadFails, ReadPost, PollDevice, PollFails, fifoVars, Grant, Refuse, Retry, Publish,
         Inv, TypeOK
<1>w. /\ writer' \in {"idle", "granted", "refused"}
      /\ rpc' \in {"check", "acquire", "full", "poll", "read", "post", "done"}
  BY DEF ReadThread, Device, ReadCheck, ReadAcquire, ReadFull, PollStop, ReadBytes, ReadNothing,
         ReadFails, ReadPost, PollDevice, PollFails, fifoVars, Grant, Refuse, Retry, Publish,
         Inv, TypeOK
<1>d. rpc # "done"
  BY DEF ReadThread, Device, ReadCheck, ReadAcquire, ReadFull, PollStop, ReadBytes, ReadNothing,
         ReadFails, ReadPost, PollDevice, PollFails
<1>1. TypeOK'
  BY <1>f, <1>p, <1>w DEF Inv, TypeOK, Draining, Stages
<1>2. HandOver' /\ Appending' /\ BufferConsistent' /\ StopReachesMessageThread'
  <2>k. put \in Nat /\ got \in Nat /\ offered \in Nat /\ put' \in Nat /\ put <= put'
    BY <1>p DEF Inv, TypeOK
  <2>l. offered <= put - got => offered <= put' - got
    BY <2>k, StillUnread
  <2>u. offered <= Unread => offered' <= Unread'
    BY <2>l, <1>f DEF Unread
  <2>1. HandOver'
    BY <1>f, <2>u DEF Inv, PortInv, HandOver
  <2>2. Appending' /\ BufferConsistent'
    BY <1>f DEF Inv, PortInv, Appending, BufferConsistent, Held, Draining
  <2>3. StopReachesMessageThread'
    BY <1>f, <1>p DEF Inv, TypeOK, PortInv, StopReachesMessageThread, StopPosted
  <2> QED
    BY <2>1, <2>2, <2>3
<1>3. NoLostWakeup'
  <2>1. CASE put' = put /\ rpc # "post"
    BY <2>1, <1>f, <1>p DEF Inv, TypeOK, PortInv, NoLostWakeup
  <2>2. CASE rpc = "post"
    BY <2>2, <1>f DEF ReadThread, Device, ReadCheck, ReadAcquire, ReadFull, PollStop, ReadBytes,
       ReadNothing, ReadFails, ReadPost, PollDevice, PollFails, Inv, TypeOK, NoLostWakeup
  <2>3. CASE rpc' = "post"
    BY <2>3 DEF NoLostWakeup
  <2> QED
    BY <2>1, <2>2, <2>3 DEF ReadThread, Device, ReadCheck, ReadAcquire, ReadFull, PollStop,
       ReadBytes, ReadNothing, ReadFails, ReadPost, PollDevice, PollFails, fifoVars, Grant,
       Refuse, Retry
<1>4. FlagsStay'
  <2>1. eventFd' = eventFd \/ rpc' = "done" \/ ~Stopping
    BY DEF ReadThread, Device, ReadCheck, ReadAcquire, ReadFull, PollStop, ReadBytes, ReadNothing,
       ReadFails, ReadPost, PollDevice, PollFails
  <2> QED
    BY <2>1, <1>f, <1>d DEF Inv, PortInv, FlagsStay, Stopping, StopPosted
<1>5. DestroyedLast'
  BY <1>f, <1>d DEF Inv, PortInv, DestroyedLast
<1> QED
  BY <1>1, <1>2, <1>3, <1>4, <1>5 DEF Inv, PortInv

(* No stage of the shutdown disturbs it: flags are only set, and joins     *)
(* only pass when the thread they wait for has ended.                      *)
LEMMA StopperInv == Inv /\ (BeginShutdown \/ Stopper) => Inv'
<1> SUFFICES ASSUME Inv, BeginShutdown \/ Stopper PROVE Inv'
  OBVIOUS
<1> USE DEF BeginShutdown, Stopper, ClearM7xxRunning, RequestStop, ClearReadRunning,
            WriteStopEvent, PostStop, JoinM7xx, JoinRead, Advance, StageAfter
<1>f. /\ UNCHANGED <<put, got, writer, reader, offered, rpc, mpc>>
      /\ UNCHANGED <<bufR, bufW, left, readBytes, parsed>>
  BY DEF StopperOnly, fifoVars, bufVars
<1>p. sem' \in Nat /\ sem <= sem' /\ eventFd' \in Nat /\ eventFd <= eventFd'
  BY DEF Inv, TypeOK
<1>s. /\ stage' \in Stages
      /\ stopRequested' \in BOOLEAN /\ readRunning' \in BOOLEAN /\ m7xxRunning' \in BOOLEAN
  BY DEF Inv, TypeOK, Stages, flagVars
<1>1. TypeOK'
  BY <1>f, <1>p, <1>s DEF Inv, TypeOK, Draining
<1>2. HandOver' /\ Appending' /\ BufferConsistent' /\ NoLostWakeup'
  BY <1>f, <1>p DEF Inv, TypeOK, PortInv, HandOver, Appending, BufferConsistent, NoLostWakeup,
     Held, Unread, Draining
<1>3. StopReachesMessageThread'
  BY <1>f, <1>p DEF Inv, TypeOK, PortInv, StopReachesMessageThread, StopPosted
<1>4. FlagsStay'
  BY <1>f, <1>p DEF Inv, TypeOK, PortInv, FlagsStay, StopPosted, flagVars
<1>5. DestroyedLast'
  BY <1>f DEF Inv, PortInv, DestroyedLast, FlagsStay
<1> QED
  BY <1>1, <1>2, <1>3, <1>4, <1>5 DEF Inv, PortInv

-----------------------------------------------------------------------------
(* The message thread, one lemma for each place it can be in. *)
MessageFacts ==
  UNCHANGED <<rpc, stage, eventFd, stopRequested, readRunning, m7xxRunning, put, writer>>

(* The message thread leaves the other threads' state alone.               *)
LEMMA MessageFrame == MessageThread \/ MessageInterrupted => MessageFacts
  BY DEF MessageThread, MessageInterrupted, MessageLoop, MessageWait, DrainEmpty, DrainOffer,
         DrainCopy, DrainRelease, Parse, MessageOnly, MessageFacts, flagVars, fifoVars,
         ReportEmpty, Offer, Take, Consume, LeaveEmpty

(* Going round the loop: Reorganization keeps what is left.                *)
LEMMA MessageLoopInv == Inv /\ MessageLoop => Inv'
<1> SUFFICES ASSUME Inv, MessageLoop PROVE Inv'
  OBVIOUS
<1> USE PortAssumption, FifoAssumption
<1>f. MessageFacts /\ UNCHANGED <<got, reader, offered, sem, parsed>>
  BY MessageFrame DEF MessageThread, MessageLoop, fifoVars, bufVars
<1>1. CASE m7xxRunning
  <2>1. /\ mpc = "loop" /\ mpc' = "wait" /\ bufR' = 0 /\ bufW' = bufW - bufR
        /\ left' = bufW - bufR /\ readBytes' = 0
    BY <1>1 DEF MessageLoop, Held
  <2>2. TypeOK'
    BY <1>f, <2>1, SMT DEF Inv, TypeOK, MessageFacts
  <2>3. HandOver' /\ Appending' /\ BufferConsistent' /\ NoLostWakeup'
    BY <1>f, <2>1, SMT DEF Inv, TypeOK, PortInv, HandOver, Appending, BufferConsistent,
       NoLostWakeup, Held, Unread, Draining, MessageFacts
  <2>4. StopReachesMessageThread' /\ FlagsStay' /\ DestroyedLast'
    BY <1>f, <1>1, <2>1 DEF Inv, TypeOK, PortInv, StopReachesMessageThread, FlagsStay,
       DestroyedLast, StopPosted, MessageFacts
  <2> QED
    BY <2>2, <2>3, <2>4 DEF Inv, PortInv
<1>2. CASE ~m7xxRunning
  <2>1. /\ mpc = "loop" /\ mpc' = "done"
        /\ UNCHANGED <<bufR, bufW, left, readBytes, parsed>>
    BY <1>2 DEF MessageLoop, bufVars
  <2> QED
    BY <1>f, <2>1, SMT DEF Inv, TypeOK, PortInv, HandOver, Appending, BufferConsistent,
       NoLostWakeup, Held, Unread, Draining, MessageFacts, StopReachesMessageThread, FlagsStay,
       DestroyedLast, StopPosted
<1> QED
  BY <1>1, <1>2

(* Waiting, and finding or not finding an area.                            *)
LEMMA MessageDrainInv ==
  Inv /\ (MessageWait \/ MessageInterrupted \/ DrainEmpty \/ \E n \in 1 .. Unread : DrainOffer(n))
    => Inv'
<1> SUFFICES ASSUME Inv,
                    MessageWait \/ MessageInterrupted \/ DrainEmpty
                      \/ \E n \in 1 .. Unread : DrainOffer(n)
             PROVE  Inv'
  OBVIOUS
<1>f. MessageFacts /\ UNCHANGED <<got, bufR, bufW, left, readBytes, parsed>>
  BY MessageFrame DEF MessageThread, MessageWait, MessageInterrupted, DrainEmpty, DrainOffer,
     fifoVars, bufVars, ReportEmpty, Offer
<1>1. CASE MessageWait \/ MessageInterrupted
  <2>1. /\ mpc = "wait" /\ UNCHANGED <<reader, offered>>
        /\ \/ mpc' = "drain" /\ sem' = sem - 1 /\ sem > 0
           \/ mpc' = "parse" /\ sem' = sem
    BY <1>1 DEF MessageWait, MessageInterrupted, fifoVars
  <2> QED
    BY <1>f, <2>1, SMT DEF Inv, TypeOK, PortInv, HandOver, Appending, BufferConsistent,
       NoLostWakeup, Held, Unread, Draining, MessageFacts, StopReachesMessageThread, FlagsStay,
       DestroyedLast, StopPosted
<1>2. CASE DrainEmpty \/ \E n \in 1 .. Unread : DrainOffer(n)
  <2>1. /\ mpc = "drain" /\ sem' = sem
        /\ \/ /\ mpc' = "parse" /\ reader' = "empty" /\ put - got = 0 /\ offered' = offered
           \/ /\ mpc' = "copy" /\ reader' = "offered"
              /\ offered' \in 1 .. put - got
    BY <1>2 DEF DrainEmpty, DrainOffer, ReportEmpty, Offer, Unread
  <2>2. TypeOK'
    BY <1>f, <2>1, SMT DEF Inv, TypeOK, MessageFacts, Draining
  <2> QED
    BY <1>f, <2>1, <2>2, SMT DEF Inv, TypeOK, PortInv, HandOver, Appending, BufferConsistent,
       NoLostWakeup, Held, Unread, Draining, MessageFacts, StopReachesMessageThread, FlagsStay,
       DestroyedLast, StopPosted
<1> QED
  BY <1>1, <1>2

(* Copying an area stops at the Buffer's end; releasing it advances bufW   *)
(* by exactly what was copied.                                             *)
LEMMA MessageCopyInv == Inv /\ (DrainCopy \/ DrainRelease) => Inv'
<1> SUFFICES ASSUME Inv, DrainCopy \/ DrainRelease PROVE Inv'
  OBVIOUS
<1> USE PortAssumption
<1>f. MessageFacts /\ UNCHANGED <<bufR, left, parsed, sem>>
  BY MessageFrame DEF MessageThread, DrainCopy, DrainRelease, bufVars
<1>1. CASE DrainCopy
  <2>1. /\ mpc = "copy" /\ mpc' = "release" /\ reader' = "taken" /\ reader = "offered"
        /\ UNCHANGED <<got, bufW, readBytes>>
        /\ offered' = Least(BufSize - left - readBytes, offered)
    BY <1>1 DEF DrainCopy, Take, bufVars, Available
  <2>2. bufR = 0 /\ bufW = left + readBytes
    BY <2>1 DEF Inv, PortInv, Appending, Draining
  <2>3. /\ offered' \in Nat
        /\ offered' <= offered /\ bufW + offered' <= BufSize
    BY <2>1, <2>2, SMT DEF Inv, TypeOK, Least
  <2> QED
    BY <1>f, <2>1, <2>2, <2>3, SMT DEF Inv, TypeOK, PortInv, HandOver, Appending,
       BufferConsistent, NoLostWakeup, Held, Unread, Draining, MessageFacts,
       StopReachesMessageThread, FlagsStay, DestroyedLast, StopPosted
<1>2. CASE DrainRelease
  <2>1. /\ mpc = "release" /\ mpc' = "drain" /\ reader' = "idle" /\ reader = "taken"
        /\ UNCHANGED offered /\ got' = got + offered
        /\ bufW' = bufW + Least(offered, BufSize - bufW) /\ readBytes' = readBytes + offered
    BY <1>2 DEF DrainRelease, Consume
  <2>2. bufR = 0 /\ bufW = left + readBytes /\ bufW + offered <= BufSize /\ offered <= put - got
    BY <2>1 DEF Inv, PortInv, Appending, Draining, BufferConsistent, HandOver, Unread
  <2>3. bufW' = bufW + offered
    BY <2>1, <2>2, SMT DEF Inv, TypeOK, Least
  <2>4. TypeOK'
    BY <1>f, <2>1, <2>2, <2>3, SMT DEF Inv, TypeOK, MessageFacts, Draining
  <2> QED
    BY <1>f, <2>1, <2>2, <2>3, <2>4, SMT DEF Inv, TypeOK, PortInv, HandOver, Appending,
       BufferConsistent, NoLostWakeup, Held, Unread, Draining, MessageFacts,
       StopReachesMessageThread, FlagsStay, DestroyedLast, StopPosted
<1> QED
  BY <1>1, <1>2

(* The parser only moves bytes from the Buffer to what was parsed.         *)
LEMMA ParseInv == Inv /\ Parse => Inv'
<1> SUFFICES ASSUME Inv, Parse PROVE Inv'
  OBVIOUS
<1> USE PortAssumption
<1>1. /\ MessageFacts /\ UNCHANGED <<got, sem, bufW, left, readBytes, offered>>
      /\ mpc = "parse" /\ mpc' = "loop" /\ reader' = "idle"
  BY MessageFrame DEF MessageThread, Parse, LeaveEmpty, fifoVars, bufVars
<1>2. bufR' \in bufR .. bufW /\ parsed' \in Nat /\ parsed' + (bufW - bufR') = parsed + Held
  <2>1. CASE UNCHANGED bufVars
    BY <2>1 DEF bufVars, Inv, TypeOK, Held
  <2>2. ASSUME NEW keep \in Tails, bufR' = bufW - keep, parsed' = parsed + (Held - keep)
        PROVE  bufR' \in bufR .. bufW /\ parsed' \in Nat
                 /\ parsed' + (bufW - bufR') = parsed + Held
    <3>1. keep \in Nat /\ keep <= bufW - bufR
      BY SMT DEF Tails, Least, Held, Inv, TypeOK
    <3> QED
      BY <3>1, <2>2, SMT DEF Inv, TypeOK, Held
  <2> QED
    BY <2>1, <2>2 DEF Parse
<1>3. TypeOK'
  BY <1>1, <1>2, SMT DEF Inv, TypeOK, MessageFacts
<1>4. BufferConsistent'
  <2>1. got = parsed + Held /\ Held' = bufW - bufR'
    BY <1>1 DEF Inv, PortInv, BufferConsistent, Held
  <2>2. got' = parsed' + Held'
    BY <1>1, <1>2, <2>1
  <2> QED
    BY <1>1, <2>2 DEF BufferConsistent, Draining
<1> QED
  BY <1>1, <1>3, <1>4, SMT DEF Inv, TypeOK, PortInv, HandOver, Appending,
     NoLostWakeup, Unread, Draining, MessageFacts, StopReachesMessageThread, FlagsStay,
     DestroyedLast, StopPosted

-----------------------------------------------------------------------------
(* Every step of the three threads, and a stuttering step, keeps Inv.      *)
LEMMA StepInv == Inv /\ [Next]_vars => Inv'
<1> SUFFICES ASSUME Inv, [Next]_vars PROVE Inv'
  OBVIOUS
<1>1. CASE ReadThread \/ Device
  BY <1>1, ReadThreadInv
<1>2. CASE MessageThread \/ MessageInterrupted
  BY <1>2, MessageLoopInv, MessageDrainInv, MessageCopyInv, ParseInv DEF MessageThread
<1>3. CASE BeginShutdown \/ Stopper
  BY <1>3, StopperInv
<1>4. CASE UNCHANGED vars
  BY <1>4 DEF vars, fifoVars, flagVars, bufVars, Inv, TypeOK, PortInv, HandOver, Appending,
     BufferConsistent, NoLostWakeup, Held, Unread, Draining, StopReachesMessageThread,
     FlagsStay, DestroyedLast, StopPosted, Stages
<1> QED
  BY <1>1, <1>2, <1>3, <1>4 DEF Next

(* The inductive invariant of the three threads: what the message thread's *)
(* place says about the ring and the Buffer, and what each stage of the    *)
(* shutdown may rely on.                                                   *)
THEOREM PortInvariant == Spec => [](TypeOK /\ PortInv)
<1>1. Spec => []Inv
  BY InitInv, StepInv, PTL DEF Spec
<1>2. Inv => TypeOK /\ PortInv
  BY DEF Inv
<1> QED
  BY <1>1, <1>2, PTL

(* Every variable keeps its type.                                          *)
THEOREM TypeCorrect == Spec => []TypeOK
  BY PortInvariant, PTL

(* Published bytes always have a wake-up on its way to a sleeping reader.  *)
THEOREM WakeupNotLost == Spec => []NoLostWakeup
<1>1. PortInv => NoLostWakeup
  BY DEF PortInv
<1> QED
  BY <1>1, PortInvariant, PTL

(* One token wakes the message thread up for its end, whatever it does     *)
(* when RequestStop posts it.                                              *)
THEOREM StopTokenSuffices == Spec => []StopReachesMessageThread
<1>1. PortInv => StopReachesMessageThread
  BY DEF PortInv
<1> QED
  BY <1>1, PortInvariant, PTL

(* A read thread in poll after the shutdown finds the event.               *)
THEOREM StopEventSuffices == Spec => []StopReachesReadThread
<1>1. PortInv => StopReachesReadThread
  BY DEF PortInv, FlagsStay, StopReachesReadThread
<1> QED
  BY <1>1, PortInvariant, PTL

(* The drain loop never writes past the linear Buffer and loses no byte.   *)
THEOREM BufferNotOverrun == Spec => []BufferConsistent
<1>1. PortInv => BufferConsistent
  BY DEF PortInv
<1> QED
  BY <1>1, PortInvariant, PTL

(* Nothing the threads use is destroyed before they have ended.            *)
THEOREM NothingUsedAfterDestruction == Spec => []DestroyedLast
<1>1. PortInv => DestroyedLast
  BY DEF PortInv
<1> QED
  BY <1>1, PortInvariant, PTL
=============================================================================
