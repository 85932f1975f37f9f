------------------------ MODULE NodeLifecycle_proofs ------------------------
(***************************************************************************)
(* Proofs about module NodeLifecycle for any number of loads and tokens.   *)
(*                                                                         *)
(* The stage of the one constructor or destructor under way tells what     *)
(* there is: Inv says for each thread, for the device and for the          *)
(* callbacks at which stages they can be there, and that the stop was not  *)
(* requested before it is due, which bounds the semaphore.                 *)
(***************************************************************************)
EXTENDS NodeLifecycle, TLAPS

\* The stages before the read thread is started.
BeforeReading == {"open", "config", "baudrate", "readThread"}

\* The stages of ~SerialPort, where a constructor that is unwound begins.
Unwinding == {"portStop", "joinRead", "close"}

\* One token of the stop, and not before the destructor.
StopOnce ==
    /\ ~stopRequested => sem <= MaxTokens
    /\ stage \in DOMAIN Construction \cup {"ready", "clearM7xx", "stop"} => ~stopRequested

\* Where threads are not, or no longer.
Joined ==
    /\ stage \in BeforeReading \cup {"idle", "close"} => readThread = "none"
    /\ stage \in DOMAIN Construction \cup Unwinding \cup {"idle"} => m7xxThread = "none"

\* The device is open between the two steps that open and close it.
OpenBetween ==
    /\ stage \in {"idle", "open"} => fd = FALSE
    /\ stage \notin {"idle", "open"} => fd = TRUE

\* The topics are served one after the other.
ServedInOrder ==
    /\ stage = "gmf" => "nmea" \in served
    /\ stage \in {"subscribe", "m7xxThread", "ready", "clearM7xx", "stop", "joinM7xx"} =>
           served = Topics

\* The log functions are this node's from the step that registers them on.
OwnLog ==
    stage \in {"services", "nmea", "gmf", "subscribe", "m7xxThread", "ready", "clearM7xx",
               "stop", "joinM7xx"} => logger = load

Inv == TypeOK /\ StopOnce /\ Joined /\ OpenBetween /\ ServedInOrder /\ OwnLog

\* The stages of the constructor and of the destructor.
LEMMA Stages ==
  /\ DOMAIN Construction = BeforeReading \cup
       {"logs", "services", "nmea", "gmf", "subscribe", "m7xxThread"}
  /\ DOMAIN Destruction = Unwinding \cup {"clearM7xx", "stop", "joinM7xx"}
  BY DEF Construction, Destruction, BeforeReading, Unwinding

\* The process starts without a node.
LEMMA InitInv == Init => Inv
<1> SUFFICES ASSUME Init PROVE Inv
  OBVIOUS
<1>1. TypeOK
  <2>1. load \in 0 .. (Loads + 1) /\ sem \in 0 .. MaxTokens + 1
    BY LifecycleAssumption DEF Init
  <2>2. served \subseteq Topics /\ logger \in 0 .. load
    BY DEF Init
  <2> QED
    BY <2>1, <2>2 DEF Init, TypeOK
<1>2. StopOnce
  BY LifecycleAssumption, Stages DEF Init, StopOnce
<1>3. Joined
  BY DEF Init, Joined
<1>4. OpenBetween
  BY DEF Init, OpenBetween
<1>5. ServedInOrder
  BY DEF Init, ServedInOrder
<1>6. OwnLog
  BY DEF Init, OwnLog
<1> QED
  BY <1>1, <1>2, <1>3, <1>4, <1>5, <1>6 DEF Inv

\* What each step of the constructor makes, and what an exception leaves.
LEMMA ConstructorInv == Inv /\ (Load \/ Constructor) => Inv'
<1> SUFFICES ASSUME Inv, Load \/ Constructor PROVE Inv'
  OBVIOUS
<1> USE LifecycleAssumption
  DEF Inv, TypeOK, StopOnce, Joined, OpenBetween, ServedInOrder, OwnLog, BeforeReading, Unwinding,
      Construction, Destruction, Construct, Unwind, ConstructOnly, signals, threads, port
<1>1. CASE Load
  <2>1. load' \in 0 .. (Loads + 1) /\ sem' \in 0 .. MaxTokens + 1 /\ sem' = 0
    BY <1>1 DEF Load, MayLoad
  <2> HIDE LifecycleAssumption
  <2>2. served' \subseteq Topics /\ logger' \in 0 .. load'
    BY <1>1 DEF Load, MayLoad
  <2>3. TypeOK'
    BY <1>1, <2>1, <2>2 DEF Load
  <2>4. StopOnce'
    BY <1>1, LifecycleAssumption DEF Load
  <2>5. Joined' /\ OpenBetween' /\ ServedInOrder' /\ OwnLog'
    BY <1>1 DEF Load
  <2> QED
    BY <2>3, <2>4, <2>5
<1>2. CASE OpenPort
  BY <1>2, ZenonT(60) DEF OpenPort
<1>3. CASE ConfigPort
  BY <1>3, ZenonT(60) DEF ConfigPort
<1>4. CASE SetBaudrate
  BY <1>4 DEF SetBaudrate
<1>5. CASE StartReadThread
  BY <1>5 DEF StartReadThread
<1>6. CASE CreateServices
  BY <1>6 DEF CreateServices
<1>7. CASE \E t \in Topics : RequestTopic(t)
  <2>1. CASE RequestTopic("nmea")
    BY <2>1, ZenonT(60) DEF RequestTopic, Topics
  <2>2. CASE RequestTopic("gmf")
    BY <2>2, ZenonT(60) DEF RequestTopic, Topics
  <2> QED
    BY <1>7, <2>1, <2>2 DEF Topics
<1>8. CASE Subscribe
  BY <1>8 DEF Subscribe
<1>9. CASE StartM7xxThread
  BY <1>9 DEF StartM7xxThread
<1>10. CASE RegisterLogFns
  BY <1>10 DEF RegisterLogFns
<1> QED
  BY <1>1, <1>2, <1>3, <1>4, <1>5, <1>6, <1>7, <1>8, <1>9, <1>10 DEF Constructor

\* What each step of the destructor takes down.
LEMMA DestructorInv == Inv /\ (RosShutdown \/ Unload \/ Destructor) => Inv'
<1> SUFFICES ASSUME Inv, RosShutdown \/ Unload \/ Destructor PROVE Inv'
  OBVIOUS
<1> USE LifecycleAssumption
  DEF Inv, TypeOK, StopOnce, Joined, OpenBetween, ServedInOrder, OwnLog, BeforeReading, Unwinding,
      Construction, Destruction, Destroy, ConstructOnly, signals, threads, port
<1>1. CASE RosShutdown
  <2>1. /\ rosOk' = FALSE
        /\ UNCHANGED <<ros, load, stage, fd, eventFd, event, sem, stopRequested, readRunning,
                        m7xxRunning, readThread, m7xxThread, logger, served>>
    BY <1>1 DEF RosShutdown
  <2>2. TypeOK'
    BY <2>1, ZenonT(60)
  <2>3. StopOnce' /\ Joined' /\ OpenBetween' /\ ServedInOrder' /\ OwnLog'
    BY <2>1
  <2> QED
    BY <2>2, <2>3
<1>2. CASE Unload
  BY <1>2 DEF Unload
<1>3. CASE ClearM7xxRunning
  BY <1>3, ZenonT(60) DEF ClearM7xxRunning
<1>4. CASE RequestStop
  <2>1. /\ stage \in {"stop", "portStop"}
        /\ stage' = IF stage = "stop" THEN "joinM7xx" ELSE "joinRead"
        /\ UNCHANGED <<ros, rosOk, load, fd, eventFd, m7xxRunning, readThread, m7xxThread, logger, served>>
    BY <1>4 DEF RequestStop
  <2>2. stopRequested' = TRUE /\ readRunning' \in BOOLEAN /\ event' \in BOOLEAN
    BY <1>4 DEF RequestStop, StopPort
  <2>3. sem' \in 0 .. MaxTokens + 1
    BY <1>4 DEF RequestStop, StopPort
  <2> QED
    BY <2>1, <2>2, <2>3
<1>5. CASE JoinM7xx
  BY <1>5 DEF JoinM7xx
<1>6. CASE JoinRead
  BY <1>6 DEF JoinRead
<1>7. CASE ClosePort
  BY <1>7 DEF ClosePort
<1> QED
  BY <1>1, <1>2, <1>3, <1>4, <1>5, <1>6, <1>7 DEF Destructor

\* The threads only move their own places, tokens and the event.
LEMMA ThreadsInv == Inv /\ (ReadThread \/ ReadBytes \/ ReadFails \/ M7xxThread) => Inv'
<1> SUFFICES ASSUME Inv, ReadThread \/ ReadBytes \/ ReadFails \/ M7xxThread PROVE Inv'
  OBVIOUS
<1> USE LifecycleAssumption
  DEF Inv, TypeOK, StopOnce, Joined, OpenBetween, ServedInOrder, OwnLog, BeforeReading, Unwinding,
      Construction, Destruction, ThreadsOnly, port
<1>1. CASE ReadThread
  <2>1. /\ readThread \in {"check", "poll"} /\ readThread' \in {"poll", "ended"}
        /\ UNCHANGED <<ros, rosOk, load, stage, fd, eventFd, sem, stopRequested, readRunning,
                       m7xxRunning, m7xxThread, logger, served>>
    BY <1>1 DEF ReadThread, ReadCheck, ReadStopEvent
  <2>2. event' \in BOOLEAN
    BY <1>1 DEF ReadThread, ReadCheck, ReadStopEvent
  <2> QED
    BY <2>1, <2>2
<1>2. CASE ReadBytes
  BY <1>2 DEF ReadBytes
<1>3. CASE ReadFails
  BY <1>3 DEF ReadFails
<1>4. CASE M7xxThread
  BY <1>4 DEF M7xxThread, M7xxCheck, M7xxWait, M7xxWork
<1> QED
  BY <1>1, <1>2, <1>3, <1>4

\* Every step keeps the invariant.
LEMMA StepInv == Inv /\ [Next]_vars => Inv'
<1> SUFFICES ASSUME Inv, [Next]_vars PROVE Inv'
  OBVIOUS
<1>1. CASE UNCHANGED vars
  BY <1>1
  DEF vars, port, signals, threads, Inv, TypeOK, StopOnce, Joined, OpenBetween,
      ServedInOrder, OwnLog
<1>2. CASE Next
  BY <1>2, ConstructorInv, DestructorInv, ThreadsInv DEF Next
<1> QED
  BY <1>1, <1>2

\* The inductive invariant: what there is of a node at each stage of its life,
\* for complete constructors and for those that throw.
THEOREM LifecycleInvariant == Spec => []Inv
  BY InitInv, StepInv, PTL DEF Spec

\* Variables have their types; the semaphore holds one token more than bytes
\* account for although the stop is requested twice.
THEOREM TypeCorrect == Spec => []TypeOK
  BY LifecycleInvariant, PTL DEF Inv

\* No std::thread is destroyed while it is joinable.
THEOREM ThreadsJoined == Spec => []NoJoinableDestroyed
<1>1. Inv => NoJoinableDestroyed
  BY DEF Inv, Joined, Unwinding, BeforeReading, NoJoinableDestroyed
<1> QED
  BY <1>1, LifecycleInvariant, PTL

\* The device is closed whenever there is no node, however the last one ended.
THEOREM DeviceAlwaysReleased == Spec => []DeviceReleased
<1>1. Inv => DeviceReleased
  BY DEF Inv, OpenBetween, DeviceReleased
<1> QED
  BY <1>1, LifecycleInvariant, PTL

\* Threads only run on an open port, and messages are parsed only when every
\* topic has its callback.
THEOREM ThreadsUseLivePort == Spec => []UsedWhileAlive
<1>1. Inv => UsedWhileAlive
  <2> SUFFICES ASSUME Inv PROVE UsedWhileAlive
    OBVIOUS
  <2>1. readThread \in {"check", "poll"} => fd
    BY DEF Inv, Joined, OpenBetween, BeforeReading
  <2>2. m7xxThread \in {"check", "wait", "work"} => fd /\ served = Topics /\ logger = load
    BY DEF Inv, TypeOK, Joined, OpenBetween, ServedInOrder, OwnLog, OwnLog, BeforeReading, Unwinding,
           Construction, Destruction
  <2> QED
    BY <2>1, <2>2 DEF UsedWhileAlive
<1> QED
  BY <1>1, LifecycleInvariant, PTL
=============================================================================
