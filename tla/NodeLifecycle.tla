--------------------------- MODULE NodeLifecycle ---------------------------
(***************************************************************************)
(* The life of the nodes of one process: a container loads and unloads the *)
(* ROS 2 node, one at a time, as often as it likes; main of ROS 1 makes    *)
(* one.  The constructor of the node can fail at nearly every step, after  *)
(* the read thread was started or before, and what it has made has to go   *)
(* again; the destructor takes down what a complete constructor has made.  *)
(*                                                                         *)
(* The threads are reduced to what their ends depend on (module SerialPort *)
(* has their steps): flags, the stop event and the semaphore.              *)
(***************************************************************************)
EXTENDS Integers

CONSTANTS
  Loads,      (* bound: nodes the container constructs                     *)
  MaxTokens   (* bound: tokens the read thread posts ahead                 *)

ASSUME LifecycleAssumption == Loads \in Nat /\ MaxTokens \in Nat

VARIABLES
  ros,            (* 1 or 2, which of the two programs runs                *)
  rosOk,          (* ros::ok() of ROS 1                                    *)
  load,           (* the number of nodes constructed so far                *)
  stage,          (* step of the constructor or destructor, or where the   *)
                  (* container is between them: "idle", "ready"            *)
  fd, eventFd,    (* is the device open, did eventfd() succeed             *)
  event, sem,     (* is stop_event_fd readable; read_semaphare             *)
  stopRequested, readRunning, m7xxRunning,
  readThread,     (* read_thread: "none" (not joinable) or its place       *)
  m7xxThread,     (* m7xx_thread, likewise                                 *)
  logger,         (* the node whose functions the static Log calls, or 0   *)
  served          (* topics whose callback is registered                   *)

port == <<fd, eventFd>>
signals == <<event, sem, stopRequested, readRunning>>
threads == <<readThread, m7xxThread>>
vars == <<ros, rosOk, load, stage, port, signals, m7xxRunning, threads, logger, served>>

Topics == {"nmea", "gmf"}

(* Slip: the message thread is started before the subscription.            *)
ThreadFirst ==
  [open |-> "config", config |-> "baudrate", baudrate |-> "readThread",
   readThread |-> "logs", logs |-> "services", services |-> "nmea", nmea |-> "gmf",
   gmf |-> "m7xxThread", m7xxThread |-> "subscribe", subscribe |-> "ready"]

(* Init of the node, from the port to the message thread: the next step.   *)
Construction ==
  [open |-> "config", config |-> "baudrate", baudrate |-> "readThread",
   readThread |-> "logs", logs |-> "services", services |-> "nmea", nmea |-> "gmf",
   gmf |-> "subscribe", subscribe |-> "m7xxThread", m7xxThread |-> "ready"]

(* Slip: the descriptor is closed before the read thread has ended.        *)
CloseFirst ==
  [clearM7xx |-> "stop", stop |-> "joinM7xx", joinM7xx |-> "portStop",
   portStop |-> "close", close |-> "joinRead", joinRead |-> "idle"]

(* ~HuaceM7xxDriverNode: BeginShutdown and the join.  m7xx.reset() is      *)
(* ~SerialPort, which the unwinding of a constructor also reaches.         *)
Destruction ==
  [clearM7xx |-> "stop", stop |-> "joinM7xx", joinM7xx |-> "portStop",
   portStop |-> "joinRead", joinRead |-> "close", close |-> "idle"]

Construct(s) == stage = s /\ stage' = Construction[s]
Destroy(s) == stage = s /\ stage' = Destruction[s]

(* An exception in a constructor that has a SerialPort to destroy.         *)
Unwind(s) == stage = s /\ stage' = "portStop"

Init ==
  /\ ros \in {1, 2} /\ rosOk = TRUE /\ load = 0 /\ stage = "idle"
  /\ fd = FALSE /\ eventFd = FALSE /\ event = FALSE /\ sem = 0
  /\ stopRequested = FALSE /\ readRunning = FALSE /\ m7xxRunning = FALSE
  /\ readThread = "none" /\ m7xxThread = "none"
  /\ logger = 0 /\ served = {}

-----------------------------------------------------------------------------
(* The constructor.                                                        *)
ConstructOnly == UNCHANGED <<ros, rosOk, load>>

(* main of ROS 1 constructs one node, a container as many as it is told.   *)
MayLoad == load < (IF ros = 1 THEN 1 ELSE Loads)

(* A new node: its members, the semaphore and the event of its port.       *)
Load ==
  /\ stage = "idle" /\ MayLoad
  /\ load' = load + 1 /\ stage' = "open"
  /\ eventFd' \in BOOLEAN /\ event' = FALSE /\ sem' = 0
  /\ stopRequested' = FALSE /\ readRunning' = FALSE /\ m7xxRunning' = FALSE
  /\ served' = {}
  /\ UNCHANGED <<ros, rosOk, fd, threads, logger>>

(* SerialPort's constructor throws: no destructor will close the device.   *)
OpenPort ==
  /\ \/ Construct("open") /\ fd' = TRUE
     \/ stage = "open" /\ stage' = "idle" /\ UNCHANGED fd
  /\ UNCHANGED <<eventFd, signals, m7xxRunning, threads, logger, served>> /\ ConstructOnly

(* Slip: the constructor leaves the close to the destructor.               *)
ConfigLeavesOpen ==
  /\ \/ Construct("config") /\ UNCHANGED fd
     \/ stage = "config" /\ stage' = "idle" /\ UNCHANGED fd
  /\ UNCHANGED <<eventFd, signals, m7xxRunning, threads, logger, served>> /\ ConstructOnly

ConfigPort ==
  /\ \/ Construct("config") /\ UNCHANGED fd
     \/ stage = "config" /\ stage' = "idle" /\ fd' = FALSE
  /\ UNCHANGED <<eventFd, signals, m7xxRunning, threads, logger, served>> /\ ConstructOnly

(* AutoSetBaudrate fails and the driver's constructor throws.              *)
SetBaudrate ==
  /\ Construct("baudrate") \/ Unwind("baudrate")
  /\ UNCHANGED <<port, signals, m7xxRunning, threads, logger, served>> /\ ConstructOnly

(* std::thread may throw, after the flags were set.                        *)
StartReadThread ==
  /\ stopRequested' = FALSE /\ readRunning' = TRUE
  /\ \/ Construct("readThread") /\ readThread' = "check"
     \/ Unwind("readThread") /\ UNCHANGED readThread
  /\ UNCHANGED <<port, event, sem, m7xxRunning, m7xxThread, logger, served>> /\ ConstructOnly

(* The six functions of the static Log, which nothing takes away again:    *)
(* until the next node comes here, its port and its driver log through     *)
(* what the last one left.                                                 *)
RegisterLogFns ==
  /\ Construct("logs")
  /\ logger' = load
  /\ UNCHANGED <<port, signals, m7xxRunning, threads, served>> /\ ConstructOnly

CreateServices ==
  /\ Construct("services") \/ Unwind("services")
  /\ UNCHANGED <<port, signals, m7xxRunning, threads, logger, served>> /\ ConstructOnly

(* Publisher, callback and request of a topic: create_publisher may throw, *)
(* what the request comes to is left to module NodeCommands.               *)
RequestTopic(t) ==
  /\ \/ Construct(t) /\ served' = served \cup {t}
     \/ Unwind(t) /\ UNCHANGED served
  /\ UNCHANGED <<port, signals, m7xxRunning, threads, logger>> /\ ConstructOnly

Subscribe ==
  /\ Construct("subscribe") \/ Unwind("subscribe")
  /\ UNCHANGED <<port, signals, m7xxRunning, threads, logger, served>> /\ ConstructOnly

StartM7xxThread ==
  /\ m7xxRunning' = TRUE
  /\ \/ Construct("m7xxThread") /\ m7xxThread' = "check"
     \/ Unwind("m7xxThread") /\ UNCHANGED m7xxThread
  /\ UNCHANGED <<port, signals, readThread, logger, served>> /\ ConstructOnly

-----------------------------------------------------------------------------
(* The destructor, and the part of it that also unwinds a constructor.     *)

(* A signal, at any time, ends ros::spin of ROS 1, and its message thread  *)
(* looks for it.                                                           *)
RosShutdown ==
  /\ ros = 1 /\ rosOk
  /\ rosOk' = FALSE
  /\ UNCHANGED <<ros, load, stage, port, signals, m7xxRunning, threads, logger, served>>

(* ROS 2: spin has returned, or the container unloads the node.            *)
Unload ==
  /\ stage = "ready" /\ (ros = 1 => ~rosOk)
  /\ stage' = "clearM7xx"
  /\ UNCHANGED <<port, signals, m7xxRunning, threads, logger, served>> /\ ConstructOnly

ClearM7xxRunning ==
  /\ Destroy("clearM7xx")
  /\ m7xxRunning' = FALSE
  /\ UNCHANGED <<port, signals, threads, logger, served>> /\ ConstructOnly

(* Slip: no token for the message thread.                                  *)
StopReadOnly ==
  /\ stopRequested' = TRUE
  /\ IF stopRequested
     THEN UNCHANGED <<readRunning, event, sem>>
     ELSE readRunning' = FALSE /\ event' = (event \/ eventFd) /\ UNCHANGED sem

StopPort ==
  /\ stopRequested' = TRUE
  /\ IF stopRequested
     THEN UNCHANGED <<readRunning, event, sem>>
     ELSE readRunning' = FALSE /\ event' = (event \/ eventFd) /\ sem' = sem + 1

(* BeginShutdown calls it, and ~SerialPort again.                          *)
RequestStop ==
  /\ Destroy("stop") \/ Destroy("portStop")
  /\ StopPort
  /\ UNCHANGED <<port, m7xxRunning, threads, logger, served>> /\ ConstructOnly

JoinM7xx ==
  /\ Destroy("joinM7xx")
  /\ m7xxThread = "ended" /\ m7xxThread' = "none"
  /\ UNCHANGED <<port, signals, m7xxRunning, readThread, logger, served>> /\ ConstructOnly

(* Only a thread that was started is joinable.                             *)
JoinRead ==
  /\ Destroy("joinRead")
  /\ readThread \in {"none", "ended"} /\ readThread' = "none"
  /\ UNCHANGED <<port, signals, m7xxRunning, m7xxThread, logger, served>> /\ ConstructOnly

ClosePort ==
  /\ Destroy("close")
  /\ fd' = FALSE /\ eventFd' = FALSE
  /\ UNCHANGED <<signals, m7xxRunning, threads, logger, served>> /\ ConstructOnly

-----------------------------------------------------------------------------
(* The threads.                                                            *)
ThreadsOnly == UNCHANGED <<ros, rosOk, load, stage, port, readRunning, m7xxRunning, logger, served>>

ReadCheck ==
  /\ readThread = "check"
  /\ readThread' = IF readRunning /\ ~stopRequested THEN "poll" ELSE "ended"
  /\ UNCHANGED <<event, sem, stopRequested, m7xxThread>> /\ ThreadsOnly

ReadStopEvent ==
  /\ readThread = "poll" /\ event
  /\ event' = FALSE /\ readThread' = "ended"
  /\ UNCHANGED <<sem, stopRequested, m7xxThread>> /\ ThreadsOnly

(* Bytes, and a token for them.                                            *)
ReadBytes ==
  /\ readThread = "poll" /\ sem < MaxTokens
  /\ sem' = sem + 1 /\ readThread' = "check"
  /\ UNCHANGED <<event, stopRequested, m7xxThread>> /\ ThreadsOnly

(* poll or read fails: the thread ends and the node goes on.               *)
ReadFails ==
  /\ readThread = "poll"
  /\ readThread' = "ended"
  /\ UNCHANGED <<event, sem, stopRequested, m7xxThread>> /\ ThreadsOnly

M7xxCheck ==
  /\ m7xxThread = "check"
  /\ m7xxThread' = IF m7xxRunning /\ rosOk THEN "wait" ELSE "ended"
  /\ UNCHANGED <<event, sem, stopRequested, readThread>> /\ ThreadsOnly

M7xxWait ==
  /\ m7xxThread = "wait" /\ sem > 0
  /\ sem' = sem - 1 /\ m7xxThread' = "work"
  /\ UNCHANGED <<event, stopRequested, readThread>> /\ ThreadsOnly

(* ProcessMessages parses and runs the callbacks.                          *)
M7xxWork ==
  /\ m7xxThread = "work"
  /\ m7xxThread' = "check"
  /\ UNCHANGED <<event, sem, stopRequested, readThread>> /\ ThreadsOnly

-----------------------------------------------------------------------------
Constructor ==
  \/ OpenPort \/ ConfigPort \/ SetBaudrate \/ StartReadThread \/ RegisterLogFns
  \/ CreateServices \/ (\E t \in Topics : RequestTopic(t)) \/ Subscribe \/ StartM7xxThread

Destructor ==
  \/ ClearM7xxRunning \/ RequestStop \/ JoinM7xx \/ JoinRead \/ ClosePort

ReadThread == ReadCheck \/ ReadStopEvent
M7xxThread == M7xxCheck \/ M7xxWait \/ M7xxWork

Next ==
  \/ Load \/ Constructor
  \/ RosShutdown \/ Unload \/ Destructor
  \/ ReadThread \/ ReadBytes \/ ReadFails \/ M7xxThread

(* Threads run; nobody has to load or unload, no device has to send.       *)
Spec ==
  /\ Init /\ [][Next]_vars
  /\ WF_vars(Constructor) /\ WF_vars(Destructor)
  /\ WF_vars(ReadThread) /\ WF_vars(M7xxThread)

-----------------------------------------------------------------------------
(* The variables stay in their ranges; the semaphore counts the bytes'     *)
(* tokens and one of the stop, which is requested by BeginShutdown and     *)
(* again by ~SerialPort.                                                   *)
TypeOK ==
  /\ ros \in {1, 2} /\ rosOk \in BOOLEAN /\ load \in 0 .. (Loads + 1)
  /\ stage \in {"idle", "ready"} \cup DOMAIN Construction \cup DOMAIN Destruction
  /\ fd \in BOOLEAN /\ eventFd \in BOOLEAN /\ event \in BOOLEAN
  /\ sem \in 0 .. MaxTokens + 1
  /\ stopRequested \in BOOLEAN /\ readRunning \in BOOLEAN /\ m7xxRunning \in BOOLEAN
  /\ readThread \in {"none", "check", "poll", "ended"}
  /\ m7xxThread \in {"none", "check", "wait", "work", "ended"}
  /\ logger \in 0 .. load /\ served \subseteq Topics

(* A std::thread that is destroyed while it is joinable ends the process:  *)
(* the message thread's goes first when a constructor is unwound, the read *)
(* thread's with the port, and a node that is gone has none.               *)
NoJoinableDestroyed ==
  /\ stage \in {"portStop", "joinRead", "close"} => m7xxThread = "none"
  /\ stage \in {"idle", "close"} => readThread = "none" /\ m7xxThread = "none"

(* However a node ends - a constructor that throws at any step included -  *)
(* the device is closed, so that the next node can have it.                *)
DeviceReleased == stage = "idle" => ~fd

(* A thread runs only on a port that is open, and messages are only parsed *)
(* when every topic has its callback and the log functions are those of    *)
(* the node that parses.                                                   *)
UsedWhileAlive ==
  /\ readThread \in {"check", "poll"} => fd
  /\ m7xxThread \in {"check", "wait", "work"} => fd /\ served = Topics /\ logger = load

(* A destructor that has begun ends, and so does the unwinding of a        *)
(* constructor, whatever the threads are doing.  Only one thing can hold   *)
(* it up: a poll without a timeout that no device ends, when eventfd()     *)
(* had failed and there is no stop event.                                  *)
NodeEnds ==
  stage \in DOMAIN Destruction ~>
    (stage = "idle" \/ (readThread = "poll" /\ ~eventFd))
=============================================================================
