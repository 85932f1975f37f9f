---------------------------- MODULE DriverStart ----------------------------
(***************************************************************************)
(* The life of a node (NodeLifecycle) with the search for the rate         *)
(* (AutoBaud) in the place of its one step "baudrate", and with the port's *)
(* rate, its mode and the receiver, which outlive a node.  The receiver    *)
(* may answer when the search is over, or when the node that asked is      *)
(* gone; its power may be cycled while there is no node.                   *)
(***************************************************************************)
EXTENDS NodeLifecycle, Sequences

CONSTANTS Rates, Target, HostRates, ComRates, OtherRate,  \* as in AutoBaud
          DefaultRate  \* the rate SerialPort's constructor configures

VARIABLES pc, i, host, block, registered, code, result, dev, dealing, inbox,
          failed, prompt  \* as in AutoBaud

Search == INSTANCE AutoBaud

ASSUME StartAssumption == Search!BaudConstants /\ DefaultRate \in HostRates

locals == <<pc, i, registered, code, result, failed>>
searchVars == <<locals, host, block, dev, dealing, inbox, prompt>>
startVars == <<vars, searchVars>>

StartInit == Init /\ Search!Init

\* A new driver: its registry is empty, and the locals of its search are new.
LoadDriver ==
    /\ Load
    /\ pc' = "enter" /\ i' = 1 /\ registered' = FALSE
    /\ code' = "none" /\ result' = "none" /\ failed' = {}
    /\ UNCHANGED <<host, block, dev, dealing, inbox, prompt>>

\* open() without O_NONBLOCK; what an earlier owner did not read is gone.
Open ==
    /\ OpenPort /\ block' = TRUE /\ inbox' = << >>
    /\ UNCHANGED <<locals, host, dev, dealing, prompt>>

\* Config: the mode, the rate, then the rest of the attributes; it may fail
\* before or after the rate is set.
Config ==
    /\ ConfigPort
    /\ block' = TRUE
    /\ \/ host' = DefaultRate
       \/ stage' = "idle" /\ UNCHANGED host
    /\ UNCHANGED <<locals, dev, dealing, inbox, prompt>>

SearchStep == stage = "baudrate" /\ Search!HostStep /\ UNCHANGED vars

\* The driver's constructor goes on, or throws.
SearchEnds ==
    /\ pc = "done"
    /\ SetBaudrate
    /\ stage' = IF result = "Ok" THEN Construction["baudrate"] ELSE "portStop"
    /\ pc' = "enter" /\ i' = 1 /\ code' = "none" /\ result' = "none" /\ failed' = {}
    /\ UNCHANGED <<host, block, registered, dev, dealing, inbox, prompt>>

\* The other steps of the constructor.
ConstructRest ==
    /\ \/ StartReadThread \/ RegisterLogFns \/ CreateServices
       \/ (\E t \in Topics : RequestTopic(t)) \/ Subscribe \/ StartM7xxThread
    /\ UNCHANGED searchVars

\* read() takes the answers that arrived after the search.
ReadAnswers ==
    /\ ReadBytes
    /\ inbox' = << >>
    /\ UNCHANGED <<locals, host, block, dev, dealing, prompt>>

Receiver == Search!DeviceStep /\ UNCHANGED vars

\* The receiver starts again at the rate it keeps, or at any other.
ReceiverRestarts ==
    /\ stage = "idle"
    /\ dev' \in { Rates[n] : n \in DOMAIN Rates } \cup {OtherRate}
    /\ dealing' = << >>
    /\ UNCHANGED <<vars, locals, host, block, inbox, prompt>>

StartConstructor == Open \/ Config \/ SearchStep \/ SearchEnds \/ ConstructRest
StartDestructor == Destructor /\ UNCHANGED searchVars
StartReader == ReadThread /\ UNCHANGED searchVars
StartM7xx == M7xxThread /\ UNCHANGED searchVars
StartOther == (RosShutdown \/ Unload \/ ReadFails) /\ UNCHANGED searchVars

StartNext ==
    \/ LoadDriver \/ StartConstructor \/ StartDestructor
    \/ StartReader \/ ReadAnswers \/ StartM7xx \/ StartOther
    \/ Receiver \/ ReceiverRestarts

\* NodeLifecycle's fairness, step by step, and a prompt receiver's.
StartSpec ==
    /\ StartInit /\ [][StartNext]_startVars
    /\ WF_startVars(StartConstructor) /\ WF_startVars(StartDestructor)
    /\ WF_startVars(StartReader) /\ WF_startVars(StartM7xx)
    /\ WF_startVars(prompt /\ Receiver)

-----------------------------------------------------------------------------
\* On every way out of the search the callback with the pointer to its local
\* variable is gone, and the port blocks again unless the system refused that.
LeftClean == Search!LeftClean

\* A receiver that talks at a rate of the list, answers in time and does not
\* refuse is found, at the first node and at each later one.
ReceiverFound == Search!ReceiverFound

\* From the start of the read thread to its end both ends of the line are at
\* the rate wanted, and a read blocks: whatever failed in the search, whatever
\* an earlier node left in the port or in the receiver, and however late an
\* answer to an earlier try was read.
ReadsAtTarget ==
    readThread # "none" => host = Target /\ dev = Target /\ block

\* The search and all that surrounds it implement the life of a node in which
\* it is one step that succeeds or throws, with its fairness: the search ends.
SearchIsOneStep == Spec
=============================================================================
