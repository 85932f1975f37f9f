------------------------- MODULE DriverStart_proofs -------------------------
(***************************************************************************)
(* Proofs about module DriverStart for any rates, loads and tokens.        *)
(*                                                                         *)
(* The search is one step of the node's life as far as its safety goes, so *)
(* that what NodeLifecycle_proofs proves of a node holds here.  StartInv   *)
(* then follows an answer: an OK is under way, read or remembered only     *)
(* while the receiver is at the rate wanted, the host listens at that rate *)
(* when it judges, and the read thread is not started otherwise.  HeardInv *)
(* follows a receiver that was not heard yet: it is at no rate that the    *)
(* search has been through, so that a list with every rate a receiver may  *)
(* have ends with it found.                                                *)
(***************************************************************************)
EXTENDS DriverStart, NodeLifecycle_proofs

\* The search is under way at one stage of the constructor only.
SearchesInTurn ==
    /\ stage # "baudrate" => pc = "enter"
    /\ pc = "enter" => code = "none" /\ result = "none"

\* Who has the pointer to the local variable, and how the port reads.
CleanBehind ==
    /\ pc \in {"enter", "register", "restore", "leave", "done"} => ~registered
    /\ pc = "done" /\ "block" \notin failed => block

\* An OK, wherever it is, says that the receiver is at the rate wanted.  What
\* an earlier node did not read is not asked: the next one does not read it.
OkIsTrue ==
    /\ code = "OK" => dev = Target
    /\ \A n \in DOMAIN dealing : dealing[n].state = "OK" => dev = Target
    /\ stage \notin {"idle", "open"} =>
           \A n \in DOMAIN inbox : inbox[n] = "OK" => dev = Target

\* What the host is listening at when it judges, and what Ok says.
JudgesAtTarget ==
    /\ pc \in {"read", "judge", "unregister", "leave"} => host = Target
    /\ result = "Ok" => pc = "done" /\ host = Target /\ block /\ code = "OK"

\* From the end of the search to the end of the read thread.
Arrived ==
    stage = "readThread" \/ readThread # "none" => host = Target /\ dev = Target /\ block

SearchInv ==
    /\ Search!TypeOK /\ SearchesInTurn /\ CleanBehind /\ OkIsTrue /\ JudgesAtTarget /\ Arrived

\* How many rates of the list have been tried, and what the search did with
\* its last one.  Without a failure it ends with an OK or at the list's end.
Tried == IF pc \in {"enter", "register", "try", "send"} THEN i - 1 ELSE i

InOrder ==
    /\ pc \in {"enter", "register"} => i = 1
    /\ pc = "send" => host = Rates[i]
    /\ pc \in {"unregister", "leave"} => code = "OK" \/ i = Len(Rates)
    /\ pc = "restore" => failed # {}
    /\ pc = "done" /\ failed = {} =>
          (code = "OK" \/ i = Len(Rates)) /\ (code = "OK" => result = "Ok")

\* The receiver is at a rate of the list or at none of them, if the rate
\* wanted is one of the list.
AtListedRate == dev \in { Rates[n] : n \in DOMAIN Rates } \cup {OtherRate}

\* If nothing failed, a prompt receiver from which no code has come has a
\* command to answer, or its answer has not been read, or it was at none of the
\* rates tried; when the search judges, nothing is under way.
NoneIsUnheard ==
    prompt /\ Target \in ComRates /\ failed = {} /\ code = "none" =>
      /\ dealing # << >> \/ inbox # << >> \/ \A n \in 1 .. Tried : Rates[n] # dev
      /\ pc \in {"judge", "unregister", "leave", "done"} =>
            dealing = << >> /\ inbox = << >>

HeardInv == InOrder /\ AtListedRate /\ NoneIsUnheard

-----------------------------------------------------------------------------
\* A step of the composition is a step of the node's life, or none of it.
LEMMA StepIsNodeStep == [StartNext]_startVars => [Next]_vars
<1> SUFFICES ASSUME [StartNext]_startVars PROVE [Next]_vars
  OBVIOUS
<1>1. CASE LoadDriver
  BY <1>1 DEF LoadDriver, Next
<1>2. CASE StartConstructor
  <2>1. CASE SearchStep
    BY <2>1 DEF SearchStep
  <2>2. CASE Open \/ Config \/ SearchEnds \/ ConstructRest
    BY <2>2 DEF Open, Config, SearchEnds, ConstructRest, Constructor, Next
  <2> QED
    BY <1>2, <2>1, <2>2 DEF StartConstructor
<1>3. CASE StartDestructor
  BY <1>3 DEF StartDestructor, Next
<1>4. CASE StartReader \/ ReadAnswers \/ StartM7xx \/ StartOther
  BY <1>4 DEF StartReader, ReadAnswers, StartM7xx, StartOther, Next
<1>5. CASE Receiver \/ ReceiverRestarts
  BY <1>5 DEF Receiver, ReceiverRestarts
<1>6. CASE UNCHANGED startVars
  BY <1>6 DEF startVars
<1> QED
  BY <1>1, <1>2, <1>3, <1>4, <1>5, <1>6 DEF StartNext

\* The driver starts as a node does, and its search not yet begun.
LEMMA StartsAsSearch == StartInit => Init /\ SearchInv
<1> SUFFICES ASSUME StartInit PROVE Init /\ SearchInv
  OBVIOUS
<1>1. Init /\ Search!Init
  BY DEF StartInit
<1>2. Search!TypeOK
  <2>1. 1 \in 1 .. Len(Rates) /\ (\A n \in DOMAIN Rates : Rates[n] \in HostRates)
    BY StartAssumption DEF Search!BaudConstants
  <2>2. dev \in HostRates \cup {OtherRate, Target}
    BY <1>1, <2>1 DEF Search!Init, Search!ToSet
  <2>3. /\ << >> \in Seq([state : {"new", "OK", "REFUSED"}, at : Search!AllRates])
        /\ << >> \in Seq({"OK", "REFUSED"})
    OBVIOUS
  <2>4. block = TRUE /\ registered = FALSE /\ dealing = << >> /\ inbox = << >>
    BY <1>1 DEF Search!Init
  <2> QED
    BY <1>1, <2>1, <2>2, <2>3, <2>4 DEF Search!Init, Search!TypeOK, Search!AllRates
<1>3. SearchesInTurn /\ CleanBehind /\ OkIsTrue /\ JudgesAtTarget /\ Arrived
  BY <1>1 DEF Init, Search!Init, SearchesInTurn, CleanBehind, OkIsTrue, JudgesAtTarget, Arrived
<1> QED
  BY <1>1, <1>2, <1>3 DEF SearchInv

-----------------------------------------------------------------------------
\* A step of the search: its variables, while the node's stand still.
LEMMA SearchStepInv == Inv /\ SearchInv /\ SearchStep => SearchInv'
<1> SUFFICES ASSUME Inv, SearchInv, SearchStep PROVE SearchInv'
  OBVIOUS
<1>1. stage = "baudrate" /\ stage' = stage /\ readThread' = readThread
  BY DEF SearchStep, vars, threads
<1>2. readThread = "none"
  BY <1>1 DEF Inv, Joined, BeforeReading
<1>3. Arrived'
  BY <1>1, <1>2 DEF Arrived
<1> USE DEF SearchInv, Search!TypeOK, SearchesInTurn, CleanBehind, OkIsTrue, JudgesAtTarget,
     Search!port, Search!device, Search!AllRates
<1>4. CASE Search!Enter
  BY <1>1, <1>3, <1>4 DEF Search!Enter, Search!SetBlockMode, Search!SetBlockModeFails, Search!Fails
<1>5. CASE Search!Register \/ Search!Unregister
  BY <1>1, <1>3, <1>5 DEF Search!Register, Search!Unregister
<1>6. CASE Search!Try \/ Search!Listen
  BY <1>1, <1>3, <1>6 DEF Search!Try, Search!Listen, Search!SetBaudRate
<1>7. ASSUME NEW p \in {"try", "sleep"}, NEW r, Search!GiveUp(p, r) PROVE SearchInv'
  BY <1>1, <1>3, <1>7 DEF Search!GiveUp, Search!SetBaudRateFails, Search!Fails
<1>8. CASE Search!Restore
  BY <1>1, <1>3, <1>8 DEF Search!Restore, Search!RestoreBlockMode, Search!SetBlockMode,
     Search!SetBlockModeFails, Search!Fails
<1>9. CASE Search!Send
  <2>1. dealing' \in Seq([state : {"new", "OK", "REFUSED"}, at : Search!AllRates])
    <3> DEFINE Commands == [state : {"new", "OK", "REFUSED"}, at : Search!AllRates]
               command == [state |-> "new", at |-> dev]
    <3>1. command \in Commands /\ dealing \in Seq(Commands)
      OBVIOUS
    <3>2. dealing' = Append(dealing, command) \/ dealing' = dealing
      BY <1>9 DEF Search!Send
    <3> HIDE DEF Commands, command
    <3>3. dealing' \in Seq(Commands)
      BY <3>1, <3>2
    <3> QED
      BY <3>3 DEF Commands
  <2>2. \A n \in DOMAIN dealing' : dealing'[n].state = "OK" => dev = Target
    BY <1>9 DEF Search!Send
  <2>3. /\ pc = "send" /\ pc' = "sleep"
        /\ UNCHANGED <<i, host, block, registered, code, result, dev, inbox, failed, prompt>>
    BY <1>9 DEF Search!Send
  <2> QED
    BY <1>1, <1>3, <2>1, <2>2, <2>3
<1>10. CASE Search!Read
  BY <1>1, <1>3, <1>10 DEF Search!Read, Search!Last
<1>11. CASE Search!Judge
  BY <1>1, <1>3, <1>11 DEF Search!Judge, Search!EndsSearch, Search!MoreRates
<1>12. CASE Search!Leave
  BY <1>1, <1>3, <1>12 DEF Search!Leave, Search!SetBlockMode, Search!SetBlockModeFails,
     Search!Fails, Search!Verdict, Search!EndsSearch
<1> QED
  BY <1>4, <1>5, <1>6, <1>7, <1>8, <1>9, <1>10, <1>11, <1>12 DEF SearchStep, Search!HostStep

\* A step of the receiver: an OK is an answer to a rate that was taken.
LEMMA ReceiverInv == Inv /\ SearchInv /\ Receiver => SearchInv'
<1> SUFFICES ASSUME Inv, SearchInv, Receiver PROVE SearchInv'
  OBVIOUS
<1> DEFINE Commands == [state : {"new", "OK", "REFUSED"}, at : Search!AllRates]
<1>1. stage' = stage /\ readThread' = readThread
  BY DEF Receiver, vars, threads
<1>2. dealing \in Seq(Commands) /\ inbox \in Seq({"OK", "REFUSED"})
  BY DEF SearchInv, Search!TypeOK
<1>3. /\ UNCHANGED <<pc, i, host, block, registered, code, result, failed, prompt>>
      /\ dev' \in Search!AllRates /\ (dev = Target => dev' = Target)
      /\ dealing' \in Seq(Commands) /\ inbox' \in Seq({"OK", "REFUSED"})
      /\ \A n \in DOMAIN dealing' : dealing'[n].state = "OK" => dev' = Target
      /\ stage \notin {"idle", "open"} =>
             \A n \in DOMAIN inbox' : inbox'[n] = "OK" => dev' = Target
  <2>1. CASE Search!Configure
    <3>1. /\ UNCHANGED <<pc, i, host, block, registered, code, result, failed, prompt, inbox>>
      BY <2>1 DEF Search!Configure, Search!port
    <3>2. PICK answer \in {"OK", "REFUSED"} :
            /\ dealing' = [dealing EXCEPT ![1].state = answer]
            /\ dev' = IF answer = "OK" THEN Target ELSE dev
      BY <2>1 DEF Search!Configure
    <3>3. dealing # << >>
      BY <2>1 DEF Search!Configure
    <3>4. dev' \in Search!AllRates /\ (dev = Target => dev' = Target)
      BY <3>2 DEF SearchInv, Search!TypeOK, Search!AllRates
    <3>5. dealing' \in Seq(Commands)
      <4>1. 1 \in DOMAIN dealing /\ dealing[1] \in Commands
        <5> HIDE DEF Commands
        <5> QED
          BY <1>2, <3>3
      <4> DEFINE dealt == [dealing[1] EXCEPT !.state = answer]
      <4>2. dealt \in Commands /\ dealing' = [dealing EXCEPT ![1] = dealt]
        BY <3>2, <4>1
      <4> HIDE DEF Commands, dealt
      <4> QED
        BY <1>2, <4>1, <4>2
    <3>6. \A n \in DOMAIN dealing' : dealing'[n].state = "OK" => dev' = Target
      BY <1>2, <3>2, <3>3 DEF SearchInv, OkIsTrue
    <3> QED
      BY <1>2, <3>1, <3>4, <3>5, <3>6 DEF SearchInv, OkIsTrue
  <2>2. CASE Search!Answer
    <3>1. /\ UNCHANGED <<pc, i, host, block, registered, code, result, dev, failed, prompt>>
          /\ dealing # << >> /\ Head(dealing).state # "new" /\ dealing' = Tail(dealing)
          /\ inbox' = inbox \/ inbox' = Append(inbox, Head(dealing).state)
      BY <2>2 DEF Search!Answer, Search!port
    <3>2. /\ Head(dealing) = dealing[1] /\ 1 \in DOMAIN dealing
          /\ Head(dealing).state \in {"OK", "REFUSED"}
      <4>1. Head(dealing) = dealing[1] /\ 1 \in DOMAIN dealing /\ dealing[1] \in Commands
        <5> HIDE DEF Commands
        <5> QED
          BY <1>2, <3>1
      <4> QED
        BY <3>1, <4>1
    <3>3. dealing' \in Seq(Commands) /\ inbox' \in Seq({"OK", "REFUSED"})
      <4>1. dealing' \in Seq(Commands)
        <5> HIDE DEF Commands
        <5> QED
          BY <1>2, <3>1
      <4> QED
        BY <1>2, <3>1, <3>2, <4>1
    <3>4. \A n \in DOMAIN dealing' : n + 1 \in DOMAIN dealing /\ dealing'[n] = dealing[n + 1]
      BY <1>2, <3>1
    <3>5. Head(dealing).state = "OK" => dev = Target
      BY <3>2 DEF SearchInv, OkIsTrue
    <3>6. stage \notin {"idle", "open"} =>
             \A n \in DOMAIN inbox' : inbox'[n] = "OK" => dev = Target
      <4>1. CASE inbox' = inbox
        BY <4>1 DEF SearchInv, OkIsTrue
      <4>2. CASE inbox' = Append(inbox, Head(dealing).state)
        <5>1. \A n \in DOMAIN inbox' :
                 \/ n \in DOMAIN inbox /\ inbox'[n] = inbox[n]
                 \/ inbox'[n] = Head(dealing).state
          BY <1>2, <3>2, <4>2
        <5> QED
          BY <3>5, <5>1 DEF SearchInv, OkIsTrue
      <4> QED
        BY <3>1, <4>1, <4>2
    <3>7. \A n \in DOMAIN dealing' : dealing'[n].state = "OK" => dev = Target
      BY <3>4 DEF SearchInv, OkIsTrue
    <3>8. dev \in Search!AllRates
      BY DEF SearchInv, Search!TypeOK
    <3> QED
      BY <3>1, <3>3, <3>6, <3>7, <3>8
  <2> QED
    BY <2>1, <2>2 DEF Receiver, Search!DeviceStep
<1> HIDE DEF Commands
<1>4. Search!TypeOK'
  BY <1>3 DEF SearchInv, Search!TypeOK, Commands
<1>5. SearchesInTurn' /\ CleanBehind' /\ OkIsTrue' /\ JudgesAtTarget' /\ Arrived'
  BY <1>1, <1>3 DEF SearchInv, SearchesInTurn, CleanBehind, OkIsTrue, JudgesAtTarget, Arrived
<1> QED
  BY <1>4, <1>5 DEF SearchInv

\* The receiver is switched off while there is no node, and no read thread.
LEMMA RestartInv == Inv /\ SearchInv /\ ReceiverRestarts => SearchInv'
<1> SUFFICES ASSUME Inv, SearchInv, ReceiverRestarts PROVE SearchInv'
  OBVIOUS
<1>1. /\ stage = "idle" /\ stage' = stage /\ readThread' = readThread /\ dealing' = << >>
      /\ UNCHANGED <<pc, i, host, block, registered, code, result, failed, prompt, inbox>>
  BY DEF ReceiverRestarts, vars, threads, locals
<1>2. readThread = "none" /\ pc = "enter" /\ code = "none" /\ result = "none"
  BY <1>1 DEF Inv, Joined, SearchInv, SearchesInTurn
<1>3. dev' \in Search!AllRates
  <2>1. \A n \in DOMAIN Rates : Rates[n] \in HostRates
    BY StartAssumption DEF Search!BaudConstants
  <2> QED
    BY <2>1 DEF ReceiverRestarts, Search!AllRates
<1>4. dealing' \in Seq([state : {"new", "OK", "REFUSED"}, at : Search!AllRates])
  BY <1>1
<1>5. Search!TypeOK'
  BY <1>1, <1>3, <1>4 DEF SearchInv, Search!TypeOK
<1> QED
  BY <1>1, <1>2, <1>5
     DEF SearchInv, SearchesInTurn, CleanBehind, OkIsTrue, JudgesAtTarget, Arrived

\* The constructor but for the search, and the next one: an older answer is
\* not read, and the read thread is started by who is at the rate wanted.
LEMMA ConstructorSearchInv ==
  Inv /\ SearchInv /\ (LoadDriver \/ Open \/ Config \/ SearchEnds \/ ConstructRest) => SearchInv'
<1> SUFFICES ASSUME Inv, SearchInv, LoadDriver \/ Open \/ Config \/ SearchEnds \/ ConstructRest
             PROVE  SearchInv'
  OBVIOUS
<1> USE DEF SearchInv, SearchesInTurn, CleanBehind, OkIsTrue, JudgesAtTarget, Arrived, locals
<1>0. 1 \in 1 .. Len(Rates)
  BY StartAssumption DEF Search!BaudConstants
<1>1. CASE LoadDriver
  <2>1. /\ stage = "idle" /\ stage' = "open" /\ readThread' = readThread
        /\ pc' = "enter" /\ i' = 1 /\ registered' = FALSE
        /\ code' = "none" /\ result' = "none" /\ failed' = {}
        /\ UNCHANGED <<host, block, dev, dealing, inbox, prompt>>
    BY <1>1 DEF LoadDriver, Load, threads
  <2>2. readThread = "none"
    BY <2>1 DEF Inv, Joined
  <2>3. Search!TypeOK'
    BY <1>0, <2>1 DEF Search!TypeOK
  <2> QED
    BY <2>1, <2>2, <2>3
<1>2. CASE Open
  <2>1. /\ stage = "open" /\ stage' \in {"config", "idle"} /\ readThread' = readThread
        /\ block' = TRUE /\ inbox' = << >>
        /\ UNCHANGED <<pc, i, registered, code, result, failed, host, dev, dealing, prompt>>
    BY <1>2 DEF Open, OpenPort, Construct, Construction, threads
  <2>2. readThread = "none"
    BY <2>1 DEF Inv, Joined, BeforeReading
  <2>3. Search!TypeOK'
    BY <2>1 DEF Search!TypeOK
  <2> QED
    BY <2>1, <2>2, <2>3
<1>3. CASE Config
  <2>1. /\ stage = "config" /\ stage' \in {"baudrate", "idle"} /\ readThread' = readThread
        /\ block' = TRUE /\ host' \in {host, DefaultRate}
        /\ UNCHANGED <<pc, i, registered, code, result, failed, dev, dealing, inbox, prompt>>
    BY <1>3 DEF Config, ConfigPort, Construct, Construction, threads
  <2>2. readThread = "none" /\ pc = "enter"
    BY <2>1 DEF Inv, Joined, BeforeReading
  <2>3. Search!TypeOK'
    BY <2>1, StartAssumption DEF Search!TypeOK
  <2> QED
    BY <2>1, <2>2, <2>3
<1>4. CASE SearchEnds
  <2>1. /\ stage = "baudrate" /\ readThread' = readThread /\ pc = "done"
        /\ stage' = (IF result = "Ok" THEN "readThread" ELSE "portStop")
        /\ pc' = "enter" /\ i' = 1 /\ code' = "none" /\ result' = "none" /\ failed' = {}
        /\ UNCHANGED <<host, block, registered, dev, dealing, inbox, prompt>>
    BY <1>4 DEF SearchEnds, SetBaudrate, Construct, Unwind, Construction, threads
  <2>2. readThread = "none"
    BY <2>1 DEF Inv, Joined, BeforeReading
  <2>3. Search!TypeOK'
    BY <1>0, <2>1 DEF Search!TypeOK
  <2> QED
    BY <2>1, <2>2, <2>3
<1>5. CASE ConstructRest
  <2>1. UNCHANGED <<pc, i, registered, code, result, failed, host, block, dev, dealing, inbox, prompt>>
    BY <1>5 DEF ConstructRest, searchVars
  <2>2. /\ stage \notin {"idle", "open", "baudrate"}
        /\ stage' \notin {"idle", "open", "baudrate", "readThread"}
        /\ readThread' # "none" => stage = "readThread" \/ readThread # "none"
    BY <1>5 DEF ConstructRest, StartReadThread, RegisterLogFns, CreateServices, RequestTopic,
       Topics, Subscribe, StartM7xxThread, Construct, Unwind, Construction, threads
  <2>3. Search!TypeOK'
    BY <2>1 DEF Search!TypeOK
  <2> QED
    BY <2>1, <2>2, <2>3
<1> QED
  BY <1>1, <1>2, <1>3, <1>4, <1>5

\* The destructor and the threads leave the search alone.
LEMMA OthersInv ==
  Inv /\ SearchInv /\ (StartDestructor \/ StartReader \/ ReadAnswers \/ StartM7xx \/ StartOther)
      => SearchInv'
<1> SUFFICES ASSUME Inv, SearchInv,
                    StartDestructor \/ StartReader \/ ReadAnswers \/ StartM7xx \/ StartOther
             PROVE  SearchInv'
  OBVIOUS
<1>1. /\ UNCHANGED <<pc, i, registered, code, result, failed, host, block, dev, dealing, prompt>>
      /\ inbox' = inbox \/ inbox' = << >>
  BY DEF StartDestructor, StartReader, ReadAnswers, StartM7xx, StartOther, searchVars, locals
<1>2. /\ stage' = "baudrate" <=> stage = "baudrate"
      /\ stage' = stage \/ (stage \notin {"idle", "open"} /\ stage' # "readThread")
      /\ readThread' # "none" => readThread # "none"
  <2> USE DEF Destroy, Destruction, threads, ThreadsOnly
  <2>1. CASE StartDestructor
    BY <2>1 DEF StartDestructor, Destructor, ClearM7xxRunning, RequestStop, JoinM7xx, JoinRead, ClosePort
  <2>2. CASE StartReader \/ ReadAnswers
    BY <2>2 DEF StartReader, ReadThread, ReadCheck, ReadStopEvent, ReadAnswers, ReadBytes
  <2>3. CASE StartM7xx
    BY <2>3 DEF StartM7xx, M7xxThread, M7xxCheck, M7xxWait, M7xxWork
  <2>4. CASE StartOther
    BY <2>4 DEF StartOther, RosShutdown, Unload, ReadFails
  <2> QED
    BY <2>1, <2>2, <2>3, <2>4
<1>3. Search!TypeOK'
  <2>1. inbox' \in Seq({"OK", "REFUSED"})
    <3>1. inbox \in Seq({"OK", "REFUSED"}) /\ << >> \in Seq({"OK", "REFUSED"})
      BY DEF SearchInv, Search!TypeOK
    <3> QED
      BY <1>1, <3>1
  <2> QED
    BY <1>1, <2>1 DEF SearchInv, Search!TypeOK
<1> QED
  BY <1>1, <1>2, <1>3
     DEF SearchInv, SearchesInTurn, CleanBehind, OkIsTrue, JudgesAtTarget, Arrived

LEMMA StartStepInv == Inv /\ SearchInv /\ [StartNext]_startVars => SearchInv'
<1> SUFFICES ASSUME Inv, SearchInv, [StartNext]_startVars PROVE SearchInv'
  OBVIOUS
<1>1. CASE UNCHANGED startVars
  BY <1>1 DEF startVars, vars, threads, searchVars, locals, SearchInv, Search!TypeOK,
     SearchesInTurn, CleanBehind, OkIsTrue, JudgesAtTarget, Arrived
<1> QED
  BY <1>1, SearchStepInv, ReceiverInv, RestartInv, ConstructorSearchInv, OthersInv
     DEF StartNext, StartConstructor

-----------------------------------------------------------------------------
\* With the search in it the node starts and goes on as module NodeLifecycle
\* says, where the search is one step that succeeds or throws.  This is the
\* part of SearchIsOneStep without the fairness.
THEOREM SearchRefinesStep == StartSpec => Init /\ [][Next]_vars
  BY StartsAsSearch, StepIsNodeStep, PTL DEF StartSpec

\* The invariants of the node and of the search hold together.
THEOREM StartInvariant == StartSpec => [](Inv /\ SearchInv)
<1>1. StartInit => Inv /\ SearchInv
  BY StartsAsSearch, InitInv
<1>2. Inv /\ SearchInv /\ [StartNext]_startVars => Inv' /\ SearchInv'
  BY StartStepInv, StepIsNodeStep, StepInv
<1> QED
  BY <1>1, <1>2, PTL DEF StartSpec

\* The search's variables have their types.
THEOREM SearchTypeCorrect == StartSpec => []Search!TypeOK
<1>1. SearchInv => Search!TypeOK
  BY DEF SearchInv
<1> QED
  BY <1>1, StartInvariant, PTL

\* On every way out of the search the callback with the pointer is gone, and
\* the port blocks unless the system refused that.
THEOREM SearchLeavesClean == StartSpec => []LeftClean
<1>1. SearchInv => LeftClean
  BY DEF SearchInv, CleanBehind, LeftClean, Search!LeftClean
<1> QED
  BY <1>1, StartInvariant, PTL

\* While there is a read thread both ends are at the rate wanted, and a read
\* blocks, whatever was answered late, to an earlier try or an earlier node.
THEOREM ReadThreadAtTarget == StartSpec => []ReadsAtTarget
<1>1. SearchInv => ReadsAtTarget
  BY DEF SearchInv, Arrived, ReadsAtTarget
<1> QED
  BY <1>1, StartInvariant, PTL

\* What NodeLifecycle_proofs has of a node, it has of one that searches: its
\* threads are joined, its device is closed, and nothing is used afterwards.
THEOREM NodeSafeWithSearch ==
  StartSpec => [](NoJoinableDestroyed /\ DeviceReleased /\ UsedWhileAlive)
<1>1. Inv => NoJoinableDestroyed /\ DeviceReleased
  BY DEF Inv, Joined, OpenBetween, Unwinding, BeforeReading, NoJoinableDestroyed, DeviceReleased
<1>2. Inv => UsedWhileAlive
  <2> SUFFICES ASSUME Inv PROVE UsedWhileAlive
    OBVIOUS
  <2>1. readThread \in {"check", "poll"} => fd
    BY DEF Inv, Joined, OpenBetween, BeforeReading
  <2>2. m7xxThread \in {"check", "wait", "work"} => fd /\ served = Topics /\ logger = load
    BY DEF Inv, TypeOK, Joined, OpenBetween, ServedInOrder, OwnLog, BeforeReading, Unwinding,
       Construction, Destruction
  <2> QED
    BY <2>1, <2>2 DEF UsedWhileAlive
<1> QED
  BY <1>1, <1>2, StartInvariant, PTL

-----------------------------------------------------------------------------
\* HeardInv, step by step.  It starts with a search that has tried nothing.
LEMMA StartsHeard == Target \in Search!ToSet(Rates) /\ StartInit => HeardInv
<1> SUFFICES ASSUME StartInit PROVE HeardInv
  OBVIOUS
<1>1. pc = "enter" /\ i = 1 /\ dev \in { Rates[n] : n \in DOMAIN Rates } \cup {OtherRate}
  BY DEF StartInit, Search!Init, Search!ToSet
<1> QED
  BY <1>1 DEF HeardInv, InOrder, AtListedRate, NoneIsUnheard, Tried

\* The receiver takes the rate wanted, and stays at a rate of the list.
LEMMA ListedStep ==
  ASSUME Target \in Search!ToSet(Rates), AtListedRate, dev' = dev \/ dev' = Target
  PROVE  AtListedRate'
  BY DEF AtListedRate, Search!ToSet

\* A step of the search moves on by one rate only when it has heard from all
\* that was sent.
LEMMA SearchStepHeard ==
  Target \in Search!ToSet(Rates) /\ Inv /\ SearchInv /\ HeardInv /\ SearchStep => HeardInv'
<1> SUFFICES ASSUME Target \in Search!ToSet(Rates), Inv, SearchInv, HeardInv, SearchStep
             PROVE  HeardInv'
  OBVIOUS
<1>1. /\ i \in 1 .. Len(Rates) /\ Len(Rates) \in Nat /\ prompt \in BOOLEAN
      /\ inbox \in Seq({"OK", "REFUSED"})
      /\ dealing \in Seq([state : {"new", "OK", "REFUSED"}, at : Search!AllRates])
      /\ \A n \in DOMAIN Rates : Rates[n] \in HostRates
  BY StartAssumption DEF SearchInv, Search!TypeOK, Search!BaudConstants
<1>2. dev' = dev /\ prompt' = prompt
  BY DEF SearchStep, Search!HostStep, Search!Enter, Search!Register, Search!Try, Search!GiveUp,
     Search!Restore, Search!Send, Search!Listen, Search!Read, Search!Judge, Search!Unregister,
     Search!Leave, Search!device
<1>3. AtListedRate'
  BY <1>2, ListedStep DEF HeardInv
<1> USE DEF HeardInv, InOrder, NoneIsUnheard, Tried, Search!port, Search!device
<1>4. CASE Search!Enter
  BY <1>1, <1>3, <1>4 DEF Search!Enter, Search!SetBlockMode, Search!SetBlockModeFails, Search!Fails
<1>5. CASE Search!Register
  BY <1>1, <1>3, <1>5 DEF Search!Register
<1>6. CASE Search!Try
  BY <1>1, <1>3, <1>6 DEF Search!Try, Search!SetBaudRate
<1>7. ASSUME NEW p \in {"try", "sleep"}, NEW r, Search!GiveUp(p, r) PROVE HeardInv'
  <2>1. failed' # {} /\ pc' = "restore" /\ i' = i
    BY <1>7 DEF Search!GiveUp, Search!SetBaudRateFails, Search!Fails
  <2> QED
    BY <1>3, <2>1
<1>8. CASE Search!Restore
  <2>1. failed # {} /\ pc' = "done" /\ (failed' = failed \/ failed' = failed \cup {"block"})
    BY <1>8 DEF Search!Restore, Search!RestoreBlockMode, Search!SetBlockMode,
       Search!SetBlockModeFails, Search!Fails
  <2> QED
    BY <1>3, <2>1
<1>9. CASE Search!Send
  <2>1. /\ pc = "send" /\ pc' = "sleep" /\ host = Rates[i]
        /\ UNCHANGED <<i, host, block, registered, code, result, dev, inbox, failed, prompt>>
    BY <1>9 DEF Search!Send
  <2>2. dealing # << >> => dealing' # << >>
    BY <1>1, <1>9 DEF Search!Send
  <2>3. Target \in ComRates /\ dev = Rates[i] => dealing' # << >>
    BY <1>1, <1>9, <2>1 DEF Search!Send
  <2>4. prompt /\ Target \in ComRates /\ failed = {} /\ code = "none" =>
           dealing' # << >> \/ inbox # << >> \/ \A n \in 1 .. i : Rates[n] # dev
    <3> SUFFICES ASSUME prompt, Target \in ComRates, failed = {}, code = "none",
                        dealing' = << >>, inbox = << >>
                 PROVE  \A n \in 1 .. i : Rates[n] # dev
      OBVIOUS
    <3>1. \A n \in 1 .. i - 1 : Rates[n] # dev
      BY <2>1, <2>2
    <3>2. Rates[i] # dev
      BY <2>3
    <3> QED
      BY <1>1, <3>1, <3>2
  <2> QED
    BY <1>3, <2>1, <2>4
<1>10. CASE Search!Listen
  BY <1>1, <1>3, <1>10 DEF Search!Listen, Search!SetBaudRate
<1>11. CASE Search!Read
  <2>1. /\ pc = "read" /\ pc' = "judge" /\ (prompt => dealing = << >>) /\ inbox' = << >>
        /\ code' = (IF inbox = << >> THEN code ELSE Search!Last(inbox))
        /\ UNCHANGED <<i, host, block, registered, result, dev, dealing, failed, prompt>>
    BY <1>11 DEF Search!Read
  <2>2. code' = "none" => inbox = << >> /\ code = "none"
    BY <1>1, <2>1 DEF Search!Last
  <2> QED
    BY <1>1, <1>3, <2>1, <2>2
<1>12. CASE Search!Judge
  <2>1. CASE i' = i + 1 /\ pc' = "try"
    <3>1. /\ UNCHANGED <<code, result, host, dev, dealing, inbox, failed, prompt>> /\ pc = "judge"
      BY <1>12 DEF Search!Judge
    <3>2. i' - 1 = i
      BY <1>1, <2>1
    <3> QED
      BY <1>3, <2>1, <3>1, <3>2
  <2>2. CASE i' = i /\ pc' = "unregister" /\ (Search!EndsSearch \/ ~Search!MoreRates)
    <3>1. /\ UNCHANGED <<code, result, host, dev, dealing, inbox, failed, prompt>> /\ pc = "judge"
      BY <1>12 DEF Search!Judge
    <3>2. code = "OK" \/ i = Len(Rates)
      BY <1>1, <2>2 DEF Search!EndsSearch, Search!MoreRates
    <3>3. Len(Rates)' = Len(Rates)
      OBVIOUS
    <3> QED
      BY <1>3, <2>2, <3>1, <3>2
  <2> QED
    BY <1>12, <2>1, <2>2 DEF Search!Judge
<1>13. CASE Search!Unregister
  BY <1>1, <1>3, <1>13 DEF Search!Unregister
<1>14. CASE Search!Leave
  BY <1>1, <1>3, <1>14 DEF Search!Leave, Search!SetBlockMode, Search!SetBlockModeFails,
     Search!Fails, Search!Verdict, Search!EndsSearch
<1> QED
  BY <1>4, <1>5, <1>6, <1>7, <1>8, <1>9, <1>10, <1>11, <1>12, <1>13, <1>14
     DEF SearchStep, Search!HostStep

\* The answer of a prompt receiver takes the command's place.
LEMMA ReceiverHeard ==
  Target \in Search!ToSet(Rates) /\ SearchInv /\ HeardInv /\ Receiver => HeardInv'
<1> SUFFICES ASSUME Target \in Search!ToSet(Rates), SearchInv, HeardInv, Receiver
             PROVE  HeardInv'
  OBVIOUS
<1>1. /\ UNCHANGED <<pc, i, host, code, result, failed, prompt>> /\ dealing # << >>
      /\ dev' = dev \/ dev' = Target
  BY DEF Receiver, Search!DeviceStep, Search!Configure, Search!Answer, Search!port
<1>2. AtListedRate'
  BY <1>1, ListedStep DEF HeardInv
<1>3. prompt => dealing' # << >> \/ inbox' # << >>
  <2>1. /\ dealing \in Seq([state : {"new", "OK", "REFUSED"}, at : Search!AllRates])
        /\ inbox \in Seq({"OK", "REFUSED"})
    BY DEF SearchInv, Search!TypeOK
  <2>2. CASE Search!Configure
    <3>1. PICK answer : dealing' = [dealing EXCEPT ![1].state = answer]
      BY <2>2 DEF Search!Configure
    <3> QED
      BY <1>1, <2>1, <3>1
  <2>3. CASE Search!Answer
    <3>1. prompt => inbox' = Append(inbox, Head(dealing).state)
      BY <2>3 DEF Search!Answer
    <3> QED
      BY <2>1, <3>1
  <2> QED
    BY <2>2, <2>3 DEF Receiver, Search!DeviceStep
<1>4. Tried' = Tried
  BY <1>1 DEF Tried
<1> QED
  BY <1>1, <1>2, <1>3, <1>4 DEF HeardInv, InOrder, NoneIsUnheard

\* What is not a step of the search leaves it as it is, or has it begin anew.
LEMMA RestHeard ==
  /\ Target \in Search!ToSet(Rates) /\ Inv /\ SearchInv /\ HeardInv
  /\ [StartNext]_startVars /\ ~SearchStep /\ ~Receiver
  => HeardInv'
<1> SUFFICES ASSUME Target \in Search!ToSet(Rates), Inv, SearchInv, HeardInv,
                    [StartNext]_startVars, ~SearchStep, ~Receiver
             PROVE  HeardInv'
  OBVIOUS
<1>1. /\ prompt' = prompt
      /\ \/ UNCHANGED <<pc, i, host, code, result, failed, dealing, inbox, dev>>
         \/ /\ pc' = "enter" /\ i' = 1
            /\ dev' \in { Rates[n] : n \in DOMAIN Rates } \cup {OtherRate, dev}
  <2> USE DEF locals, searchVars
  <2>1. CASE LoadDriver \/ SearchEnds \/ ConstructRest \/ StartDestructor \/ StartReader
             \/ StartM7xx \/ StartOther
    BY <2>1 DEF LoadDriver, SearchEnds, ConstructRest, StartDestructor, StartReader, StartM7xx,
       StartOther
  <2>2. CASE Open \/ Config \/ ReadAnswers \/ ReceiverRestarts
    <3>1. stage # "baudrate"
      <4>1. stage = "baudrate" => readThread = "none"
        BY DEF Inv, Joined, BeforeReading
      <4> QED
        BY <2>2, <4>1 DEF Open, OpenPort, Config, ConfigPort, ReadAnswers, ReadBytes,
           ReceiverRestarts, Construct
    <3>2. pc = "enter" /\ i = 1
      BY <3>1 DEF SearchInv, SearchesInTurn, HeardInv, InOrder
    <3> QED
      BY <2>2, <3>2 DEF Open, Config, ReadAnswers, ReceiverRestarts
  <2>3. CASE UNCHANGED startVars
    BY <2>3 DEF startVars
  <2> QED
    BY <2>1, <2>2, <2>3 DEF StartNext, StartConstructor
<1>2. AtListedRate'
  BY <1>1 DEF HeardInv, AtListedRate
<1> QED
  BY <1>1, <1>2 DEF HeardInv, InOrder, NoneIsUnheard, Tried

\* A receiver at a rate of the list that answers in time and does not refuse
\* is found, at every node, whatever an earlier one left behind: for any list
\* in which there is every rate that ConfigCom knows, as in the code's.
THEOREM ReceiverIsFound == ComRates \subseteq Search!ToSet(Rates) /\ StartSpec => []ReceiverFound
<1>1. SearchInv /\ HeardInv => ReceiverFound
  <2> SUFFICES ASSUME SearchInv, HeardInv, prompt, Target \in ComRates, pc = "done",
                      failed = {}, dev # OtherRate, code # "REFUSED"
               PROVE  result = "Ok"
    BY DEF ReceiverFound, Search!ReceiverFound
  <2>1. code \in {"none", "OK"}
    BY DEF SearchInv, Search!TypeOK
  <2>2. code # "none"
    <3> SUFFICES ASSUME code = "none" PROVE FALSE
      OBVIOUS
    <3>1. i = Len(Rates) /\ \A n \in 1 .. i : Rates[n] # dev
      BY DEF HeardInv, InOrder, NoneIsUnheard, Tried
    <3>2. DOMAIN Rates = 1 .. Len(Rates)
      BY StartAssumption DEF Search!BaudConstants
    <3> QED
      BY <3>1, <3>2 DEF HeardInv, AtListedRate
  <2> QED
    BY <2>1, <2>2 DEF HeardInv, InOrder
<1>2. CASE Target \in Search!ToSet(Rates)
  <2>1. StartInit => Inv /\ SearchInv /\ HeardInv
    BY <1>2, StartsAsSearch, InitInv, StartsHeard
  <2>2. Inv /\ SearchInv /\ HeardInv /\ [StartNext]_startVars => (Inv /\ SearchInv /\ HeardInv)'
    BY <1>2, StartStepInv, StepIsNodeStep, StepInv, SearchStepHeard, ReceiverHeard, RestHeard
  <2> QED
    BY <1>1, <2>1, <2>2, PTL DEF StartSpec
<1>3. CASE Target \notin ComRates
  <2>1. ReceiverFound
    BY <1>3 DEF ReceiverFound, Search!ReceiverFound
  <2> QED
    BY <2>1, PTL
<1> QED
  BY <1>2, <1>3
=============================================================================
