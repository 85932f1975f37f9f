---------------------------- MODULE NodeCommands ----------------------------
(***************************************************************************)
(* A ROS node asking the receiver to change the output period of a topic:  *)
(* the service and parameter callbacks, the command they send, the wait    *)
(* for the answer and what is concluded from it.                           *)
(*                                                                         *)
(* Two threads of the node take part.  The executor runs one callback at a *)
(* time; the message thread takes the answers out of the serial stream and *)
(* runs the callback registered for them, on a copy of the registry taken  *)
(* under the lock, so a callback may run after it was unregistered.  The   *)
(* answer carries no identity of the command it answers.                   *)
(*                                                                         *)
(* Ros chooses between the two nodes of the repository: they share the     *)
(* call (GetCommandResponseErrorCode) and differ in what they conclude.    *)
(***************************************************************************)
EXTENDS Integers, Sequences, FiniteSets

CONSTANTS Topics,    \* the messages with a period: GGA and BESTP
          Periods,   \* the periods the receiver accepts
          Ros,       \* 1 or 2
          Batch,     \* parameters set by one request, at most
          MaxCalls,  \* bound on the commands sent after start-up
          Faults,    \* may the receiver lose a command or answer too late?
          Settled    \* are the start-up commands answered before a request?

All == "all"         \* OFFMSG without a message
Off == "0"           \* HuaceM7xxDriverNode::DEFAULT_MESSAGE_PERIOD
Bad == "bad"         \* a period the driver does not know

ASSUME NodeAssumption ==
    /\ Ros \in 1 .. 2 /\ Batch \in 1 .. 2 /\ (Ros = 1 => Batch = 1)
    /\ MaxCalls \in Nat \ {0}
    /\ Faults \in BOOLEAN /\ Settled \in BOOLEAN
    /\ IsFiniteSet(Topics) /\ All \notin Topics /\ {Off, Bad} \cap Periods = {}

Values == Periods \cup {Off, Bad}
Codes == {"OK", "REFUSED", "DRIVER"}  \* DRIVER: ROS_DRIVER_ERROR_CODE
Items == [topic : Topics, value : Values]
OffAll == [topic |-> All, value |-> Off]
Commands == [topic : Topics \cup {All}, value : Periods \cup {Off}]

\* One service call, or the parameters of one set_parameters_atomically.
Requests ==
    {<<i>> : i \in Items \cup {OffAll}} \cup
    {r \in Items \X Items : Batch = 2 /\ r[1].topic # r[2].topic}

VARIABLES
    pc,          \* the executor's place
    request,     \* the request it serves
    todo,        \* its items not dealt with yet
    successful,  \* SetParametersResult::successful
    calls,       \* commands called for so far; the last one's waiter
    res,         \* what GetCommandResponseErrorCode will return
    error,       \* *error_code
    code,        \* error_code of every ResponseWaitState
    sem,         \* its semaphore
    registered,  \* the waiter whose callback is registered, 0 for none
    message,     \* the message thread: its place, the waiter and the answer
    toDev,       \* commands on their way to the receiver
    fromDev,     \* answers on their way back
    dev,         \* the period the receiver sends each topic with
    cached,      \* nmea_gga_period_ and gmf_bestp_period_
    param,       \* the node's ROS parameters (ROS 2)
    pub,         \* is there a publisher?
    last         \* the last request served and the code reported for it

executor == <<pc, request, todo, successful, calls, res, error>>
waiters == <<code, sem, registered>>
wire == <<toDev, fromDev, dev>>
node == <<cached, param, pub, last>>
vars == <<executor, waiters, message, wire, node>>

Current == Head(todo)
Resting == [pc |-> "fetch", waiter |-> 0, code |-> "OK"]
None == [request |-> << >>, reported |-> "REFUSED"]

(***************************************************************************)
(* Init of the node: cancel everything, create the publishers, request the *)
(* configured periods.  None of these commands waits for its answer.       *)
(***************************************************************************)
\* One OUTMSG for each of the topics wanted, in any order.
Commanding(p, wanted) ==
    {s \in [1 .. Cardinality(wanted) -> {[topic |-> t, value |-> p[t]] : t \in wanted}] :
        \A i, j \in DOMAIN s : i # j => s[i] # s[j]}

RequestMessages(p) == Commanding(p, {t \in Topics : p[t] \in Periods})

CreatePublishers(p) == [t \in Topics |-> p[t] \in Periods]

Init ==
    /\ pc = "idle" /\ request = << >> /\ todo = << >> /\ successful = TRUE
    /\ calls = 0 /\ res = "Ok" /\ error = "OK"
    /\ code = [w \in 1 .. MaxCalls |-> "DRIVER"]
    /\ sem = [w \in 1 .. MaxCalls |-> 0]
    /\ registered = 0
    /\ message = Resting
    /\ param \in [Topics -> Values] /\ cached = param
    /\ pub = CreatePublishers(param)
    /\ dev \in [Topics -> Periods \cup {Off}]
    /\ Settled => \A t \in Topics : dev[t] \in {Off, param[t]}
    /\ IF Settled THEN toDev = << >>
       ELSE \E s \in RequestMessages(param) : toDev = <<OffAll>> \o s
    /\ fromDev = << >>
    /\ last = None

(***************************************************************************)
(* The executor.                                                           *)
(***************************************************************************)
\* ServiceCallbackOutMsg, ServiceCallbackOffMsg, parameter_callback.
Begin(r) ==
    /\ pc = "idle"
    /\ calls + Len(r) <= MaxCalls
    /\ pc' = "choose" /\ request' = r /\ todo' = r /\ successful' = TRUE
    /\ UNCHANGED <<calls, res, error, waiters, message, wire, node>>

\* What the node does with an item it is done with.
Proceed == /\ todo' = Tail(todo)
           /\ pc' = IF Len(todo) = 1 THEN "finish" ELSE "choose"

\* "unknown period."
RejectPeriod ==
    /\ pc = "choose" /\ Current.value = Bad
    /\ successful' = FALSE /\ error' = "REFUSED"
    /\ Proceed
    /\ UNCHANGED <<request, calls, res, waiters, message, wire, node>>

\* A waiter of its own for each command; its callback has a fixed name, which
\* can be registered once only.
Register ==
    /\ pc = "choose" /\ Current.value # Bad
    /\ calls' = calls + 1
    /\ error' = "DRIVER"
    /\ IF registered = 0
       THEN registered' = calls' /\ pc' = "send" /\ res' = "Ok"
       ELSE UNCHANGED registered /\ pc' = "settle" /\ res' = "Err"
    /\ UNCHANGED <<request, todo, successful, code, sem, message, wire, node>>

\* ExecuteCommand.
Send ==
    /\ pc = "send"
    /\ toDev' = Append(toDev, Current)
    /\ pc' = "wait"
    /\ UNCHANGED <<request, todo, successful, calls, res, error, waiters,
                   message, fromDev, dev, node>>

SendFails ==
    /\ pc = "send" /\ Faults
    /\ res' = "Err" /\ pc' = "unregister"
    /\ UNCHANGED <<request, todo, successful, calls, error, waiters, message,
                   wire, node>>

\* ResponseWaitState::Wait: a token ends it, and so does the tenth second.
WaitAnswered ==
    /\ pc = "wait" /\ sem[calls] > 0
    /\ sem' = [sem EXCEPT ![calls] = @ - 1]
    /\ pc' = "unregister"
    /\ UNCHANGED <<request, todo, successful, calls, res, error, code,
                   registered, message, wire, node>>

\* A slip: a slice that ends without an answer does not count.
WaitOn == pc = "wait" /\ sem[calls] = 0 /\ Faults /\ UNCHANGED vars
WaitTimeout ==
    /\ pc = "wait" /\ sem[calls] = 0 /\ Faults
    /\ res' = "Err" /\ pc' = "unregister"
    /\ UNCHANGED <<request, todo, successful, calls, error, waiters, message,
                   wire, node>>

\* A slip: a call without an answer leaves its callback behind.
UnregisterAnswered ==
    /\ pc = "unregister"
    /\ registered' = IF res = "Ok" THEN 0 ELSE registered
    /\ pc' = "copy"
    /\ UNCHANGED <<request, todo, successful, calls, res, error, code, sem,
                   message, wire, node>>

\* UnregisterTrackedCallbacks, on every way out.
Unregister ==
    /\ pc = "unregister"
    /\ registered' = 0
    /\ pc' = "copy"
    /\ UNCHANGED <<request, todo, successful, calls, res, error, code, sem,
                   message, wire, node>>

\* CopyErrorCodeTo: the code the waiter has by now, whatever Wait returned.
CopyErrorCode ==
    /\ pc = "copy"
    /\ error' = code[calls]
    /\ pc' = "settle"
    /\ UNCHANGED <<request, todo, successful, calls, res, waiters, message,
                   wire, node>>

\* A slip: any answer is a success.
AnyAnswer == res = "Ok"

\* The two nodes judge the call differently: ROS 2 by the error code alone.
Accepted == error = "OK" /\ (Ros = 1 => res = "Ok")

\* A slip: publishers are created at start-up only.
PublishesNothing == FALSE

\* SetPeriodParameter creates the publisher that is missing.
Publishes == Current.value \in Periods /\ res = "Ok" /\ (Ros = 1 => error = "OK")

\* A slip: the period is remembered for a call that did not fail only.
CacheAnswered == IF Accepted /\ res = "Ok"
                 THEN [cached EXCEPT ![Current.topic] = Current.value] ELSE cached

\* The caller of SetPeriodParameter remembers the period that was accepted.
CachePeriod == IF Accepted THEN [cached EXCEPT ![Current.topic] = Current.value]
               ELSE cached

\* SetPeriodParameter after its command.
Settle ==
    /\ pc = "settle" /\ Current # OffAll
    /\ pub' = [pub EXCEPT ![Current.topic] = @ \/ Publishes]
    /\ cached' = CachePeriod
    /\ successful' = Accepted
    /\ Proceed
    /\ UNCHANGED <<request, calls, res, error, waiters, message, wire, param,
                   last>>

\* OFFMSG for everything: the parameters and the cached periods stay.
SettleOffAll ==
    /\ pc = "settle" /\ Current = OffAll
    /\ error' = IF Ros = 1 /\ res = "Err" THEN "DRIVER" ELSE error
    /\ Proceed
    /\ UNCHANGED <<request, successful, calls, res, waiters, message, wire, node>>

\* What the service answers: ROS 1 passes the receiver's code on.
Report == IF Ros = 1 \/ request[1] = OffAll THEN error
          ELSE IF successful THEN "OK" ELSE "REFUSED"

Requested(t) == {i \in DOMAIN request : request[i].topic = t}
Stored == [t \in Topics |-> IF Requested(t) = {} THEN param[t]
                            ELSE request[CHOOSE i \in Requested(t) : TRUE].value]

\* rclcpp stores all the parameters of the request, or none; OFFMSG for
\* everything is not a request for a parameter.
StoreParameters == IF Ros = 2 /\ successful THEN Stored ELSE param

Finish ==
    /\ pc = "finish"
    /\ param' = StoreParameters
    /\ last' = [request |-> request, reported |-> Report]
    /\ pc' = "idle"
    /\ UNCHANGED <<request, todo, successful, calls, res, error, waiters,
                   message, wire, cached, pub>>

(***************************************************************************)
(* The message thread, for the answers in the stream.                      *)
(***************************************************************************)
\* A slip: the token is posted before the code is set.
FetchAndNotify ==
    /\ message.pc = "fetch" /\ fromDev # << >>
    /\ fromDev' = Tail(fromDev)
    /\ IF registered = 0 THEN UNCHANGED <<message, sem>>
       ELSE /\ message' = [pc |-> "set", waiter |-> registered, code |-> Head(fromDev)]
            /\ sem' = [sem EXCEPT ![registered] = @ + 1]
    /\ UNCHANGED <<executor, code, registered, toDev, dev, node>>

\* ExecuteCallbacks copies the registry under its lock...
Fetch ==
    /\ message.pc = "fetch" /\ fromDev # << >>
    /\ fromDev' = Tail(fromDev)
    /\ message' = IF registered = 0 THEN message
                  ELSE [pc |-> "set", waiter |-> registered, code |-> Head(fromDev)]
    /\ UNCHANGED <<executor, waiters, toDev, dev, node>>

\* ... and runs the copy without it: SetErrorCode, then Notify.
SetErrorCode ==
    /\ message.pc = "set"
    /\ code' = [code EXCEPT ![message.waiter] = message.code]
    /\ message' = [message EXCEPT !.pc = "notify"]
    /\ UNCHANGED <<executor, sem, registered, wire, node>>

\* A slip: one semaphore for all calls, so that the copy of a callback whose
\* call has ended wakes the call that waits now.
NotifyCurrent ==
    /\ message.pc = "notify"
    /\ sem' = [sem EXCEPT ![calls] = @ + 1]
    /\ message' = Resting
    /\ UNCHANGED <<executor, code, registered, wire, node>>

Notify ==
    /\ message.pc = "notify"
    /\ sem' = [sem EXCEPT ![message.waiter] = @ + 1]
    /\ message' = Resting
    /\ UNCHANGED <<executor, code, registered, wire, node>>

(***************************************************************************)
(* The receiver: takes its commands in order, carries one out or refuses   *)
(* it, and answers.  With Faults it may miss a command, or its answer may  *)
(* be lost.                                                                *)
(***************************************************************************)
Answer(c) == \/ fromDev' = Append(fromDev, c)
             \/ Faults /\ UNCHANGED fromDev

Execute ==
    /\ toDev # << >>
    /\ toDev' = Tail(toDev)
    /\ dev' = [t \in Topics |-> IF Head(toDev).topic \in {t, All}
                                THEN Head(toDev).value ELSE dev[t]]
    /\ Answer("OK")
    /\ UNCHANGED <<executor, waiters, message, node>>

Refuse ==
    /\ toDev # << >>
    /\ toDev' = Tail(toDev)
    /\ Answer("REFUSED")
    /\ UNCHANGED <<executor, waiters, message, dev, node>>

Miss ==
    /\ Faults /\ toDev # << >>
    /\ toDev' = Tail(toDev)
    /\ UNCHANGED <<executor, waiters, message, fromDev, dev, node>>

ExecutorStep ==
    \/ RejectPeriod \/ Register \/ Send \/ SendFails \/ WaitAnswered
    \/ WaitTimeout \/ Unregister \/ CopyErrorCode \/ Settle \/ SettleOffAll
    \/ Finish
MessageStep == Fetch \/ SetErrorCode \/ Notify
DeviceStep == Execute \/ Refuse \/ Miss

Next == \/ \E r \in Requests : Begin(r)
        \/ ExecutorStep \/ MessageStep \/ DeviceStep

Spec == Init /\ [][Next]_vars

\* The executor and the message thread are threads the kernel schedules; a
\* receiver without faults answers.
FairSpec == /\ Spec
            /\ WF_vars(ExecutorStep) /\ WF_vars(MessageStep)
            /\ WF_vars(~Faults /\ DeviceStep)

-----------------------------------------------------------------------------
Threads == [pc : {"fetch"}, waiter : {0}, code : Codes] \cup
           [pc : {"set", "notify"}, waiter : 1 .. MaxCalls, code : {"OK", "REFUSED"}]

\* The types of the variables.
TypeOK ==
    /\ pc \in {"idle", "choose", "send", "wait", "unregister", "copy", "settle",
               "finish"}
    /\ request \in Seq(Items \cup {OffAll}) /\ todo \in Seq(Items \cup {OffAll})
    /\ successful \in BOOLEAN /\ calls \in 0 .. MaxCalls
    /\ res \in {"Ok", "Err"} /\ error \in Codes
    /\ code \in [1 .. MaxCalls -> Codes] /\ sem \in [1 .. MaxCalls -> Nat]
    /\ registered \in 0 .. MaxCalls /\ message \in Threads
    /\ toDev \in Seq(Commands) /\ fromDev \in Seq({"OK", "REFUSED"})
    /\ dev \in [Topics -> Periods \cup {Off}]
    /\ cached \in [Topics -> Values] /\ param \in [Topics -> Values]
    /\ pub \in [Topics -> BOOLEAN]
    /\ last \in [request : Seq(Items \cup {OffAll}), reported : Codes]

\* A callback is registered only while its own call is under way, so it never
\* keeps the next call from registering (the name can be taken once), although
\* a copy of it may still run for a call that has ended.
CallbackScoped ==
    /\ registered # 0 => registered = calls /\ pc \in {"send", "wait", "unregister"}
    /\ pc \in {"send", "wait"} => registered = calls
    /\ message.waiter <= calls

\* A call that was answered has the answer's code, not the -9 its waiter starts
\* with: SetErrorCode comes before the token that ends the wait, in the message
\* thread, whatever else runs in between.  A copy of the callback of an ended
\* call that runs now, after it was unregistered, sets code and token of its own
\* wait state and wakes nobody: the call that waits would have no code.
AnsweredHasCode ==
    pc \in {"unregister", "copy"} /\ res = "Ok" => code[calls] # "DRIVER"

\* ROS 2 keeps a period twice, as a parameter of rclcpp and as a member of the
\* node.  Between requests they agree, when parameters are set one at a time,
\* although one is written before and the other after the judgement.
CacheIsParameter == pc = "idle" /\ Ros = 2 => cached = param

\* A period the node holds for set has a publisher: the topic cannot be
\* published without one.
PublisherForPeriod ==
    pc = "idle" => \A t \in Topics : cached[t] \in Periods => pub[t]

\* The receiver sends a topic with the period of the parameter, or not at all
\* (after OFFMSG for everything, or a refusal at start-up).
OutputAsParameter ==
    pc = "idle" => \A t \in Topics : dev[t] \in {Off, param[t]}

\* Answer 0 of a request means that the receiver does what was asked, once it
\* has dealt with the commands it was sent.
OkMeansConfigured ==
    pc = "idle" /\ toDev = << >> /\ last.reported = "OK" =>
        \A i \in DOMAIN last.request : \A t \in Topics :
            last.request[i].topic \in {t, All} => dev[t] = last.request[i].value

\* Answer 0 of a request means that the node holds the period for set: what it
\* reports and what it remembers are judged in different places.
OkMeansRemembered ==
    pc = "idle" /\ last.reported = "OK" =>
        \A i \in DOMAIN last.request :
            last.request[i] # OffAll =>
                cached[last.request[i].topic] = last.request[i].value

\* Every request is answered, although the receiver may never answer: the wait
\* ends by itself.
CallsReturn == pc # "idle" ~> pc = "idle"

=============================================================================
