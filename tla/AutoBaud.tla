------------------------------ MODULE AutoBaud ------------------------------
(***************************************************************************)
(* HuaceM7xxDriver::AutoSetBaudrate: the constructor of the driver looks   *)
(* for the rate the receiver talks at.  For each rate of a list it sends,  *)
(* at that rate, the command that sets the receiver's rate to the one      *)
(* wanted, gives it 100 ms, and listens once at the rate wanted.  The port *)
(* is in non-blocking mode meanwhile, and a callback that points to a      *)
(* local variable takes the code of any answer.                            *)
(*                                                                         *)
(* The receiver understands what is sent at its own rate only.  It answers *)
(* at the rate it had or at the new one; the host can read an answer that  *)
(* arrives at the rate the host has at that time.                          *)
(***************************************************************************)
EXTENDS Integers, Sequences, SequencesExt

CONSTANTS Rates,      \* baudrate_list, as a sequence
          Target,     \* the rate wanted
          HostRates,  \* the rates SerialPort::SetBaudRate knows
          ComRates,   \* the rates ConfigCom::IsValidBaudrate knows
          OtherRate   \* a rate that is in none of them

\* What a caller's lists must satisfy (assumed by module DriverStart).
BaudConstants ==
    /\ Rates \in Seq(HostRates) /\ Rates # << >>
    /\ ComRates \subseteq HostRates
    /\ OtherRate \notin HostRates

VARIABLES
    pc,          \* the place in AutoSetBaudrate
    i,           \* the iterator of the list
    host,        \* the rate of the host's port
    block,       \* is it in blocking mode?
    registered,  \* is the callback with the pointer registered?
    code,        \* error_code: "none" stands for 1, "OK" for 0
    result,      \* what AutoSetBaudrate returns
    dev,         \* the receiver's rate
    dealing,     \* the commands it has understood and not answered
    inbox,       \* answers the host has received and not read
    failed,      \* the kinds of system calls that failed so far (history)
    prompt       \* does an answer always arrive in time and readable?

port == <<host, block>>
device == <<dev, dealing, inbox>>
vars == <<pc, i, port, registered, code, result, device, failed,
          prompt>>

AllRates == HostRates \cup {OtherRate, Target}

Init ==
    /\ pc = "enter" /\ i = 1
    /\ host \in HostRates /\ block = TRUE
    /\ registered = FALSE /\ code = "none" /\ result = "none"
    /\ dev \in ToSet(Rates) \cup {OtherRate}
    /\ dealing = << >> /\ inbox = << >>
    /\ failed = {} /\ prompt \in BOOLEAN

\* A system call of this kind fails and changes nothing.
Fails(kind) == failed' = failed \cup {kind}

SetBlockMode(b) == block' = b /\ UNCHANGED failed
SetBlockModeFails == Fails("block") /\ UNCHANGED block
\* SetBlockMode() where its result is ignored.
RestoreBlockMode == SetBlockMode(TRUE) \/ SetBlockModeFails

SetBaudRate(r) == r \in HostRates /\ host' = r /\ UNCHANGED failed
SetBaudRateFails(r) ==
    /\ UNCHANGED host
    /\ IF r \in HostRates THEN Fails("rate") ELSE failed' = failed \cup {"rate"}

Enter ==
    /\ pc = "enter"
    /\ \/ SetBlockMode(FALSE) /\ pc' = "register" /\ UNCHANGED result
       \/ SetBlockModeFails /\ pc' = "done" /\ result' = "Err"
    /\ UNCHANGED <<i, host, registered, code, device, prompt>>

Register ==
    /\ pc = "register"
    /\ registered' = TRUE
    /\ pc' = "try"
    /\ UNCHANGED <<i, port, code, result, device, failed, prompt>>

Try ==
    /\ pc = "try"
    /\ SetBaudRate(Rates[i])
    /\ pc' = "send"
    /\ UNCHANGED <<i, block, registered, code, result, device, prompt>>

\* A slip: the callback stays when the rate cannot be set.
GiveUpAtOnce(p, r) ==
    /\ pc = p
    /\ SetBaudRateFails(r)
    /\ pc' = "done" /\ result' = "Err"
    /\ UNCHANGED <<i, block, registered, code, device, prompt>>

\* SetBaudRate fails: the callback is unregistered, then the mode restored.
GiveUp(p, r) ==
    /\ pc = p
    /\ SetBaudRateFails(r)
    /\ registered' = FALSE
    /\ pc' = "restore" /\ result' = "Err"
    /\ UNCHANGED <<i, block, code, device, prompt>>

Restore ==
    /\ pc = "restore"
    /\ RestoreBlockMode
    /\ pc' = "done"
    /\ UNCHANGED <<i, host, registered, code, result, device, prompt>>

\* ExecuteCommand(ConfigCom): nothing is sent for a rate ConfigCom refuses.
Send ==
    /\ pc = "send"
    /\ dealing' = IF Target \in ComRates /\ dev = host
                  THEN Append(dealing, [state |-> "new", at |-> dev]) ELSE dealing
    /\ pc' = "sleep"
    /\ UNCHANGED <<i, port, registered, code, result, dev, inbox, failed, prompt>>

\* usleep(100 ms), then the host's rate again.
Listen ==
    /\ pc = "sleep"
    /\ prompt => \A n \in DOMAIN dealing : dealing[n].state = "OK"
    /\ SetBaudRate(Target)
    /\ pc' = "read"
    /\ UNCHANGED <<i, block, registered, code, result, device, prompt>>

\* A slip: the port still blocks, so the read waits for an answer.
ReadBlocking ==
    /\ pc = "read" /\ inbox # << >>
    /\ code' = Last(inbox) /\ inbox' = << >>
    /\ pc' = "judge"
    /\ UNCHANGED <<i, port, registered, result, dev, dealing, failed, prompt>>

\* ProcessMessages: every answer there is sets error_code, the last one stays.
Read ==
    /\ pc = "read"
    /\ prompt => dealing = << >>
    /\ code' = IF inbox = << >> THEN code ELSE Last(inbox)
    /\ inbox' = << >>
    /\ pc' = "judge"
    /\ UNCHANGED <<i, port, registered, result, dev, dealing, failed, prompt>>

\* A slip: any answer is taken for success.
EndsSearchAny == code # "none"

\* Only 0 ends the search: codes are not positive, so "0 <= error_code" is 0.
EndsSearch == code = "OK"

\* Slip: the last rate of the list is not tried.
MoreRatesShort == i + 1 < Len(Rates)

MoreRates == i < Len(Rates)

Judge ==
    /\ pc = "judge"
    /\ IF ~EndsSearch /\ MoreRates
       THEN i' = i + 1 /\ pc' = "try"
       ELSE UNCHANGED i /\ pc' = "unregister"
    /\ UNCHANGED <<port, registered, code, result, device, failed, prompt>>

Unregister ==
    /\ pc = "unregister"
    /\ registered' = FALSE
    /\ pc' = "leave"
    /\ UNCHANGED <<i, port, code, result, device, failed, prompt>>

Verdict == IF EndsSearch THEN "Ok" ELSE "Err"

Leave ==
    /\ pc = "leave"
    /\ \/ SetBlockMode(TRUE) /\ result' = Verdict
       \/ SetBlockModeFails /\ result' = "Err"
    /\ pc' = "done"
    /\ UNCHANGED <<i, host, registered, code, device, prompt>>

\* The receiver takes the new rate, or refuses it...
Configure ==
    /\ dealing # << >> /\ Head(dealing).state = "new"
    /\ \E answer \in {"OK", "REFUSED"} :
        /\ dealing' = [dealing EXCEPT ![1].state = answer]
        /\ dev' = IF answer = "OK" THEN Target ELSE dev
    /\ UNCHANGED <<pc, i, port, registered, code, result, inbox, failed, prompt>>

\* ... and answers, at the rate it had or the one it has.
Answer ==
    /\ dealing # << >> /\ Head(dealing).state # "new"
    /\ \E r \in {Head(dealing).at, dev} :
        /\ prompt => host = r
        /\ inbox' = IF host = r THEN Append(inbox, Head(dealing).state) ELSE inbox
    /\ dealing' = Tail(dealing)
    /\ UNCHANGED <<pc, i, port, registered, code, result, dev, failed, prompt>>

HostStep ==
    \/ Enter \/ Register \/ Try \/ GiveUp("try", Rates[i]) \/ Restore \/ Send
    \/ Listen \/ GiveUp("sleep", Target) \/ Read \/ Judge \/ Unregister \/ Leave
DeviceStep == Configure \/ Answer
Next == HostStep \/ DeviceStep

-----------------------------------------------------------------------------
\* The types of the variables.
TypeOK ==
    /\ pc \in {"enter", "register", "try", "send", "sleep", "read", "judge",
               "unregister", "leave", "restore", "done"}
    /\ i \in 1 .. Len(Rates) /\ host \in HostRates /\ dev \in AllRates
    /\ block \in BOOLEAN /\ registered \in BOOLEAN
    /\ code \in {"none", "OK", "REFUSED"} /\ result \in {"none", "Ok", "Err"}
    /\ dealing \in Seq([state : {"new", "OK", "REFUSED"}, at : AllRates])
    /\ inbox \in Seq({"OK", "REFUSED"})
    /\ failed \subseteq {"block", "rate"} /\ prompt \in BOOLEAN

\* On every way out the callback with the pointer to the local variable is
\* gone, and the port blocks again unless the system refused that.
LeftClean ==
    pc = "done" => ~registered /\ ("block" \notin failed => block)

\* A receiver that talks at a rate of the list, answers in time and does not
\* refuse is found, whichever the rate.
ReceiverFound ==
    /\ prompt /\ Target \in ComRates
    /\ pc = "done" /\ failed = {} /\ dev # OtherRate /\ code # "REFUSED"
    => result = "Ok"
=============================================================================
