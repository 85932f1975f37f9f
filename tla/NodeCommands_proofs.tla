------------------------ MODULE NodeCommands_proofs -------------------------
(***************************************************************************)
(* Proofs about module NodeCommands for every set of topics and periods,   *)
(* any number of commands, with and without faults.                        *)
(*                                                                         *)
(* Inv is inductive.  That an answered call has the answer's code needs    *)
(* the code of every token that was ever posted (Coded), because the       *)
(* message thread may still run a copy of the callback of a call that has  *)
(* ended; that the callback of one call is not in the way of the next      *)
(* needs the calls still to come to be counted (Counted).  What each of    *)
(* the nodes concludes is proved on top of it.                             *)
(***************************************************************************)
EXTENDS NodeCommands, FiniteSetTheorems, TLAPS

\* The places of a call, from its command to its conclusion.
InCall == {"send", "wait", "unregister", "copy", "settle"}

\* A code is there before its token, for every waiter.
Coded ==
    /\ \A w \in 1 .. MaxCalls : sem[w] > 0 => code[w] # "DRIVER"
    /\ message.pc = "notify" => code[message.waiter] # "DRIVER"
    /\ AnsweredHasCode

\* Every item of the request still has a waiter to use, and only items the
\* receiver understands become commands.
Counted ==
    /\ pc \in InCall \cup {"choose"} => todo # << >>
    /\ pc = "choose" => calls + Len(todo) <= MaxCalls
    /\ pc \in InCall => /\ calls + Len(todo) <= MaxCalls + 1
                        /\ 1 <= calls /\ Current.value # Bad

Inv == TypeOK /\ CallbackScoped /\ Coded /\ Counted

\* The first element of a sequence and the rest.
LEMMA HeadAndTail ==
  ASSUME NEW S, NEW s \in Seq(S), s # << >>
  PROVE  /\ Head(s) \in S /\ Tail(s) \in Seq(S)
         /\ Len(s) \in Nat /\ 1 <= Len(s) /\ Len(Tail(s)) = Len(s) - 1
         /\ Len(s) # 1 => Tail(s) # << >>
<1>1. Len(s) \in Nat /\ 1 <= Len(s)
  OBVIOUS
<1>2. Head(s) \in S
  BY <1>1
<1>3. Tail(s) \in Seq(S) /\ Len(Tail(s)) = Len(s) - 1
  BY <1>1
<1>4. Len(s) # 1 => Tail(s) # << >>
  BY <1>1, <1>3
<1> QED
  BY <1>1, <1>2, <1>3, <1>4

\* The commands of Init are commands.
LEMMA StartUpCommands ==
  ASSUME NEW p \in [Topics -> Values], NEW s \in RequestMessages(p)
  PROVE  <<OffAll>> \o s \in Seq(Commands)
<1> DEFINE wanted == {t \in Topics : p[t] \in Periods}
<1>1. Cardinality(wanted) \in Nat
  <2>1. IsFiniteSet(wanted)
    BY NodeAssumption, FS_Subset
  <2> QED
    BY <2>1, FS_CardinalityType
<1>2. s \in [1 .. Cardinality(wanted) -> {[topic |-> t, value |-> p[t]] : t \in wanted}]
  BY DEF RequestMessages, Commanding
<1>3. {[topic |-> t, value |-> p[t]] : t \in wanted} \subseteq Commands
  BY DEF Commands
<1>4. s \in Seq(Commands)
  <2> HIDE DEF wanted
  <2>1. s \in [1 .. Cardinality(wanted) -> Commands]
    BY <1>2, <1>3
  <2> QED
    BY <2>1, <1>1
<1>5. OffAll \in Commands
  BY DEF OffAll, Commands
<1> QED
  BY <1>4, <1>5

\* The initial states satisfy the invariant, with commands of Init still on the
\* wire or with none.
LEMMA InitInv == Init => Inv
<1> SUFFICES ASSUME Init PROVE Inv
  OBVIOUS
<1>a. MaxCalls \in Nat
  BY NodeAssumption
<1>1. /\ pc = "idle" /\ request = << >> /\ todo = << >> /\ successful = TRUE
      /\ calls = 0 /\ res = "Ok" /\ error = "OK" /\ registered = 0
      /\ message = Resting /\ fromDev = << >> /\ last = None
  BY DEF Init
<1>2. /\ code \in [1 .. MaxCalls -> Codes] /\ sem \in [1 .. MaxCalls -> Nat]
      /\ \A w \in 1 .. MaxCalls : sem[w] = 0
  BY DEF Init, Codes
<1>3. /\ param \in [Topics -> Values] /\ cached \in [Topics -> Values]
      /\ pub \in [Topics -> BOOLEAN] /\ dev \in [Topics -> Periods \cup {Off}]
  BY DEF Init, CreatePublishers
<1>4. toDev \in Seq(Commands)
  <2>1. CASE Settled
    BY <2>1 DEF Init
  <2>2. CASE ~Settled
    <3>1. PICK s \in RequestMessages(param) : toDev = <<OffAll>> \o s
      BY <2>2 DEF Init
    <3> QED
      BY <3>1, <1>3, StartUpCommands
  <2> QED
    BY <2>1, <2>2
<1>5. message \in Threads
  BY <1>1 DEF Resting, Threads, Codes
<1>6. last \in [request : Seq(Items \cup {OffAll}), reported : Codes]
  BY <1>1 DEF None, Codes
<1>7. TypeOK
  BY <1>a, <1>1, <1>2, <1>3, <1>4, <1>5, <1>6 DEF TypeOK, Codes
<1>8. CallbackScoped
  BY <1>1 DEF CallbackScoped, Resting
<1>9. Coded
  BY <1>1, <1>2 DEF Coded, AnsweredHasCode, Resting
<1>10. Counted
  BY <1>1 DEF Counted, InCall, Current
<1> QED
  BY <1>7, <1>8, <1>9, <1>10 DEF Inv

(***************************************************************************)
(* The executor.                                                           *)
(***************************************************************************)
\* A request starts with a waiter for each of its items.
LEMMA BeginInv == \A r \in Requests : Inv /\ Begin(r) => Inv'
<1> SUFFICES ASSUME NEW r \in Requests, Inv, Begin(r) PROVE Inv'
  OBVIOUS
<1>1. /\ pc = "idle" /\ calls + Len(r) <= MaxCalls
      /\ pc' = "choose" /\ request' = r /\ todo' = r /\ successful' = TRUE
      /\ UNCHANGED <<calls, res, error, code, sem, registered, message>>
      /\ UNCHANGED <<toDev, fromDev, dev, cached, param, pub, last>>
  BY DEF Begin, waiters, wire, node
<1>2. r \in Seq(Items \cup {OffAll}) /\ r # << >>
  <2>1. CASE r \in {<<i>> : i \in Items \cup {OffAll}}
    <3>1. PICK i \in Items \cup {OffAll} : r = <<i>>
      BY <2>1
    <3> QED
      BY <3>1
  <2>2. CASE r \in Items \X Items
    <3>1. PICK i \in Items, j \in Items : r = <<i, j>>
      BY <2>2
    <3> QED
      BY <3>1
  <2> QED
    BY <2>1, <2>2 DEF Requests
<1>3. TypeOK'
  BY <1>1, <1>2 DEF Inv, TypeOK
<1>4. CallbackScoped'
  BY <1>1 DEF Inv, CallbackScoped
<1>5. Coded'
  BY <1>1 DEF Inv, Coded, AnsweredHasCode
<1>6. Counted'
  BY <1>1, <1>2 DEF Counted, InCall, Current
<1> QED
  BY <1>3, <1>4, <1>5, <1>6 DEF Inv

\* What every step that ends with an item does to what is left.
LEMMA ProceedFacts ==
  ASSUME Inv, pc \in InCall \cup {"choose"}, Proceed,
         pc = "choose" => calls + Len(todo) <= MaxCalls,
         UNCHANGED <<calls, request>>
  PROVE  /\ todo' \in Seq(Items \cup {OffAll}) /\ pc' \in {"choose", "finish"}
         /\ pc' = "choose" => todo' # << >> /\ calls' + Len(todo') <= MaxCalls
<1>1. todo \in Seq(Items \cup {OffAll}) /\ todo # << >>
  BY DEF Inv, TypeOK, Counted
<1>2. /\ Tail(todo) \in Seq(Items \cup {OffAll})
      /\ Len(todo) \in Nat /\ Len(Tail(todo)) = Len(todo) - 1
      /\ Len(todo) # 1 => Tail(todo) # << >>
  BY <1>1, HeadAndTail
<1>3. calls + Len(todo) <= MaxCalls + 1 /\ calls \in Nat /\ MaxCalls \in Nat
  BY <1>2, NodeAssumption DEF Inv, TypeOK, Counted
<1> QED
  BY <1>2, <1>3 DEF Proceed

\* The steps that end with an item: refuse it, or conclude.
LEMMA SettledInv == Inv /\ (RejectPeriod \/ Settle \/ SettleOffAll) => Inv'
<1> SUFFICES ASSUME Inv, RejectPeriod \/ Settle \/ SettleOffAll PROVE Inv'
  OBVIOUS
<1>1. /\ pc \in {"choose", "settle"} /\ Proceed
      /\ UNCHANGED <<request, calls, res, code, sem, registered, message>>
      /\ UNCHANGED <<toDev, fromDev, dev, param, last>>
  BY DEF RejectPeriod, Settle, SettleOffAll, waiters, wire, node
<1>2. /\ todo' \in Seq(Items \cup {OffAll}) /\ pc' \in {"choose", "finish"}
      /\ pc' = "choose" => todo' # << >> /\ calls' + Len(todo') <= MaxCalls
  BY <1>1, ProceedFacts DEF InCall, Inv, Counted
<1>3. /\ successful' \in BOOLEAN /\ error' \in Codes
  BY DEF RejectPeriod, Settle, SettleOffAll, Inv, TypeOK, Codes, Accepted
<1>4. /\ cached' \in [Topics -> Values] /\ pub' \in [Topics -> BOOLEAN]
  <2>1. CASE RejectPeriod \/ SettleOffAll
    BY <2>1 DEF RejectPeriod, SettleOffAll, Inv, TypeOK, node
  <2>2. CASE Settle
    <3>1. Current \in Items
      BY <2>2, HeadAndTail DEF Settle, Inv, TypeOK, Counted, InCall, Current
    <3>2. cached' = CachePeriod /\ pub' = [pub EXCEPT ![Current.topic] = @ \/ Publishes]
      BY <2>2 DEF Settle
    <3>3. Current.topic \in Topics /\ Current.value \in Values
      BY <3>1 DEF Items
    <3>4. CachePeriod \in [Topics -> Values]
      BY <3>3 DEF Inv, TypeOK, CachePeriod
    <3>5. pub \in [Topics -> BOOLEAN] /\ (pub[Current.topic] \/ Publishes) \in BOOLEAN
      BY <3>3 DEF Inv, TypeOK
    <3> HIDE DEF Publishes, CachePeriod, Current
    <3> QED
      BY <3>2, <3>4, <3>5
  <2> QED
    BY <2>1, <2>2
<1>5. TypeOK'
  BY <1>1, <1>2, <1>3, <1>4 DEF Inv, TypeOK
<1>6. CallbackScoped'
  BY <1>1, <1>2 DEF Inv, CallbackScoped
<1>7. Coded'
  BY <1>1, <1>2 DEF Inv, Coded, AnsweredHasCode
<1>8. Counted'
  BY <1>1, <1>2 DEF Counted, InCall, Current
<1> QED
  BY <1>5, <1>6, <1>7, <1>8 DEF Inv

\* The registration never fails: the callback of the call before is gone.
LEMMA RegisterInv == Inv /\ Register => Inv'
<1> SUFFICES ASSUME Inv, Register PROVE Inv'
  OBVIOUS
<1>1. /\ pc = "choose" /\ Current.value # Bad /\ calls' = calls + 1
      /\ error' = "DRIVER"
      /\ UNCHANGED <<request, todo, successful, code, sem, message>>
      /\ UNCHANGED <<toDev, fromDev, dev, cached, param, pub, last>>
  BY DEF Register, wire, node
<1>2. registered = 0
  BY <1>1 DEF Inv, CallbackScoped
<1>3. registered' = calls' /\ pc' = "send" /\ res' = "Ok"
  BY <1>2 DEF Register
<1>4. /\ todo # << >> /\ Len(todo) \in Nat /\ 1 <= Len(todo)
      /\ calls + Len(todo) <= MaxCalls /\ calls \in Nat /\ MaxCalls \in Nat
  BY <1>1, HeadAndTail, NodeAssumption DEF Inv, TypeOK, Counted
<1>5. calls' \in 1 .. MaxCalls /\ calls < calls'
  BY <1>1, <1>4
<1>6. TypeOK'
  BY <1>1, <1>3, <1>5 DEF Inv, TypeOK, Codes
<1>7. CallbackScoped'
  <2>1. message'.waiter <= calls'
    <3>1. message.waiter <= calls /\ message.waiter \in Nat
      BY DEF Inv, TypeOK, CallbackScoped, Threads
    <3> QED
      BY <3>1, <1>1, <1>5, <1>4
  <2> QED
    BY <1>3, <2>1 DEF CallbackScoped
<1>8. Coded'
  BY <1>1, <1>3 DEF Inv, Coded, AnsweredHasCode
<1>9. Counted'
  BY <1>1, <1>3, <1>4, <1>5 DEF Counted, InCall, Current
<1> QED
  BY <1>6, <1>7, <1>8, <1>9 DEF Inv

\* The call itself, from the command to the code.
LEMMA SendInv == Inv /\ (Send \/ SendFails) => Inv'
<1> SUFFICES ASSUME Inv, Send \/ SendFails PROVE Inv'
  OBVIOUS
<1>1. /\ pc = "send" /\ pc' \in {"wait", "unregister"} /\ res' \in {"Ok", "Err"}
      /\ pc' = "unregister" => res' = "Err"
      /\ UNCHANGED <<request, todo, successful, calls, error, code, sem, registered>>
      /\ UNCHANGED <<message, fromDev, dev, cached, param, pub, last>>
  BY DEF Send, SendFails, waiters, wire, node, Inv, TypeOK
<1>2. Current \in Commands
  <2>1. Current \in Items \cup {OffAll} /\ Current.value # Bad
    BY <1>1, HeadAndTail DEF Inv, TypeOK, Counted, InCall, Current
  <2> QED
    BY <2>1 DEF Items, Commands, OffAll, Values
<1>3. toDev' \in Seq(Commands)
  <2>1. toDev' = Append(toDev, Current) \/ toDev' = toDev
    BY DEF Send, SendFails, wire
  <2>2. toDev \in Seq(Commands)
    BY DEF Inv, TypeOK
  <2> HIDE DEF Current
  <2> QED
    BY <2>1, <2>2, <1>2
<1>4. TypeOK'
  BY <1>1, <1>3 DEF Inv, TypeOK
<1>5. CallbackScoped'
  BY <1>1 DEF Inv, CallbackScoped
<1>6. Coded'
  BY <1>1 DEF Inv, Coded, AnsweredHasCode
<1>7. Counted'
  BY <1>1 DEF Inv, Counted, InCall, Current
<1> QED
  BY <1>4, <1>5, <1>6, <1>7 DEF Inv

\* The wait ends with a token, whose code is there already, or by time.
LEMMA WaitInv == Inv /\ (WaitAnswered \/ WaitTimeout) => Inv'
<1> SUFFICES ASSUME Inv, WaitAnswered \/ WaitTimeout PROVE Inv'
  OBVIOUS
<1>1. /\ pc = "wait" /\ pc' = "unregister" /\ res' \in {"Ok", "Err"}
      /\ UNCHANGED <<request, todo, successful, calls, error, code, registered>>
      /\ UNCHANGED <<message, toDev, fromDev, dev, cached, param, pub, last>>
  BY DEF WaitAnswered, WaitTimeout, waiters, wire, node, Inv, TypeOK
<1>2. calls \in 1 .. MaxCalls
  BY <1>1 DEF Inv, TypeOK, Counted, InCall, Current
<1>3. /\ sem' \in [1 .. MaxCalls -> Nat]
      /\ \A w \in 1 .. MaxCalls : sem'[w] <= sem[w]
      /\ res' = "Ok" => code[calls] # "DRIVER"
  <2>1. CASE WaitTimeout
    <3>1. sem' = sem /\ res' = "Err" /\ sem \in [1 .. MaxCalls -> Nat]
      BY <2>1 DEF WaitTimeout, waiters, Inv, TypeOK
    <3> QED
      BY <3>1
  <2>2. CASE WaitAnswered
    <3>1. sem[calls] \in Nat /\ sem[calls] > 0 /\ sem' = [sem EXCEPT ![calls] = @ - 1]
      BY <2>2, <1>2 DEF WaitAnswered, Inv, TypeOK
    <3>2. code[calls] # "DRIVER"
      BY <3>1, <1>2 DEF Inv, Coded
    <3>3. sem[calls] - 1 \in Nat /\ sem[calls] - 1 <= sem[calls]
      BY <3>1
    <3>4. sem \in [1 .. MaxCalls -> Nat]
      BY DEF Inv, TypeOK
    <3>5. sem' \in [1 .. MaxCalls -> Nat]
      BY <3>1, <3>3, <3>4
    <3>6. ASSUME NEW w \in 1 .. MaxCalls PROVE sem'[w] <= sem[w]
      <4>1. CASE w = calls
        BY <4>1, <3>1, <3>4
      <4>2. CASE w # calls
        BY <4>2, <3>1, <3>4
      <4> QED
        BY <4>1, <4>2
    <3> QED
      BY <3>2, <3>5, <3>6
  <2> QED
    BY <2>1, <2>2
<1>4. TypeOK'
  BY <1>1, <1>3 DEF Inv, TypeOK
<1>5. CallbackScoped'
  BY <1>1 DEF Inv, CallbackScoped
<1>6. Coded'
  <2>1. ASSUME NEW w \in 1 .. MaxCalls, sem'[w] > 0 PROVE sem[w] > 0
    <3>1. sem'[w] <= sem[w] /\ sem'[w] \in Nat /\ sem[w] \in Nat
      BY <1>3 DEF Inv, TypeOK
    <3> QED
      BY <3>1, <2>1
  <2> QED
    BY <2>1, <1>1, <1>3 DEF Inv, Coded, AnsweredHasCode
<1>7. Counted'
  BY <1>1 DEF Inv, Counted, InCall, Current
<1> QED
  BY <1>4, <1>5, <1>6, <1>7 DEF Inv

\* The registry is scoped again before the code is copied.
LEMMA CopyInv == Inv /\ (Unregister \/ CopyErrorCode) => Inv'
<1> SUFFICES ASSUME Inv, Unregister \/ CopyErrorCode PROVE Inv'
  OBVIOUS
<1>1. /\ pc \in {"unregister", "copy"} /\ pc' \in {"copy", "settle"}
      /\ registered' = 0
      /\ UNCHANGED <<request, todo, successful, calls, res, code, sem>>
      /\ UNCHANGED <<message, toDev, fromDev, dev, cached, param, pub, last>>
  BY DEF Unregister, CopyErrorCode, waiters, wire, node, Inv, CallbackScoped
<1>2. calls \in 1 .. MaxCalls
  BY <1>1 DEF Inv, TypeOK, Counted, InCall, Current
<1>3. error' \in Codes
  BY <1>2 DEF Unregister, CopyErrorCode, Inv, TypeOK
<1>4. TypeOK'
  <2>1. 0 \in 0 .. MaxCalls
    BY NodeAssumption
  <2> QED
    BY <1>1, <1>3, <2>1 DEF Inv, TypeOK
<1>5. CallbackScoped'
  BY <1>1 DEF Inv, CallbackScoped
<1>6. Coded'
  BY <1>1 DEF Inv, Coded, AnsweredHasCode
<1>7. Counted'
  BY <1>1 DEF Inv, Counted, InCall, Current
<1> QED
  BY <1>4, <1>5, <1>6, <1>7 DEF Inv

\* rclcpp stores values of the request, each under its own topic.
LEMMA StoredIsParameter ==
  ASSUME Inv PROVE StoreParameters \in [Topics -> Values]
<1>1. request \in Seq(Items \cup {OffAll}) /\ param \in [Topics -> Values]
  BY DEF Inv, TypeOK
<1>2. ASSUME NEW t \in Topics, Requested(t) # {}
      PROVE  request[CHOOSE i \in Requested(t) : TRUE].value \in Values
  <2>1. PICK i \in Requested(t) : i = CHOOSE j \in Requested(t) : TRUE
    BY <1>2
  <2>2. request[i] \in Items \cup {OffAll} /\ request[i].topic = t
    BY <2>1, <1>1 DEF Requested
  <2>3. request[i] \in Items
    BY <2>2, NodeAssumption DEF OffAll
  <2> QED
    BY <2>1, <2>3 DEF Items
<1>3. Stored \in [Topics -> Values]
  BY <1>1, <1>2 DEF Stored
<1> QED
  BY <1>1, <1>3 DEF StoreParameters

\* rclcpp stores a request only from a quiet call, so types are all there is.
LEMMA FinishInv == Inv /\ Finish => Inv'
<1> SUFFICES ASSUME Inv, Finish PROVE Inv'
  OBVIOUS
<1>1. /\ pc = "finish" /\ pc' = "idle" /\ param' = StoreParameters
      /\ last' = [request |-> request, reported |-> Report]
      /\ UNCHANGED <<request, todo, successful, calls, res, error, code, sem>>
      /\ UNCHANGED <<registered, message, toDev, fromDev, dev, cached, pub>>
  BY DEF Finish, waiters, wire
<1>2. Report \in Codes
  BY DEF Report, Inv, TypeOK, Codes
<1>3. last' \in [request : Seq(Items \cup {OffAll}), reported : Codes]
  BY <1>1, <1>2 DEF Inv, TypeOK
<1>4. TypeOK'
  BY <1>1, <1>3, StoredIsParameter DEF Inv, TypeOK
<1>5. CallbackScoped'
  BY <1>1 DEF Inv, CallbackScoped
<1>6. Coded'
  BY <1>1 DEF Inv, Coded, AnsweredHasCode
<1>7. Counted'
  BY <1>1 DEF Counted, InCall, Current
<1> QED
  BY <1>4, <1>5, <1>6, <1>7 DEF Inv

(***************************************************************************)
(* The message thread and the receiver.                                    *)
(***************************************************************************)
\* Also for a waiter whose call has ended, the code is set before the token.
LEMMA MessageInv == Inv /\ MessageStep => Inv'
<1> SUFFICES ASSUME Inv, MessageStep PROVE Inv'
  OBVIOUS
<1>1. /\ UNCHANGED <<pc, request, todo, successful, calls, res, error>>
      /\ UNCHANGED <<registered, toDev, dev, cached, param, pub, last>>
  BY DEF MessageStep, Fetch, SetErrorCode, Notify, executor, waiters, wire, node
<1>2. CASE Fetch
  <2>1. /\ message.pc = "fetch" /\ fromDev # << >> /\ fromDev' = Tail(fromDev)
        /\ message' = IF registered = 0 THEN message
                      ELSE [pc |-> "set", waiter |-> registered, code |-> Head(fromDev)]
        /\ UNCHANGED <<code, sem>>
    BY <1>2 DEF Fetch, waiters
  <2>2. Head(fromDev) \in {"OK", "REFUSED"} /\ fromDev' \in Seq({"OK", "REFUSED"})
    BY <2>1, HeadAndTail DEF Inv, TypeOK
  <2>3. /\ message' \in Threads /\ message'.waiter <= calls
        /\ message'.pc # "notify"
    BY <2>1, <2>2 DEF Inv, TypeOK, CallbackScoped, Threads
  <2>4. TypeOK'
    BY <1>1, <2>1, <2>2, <2>3 DEF Inv, TypeOK
  <2>5. CallbackScoped'
    BY <1>1, <2>3 DEF Inv, CallbackScoped
  <2>6. Coded'
    BY <1>1, <2>1, <2>3 DEF Inv, Coded, AnsweredHasCode
  <2>7. Counted'
    BY <1>1 DEF Inv, Counted, InCall, Current
  <2> QED
    BY <2>4, <2>5, <2>6, <2>7 DEF Inv
<1>3. CASE SetErrorCode
  <2>1. /\ message.pc = "set" /\ code' = [code EXCEPT ![message.waiter] = message.code]
        /\ message' = [message EXCEPT !.pc = "notify"]
        /\ UNCHANGED <<sem, fromDev>>
    BY <1>3 DEF SetErrorCode, wire
  <2>2. /\ message.waiter \in 1 .. MaxCalls /\ message.code \in {"OK", "REFUSED"}
        /\ message.waiter <= calls
    BY <2>1 DEF Inv, TypeOK, Threads, CallbackScoped
  <2>3. /\ message' \in Threads /\ message'.waiter = message.waiter
    BY <2>1, <2>2 DEF Inv, TypeOK, Threads
  <2>4. /\ code' \in [1 .. MaxCalls -> Codes]
        /\ code'[message.waiter] # "DRIVER"
        /\ \A w \in 1 .. MaxCalls : code[w] # "DRIVER" => code'[w] # "DRIVER"
    BY <2>1, <2>2 DEF Inv, TypeOK, Codes
  <2>5. TypeOK'
    BY <1>1, <2>1, <2>3, <2>4 DEF Inv, TypeOK
  <2>6. CallbackScoped'
    BY <1>1, <2>2, <2>3 DEF Inv, CallbackScoped
  <2>7. Coded'
    <3>1. pc \in {"unregister", "copy"} => calls \in 1 .. MaxCalls
      BY DEF Inv, TypeOK, Counted, InCall, Current
    <3> QED
      BY <3>1, <1>1, <2>1, <2>3, <2>4 DEF Inv, Coded, AnsweredHasCode
  <2>8. Counted'
    BY <1>1 DEF Inv, Counted, InCall, Current
  <2> QED
    BY <2>5, <2>6, <2>7, <2>8 DEF Inv
<1>4. CASE Notify
  <2>1. /\ message.pc = "notify" /\ sem' = [sem EXCEPT ![message.waiter] = @ + 1]
        /\ message' = Resting
        /\ UNCHANGED <<code, fromDev>>
    BY <1>4 DEF Notify, wire
  <2>2. message.waiter \in 1 .. MaxCalls /\ code[message.waiter] # "DRIVER"
    BY <2>1 DEF Inv, TypeOK, Threads, Coded
  <2>3. message' \in Threads /\ message'.waiter = 0 /\ message'.pc = "fetch"
    BY <2>1 DEF Resting, Threads, Codes
  <2>4. /\ sem' \in [1 .. MaxCalls -> Nat]
        /\ \A w \in 1 .. MaxCalls : w # message.waiter => sem'[w] = sem[w]
    BY <2>1, <2>2 DEF Inv, TypeOK
  <2>5. TypeOK'
    BY <1>1, <2>1, <2>3, <2>4 DEF Inv, TypeOK
  <2>6. CallbackScoped'
    BY <1>1, <2>3 DEF Inv, CallbackScoped, TypeOK
  <2>7. Coded'
    BY <1>1, <2>1, <2>2, <2>3, <2>4 DEF Inv, Coded, AnsweredHasCode
  <2>8. Counted'
    BY <1>1 DEF Inv, Counted, InCall, Current
  <2> QED
    BY <2>5, <2>6, <2>7, <2>8 DEF Inv
<1> QED
  BY <1>2, <1>3, <1>4 DEF MessageStep

\* The receiver only moves commands to answers.
LEMMA DeviceInv == Inv /\ DeviceStep => Inv'
<1> SUFFICES ASSUME Inv, DeviceStep PROVE Inv'
  OBVIOUS
<1>1. /\ UNCHANGED <<pc, request, todo, successful, calls, res, error>>
      /\ UNCHANGED <<code, sem, registered, message, cached, param, pub, last>>
  BY DEF DeviceStep, Execute, Refuse, Miss, executor, waiters, node
<1>2. toDev # << >> /\ toDev' = Tail(toDev)
  BY DEF DeviceStep, Execute, Refuse, Miss
<1>3. Head(toDev) \in Commands /\ toDev' \in Seq(Commands)
  BY <1>2, HeadAndTail DEF Inv, TypeOK
<1>4. fromDev' \in Seq({"OK", "REFUSED"})
  <2>1. \/ fromDev' = Append(fromDev, "OK") \/ fromDev' = Append(fromDev, "REFUSED")
        \/ fromDev' = fromDev
    BY DEF DeviceStep, Execute, Refuse, Miss, Answer
  <2>2. fromDev \in Seq({"OK", "REFUSED"})
    BY DEF Inv, TypeOK
  <2> QED
    BY <2>1, <2>2
<1>5. dev' \in [Topics -> Periods \cup {Off}]
  BY <1>3 DEF DeviceStep, Execute, Refuse, Miss, Inv, TypeOK, Commands
<1>6. TypeOK'
  BY <1>1, <1>3, <1>4, <1>5 DEF Inv, TypeOK
<1>7. CallbackScoped' /\ Coded' /\ Counted'
  BY <1>1 DEF Inv, CallbackScoped, Coded, AnsweredHasCode, Counted, InCall, Current
<1> QED
  BY <1>6, <1>7 DEF Inv

\* Every step keeps the invariant.
LEMMA StepInv == Inv /\ [Next]_vars => Inv'
<1> SUFFICES ASSUME Inv, [Next]_vars PROVE Inv'
  OBVIOUS
<1>1. CASE UNCHANGED vars
  <2>1. /\ UNCHANGED <<pc, request, todo, successful, calls, res, error>>
        /\ UNCHANGED <<code, sem, registered, message, toDev, fromDev, dev>>
        /\ UNCHANGED <<cached, param, pub, last>>
    BY <1>1 DEF vars, executor, waiters, wire, node
  <2> QED
    BY <2>1 DEF Inv, TypeOK, CallbackScoped, Coded, AnsweredHasCode, Counted, InCall, Current
<1>2. CASE Next
  BY <1>2, BeginInv, SettledInv, RegisterInv, SendInv, WaitInv, CopyInv, FinishInv,
     MessageInv, DeviceInv DEF Next, ExecutorStep
<1> QED
  BY <1>1, <1>2

\* The inductive invariant of the commands: types, the scope of a callback,
\* the code of every posted token and the calls still to come, for both nodes,
\* with and without faults.
THEOREM NodeInvariant == Spec => []Inv
<1> QED
  BY InitInv, StepInv, PTL DEF Spec

\* The variables have their types.
THEOREM TypeCorrect == Spec => []TypeOK
<1> QED
  BY NodeInvariant, PTL DEF Inv

\* A callback is registered only while its own call is under way.
THEOREM RegistryScoped == Spec => []CallbackScoped
<1> QED
  BY NodeInvariant, PTL DEF Inv

\* An answered call has the answer's code.
THEOREM AnswerHasCode == Spec => []AnsweredHasCode
<1> QED
  BY NodeInvariant, PTL DEF Inv, Coded

(***************************************************************************)
(* ROS 1: a period is remembered and its publisher created on one          *)
(* condition, in one step, with or without faults.                         *)
(***************************************************************************)
\* A topic whose remembered period is not 0 has a publisher.
HasPublisher == \A t \in Topics : cached[t] \in Periods => pub[t]

\* No step forgets a publisher or remembers without one: in the ROS 1 node, and
\* in the ROS 2 node as long as no call fails (it creates the publisher on what
\* the call returned and remembers the period on the code alone).
LEMMA PublisherStep ==
  (Ros = 1 \/ res = "Ok") /\ Inv /\ HasPublisher /\ [Next]_vars => HasPublisher'
<1> SUFFICES ASSUME Ros = 1 \/ res = "Ok", Inv, HasPublisher, [Next]_vars
             PROVE  HasPublisher'
  OBVIOUS
<1>1. CASE UNCHANGED <<cached, pub>>
  BY <1>1 DEF HasPublisher
<1>2. CASE Settle
  <2>1. /\ cached' = CachePeriod /\ pub' = [pub EXCEPT ![Current.topic] = @ \/ Publishes]
    BY <1>2 DEF Settle
  <2>2. cached \in [Topics -> Values] /\ pub \in [Topics -> BOOLEAN]
    BY DEF Inv, TypeOK
  <2>3. Accepted /\ Current.value \in Periods => Publishes
    BY DEF Accepted, Publishes
  <2> SUFFICES ASSUME NEW t \in Topics, cached'[t] \in Periods PROVE pub'[t]
    BY DEF HasPublisher
  <2>4. CASE t # Current.topic
    <3>1. cached'[t] = cached[t] /\ pub'[t] = pub[t]
      BY <2>1, <2>2, <2>4 DEF CachePeriod
    <3> QED
      BY <3>1 DEF HasPublisher
  <2>5. CASE t = Current.topic /\ Accepted
    <3>1. cached'[t] = Current.value
      BY <2>1, <2>2, <2>5 DEF CachePeriod
    <3>2. Publishes
      BY <3>1, <2>3, <2>5
    <3> HIDE DEF Publishes
    <3> QED
      BY <3>2, <2>1, <2>2, <2>5
  <2>6. CASE t = Current.topic /\ ~Accepted
    <3>1. cached'[t] = cached[t]
      BY <2>1, <2>6 DEF CachePeriod
    <3>2. pub[t]
      BY <3>1 DEF HasPublisher
    <3> HIDE DEF Publishes
    <3> QED
      BY <3>2, <2>1, <2>2, <2>6
  <2> QED
    BY <2>4, <2>5, <2>6
<1> QED
  BY <1>1, <1>2 DEF Next, ExecutorStep, MessageStep, DeviceStep, Begin, RejectPeriod, Register,
     Send, SendFails, WaitAnswered, WaitTimeout, Unregister, CopyErrorCode, SettleOffAll,
     Finish, Fetch, SetErrorCode, Notify, Execute, Refuse, Miss, vars, node

\* In the ROS 1 node a period that is remembered has a publisher.
THEOREM Ros1Publishes == Ros = 1 /\ Spec => []PublisherForPeriod
<1>1. Init => HasPublisher
  BY DEF Init, HasPublisher, CreatePublishers
<1>2. HasPublisher => PublisherForPeriod
  BY DEF HasPublisher, PublisherForPeriod
<1>3. CASE Ros = 1
  <2>1. Inv /\ HasPublisher /\ [Next]_vars => HasPublisher'
    BY <1>3, PublisherStep
  <2> QED
    BY <1>1, <1>2, <2>1, NodeInvariant, PTL DEF Spec
<1> QED
  BY <1>3

(***************************************************************************)
(* ROS 2 with parameters set one at a time: the judgement that decides     *)
(* what is remembered also decides what rclcpp stores and the service      *)
(* reports.                                                                *)
(***************************************************************************)
\* The one parameter of r is what the node remembers for its topic.
Remembered(r) == r[1] # OffAll => cached[r[1].topic] = r[1].value

\* With one parameter at a time: what is remembered is what rclcpp has stored,
\* except for the topic of a call that is about to finish.
OneAtATime ==
    /\ pc # "idle" => \E i \in Items \cup {OffAll} : request = <<i>>
    /\ pc \in InCall \cup {"choose"} => todo = request /\ successful
    /\ pc # "finish" => cached = param
    /\ pc = "finish" => cached = IF successful THEN Stored ELSE param
    /\ pc = "idle" /\ last.reported = "OK" =>
           /\ \E i \in Items \cup {OffAll} : last.request = <<i>>
           /\ Remembered(last.request)

\* What a request for one parameter stores.
LEMMA StoredOne ==
  ASSUME NEW i \in Items \cup {OffAll}, request = <<i>>, param \in [Topics -> Values]
  PROVE  /\ i = OffAll => Stored = param
         /\ i # OffAll => Stored = [param EXCEPT ![i.topic] = i.value]
<1>1. DOMAIN request = {1} /\ request[1] = i
  OBVIOUS
<1>2. \A t \in Topics : Requested(t) = IF i.topic = t THEN {1} ELSE {}
  BY <1>1 DEF Requested
<1>3. CASE i = OffAll
  <2>1. \A t \in Topics : Requested(t) = {}
    BY <1>2, <1>3, NodeAssumption DEF OffAll
  <2>2. Stored = [t \in Topics |-> param[t]]
    BY <2>1 DEF Stored
  <2> QED
    BY <2>2, <1>3
<1>4. CASE i # OffAll
  <2>1. i.topic \in Topics
    BY <1>4 DEF Items
  <2>2. ASSUME NEW t \in Topics
        PROVE  Stored[t] = IF t = i.topic THEN i.value ELSE param[t]
    <3>1. Stored[t] = IF Requested(t) = {} THEN param[t]
                      ELSE request[CHOOSE k \in Requested(t) : TRUE].value
      BY DEF Stored
    <3>2. CASE t = i.topic
      <4>1. Requested(t) = {1}
        BY <3>2, <1>2
      <4>2. (CHOOSE k \in Requested(t) : TRUE) = 1
        BY <4>1
      <4> QED
        BY <3>1, <3>2, <4>1, <4>2, <1>1
    <3>3. CASE t # i.topic
      BY <3>1, <3>3, <1>2
    <3> QED
      BY <3>2, <3>3
  <2>3. Stored = [t \in Topics |-> IF t = i.topic THEN i.value ELSE param[t]]
    BY <2>2 DEF Stored
  <2> QED
    BY <2>1, <2>3, <1>4
<1> QED
  BY <1>3, <1>4

\* The node starts with the parameters it remembers.
LEMMA OneInit == Init => OneAtATime
  BY DEF Init, OneAtATime, InCall, None

\* The steps inside a call change none of what is compared.
LEMMA OneQuiet ==
  ASSUME OneAtATime, UNCHANGED <<request, todo, successful, cached, param, last>>,
         \/ pc' = pc
         \/ pc \in InCall \cup {"choose"} /\ pc' \in InCall
  PROVE  OneAtATime'
<1>1. Stored' = Stored
  BY DEF Stored, Requested
<1> QED
  BY <1>1 DEF OneAtATime, InCall, Remembered

\* A request of one item leaves what is remembered alone.
LEMMA OneBegin ==
  Batch = 1 /\ OneAtATime => \A r \in Requests : Begin(r) => OneAtATime'
<1> SUFFICES ASSUME Batch = 1, OneAtATime, NEW r \in Requests, Begin(r)
             PROVE  OneAtATime'
  OBVIOUS
<1>1. /\ pc = "idle" /\ pc' = "choose" /\ request' = r /\ todo' = r /\ successful'
      /\ UNCHANGED <<cached, param>>
  BY DEF Begin, node
<1>2. \E i \in Items \cup {OffAll} : r = <<i>>
  BY DEF Requests
<1> QED
  BY <1>1, <1>2 DEF OneAtATime

\* The steps that end with the one item.
LEMMA OneSettle ==
  Ros = 2 /\ Inv /\ OneAtATime /\ (RejectPeriod \/ Settle \/ SettleOffAll) => OneAtATime'
<1> SUFFICES ASSUME Ros = 2, Inv, OneAtATime, RejectPeriod \/ Settle \/ SettleOffAll
             PROVE  OneAtATime'
  OBVIOUS
<1>1. pc \in {"choose", "settle"} /\ UNCHANGED <<request, param, last>>
  BY DEF RejectPeriod, Settle, SettleOffAll, node
<1>2. PICK i \in Items \cup {OffAll} : request = <<i>>
  BY <1>1 DEF OneAtATime
<1>3. Current = i /\ pc' = "finish" /\ cached = param /\ successful
  BY <1>1, <1>2 DEF RejectPeriod, Settle, SettleOffAll, Proceed, OneAtATime, InCall, Current
<1>4. param \in [Topics -> Values]
  BY DEF Inv, TypeOK
<1>5. /\ i = OffAll => Stored = param
      /\ i # OffAll => Stored = [param EXCEPT ![i.topic] = i.value]
  BY <1>2, <1>4, StoredOne
<1>6. Stored' = Stored
  BY <1>1 DEF Stored, Requested
<1>7. cached' = IF successful' THEN Stored' ELSE param'
  <2>1. CASE RejectPeriod
    BY <2>1, <1>1, <1>3 DEF RejectPeriod, node
  <2>2. CASE Settle
    BY <2>2, <1>1, <1>3, <1>5, <1>6 DEF Settle, CachePeriod
  <2>3. CASE SettleOffAll
    BY <2>3, <1>1, <1>3, <1>5, <1>6 DEF SettleOffAll, node
  <2> QED
    BY <2>1, <2>2, <2>3
<1> QED
  BY <1>1, <1>2, <1>3, <1>7 DEF OneAtATime, InCall

\* rclcpp stores what the call remembered, and nothing when it failed.
LEMMA OneFinish == Ros = 2 /\ Inv /\ OneAtATime /\ Finish => OneAtATime'
<1> SUFFICES ASSUME Ros = 2, Inv, OneAtATime, Finish PROVE OneAtATime'
  OBVIOUS
<1>1. /\ pc = "finish" /\ pc' = "idle" /\ UNCHANGED <<request, successful, cached>>
      /\ param' = (IF successful THEN Stored ELSE param)
      /\ last' = [request |-> request, reported |-> Report]
  BY DEF Finish, StoreParameters
<1>2. PICK i \in Items \cup {OffAll} : request = <<i>>
  BY <1>1 DEF OneAtATime
<1>3. param \in [Topics -> Values]
  BY DEF Inv, TypeOK
<1>4. cached = (IF successful THEN Stored ELSE param)
  BY <1>1 DEF OneAtATime
<1>5. Report = "OK" /\ i # OffAll => cached[i.topic] = i.value
  <2> SUFFICES ASSUME Report = "OK", i # OffAll PROVE cached[i.topic] = i.value
    OBVIOUS
  <2>1. successful
    BY <1>2 DEF Report
  <2>2. cached = [param EXCEPT ![i.topic] = i.value] /\ i.topic \in Topics
    BY <2>1, <1>2, <1>3, <1>4, StoredOne DEF Items
  <2> QED
    BY <2>2, <1>3
<1>6. last'.request = <<i>> /\ last'.reported = Report
  BY <1>1, <1>2
<1> QED
  BY <1>1, <1>2, <1>4, <1>5, <1>6 DEF OneAtATime, Remembered, InCall

\* Every step keeps the two in agreement.
LEMMA OneStep ==
  Ros = 2 /\ Batch = 1 /\ Inv /\ OneAtATime /\ [Next]_vars => OneAtATime'
<1> SUFFICES ASSUME Ros = 2, Batch = 1, Inv, OneAtATime, [Next]_vars PROVE OneAtATime'
  OBVIOUS
<1>1. CASE Register \/ Send \/ SendFails \/ WaitAnswered \/ WaitTimeout \/ Unregister
           \/ CopyErrorCode
  <2>1. UNCHANGED <<request, todo, successful, cached, param, last>>
    BY <1>1 DEF Register, Send, SendFails, WaitAnswered, WaitTimeout, Unregister, CopyErrorCode,
       node
  <2>2. pc \in InCall \cup {"choose"} /\ pc' \in InCall
    BY <1>1 DEF Register, Send, SendFails, WaitAnswered, WaitTimeout, Unregister, CopyErrorCode,
       InCall
  <2> QED
    BY <2>1, <2>2, OneQuiet
<1>2. CASE MessageStep \/ DeviceStep \/ UNCHANGED vars
  <2>1. UNCHANGED <<pc, request, todo, successful, cached, param, last>>
    BY <1>2 DEF MessageStep, DeviceStep, Fetch, SetErrorCode, Notify, Execute, Refuse, Miss,
       executor, node, vars
  <2> QED
    BY <2>1, OneQuiet
<1> QED
  BY <1>1, <1>2, OneBegin, OneSettle, OneFinish DEF Next, ExecutorStep

\* In the ROS 2 node, parameters set one at a time, the remembered periods are
\* the parameters between requests.
THEOREM Ros2CacheIsParameter == Ros = 2 /\ Batch = 1 /\ Spec => []CacheIsParameter
<1>1. OneAtATime => CacheIsParameter
  BY DEF OneAtATime, CacheIsParameter
<1>2. CASE Ros = 2 /\ Batch = 1
  <2>1. Inv /\ OneAtATime /\ [Next]_vars => OneAtATime'
    BY <1>2, OneStep
  <2> QED
    BY <1>1, <2>1, OneInit, NodeInvariant, PTL DEF Spec
<1> QED
  BY <1>2

\* In the ROS 2 node, parameters set one at a time, a period that was reported
\* as set is remembered, whatever the receiver does and however late it answers.
THEOREM Ros2OkMeansRemembered == Ros = 2 /\ Batch = 1 /\ Spec => []OkMeansRemembered
<1>1. OneAtATime => OkMeansRemembered
  BY DEF OneAtATime, OkMeansRemembered, Remembered
<1>2. CASE Ros = 2 /\ Batch = 1
  <2>1. Inv /\ OneAtATime /\ [Next]_vars => OneAtATime'
    BY <1>2, OneStep
  <2> QED
    BY <1>1, <2>1, OneInit, NodeInvariant, PTL DEF Spec
<1> QED
  BY <1>2

(***************************************************************************)
(* Without faults: nothing is lost and no wait ends by time, so a call     *)
(* always ends with an answer.  Only answers of the start-up commands may  *)
(* be taken for it.                                                        *)
(***************************************************************************)
\* No call fails when nothing is lost: the command goes out, the callback is
\* registered, and the wait ends with a token.
LEMMA NoFailure == ~Faults /\ Inv /\ res = "Ok" /\ [Next]_vars => res' = "Ok"
<1> SUFFICES ASSUME ~Faults, Inv, res = "Ok", [Next]_vars PROVE res' = "Ok"
  OBVIOUS
<1>1. CASE Register
  <2>1. registered = 0
    BY <1>1 DEF Register, Inv, CallbackScoped
  <2> QED
    BY <1>1, <2>1 DEF Register
<1>2. CASE UNCHANGED res
  BY <1>2
<1> QED
  BY <1>1, <1>2 DEF Next, ExecutorStep, MessageStep, DeviceStep, Begin, RejectPeriod,
     Send, SendFails, WaitAnswered, WaitTimeout, Unregister, CopyErrorCode, Settle, SettleOffAll,
     Finish, Fetch, SetErrorCode, Notify, Execute, Refuse, Miss, vars, executor

\* Without faults every period that is remembered has a publisher, in both
\* nodes, whatever start-up answers are still on their way.
THEOREM FaultlessPublishes == ~Faults /\ Spec => []PublisherForPeriod
<1>1. Init => res = "Ok" /\ HasPublisher
  BY DEF Init, HasPublisher, CreatePublishers
<1>2. HasPublisher => PublisherForPeriod
  BY DEF HasPublisher, PublisherForPeriod
<1>3. CASE ~Faults
  <2>1. Inv /\ res = "Ok" /\ HasPublisher /\ [Next]_vars => (res = "Ok" /\ HasPublisher)'
    BY <1>3, NoFailure, PublisherStep
  <2> QED
    BY <1>1, <1>2, <2>1, NodeInvariant, PTL DEF Spec
<1> QED
  BY <1>3

(***************************************************************************)
(* Without faults and with the start-up answers taken: the node and the    *)
(* receiver go in step.  A command, its answer and its token are one thing *)
(* that is in one place at a time, and when nobody waits it is nowhere.    *)
(* The answer names no command; this is what makes it the right one.       *)
(***************************************************************************)
NoToken == \A w \in 1 .. MaxCalls : sem[w] = 0
Silent == toDev = << >> /\ fromDev = << >> /\ message.pc = "fetch"

\* The receiver does what item i asks for.
Does(i) == \A t \in Topics : i.topic \in {t, All} => dev[t] = i.value

\* It sends a topic with the period the node remembers, or not at all.
Held == \A t \in Topics : dev[t] \in {Off, cached[t]}

\* It has dealt with the current item, with answer c.
Told(c) ==
    /\ c = "OK" => Does(Current)
    /\ \A t \in Topics : dev[t] \in {Off, cached[t]} \/ (c = "OK" /\ Current.topic = t)

\* The four places of what the executor waits for.
Asked == /\ toDev = <<Current>> /\ fromDev = << >> /\ message.pc = "fetch"
         /\ NoToken /\ Held
Answered == /\ toDev = << >> /\ message.pc = "fetch" /\ NoToken
            /\ \E c \in {"OK", "REFUSED"} : fromDev = <<c>> /\ Told(c)
Taken == /\ toDev = << >> /\ fromDev = << >> /\ message.pc \in {"set", "notify"}
         /\ message.waiter = calls /\ NoToken /\ Told(message.code)
         /\ message.pc = "notify" => code[calls] = message.code
Posted == /\ Silent /\ sem[calls] = 1 /\ Told(code[calls])
          /\ \A w \in 1 .. MaxCalls : w # calls => sem[w] = 0

Waiting == pc = "wait" => Asked \/ Answered \/ Taken \/ Posted

\* The node and the receiver in step.
InStep ==
    /\ res = "Ok"
    /\ Waiting
    /\ pc # "wait" => Silent /\ NoToken
    /\ pc \in {"idle", "choose", "send", "finish"} => Held
    /\ pc \in {"unregister", "copy"} => Told(code[calls])
    /\ pc = "settle" => Told(error)

\* The start-up commands were answered: nothing is on its way.
LEMMA InStepInit == Settled /\ Init => InStep
<1> SUFFICES ASSUME Settled, Init PROVE InStep
  OBVIOUS
<1>1. /\ pc = "idle" /\ res = "Ok" /\ toDev = << >> /\ fromDev = << >>
      /\ message.pc = "fetch" /\ cached = param
      /\ \A t \in Topics : dev[t] \in {Off, param[t]}
      /\ sem = [w \in 1 .. MaxCalls |-> 0]
  BY DEF Init, Resting
<1> QED
  BY <1>1 DEF InStep, Waiting, Silent, NoToken, Held

\* Steps of the executor that leave the receiver and what is remembered alone.
LEMMA InStepCall ==
  ~Faults /\ Inv /\ InStep /\ (Register \/ Send \/ SendFails \/ WaitTimeout \/ Unregister
                               \/ CopyErrorCode \/ RejectPeriod \/ Finish) => InStep'
<1> SUFFICES ASSUME ~Faults, Inv, InStep,
                    Register \/ Send \/ SendFails \/ WaitTimeout \/ Unregister
                    \/ CopyErrorCode \/ RejectPeriod \/ Finish
             PROVE  InStep'
  OBVIOUS
<1>1. UNCHANGED <<code, sem, message, fromDev, dev, cached>>
  BY DEF Register, Send, SendFails, WaitTimeout, Unregister, CopyErrorCode, RejectPeriod,
     Finish, waiters, wire, node
<1>2. NoToken' = NoToken /\ Held' = Held
  BY <1>1 DEF NoToken, Held
<1>3. CASE Register
  <2>1. /\ pc = "choose" /\ pc' = "send" /\ res' = "Ok" /\ toDev' = toDev
    BY <1>3 DEF Register, Inv, CallbackScoped, wire
  <2> QED
    BY <2>1, <1>1, <1>2 DEF InStep, Waiting, Silent
<1>4. CASE Send
  <2>1. /\ pc = "send" /\ pc' = "wait" /\ res' = res /\ todo' = todo
        /\ toDev' = Append(toDev, Current)
    BY <1>4 DEF Send
  <2>2. Silent /\ NoToken /\ Held /\ res = "Ok"
    BY <2>1 DEF InStep
  <2>3. toDev' = <<Current>> /\ Current' = Current
    BY <2>1, <2>2 DEF Silent, Current
  <2>4. Asked'
    BY <2>2, <2>3, <1>1, <1>2 DEF Asked, Silent
  <2> QED
    BY <2>1, <2>2, <2>4 DEF InStep, Waiting
<1>5. CASE Unregister \/ CopyErrorCode
  <2>1. /\ pc \in {"unregister", "copy"} /\ pc' \in {"copy", "settle"}
        /\ pc' = "settle" => error' = code[calls]
        /\ UNCHANGED <<res, todo, calls, toDev>>
    BY <1>5 DEF Unregister, CopyErrorCode, wire
  <2>2. Told(code[calls]) /\ Silent /\ NoToken /\ res = "Ok"
    BY <2>1 DEF InStep
  <2>3. Told(code[calls])'
    BY <2>1, <2>2, <1>1 DEF Told, Does, Current
  <2>4. pc' = "settle" => Told(error)'
    BY <2>1, <2>3, <1>1 DEF Told, Does, Current
  <2> QED
    BY <2>1, <2>2, <2>3, <2>4, <1>1, <1>2 DEF InStep, Waiting, Silent
<1>6. CASE RejectPeriod
  <2>1. pc = "choose" /\ pc' \in {"choose", "finish"} /\ res' = res /\ toDev' = toDev
    BY <1>6 DEF RejectPeriod, Proceed, wire
  <2> QED
    BY <2>1, <1>1, <1>2 DEF InStep, Waiting, Silent
<1>7. CASE Finish
  <2>1. pc = "finish" /\ pc' = "idle" /\ res' = res /\ toDev' = toDev
    BY <1>7 DEF Finish, wire
  <2> QED
    BY <2>1, <1>1, <1>2 DEF InStep, Waiting, Silent
<1> QED
  BY <1>3, <1>4, <1>5, <1>6, <1>7 DEF SendFails, WaitTimeout

\* A request starts in step.
LEMMA InStepBegin == InStep => \A r \in Requests : Begin(r) => InStep'
<1> SUFFICES ASSUME InStep, NEW r \in Requests, Begin(r) PROVE InStep'
  OBVIOUS
<1>1. /\ pc = "idle" /\ pc' = "choose"
      /\ UNCHANGED <<res, sem, message, toDev, fromDev, dev, cached>>
  BY DEF Begin, waiters, wire, node
<1> QED
  BY <1>1 DEF InStep, Waiting, Silent, NoToken, Held

\* The wait ends with the one token, and the code says what the receiver did.
LEMMA InStepWait == Inv /\ InStep /\ WaitAnswered => InStep'
<1> SUFFICES ASSUME Inv, InStep, WaitAnswered PROVE InStep'
  OBVIOUS
<1>1. /\ pc = "wait" /\ sem[calls] > 0 /\ sem' = [sem EXCEPT ![calls] = @ - 1]
      /\ pc' = "unregister"
      /\ UNCHANGED <<todo, calls, res, code, message, toDev, fromDev, dev, cached>>
  BY DEF WaitAnswered, wire, node
<1>2. calls \in 1 .. MaxCalls /\ sem \in [1 .. MaxCalls -> Nat]
  BY <1>1 DEF Inv, TypeOK, Counted, InCall, Current
<1>3. ~NoToken
  BY <1>1, <1>2 DEF NoToken
<1>4. Posted
  BY <1>1, <1>3 DEF InStep, Waiting, Asked, Answered, Taken
<1>5. NoToken' /\ Silent'
  BY <1>1, <1>2, <1>4 DEF Posted, NoToken, Silent
<1>6. Told(code[calls])'
  BY <1>1, <1>4 DEF Posted, Told, Does, Current
<1> QED
  BY <1>1, <1>5, <1>6 DEF InStep, Waiting

\* What is remembered is what the receiver was told and did.
LEMMA InStepSettle == Inv /\ InStep /\ (Settle \/ SettleOffAll) => InStep'
<1> SUFFICES ASSUME Inv, InStep, Settle \/ SettleOffAll PROVE InStep'
  OBVIOUS
<1>1. /\ pc = "settle" /\ pc' \in {"choose", "finish"}
      /\ UNCHANGED <<res, sem, message, toDev, fromDev, dev>>
  BY DEF Settle, SettleOffAll, Proceed, waiters, wire
<1>2. Told(error) /\ Silent /\ NoToken /\ res = "Ok"
  BY <1>1 DEF InStep
<1>3. cached \in [Topics -> Values]
  BY DEF Inv, TypeOK
<1>4. Held'
  <2> SUFFICES ASSUME NEW t \in Topics PROVE dev'[t] \in {Off, cached'[t]}
    BY DEF Held
  <2>1. dev[t] \in {Off, cached[t]} \/ (error = "OK" /\ Current.topic = t)
    BY <1>2 DEF Told
  <2>2. CASE SettleOffAll
    <3>1. Current.topic # t /\ cached' = cached
      BY <2>2, NodeAssumption DEF SettleOffAll, OffAll, node
    <3> QED
      BY <3>1, <2>1, <1>1
  <2>3. CASE Settle /\ Accepted
    <3>1. cached' = [cached EXCEPT ![Current.topic] = Current.value]
      BY <2>3 DEF Settle, CachePeriod
    <3>2. CASE t = Current.topic
      <4>1. dev[t] = Current.value
        BY <2>3, <3>2, <1>2 DEF Accepted, Told, Does
      <4>2. cached'[t] = Current.value
        BY <3>1, <3>2, <1>3
      <4> QED
        BY <4>1, <4>2, <1>1
    <3>3. CASE t # Current.topic
      <4>1. cached'[t] = cached[t]
        BY <3>1, <3>3, <1>3
      <4> QED
        BY <4>1, <3>3, <2>1, <1>1
    <3> QED
      BY <3>2, <3>3
  <2>4. CASE Settle /\ ~Accepted
    <3>1. cached' = cached /\ error # "OK"
      BY <2>4, <1>2 DEF Settle, CachePeriod, Accepted
    <3> QED
      BY <3>1, <2>1, <1>1
  <2> QED
    BY <2>2, <2>3, <2>4
<1>5. Silent' /\ NoToken'
  BY <1>1, <1>2 DEF Silent, NoToken
<1> QED
  BY <1>1, <1>2, <1>4, <1>5 DEF InStep, Waiting

\* The one answer goes to the one call that waits, its code before its token.
LEMMA InStepMessage == Inv /\ InStep /\ MessageStep => InStep'
<1> SUFFICES ASSUME Inv, InStep, MessageStep PROVE InStep'
  OBVIOUS
<1>1. UNCHANGED <<pc, todo, calls, res, error, toDev, dev, cached>>
  BY DEF MessageStep, Fetch, SetErrorCode, Notify, executor, wire, node
<1>2. pc = "wait"
  BY DEF MessageStep, Fetch, SetErrorCode, Notify, InStep, Silent
<1>3. calls \in 1 .. MaxCalls /\ registered = calls
  BY <1>2 DEF Inv, TypeOK, CallbackScoped, Counted, InCall, Current
<1>4. CASE Fetch
  <2>1. /\ message.pc = "fetch" /\ fromDev # << >> /\ fromDev' = Tail(fromDev)
        /\ message' = [pc |-> "set", waiter |-> registered, code |-> Head(fromDev)]
        /\ sem' = sem
    BY <1>3, <1>4 DEF Fetch, waiters
  <2>2. Answered
    BY <1>2, <2>1 DEF InStep, Waiting, Asked, Taken, Posted, Silent
  <2>3. PICK c \in {"OK", "REFUSED"} : fromDev = <<c>> /\ Told(c)
    BY <2>2 DEF Answered
  <2>4. /\ message'.pc = "set" /\ message'.waiter = calls /\ message'.code = c
        /\ fromDev' = << >>
    BY <1>3, <2>1, <2>3
  <2>5. Told(message.code)'
    BY <1>1, <2>3, <2>4 DEF Told, Does, Current
  <2>6. Taken'
    BY <1>1, <2>1, <2>2, <2>4, <2>5 DEF Taken, Answered, NoToken
  <2> QED
    BY <1>1, <1>2, <2>6 DEF InStep, Waiting
<1>5. CASE SetErrorCode
  <2>1. /\ message.pc = "set" /\ code' = [code EXCEPT ![message.waiter] = message.code]
        /\ message' = [message EXCEPT !.pc = "notify"] /\ sem' = sem /\ fromDev' = fromDev
    BY <1>5 DEF SetErrorCode, wire
  <2>2. Taken
    BY <1>2, <2>1 DEF InStep, Waiting, Asked, Answered, Posted, Silent
  <2>3. /\ message'.pc = "notify" /\ message'.waiter = message.waiter
        /\ message'.code = message.code
    BY <2>1 DEF Inv, TypeOK, Threads
  <2>4. code'[calls] = message.code
    BY <2>1, <2>2, <1>3 DEF Taken, Inv, TypeOK
  <2>5. Told(message.code)'
    BY <1>1, <2>2, <2>3 DEF Taken, Told, Does, Current
  <2>6. Taken'
    BY <1>1, <2>1, <2>2, <2>3, <2>4, <2>5 DEF Taken, NoToken
  <2> QED
    BY <1>1, <1>2, <2>6 DEF InStep, Waiting
<1>6. CASE Notify
  <2>1. /\ message.pc = "notify" /\ sem' = [sem EXCEPT ![message.waiter] = @ + 1]
        /\ message' = Resting /\ code' = code /\ fromDev' = fromDev
    BY <1>6 DEF Notify, wire
  <2>2. Taken
    BY <1>2, <2>1 DEF InStep, Waiting, Asked, Answered, Posted, Silent
  <2>3. /\ sem'[calls] = 1 /\ \A w \in 1 .. MaxCalls : w # calls => sem'[w] = 0
    BY <1>3, <2>1, <2>2 DEF Taken, NoToken, Inv, TypeOK
  <2>4. Told(code[calls])'
    BY <1>1, <2>1, <2>2 DEF Taken, Told, Does, Current
  <2>5. Posted'
    BY <1>1, <2>1, <2>2, <2>3, <2>4 DEF Posted, Taken, Silent, Resting
  <2> QED
    BY <1>1, <1>2, <2>5 DEF InStep, Waiting
<1> QED
  BY <1>4, <1>5, <1>6 DEF MessageStep

\* The receiver does, or refuses, what the executor waits for.
LEMMA InStepDevice == ~Faults /\ Inv /\ InStep /\ DeviceStep => InStep'
<1> SUFFICES ASSUME ~Faults, Inv, InStep, DeviceStep PROVE InStep'
  OBVIOUS
<1>1. /\ UNCHANGED <<pc, todo, calls, res, error, code, sem, message, cached>>
      /\ toDev # << >> /\ toDev' = Tail(toDev)
  BY DEF DeviceStep, Execute, Refuse, Miss, executor, waiters, node
<1>2. pc = "wait" /\ Asked
  BY <1>1 DEF InStep, Waiting, Silent, Answered, Taken, Posted
<1>3. toDev' = << >> /\ Head(toDev) = Current
  BY <1>1, <1>2 DEF Asked
<1>4. PICK c \in {"OK", "REFUSED"} : Answer(c) /\ (c = "OK" => Execute) /\ (c = "REFUSED" => Refuse)
  BY DEF DeviceStep, Execute, Refuse, Miss
<1>5. fromDev' = <<c>>
  BY <1>2, <1>4 DEF Answer, Asked
<1>6. Told(c)'
  <2>1. CASE c = "OK"
    <3>1. dev' = [t \in Topics |-> IF Current.topic \in {t, All} THEN Current.value
                                   ELSE dev[t]]
      BY <1>3, <1>4, <2>1 DEF Execute
    <3>2. Does(Current)'
      BY <3>1, <1>1 DEF Does, Current
    <3>3. ASSUME NEW t \in Topics
          PROVE  dev'[t] \in {Off, cached[t]} \/ Current.topic = t
      <4>1. CASE Current.topic \in {t, All}
        <5>1. Current.topic = All => Current.value = Off
          <6>1. Current \in Items \cup {OffAll}
            BY <1>2, HeadAndTail DEF Inv, TypeOK, Counted, InCall, Current
          <6> QED
            BY <6>1, NodeAssumption DEF Items, OffAll
        <5> QED
          BY <5>1, <4>1, <3>1
      <4>2. CASE Current.topic \notin {t, All}
        BY <4>2, <3>1, <1>2 DEF Asked, Held
      <4> QED
        BY <4>1, <4>2
    <3> QED
      BY <3>2, <3>3, <2>1, <1>1 DEF Told, Current
  <2>2. CASE c = "REFUSED"
    <3>1. dev' = dev
      BY <1>4, <2>2 DEF Refuse
    <3> QED
      BY <3>1, <2>2, <1>1, <1>2 DEF Told, Asked, Held
  <2> QED
    BY <2>1, <2>2
<1>7. Answered'
  BY <1>1, <1>2, <1>3, <1>5, <1>6 DEF Answered, Asked, NoToken
<1> QED
  BY <1>1, <1>2, <1>7 DEF InStep, Waiting

\* Every step keeps the node and the receiver in step.
LEMMA InStepStep == ~Faults /\ Inv /\ InStep /\ [Next]_vars => InStep'
<1> SUFFICES ASSUME ~Faults, Inv, InStep, [Next]_vars PROVE InStep'
  OBVIOUS
<1>1. CASE UNCHANGED vars
  <2>1. /\ UNCHANGED <<pc, todo, calls, res, error, code, sem, message>>
        /\ UNCHANGED <<toDev, fromDev, dev, cached>>
    BY <1>1 DEF vars, executor, waiters, wire, node
  <2> QED
    BY <2>1 DEF InStep, Waiting, Asked, Answered, Taken, Posted, Silent, NoToken, Held,
       Told, Does, Current
<1>2. CASE Next
  BY <1>2, InStepBegin, InStepCall, InStepWait, InStepSettle, InStepMessage, InStepDevice
     DEF Next, ExecutorStep
<1> QED
  BY <1>1, <1>2

\* Between requests the receiver sends a topic with the period the node
\* remembers, or not at all, in both nodes and however many parameters one
\* request sets, without faults and once the start-up commands are answered.
THEOREM OutputAsRemembered == ~Faults /\ Settled /\ Spec => [](pc = "idle" => Held)
<1>1. InStep => (pc = "idle" => Held)
  BY DEF InStep
<1>2. CASE ~Faults /\ Settled
  <2>1. Init => InStep
    BY <1>2, InStepInit
  <2>2. Inv /\ InStep /\ [Next]_vars => InStep'
    BY <1>2, InStepStep
  <2> QED
    BY <1>1, <2>1, <2>2, NodeInvariant, PTL DEF Spec
<1> QED
  BY <1>2

\* In the ROS 2 node, parameters set one at a time, the receiver sends a topic
\* with the period of the parameter, or not at all.
THEOREM Ros2OutputAsParameter ==
  ~Faults /\ Settled /\ Ros = 2 /\ Batch = 1 /\ Spec => []OutputAsParameter
<1>1. InStep /\ OneAtATime => OutputAsParameter
  BY DEF InStep, Held, OneAtATime, OutputAsParameter
<1>2. CASE ~Faults /\ Settled /\ Ros = 2 /\ Batch = 1
  <2>1. Init => InStep /\ OneAtATime
    BY <1>2, InStepInit, OneInit
  <2>2. Inv /\ (InStep /\ OneAtATime) /\ [Next]_vars => (InStep /\ OneAtATime)'
    BY <1>2, InStepStep, OneStep
  <2> QED
    BY <1>1, <2>1, <2>2, NodeInvariant, PTL DEF Spec
<1> QED
  BY <1>2

(***************************************************************************)
(* What answer 0 of a request for one message says about the receiver.     *)
(***************************************************************************)
\* A request has one item; what is about to be reported, and what was reported
\* last, is true of the receiver.
Concluded ==
    /\ pc # "idle" => \E i \in Items \cup {OffAll} : request = <<i>>
    /\ pc \in InCall \cup {"choose"} => todo = request
    /\ pc = "finish" /\ Report = "OK" => Does(request[1])
    /\ pc = "idle" /\ last.reported = "OK" =>
           /\ \E i \in Items \cup {OffAll} : last.request = <<i>>
           /\ Does(last.request[1])

\* The receiver changes nothing of what it does unless the executor waits.
LEMMA DeviceWaits == InStep /\ [Next]_vars /\ pc # "wait" => dev' = dev
<1> SUFFICES ASSUME InStep, [Next]_vars, pc # "wait" PROVE dev' = dev
  OBVIOUS
<1>1. ~Execute
  BY DEF Execute, InStep, Silent
<1> QED
  BY <1>1 DEF Next, ExecutorStep, MessageStep, DeviceStep, Begin, RejectPeriod, Register,
     Send, SendFails, WaitAnswered, WaitTimeout, Unregister, CopyErrorCode, Settle, SettleOffAll,
     Finish, Fetch, SetErrorCode, Notify, Refuse, Miss, vars, wire

\* The steps that conclude: the report follows the answer's code.
LEMMA ConcludeSettle ==
  Inv /\ InStep /\ Concluded /\ (RejectPeriod \/ Settle \/ SettleOffAll) => Concluded'
<1> SUFFICES ASSUME Inv, InStep, Concluded, RejectPeriod \/ Settle \/ SettleOffAll
             PROVE  Concluded'
  OBVIOUS
<1>1. /\ pc \in {"choose", "settle"}
      /\ UNCHANGED <<request, res, dev, last>>
  BY DEF RejectPeriod, Settle, SettleOffAll, wire, node
<1>2. PICK i \in Items \cup {OffAll} : request = <<i>>
  BY <1>1 DEF Concluded
<1>3. Current = i /\ request[1] = i /\ pc' = "finish"
  BY <1>1, <1>2 DEF RejectPeriod, Settle, SettleOffAll, Proceed, Concluded, InCall, Current
<1>4. Report' = "OK" => Does(request[1])
  <2>1. CASE RejectPeriod
    <3>1. error' = "REFUSED" /\ successful' = FALSE
      BY <2>1 DEF RejectPeriod
    <3> QED
      BY <3>1 DEF Report
  <2>2. CASE Settle
    <3>1. /\ successful' = Accepted /\ error' = error /\ Told(error)
      BY <2>2 DEF Settle, InStep
    <3>2. Report' = "OK" => error = "OK"
      BY <3>1 DEF Report, Accepted
    <3> QED
      BY <3>1, <3>2, <1>3 DEF Told
  <2>3. CASE SettleOffAll
    <3>1. Told(error) /\ res = "Ok" /\ i = OffAll
      BY <2>3, <1>3 DEF SettleOffAll, InStep
    <3>2. error' = error
      BY <2>3, <3>1 DEF SettleOffAll
    <3>3. Report' = error
      BY <1>1, <1>3, <3>1, <3>2 DEF Report
    <3> QED
      BY <3>1, <3>3, <1>3 DEF Told
  <2> QED
    BY <2>1, <2>2, <2>3
<1>5. pc' = "finish" /\ Report' = "OK" => Does(request[1])'
  BY <1>1, <1>4 DEF Does
<1> QED
  BY <1>1, <1>2, <1>3, <1>5 DEF Concluded, InCall

\* Every step keeps what was reported true.
LEMMA ConcludeStep ==
  Batch = 1 /\ Inv /\ InStep /\ Concluded /\ [Next]_vars => Concluded'
<1> SUFFICES ASSUME Batch = 1, Inv, InStep, Concluded, [Next]_vars PROVE Concluded'
  OBVIOUS
<1>1. CASE \E r \in Requests : Begin(r)
  <2>1. PICK r \in Requests : Begin(r)
    BY <1>1
  <2>2. pc' = "choose" /\ request' = r /\ todo' = r
    BY <2>1 DEF Begin
  <2>3. \E i \in Items \cup {OffAll} : r = <<i>>
    BY DEF Requests
  <2> QED
    BY <2>2, <2>3 DEF Concluded
<1>2. CASE Finish
  <2>1. /\ pc = "finish" /\ pc' = "idle" /\ dev' = dev /\ request' = request
        /\ last' = [request |-> request, reported |-> Report]
    BY <1>2 DEF Finish, wire
  <2>2. last'.request = request /\ last'.reported = Report
    BY <2>1
  <2>3. Report = "OK" => Does(request[1])'
    BY <2>1 DEF Concluded, Does
  <2>4. last'.reported = "OK" => Does(last.request[1])'
    BY <2>2, <2>3, <2>1 DEF Does
  <2> QED
    BY <2>1, <2>2, <2>4 DEF Concluded, InCall
<1>3. CASE Register \/ Send \/ SendFails \/ WaitAnswered \/ WaitTimeout \/ Unregister
           \/ CopyErrorCode
  <2>1. UNCHANGED <<request, todo>>
    BY <1>3 DEF Register, Send, SendFails, WaitAnswered, WaitTimeout, Unregister, CopyErrorCode
  <2>2. pc \in InCall \cup {"choose"} /\ pc' \in InCall
    BY <1>3 DEF Register, Send, SendFails, WaitAnswered, WaitTimeout, Unregister, CopyErrorCode,
       InCall
  <2> QED
    BY <2>1, <2>2 DEF Concluded, InCall
<1>4. CASE MessageStep \/ DeviceStep \/ UNCHANGED vars
  <2>1. UNCHANGED <<pc, request, todo, successful, error, last>>
    BY <1>4 DEF MessageStep, DeviceStep, Fetch, SetErrorCode, Notify, Execute, Refuse, Miss,
       executor, node, vars
  <2>2. pc # "wait" => dev' = dev
    BY DeviceWaits
  <2>3. Report' = Report
    BY <2>1 DEF Report
  <2> QED
    BY <2>1, <2>2, <2>3 DEF Concluded, Does, InCall
<1> QED
  BY <1>1, <1>2, <1>3, <1>4, ConcludeSettle DEF Next, ExecutorStep

\* Answer 0 of a request for one message means that the receiver does what was
\* asked, in both nodes, without faults and once the start-up commands are
\* answered.
THEOREM OkIsConfigured ==
  ~Faults /\ Settled /\ Batch = 1 /\ Spec => []OkMeansConfigured
<1>1. Concluded => OkMeansConfigured
  BY DEF Concluded, OkMeansConfigured, Does
<1>2. CASE ~Faults /\ Settled /\ Batch = 1
  <2>1. Init => InStep /\ Concluded
    BY <1>2, InStepInit DEF Init, Concluded, InCall, None
  <2>2. Inv /\ (InStep /\ Concluded) /\ [Next]_vars => (InStep /\ Concluded)'
    BY <1>2, InStepStep, ConcludeStep
  <2> QED
    BY <1>1, <2>1, <2>2, NodeInvariant, PTL DEF Spec
<1> QED
  BY <1>2
=============================================================================
