-------------------------- MODULE CallbackRegistry --------------------------
(***************************************************************************)
(* The registries of callbacks and the thread that runs them.  The port,   *)
(* the driver (before and after parsing) and every message keep a map from *)
(* names to callbacks, each behind a mutex of its own.  Clients, any       *)
(* number of threads, register and unregister; the message thread copies a *)
(* map under its mutex and runs the copy without it, so that a callback    *)
(* may itself register and unregister.                                     *)
(*                                                                         *)
(* The maps of classes and messages have no mutex: they change only before *)
(* the message thread runs ("setup"), as in the repository's own nodes.    *)
(***************************************************************************)
EXTENDS Naturals

CONSTANTS
  Clients,    (* who registers: the value of a callback is its client      *)
  NoClient,
  Node,       (* the client whose message callbacks publish                *)
  Names,
  Classes, Ids,
  Asked,      (* of each client, what its calls may name: <<name, the      *)
              (* registries>>, one or all messages of a class              *)
              (* (...ForEachMsg)                                           *)
  Given,      (* <<message, name, client>>: the callbacks that may come    *)
              (* with a message when it is registered                      *)
  MaxFrames   (* frames in one read                                        *)

Port == <<"io">>
BP == <<"bp">>
AP == <<"ap">>
Messages == Classes \X Ids
Registries == {Port, BP, AP} \cup Messages

ASSUME RegistryAssumption ==
  /\ NoClient \notin Clients
  /\ Node \in Clients
  /\ Asked \in [Clients -> SUBSET (Names \X SUBSET Registries)]
  /\ Given \subseteq Messages \X Names \X Clients
  /\ {Port, BP, AP} \cap Messages = {}
  /\ MaxFrames \in Nat

VARIABLES
  classes,    (* supported_msg_class                                       *)
  msgs,       (* supported_msgs of the classes                             *)
  callbacks,  (* of each registry: the client under each name              *)
  locked,     (* the registries whose mutex is held                        *)
  call,       (* of each client: the call it is in                         *)
  owned,      (* history: <<client, registry, name>> where a call to       *)
              (* register returned Ok and none to unregister began         *)
  stage,      (* of the message thread                                     *)
  target,     (* the registry whose callbacks run                          *)
  snapshot,   (* what is left to run of the copy: <<name, client>>         *)
  callee,     (* the client whose callback runs                            *)
  size,       (* frames not looked at yet                                  *)
  stop,       (* stop_requested                                            *)
  publisher,  (* the publisher of the node is there                        *)
  bpDone,     (* history: the BP callbacks of this round have run          *)
  standing    (* history: in target since before the frame was found and   *)
              (* not run for it yet: <<name, client>>                      *)

registry == <<classes, msgs, callbacks>>
client == <<locked, call, owned>>
thread == <<stage, target, snapshot, callee, size, stop, publisher, bpDone>>
vars == <<registry, client, thread, standing>>

-----------------------------------------------------------------------------
Idle == [pc |-> "idle"]

Entries(r) == {<<n, callbacks[r][n]>> : n \in {k \in Names : callbacks[r][k] # NoClient}}

(* Init of the driver: the classes come with their messages. *)
Init ==
  /\ classes = Classes /\ msgs = Messages
  /\ callbacks = [r \in Registries |-> [n \in Names |-> NoClient]]
  /\ locked = {}
  /\ call = [c \in Clients |-> Idle]
  /\ owned = {}
  /\ stage = "setup"
  /\ target = Port /\ snapshot = {} /\ callee = NoClient
  /\ size = 0 /\ stop = FALSE
  /\ publisher = FALSE
  /\ bpDone = FALSE /\ standing = {}

NoCalls == \A c \in Clients : call[c] = Idle

Forget(ms) ==
  owned' = {o \in owned : o[2] \notin ms}

(* A class object with no messages of its own, or one that has them all. *)
RegisterMessageClass(k, ids) ==
  /\ stage = "setup" /\ NoCalls
  /\ k \notin classes
  /\ classes' = classes \cup {k}
  /\ msgs' = msgs \cup ({k} \X ids)
  /\ callbacks' = [r \in Registries |->
                     IF r \in {k} \X ids THEN [n \in Names |-> NoClient] ELSE callbacks[r]]
  /\ UNCHANGED <<client, thread, standing>>

UnregisterMessageClass(k) ==
  /\ stage = "setup" /\ NoCalls
  /\ k \in classes
  /\ classes' = classes \ {k}
  /\ msgs' = msgs \ ({k} \X Ids)
  /\ Forget({k} \X Ids)
  /\ UNCHANGED <<callbacks, locked, call, thread, standing>>

(* The callbacks of a message object, new or one that was registered       *)
(* before and still has its own; the callback given with it is inserted    *)
(* under a free name (the call returns Ok also when the name is taken).    *)
Brought(m, fresh, c) ==
  LET had == IF fresh THEN [n \in Names |-> NoClient] ELSE callbacks[m]
  IN  [n \in Names |-> IF had[n] = NoClient /\ <<m, n, c>> \in Given THEN c ELSE had[n]]

RegisterMessage(m, fresh, c) ==
  /\ stage = "setup" /\ NoCalls
  /\ m[1] \in classes /\ m \notin msgs
  /\ msgs' = msgs \cup {m}
  /\ callbacks' = [callbacks EXCEPT ![m] = Brought(m, fresh, c)]
  /\ UNCHANGED <<classes, client, thread, standing>>

UnregisterMessage(m) ==
  /\ stage = "setup" /\ NoCalls
  /\ m \in msgs
  /\ msgs' = msgs \ {m}
  /\ Forget({m})
  /\ UNCHANGED <<classes, callbacks, locked, call, thread, standing>>

StartThread ==
  /\ stage = "setup"
  /\ stage' = "head"
  /\ UNCHANGED <<registry, client, target, snapshot, callee, size, stop, publisher, bpDone, standing>>

Setup ==
  \/ \E k \in Classes : UnregisterMessageClass(k)
  \/ \E k \in Classes, ids \in {{}, Ids} : RegisterMessageClass(k, ids)
  \/ \E m \in Messages : UnregisterMessage(m)
  \/ \E m \in Messages, fresh \in BOOLEAN, c \in Clients \cup {NoClient} :
       RegisterMessage(m, fresh, c)
  \/ StartThread

-----------------------------------------------------------------------------
(* The clients. *)

(* A call that registers or unregisters a name in each of rs.  A message   *)
(* that is not supported is refused at once (Err; ForEachMsg throws for a  *)
(* class that is not).  A client unregisters only what it was told is its  *)
(* own.                                                                    *)
MayBegin(c, adds, n, rs) ==
  /\ call[c] = Idle
  /\ <<n, rs>> \in Asked[c] /\ rs \cap Messages \subseteq msgs
  /\ adds \/ \A r \in rs : <<c, r, n>> \in owned

Began(c, adds, n, rs) ==
  /\ call' = [call EXCEPT ![c] =
       [pc |-> "next", adds |-> adds, name |-> n, asked |-> rs, left |-> rs, ok |-> TRUE]]
  /\ owned' = IF adds THEN owned ELSE owned \ {<<c, r, n>> : r \in rs}
  /\ UNCHANGED locked

(* A client makes one call at a time, in its thread or in a callback. *)
Begin(c, adds, n, rs) ==
  /\ callee # c
  /\ MayBegin(c, adds, n, rs)
  /\ Began(c, adds, n, rs)
  /\ UNCHANGED <<registry, thread, standing>>

(* The name is counted. *)
Count(c, r) ==
  call' = [call EXCEPT ![c] = [pc |-> "counted", adds |-> @.adds, name |-> @.name,
    asked |-> @.asked, left |-> @.left, ok |-> @.ok, at |-> r,
    found |-> callbacks[r][@.name] # NoClient]]

(* Slip: the mutex is not taken. *)
CountWithoutLock(c, r) ==
  /\ call[c].pc = "next" /\ r \in call[c].left
  /\ Count(c, r)
  /\ UNCHANGED <<registry, locked, owned, thread, standing>>

(* Slip: a round keeps the mutex of its registry until its last callback   *)
(* has returned.                                                           *)
CountAfterRound(c, r) ==
  /\ call[c].pc = "next" /\ r \in call[c].left
  /\ r \notin locked /\ ~(r = target /\ stage \in {"call", "within", "publish"})
  /\ locked' = locked \cup {r}
  /\ Count(c, r)
  /\ UNCHANGED <<registry, owned, thread, standing>>

(* lock_guard, then count(name). *)
LockAndCount(c, r) ==
  /\ call[c].pc = "next" /\ r \in call[c].left
  /\ r \notin locked
  /\ locked' = locked \cup {r}
  /\ Count(c, r)
  /\ UNCHANGED <<registry, owned, thread, standing>>

(* The mutex is released and the call goes on with the next registry. *)
Unlock(c, ok) ==
  LET q == call[c]
  IN  /\ locked' = locked \ {q.at}
      /\ call' = [call EXCEPT ![c] = [pc |-> "next", adds |-> q.adds, name |-> q.name,
           asked |-> q.asked, left |-> q.left \ {q.at}, ok |-> q.ok /\ ok]]

(* insert leaves an entry that is there as it is. *)
Insert(c) ==
  /\ call[c].pc = "counted" /\ call[c].adds /\ ~call[c].found
  /\ callbacks' = [callbacks EXCEPT ![call[c].at][call[c].name] = IF @ = NoClient THEN c ELSE @]
  /\ Unlock(c, TRUE)
  /\ UNCHANGED <<classes, msgs, owned, thread, standing>>

Erase(c) ==
  /\ call[c].pc = "counted" /\ ~call[c].adds /\ call[c].found
  /\ callbacks' = [callbacks EXCEPT ![call[c].at][call[c].name] = NoClient]
  /\ standing' = IF call[c].at = target
                 THEN {x \in standing : x[1] # call[c].name} ELSE standing
  /\ Unlock(c, TRUE)
  /\ UNCHANGED <<classes, msgs, owned, thread>>

(* Err: the name is taken, or not there; ForEachMsg goes on with the other *)
(* messages and keeps what succeeded.                                      *)
Refuse(c) ==
  /\ call[c].pc = "counted" /\ call[c].adds = call[c].found
  /\ Unlock(c, FALSE)
  /\ UNCHANGED <<registry, owned, thread, standing>>

Return(c) ==
  /\ call[c].pc = "next" /\ call[c].left = {}
  /\ call' = [call EXCEPT ![c] = Idle]
  /\ owned' = IF call[c].adds /\ call[c].ok
              THEN owned \cup {<<c, r, call[c].name>> : r \in call[c].asked} ELSE owned
  /\ UNCHANGED <<registry, locked, thread, standing>>

Proceed(c) == Insert(c) \/ Erase(c) \/ Refuse(c) \/ Return(c)

Lock(c) == \E r \in Registries : LockAndCount(c, r)

Client(c) ==
  \/ \E adds \in BOOLEAN, q \in Asked[c] : Begin(c, adds, q[1], q[2])
  \/ Lock(c)
  \/ Proceed(c)

-----------------------------------------------------------------------------
(* The message thread. *)

Outside == <<registry, client, publisher>>

(* The callbacks of r are next. *)
Execute(r) ==
  /\ stage' = "execute" /\ target' = r
  /\ standing' = Entries(r)

(* while (m7xx_thread_running) ProcessMessages(). *)
Turn ==
  /\ stage = "head"
  /\ stage' = IF stop THEN "ended" ELSE "read"
  /\ UNCHANGED <<Outside, target, snapshot, callee, size, stop, bpDone, standing>>

(* PrepareData... returns what is in the buffer.  The callbacks of the port *)
(* get what is new, if anything is.                                        *)
Receive(n, new) ==
  /\ stage = "read"
  /\ new => n > 0
  /\ size' = n
  /\ IF n = 0 /\ stop
     THEN stage' = "head" /\ UNCHANGED <<target, standing>>
     ELSE Execute(IF new THEN Port ELSE BP)
  /\ UNCHANGED <<Outside, snapshot, callee, stop, bpDone>>

(* ExecuteCallbacks: callbacks_snapshot = callbacks, under the mutex. *)
TakeSnapshot ==
  /\ stage = "execute" /\ target \notin locked
  /\ snapshot' = Entries(target)
  /\ stage' = "call"
  /\ UNCHANGED <<Outside, target, callee, size, stop, bpDone, standing>>

Ran(x) == snapshot' = snapshot \ {x} /\ standing' = standing \ {x}

(* Slip: the loop ends at the first callback that returns Err. *)
RunUntilErr(x) ==
  /\ stage = "call" /\ x \in snapshot
  /\ snapshot' \in {snapshot \ {x}, {}} /\ standing' = standing \ {x}
  /\ UNCHANGED <<Outside, stage, target, callee, size, stop, bpDone>>

(* The callback returns, Ok or Err; an Err is logged. *)
Run(x) ==
  /\ stage = "call" /\ x \in snapshot
  /\ Ran(x)
  /\ UNCHANGED <<Outside, stage, target, callee, size, stop, bpDone>>

(* The callback calls the registry itself, in the message thread. *)
RunCalling(x, adds, n, rs) ==
  /\ stage = "call" /\ x \in snapshot
  /\ Ran(x)
  /\ MayBegin(x[2], adds, n, rs) /\ Began(x[2], adds, n, rs)
  /\ stage' = "within" /\ callee' = x[2]
  /\ UNCHANGED <<registry, target, size, stop, publisher, bpDone>>

CalleeReturns ==
  /\ stage = "within" /\ call[callee] = Idle
  /\ stage' = "call" /\ callee' = NoClient
  /\ UNCHANGED <<Outside, target, snapshot, size, stop, bpDone, standing>>

(* The node's callbacks test the publisher, and then use it.  A BESTP of   *)
(* another size than the structure's returns Err before that (Run).        *)
RunPublishing(x) ==
  /\ stage = "call" /\ x \in snapshot
  /\ x[2] = Node /\ target \in Messages
  /\ Ran(x)
  /\ stage' = IF publisher THEN "publish" ELSE "call"
  /\ UNCHANGED <<Outside, target, callee, size, stop, bpDone>>

Publish ==
  /\ stage = "publish"
  /\ stage' = "call"
  /\ UNCHANGED <<Outside, target, snapshot, callee, size, stop, bpDone, standing>>

(* Slip: a round that was told to stop ends without its AP callbacks. *)
ExecutedUnlessStopped ==
  /\ stage = "call" /\ snapshot = {}
  /\ bpDone' = (target = BP \/ target \in Messages)
  /\ IF target = Port THEN Execute(BP)
     ELSE /\ stage' = IF target = AP \/ stop THEN "head" ELSE "scan"
          /\ UNCHANGED <<target, standing>>
  /\ UNCHANGED <<Outside, snapshot, callee, size, stop>>

(* The last callback of target has returned. *)
Executed ==
  /\ stage = "call" /\ snapshot = {}
  /\ bpDone' = (target = BP \/ target \in Messages)
  /\ IF target = Port THEN Execute(BP)
     ELSE /\ stage' = IF target = AP THEN "head" ELSE "scan"
          /\ UNCHANGED <<target, standing>>
  /\ UNCHANGED <<Outside, snapshot, callee, size, stop>>

(* A frame of a supported message. *)
Deliver(m) ==
  /\ stage = "scan"
  /\ size > 0 /\ m \in msgs
  /\ size' = size - 1
  /\ Execute(m)
  /\ UNCHANGED <<Outside, snapshot, callee, stop, bpDone>>

(* What is left is not complete, or no frame. *)
ScanEnds ==
  /\ stage = "scan"
  /\ size' = 0
  /\ Execute(AP)
  /\ UNCHANGED <<Outside, snapshot, callee, stop, bpDone>>

Steps ==
  \/ Turn
  \/ TakeSnapshot
  \/ \E x \in snapshot : Run(x)
  \/ \E x \in snapshot : RunPublishing(x)
  \/ \E x \in snapshot : \E adds \in BOOLEAN, q \in Asked[x[2]] : RunCalling(x, adds, q[1], q[2])
  \/ CalleeReturns
  \/ Publish
  \/ Executed
  \/ \E m \in Messages : Deliver(m)
  \/ ScanEnds

Read == \E n \in 0 .. MaxFrames, new \in BOOLEAN : Receive(n, new)

-----------------------------------------------------------------------------
(* The node's other threads. *)

RequestStop ==
  /\ stage # "setup" /\ ~stop
  /\ stop' = TRUE
  /\ UNCHANGED <<Outside, stage, target, snapshot, callee, size, bpDone, standing>>

(* CreatePublisher, SetPeriodParameter: once, and for good. *)
CreatePublisher ==
  /\ ~publisher
  /\ publisher' = TRUE
  /\ UNCHANGED <<registry, client, stage, target, snapshot, callee, size, stop, bpDone, standing>>

Next ==
  \/ Setup
  \/ \E c \in Clients : Client(c)
  \/ Steps \/ Read
  \/ RequestStop \/ CreatePublisher

Spec == Init /\ [][Next]_vars

(* Threads run on, and one that waits for a mutex which is free again and  *)
(* again gets it.                                                          *)
FairSpec ==
  /\ Spec
  /\ WF_vars(Steps) /\ SF_vars(TakeSnapshot)
  /\ \A c \in Clients : WF_vars(Proceed(c)) /\ SF_vars(Lock(c))

-----------------------------------------------------------------------------
Calls ==
  {Idle} \cup
  [pc : {"next"}, adds : BOOLEAN, name : Names, asked : SUBSET Registries, left : SUBSET Registries, ok : BOOLEAN]
  \cup
  [pc : {"counted"}, adds : BOOLEAN, name : Names, asked : SUBSET Registries, left : SUBSET Registries,
   ok : BOOLEAN, at : Registries, found : BOOLEAN]

Pairs == Names \X Clients

(* A mutex is held by exactly one call, and only while it looks up and     *)
(* changes that registry; supported messages are messages of supported     *)
(* classes.                                                                *)
TypeOK ==
  /\ classes \subseteq Classes /\ msgs \subseteq classes \X Ids
  /\ callbacks \in [Registries -> [Names -> Clients \cup {NoClient}]]
  /\ call \in [Clients -> Calls]
  /\ \A c \in Clients : call[c] # Idle => call[c].left \subseteq call[c].asked
  /\ locked = {call[c].at : c \in {d \in Clients : call[d].pc = "counted"}}
  /\ \A c, d \in Clients :
       call[c].pc = "counted" /\ call[d].pc = "counted" /\ call[c].at = call[d].at => c = d
  /\ owned \subseteq Clients \X Registries \X Names
  /\ stage \in {"setup", "head", "read", "execute", "call", "within", "publish", "scan", "ended"}
  /\ target \in Registries /\ callee \in Clients \cup {NoClient}
  /\ snapshot \subseteq Pairs /\ standing \subseteq Pairs
  /\ size \in 0 .. MaxFrames
  /\ {stop, publisher, bpDone} \subseteq BOOLEAN

(* A client that was told Ok is registered, in every registry it asked     *)
(* for, until it unregisters: no other client's call under the same name   *)
(* gets in between the look-up and the insertion, or takes its place.      *)
OkMeansRegistered == \A o \in owned : callbacks[o[2]][o[3]] = o[1]

(* A frame, or a read, is shown to every callback that was there when it   *)
(* was found and was not unregistered since, whatever the callbacks before *)
(* it returned and did to the registry.                                    *)
EveryCallbackRuns == stage = "call" /\ snapshot = {} => standing = {}

(* The BP callbacks have run when frames are shown, and a round that ran   *)
(* them runs the AP callbacks too, also when it was told to stop.          *)
BpBeforeAp ==
  /\ stage \in {"head", "read", "ended"} => ~bpDone
  /\ stage = "scan" \/ (stage \in {"execute", "call"} /\ target \in Messages) => bpDone

(* The publisher that was tested is there when it is used, though another  *)
(* thread makes it.                                                        *)
TestedPublisherStays == stage = "publish" => publisher

(* A round ends: a callback that registers or unregisters, in the registry *)
(* that runs it or another, does not wait for a mutex its thread holds.    *)
RoundEnds == (stage = "execute") ~> (stage = "head")
=============================================================================
