----------------------- MODULE CallbackRegistry_proofs -----------------------
(***************************************************************************)
(* The registries, for any clients, names, classes and messages.  The      *)
(* invariant has two parts: what a call knows of the registry it is in     *)
(* (RegistryInv), and what the message thread knows of its round           *)
(* (RoundInv).                                                             *)
(***************************************************************************)
EXTENDS CallbackRegistry, TLAPS

USE RegistryAssumption

RegistryTypes ==
  /\ classes \subseteq Classes /\ msgs \subseteq classes \X Ids
  /\ callbacks \in [Registries -> [Names -> Clients \cup {NoClient}]]
  /\ owned \subseteq Clients \X Registries \X Names

CallTypes ==
  /\ call \in [Clients -> Calls]
  /\ \A c \in Clients : call[c] # Idle => call[c].left \subseteq call[c].asked

Mutexes ==
  /\ locked = {call[c].at : c \in {d \in Clients : call[d].pc = "counted"}}
  /\ \A c, d \in Clients :
       call[c].pc = "counted" /\ call[d].pc = "counted" /\ call[c].at = call[d].at => c = d

(* What a call may rely on: the look-up it made under the mutex, the       *)
(* entries it has made so far, and those it is about to erase.             *)
Knows(c) ==
  /\ call[c].asked \cap Messages \subseteq msgs
  /\ call[c].pc = "counted" =>
       /\ call[c].at \in call[c].left
       /\ call[c].found => callbacks[call[c].at][call[c].name] # NoClient
       /\ callbacks[call[c].at][call[c].name] # NoClient => call[c].found
  /\ call[c].adds /\ call[c].ok =>
       \A r \in call[c].asked \ call[c].left : callbacks[r][call[c].name] = c
  /\ ~call[c].adds =>
       \A r \in call[c].left : callbacks[r][call[c].name] = c /\ <<c, r, call[c].name>> \notin owned

CallsKnow == \A c \in Clients : call[c].pc # "idle" => Knows(c)

OwnedSupported == \A o \in owned : o[2] \in Messages => o[2] \in msgs

RegistryInv ==
  /\ RegistryTypes /\ CallTypes /\ Mutexes
  /\ CallsKnow /\ OwnedSupported /\ OkMeansRegistered

ThreadTypes ==
  /\ stage \in {"setup", "head", "read", "execute", "call", "within", "publish", "scan", "ended"}
  /\ target \in Registries /\ callee \in Clients \cup {NoClient}
  /\ snapshot \subseteq Pairs /\ standing \subseteq Pairs
  /\ size \in 0 .. MaxFrames
  /\ stop \in BOOLEAN /\ publisher \in BOOLEAN /\ bpDone \in BOOLEAN

(* Where the BP callbacks have run. *)
Progress ==
  /\ stage \in {"setup", "head", "read", "ended"} => bpDone = FALSE
  /\ stage = "scan" => bpDone = TRUE
  /\ stage \in {"execute", "call", "within", "publish"} =>
       IF target \in {Port, BP} THEN bpDone = FALSE ELSE bpDone = TRUE

(* Nobody who waits is missing from what is still to be run. *)
Standing ==
  /\ stage = "execute" => standing \subseteq Entries(target)
  /\ stage \in {"call", "within", "publish"} => standing \subseteq snapshot

RoundInv == ThreadTypes /\ Progress /\ Standing /\ (stage = "publish" => publisher = TRUE)

Inv == RegistryInv /\ RoundInv

-----------------------------------------------------------------------------
(* A call that runs is one of the two kinds of record. *)
LEMMA CallKinds ==
  ASSUME CallTypes, NEW c \in Clients
  PROVE  /\ call[c].pc = "idle" => call[c] = Idle
         /\ call[c] = Idle => call[c].pc = "idle"
         /\ call[c].pc \in {"idle", "next", "counted"}
         /\ call[c].pc # "idle" =>
              /\ call[c].adds \in BOOLEAN /\ call[c].name \in Names
              /\ call[c].asked \in SUBSET Registries /\ call[c].left \in SUBSET Registries
              /\ call[c].left \subseteq call[c].asked
              /\ call[c].ok \in BOOLEAN
         /\ call[c].pc = "counted" => call[c].at \in Registries /\ call[c].found \in BOOLEAN
<1>1. call[c] \in Calls
  BY DEF CallTypes
<1>2. CASE call[c] = Idle
  BY <1>2 DEF Idle
<1>3. CASE call[c] # Idle
  BY <1>1, <1>3 DEF CallTypes, Calls, Idle
<1>. QED
  BY <1>2, <1>3

(* The steps of the message thread leave the registry alone. *)
LEMMA RegistryStays ==
  ASSUME RegistryInv, UNCHANGED <<registry, client>>
  PROVE  RegistryInv'
BY DEF RegistryInv, RegistryTypes, CallTypes, Mutexes, CallsKnow, Knows, OwnedSupported,
       OkMeansRegistered, registry, client, Idle

(* A call of client c that begins. *)
LEMMA BeganKeeps ==
  ASSUME RegistryInv, NEW c \in Clients, NEW adds \in BOOLEAN, NEW n, NEW rs,
         MayBegin(c, adds, n, rs), Began(c, adds, n, rs), UNCHANGED registry
  PROVE  RegistryInv'
<1>. USE DEF RegistryInv
<1>1. n \in Names /\ rs \in SUBSET Registries
  BY DEF MayBegin
<1>. DEFINE q == [pc |-> "next", adds |-> adds, name |-> n, asked |-> rs, left |-> rs, ok |-> TRUE]
<1>2. call' = [call EXCEPT ![c] = q] /\ UNCHANGED locked
  BY DEF Began
<1>3. call[c].pc = "idle" /\ c \in DOMAIN call
  BY DEF MayBegin, Idle, CallTypes
<1>4. q \in Calls
  BY <1>1 DEF Calls
<1>5. owned' \subseteq owned
  BY DEF Began
<1>6. RegistryTypes'
  BY <1>5 DEF RegistryTypes, registry
<1>7. CallTypes'
  BY <1>2, <1>4 DEF CallTypes
<1>8. Mutexes'
  BY <1>2, <1>3 DEF Mutexes, CallTypes
<1>9. CallsKnow'
  <2>. SUFFICES ASSUME NEW d \in Clients, call'[d].pc # "idle"
                PROVE  Knows(d)'
    BY DEF CallsKnow
  <2>. UNCHANGED <<msgs, callbacks>>
    BY DEF registry
  <2>1. CASE d = c
    <3>1. call'[d] = q
      BY <2>1, <1>2 DEF CallTypes
    <3>2. rs \cap Messages \subseteq msgs
      BY DEF MayBegin
    <3>3. CASE adds
      BY <3>1, <3>2, <3>3 DEF Knows
    <3>4. CASE ~adds
      <4>1. \A r \in rs : <<c, r, n>> \in owned
        BY <3>4 DEF MayBegin
      <4>2. \A r \in rs : callbacks[r][n] = c
        BY <4>1 DEF OkMeansRegistered
      <4>3. \A r \in rs : <<c, r, n>> \notin owned'
        BY <3>4 DEF Began
      <4>. QED
        BY <3>1, <3>2, <3>4, <4>2, <4>3, <2>1 DEF Knows
    <3>. QED
      BY <3>3, <3>4
  <2>2. CASE d # c
    <3>1. call'[d] = call[d]
      BY <2>2, <1>2 DEF CallTypes
    <3>2. Knows(d)
      BY <3>1 DEF CallsKnow
    <3>. QED
      BY <3>1, <3>2, <1>5 DEF Knows
  <2>. QED
    BY <2>1, <2>2
<1>10. OwnedSupported' /\ OkMeansRegistered'
  BY <1>5 DEF OwnedSupported, OkMeansRegistered, registry
<1>. QED
  BY <1>6, <1>7, <1>8, <1>9, <1>10

-----------------------------------------------------------------------------
(* Before the message thread runs: nobody is in a call. *)
LEMMA SetupKeeps ==
  ASSUME RegistryInv, Setup
  PROVE  RegistryInv'
<1>. USE DEF RegistryInv
<1>1. CASE NoCalls /\ owned' \subseteq owned /\ UNCHANGED <<locked, call>>
  <2>1. CallTypes' /\ Mutexes'
    BY <1>1 DEF CallTypes, Mutexes, Idle
  <2>2. CallsKnow'
    BY <1>1 DEF CallsKnow, NoCalls, Idle
  <2>3. ASSUME NEW k \in Classes, UnregisterMessageClass(k)
        PROVE  RegistryInv'
    <3>1. owned' = {o \in owned : o[2] \notin {k} \X Ids} /\ UNCHANGED callbacks
      BY <2>3 DEF UnregisterMessageClass, Forget
    <3>2. classes' = classes \ {k} /\ msgs' = msgs \ ({k} \X Ids)
      BY <2>3 DEF UnregisterMessageClass
    <3>3. RegistryTypes'
      BY <3>1, <3>2 DEF RegistryTypes
    <3>4. OwnedSupported'
      BY <3>1, <3>2 DEF OwnedSupported
    <3>5. OkMeansRegistered'
      BY <3>1 DEF OkMeansRegistered
    <3>. QED
      BY <2>1, <2>2, <3>3, <3>4, <3>5
  <2>4. ASSUME NEW k \in Classes, NEW ids \in {{}, Ids}, RegisterMessageClass(k, ids)
        PROVE  RegistryInv'
    <3>1. classes' = classes \cup {k} /\ msgs' = msgs \cup ({k} \X ids) /\ UNCHANGED owned
      BY <2>4 DEF RegisterMessageClass, client
    <3>2. callbacks' = [r \in Registries |->
                         IF r \in {k} \X ids THEN [n \in Names |-> NoClient] ELSE callbacks[r]]
      BY <2>4 DEF RegisterMessageClass
    <3>3. RegistryTypes'
      BY <3>1, <3>2 DEF RegistryTypes
    <3>4. OwnedSupported'
      BY <3>1 DEF OwnedSupported
    <3>5. OkMeansRegistered'
      <4>. SUFFICES ASSUME NEW o \in owned PROVE callbacks'[o[2]][o[3]] = o[1]
        BY <3>1 DEF OkMeansRegistered
      <4>1. o[2] \in Registries /\ callbacks[o[2]][o[3]] = o[1]
        BY DEF OkMeansRegistered, RegistryTypes
      <4>2. k \notin classes
        BY <2>4 DEF RegisterMessageClass
      <4>3. o[2] \notin {k} \X ids
        BY <4>2 DEF OwnedSupported, RegistryTypes, Messages
      <4>. QED
        BY <3>2, <4>1, <4>3
    <3>. QED
      BY <2>1, <2>2, <3>3, <3>4, <3>5
  <2>5. ASSUME NEW m \in Messages, UnregisterMessage(m)
        PROVE  RegistryInv'
    <3>1. owned' = {o \in owned : o[2] \notin {m}} /\ UNCHANGED <<callbacks, classes>> /\ msgs' = msgs \ {m}
      BY <2>5 DEF UnregisterMessage, Forget
    <3>2. RegistryTypes' /\ OwnedSupported' /\ OkMeansRegistered'
      BY <3>1 DEF RegistryTypes, OwnedSupported, OkMeansRegistered
    <3>. QED
      BY <2>1, <2>2, <3>2
  <2>6. ASSUME NEW m \in Messages, NEW fresh \in BOOLEAN, NEW c \in Clients \cup {NoClient},
               RegisterMessage(m, fresh, c)
        PROVE  RegistryInv'
    <3>1. msgs' = msgs \cup {m} /\ UNCHANGED <<classes, owned>> /\ m[1] \in classes /\ m \notin msgs
      BY <2>6 DEF RegisterMessage, client
    <3>2. callbacks' = [callbacks EXCEPT ![m] = Brought(m, fresh, c)] /\ m \in Registries
      BY <2>6 DEF RegisterMessage, Registries
    <3>3. Brought(m, fresh, c) \in [Names -> Clients \cup {NoClient}]
      <4>1. callbacks[m] \in [Names -> Clients \cup {NoClient}]
        BY <3>2 DEF RegistryTypes
      <4>. QED
        BY <4>1 DEF Brought
    <3>4. RegistryTypes'
      <4>1. callbacks' \in [Registries -> [Names -> Clients \cup {NoClient}]]
        BY <3>2, <3>3 DEF RegistryTypes
      <4>2. msgs' \subseteq classes \X Ids
        BY <3>1 DEF RegistryTypes, Messages
      <4>. QED
        BY <3>1, <4>1, <4>2 DEF RegistryTypes
    <3>5. OwnedSupported'
      BY <3>1 DEF OwnedSupported
    <3>6. OkMeansRegistered'
      <4>. SUFFICES ASSUME NEW o \in owned PROVE callbacks'[o[2]][o[3]] = o[1]
        BY <3>1 DEF OkMeansRegistered
      <4>1. o[2] \in Registries /\ callbacks[o[2]][o[3]] = o[1]
        BY DEF OkMeansRegistered, RegistryTypes
      <4>2. o[2] # m
        BY <3>1 DEF OwnedSupported
      <4>. QED
        BY <3>2, <4>1, <4>2 DEF RegistryTypes
    <3>. QED
      BY <2>1, <2>2, <3>4, <3>5, <3>6
  <2>7. CASE StartThread
    BY <2>7, RegistryStays DEF StartThread
  <2>. QED
    BY <2>3, <2>4, <2>5, <2>6, <2>7 DEF Setup
<1>2. CASE StartThread
  BY <1>2, RegistryStays DEF StartThread
<1>3. Setup /\ ~StartThread => NoCalls /\ owned' \subseteq owned /\ UNCHANGED <<locked, call>>
  BY DEF Setup, UnregisterMessageClass, RegisterMessageClass, UnregisterMessage, RegisterMessage, Forget, client
<1>. QED
  BY <1>1, <1>2, <1>3

(* The steps of a call. *)
LEMMA LockAndCountKeeps ==
  ASSUME RegistryInv, NEW c \in Clients, NEW r \in Registries, LockAndCount(c, r)
  PROVE  RegistryInv'
<1>. USE DEF RegistryInv
<1>. DEFINE q == [pc |-> "counted", adds |-> call[c].adds, name |-> call[c].name,
                  asked |-> call[c].asked, left |-> call[c].left, ok |-> call[c].ok,
                  at |-> r, found |-> callbacks[r][call[c].name] # NoClient]
<1>1. /\ call[c].pc = "next" /\ r \in call[c].left
      /\ r \notin locked /\ locked' = locked \cup {r}
      /\ UNCHANGED <<classes, msgs, callbacks, owned>>
  BY DEF LockAndCount, registry
<1>2. call' = [call EXCEPT ![c] = q]
  BY DEF LockAndCount, Count
<1>3. /\ call[c].adds \in BOOLEAN /\ call[c].name \in Names
      /\ call[c].asked \in SUBSET Registries /\ call[c].left \in SUBSET Registries
      /\ call[c].ok \in BOOLEAN /\ call[c].left \subseteq call[c].asked
  BY <1>1, CallKinds
<1>4. q.found \in BOOLEAN
  OBVIOUS
<1>5. q \in Calls
  BY <1>3, <1>4 DEF Calls
<1>6. call'[c] = q /\ \A d \in Clients \ {c} : call'[d] = call[d]
  BY <1>2 DEF CallTypes
<1>7. RegistryTypes' /\ OwnedSupported' /\ OkMeansRegistered'
  BY <1>1 DEF RegistryTypes, OwnedSupported, OkMeansRegistered
<1>8. CallTypes'
  BY <1>2, <1>3, <1>5 DEF CallTypes
<1>9. Mutexes'
  <2>1. q.pc = "counted" /\ q.at = r
    OBVIOUS
  <2>2. \A d \in Clients : call[d].pc = "counted" => call[d].at \in locked
    BY DEF Mutexes
  <2>3. \A d \in Clients \ {c} : call[d].pc = "counted" => call[d].at # r
    BY <1>1, <2>2
  <2>4. locked' = {call'[d].at : d \in {d \in Clients : call'[d].pc = "counted"}}
    BY <1>1, <1>6, <2>1 DEF Mutexes
  <2>. QED
    BY <1>6, <2>1, <2>3, <2>4 DEF Mutexes
<1>10. CallsKnow'
  <2>. SUFFICES ASSUME NEW d \in Clients, call'[d].pc # "idle"
                PROVE  Knows(d)'
    BY DEF CallsKnow
  <2>1. CASE d = c
    <3>1. Knows(c)
      BY <1>1 DEF CallsKnow
    <3>2. /\ call'[c].pc = "counted" /\ call'[c].at = r /\ call'[c].adds = call[c].adds
          /\ call'[c].name = call[c].name /\ call'[c].asked = call[c].asked
          /\ call'[c].left = call[c].left /\ call'[c].ok = call[c].ok
      BY <1>6
    <3>3. call'[c].found = (callbacks[r][call[c].name] # NoClient)
      BY <1>6
    <3>4. /\ call'[c].found => callbacks'[r][call[c].name] # NoClient
          /\ callbacks'[r][call[c].name] # NoClient => call'[c].found
      BY <1>1, <3>3
    <3>5. /\ call[c].adds /\ call[c].ok =>
               \A s \in call[c].asked \ call[c].left : callbacks[s][call[c].name] = c
          /\ ~call[c].adds =>
               \A s \in call[c].left :
                 callbacks[s][call[c].name] = c /\ <<c, s, call[c].name>> \notin owned
          /\ call[c].asked \cap Messages \subseteq msgs
      BY <3>1 DEF Knows
    <3>. QED
      BY <1>1, <2>1, <3>2, <3>4, <3>5 DEF Knows
  <2>2. CASE d # c
    <3>1. call'[d] = call[d]
      BY <1>6, <2>2
    <3>2. Knows(d)
      BY <3>1 DEF CallsKnow
    <3>. QED
      BY <1>1, <3>1, <3>2 DEF Knows
  <2>. QED
    BY <2>1, <2>2
<1>. QED
  BY <1>7, <1>8, <1>9, <1>10

(* A call that leaves a registry: the record it goes on with. *)
Left(c, ok) ==
  [pc |-> "next", adds |-> call[c].adds, name |-> call[c].name, asked |-> call[c].asked,
   left |-> call[c].left \ {call[c].at}, ok |-> call[c].ok /\ ok]

LEMMA UnlockKeeps ==
  ASSUME CallTypes, Mutexes, NEW c \in Clients, call[c].pc = "counted", NEW ok \in BOOLEAN, Unlock(c, ok)
  PROVE  /\ CallTypes' /\ Mutexes'
         /\ call'[c] = Left(c, ok) /\ \A d \in Clients \ {c} : call'[d] = call[d]
<1>1. call' = [call EXCEPT ![c] = Left(c, ok)] /\ locked' = locked \ {call[c].at}
  BY DEF Unlock, Left
<1>2. /\ call[c].adds \in BOOLEAN /\ call[c].name \in Names
      /\ call[c].asked \in SUBSET Registries /\ call[c].left \in SUBSET Registries
      /\ call[c].ok \in BOOLEAN /\ call[c].left \subseteq call[c].asked
  BY CallKinds
<1>3. (call[c].ok /\ ok) \in BOOLEAN
  OBVIOUS
<1>4. Left(c, ok) \in Calls
  BY <1>2, <1>3 DEF Calls, Left
<1>5. call'[c] = Left(c, ok) /\ \A d \in Clients \ {c} : call'[d] = call[d]
  BY <1>1 DEF CallTypes
<1>6. Left(c, ok).left \subseteq Left(c, ok).asked
  BY <1>2 DEF Left
<1>7. CallTypes'
  BY <1>1, <1>4, <1>5, <1>6 DEF CallTypes
<1>8. Mutexes'
  <2>1. call'[c].pc = "next"
    BY <1>5 DEF Left
  <2>2. \A d \in Clients \ {c} : call[d].pc = "counted" => call[d].at # call[c].at
    BY DEF Mutexes
  <2>3. locked' = {call'[d].at : d \in {d \in Clients : call'[d].pc = "counted"}}
    BY <1>1, <1>5, <2>1, <2>2 DEF Mutexes
  <2>. QED
    BY <1>5, <2>1, <2>3 DEF Mutexes
<1>. QED
  BY <1>5, <1>7, <1>8

LEMMA InsertKeeps ==
  ASSUME RegistryInv, NEW c \in Clients, Insert(c)
  PROVE  RegistryInv'
<1>. USE DEF RegistryInv
<1>. DEFINE r == call[c].at
            n == call[c].name
<1>1. /\ call[c].pc = "counted" /\ call[c].adds /\ ~call[c].found
      /\ callbacks' = [callbacks EXCEPT ![r][n] = IF @ = NoClient THEN c ELSE @]
      /\ Unlock(c, TRUE)
      /\ UNCHANGED <<classes, msgs, owned>>
  BY DEF Insert
<1>2. r \in Registries /\ n \in Names
  BY <1>1, CallKinds
<1>3. Knows(c)
  BY <1>1 DEF CallsKnow
<1>4. callbacks[r][n] = NoClient
  BY <1>1, <1>3 DEF Knows
<1>5. /\ callbacks' \in [Registries -> [Names -> Clients \cup {NoClient}]]
      /\ callbacks'[r][n] = c
      /\ \A s \in Registries, k \in Names : s # r \/ k # n => callbacks'[s][k] = callbacks[s][k]
  BY <1>1, <1>2, <1>4 DEF RegistryTypes
<1>6. /\ CallTypes' /\ Mutexes'
      /\ call'[c] = Left(c, TRUE) /\ \A d \in Clients \ {c} : call'[d] = call[d]
  BY <1>1, UnlockKeeps
<1>7. RegistryTypes' /\ OwnedSupported'
  BY <1>1, <1>5 DEF RegistryTypes, OwnedSupported
<1>8. OkMeansRegistered'
  <2>. SUFFICES ASSUME NEW o \in owned PROVE callbacks'[o[2]][o[3]] = o[1]
    BY <1>1 DEF OkMeansRegistered
  <2>1. o[1] \in Clients /\ o[2] \in Registries /\ o[3] \in Names /\ callbacks[o[2]][o[3]] = o[1]
    BY DEF OkMeansRegistered, RegistryTypes
  <2>. QED
    BY <2>1, <1>4, <1>5
<1>9. CallsKnow'
  <2>. SUFFICES ASSUME NEW d \in Clients, call'[d].pc # "idle"
                PROVE  Knows(d)'
    BY DEF CallsKnow
  <2>1. CASE d = c
    <3>1. /\ call'[c].pc = "next" /\ call'[c].adds = TRUE /\ call'[c].name = n
          /\ call'[c].asked = call[c].asked /\ call'[c].left = call[c].left \ {r}
          /\ call'[c].ok = (call[c].ok /\ TRUE)
      BY <1>1, <1>6, CallKinds DEF Left
    <3>2. call'[c].ok => \A s \in call'[c].asked \ call'[c].left : callbacks'[s][n] = c
      <4>. SUFFICES ASSUME call[c].ok, NEW s \in call[c].asked \ (call[c].left \ {r})
                    PROVE  callbacks'[s][n] = c
        BY <3>1
      <4>1. CASE s = r
        BY <4>1, <1>5
      <4>2. CASE s # r
        <5>1. callbacks[s][n] = c
          BY <4>2, <1>1, <1>3 DEF Knows
        <5>2. s \in Registries
          BY CallKinds, <1>1
        <5>. QED
          BY <5>1, <5>2, <4>2, <1>2, <1>5
      <4>. QED
        BY <4>1, <4>2
    <3>3. call'[c].asked \cap Messages \subseteq msgs'
      BY <3>1, <1>1, <1>3, SMTT(30) DEF Knows
    <3>. QED
      BY <2>1, <3>1, <3>2, <3>3 DEF Knows
  <2>2. CASE d # c
    <3>1. call'[d] = call[d] /\ call[d].pc # "idle"
      BY <1>6, <2>2
    <3>2. Knows(d)
      BY <3>1 DEF CallsKnow
    <3>3. /\ call[d].name \in Names /\ call[d].asked \in SUBSET Registries
          /\ call[d].left \subseteq call[d].asked
          /\ call[d].pc = "counted" => call[d].at \in Registries /\ call[d].at # r
      BY <3>1, <2>2, <1>1, CallKinds DEF Mutexes
    <3>4. \A s \in Registries : callbacks[s][call[d].name] = d => callbacks'[s][call[d].name] = d
      BY <3>3, <1>4, <1>5
    <3>5. \A s \in Registries : s # r => callbacks'[s][call[d].name] = callbacks[s][call[d].name]
      BY <3>3, <1>5
    <3>6. call[d].pc = "counted" =>
             callbacks'[call[d].at][call[d].name] = callbacks[call[d].at][call[d].name]
      BY <3>3, <3>5
    <3>. QED
      BY <1>1, <3>1, <3>2, <3>3, <3>4, <3>6 DEF Knows
  <2>. QED
    BY <2>1, <2>2
<1>. QED
  BY <1>6, <1>7, <1>8, <1>9

LEMMA EraseKeeps ==
  ASSUME RegistryInv, NEW c \in Clients, Erase(c)
  PROVE  RegistryInv'
<1>. USE DEF RegistryInv
<1>. DEFINE r == call[c].at
            n == call[c].name
<1>1. /\ call[c].pc = "counted" /\ ~call[c].adds
      /\ callbacks' = [callbacks EXCEPT ![r][n] = NoClient]
      /\ Unlock(c, TRUE)
      /\ UNCHANGED <<classes, msgs, owned>>
  BY DEF Erase
<1>2. r \in Registries /\ n \in Names
  BY <1>1, CallKinds
<1>3. Knows(c)
  BY <1>1 DEF CallsKnow
<1>4. callbacks[r][n] = c /\ <<c, r, n>> \notin owned
  BY <1>1, <1>3 DEF Knows
<1>5. /\ callbacks' \in [Registries -> [Names -> Clients \cup {NoClient}]]
      /\ \A s \in Registries, k \in Names : s # r \/ k # n => callbacks'[s][k] = callbacks[s][k]
  BY <1>1, <1>2 DEF RegistryTypes
<1>6. /\ CallTypes' /\ Mutexes'
      /\ call'[c] = Left(c, TRUE) /\ \A d \in Clients \ {c} : call'[d] = call[d]
  BY <1>1, UnlockKeeps
<1>7. RegistryTypes' /\ OwnedSupported'
  BY <1>1, <1>5 DEF RegistryTypes, OwnedSupported
<1>8. OkMeansRegistered'
  <2>. SUFFICES ASSUME NEW o \in owned PROVE callbacks'[o[2]][o[3]] = o[1]
    BY <1>1 DEF OkMeansRegistered
  <2>1. o[1] \in Clients /\ o[2] \in Registries /\ o[3] \in Names /\ callbacks[o[2]][o[3]] = o[1]
    BY DEF OkMeansRegistered, RegistryTypes
  <2>2. o = <<o[1], o[2], o[3]>>
    BY DEF RegistryTypes
  <2>3. o[2] # r \/ o[3] # n
    BY <1>4, <2>1, <2>2
  <2>. QED
    BY <2>1, <2>3, <1>5
<1>9. CallsKnow'
  <2>. SUFFICES ASSUME NEW d \in Clients, call'[d].pc # "idle"
                PROVE  Knows(d)'
    BY DEF CallsKnow
  <2>1. CASE d = c
    <3>1. /\ call'[c].pc = "next" /\ call'[c].adds = call[c].adds /\ call'[c].name = n
          /\ call'[c].asked = call[c].asked /\ call'[c].left = call[c].left \ {r}
      BY <1>1, <1>6 DEF Left
    <3>2. \A s \in call[c].left \ {r} : callbacks'[s][n] = c /\ <<c, s, n>> \notin owned'
      <4>. SUFFICES ASSUME NEW s \in call[c].left, s # r
                    PROVE  callbacks'[s][n] = c /\ <<c, s, n>> \notin owned'
        OBVIOUS
      <4>1. callbacks[s][n] = c /\ <<c, s, n>> \notin owned
        BY <1>1, <1>3 DEF Knows
      <4>2. s \in Registries
        BY CallKinds, <1>1
      <4>. QED
        BY <4>1, <4>2, <1>1, <1>2, <1>5
    <3>3. call'[c].asked \cap Messages \subseteq msgs'
      BY <3>1, <1>1, <1>3 DEF Knows
    <3>. QED
      BY <1>1, <2>1, <3>1, <3>2, <3>3 DEF Knows
  <2>2. CASE d # c
    <3>1. call'[d] = call[d] /\ call[d].pc # "idle"
      BY <1>6, <2>2
    <3>2. Knows(d)
      BY <3>1 DEF CallsKnow
    <3>3. /\ call[d].name \in Names /\ call[d].asked \in SUBSET Registries
          /\ call[d].left \subseteq call[d].asked
          /\ call[d].pc = "counted" => call[d].at \in Registries /\ call[d].at # r
      BY <3>1, <2>2, <1>1, CallKinds DEF Mutexes
    <3>4. \A s \in Registries : callbacks[s][call[d].name] = d => callbacks'[s][call[d].name] = d
      BY <3>3, <1>4, <1>5, <2>2
    <3>5. \A s \in Registries : s # r => callbacks'[s][call[d].name] = callbacks[s][call[d].name]
      BY <3>3, <1>5
    <3>6. call[d].pc = "counted" =>
             callbacks'[call[d].at][call[d].name] = callbacks[call[d].at][call[d].name]
      BY <3>3, <3>5
    <3>. QED
      BY <1>1, <3>1, <3>2, <3>3, <3>4, <3>6 DEF Knows
  <2>. QED
    BY <2>1, <2>2
<1>. QED
  BY <1>6, <1>7, <1>8, <1>9

LEMMA RefuseKeeps ==
  ASSUME RegistryInv, NEW c \in Clients, Refuse(c)
  PROVE  RegistryInv'
<1>. USE DEF RegistryInv
<1>1. /\ call[c].pc = "counted" /\ call[c].adds = call[c].found
      /\ Unlock(c, FALSE)
      /\ UNCHANGED <<classes, msgs, callbacks, owned>>
  BY DEF Refuse, registry
<1>2. /\ CallTypes' /\ Mutexes'
      /\ call'[c] = Left(c, FALSE) /\ \A d \in Clients \ {c} : call'[d] = call[d]
  BY <1>1, UnlockKeeps
<1>3. RegistryTypes' /\ OwnedSupported' /\ OkMeansRegistered'
  BY <1>1 DEF RegistryTypes, OwnedSupported, OkMeansRegistered
<1>4. CallsKnow'
  <2>. SUFFICES ASSUME NEW d \in Clients, call'[d].pc # "idle"
                PROVE  Knows(d)'
    BY DEF CallsKnow
  <2>1. CASE d = c
    <3>1. /\ call'[c].pc = "next" /\ call'[c].adds = call[c].adds /\ call'[c].name = call[c].name
          /\ call'[c].asked = call[c].asked /\ call'[c].left = call[c].left \ {call[c].at}
          /\ call'[c].ok = (call[c].ok /\ FALSE)
      BY <1>2 DEF Left
    <3>2. ~call'[c].ok
      BY <3>1
    <3>3. Knows(c)
      BY <1>1 DEF CallsKnow
    <3>. QED
      BY <1>1, <2>1, <3>1, <3>2, <3>3 DEF Knows
  <2>2. CASE d # c
    <3>1. call'[d] = call[d] /\ call[d].pc # "idle"
      BY <1>2, <2>2
    <3>2. Knows(d)
      BY <3>1 DEF CallsKnow
    <3>. QED
      BY <1>1, <3>1, <3>2 DEF Knows
  <2>. QED
    BY <2>1, <2>2
<1>. QED
  BY <1>2, <1>3, <1>4

LEMMA ReturnKeeps ==
  ASSUME RegistryInv, NEW c \in Clients, Return(c)
  PROVE  RegistryInv'
<1>. USE DEF RegistryInv
<1>1. /\ call[c].pc = "next" /\ call[c].left = {}
      /\ call' = [call EXCEPT ![c] = Idle]
      /\ owned' = IF call[c].adds /\ call[c].ok
                  THEN owned \cup {<<c, r, call[c].name>> : r \in call[c].asked} ELSE owned
      /\ UNCHANGED <<classes, msgs, callbacks, locked>>
  BY DEF Return, registry
<1>2. call'[c] = Idle /\ \A d \in Clients \ {c} : call'[d] = call[d]
  BY <1>1 DEF CallTypes
<1>3. CallTypes'
  BY <1>1, <1>2 DEF CallTypes, Calls
<1>4. Mutexes'
  <2>1. call'[c].pc = "idle"
    BY <1>2 DEF Idle
  <2>. QED
    BY <1>1, <1>2, <2>1 DEF Mutexes
<1>5. call[c].name \in Names /\ call[c].asked \in SUBSET Registries
  BY <1>1, CallKinds
<1>6. RegistryTypes'
  BY <1>1, <1>5 DEF RegistryTypes
<1>7. Knows(c)
  BY <1>1 DEF CallsKnow
<1>8. OwnedSupported'
  <2>1. call[c].asked \cap Messages \subseteq msgs
    BY <1>7 DEF Knows
  <2>. QED
    BY <1>1, <2>1 DEF OwnedSupported
<1>9. call[c].adds /\ call[c].ok => \A r \in call[c].asked : callbacks[r][call[c].name] = c
  BY <1>1, <1>7 DEF Knows
<1>10. OkMeansRegistered'
  BY <1>1, <1>9 DEF OkMeansRegistered
<1>11. CallsKnow'
  <2>. SUFFICES ASSUME NEW d \in Clients, call'[d].pc # "idle"
                PROVE  Knows(d)'
    BY DEF CallsKnow
  <2>1. d # c /\ call'[d] = call[d] /\ Knows(d)
    BY <1>2 DEF Idle, CallsKnow
  <2>2. \A r, n : <<d, r, n>> \notin owned => <<d, r, n>> \notin owned'
    BY <1>1, <2>1
  <2>. QED
    BY <1>1, <2>1, <2>2 DEF Knows
<1>. QED
  BY <1>3, <1>4, <1>6, <1>8, <1>10, <1>11

(* Each step of a client. *)
LEMMA ClientKeeps ==
  ASSUME RegistryInv, NEW c \in Clients, Client(c)
  PROVE  RegistryInv'
<1>1. ASSUME NEW adds \in BOOLEAN, NEW q \in Asked[c], Begin(c, adds, q[1], q[2])
      PROVE  RegistryInv'
  BY <1>1, BeganKeeps DEF Begin
<1>2. ASSUME NEW r \in Registries, LockAndCount(c, r)
      PROVE  RegistryInv'
  BY <1>2, LockAndCountKeeps
<1>. QED
  BY <1>1, <1>2, InsertKeeps, EraseKeeps, RefuseKeeps, ReturnKeeps DEF Client, Lock, Proceed

(* The callback that calls the registry. *)
LEMMA RunCallingKeeps ==
  ASSUME RegistryInv, ThreadTypes, NEW x \in snapshot, NEW adds \in BOOLEAN, NEW q \in Asked[x[2]],
         RunCalling(x, adds, q[1], q[2])
  PROVE  RegistryInv'
<1>1. x[2] \in Clients
  BY DEF ThreadTypes, Pairs
<1>2. MayBegin(x[2], adds, q[1], q[2]) /\ Began(x[2], adds, q[1], q[2]) /\ UNCHANGED registry
  BY DEF RunCalling
<1>. QED
  BY <1>1, <1>2, BeganKeeps

LEMMA StepsKeepRegistry ==
  ASSUME RegistryInv, ThreadTypes, Steps
  PROVE  RegistryInv'
<1>1. ASSUME NEW x \in snapshot, NEW adds \in BOOLEAN, NEW q \in Asked[x[2]],
             RunCalling(x, adds, q[1], q[2])
      PROVE  RegistryInv'
  BY <1>1, RunCallingKeeps
<1>2. CASE Turn
  BY <1>2, RegistryStays DEF Turn, Outside
<1>3. CASE TakeSnapshot
  BY <1>3, RegistryStays DEF TakeSnapshot, Outside
<1>4. ASSUME NEW x \in snapshot, Run(x) \/ RunPublishing(x)
      PROVE  RegistryInv'
  BY <1>4, RegistryStays DEF Run, RunPublishing, Outside
<1>5. CASE CalleeReturns \/ Publish \/ Executed
  BY <1>5, RegistryStays DEF CalleeReturns, Publish, Executed, Outside
<1>6. ASSUME NEW m \in Messages, Deliver(m)
      PROVE  RegistryInv'
  BY <1>6, RegistryStays DEF Deliver, Outside
<1>7. CASE ScanEnds
  BY <1>7, RegistryStays DEF ScanEnds, Outside
<1>. QED
  BY <1>1, <1>2, <1>3, <1>4, <1>5, <1>6, <1>7 DEF Steps

LEMMA RegistryStep ==
  ASSUME RegistryInv, ThreadTypes, [Next]_vars
  PROVE  RegistryInv'
<1>1. CASE Setup
  BY <1>1, SetupKeeps
<1>2. ASSUME NEW c \in Clients, Client(c)
      PROVE  RegistryInv'
  BY <1>2, ClientKeeps
<1>3. CASE Steps
  BY <1>3, StepsKeepRegistry
<1>4. CASE Read
  BY <1>4, RegistryStays DEF Read, Receive, Outside
<1>5. CASE RequestStop \/ CreatePublisher
  BY <1>5, RegistryStays DEF RequestStop, CreatePublisher, Outside
<1>6. CASE UNCHANGED vars
  BY <1>6, RegistryStays DEF vars
<1>. QED
  BY <1>1, <1>2, <1>3, <1>4, <1>5, <1>6 DEF Next

-----------------------------------------------------------------------------
(* What a registry holds. *)
LEMMA EntriesAre ==
  ASSUME RegistryTypes, NEW r \in Registries
  PROVE  Entries(r) \subseteq Pairs
<1>1. callbacks[r] \in [Names -> Clients \cup {NoClient}]
  BY DEF RegistryTypes
<1>. QED
  BY <1>1 DEF Entries, Pairs

(* A call leaves the round as it is, except that what it erases is no      *)
(* longer waited for.                                                      *)
LEMMA ClientKeepsRound ==
  ASSUME RegistryInv, RoundInv, NEW c \in Clients, Client(c)
  PROVE  RoundInv'
<1>. USE DEF RoundInv
<1>1. UNCHANGED thread
  BY DEF Client, Begin, Lock, LockAndCount, Proceed, Insert, Erase, Refuse, Return
<1>2. UNCHANGED <<stage, target, snapshot, callee, size, stop, publisher, bpDone>>
  BY <1>1 DEF thread
<1>3. standing' \subseteq standing
  BY DEF Client, Begin, Lock, LockAndCount, Proceed, Insert, Erase, Refuse, Return
<1>4. ThreadTypes'
  BY <1>2, <1>3 DEF ThreadTypes
<1>5. Progress'
  BY <1>2 DEF Progress
<1>6. ASSUME stage = "execute"
      PROVE  standing' \subseteq Entries(target)'
  <2>. DEFINE r == call[c].at
              n == call[c].name
  <2>1. standing \subseteq Entries(target) /\ target \in Registries
    BY <1>6 DEF Standing, ThreadTypes
  <2>2. CASE Insert(c)
    <3>1. /\ call[c].pc = "counted" /\ call[c].adds /\ ~call[c].found
          /\ callbacks' = [callbacks EXCEPT ![r][n] = IF @ = NoClient THEN c ELSE @]
      BY <2>2 DEF Insert
    <3>2. r \in Registries /\ n \in Names
      BY <3>1, CallKinds DEF RegistryInv
    <3>3. \A k \in Names : callbacks[target][k] # NoClient => callbacks'[target][k] = callbacks[target][k]
      BY <2>1, <3>1, <3>2 DEF RegistryInv, RegistryTypes
    <3>. QED
      BY <1>2, <1>3, <2>1, <3>3 DEF Entries
  <2>3. CASE Erase(c)
    <3>1. /\ call[c].pc = "counted"
          /\ callbacks' = [callbacks EXCEPT ![r][n] = NoClient]
          /\ standing' = IF r = target THEN {x \in standing : x[1] # n} ELSE standing
      BY <2>3 DEF Erase
    <3>2. r \in Registries /\ n \in Names
      BY <3>1, CallKinds DEF RegistryInv
    <3>3. \A k \in Names : r # target \/ k # n => callbacks'[target][k] = callbacks[target][k]
      BY <2>1, <3>1, <3>2 DEF RegistryInv, RegistryTypes
    <3>4. \A x \in standing' : x[1] \in Names /\ (r # target \/ x[1] # n) /\ x \in Entries(target)
      BY <2>1, <3>1 DEF Entries
    <3>. QED
      BY <1>2, <3>3, <3>4 DEF Entries
  <2>4. CASE UNCHANGED callbacks
    BY <1>2, <1>3, <2>1, <2>4 DEF Entries
  <2>5. Insert(c) \/ Erase(c) \/ UNCHANGED callbacks
    BY DEF Client, Begin, Lock, LockAndCount, Proceed, Refuse, Return, registry
  <2>. QED
    BY <2>2, <2>3, <2>4, <2>5
<1>7. Standing'
  BY <1>2, <1>3, <1>6 DEF Standing
<1>. QED
  BY <1>2, <1>4, <1>5, <1>7

(* The registries of the port, of the round and of the messages are apart. *)
LEMMA Apart ==
  /\ Port \in Registries /\ BP \in Registries /\ AP \in Registries
  /\ Port # BP /\ Port # AP /\ BP # AP
  /\ \A m \in Messages : m \in Registries /\ m # Port /\ m # BP /\ m # AP
<1>1. Port # BP /\ Port # AP /\ BP # AP
  BY DEF Port, BP, AP
<1>. QED
  BY <1>1 DEF Registries

(* Before the thread runs there is no round. *)
LEMMA SetupKeepsRound ==
  ASSUME RoundInv, Setup
  PROVE  RoundInv'
<1>. USE DEF RoundInv
<1>1. stage = "setup" /\ stage' \in {"setup", "head"}
  BY DEF Setup, UnregisterMessageClass, RegisterMessageClass, UnregisterMessage, RegisterMessage,
         StartThread, thread
<1>2. UNCHANGED <<target, snapshot, callee, size, stop, publisher, bpDone, standing>>
  BY DEF Setup, UnregisterMessageClass, RegisterMessageClass, UnregisterMessage, RegisterMessage,
         StartThread, thread
<1>3. ThreadTypes'
  BY <1>1, <1>2 DEF ThreadTypes
<1>4. Progress' /\ Standing'
  BY <1>1, <1>2 DEF Progress, Standing
<1>. QED
  BY <1>1, <1>3, <1>4

(* The callbacks of a registry are taken up: all that are there stand.     *)
LEMMA ExecuteKeepsRound ==
  ASSUME RegistryInv, RoundInv, NEW r \in Registries, Execute(r),
         UNCHANGED <<callbacks, snapshot, callee, stop, publisher>>,
         size' \in 0 .. MaxFrames, bpDone' \in BOOLEAN,
         IF r \in {Port, BP} THEN bpDone' = FALSE ELSE bpDone' = TRUE
  PROVE  RoundInv'
<1>. USE DEF RoundInv
<1>1. stage' = "execute" /\ target' = r /\ standing' = Entries(r)
  BY DEF Execute
<1>2. Entries(r)' = Entries(r)
  BY DEF Entries
<1>3. standing' \subseteq Pairs
  BY <1>1, EntriesAre DEF RegistryInv
<1>4. ThreadTypes'
  BY <1>1, <1>3 DEF ThreadTypes
<1>5. Progress'
  BY <1>1 DEF Progress
<1>6. Standing'
  BY <1>1, <1>2 DEF Standing, Entries
<1>. QED
  BY <1>1, <1>4, <1>5, <1>6

(* A step inside the execution of one registry's callbacks. *)
LEMMA CallingKeepsRound ==
  ASSUME RoundInv, stage \in {"call", "within", "publish"}, stage' \in {"call", "within", "publish"},
         UNCHANGED <<target, size, stop, publisher, bpDone>>,
         callee' \in Clients \cup {NoClient},
         \/ UNCHANGED <<snapshot, standing>>
         \/ \E x \in snapshot : Ran(x),
         stage' = "publish" => publisher = TRUE
  PROVE  RoundInv'
<1>. USE DEF RoundInv
<1>1. snapshot' \subseteq snapshot /\ standing' \subseteq standing /\ standing' \subseteq snapshot'
  BY DEF Ran, Standing
<1>2. ThreadTypes'
  BY <1>1 DEF ThreadTypes
<1>3. Progress'
  BY DEF Progress
<1>4. Standing'
  BY <1>1 DEF Standing
<1>. QED
  BY <1>2, <1>3, <1>4

(* The steps of the message thread. *)
LEMMA StepsKeepRound ==
  ASSUME RegistryInv, RoundInv, Steps
  PROVE  RoundInv'
<1>. USE DEF RoundInv
<1>1. CASE Turn
  <2>1. /\ stage = "head" /\ stage' \in {"ended", "read"}
        /\ UNCHANGED <<target, snapshot, callee, size, stop, publisher, bpDone, standing>>
    BY <1>1 DEF Turn, Outside
  <2>2. ThreadTypes' /\ Progress' /\ Standing'
    BY <2>1 DEF ThreadTypes, Progress, Standing
  <2>. QED
    BY <2>1, <2>2
<1>2. CASE TakeSnapshot
  <2>1. /\ stage = "execute" /\ stage' = "call" /\ snapshot' = Entries(target)
        /\ UNCHANGED <<target, callee, size, stop, publisher, bpDone, standing>>
    BY <1>2 DEF TakeSnapshot, Outside
  <2>2. snapshot' \subseteq Pairs
    BY <2>1, EntriesAre DEF RegistryInv, ThreadTypes
  <2>3. ThreadTypes'
    BY <2>1, <2>2 DEF ThreadTypes
  <2>4. Progress' /\ Standing'
    BY <2>1 DEF Progress, Standing
  <2>. QED
    BY <2>1, <2>3, <2>4
<1>3. ASSUME NEW x \in snapshot, Run(x)
      PROVE  RoundInv'
  BY <1>3, CallingKeepsRound DEF Run, Outside, ThreadTypes
<1>4. ASSUME NEW x \in snapshot, RunPublishing(x)
      PROVE  RoundInv'
  <2>1. /\ stage = "call" /\ Ran(x)
        /\ stage' = IF publisher THEN "publish" ELSE "call"
        /\ UNCHANGED <<target, callee, size, stop, publisher, bpDone>>
    BY <1>4 DEF RunPublishing, Outside
  <2>2. CASE publisher = TRUE
    BY <2>1, <2>2, CallingKeepsRound DEF ThreadTypes
  <2>3. CASE publisher = FALSE
    BY <2>1, <2>3, CallingKeepsRound DEF ThreadTypes
  <2>. QED
    BY <2>2, <2>3 DEF ThreadTypes
<1>5. ASSUME NEW x \in snapshot, NEW adds \in BOOLEAN, NEW q \in Asked[x[2]],
             RunCalling(x, adds, q[1], q[2])
      PROVE  RoundInv'
  <2>1. /\ stage = "call" /\ Ran(x) /\ stage' = "within" /\ callee' = x[2]
        /\ UNCHANGED <<target, size, stop, publisher, bpDone>>
    BY <1>5 DEF RunCalling
  <2>2. x[2] \in Clients
    BY DEF ThreadTypes, Pairs
  <2>. QED
    BY <2>1, <2>2, CallingKeepsRound
<1>6. CASE CalleeReturns
  BY <1>6, CallingKeepsRound DEF CalleeReturns, Outside
<1>7. CASE Publish
  BY <1>7, CallingKeepsRound DEF Publish, Outside, ThreadTypes
<1>8. CASE Executed
  <2>1. /\ stage = "call" /\ bpDone' = (target = BP \/ target \in Messages)
        /\ UNCHANGED <<callbacks, snapshot, callee, size, stop, publisher>>
    BY <1>8 DEF Executed, Outside, registry
  <2>2. CASE target = Port
    <3>1. bpDone' = FALSE
      BY <2>1, <2>2, Apart
    <3>2. Execute(BP)
      BY <1>8, <2>2 DEF Executed
    <3>. QED
      BY <2>1, <3>1, <3>2, Apart, ExecuteKeepsRound DEF ThreadTypes
  <2>3. CASE target # Port
    <3>1. /\ stage' = IF target = AP THEN "head" ELSE "scan"
          /\ UNCHANGED <<target, standing>>
      BY <1>8, <2>3 DEF Executed
    <3>2. CASE target = AP
      <4>1. bpDone' = FALSE /\ stage' = "head"
        BY <2>1, <3>1, <3>2, Apart
      <4>2. ThreadTypes' /\ Progress' /\ Standing'
        BY <2>1, <3>1, <4>1 DEF ThreadTypes, Progress, Standing
      <4>. QED
        BY <4>1, <4>2
    <3>3. CASE target # AP
      <4>1. target = BP \/ target \in Messages
        BY <2>3, <3>3 DEF ThreadTypes, Registries
      <4>2. bpDone' = TRUE /\ stage' = "scan"
        BY <2>1, <3>1, <3>3, <4>1
      <4>3. ThreadTypes' /\ Progress' /\ Standing'
        BY <2>1, <3>1, <4>2 DEF ThreadTypes, Progress, Standing
      <4>. QED
        BY <4>2, <4>3
    <3>. QED
      BY <3>2, <3>3
  <2>. QED
    BY <2>2, <2>3
<1>9. ASSUME NEW m \in Messages, Deliver(m)
      PROVE  RoundInv'
  <2>1. /\ stage = "scan" /\ size > 0 /\ size' = size - 1 /\ Execute(m)
        /\ UNCHANGED <<callbacks, snapshot, callee, stop, publisher, bpDone>>
    BY <1>9 DEF Deliver, Outside, registry
  <2>2. size' \in 0 .. MaxFrames
    BY <2>1 DEF ThreadTypes
  <2>3. bpDone' = TRUE
    BY <2>1 DEF Progress
  <2>. QED
    BY <2>1, <2>2, <2>3, Apart, ExecuteKeepsRound
<1>10. CASE ScanEnds
  <2>1. /\ stage = "scan" /\ size' = 0 /\ Execute(AP)
        /\ UNCHANGED <<callbacks, snapshot, callee, stop, publisher, bpDone>>
    BY <1>10 DEF ScanEnds, Outside, registry
  <2>2. size' \in 0 .. MaxFrames
    BY <2>1
  <2>3. bpDone' = TRUE
    BY <2>1 DEF Progress
  <2>. QED
    BY <2>1, <2>2, <2>3, Apart, ExecuteKeepsRound
<1>. QED
  BY <1>1, <1>2, <1>3, <1>4, <1>5, <1>6, <1>7, <1>8, <1>9, <1>10 DEF Steps

LEMMA ReadKeepsRound ==
  ASSUME RegistryInv, RoundInv, Read
  PROVE  RoundInv'
<1>. USE DEF RoundInv
<1>1. PICK n \in 0 .. MaxFrames, new \in BOOLEAN : Receive(n, new)
  BY DEF Read
<1>2. /\ stage = "read" /\ size' = n
      /\ UNCHANGED <<callbacks, snapshot, callee, stop, publisher, bpDone>>
  BY <1>1 DEF Receive, Outside, registry
<1>3. bpDone' = FALSE
  BY <1>2 DEF Progress
<1>4. CASE n = 0 /\ stop
  <2>1. stage' = "head" /\ UNCHANGED <<target, standing>>
    BY <1>1, <1>4 DEF Receive
  <2>2. ThreadTypes' /\ Progress' /\ Standing'
    BY <1>2, <1>3, <2>1 DEF ThreadTypes, Progress, Standing
  <2>. QED
    BY <2>1, <2>2
<1>5. CASE ~(n = 0 /\ stop)
  <2>1. PICK r \in {Port, BP} : Execute(r)
    BY <1>1, <1>5 DEF Receive
  <2>. QED
    BY <1>2, <1>3, <2>1, Apart, ExecuteKeepsRound
<1>. QED
  BY <1>4, <1>5

LEMMA RoundStep ==
  ASSUME RegistryInv, RoundInv, [Next]_vars
  PROVE  RoundInv'
<1>1. CASE RequestStop \/ CreatePublisher \/ UNCHANGED vars
  <2>1. /\ UNCHANGED <<callbacks, stage, target, snapshot, callee, size, bpDone, standing>>
        /\ stop' \in BOOLEAN /\ publisher' \in BOOLEAN
        /\ publisher = TRUE => publisher' = TRUE
    BY <1>1 DEF RequestStop, CreatePublisher, Outside, vars, registry, thread, RoundInv, ThreadTypes
  <2>2. ThreadTypes' /\ Progress'
    BY <2>1 DEF RoundInv, ThreadTypes, Progress
  <2>3. Standing'
    BY <2>1 DEF RoundInv, Standing, Entries
  <2>. QED
    BY <2>1, <2>2, <2>3 DEF RoundInv
<1>. QED
  BY <1>1, SetupKeepsRound, ClientKeepsRound, StepsKeepRound, ReadKeepsRound DEF Next

-----------------------------------------------------------------------------
LEMMA InitInv == Init => Inv
<1>. SUFFICES ASSUME Init PROVE Inv
  OBVIOUS
<1>1. \A c \in Clients : call[c] = Idle /\ call[c].pc = "idle"
  BY DEF Init, Idle
<1>2. RegistryTypes
  BY DEF Init, RegistryTypes, Messages
<1>3. CallTypes
  BY <1>1 DEF Init, CallTypes, Calls
<1>4. Mutexes /\ CallsKnow
  BY <1>1 DEF Init, Mutexes, CallsKnow
<1>5. OwnedSupported /\ OkMeansRegistered
  BY DEF Init, OwnedSupported, OkMeansRegistered
<1>6. ThreadTypes
  <2>1. 0 \in 0 .. MaxFrames
    OBVIOUS
  <2>. QED
    BY <2>1, Apart DEF Init, ThreadTypes
<1>7. RoundInv
  BY <1>6 DEF Init, RoundInv, Progress, Standing
<1>. QED
  BY <1>2, <1>3, <1>4, <1>5, <1>7 DEF Inv, RegistryInv

(* What a call knows of the registry it is in, and the message thread of   *)
(* its round, always holds, however the clients' calls (RegisterCallback,  *)
(* UnregisterCallback) and the thread (ExecuteCallbacks) interleave.       *)
THEOREM RegistryInvariant == Spec => []Inv
<1>1. Inv /\ [Next]_vars => Inv'
  BY RegistryStep, RoundStep DEF Inv, RoundInv
<1>. QED
  BY InitInv, <1>1, PTL DEF Spec

(* The variables have their types, and a mutex is held by one call: the    *)
(* one that looks up or changes the registry it guards.                    *)
THEOREM TypeCorrect == Spec => []TypeOK
<1>1. Inv => TypeOK
  BY DEF Inv, RegistryInv, RoundInv, RegistryTypes, CallTypes, Mutexes, ThreadTypes, TypeOK
<1>. QED
  BY RegistryInvariant, <1>1, PTL

(* A client whose register call returned Ok is under its name in every     *)
(* registry it asked for until it unregisters: look-up and insertion are   *)
(* one step for every other client.                                        *)
THEOREM OkIsRegistered == Spec => []OkMeansRegistered
<1>1. Inv => OkMeansRegistered
  BY DEF Inv, RegistryInv
<1>. QED
  BY RegistryInvariant, <1>1, PTL

(* No callback that stood when its frame or read was found is missed,      *)
(* whatever the callbacks before it register and unregister: the thread    *)
(* runs its copy to the end.                                               *)
THEOREM EveryCallbackIsRun == Spec => []EveryCallbackRuns
<1>1. Inv => EveryCallbackRuns
  BY DEF Inv, RoundInv, Standing, EveryCallbackRuns
<1>. QED
  BY RegistryInvariant, <1>1, PTL

(* The callbacks before parsing have run when a frame is shown, and the    *)
(* ones after parsing close the round, also when a stop comes in between.  *)
THEOREM BpComesBeforeAp == Spec => []BpBeforeAp
<1>1. Inv => BpBeforeAp
  BY Apart DEF Inv, RoundInv, Progress, BpBeforeAp
<1>. QED
  BY RegistryInvariant, <1>1, PTL

(* The publisher the node's callback tested is there when it publishes:    *)
(* the executor makes it once and nothing takes it away.                   *)
THEOREM PublisherStays == Spec => []TestedPublisherStays
<1>1. Inv => TestedPublisherStays
  BY DEF Inv, RoundInv, TestedPublisherStays
<1>. QED
  BY RegistryInvariant, <1>1, PTL
=============================================================================
