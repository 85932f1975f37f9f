# A verification project for the CHCNAV GNSS module ROS driver

The repository holds two ROS drivers for one GNSS receiver, `src/ros2/driver`
(rclcpp) and `src/ros1/driver` (roscpp). Below the ROS layer the two trees are
nearly the same code (the serial port, the linear buffer, the ring and the
message classes are identical files). Line references below are to the ROS 2
tree unless they say otherwise; where a file is the same in both trees, a module
that models it for the second time names the ROS 1 copy in its `map`.

## 1. Inventory

The program is one process with three kinds of threads:

| thread | runs | started by |
| --- | --- | --- |
| executor | service and parameter callbacks, the RTCM subscription, the destructor | rclcpp / ROS |
| message thread (`m7xx_thread`) | `HuaceM7xxDriver::ProcessMessages` in a loop, and from it every callback | `HuaceM7xxDriverNode::Init` |
| read thread (`read_thread`) | the loop of `SerialPort::SetupSeparateThread` | the driver's constructor |

| component | state | operations | interacts with |
| --- | --- | --- | --- |
| **Bipartite ring** `BipartiteBuf` | array, `_r`, `_w`, `_i`, `_write_wrapped`, `_read_wrapped` | `WriteAcquire/Release`, `ReadAcquire/Release` | read thread writes, message thread reads; no lock |
| **Serial port** `SerialPort` | descriptor, stop flags, semaphore, stop event, ring, linear `Buffer` | read loop, `PrepareDataFromBipBuffer`, `RequestStop`, `Submit`, `SetBaudRate`, `SetBlockMode`, destructor | ring; node's shutdown; parser |
| **Frame parser** `ProcessMessages`, `MessageClass*`, `Message*`, `Buffer` | the container and its two pointers, the registries | match, parse, check, drop, resynchronise, reorganize | fed by the port, runs callbacks |
| **Callback registries** `Message`, `MessageClass`, `IOInterface`, BP/AP | maps name -> function, each with a mutex; maps of classes and messages without one | register, unregister, execute a snapshot | any thread registers, message thread executes |
| **Commands and answers** `GetCommandResponseErrorCode`, `parameter_callback`, `SetPeriodParameter`, `ServiceCallback*` | one waiter per call, registry, cached periods, parameters, publishers | send, wait, conclude | executor and message thread, through a waiter shared by both; the receiver |
| **Requests and the wire** `RequestMessage`, `ExecuteCommand`, `SendMessage`, `Submit`, `Command*` | `write_mutex` | compose a line with its check, write it | every thread that commands or corrects; the receiver |
| **Baud rate search** `AutoSetBaudrate` | port rate and mode, callback with a pointer to a local | try each rate, listen, judge | port, receiver |
| **Node life cycle** | `shutdown_started`, `m7xx_thread_running`, the two `std::thread`s, the driver, the static log functions | `Init` (which may throw), `BeginShutdown`, destructors, loading and unloading | all of the above |
| Checksums, publishers, file port, log output | little or none | formatting, copying | |

What is hard here: a lock-free ring whose producer retries without releasing;
token counting between a semaphore and a ring; a shutdown that has to wake two
threads blocked in two different system calls, each with one token; a byte
stream cut at any place, in a container that keeps the bytes of earlier frames;
callbacks that run on a copy of the registry, hence after they were
unregistered, and that may register themselves; answers that do not say which
command they answer and may be late, even later than the node that asked;
several parameters in one request; several writers and writes that are cut off;
system calls that fail half way through. `PROJECT.json` lists the hazards with
their lines.

What makes each part correct:

- ring: no byte is written while it may be read; bytes come out once, in order;
- port: a byte in the ring is never left without a wakeup; a stop reaches both
  threads; nothing is destroyed while a thread uses it; every byte is consumed;
- parser: the buffer is a window on the stream; what is delivered depends on the
  bytes, not on how they were cut; an intact frame is not lost to rubbish in
  front of it; each scan ends;
- registries: Ok means registered, whoever else registers; no callback is left
  out of a round; a round ends although its callbacks call the registry;
- commands: every call ends; the result, the cached period, the ROS parameter,
  the publisher and the receiver agree about what was set;
- wire: texts go out one after the other, and the receiver obeys what returned
  Ok and nothing else;
- life cycle and baud rate: however a node ends, a constructor that throws half
  way included, its threads are joined, the device is closed and the destruction
  comes to an end; a read thread runs only when both ends are at the rate wanted;
  a receiver that answers in time is found.

## 2. Plan

The modules, in the order in which the behaviour matters; all are written.

| module | models | abstract specification | run | proved |
| --- | --- | --- | --- | --- |
| `ByteFifo` | what the ring promises | itself | in `ring` | - |
| `BipartiteBuf` | the ring, one action per load or store | `ByteFifo` | `ring` | all safety |
| `SerialPort` | three threads on that fifo | the ring is its abstract fifo | `port`, `port_full` | all safety |
| `LinearBuffer` | `Buffer` and how the ports refill it, as operators | - | in `parser` | lemmas |
| `FrameParser` | `ProcessMessages` on that buffer | the frames of the whole stream | `parser` | all safety |
| `NodeCommands` | commands and answers of both nodes | - | `node_*` | all safety |
| `NodeLifecycle` | construction that fails, unloading, main | - | in `start` | all safety |
| `AutoBaud` | the baud rate search | - | in `start` | in `DriverStart_proofs` |
| `DriverStart` | `NodeLifecycle` with `AutoBaud` in it | `NodeLifecycle` | `start` | all safety |
| `CallbackRegistry` | classes, messages and callbacks with several clients | - | `registry` | all safety |
| `CommandLine` | the text of a command and its check, as operators | - | in `wire` | in `CommandWire_proofs` |
| `CommandChannel` | what `SendMessage` promises | itself | in `wire` | - |
| `CommandWire` | several callers, `write_mutex`, writes that are cut off | `CommandChannel` | `wire` | all safety |

Each `X_proofs` module extends `X` and holds its theorems; `MCX` and `X.cfg`
instantiate it for TLC. `SerialPort` composes with `ByteFifo`, `FrameParser`
with `LinearBuffer`, `DriverStart` with `NodeLifecycle` and `AutoBaud`, and
`CommandWire` with `CommandLine`. What could still be added: a callback
of a second executor thread beside the destructor.

## 3. Modules and the code

### ByteFifo, BipartiteBuf (`bipartite_buf_impl.hpp`)

Variables have the code's names without the underscore. `wpc` and `rpc` are the
places of the read thread (the producer) and the message thread (the consumer).
`AcquireLinear/Wrapped/Refused` are the three ways out of `WriteAcquire`;
`WriteRelease` is two actions because the code stores `_i` before `_w`, and
`ReadAcquire` is two because it loads `_w` before `_i`. `NothingRead` is the
loop of the port that acquires again without releasing. Each slot holds the
number of the byte, so that a byte that is lost, repeated or overtaken is seen
in `data`. Loads and stores are sequentially consistent or acquire/release on
one atomic each; the model interleaves them and does not model weaker reorderings
(the code's memory orders are acquire on the other side's index and release on
its own, which forbid the ones that would matter).

### SerialPort (`serialport.cpp`, shutdown in `huace_m7xx_ros_driver_node.cpp`)

The read thread (`Read*`, `Poll*`), the message thread (`Message*`, `Drain*`,
`Parse`) and the destructor (`BeginShutdown` ... `JoinRead`). The ring is what
module ByteFifo promises of it (bytes counted, not numbered). `Parse` keeps any
tail of at most `MaxTail` bytes. The destructor's order, `m7xx_thread_running`
first, then `RequestStop` (flag, running flag, event, token), then the two joins,
is `StageAfter`. The read thread may also end by a failure of the device.

### LinearBuffer, FrameParser (`buffer.cpp`, `iointerface.cpp`, `fileport.cpp`, `huace_m7xx_ros_driver.cpp:254-376`, `MessageClass/*`, `Message/*`)

A buffer is a record of the container and the two pointers. The container keeps
its size and whatever it held outside the pointers, so that a search or a match
that looks one byte too far finds an old one. `Reorganization`, `Refill`
(`PrepareData...`), `Peek`, `Find`, `PeekLine` and `Drop` are pure operators on it.

A stream of tokens is cut by `Prepare` at any place. There is one token for each
class's identifier, digits for lengths, names and a parity that stands for the
checksums, `r` and `n` for the line end. The classes are tried in the order of
the map (`ClassAt`): the first that is not "no match" decides, and a truncated
match makes the loop wait. `Deliver` is PARSEDONE, `DropByte` the three results
that drop one byte, `KeepTail` DATATRUNCATE. `Frames` is the reference: the
frames of the whole stream, by a recursive function over positions that knows no
buffer; `PiecesDoNotMatter` compares what was delivered with it. `tapped` is
what the callbacks of the port got out of the container.

### NodeCommands (`Parser/response.cpp`, `.tpp`, `Parameter/`, `Service/`)

One module for both nodes; `Ros` is 1 or 2. `Begin(r)` is a request (a service
call or a `set_parameters_atomically` with up to `Batch` parameters);
`Register`, `Send`, `WaitAnswered/WaitTimeout`, `Unregister`, `CopyErrorCode`
are `GetCommandResponseErrorCode`, `Settle` is the end of `SetPeriodParameter`,
`Finish` what rclcpp and the service do with the result. The message thread is
`Fetch` (the snapshot), `SetErrorCode` and `Notify`, three steps because the
code is set under one lock, the token posted later, and the snapshot is executed
without a lock: after a time-out it may run for an ended call while the next one
waits, and `AnsweredHasCode` has that it does not wake that one. ROS 2 judges a call by its code alone, ROS 1 by result and code
(`Accepted`, `Publishes`, `Report`).

External, modelled from their use: rclcpp (stores the parameters of a request
that the callback accepts, all or none) and the receiver (takes commands in
order, executes or refuses each, and answers each; with `Faults` it may miss a
command and its answer may be lost; with `Faults` a wait may also time out while
an answer is on its way, which is the late answer).

### NodeLifecycle (`huace_m7xx_ros_driver_node.cpp`, constructors and destructors below it)

`stage` is the step of the constructor or destructor that runs next;
`Construction` is the order of `Init` (open, configure, baud rate, read thread,
log functions, services, each topic's publisher, callback and request,
subscription, message thread) and `Destruction` that of `~HuaceM7xxDriverNode`,
`BeginShutdown` and `~SerialPort`. Each step of `Init` but the registration of the log
functions may throw. C++ then destroys what is complete: nothing but
the device the code itself closes if it is `SerialPort`'s constructor that throws
(`OpenPort`, `ConfigPort`), else the `SerialPort` that a member or an argument
owns (`Unwind`, which enters `Destruction` at `~SerialPort`, without the node's
own destructor). `RequestStop` is one action here; module SerialPort has its four
steps and the threads in full. `ros` chooses the program: main of ROS 1 makes
one node, whose message thread also looks at `ros::ok()`; a ROS 2 container
loads and unloads up to `Loads` nodes. `logger` is the node whose functions the
static `Log` calls: nothing takes them away again, so that a second node's port
and read thread log through what the first left until `Init` comes to its own;
the message thread never does (`UsedWhileAlive`).

### AutoBaud, DriverStart (`huace_m7xx_ros_driver.cpp:55-134`)

AutoBaud has one action per call of `AutoSetBaudrate`. The receiver understands
what is sent at its own rate, answers at the rate it had or at the new one, and
the host reads an answer only if it is at the same rate when it arrives.
`prompt`, chosen at the start, says whether the receiver answers within the
100 ms the code waits and readably. System calls may fail at every place;
`failed` remembers which kinds did.

DriverStart puts the search in the place of NodeLifecycle's step "baudrate" and
keeps what outlives a node: the rate and the mode of the port, what is in its
input queue, the receiver with the commands it still has to answer. Opening the
device discards what was not read; `Config` sets a rate and may fail before or
after it; the receiver may restart at another rate while there is no node.

### CallbackRegistry (`message.cpp`, `message_class.cpp`, `iointerface.cpp`, `huace_m7xx_ros_driver.cpp`)

The registries are those of the port, before parsing, after parsing and one for
each message. A client is a thread that calls `Register...` or `Unregister...`,
for one registry or for each message of a class (`...ForEachMsg`); each registry
on the way is one `LockAndCount` and one `Insert`, `Erase` or `Refuse`, because
the code looks up and inserts under one lock_guard and releases it between two
messages. An Err of `...ForEachMsg` keeps what succeeded. The message thread
takes a snapshot under the mutex (`TakeSnapshot`) and runs it without
(`Run`, `RunCalling` for a callback that calls the registry, `RunPublishing` for
the node's). The maps of classes and messages have no mutex at all: they change
in `Setup`, before the message thread runs and with no call under way, which is
how both nodes use them. `Brought` is the code's own: `RegisterMessage` returns
Ok although the callback given with the message was refused under its name. The
queries (`Is...Registered`) change nothing and are no actions. A client
unregisters only what it was told is its own; one that unregisters another's
name gets what it asked for.

### CommandLine, CommandChannel, CommandWire (`Command/*`, `message.cpp`, `huace_m7xx_ros_driver.cpp:136-243`, `serialport.cpp` Submit)

A text is a sequence of pieces and a piece is the set of its words; the XOR is
the symmetric difference of the pieces it covers, which has the blind spots of
the XOR: order, and what occurs twice. `GetCmdString` gives the line of a
command, or nothing for one that is refused; the names of the slave antenna
("GGA_1", "BESTPB_1") always are, by `IsValidMessageName`. In CommandWire each
caller composes its line without the mutex (`Call`), gets `write_mutex`
(`Lock`), and writes: `Take` a piece, `Written` in full, or `CutOff` within it.
`Receive` is the receiver, external: it reads up to a line end, starts over at
a `>`, obeys a line that passes its check, and may miss one that comes behind
rubbish. CommandChannel is what callers can rely on; CommandWire implements it
with the line as it was when the present holder got the mutex.

## 4. Runs

| run | question | bounds |
| --- | --- | --- |
| `ring` | overlap, order, assertions, refinement of ByteFifo | 9 slots, requests of 3, 16 bytes: refusal, wrap with a gap, wrap at the exact end, each more than once round |
| `port` | lost wakeups, stop, buffer, destruction, that the shutdown completes and bytes are read | ring of 4, requests of 2, linear buffer of 3, tails up to 2, 5 bytes: the ring refuses, the buffer fills |
| `port_full` (violation) | what is read while the buffer is full | the same |
| `parser` | window, cutting, resynchronisation, termination | streams of two pieces out of 13 (six intact, seven failed, unsupported, false or noise) and of intact-other-intact; buffer of 12 |
| `node_settled` | agreement of node and receiver without faults | two topics, two periods, two commands |
| `node_faulty` | ROS 2 with losses and late answers, calls end | one topic, one period, two commands after start-up |
| `node_late` (violation) | a period without a publisher (ROS 2) | one command |
| `node_stale` (violation) | a start-up answer taken for a request's | one command |
| `node_batch` (violation) | two parameters at once | two topics, one request |
| `start` | joined threads, device, use after destruction, the search and what it leaves, refinement of NodeLifecycle | two loads, a read thread two tokens ahead, four rates, one unknown to `ConfigCom`, and one outside the list |
| `registry` | concurrent registration, snapshots, order, that rounds end | two clients, two names, one class with two messages, one frame in a read |
| `wire` | mixing of texts, refinement of CommandChannel, checks, obedience, that calls return | two callers with two calls and one, six requests, a correction among them |

Two commands suffice for the interference of one call with the next: a callback
of call 1 may run at any time of call 2, and its answer may be taken by call 2.
A third would only repeat that. The ring's bounds let both indexes pass the end
of the array twice. The buffer of the parser is smaller than most streams, so
that every tail is moved, and old bytes lie behind the write pointer. A second
node in `start` begins with whatever the first has left in port, receiver and
logger; a third cannot find anything else. In `registry` both clients want the
same name in one of the messages and one of them wants both messages; two
clients are enough for every race about one name, because a third that is
refused changes nothing. In `wire` three calls are a text that is cut off, the
one behind it, and one from another thread. The theorems remove the bounds for
what they state. ROS 1 with losses and late answers has no run: theorem
`Ros1Publishes` settles it.

### What the violation runs show

- `port_full`: when the linear buffer (`Buffer`, 4 MiB in the node) is full while
  the ring holds bytes, the drain loop of `PrepareDataFromBipBuffer` releases 0
  bytes and turns for ever; the message is "Please Consider Resizing".
- `node_late`: `SetPeriodParameter` (ROS 2) succeeds by the code alone; an answer
  between the time-out and `CopyErrorCodeTo` sets the parameter and creates no
  publisher. README.md:529 requires all three steps.
- `node_stale`: the commands of `Init` are not awaited, so their answers satisfy
  the first request's wait; 0 is reported for a command the receiver refuses.
- `node_batch`: `parameter_callback` overwrites the result of a parameter that
  failed with the next one's.

### Fairness

The kernel schedules threads, so each thread's steps are weakly fair (the read
thread, the message thread, constructor and destructor, the executor). A thread
that wants a mutex which is released again and again gets it: strong fairness of
the client's `Lock` and the message thread's `TakeSnapshot` in CallbackRegistry,
and of `Lock` in CommandWire; the rest of a call is weakly fair, but nobody has
to begin one. The device of SerialPort is not fair: it may be silent for ever, so
`BytesAreRead` speaks of bytes that have arrived, and `NodeEnds` of ports whose
`eventfd()` succeeded: without a stop event only the device can end `poll`.
Nobody has to load or unload a node; a constructor or destructor that has begun
goes on. In NodeCommands the receiver is fair only without `Faults`; the wait
ends by time. In DriverStart only a prompt receiver is fair. In CommandWire
`Write` is weakly fair, because the serial driver sends what it has;
with a device that never does, the writer and everyone behind the mutex wait.

## 5. What is proved

The prover checks these for every value of the constants that the assumptions
allow (`BufAssumption`, `FifoAssumption`, `PortAssumption`, `ParserAssumption`,
`NodeAssumption`, `LifecycleAssumption`, `StartAssumption`,
`RegistryAssumption`, `WireAssumption`, each in the module that declares the
constants; TLC evaluates them on the runs). Type invariants are theorems (a
`TypeCorrect` in each module of proofs, `SearchTypeCorrect` in DriverStart_proofs) and are
not run again, except in `wire`.

**BipartiteBuf_proofs.** `RingInv` is inductive: it says which of the two shapes
the ring has (one run of bytes, or one that continues behind the wrap), what each
thread has read of the other's index since, and that a remembered
`_write_wrapped` is still right. From it: `TypeCorrect`, `AreasDisjoint`
(`NoOverlap`), `NoAssertFails` (`AssertsHold`) and `ImplementsFifo`: every step
of the ring is a step of ByteFifo or changes nothing there. Without the part
about remembered decisions the invariant is not inductive: a retry of
`WriteAcquire` uses what an earlier call has seen.

**SerialPort_proofs.** `PortInv` ties the stage of the shutdown to the flags, the
event and the tokens. From it `WakeupNotLost`, `StopTokenSuffices`,
`StopEventSuffices`, `BufferNotOverrun` and `NothingUsedAfterDestruction`: the
count of tokens is at least what the message thread must still be woken for.

**FrameParser_proofs.** Three lemmas about the buffer say what `Reorganization`,
`Refill` and `UpdateReadPointer` do to the unread bytes; with them the buffer is
a window on the stream (`BufferIsAWindow`) and the callbacks of the port see the
stream itself (`TapIsTheStream`). For `NoFrameIsSkipped` the "ahead" lemmas say
that a buffer which can decide about what is next decides it as any buffer with
the same bytes and more behind them would: a match, a line end, a length and a
check that are there do not change. The classes are told apart by their first
token, so that the class at which the loop stops is the one whose frame is
intact there; hence an intact frame is never dropped byte by byte.
`PiecesMakeNoDifference` says that what was delivered is what one scan over the
whole stream delivers: at every moment that is what has been delivered so far,
followed by what a scan from the parser's place on delivers. The reference scan
is a function defined through its values further on in the stream; that it
exists at all is proved by a least counterexample, as there is no induction here.

**NodeCommands_proofs.** `Inv` is the type, the scope of the registered callback
(`CallbackScoped`), that a posted token comes after its code, and that no waiter
is used before its call; it is inductive for both nodes and every fault
(`NodeInvariant`), and yields `TypeCorrect`, `RegistryScoped`, `AnswerHasCode`.
Two further invariants lean on it. `HasPublisher` (ROS 1): the two conclusions
from one call agree, because they look at result and code together; hence
`Ros1Publishes`, which ROS 2 does not have (run `node_late`). `OneAtATime` (ROS
2, one parameter in a request) follows a request from the callback to what
rclcpp stores; hence `Ros2CacheIsParameter` and `Ros2OkMeansRemembered`.
Without faults more holds (`~Faults`; nothing then times out, `NoFailure`).
Either node has a publisher for every period it holds for set
(`FaultlessPublishes`), and after the start-up (`Settled`) node and receiver go in
step: `InStep` says that while a call waits exactly one of a command, an answer,
a callback of the message thread and a token is there, and what the receiver does
at each of these four places. An answer names no command, and one that was left
over would end the next call, so the invariant has to say that there is none. From it
`OutputAsRemembered` for requests of any number of items, `Ros2OutputAsParameter`
and `OkIsConfigured`. The hypotheses are needed. With two parameters in a request
the last two are false, and so are `Ros2CacheIsParameter` and
`Ros2OkMeansRemembered`: the result that is reported, and by which rclcpp stores
all of them or none, is the last one's (`node_batch`). Before the start-up is
over an answer to it may be taken for a request's (`node_stale`), and with
faults a late one (`node_late`).

**NodeLifecycle_proofs.** `Inv` says for each thread, the device and the
callbacks at which stages they can be there, and that the stop has not been
requested before `RequestStop` is due, which bounds the semaphore; no property
is inductive without the others, since e.g. what a destructor finds is what the
constructor's stages left. From it the three safety properties of a node's life.

**DriverStart_proofs.** `SearchRefinesStep`: the search with all that surrounds
it takes the steps of NodeLifecycle or none (`SearchIsOneStep` without the
fairness), so that NodeLifecycle's invariant holds of it too
(`NodeSafeWithSearch`). `SearchInv` then follows an answer: an OK in the
receiver, in the input queue of an open port, or in `error_code` means that the
receiver is at the rate wanted. An OK that an earlier node did not read says
nothing, because the receiver may have been restarted; it is `OpenPort` that
discards it. Hence `SearchLeavesClean` and `ReadThreadAtTarget`. `HeardInv` is
about a receiver that has not been heard: it has a command to answer, or its
answer has not been read, or it is at none of the rates tried so far.
`ReceiverIsFound` follows for any list with every rate a receiver may have
(`ComRates`), as the list of the code is one.

**CallbackRegistry_proofs.** `RegistryInv` says what a call knows of its
registry: a client that has counted holds the mutex and what it found is still
so; a call that adds and has refused nothing has its name in each registry it
has done; what is owned is there. `RoundInv` says what the message thread knows
of its round: a callback that stood in the registry since before the frame is in
the snapshot or has run, and a tested publisher is there. From them
`OkIsRegistered`, `EveryCallbackIsRun`, `BpComesBeforeAp`, `PublisherStays`, for
any number of clients.

**CommandWire_proofs.** Texts are sequences of pieces; the invariant of the
mutex is that the line is what it was when the holder got it, followed by what
`write()` took. `ImplementsChannel`: `Call` is the channel's `Ask`, `Written`
its `ReturnOk`, `CutOff` its `ReturnErr`; `Lock`, `Take` and `Receive` change
nothing there. For any number of callers and requests.
`OkIsObeyed` (`OkIsExecuted`) follows the line to its reader. Its invariant
`Followed` cuts the line into one segment for each call that returned (the whole
text, or some beginning of it), finds the receiver at the end of one of them, and
maps what it obeyed to calls in increasing order; each command it passed over
stands behind a text that was cut off. What makes this inductive is the shape of the
lines: `>` and the line end occur in no other place, the line end of a text is
its own, and the check ends a line that starts with rubbish.
`LinesReadBack` needs no step: it follows the values of a command through the
line and back, by the position each has when those behind an unspecified one are
left out, and tells the port from the others because no value is a port's name.

## 6. What is only model-checked

- All liveness (`ShutdownCompletes`, `BytesAreRead`, `FullIsConsumed`,
  `ScanEnds`, `CallsReturn`, `NodeEnds`, `RoundEnds`, and the fairness in
  `SearchIsOneStep`): fairness is beyond the prover.

Every safety property that a run checks is a theorem. None of them needs
`ENABLED`, which is out of reach as well: `OkIsExecuted` spells out when the
receiver has a line to read (`LineUnread`).

## 7. What is not modelled, and why

- The bits of CRC-32 and its table, and of the XOR: no control depends on them.
  `outconfig.cpp:32` (`size() - 8` of a short line wraps) is a hazard that no
  property covers for that reason: lengths have no width here.
- Opening the file port and its end: no node constructs one; its refill of the
  buffer is in LinearBuffer.
- The fields that the publishers of GGA and BESTP copy; log formatting and
  output; interfaces and launch files.
- A callback of a second executor thread beside the destructor of the node
  (`response.cpp:170`): the model has one executor thread, as both programs do.
- Changing the maps of classes and messages while the message thread runs
  (`huace_m7xx_ros_driver.cpp:394`): they have no mutex, and no node does it.
- Weaker memory orders than those the atomics of the code ask for, and data
  races on one object: the assignment of the static log functions
  (`serialport.cpp:314` logs meanwhile) and of the publisher's `shared_ptr`.

Seen on the way, without a property of their own:

- `serialport.cpp:37`: an exception in the constructor of `SerialPort` leaves
  the `eventfd` open.
- `node.cpp:75`: after a failed constructor the receiver goes on sending what
  the start-up has requested.
- `command.cpp:23`: `GetCmdString(shared_ptr)` returns Ok also when the command
  has refused, and appends to what the string held; no caller in the nodes uses it.
- `message_class.cpp:29`: `RegisterMessage` returns Ok although the callback
  was refused (in the model as `Brought`).
- `nmea.cpp:17`: the slave antenna's names are refused by `IsValidMessageName`,
  so that the two requests for it always end with Err (in the model as `SlaveAnt`).
- `response.cpp:85` and `nmea.cpp:45` compare beyond a short line's name, but
  the line end stops both.
- The ROS 1 services answer with the receiver's code also when the call returned
  `Err` (`ros1 service_callback.cpp:71,99`), so 0 may be reported for nothing.
- `else if (0 <= error_code)` in `AutoSetBaudrate` (l.114) cannot be reached,
  because the codes of a receiver are 0 or negative: a refusal does not end the
  search, contrary to the message in that branch.
