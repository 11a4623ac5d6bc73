# Traintastic: TLA+ models

This directory holds TLA+ models of the concurrent and protocol-handling
parts of Traintastic: the hardware kernels, the threads they run on, the ECoS
interface that owns a kernel, the client's session with the server, the
reader of world files, and the Lua binding of events. Each model is checked with TLC. Every module is
translated from the C++ under `src/`. `PROJECT.json` maps each definition to
the lines it models, and lists the runs, the mutants, the findings and the
hazards.

## 1. The system, as far as the repository shows it

Traintastic is a model-railway control server. Remote clients connect to it
(§4.3 of `spec.md`), and the server drives command stations through
per-protocol *kernels*. The repository holds a sample of the code base. The
parts it contains are these.

| Part | Source | State | Operations | Talks to |
|---|---|---|---|---|
| TraintasticDIY kernel | `server/.../traintasticdiy/kernel.cpp`, `inputstate.hpp` | io_context queue, feature flags, input/output state caches, heartbeat timer, config, IO handler | `start`, `stop`, `setConfig`, `receive` (one case per opcode), `setOutput`, `simulateInputChange`, `send`, `restartHeartbeatTimeout`, `heartbeatTimeoutExpired` | the main EventLoop (`EventLoop::call`), the Input/OutputController, the device over the IO handler |
| Z21 client kernel | `server/.../z21/clientkernel.cpp` | io_context queue, cached track power / emergency stop / serial number / hardware info, keep-alive timer | `receive`, `trackPowerOn`, `trackPowerOff`, `emergencyStop`, `decoderChanged`, `onStart`, `onStop`, `send`, keep-alive | the main EventLoop (callbacks), the Z21 station over UDP |
| ECoS interface | `server/.../interface/ecosinterface.cpp` | `m_kernel`, `status`, the input/output lists, `m_simulation` | `setOnline`, `worldEvent`, `add/removeInput`, `add/removeOutput`, `setOutputValue`, `inputSimulateChange`, `load`, `save` | its kernel (not in the repository), the world, the world's state file |
| World file reader | `server/src/world/ctwreader.cpp` | the libarchive handle, `m_files` | the constructors, `readFiles`, `readFile` | libarchive |
| Client session | `client/src/network/client.cpp`, `object.hpp`, `tablemodel.hpp` | connection state, request-id → callback map, handle → object and handle → table-model maps, read buffer | `connectToHost`, `disconnectFromHost`, `socketConnected` (Login, then NewSession), `getObject`, `releaseObject`, `getTableModel`, `releaseTableModel`, `setProperty*`, `setTableModelRegion`, `cancelRequest`, `processMessage`, `socketReadyRead`, `socketDisconnected`, `socketError` | the server over TCP |
| Lua event binding | `server/src/lua/event.cpp` | userdata holding an `EventData` (a weak object reference and the event) | `push`, `__index`, `check`, `test`, `connect`, `disconnect`, `__gc` | the script, the sandbox's handler registry, `EventHandler`, the objects whose events it wraps |
| Train list | `server/src/train/trainlist.cpp` | `add`/`remove` enabled attributes | `add`, `remove`, `worldEvent` | the world |
| World saving, zlib, options, paths, UI, enums, declarations | the rest of `src/` | | | |

Things that make this code hard to get right:

- **Two or more threads joined by queues.** A kernel runs on its own thread
  and handles one posted closure or IO completion at a time. It reports to
  the main thread by posting closures with `EventLoop::call`. The main thread
  posts work back with `m_ioContext.post`. A closure runs some time after it
  was posted, against state that may have changed in the meantime.
- **Caches that filter traffic.** Both kernels keep the last state seen per
  address, or per station flag. They report only changes, and the Z21 kernel
  also suppresses commands when the cache says they would change nothing.
- **Shutdown.** `io_context::stop()` drops queued handlers, and closures
  already posted to the main loop outlive `Kernel::stop`.
- **Handshakes.** DIY's Features gate, and the client's Login then
  NewSession.
- **Timers.** DIY's heartbeat and Z21's keep-alive.
- **Lifetimes.** Lua closures, and the sandbox's handler tokens, outlive
  the objects whose events they name, and a new object may take a
  destroyed one's address.
- **Bit-level encodings.** The Z21 speed step encodings.

## 2. Modules

### `TraintasticDIYKernel` (with `MCTraintasticDIYKernel`)

The DIY kernel, its two threads and the device.

State:
- The **kernel thread** holds `kq` (the io_context's queue of posted
  closures), `featureFlagsSet`, `featureInput`, `featureOutput`,
  `inputValues` and `outputValues` (`m_inputValues`/`m_outputValues`;
  `NoValue` marks an absent key), `config`, `hbLeft` (the heartbeat timer's
  pending wait, in ticks, or `NoTimer`) and `hbFired` (the handler of a wait
  that has expired is queued, to run with success).
- `ioStopped` and `ioHandlerRunning` record `m_ioContext.stop()` and the IO
  handler's start/stop.
- The **main thread** holds `mq` (the closures posted with `EventLoop::call`),
  the controller's `inputs`/`outputs` and their `inputValue`/`outputValue`,
  and `onStartedCalled`.
- The **device** holds `toDevice`/`fromDevice` (FIFO links), `hwIn`, `hwOut`
  and `hwFeatures`.
- **History variables** for the properties: `events`, `primedIn`/`primedOut`
  (addresses covered by a query), `quiet` (ticks since the last frame either
  way) and `delivered`.

Actions:
- Each closure the kernel posts is an action of the thread that runs it:
  - `KernelStart` is the closure posted at line 111.
  - `KernelStop` is the one at line 136.
  - `KernelSimulate` is the one at line 280.
  - `KernelSetConfig` is the one at line 85.
  - `MainInputUpdate`/`MainOutputUpdate` are those at 182 and 211.
  - `MainQueryInputs`/`MainQueryOutputs` are those at 235 and 243.
- `Receive(m)` is the whole of `Kernel::receive`, including the
  `restartHeartbeatTimeout` at line 161. It is used by `KernelReceive` and by
  `KernelSimulate`.
- `Kernel::stop` is split in two at the point where it waits:
  - `StopPost` posts the closure;
  - `StopJoin` is `m_ioContext.stop()` and the join, after which queued
    handlers never run.
- The undefined behaviour of line 284 (a dereference of `end()`) is a
  nondeterministic choice of False or True (`SimulatedStates`).
- Time is a discrete `Tick`. At the deadline the wait completes and its
  handler is queued (`hbFired`). Handlers already queued may run before it,
  but no further tick passes first. `expires_after` in
  `restartHeartbeatTimeout` (line 312) re-arms the timer but cannot cancel
  that queued handler: a `Receive` leaves `hbFired` set. The handler
  (`HeartbeatTimeoutExpired`, lines 316-322) then cancels the new wait,
  sends a Heartbeat and restarts the timer. `KernelStop`'s `cancel()`
  likewise leaves it queued.
- **Fault model.** With `SendFailures = TRUE` the IO handler may refuse any
  frame (`Accepted`), as `m_ioHandler->send` returning false. `Kernel::send`
  then does nothing (line 307). The passing runs keep `SendFailures = FALSE`.
- **Fairness** (`FairSpec`). Weak fairness on every main-loop closure, on
  `StopJoin`, on every kernel-thread handler and on `DeviceReply`. See §3.

### `Z21ClientKernel` (with `MCZ21ClientKernel`)

The Z21 client kernel, the main thread's callbacks, the station, and other
Z21 clients.

State:
- **Kernel:** `kq`, `trackPowerOn`, `emergencyStop`, `serialNumber`,
  `hardwareInfo`, `keepAlive` and `running`.
- **Main thread:** `mq`, plus `mainPower`, `mainStopped`, `mainSerial` and
  `mainHardware` (what the callbacks reported).
- **Station:** `stPower`, `stStopped`, `stFlags` (broadcast subscription),
  `stSerial`, `stHardware`, `stLoco` (the last LanXSetLocoDrive received) and
  `stFunctions`.
- **History:** `events` and `lastRequest` (the last user request a kernel
  closure handled, reset by another client's change).

Actions:
- `Receive` has one disjunct per header case of `ClientKernel::receive`.
- `KernelTrackPowerOn`, `KernelTrackPowerOff` and `KernelEmergencyStop` are
  the posted closures with their cache tests.
- `DecoderDriveChanged` and `DecoderFunctionChanged` come from
  `decoderChanged`.
- `SpeedAndDirection` is the speed-step encoding, written with the
  community `Bitwise` operators.
- `OnStart`, `OnStop` and `KeepAliveTimerExpired`.

The station answers each request in order:
- a `Set*` request is answered with the matching broadcast;
- once the client has set its broadcast flags, it also broadcasts changes
  made by other clients (`ExternalChange`).

Fault model: Z21 runs over UDP. `Transmit` appends the datagrams of one
send or one answer to a channel, and may drop any subset of them, keeping
the order of the rest. The counter `lost` bounds the losses by `MaxLoss`.
The keep-alive polls `LanSystemStateGetData`. The station answers with
`SystemStateDataChanged`, which carries its track power and emergency
stop, and `receive` drops it (line 175). `Fairness` makes the kernel
thread, the main loop's callbacks, the keep-alive timer and the station's
answers weakly fair. `FairSpec` is `Spec /\ Fairness`.

The base `Kernel` (start/stop, `postSend`) and the `Z21Interface` callbacks
are not in the repository. They are modelled from §4.7 and marked
`spec_modelled`.

### `ClientSession` (with `MCClientSession`) and `SessionSpec`

The client's side of a session, the Qt socket, and the server's session
as environment. The client runs on Qt's single thread, so every slot and
every public call is one atomic action.

State:
- **Client** (`clientVars`):
  - `state` (`Client::State`);
  - `callbacks` (`m_requestCallback`: request id → the command, the
    object and the connection it was sent on);
  - `nextRequestId` (16 bits, wrapping);
  - `objects` and `tableModels` (`m_objects`/`m_tableModels`: handle →
    mirror);
  - `mirrors`, every `Object`/`TableModel` the client ever built, with its
    handle, its property value and the connection it came from;
  - `readBuffer` (`m_readBuffer`, as a sequence of frame units);
  - `crashed`, set by a null dereference (after which nothing runs);
  - `garbled`, set when a frame is spliced from two connections.
- **Socket and link** (`netVars`): `socket` (closed, connecting, open,
  closing), `conn` (connection number), `toServer` and `wire` (the two
  directions of the TCP stream, in units).
- **Server session** (`serverVars`): `srvSession`, `leased` (object →
  handle), `nextHandle`, `world` (each object's property value), `seen`
  (every value an object ever had) and `changes`.

A frame is `HeaderUnits` header units plus one data unit for a response that
carries data. `socketReadyRead` is `ReadLoop`, a RECURSIVE operator that
consumes units the way the loop at lines 435-462 consumes bytes: header
first, then the message, then `processMessage`.

Actions:
- the public calls `ConnectToHost`, `DisconnectFromHost`, `GetObject`
  (also `getTableModel`, by kind), `CancelRequest`, `ReleaseObject` (also
  `releaseTableModel`), `SetProperty` and `SetTableModelRegion`;
- the slots `SocketConnected`, `SocketConnectFailed`, `SocketDisconnected`
  and `ReadyRead`. `ReadyRead` includes the whole of `processMessage`: the
  callbacks of Login, NewSession and getObject, and the event dispatch by
  handle.
- the server (spec_modelled, from §4.3 and §4.5, since the server session
  is not in the repository): `ServerReceive`, `Reply` and `ServerChange`.

Abstractions, and why they are sound:
- **One frame per `ReadyRead` at most.** A chunk may end anywhere, but it
  completes at most one frame. Qt may deliver more bytes per signal, but a
  single signal that completes two frames runs the same code twice in the
  same slot, which is equivalent to two signals. What matters for
  `m_readBuffer` is where a chunk *ends*, and every position is reachable.
- **Reading stops after a spliced frame.** Once `garbled` is set, the
  stream is misaligned and what follows is noise the model does not
  decode. `FramesIntact` is the property about that moment.
- **Writes while closing are dropped.** `QTcpSocket::write` on a socket
  that is not connecting or open does nothing that reaches the server.
- **Property values** are the Boolean values {0, 1}. `PropertyType` says
  which objects' properties are Boolean. Only Boolean changes are applied
  (line 322-339), and the `integer` cfg gives one object an Integer
  property.
- **Server handles** restart at 1 with each session. A second request for
  an object already leased returns the same handle (§4.5: the mirror is
  keyed by handle).

`SessionSpec` is the §4.3 session life cycle as an abstract phase machine:
`Closed → Connecting → AwaitingLogin → Authenticated → InSession`, with
`Close` (to `Closing`) and `Drop` (to `Closed`) from any live phase.
`SessionOf` maps the socket, `state` and a pending NewSession callback to a
phase. `SessionRefinement == Session!Spec` is checked as a PROPERTY.

### `ECoSInterface` (with `MCECoSInterface`)

The ECoS interface on the main EventLoop, the kernel it creates, the
station, and the world.

State:
- **Interface:** `kernel` (`m_kernel`: 0 or the number of the kernel it
  holds), `created`, `status`, `hostnameEnabled`, `configSlot` (whether
  `m_ecosPropertyChanged` is connected) and `stopping` (the main thread is
  inside `Kernel::stop`).
- **Kernel:** `kq` (its io_context queue), `ioRunning` and `cache` (the
  station's go/stop state as last reported).
- **Main loop:** `mq`, closures tagged with the kernel that posted them.
- **Station and world:** `toStation`, `fromStation`, `station` ("go" or
  "stop"), and the world's `power` and `run`.
- **Controllers:** `inputs`, `outputs`, and the history `simAsked` and
  `simulated`.
- `crashed` is set when a closure of a destroyed kernel crashes.
- **Simulation data:** `simData` (`m_simulation`: locomotives and s88
  modules), `stateFile` (the `simulation` object of the world's state
  file), `kernelSim` (the kernel was created on the SimulationIOHandler)
  and `stopSim` (the simulation argument of the `setOnline(false)` in
  progress).

Actions:
- `SetOnline(sim)` is `setOnline(true, sim)`: create (on the simulation IO
  handler when `sim`), install the callbacks, start, then post go or
  emergency stop from the world's Run state. Kernel creation may throw,
  which leaves the status Offline.
- `setOnline(false, sim)` is split at the join: `SetOfflineBegin(sim)`
  posts the IO handler's stop, and `SetOfflineEnd` resets `m_kernel`.
  Before that, `Kernel::stop(sim ? nullptr : &m_simulation)` fills
  `m_simulation` (`StoppedSimulation`). A kernel on TCP fills it with the
  station's layout (`StationLayout`); a simulated kernel, with the data it
  was created from.
- `Init` loads `simData` from a state file with `LoadSimulation`
  (`ECoSInterface::load`). `load` keeps a locomotive whose id, protocol and
  address are valid and skips the others. It ends the s88 list at the
  first invalid module. Ids and addresses are read into `uint16_t` and
  ports into `uint8_t`, so 65536 reads as 0 and 264 ports as 8.
  `WorldSave` writes `SaveSimulation(simData)` (`save`). A JSON object is a
  record of the numbers it holds, and the protocol is its enumeration
  value. The model therefore checks no save-then-load round trip: the
  only place such a round trip could fail is the JSON keys and
  `toString`/`fromString` of the protocol, and the model leaves those out.
- `WorldUser(e)` is `worldEvent`. `Callback(cb)` is the body of `onStarted`,
  `onEmergencyStop` and `onGo`. `MainRun` runs the closure at the head of
  the main loop.
- The controller calls are `DecoderChanged`, `SetOutputValue`,
  `InputSimulateChange`, and `Add`/`Remove` `Input`/`Output`, with their
  range checks.
- A closure whose kernel has been destroyed is undefined behaviour. It
  either crashes or runs the stale callback.

The ECoS kernel, the World and the controller bases are not in the
repository. They are modelled from §4.7 and marked `spec_modelled`.
- The kernel follows the DIY kernel's pattern. Its start closure posts
  `onStarted`, and stop posts the IO handler's stop before the join.
- Like the Z21 kernel, it caches the station's go/stop state. It calls
  `onGo`/`onEmergencyStop` when a report changes that state, including the
  first report after Undefined.
- The world's semantics are an assumption:
  - PowerOff clears both PowerOn and Run;
  - Run sets both;
  - Stop clears Run;
  - PowerOn sets PowerOn.

  This is the only reading under which the interface's
  `contains(state, PowerOn | Run)` tests distinguish anything.

### `CTWReader`

The world file reader. A `.ctw` file is an xz-compressed tar. The
constructor opens it with libarchive, and `readFiles` loads every entry
into `m_files`. The reader runs on one thread from the constructor to
its return or throw.

State:
- `archive`: the entries of the file, each a path and its bytes. `Init`
  allows every archive within the bounds.
- `pc`: where the constructor is.
- `idx` and `off`: libarchive's position, the entry and the byte.
- `cut`: libarchive returned 0 before the end of an entry.
- `data` and `pos`: the buffer of the current entry and `readFiles`' `pos`.
- `files`: `m_files`.

Actions:
- `Open`: the constructors' libarchive calls, each of which may throw.
- `NextHeader`: `archive_read_next_header`, which gives EOF, an error
  (throw) or the next entry. The buffer is resized to the entry's size,
  zero-filled.
- `ReadData`: one turn of the inner loop. `archive_read_data` copies
  between 1 byte and what is left to `data.data() + pos`, returns 0, or
  fails.
- `Store`: the entry is kept with `emplace` when `pos == data.size()`.
- `ReadFile(name)` is `readFile`'s lookup.

libarchive is not in the repository. Its results are the ones its
interface allows, within the constants:
- `ShortReads` adds a 0 before the end of an entry (a stream that ends
  early, which the code's comment says "should not happen"). After it,
  reads give 0 again and the next header is EOF or an error.
- `Failures` lets every call fail.

### `LuaEvent` (with `MCLuaEvent`)

The Lua binding of events. A script sees an object's event as a userdata
pointing at an `EventData`: a weak pointer to the object and a reference
to the event, which lives inside the object. Indexing it with `connect` or
`disconnect` gives a C closure whose upvalue is a second, fresh userdata
for the same event. Every entry point first checks the weak pointer
(`Event::check`) and raises a Lua error when the object is gone.

State:
- `life` and `at`: each object's life cycle and its address. The address
  is kept after the object is destroyed, since a handler's reference to
  the event still points there.
- `data`: the `EventData` allocations, with whether `__gc` deleted them.
- `held`: the values the script holds (event userdata and closures, each
  naming its `EventData`).
- `handlers` and `reg`: the handler of each token and the tokens the
  sandbox still holds.
- `misuse` and `returned`: history kept for the properties (a call into
  a dead event; the last result of `disconnect`).

Actions:
- `Push(o)`: `Event::push` of a live object's event.
- `Index(v, name)`: `__index`: `check`, then a closure with a new
  `EventData`.
- `Gc(d)`: `__gc` of a userdata nothing refers to.
- `Connect(c)`: `check` of the upvalue, a new handler connected to the
  event, its token registered.
- `Disconnect(c, t)`: `check`, the token's handler, then
  `handler && &handler->event() == &event && handler->disconnect()`.
  `HandlerDisconnect` is `EventHandler::disconnect`: it consumes the token
  (spec §9: tokens are returned at connect and consumed at disconnect). On
  the event of a destroyed object it is undefined behaviour, and its
  result is any boolean.
- Environment: `Create(o, a)` places an object at an address no live
  object occupies, possibly a destroyed one's; `Destroy(o)`; `Drop(v)`.

`EventHandler`, the sandbox's registry and the objects are not in the
repository. What happens to the handlers of an object being destroyed is
the constant `HandlersOutliveEvents`. When it is FALSE, the sandbox drops
their tokens; when it is TRUE, the tokens stay registered. A Lua error
(dead event, wrong argument count) and indexing with another name change
nothing, so they are stuttering steps.

## 3. Runs

All runs use model values or small integer sets from the MC modules.
`CHECK_DEADLOCK FALSE` is set in every cfg. A stopped kernel with a drained
link has nothing left to do. A client with its call bounds spent and its
socket closed is also at rest. The world file reader stops once it has
returned or thrown. The Lua binding stops once every object is destroyed
and the allocation bounds are spent: the script may always stop calling.

`PROJECT.json` lists twelve runs. Each further divergence has a cfg of
its own, listed in §4.

| Run | Kind | What it checks | Bounds |
|---|---|---|---|
| `diy_mirror` | pass | `TypeOK`; `ControllerMirrorsHardware`: once nothing is in flight, every queried input/output the controller still knows shows the device's state (Invalid aside) | 2 addresses (one out of range), 2 user/hardware events, 2 frames per direction, no clock |
| `diy_heartbeat` | pass | `HeartbeatNeverSilent`: the kernel is never silent for more than the largest heartbeat timeout, with a `setConfig` racing the timer and the expired handler ordered freely against the receive handlers | 1 address, timeouts {1,2}, 1 event, clock on |
| `diy_heartbeat_early` | violation | `HeartbeatNotEarly` (action property): a heartbeat goes out only after the shortest timeout without traffic. Violated (finding 19) | as `diy_heartbeat` |
| `diy_delivery` | pass | Under `FairSpec`. `CachedStateReachesMain`: every input state `receive` caches reaches the main thread unless a later state replaces it first. The main loop runs these closures even after `stop` returned, whether or not the kernel still exists (finding 2). `HandshakeCompletes`: once online, the Features reply is handled unless the kernel is stopped | 1 address, 1 event, simulation on, no clock |
| `z21_mirror` | pass | `PowerMirrorsStation`: the kernel's track power is Undefined or the station's, and the main thread's view (and serial/hardware info) equals the kernel's. | 3 events, 3 datagrams per direction, other clients on |
| `z21_speed` | pass | `TypeOK`, including that function datagrams stay within `functionNumberMax`. `DriveCommandKeepsIntent`: emergency stop, stop, speed and direction survive the encoding in 14/126/128 step mode | steps {0,1,2,14,126}, functions {0,28,29}, 1 command |
| `z21_resync` | violation | Under `FairSpec`. `CacheResynchronises`: a track-power or emergency-stop cache that disagrees with the station is eventually corrected while the kernel runs | no decoders, no other clients, 2 events, 2 datagrams per direction, 1 datagram lost |
| `client_session` | pass | `TypeOK`. `ReleasedMirrorsFrozen` (action property): an event in flight for a released handle never changes the released mirror. `SessionRefinement`: the client follows `SessionSpec` | 1 object, 1 table, 1 unknown id; 2 connections, 2 calls, 1 server change; Login and NewSession may be refused |
| `client_reconnect_handles` | violation | `WritesReachOwnObject`: a property write names, by its handle, only its own object | 2 objects, 2 connections, 3 calls |
| `ecos_lifecycle` | pass | `TypeOK`. `StationFollowsWorld`: with nothing in flight and the kernel's IO handler running, the station runs exactly when the world is powered and running. `EventuallyOnline` (under fairness): each kernel created reaches status Online unless it is replaced or the server crashes. | 2 kernels in turn, 3 user operations, 1 STOP/GO on the station panel; a station with one locomotive and one 16-port s88 module; no state file, or a hand-edited one with invalid entries |
| `ctw_read` | pass | Under `FairSpec`. `TypeOK`. `FilesHoldArchiveEntries`: each kept file has exactly the bytes of the first entry of its path, however the reads were cut. `ReadFindsEveryEntry`: when no read ended early, `readFile` finds every path, empty entries included. `ReadFilesTerminates`: the constructor returns or throws | every archive of up to 2 entries over 2 paths, of up to 2 bytes of 2 values; short reads, early 0 and failures on |
| `lua_event` | pass | `TypeOK`. `NoDeadEventUse`: `connect` and `disconnect` never call into the event of a destroyed object, whenever the script calls the closures it kept. `DisconnectOwnHandler`: `disconnect` returns true only for a handler connected to the closure's own event | 3 objects over 2 addresses, 4 `EventData`, 2 connects; the sandbox drops a destroyed object's handlers |

**Why these bounds are enough.**
- **DIY.** One in-range address and one out-of-range address cover the range
  check. Two events allow a change followed by a change back, which is what
  the cache must handle. Two frames per direction let a reply overtake a
  main-thread closure. The handshake, queries, stop and user calls together
  give traces of about 30 steps.
- **Client.** Two connections are the least that shows what survives a
  reconnect. Two calls allow a request plus a release, a cancel or a
  second request. The violation of `WritesReachOwnObject` needs three
  calls: a get before the reconnect, a cancelled get after it, and the
  write. One server change lets an event race a release. HeaderUnits = 2
  lets a chunk end inside the header.
- **DIY liveness.** Liveness checking over the `diy_mirror` instance takes
  more than 15 minutes, so `diy_delivery` has one address and one event.
  The initial GetInputState reply, a device change and a simulated change
  still give two cached states per address, and `stop` can race each of
  them.
- **ECoS.** Two kernels in turn let a closure of the first one reach the
  second one's interface. Three user operations cover a world event, a
  controller call and `setOnline(false)`. With four, the run takes 3.5
  minutes and finds nothing new. One panel press lets the station change
  under the interface.
- **Z21.** The violations need three requests (stop, power on, stop; or
  off, other client on, off), so `MaxEvents = 3`. The speed encodings are
  checked on the steps where the arithmetic changes: 0, 1, 2 and the top of
  each mode.
  `z21_resync` needs one lost datagram and two requests, and no decoders:
  the loss of a single broadcast is enough to leave the cache wrong.
- **World file reader.** Two entries over two paths allow the same path
  twice. Two bytes of two values let a read be cut into two chunks whose
  bytes differ, so a chunk copied to the wrong place shows. Size 0 gives
  empty entries.
- **Lua event binding.** Three objects over two addresses let an object
  be destroyed and its address taken by a new one while a third is alive.
  Four `EventData` allow an event userdata and a closure for each of two
  objects. Two connects let a token of one object's handler be passed to
  the other's `disconnect`. Traces reach depth 23.
- **ECoS simulation data.** The hand-edited state file holds one invalid
  entry of each kind that `load` treats differently: a locomotive at
  address 0, one whose id wraps to 0, an s88 module whose port count
  wraps to 8, and an invalid module followed by a valid one.

**Fairness.** Four runs check liveness, and only those assume fairness.
- **`diy_delivery` (`FairSpec`).** It assumes weak fairness on each closure
  of the main EventLoop, each handler of the kernel's io_context, and
  `StopJoin`. Both loops are FIFO executors that run every queued handler,
  and `Kernel::stop` joins right after it posts. `DeviceReply` is also
  fair: a connected device answers each frame it is sent. That is an
  assumption about the device, and it is what `HandshakeCompletes` depends
  on. The user's calls and the device's input changes are not fair.
- **ECoS (`Spec`).** It assumes weak fairness on the kernel thread, on the
  main loop's `MainRun`, on `SetOfflineEnd` (the join), on the kernel's
  receive, and on the station processing commands.
- **`z21_resync` (`FairSpec`).** It assumes weak fairness on the kernel
  thread's handlers, the main loop's callbacks, the keep-alive timer and
  the station's answers. The keep-alive timer rearms itself for as long
  as the kernel runs, so its expiry is fair. The loss of a datagram is a
  choice inside `Transmit`, bounded by `MaxLoss`, and is never forced.
- **`ctw_read` (`FairSpec`).** Weak fairness on every step that does not
  throw: the reader's thread runs on, and libarchive answers each call.
  A failure is never forced.
- **Not fair, in any run:** the world's events, the user's calls, the
  station's panel and other Z21 clients.

## 4. What the runs found

These are detailed in `PROJECT.json` → `findings`.

1. **DIY `simulateInputChange` never toggles** (kernel.cpp:284). For a
   cached address the condition is false, so the new state is always
   True. For an uncached address the code dereferences `end()`. This is
   open question (a) of the spec.
2. **DIY `stop` leaves closures on the main loop** (kernel.cpp:143). The
   inputUpdate, started and query closures capture `this` and run after
   `stop` returns, and so after the interface has reset the kernel.
3. **DIY `stop` may not stop the IO handler** (kernel.cpp:136-143).
   `io_context::stop()` drops the closure that stops the handler.
4. **DIY inputs added after Features are never primed** (kernel.cpp:239).
5. **Z21 28-step speed encoding** (clientkernel.cpp:246-247). Speed step 1
   is sent with the emergency-stop code 0x01.
6. **Z21 `m_emergencyStop` is never cleared** (clientkernel.cpp:105). After
   one stop and power on, later `emergencyStop()` calls send nothing.
7. **Z21 `trackPowerOff` is suppressed on a stale cache**
   (clientkernel.cpp:204). This happens when another client has just
   switched power on.
8. **Client: null dereference on an error response** (client.cpp:105 and
   171). When the response is an error, the callback still writes
   `m_objects[object->handle()]` through a null pointer.
9. **Client: handles survive a reconnect** (client.cpp:425).
   `socketDisconnected` only sets the state. The mirrors, `m_objects` and
   the callbacks of the old session stay, while the new session hands out
   handles from 1 again. A property write through an old mirror then
   changes another object. An event for a reused handle is applied to the
   old mirror too.
10. **Client: the read buffer survives a reconnect** (client.cpp:441). A
    partly read frame is completed with the next connection's first
    bytes.
11. **Client: no lookup by handle** (client.cpp:218). A second
    `getObject` for a leased object builds a second mirror, and the first
    one stops receiving events.
12. **Client: only Boolean property changes are applied**
    (client.cpp:332). Integer, Float and String changes are dropped.
13. **ECoS: onGo and onEmergencyStop can keep each other busy forever**
    (ecosinterface.cpp:205).
    - It starts when the interface goes online with the world stopped and
      the station running.
    - Each callback changes the world, and `worldEvent` sends the opposite
      command back.
    - While station reports and commands cross, the loop never settles.
    - This depends on the assumed kernel and world semantics (§2).
14. **ECoS: a late onStarted sets status Online with no kernel**
    (ecosinterface.cpp:246). The callback is still queued when
    `setOnline(false)` resets `m_kernel`. This is the DIY finding 2 seen
    from the interface.
15. **ECoS: inputSimulateChange checks the output range**
    (ecosinterface.cpp:137). A valid input address outside the output range
    is never simulated.
16. **DIY: a refused GetFeatures is never retried** (kernel.cpp:307).
    `send`'s failure branch is empty, so the feature gate stays closed and
    nothing is ever queried. The comment there says the kernel should go to
    an error state.
17. **Z21: the cache never resynchronises** (clientkernel.cpp:175).
    - The keep-alive asks the station for its central state every
      interval, and `receive` drops the answer as "not (yet) supported".
    - Only broadcasts change `m_trackPowerOn`, and nothing clears
      `m_emergencyStop` (finding 6).
    - A broadcast lost on UDP is never repeated, so the cache stays wrong
      for the rest of the session, and `trackPowerOff` and `emergencyStop`
      are suppressed on it. `trackPowerOn` always sends: `m_emergencyStop`
      is never False, so its test at line 194 always holds.
    - `z21_resync` shows the stale emergency stop. The UDP loss alone is
      shown by `MCZ21ClientKernel_lost_broadcast.cfg`.
18. **World file: an entry cut short is dropped silently**
    (ctwreader.cpp:84). When `archive_read_data` returns 0 before the end
    of an entry, the loop breaks, the entry is not kept, and `readFiles`
    returns without an error. The world then loads without that file.
19. **DIY: a heartbeat right after a frame** (kernel.cpp:312).
    `receive` restarts the timer with `expires_after`, which cannot cancel
    a wait that has already expired. If the frame's handler runs after the
    expiry but before the expired wait's handler, that handler still runs
    with success. It cancels the new wait, sends a Heartbeat right after
    the frame and restarts the timer. Spec §8 (property 6, scenario S6)
    says every received frame resets the timer. The extra heartbeat is
    harmless on the wire, but the spec's timing does not hold.

Some of these divergences have a cfg of their own that the run list does
not repeat. TLC finds each of the following violated:

| cfg | Property | Finding |
|---|---|---|
| `MCTraintasticDIYKernel_simulate_toggle.cfg` | `SimulateToggles` | 1 |
| `MCTraintasticDIYKernel_stop_callbacks.cfg` | `StopLeavesNoCallbacks` | 2 |
| `MCTraintasticDIYKernel_stop_iohandler.cfg` | `StopStopsIOHandler` | 3 |
| `MCTraintasticDIYKernel_late_input.cfg` | `KnownInputsMirrorHardware` | 4 |
| `MCZ21ClientKernel_speed28.cfg` | `DriveCommandKeepsIntent` | 5 |
| `MCZ21ClientKernel_stale_off.cfg` | `PowerOffTakesEffect` | 7 |
| `MCClientSession_error_response.cfg` | `NoNullDereference` | 8 |
| `MCClientSession_reconnect.cfg` | `MirrorsShowOwnObject` (an event lands on the old mirror) | 9 |
| `MCClientSession_duplicate.cfg` | `HeldMirrorsTrackServer` | 11 |
| `MCClientSession_integer.cfg` | `HeldMirrorsTrackServer` | 12 |
| `MCECoSInterface_late_started.cfg` | `OnlineHasKernel` | 14 |
| `MCECoSInterface_simulate.cfg` | `SimulateReachesKernel` | 15 |
| `MCTraintasticDIYKernel_send_failure.cfg` | `HandshakeCompletes` | 16 |
| `MCZ21ClientKernel_estop.cfg` | `EmergencyStopMirrorsStation` | 6 |
| `MCClientSession_framing.cfg` | `FramesIntact` (no frame is spliced from two connections) | 10 |
| `MCZ21ClientKernel_lost_broadcast.cfg` | `TrackPowerResynchronises` | 17 |
| `MCCTWReader_short_read.cfg` | `NoSilentLoss` (run it on the module `CTWReader`) | 18 |
| `MCECoSInterface_livelock.cfg` | `Settles` (the interface and the station always come to rest again) | 13 |

One more cfg shows what an assumption about code outside the repository
would mean. `MCLuaEvent_dead_handler.cfg` lets the sandbox keep the
handlers of a destroyed object (`HandlersOutliveEvents = TRUE`). TLC then
finds `NoDeadEventUse` violated. A new object is placed at the address of
a destroyed one. The dead handler's token is passed to the new event's
`disconnect`. The addresses compare equal, and `handler->disconnect()`
runs on the dead event. Whether this happens depends on `EventHandler` and
the sandbox, so it is listed as a hazard (event.cpp:129), not a finding.

Run one with, for example,
`tlc -workers 2 -config MCClientSession_duplicate.cfg MCClientSession`.

## 5. Plan

The order follows how much of the system's behaviour a module carries.

1. **Done:** `TraintasticDIYKernel`, the spec's exemplar kernel and the
   heart of §4.7/§4.8.
2. **Done:** `Z21ClientKernel`, the second kernel in the repository, which
   adds command suppression on cached state.
3. **Done:** `ClientSession`, which refines `SessionSpec`. The model covers
   every public call and every slot of `Client`.
   - **Still open:** the `m_requestCallback` entries of the old session
     after a reconnect. An old response id can match a new request.
     Checking this needs a run with a request left unanswered across the
     reconnect.
   - **Still open:** the 16-bit request-id wrap (hazard at line 207).
4. **Done:** `ECoSInterface`: `setOnline`, `worldEvent`, the callbacks,
   and the controller calls with their range checks.
   - **Done:** `load`/`save` of the simulation data and the copy of the
     station's layout in `stop`.
   - **Still open:** `addDecoder`/`removeDecoder`, `addToWorld`/`destroying`
     and `idChanged`.
   - **Still open:** the simulation flag `stop` is given (hazard at line
     244). The model lets it differ from the kernel's; what the World
     allows is not in the repository.
5. **Done:** liveness for DIY and ECoS (§3, Fairness), and a DIY fault
   model (`SendFailures`).
6. **Next:**
   - `TrainList` (trainlist.cpp): add/remove enabled only in Edit.
   - Liveness for the client: a client whose server answers reaches
     `Connected`.
7. **Kernel abstraction.** `KernelSpec` is an abstract specification of §4.7
   (a cache that mirrors the device with at most one notification per
   change). `TraintasticDIYKernel` is shown to implement it, with the
   abstract spec as a PROPERTY.
8. **Done: lossy link.** Z21 datagrams may be lost (`MaxLoss`), and
   `z21_resync` checks whether the cache ever resynchronises (finding 17).
9. **Done: world file reader.** `CTWReader` with short reads, early ends
   and failures of libarchive.
10. **Done: Lua event binding.** `LuaEvent`, with objects destroyed and
    addresses reused while scripts hold closures.

## 6. Not modelled, and why

- **World saving, zlib, options, standard paths.** Only the declaration
  of `WorldSaver` is in the repository. `ZLib::Uncompress::toString` is a
  single call into zlib. Options and paths are process set-up with no
  concurrency. The reader, `CTWReader`, is modelled.
- **Qt widgets and dialogs.** These are layout and user interaction.
- **Enum headers and class declarations** (the XpressNet interface, table
  models, output map, Selectrix simulation handler). They contain no
  behaviour, and the code they declare is not in the repository.
- **Logging.** Every `debugLogRXTX` closure, the Info text and the Invalid
  warnings only call `Log::log`. This is also why Z21 `setConfig` is not
  modelled: `m_config` only holds the logging flag.
- **The XpressNet checksum and the Z21 reply-length checks.** The station
  model never sends malformed datagrams.
- **Board tests.** The board is out of scope in the spec.
- **Client payload decoding.** The `readObject`/`readTableModel` parsing
  of interface items, the property names and the table cell data are not
  modelled. The model keeps one property value per object, and the
  region's rows and columns are left out.
