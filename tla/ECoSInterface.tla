--------------------------- MODULE ECoSInterface ---------------------------
(***************************************************************************)
(* The ECoS interface (server/src/hardware/interface/ecosinterface.cpp):  *)
(* setOnline, worldEvent, the three kernel callbacks it installs, and the *)
(* controller calls it forwards to its kernel.  The interface runs on the *)
(* main EventLoop; the kernel it creates runs its own io_context thread   *)
(* and reports back by posting closures to the main EventLoop.            *)
(*                                                                         *)
(* The ECoS kernel, the World and the Input/OutputController base classes *)
(* are not in the repository.  The kernel follows the kernel skeleton of  *)
(* spec 4.7 the way the TraintasticDIY kernel of the repository does it   *)
(* (a start closure that starts the IO handler and posts onStarted with   *)
(* EventLoop::call capturing the kernel; stop posts the IO handler's stop *)
(* and then stops the io_context and joins).  Like the Z21 kernel it      *)
(* caches the station's go/stop state and calls onGo / onEmergencyStop    *)
(* when a report changes it.                                              *)
(***************************************************************************)
EXTENDS Integers, Sequences, SequencesExt, FiniteSets

CONSTANTS
    InputChannels,   \* the values of ECoS::Kernel::InputChannel
    OutputChannels,  \* the values of ECoS::Kernel::OutputChannel
    InputRange,      \* input channel -> <<min, max>> (Kernel::s88AddressMin...)
    OutputRange,     \* output channel -> <<min, max>> (Kernel::outputDCCAddressMin...)
    Addresses,       \* the addresses inputs and outputs are given
    MaxOnline,       \* bound on kernels created (setOnline(true))
    MaxUserOps,      \* bound on world events, controller calls and edits
    MaxPanelOps,     \* bound on STOP / GO pressed on the station itself
    LocomotiveProtocols, \* the names fromString(LocomotiveProtocol) accepts
    StationLayout,   \* the locomotives and s88 modules of the real station
    StateFiles       \* "simulation" objects the world's state file may hold

VARIABLES
    kernel,          \* m_kernel: 0 (null) or the number of the kernel it holds
    created,         \* kernels created so far
    status,          \* the status property
    hostnameEnabled, \* the Enabled attribute of hostname
    configSlot,      \* m_ecosPropertyChanged is connected
    stopping,        \* the main thread is inside Kernel::stop, joining
    kq,              \* the current kernel's io_context queue
    ioRunning,       \* the current kernel's IO handler is started and not stopped
    cache,           \* the kernel's cached station state
    mq,              \* the main EventLoop: closures [k |-> kernel, cb |-> callback]
    toStation,       \* commands written to the station's connection
    fromStation,     \* state reports of the station on that connection
    station,         \* the command station: "go" or "stop"
    power, run,      \* WorldState::PowerOn and WorldState::Run of the world
    inputs, outputs, \* <<channel, address>> pairs added to the controllers
    simAsked,        \* history: inputs whose simulateChange was asked while online
    simulated,       \* history: inputs passed on to the kernel's simulateInputChange
    crashed,         \* a closure of a destroyed kernel crashed the server
    userOps, panelOps,
    simData,         \* m_simulation: [locomotives, s88]
    stateFile,       \* the "simulation" object of the saved state file
    kernelSim,       \* the kernel was created with the SimulationIOHandler
    stopSim          \* the simulation argument of the setOnline(false) in progress

simVars == <<simData, stateFile, kernelSim, stopSim>>
ifaceVars == <<kernel, created, status, hostnameEnabled, configSlot, stopping, simVars>>
kernelVars == <<kq, ioRunning, cache>>
stationVars == <<toStation, fromStation, station>>
worldVars == <<power, run>>
ctrlVars == <<inputs, outputs, simAsked, simulated>>
vars == <<ifaceVars, kernelVars, mq, stationVars, worldVars, ctrlVars,
          crashed, userOps, panelOps>>

Statuses == {"Offline", "Initializing", "Online"}
Callbacks == {"started", "estop", "go"}
Commands == {"start", "go", "estop", "ioStop", "config", "send", "decoder",
             "output", "simulate"}
StationCommands == {"query", "go", "estop"}

(***************************************************************************)
(* Address ranges.                                                         *)
(***************************************************************************)

\* inRange(value, {min, max})
InRange(a, mm) == mm[1] <= a /\ a <= mm[2]

\* ECoSInterface::inputAddressMinMax: an unknown channel reaches
\* assert(false), which a release build compiles out, and returns {0, 0}.
InputAddressMinMax(ch) == IF ch \in InputChannels THEN InputRange[ch] ELSE <<0, 0>>

\* ECoSInterface::outputAddressMinMax, likewise.
OutputAddressMinMax(ch) == IF ch \in OutputChannels THEN OutputRange[ch] ELSE <<0, 0>>

(***************************************************************************)
(* The world (World is not in the repository): the state a WorldEvent     *)
(* leaves.  PowerOff also ends Run and Run also powers on, the only       *)
(* reading under which the interface's contains(state, PowerOn | Run)     *)
(* tests distinguish anything.                                            *)
(***************************************************************************)
WorldEvents == {"PowerOff", "PowerOn", "Stop", "Run"}
PowerAfter(e) == IF e = "PowerOff" THEN FALSE ELSE IF e = "Run" THEN TRUE ELSE power
RunAfter(e) == IF e \in {"PowerOff", "Stop"} THEN FALSE ELSE IF e = "Run" THEN TRUE ELSE run

\* ECoSInterface::worldEvent, entered with the world's new state: the
\* kernel's queue after the command it posts.
WorldEventQueue(e, p, r) ==
    IF kernel = 0 THEN kq
    ELSE IF e \in {"PowerOff", "Stop"} THEN Append(kq, "estop")
    ELSE IF p /\ r THEN Append(kq, "go")
    ELSE kq

\* World::event(e) as the world and the interface see it.
WorldEvent(e) ==
    /\ power' = PowerAfter(e)
    /\ run' = RunAfter(e)
    /\ kq' = WorldEventQueue(e, PowerAfter(e), RunAfter(e))

(***************************************************************************)
(* The simulation data: m_simulation, the locomotives and s88 modules a   *)
(* simulated kernel presents, and its "simulation" object in the world's  *)
(* state file.  A JSON object is a record of the numbers it holds; an     *)
(* absent array reads as an empty one, as json::value's default does.     *)
(***************************************************************************)

\* load: a locomotive is kept when its id and address are not 0 and its
\* protocol name parses; id and address are read into uint16_t.
LoadLocomotive(o) == [id |-> o.id % 65536, protocol |-> o.protocol,
                      address |-> o.address % 65536]
ValidLocomotive(o) ==
    o.id % 65536 # 0 /\ o.protocol \in LocomotiveProtocols /\ o.address % 65536 # 0

\* load: an s88 module is kept when its id is not 0 and it has 8 or 16
\* ports (read into uint8_t); the first other one ends the list.
LoadS88(o) == [id |-> o.id % 65536, ports |-> o.ports % 256]
ValidS88(o) == o.id % 65536 # 0 /\ o.ports % 256 \in {8, 16}

\* ECoSInterface::load: the simulation data read from the state file.
LoadSimulation(f) ==
    LET ls == SelectSeq(f.locomotives, ValidLocomotive)
        end == SelectInSeq(f.s88, LAMBDA o : ~ValidS88(o))
        ss == IF end = 0 THEN f.s88 ELSE SubSeq(f.s88, 1, end - 1)
    IN [locomotives |-> [i \in 1..Len(ls) |-> LoadLocomotive(ls[i])],
        s88 |-> [i \in 1..Len(ss) |-> LoadS88(ss[i])]]

\* ECoSInterface::save: one object per locomotive (id, the protocol's
\* name, address) and per s88 module (id, ports); an empty array, and an
\* empty simulation object, are left out.
SaveSimulation(d) == [locomotives |-> d.locomotives, s88 |-> d.s88]

\* Kernel::stop(simulation ? nullptr : &m_simulation): a kernel given
\* m_simulation fills it with the objects it knows, those of the station
\* for a kernel on TCP, those it was created from for a simulated one.
StoppedSimulation ==
    IF stopSim \/ kernelSim THEN simData ELSE StationLayout

(***************************************************************************)
(* The interface, on the main EventLoop.                                  *)
(***************************************************************************)

MainIdle == ~stopping /\ ~crashed

\* Mutant: the catch block reports the failure as status Error.
SetOnlineCatchError(sim) ==
    /\ MainIdle
    /\ kernel = 0
    /\ created < MaxOnline
    /\ userOps < MaxUserOps
    /\ userOps' = userOps + 1
    /\ \/ /\ kernel' = created + 1
          /\ created' = created + 1
          /\ status' = "Initializing"
          /\ hostnameEnabled' = FALSE
          /\ configSlot' = TRUE
          /\ kq' = <<"start", IF run THEN "go" ELSE "estop">>
          /\ ioRunning' = FALSE
          /\ cache' = "unknown"
          /\ kernelSim' = sim
       \/ /\ status' = "Error"
          /\ UNCHANGED <<kernel, created, hostnameEnabled, configSlot, kernelVars,
                         kernelSim>>
    /\ UNCHANGED <<stopping, mq, stationVars, worldVars, ctrlVars, crashed, panelOps,
                   simData, stateFile, stopSim>>

\* Mutant: m_kernel->start() is left out.
SetOnlineNoStart(sim) ==
    /\ MainIdle
    /\ kernel = 0
    /\ created < MaxOnline
    /\ userOps < MaxUserOps
    /\ userOps' = userOps + 1
    /\ \/ /\ kernel' = created + 1
          /\ created' = created + 1
          /\ status' = "Initializing"
          /\ hostnameEnabled' = FALSE
          /\ configSlot' = TRUE
          /\ kq' = <<IF run THEN "go" ELSE "estop">>
          /\ ioRunning' = FALSE
          /\ cache' = "unknown"
          /\ kernelSim' = sim
       \/ /\ status' = "Offline"
          /\ UNCHANGED <<kernel, created, hostnameEnabled, configSlot, kernelVars,
                         kernelSim>>
    /\ UNCHANGED <<stopping, mq, stationVars, worldVars, ctrlVars, crashed, panelOps,
                   simData, stateFile, stopSim>>

\* setOnline(true, sim) without a kernel: create the kernel (on the
\* SimulationIOHandler with m_simulation when sim is set), status
\* Initializing, install the callbacks, start (which posts the start
\* closure), connect ecos->propertyChanged, then go or emergencyStop by the
\* world's Run state.  Kernel::create may throw a LogMessageException,
\* which leaves m_kernel null and the status Offline.
SetOnline(sim) ==
    /\ MainIdle
    /\ kernel = 0
    /\ created < MaxOnline
    /\ userOps < MaxUserOps
    /\ userOps' = userOps + 1
    /\ \/ /\ kernel' = created + 1
          /\ created' = created + 1
          /\ status' = "Initializing"
          /\ hostnameEnabled' = FALSE
          /\ configSlot' = TRUE
          /\ kq' = <<"start", IF run THEN "go" ELSE "estop">>
          /\ ioRunning' = FALSE
          /\ cache' = "unknown"
          /\ kernelSim' = sim
       \/ /\ status' = "Offline"
          /\ UNCHANGED <<kernel, created, hostnameEnabled, configSlot, kernelVars,
                         kernelSim>>
    /\ UNCHANGED <<stopping, mq, stationVars, worldVars, ctrlVars, crashed, panelOps,
                   simData, stateFile, stopSim>>

\* setOnline(false, sim) with a kernel, up to the join in Kernel::stop: the
\* hostname is enabled again, the ecos slot disconnected, and stop posts
\* the closure that stops the IO handler.  The kernel thread keeps running
\* queued handlers until the io_context is stopped.
SetOfflineBegin(sim) ==
    /\ MainIdle
    /\ kernel # 0
    /\ userOps < MaxUserOps
    /\ userOps' = userOps + 1
    /\ hostnameEnabled' = TRUE
    /\ configSlot' = FALSE
    /\ kq' = Append(kq, "ioStop")
    /\ stopping' = TRUE
    /\ stopSim' = sim
    /\ UNCHANGED <<kernel, created, status, ioRunning, cache, mq, stationVars,
                   worldVars, ctrlVars, crashed, panelOps, simData, stateFile,
                   kernelSim>>

\* The rest of setOnline(false): m_ioContext.stop() drops the queued
\* handlers, the join returns, the kernel fills m_simulation unless sim
\* was set, m_kernel.reset() destroys the kernel (and
\* its IO handler with the connection and its unsent writes), status
\* Offline.  Closures the kernel posted to the main EventLoop stay there.
SetOfflineEnd ==
    /\ stopping
    /\ ~crashed
    /\ stopping' = FALSE
    /\ kernel' = 0
    /\ status' = "Offline"
    /\ kq' = <<>>
    /\ ioRunning' = FALSE
    /\ toStation' = <<>>
    /\ fromStation' = <<>>
    /\ simData' = StoppedSimulation
    /\ UNCHANGED <<created, hostnameEnabled, configSlot, cache, mq, station,
                   worldVars, ctrlVars, crashed, userOps, panelOps, stateFile,
                   kernelSim, stopSim>>

\* World::save calls save on the interface, which writes m_simulation to
\* the state file.
WorldSave ==
    /\ MainIdle
    /\ userOps < MaxUserOps
    /\ userOps' = userOps + 1
    /\ stateFile' = SaveSimulation(simData)
    /\ UNCHANGED <<kernel, created, status, hostnameEnabled, configSlot, stopping,
                   kernelVars, mq, stationVars, worldVars, ctrlVars, crashed,
                   panelOps, simData, kernelSim, stopSim>>

\* The user (or a script) calls World::powerOff / powerOn / stop / run.
WorldUser(e) ==
    /\ MainIdle
    /\ userOps < MaxUserOps
    /\ userOps' = userOps + 1
    /\ WorldEvent(e)
    /\ UNCHANGED <<ifaceVars, ioRunning, cache, mq, stationVars, ctrlVars,
                   crashed, panelOps>>

\* Mutant: the onGo callback runs the world when it is already running.
CallbackGoInverted(cb) ==
    \/ /\ cb = "started"
       /\ status' = "Online"
       /\ UNCHANGED <<worldVars, kq>>
    \/ /\ cb = "estop"
       /\ IF power /\ run THEN WorldEvent("PowerOff") ELSE UNCHANGED <<worldVars, kq>>
       /\ UNCHANGED status
    \/ /\ cb = "go"
       /\ IF run THEN WorldEvent("Run") ELSE UNCHANGED <<worldVars, kq>>
       /\ UNCHANGED status

\* The closures the three callbacks run: onStarted sets the status; the
\* onEmergencyStop callback powers the world off when it is powered and
\* running, the onGo callback runs it when it is not running; both reach
\* worldEvent through World::event.
Callback(cb) ==
    \/ /\ cb = "started"
       /\ status' = "Online"
       /\ UNCHANGED <<worldVars, kq>>
    \/ /\ cb = "estop"
       /\ IF power /\ run THEN WorldEvent("PowerOff") ELSE UNCHANGED <<worldVars, kq>>
       /\ UNCHANGED status
    \/ /\ cb = "go"
       /\ IF ~run THEN WorldEvent("Run") ELSE UNCHANGED <<worldVars, kq>>
       /\ UNCHANGED status

\* The main EventLoop runs the next closure a kernel posted.  The closure
\* captured its kernel and calls the kernel's std::function member: if
\* that kernel has been reset since, this is a use after free, and the
\* outcome is either a crash or the stale callback running (its captured
\* interface is still alive).
MainRun ==
    /\ MainIdle
    /\ mq # <<>>
    /\ mq' = Tail(mq)
    /\ IF Head(mq).k = kernel
       THEN Callback(Head(mq).cb) /\ UNCHANGED crashed
       ELSE \/ Callback(Head(mq).cb) /\ UNCHANGED crashed
            \/ crashed' = TRUE /\ UNCHANGED <<status, worldVars, kq>>
    /\ UNCHANGED <<kernel, created, hostnameEnabled, configSlot, stopping, ioRunning,
                   cache, stationVars, ctrlVars, userOps, panelOps, simVars>>

\* A controller call the interface forwards to its kernel (a post onto
\* the kernel's io_context), or drops.
Forward(cmd, ok) ==
    /\ MainIdle
    /\ userOps < MaxUserOps
    /\ userOps' = userOps + 1
    /\ kq' = IF ok THEN Append(kq, cmd) ELSE kq
    /\ UNCHANGED <<ifaceVars, ioRunning, cache, mq, stationVars, worldVars,
                   inputs, outputs, crashed, panelOps>>

\* decoderChanged: forwarded when there is a kernel.
DecoderChanged == Forward("decoder", kernel # 0) /\ UNCHANGED <<simAsked, simulated>>

\* testCommandSend: m_kernel->postSend when there is a kernel.
TestCommandSend == Forward("send", kernel # 0) /\ UNCHANGED <<simAsked, simulated>>

\* ecos->propertyChanged while the slot is connected: m_kernel->setConfig.
EcosConfigChanged ==
    /\ configSlot
    /\ Forward("config", TRUE)
    /\ UNCHANGED <<simAsked, simulated>>

\* setOutputValue(channel, address, value) for an added output.
SetOutputValue(ch, a) ==
    /\ <<ch, a>> \in outputs
    /\ Forward("output", kernel # 0 /\ InRange(a, OutputAddressMinMax(ch)))
    /\ UNCHANGED <<simAsked, simulated>>

\* inputSimulateChange(channel, address) for an added input: the address
\* is checked against outputAddressMinMax(channel).
InputSimulateChange(ch, a) ==
    /\ <<ch, a>> \in inputs
    /\ LET ok == kernel # 0 /\ InRange(a, OutputAddressMinMax(ch))
       IN /\ Forward("simulate", ok)
          /\ simAsked' = IF kernel # 0 THEN simAsked \cup {<<ch, a>>} ELSE simAsked
          /\ simulated' = IF ok THEN simulated \cup {<<ch, a>>} ELSE simulated

\* addInput / removeInput / addOutput / removeOutput: the controller base
\* (not in the repository) accepts an address inside the channel's range
\* that is not in use (spec 4.9, law 8), and the interface adds the object
\* to its list on success.
AddInput(ch, a) ==
    /\ MainIdle
    /\ userOps < MaxUserOps
    /\ userOps' = userOps + 1
    /\ inputs' = IF InRange(a, InputAddressMinMax(ch)) THEN inputs \cup {<<ch, a>>}
                                                      ELSE inputs
    /\ UNCHANGED <<ifaceVars, kernelVars, mq, stationVars, worldVars, outputs,
                   simAsked, simulated, crashed, panelOps>>

RemoveInput(ch, a) ==
    /\ MainIdle
    /\ <<ch, a>> \in inputs
    /\ inputs' = inputs \ {<<ch, a>>}
    /\ UNCHANGED <<ifaceVars, kernelVars, mq, stationVars, worldVars, outputs,
                   simAsked, simulated, crashed, userOps, panelOps>>

AddOutput(ch, a) ==
    /\ MainIdle
    /\ userOps < MaxUserOps
    /\ userOps' = userOps + 1
    /\ outputs' = IF InRange(a, OutputAddressMinMax(ch)) THEN outputs \cup {<<ch, a>>}
                                                        ELSE outputs
    /\ UNCHANGED <<ifaceVars, kernelVars, mq, stationVars, worldVars, inputs,
                   simAsked, simulated, crashed, panelOps>>

RemoveOutput(ch, a) ==
    /\ MainIdle
    /\ <<ch, a>> \in outputs
    /\ outputs' = outputs \ {<<ch, a>>}
    /\ UNCHANGED <<ifaceVars, kernelVars, mq, stationVars, worldVars, inputs,
                   simAsked, simulated, crashed, userOps, panelOps>>


(***************************************************************************)
(* The kernel thread (ECoS kernel, modelled on spec 4.7 and the kernels   *)
(* of the repository).                                                     *)
(***************************************************************************)

\* The kernel thread runs the next handler of its io_context: the start
\* closure starts the IO handler, queries the station and posts onStarted;
\* go / emergencyStop are sent over the connection (a send without a
\* started handler is lost); the stop closure stops the IO handler; the
\* other posts (config, postSend, decoder, output, simulate) send nothing
\* the station model tells apart.
KernelRun ==
    /\ kernel # 0
    /\ kq # <<>>
    /\ ~crashed
    /\ kq' = Tail(kq)
    /\ LET c == Head(kq) IN
       \/ /\ c = "start"
          /\ ioRunning' = TRUE
          /\ toStation' = Append(toStation, "query")
          /\ mq' = Append(mq, [k |-> kernel, cb |-> "started"])
       \/ /\ c \in {"go", "estop"}
          /\ toStation' = IF ioRunning THEN Append(toStation, c) ELSE toStation
          /\ UNCHANGED <<ioRunning, mq>>
       \/ /\ c = "ioStop"
          /\ ioRunning' = FALSE
          /\ UNCHANGED <<toStation, mq>>
       \/ /\ c \in Commands \ {"start", "go", "estop", "ioStop"}
          /\ UNCHANGED <<ioRunning, toStation, mq>>
    /\ UNCHANGED <<ifaceVars, cache, fromStation, station, worldVars, ctrlVars,
                   crashed, userOps, panelOps>>

\* A station report reaches the kernel: a change of the cached go/stop
\* state posts onGo or onEmergencyStop to the main EventLoop.
KernelReceive ==
    /\ kernel # 0
    /\ ioRunning
    /\ fromStation # <<>>
    /\ ~crashed
    /\ fromStation' = Tail(fromStation)
    /\ cache' = Head(fromStation)
    /\ mq' = IF Head(fromStation) = cache THEN mq
             ELSE Append(mq, [k |-> kernel,
                              cb |-> IF Head(fromStation) = "go" THEN "go" ELSE "estop"])
    /\ UNCHANGED <<ifaceVars, kq, ioRunning, toStation, station, worldVars,
                   ctrlVars, crashed, userOps, panelOps>>

(***************************************************************************)
(* The command station.                                                    *)
(***************************************************************************)

\* The station executes the next command and reports its state.
StationReceive ==
    /\ toStation # <<>>
    /\ LET c == Head(toStation)
           s == IF c = "go" THEN "go" ELSE IF c = "estop" THEN "stop" ELSE station
       IN /\ station' = s
          /\ fromStation' = Append(fromStation, s)
    /\ toStation' = Tail(toStation)
    /\ UNCHANGED <<ifaceVars, kernelVars, mq, worldVars, ctrlVars, crashed,
                   userOps, panelOps>>

\* STOP or GO pressed on the station; the report reaches a connected kernel.
StationPanel(s) ==
    /\ panelOps < MaxPanelOps
    /\ s # station
    /\ panelOps' = panelOps + 1
    /\ station' = s
    /\ fromStation' = IF ioRunning THEN Append(fromStation, s) ELSE fromStation
    /\ UNCHANGED <<ifaceVars, kernelVars, mq, toStation, worldVars, ctrlVars,
                   crashed, userOps>>

(***************************************************************************)
(* Specification.                                                          *)
(***************************************************************************)

Init ==
    /\ kernel = 0
    /\ created = 0
    /\ status = "Offline"
    /\ hostnameEnabled = TRUE
    /\ configSlot = FALSE
    /\ stopping = FALSE
    /\ kq = <<>>
    /\ ioRunning = FALSE
    /\ cache = "unknown"
    /\ mq = <<>>
    /\ toStation = <<>>
    /\ fromStation = <<>>
    /\ station \in {"go", "stop"}
    /\ power \in BOOLEAN
    /\ run \in BOOLEAN
    /\ run => power
    /\ inputs = {}
    /\ outputs = {}
    /\ simAsked = {}
    /\ simulated = {}
    /\ crashed = FALSE
    /\ userOps = 0
    /\ panelOps = 0
    /\ stateFile \in StateFiles
    /\ simData = LoadSimulation(stateFile)
    /\ kernelSim = FALSE
    /\ stopSim = FALSE

Interface ==
    \/ \E sim \in BOOLEAN : SetOnline(sim) \/ SetOfflineBegin(sim)
    \/ WorldSave
    \/ SetOfflineEnd
    \/ \E e \in WorldEvents : WorldUser(e)
    \/ MainRun
    \/ DecoderChanged
    \/ TestCommandSend
    \/ EcosConfigChanged
    \/ \E ch \in OutputChannels, a \in Addresses : AddOutput(ch, a) \/ RemoveOutput(ch, a)
                                                   \/ SetOutputValue(ch, a)
    \/ \E ch \in InputChannels, a \in Addresses : AddInput(ch, a) \/ RemoveInput(ch, a)
                                                  \/ InputSimulateChange(ch, a)

Environment ==
    \/ KernelRun
    \/ KernelReceive
    \/ StationReceive
    \/ \E s \in {"go", "stop"} : StationPanel(s)

Next == Interface \/ Environment

\* The kernel thread, the main EventLoop and the station run every handler
\* they are given; the user and the station's panel are not obliged to act.
Fairness ==
    /\ WF_vars(KernelRun)
    /\ WF_vars(KernelReceive)
    /\ WF_vars(MainRun)
    /\ WF_vars(SetOfflineEnd)
    /\ WF_vars(StationReceive)

Spec == Init /\ [][Next]_vars /\ Fairness

(***************************************************************************)
(* Properties.                                                             *)
(***************************************************************************)

TypeOK ==
    /\ kernel \in 0..MaxOnline
    /\ created \in 0..MaxOnline
    /\ status \in Statuses
    /\ hostnameEnabled \in BOOLEAN
    /\ configSlot \in BOOLEAN
    /\ stopping \in BOOLEAN
    /\ kq \in Seq(Commands)
    /\ ioRunning \in BOOLEAN
    /\ cache \in {"unknown", "go", "stop"}
    /\ mq \in Seq([k: 1..MaxOnline, cb: Callbacks])
    /\ toStation \in Seq(StationCommands)
    /\ fromStation \in Seq({"go", "stop"})
    /\ station \in {"go", "stop"}
    /\ power \in BOOLEAN /\ run \in BOOLEAN
    /\ inputs \subseteq InputChannels \X Addresses
    /\ outputs \subseteq OutputChannels \X Addresses
    /\ simulated \subseteq simAsked
    /\ crashed \in BOOLEAN
    /\ kernelSim \in BOOLEAN /\ stopSim \in BOOLEAN

Quiet == kq = <<>> /\ mq = <<>> /\ toStation = <<>> /\ fromStation = <<>> /\ ~stopping

\* Once an online interface and its station are quiet, the station runs
\* exactly when the world is powered on and running.
StationFollowsWorld ==
    (Quiet /\ kernel # 0 /\ ioRunning) => ((station = "go") <=> (power /\ run))

\* The status says Online only while the interface holds a kernel.
OnlineHasKernel == status = "Online" => kernel # 0

\* After setOnline(true) the status eventually becomes Online, unless the
\* interface goes offline first.
EventuallyOnline ==
    \A g \in 1..MaxOnline : (kernel = g) ~> (status = "Online" \/ kernel # g \/ crashed)

\* Every added input whose simulated change was asked for while the
\* interface was online reached the kernel (inputSimulateChange checks the
\* address against the range of the input's channel).
SimulateReachesKernel == simAsked = simulated

\* The interface and its station settle again and again: the callbacks,
\* which drive the world, and worldEvent, which drives the station, never
\* keep each other busy.
Settles == []<>(Quiet \/ crashed)

=============================================================================
