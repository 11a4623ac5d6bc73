------------------------- MODULE TraintasticDIYKernel -------------------------
(***************************************************************************)
(* The TraintasticDIY hardware kernel (server/src/hardware/protocol/       *)
(* traintasticdiy/kernel.cpp) together with the two threads it runs on and *)
(* the parties it talks to:                                                *)
(*   - the kernel thread: the kernel's io_context, a FIFO of posted        *)
(*     closures (kq), the IO handler's receive path (fromDevice) and the   *)
(*     heartbeat timer, all executed one handler at a time;                *)
(*   - the main thread: the EventLoop, a FIFO of closures posted with      *)
(*     EventLoop::call (mq), and the user's calls into the kernel and the  *)
(*     Input/OutputController;                                             *)
(*   - the device at the other end of the IO handler (toDevice/fromDevice, *)
(*     both FIFO, as over TCP or a serial line).                           *)
(* Logging (debugLogRXTX, Info text, the Invalid warnings) is left out:    *)
(* those closures change no state.                                         *)
(***************************************************************************)
EXTENDS Integers, Sequences, SequencesExt, FiniteSets

CONSTANTS
  Addr,              \* addresses the device may report, in range or not
  IoAddressMin,      \* Kernel::ioAddressMin
  IoAddressMax,      \* Kernel::ioAddressMax
  Simulation,        \* the simulation flag given to Kernel::Kernel
  HeartbeatTimeouts, \* values config.heartbeatTimeout may take, in ticks
  MaxEvents,         \* bound on user calls and hardware changes
  MaxChannel,        \* bound on frames in flight in each direction
  TimePasses,        \* FALSE: no tick ever happens, so no heartbeat either
  SendFailures,      \* TRUE: m_ioHandler->send may refuse a frame
  NoValue,           \* model value: address absent from a state map
  NoTimer            \* model value: heartbeat timer not armed

ASSUME HeartbeatTimeouts \subseteq Nat \ {0} /\ HeartbeatTimeouts # {}
ASSUME Simulation \in BOOLEAN /\ TimePasses \in BOOLEAN /\ SendFailures \in BOOLEAN /\ MaxEvents \in Nat /\ MaxChannel \in Nat

VARIABLES
  \* kernel, main-thread view
  kphase,           \* "constructed" | "running" | "stopping" | "stopped"
  \* kernel thread
  ioStopped,        \* m_ioContext.stop() has been called
  ioHandlerRunning, \* m_ioHandler->start() ran and ->stop() did not
  kq,               \* closures posted to m_ioContext
  featureFlagsSet, featureInput, featureOutput,
  inputValues, outputValues, \* m_inputValues, m_outputValues
  config,           \* m_config.heartbeatTimeout
  hbLeft,           \* ticks until m_heartbeatTimeout's pending wait expires, or NoTimer
  hbFired,          \* an expired wait's handler is queued, to run with success
  \* main thread
  mq,               \* closures posted with EventLoop::call
  inputs, outputs,  \* addresses known to the Input/OutputController
  inputValue, outputValue, \* the TriState values of those inputs/outputs
  onStartedCalled,
  \* device
  toDevice, fromDevice, hwIn, hwOut, hwFeatures,
  \* history, for the properties only
  events, primedIn, primedOut, quiet, delivered

kernelVars == <<ioStopped, ioHandlerRunning, kq, featureFlagsSet,
                featureInput, featureOutput, inputValues, outputValues,
                config, hbLeft, hbFired>>
mainVars == <<mq, inputs, outputs, inputValue, outputValue, onStartedCalled>>
deviceVars == <<toDevice, fromDevice, hwIn, hwOut, hwFeatures>>
historyVars == <<events, primedIn, primedOut, quiet, delivered>>
vars == <<kphase, kernelVars, mainVars, deviceVars, historyVars>>

-----------------------------------------------------------------------------
(* InputState / OutputState (inputstate.hpp) and TriState.                 *)
States == {"Undefined", "False", "True", "Invalid"}
TriStates == {"False", "True", "Undefined"}

\* toTriState: Undefined and Invalid both map to TriState::Undefined.
ToTriState(s) == IF s \in {"False", "True"} THEN s ELSE "Undefined"

\* inRange(address, ioAddressMin, ioAddressMax)
InRange(a) == IoAddressMin <= a /\ a <= IoAddressMax

InRangeAddr == {a \in Addr : InRange(a)}
MaxTimeout == CHOOSE t \in HeartbeatTimeouts : \A u \in HeartbeatTimeouts : u <= t
MinTimeout == CHOOSE t \in HeartbeatTimeouts : \A u \in HeartbeatTimeouts : t <= u

(* Frames of the TraintasticDIY protocol (messages.hpp).                   *)
Frame(op) == [op |-> op]
AddrFrame(op, a) == [op |-> op, addr |-> a]
StateFrame(op, a, s) == [op |-> op, addr |-> a, state |-> s]
FeaturesFrame(f) == [op |-> "Features", input |-> f.input, output |-> f.output]

ToDeviceFrames ==
  {Frame(o) : o \in {"GetInfo", "GetFeatures", "Heartbeat"}}
  \cup {AddrFrame(o, a) : o \in {"GetInputState", "GetOutputState"}, a \in Addr}
  \cup {StateFrame("SetOutputState", a, s) : a \in Addr, s \in {"False", "True"}}
FeatureSets == [input : BOOLEAN, output : BOOLEAN]
FromDeviceFrames ==
  {Frame(o) : o \in {"Heartbeat", "Info"}}
  \cup {FeaturesFrame(f) : f \in FeatureSets}
  \cup {StateFrame(o, a, s) : o \in {"SetInputState", "SetOutputState"},
                             a \in Addr, s \in States}

KernelTasks ==
  {[op |-> o] : o \in {"start", "stop"}}
  \cup {[op |-> "send", msg |-> m] : m \in ToDeviceFrames}
  \cup {[op |-> "simulate", addr |-> a] : a \in Addr}
  \cup {[op |-> "config", timeout |-> t] : t \in HeartbeatTimeouts}
MainTasks ==
  {[op |-> o] : o \in {"started", "queryInputs", "queryOutputs"}}
  \cup {[op |-> o, addr |-> a, state |-> s] :
          o \in {"inputUpdate", "outputUpdate"}, a \in Addr, s \in States}

-----------------------------------------------------------------------------
(* Helpers shared by the actions.                                          *)

\* Kernel::postSend: the frame is sent later, on the kernel thread.
PostSends(frames) ==
  kq' = kq \o [i \in 1..Len(frames) |-> [op |-> "send", msg |-> frames[i]]]

\* What the IO handler's send(f) puts on the wire: the frame, or nothing
\* when it refuses it (a write error, a full buffer).
Accepted(f) == IF SendFailures THEN {<<f>>, <<>>} ELSE {<<f>>}

\* Kernel::send: m_ioHandler->send; a frame handed to a stopped handler or
\* refused by it is lost (the failure branch is empty).
Send(f) ==
  \E acc \in Accepted(f) :
    toDevice' = IF ioHandlerRunning THEN toDevice \o acc ELSE toDevice

\* Kernel::restartHeartbeatTimeout: expires_after cancels a wait that is
\* still pending (its handler then runs with operation_aborted and returns)
\* and async_wait arms a new one.  The handler of a wait that has already
\* expired is queued and is not cancelled: hbFired is left as it is.
RestartHeartbeatTimeout == hbLeft' = config

\* The kernel thread executes handlers until m_ioContext.stop().
KernelThreadRuns == kphase \in {"running", "stopping"} /\ ~ioStopped

-----------------------------------------------------------------------------
(* Kernel::receive, one definition per case of the switch.                 *)

\* Mutant: only a cached address is forwarded (the it == end test dropped).
ReceiveSetInputStateCachedOnly(m) ==
  IF featureFlagsSet /\ featureInput /\ InRange(m.addr)
     /\ inputValues[m.addr] # m.state
  THEN /\ inputValues' = [inputValues EXCEPT ![m.addr] = m.state]
       /\ mq' = IF inputValues[m.addr] # NoValue
               THEN Append(mq, [op |-> "inputUpdate", addr |-> m.addr, state |-> m.state])
               ELSE mq
  ELSE UNCHANGED <<inputValues, mq>>

ReceiveSetInputState(m) ==
  IF featureFlagsSet /\ featureInput /\ InRange(m.addr)
     /\ inputValues[m.addr] # m.state
  THEN /\ inputValues' = [inputValues EXCEPT ![m.addr] = m.state]
       /\ mq' = Append(mq, [op |-> "inputUpdate", addr |-> m.addr, state |-> m.state])
  ELSE UNCHANGED <<inputValues, mq>>

ReceiveSetOutputState(m) ==
  IF featureFlagsSet /\ featureOutput /\ InRange(m.addr)
     /\ outputValues[m.addr] # m.state
  THEN /\ outputValues' = [outputValues EXCEPT ![m.addr] = m.state]
       /\ mq' = Append(mq, [op |-> "outputUpdate", addr |-> m.addr, state |-> m.state])
  ELSE UNCHANGED <<outputValues, mq>>

ReceiveFeatures(m) ==
  /\ featureFlagsSet' = TRUE
  /\ featureInput' = m.input
  /\ featureOutput' = m.output
  /\ mq' = mq \o (IF m.input THEN <<[op |-> "queryInputs"]>> ELSE <<>>)
              \o (IF m.output THEN <<[op |-> "queryOutputs"]>> ELSE <<>>)

Receive(m) ==
  /\ RestartHeartbeatTimeout /\ UNCHANGED hbFired
  /\ quiet' = 0
  /\ \/ /\ m.op \in {"Heartbeat", "Info"}
        /\ UNCHANGED <<featureFlagsSet, featureInput, featureOutput,
                       inputValues, outputValues, mq>>
     \/ /\ m.op = "SetInputState"
        /\ ReceiveSetInputState(m)
        /\ UNCHANGED <<featureFlagsSet, featureInput, featureOutput, outputValues>>
     \/ /\ m.op = "SetOutputState"
        /\ ReceiveSetOutputState(m)
        /\ UNCHANGED <<featureFlagsSet, featureInput, featureOutput, inputValues>>
     \/ /\ m.op = "Features"
        /\ ReceiveFeatures(m)
        /\ UNCHANGED <<inputValues, outputValues>>

-----------------------------------------------------------------------------
(* The kernel thread: one handler of m_ioContext at a time.                *)

KernelTask(op) == KernelThreadRuns /\ kq # <<>> /\ Head(kq).op = op

\* Mutant: the GetFeatures request is not sent.
KernelStartInfoOnly ==
  /\ KernelTask("start")
  /\ kq' = Tail(kq)
  /\ ioHandlerRunning' = TRUE
  /\ toDevice' = toDevice \o <<Frame("GetInfo")>>
  /\ RestartHeartbeatTimeout
  /\ quiet' = 0
  /\ mq' = Append(mq, [op |-> "started"])
  /\ UNCHANGED <<kphase, ioStopped, featureFlagsSet, featureInput, featureOutput,
                 inputValues, outputValues, config, hbFired, inputs, outputs, inputValue,
                 outputValue, onStartedCalled, fromDevice, hwIn, hwOut,
                 hwFeatures, events, primedIn, primedOut, delivered>>

\* The closure posted by Kernel::start.  It starts the IO handler first,
\* so both sends reach a running handler.
KernelStart ==
  /\ KernelTask("start")
  /\ kq' = Tail(kq)
  /\ ioHandlerRunning' = TRUE
  /\ \E info \in Accepted(Frame("GetInfo")), features \in Accepted(Frame("GetFeatures")) :
       toDevice' = toDevice \o info \o features
  /\ RestartHeartbeatTimeout
  /\ quiet' = 0
  /\ mq' = Append(mq, [op |-> "started"])
  /\ UNCHANGED <<kphase, ioStopped, featureFlagsSet, featureInput, featureOutput,
                 inputValues, outputValues, config, hbFired, inputs, outputs, inputValue,
                 outputValue, onStartedCalled, fromDevice, hwIn, hwOut,
                 hwFeatures, events, primedIn, primedOut, delivered>>

\* The closure posted by Kernel::stop.  cancel() aborts the pending wait,
\* not an expired one whose handler is already queued.
KernelStop ==
  /\ KernelTask("stop")
  /\ kq' = Tail(kq)
  /\ hbLeft' = NoTimer
  /\ ioHandlerRunning' = FALSE
  /\ UNCHANGED <<kphase, ioStopped, featureFlagsSet, featureInput, featureOutput,
                 inputValues, outputValues, config, hbFired, mainVars, deviceVars,
                 historyVars>>

\* The closure posted by Kernel::postSend.
KernelSend ==
  /\ KernelTask("send")
  /\ kq' = Tail(kq)
  /\ Send(Head(kq).msg)
  /\ UNCHANGED <<kphase, ioStopped, ioHandlerRunning, featureFlagsSet,
                 featureInput, featureOutput, inputValues, outputValues, config,
                 hbLeft, hbFired, mainVars, fromDevice, hwIn, hwOut, hwFeatures,
                 historyVars>>

\* The state simulateInputChange feeds to receive():
\*   (it == end && it->second == True) ? False : True
\* For a cached address the condition is false, so the result is True.  For
\* an uncached one it dereferences end(): undefined behaviour, either value.
SimulatedStates(a) ==
  IF inputValues[a] # NoValue THEN {"True"} ELSE {"False", "True"}

\* The closure posted by Kernel::simulateInputChange.
KernelSimulate ==
  /\ KernelTask("simulate")
  /\ kq' = Tail(kq)
  /\ \E s \in SimulatedStates(Head(kq).addr) :
        Receive(StateFrame("SetInputState", Head(kq).addr, s))
  /\ UNCHANGED <<kphase, ioStopped, ioHandlerRunning, config, inputs, outputs,
                 inputValue, outputValue, onStartedCalled, deviceVars, events,
                 primedIn, primedOut, delivered>>

\* The closure posted by Kernel::setConfig.
KernelSetConfig ==
  /\ KernelTask("config")
  /\ kq' = Tail(kq)
  /\ config' = Head(kq).timeout
  /\ UNCHANGED <<kphase, ioStopped, ioHandlerRunning, featureFlagsSet,
                 featureInput, featureOutput, inputValues, outputValues, hbLeft, hbFired,
                 mainVars, deviceVars, historyVars>>

\* The IO handler hands a frame read from the device to Kernel::receive.
KernelReceive ==
  /\ KernelThreadRuns /\ ioHandlerRunning /\ fromDevice # <<>>
  /\ fromDevice' = Tail(fromDevice)
  /\ Receive(Head(fromDevice))
  /\ UNCHANGED <<kphase, ioStopped, ioHandlerRunning, kq, config, inputs,
                 outputs, inputValue, outputValue, onStartedCalled, toDevice,
                 hwIn, hwOut, hwFeatures, events, primedIn, primedOut,
                 delivered>>

\* Mutant: the timer is not restarted after the heartbeat.
HeartbeatTimeoutExpiredNoRestart ==
  /\ KernelThreadRuns /\ hbFired
  /\ hbFired' = FALSE
  /\ Send(Frame("Heartbeat"))
  /\ hbLeft' = NoTimer
  /\ quiet' = 0
  /\ UNCHANGED <<kphase, ioStopped, ioHandlerRunning, kq, featureFlagsSet,
                 featureInput, featureOutput, inputValues, outputValues, config,
                 mainVars, fromDevice, hwIn, hwOut, hwFeatures, events,
                 primedIn, primedOut, delivered>>

\* Kernel::heartbeatTimeoutExpired, for the queued handler of an expired
\* wait (ec == success): cancel() aborts the wait a receive may have armed
\* since, then the heartbeat is sent and the timer restarted.
HeartbeatTimeoutExpired ==
  /\ KernelThreadRuns /\ hbFired
  /\ hbFired' = FALSE
  /\ Send(Frame("Heartbeat"))
  /\ RestartHeartbeatTimeout
  /\ quiet' = 0
  /\ UNCHANGED <<kphase, ioStopped, ioHandlerRunning, kq, featureFlagsSet,
                 featureInput, featureOutput, inputValues, outputValues, config,
                 mainVars, fromDevice, hwIn, hwOut, hwFeatures, events,
                 primedIn, primedOut, delivered>>

\* One tick of time while the kernel runs.  At the deadline the wait
\* completes and its handler is queued; the kernel thread runs it before
\* another tick passes, though handlers queued with it may run first.
Tick ==
  /\ TimePasses
  /\ KernelThreadRuns /\ ioHandlerRunning
  /\ ~hbFired /\ Len(toDevice) < MaxChannel /\ quiet <= MaxTimeout
  /\ hbLeft' = IF hbLeft \in {NoTimer, 1} THEN NoTimer ELSE hbLeft - 1
  /\ hbFired' = (hbLeft = 1)
  /\ quiet' = quiet + 1
  /\ UNCHANGED <<kphase, ioStopped, ioHandlerRunning, kq, featureFlagsSet,
                 featureInput, featureOutput, inputValues, outputValues, config,
                 mainVars, deviceVars, events, primedIn, primedOut, delivered>>

-----------------------------------------------------------------------------
(* The main thread: calls into the kernel, and the EventLoop closures.     *)
(* While it is blocked in Kernel::stop (join) it runs nothing else.        *)

MainRuns == kphase # "stopping"

\* Kernel::start (the interface goes online).
Start ==
  /\ kphase = "constructed"
  /\ kphase' = "running"
  /\ featureFlagsSet' = FALSE /\ featureInput' = FALSE /\ featureOutput' = FALSE
  /\ kq' = Append(kq, [op |-> "start"])
  /\ UNCHANGED <<ioStopped, ioHandlerRunning, inputValues, outputValues, config,
                 hbLeft, hbFired, mainVars, deviceVars, historyVars>>

\* Kernel::stop, first half: post the closure, then m_ioContext.stop().
StopPost ==
  /\ kphase = "running"
  /\ kphase' = "stopping"
  /\ kq' = Append(kq, [op |-> "stop"])
  /\ UNCHANGED <<ioStopped, ioHandlerRunning, featureFlagsSet, featureInput,
                 featureOutput, inputValues, outputValues, config, hbLeft, hbFired,
                 mainVars, deviceVars, historyVars>>

\* Kernel::stop, second half: m_ioContext.stop() makes run() return after
\* the handler in progress, whatever is still queued; then join.
StopJoin ==
  /\ kphase = "stopping"
  /\ kphase' = "stopped"
  /\ ioStopped' = TRUE
  /\ UNCHANGED <<ioHandlerRunning, kq, featureFlagsSet, featureInput,
                 featureOutput, inputValues, outputValues, config, hbLeft, hbFired,
                 mainVars, deviceVars, historyVars>>

\* A user call while the interface is online; each one is a counted event.
UserCall == kphase = "running" /\ events < MaxEvents /\ events' = events + 1

\* Mutant: false is sent as OutputState::Undefined.
SetOutputUndefined(a, v) ==
  /\ UserCall /\ a \in outputs
  /\ PostSends(<<StateFrame("SetOutputState", a, IF v THEN "True" ELSE "Undefined")>>)
  /\ UNCHANGED <<kphase, ioStopped, ioHandlerRunning, featureFlagsSet,
                 featureInput, featureOutput, inputValues, outputValues, config,
                 hbLeft, hbFired, mainVars, deviceVars, primedIn, primedOut, quiet,
                 delivered>>

\* Kernel::setOutput(address, value), reached through setOutputValue for an
\* output the controller knows.
SetOutput(a, v) ==
  /\ UserCall /\ a \in outputs
  /\ PostSends(<<StateFrame("SetOutputState", a, IF v THEN "True" ELSE "False")>>)
  /\ UNCHANGED <<kphase, ioStopped, ioHandlerRunning, featureFlagsSet,
                 featureInput, featureOutput, inputValues, outputValues, config,
                 hbLeft, hbFired, mainVars, deviceVars, primedIn, primedOut, quiet,
                 delivered>>

\* Kernel::simulateInputChange(address)
SimulateInputChange(a) ==
  /\ UserCall /\ a \in inputs /\ Simulation
  /\ kq' = Append(kq, [op |-> "simulate", addr |-> a])
  /\ UNCHANGED <<kphase, ioStopped, ioHandlerRunning, featureFlagsSet,
                 featureInput, featureOutput, inputValues, outputValues, config,
                 hbLeft, hbFired, mainVars, deviceVars, primedIn, primedOut, quiet,
                 delivered>>

\* Kernel::setConfig(config)
SetConfig(t) ==
  /\ UserCall
  /\ kq' = Append(kq, [op |-> "config", timeout |-> t])
  /\ UNCHANGED <<kphase, ioStopped, ioHandlerRunning, featureFlagsSet,
                 featureInput, featureOutput, inputValues, outputValues, config,
                 hbLeft, hbFired, mainVars, deviceVars, primedIn, primedOut, quiet,
                 delivered>>

\* addInput: the controller accepts an address in its range that is free;
\* the new input's value starts Undefined.  The kernel is not told.
AddInput(a) ==
  /\ UserCall /\ a \in InRangeAddr \ inputs
  /\ inputs' = inputs \cup {a}
  /\ inputValue' = [inputValue EXCEPT ![a] = "Undefined"]
  /\ UNCHANGED <<kphase, kernelVars, mq, outputs, outputValue, onStartedCalled,
                 deviceVars, primedIn, primedOut, quiet, delivered>>

RemoveInput(a) ==
  /\ UserCall /\ a \in inputs
  /\ inputs' = inputs \ {a}
  /\ primedIn' = primedIn \ {a}
  /\ UNCHANGED <<kphase, kernelVars, mq, outputs, inputValue, outputValue,
                 onStartedCalled, deviceVars, primedOut, quiet, delivered>>

AddOutput(a) ==
  /\ UserCall /\ a \in InRangeAddr \ outputs
  /\ outputs' = outputs \cup {a}
  /\ outputValue' = [outputValue EXCEPT ![a] = "Undefined"]
  /\ UNCHANGED <<kphase, kernelVars, mq, inputs, inputValue, onStartedCalled,
                 deviceVars, primedIn, primedOut, quiet, delivered>>

RemoveOutput(a) ==
  /\ UserCall /\ a \in outputs
  /\ outputs' = outputs \ {a}
  /\ primedOut' = primedOut \ {a}
  /\ UNCHANGED <<kphase, kernelVars, mq, inputs, inputValue, outputValue,
                 onStartedCalled, deviceVars, primedIn, quiet, delivered>>

MainTask(op) == MainRuns /\ mq # <<>> /\ Head(mq).op = op

\* EventLoop::call(m_onStarted)
MainStarted ==
  /\ MainTask("started")
  /\ mq' = Tail(mq)
  /\ onStartedCalled' = TRUE
  /\ UNCHANGED <<kphase, kernelVars, inputs, outputs, inputValue, outputValue,
                 deviceVars, historyVars>>

\* The closure posted for a changed SetInputState: an Invalid state is only
\* logged, any other goes to updateInputValue, which ignores an address the
\* controller does not know.
MainInputUpdate ==
  /\ MainTask("inputUpdate")
  /\ mq' = Tail(mq)
  /\ LET t == Head(mq) IN
       /\ inputValue' = IF t.state # "Invalid" /\ t.addr \in inputs
                        THEN [inputValue EXCEPT ![t.addr] = ToTriState(t.state)]
                        ELSE inputValue
       /\ delivered' = [delivered EXCEPT ![t.addr] = t.state]
  /\ UNCHANGED <<kphase, kernelVars, inputs, outputs, outputValue,
                 onStartedCalled, deviceVars, events, primedIn, primedOut,
                 quiet>>

MainOutputUpdate ==
  /\ MainTask("outputUpdate")
  /\ mq' = Tail(mq)
  /\ LET t == Head(mq) IN
       outputValue' = IF t.state # "Invalid" /\ t.addr \in outputs
                      THEN [outputValue EXCEPT ![t.addr] = ToTriState(t.state)]
                      ELSE outputValue
  /\ UNCHANGED <<kphase, kernelVars, inputs, outputs, inputValue,
                 onStartedCalled, deviceVars, historyVars>>

\* The GetInputState/GetOutputState frames for a set of addresses, in the
\* order of the controller's map (by address).
Queries(op, S) ==
  LET s == SetToSortSeq(S, <) IN [i \in 1..Len(s) |-> AddrFrame(op, s[i])]

\* The closure posted for a Features reply with the input feature.
MainQueryInputs ==
  /\ MainTask("queryInputs")
  /\ mq' = Tail(mq)
  /\ PostSends(Queries("GetInputState", inputs))
  /\ primedIn' = primedIn \cup inputs
  /\ UNCHANGED <<kphase, ioStopped, ioHandlerRunning, featureFlagsSet,
                 featureInput, featureOutput, inputValues, outputValues, config,
                 hbLeft, hbFired, inputs, outputs, inputValue, outputValue,
                 onStartedCalled, deviceVars, events, primedOut, quiet,
                 delivered>>

MainQueryOutputs ==
  /\ MainTask("queryOutputs")
  /\ mq' = Tail(mq)
  /\ PostSends(Queries("GetOutputState", outputs))
  /\ primedOut' = primedOut \cup outputs
  /\ UNCHANGED <<kphase, ioStopped, ioHandlerRunning, featureFlagsSet,
                 featureInput, featureOutput, inputValues, outputValues, config,
                 hbLeft, hbFired, inputs, outputs, inputValue, outputValue,
                 onStartedCalled, deviceVars, events, primedIn, quiet,
                 delivered>>

-----------------------------------------------------------------------------
(* The device: answers each frame in order and reports input changes.      *)

\* The device's answer to a frame of the kernel.
Reply(m) ==
  CASE m.op = "GetInfo"        -> <<Frame("Info")>>
    [] m.op = "GetFeatures"    -> <<FeaturesFrame(hwFeatures)>>
    [] m.op = "GetInputState"  -> <<StateFrame("SetInputState", m.addr, hwIn[m.addr])>>
    [] m.op = "GetOutputState" -> <<StateFrame("SetOutputState", m.addr, hwOut[m.addr])>>
    [] m.op = "SetOutputState" -> <<StateFrame("SetOutputState", m.addr, m.state)>>
    [] m.op = "Heartbeat"      -> <<Frame("Heartbeat")>>

DeviceReply ==
  /\ toDevice # <<>> /\ Len(fromDevice) < MaxChannel
  /\ toDevice' = Tail(toDevice)
  /\ fromDevice' = fromDevice \o Reply(Head(toDevice))
  /\ hwOut' = IF Head(toDevice).op = "SetOutputState"
              THEN [hwOut EXCEPT ![Head(toDevice).addr] = Head(toDevice).state]
              ELSE hwOut
  /\ UNCHANGED <<kphase, kernelVars, mainVars, hwIn, hwFeatures, historyVars>>

\* An input of the device changes and the device reports it.
DeviceInputChange(a, s) ==
  /\ ioHandlerRunning /\ ~ioStopped
  /\ events < MaxEvents /\ events' = events + 1
  /\ s # hwIn[a]
  /\ hwIn' = [hwIn EXCEPT ![a] = s]
  /\ fromDevice' = Append(fromDevice, StateFrame("SetInputState", a, s))
  /\ UNCHANGED <<kphase, kernelVars, mainVars, toDevice, hwOut, hwFeatures,
                 primedIn, primedOut, quiet, delivered>>

-----------------------------------------------------------------------------
(* A kernel just constructed by an interface going online: the controller  *)
(* already holds the inputs and outputs of the loaded world.               *)
Init ==
  /\ kphase = "constructed"
  /\ ioStopped = FALSE /\ ioHandlerRunning = FALSE /\ kq = <<>>
  /\ featureFlagsSet = FALSE /\ featureInput = FALSE /\ featureOutput = FALSE
  /\ inputValues = [a \in Addr |-> NoValue]
  /\ outputValues = [a \in Addr |-> NoValue]
  /\ config \in HeartbeatTimeouts
  /\ hbLeft = NoTimer /\ hbFired = FALSE
  /\ mq = <<>>
  /\ inputs \in SUBSET InRangeAddr /\ outputs \in SUBSET InRangeAddr
  /\ inputValue = [a \in Addr |-> "Undefined"]
  /\ outputValue = [a \in Addr |-> "Undefined"]
  /\ onStartedCalled = FALSE
  /\ toDevice = <<>> /\ fromDevice = <<>>
  /\ hwIn \in [Addr -> States] /\ hwOut \in [Addr -> States]
  \* the state of an address outside the range is never read: fix it
  /\ \A a \in Addr \ InRangeAddr : hwIn[a] = "Undefined" /\ hwOut[a] = "Undefined"
  /\ hwFeatures \in FeatureSets
  /\ events = 0
  /\ primedIn = {} /\ primedOut = {} /\ quiet = 0
  /\ delivered = [a \in Addr |-> NoValue]

KernelThread ==
  \/ KernelStart \/ KernelStop \/ KernelSend \/ KernelSimulate
  \/ KernelSetConfig \/ KernelReceive \/ HeartbeatTimeoutExpired

MainThread ==
  \/ Start \/ StopPost \/ StopJoin
  \/ \E a \in Addr, v \in BOOLEAN : SetOutput(a, v)
  \/ \E a \in Addr : SimulateInputChange(a)
  \/ \E t \in HeartbeatTimeouts : SetConfig(t)
  \/ \E a \in Addr : AddInput(a) \/ RemoveInput(a) \/ AddOutput(a) \/ RemoveOutput(a)
  \/ MainStarted \/ MainInputUpdate \/ MainOutputUpdate
  \/ MainQueryInputs \/ MainQueryOutputs

Device == DeviceReply \/ \E a \in Addr, s \in States : DeviceInputChange(a, s)

Next == KernelThread \/ MainThread \/ Device \/ Tick

Spec == Init /\ [][Next]_vars

\* EventLoop runs every closure posted to it, in order, and Kernel::stop
\* joins once it has posted: each task at the head of the main queue is
\* eventually run, and a stop in progress eventually returns.  The kernel
\* thread's io_context likewise runs every posted handler and every frame
\* the IO handler reads.  The device is assumed to answer every frame it is
\* sent (a connected, working device); its input changes and the user's
\* calls get no fairness.
Fairness ==
  /\ WF_vars(MainStarted) /\ WF_vars(MainInputUpdate)
  /\ WF_vars(MainOutputUpdate) /\ WF_vars(MainQueryInputs)
  /\ WF_vars(MainQueryOutputs) /\ WF_vars(StopJoin)
  /\ WF_vars(KernelStart) /\ WF_vars(KernelStop) /\ WF_vars(KernelSend)
  /\ WF_vars(KernelSimulate) /\ WF_vars(KernelSetConfig)
  /\ WF_vars(KernelReceive) /\ WF_vars(DeviceReply)

FairSpec == Spec /\ Fairness

-----------------------------------------------------------------------------
(* Properties.                                                             *)

TypeOK ==
  /\ kphase \in {"constructed", "running", "stopping", "stopped"}
  /\ ioStopped \in BOOLEAN /\ ioHandlerRunning \in BOOLEAN
  /\ kq \in Seq(KernelTasks) /\ mq \in Seq(MainTasks)
  /\ featureFlagsSet \in BOOLEAN /\ featureInput \in BOOLEAN
  /\ featureOutput \in BOOLEAN
  /\ inputValues \in [Addr -> States \cup {NoValue}]
  /\ outputValues \in [Addr -> States \cup {NoValue}]
  /\ config \in HeartbeatTimeouts
  /\ hbLeft \in 1..MaxTimeout \cup {NoTimer} /\ hbFired \in BOOLEAN
  /\ inputs \subseteq InRangeAddr /\ outputs \subseteq InRangeAddr
  /\ inputValue \in [Addr -> TriStates] /\ outputValue \in [Addr -> TriStates]
  /\ toDevice \in Seq(ToDeviceFrames) /\ fromDevice \in Seq(FromDeviceFrames)
  /\ hwIn \in [Addr -> States] /\ hwOut \in [Addr -> States]

\* Nothing is in flight on either thread or on the wire.
Quiescent ==
  /\ kphase = "running"
  /\ kq = <<>> /\ mq = <<>> /\ toDevice = <<>> /\ fromDevice = <<>>

\* Every input and output that was known to the controller when the Features
\* reply was handled (and is still known) shows the device's state once
\* nothing is in flight: the GetInputState/GetOutputState priming sent from
\* the main loop, the per-address caches of receive() and the FIFO order of
\* both loops together never leave a controller value stale.  An Invalid
\* state is only logged and leaves the value as it was.
ControllerMirrorsHardware ==
  Quiescent =>
    /\ \A a \in primedIn :
         hwIn[a] # "Invalid" => inputValue[a] = ToTriState(hwIn[a])
    /\ \A a \in primedOut :
         hwOut[a] # "Invalid" => outputValue[a] = ToTriState(hwOut[a])

\* The heartbeat timer of restartHeartbeatTimeout/heartbeatTimeoutExpired:
\* whatever frames arrive, whenever setConfig changes the timeout and
\* however the expired handler is ordered with the receive handlers, the
\* link is never silent (no frame received, no heartbeat sent) for longer
\* than the longest timeout.
HeartbeatNeverSilent == quiet <= MaxTimeout

\* The closures receive(SetInputState) posts bring every state it caches to
\* the main thread: once the kernel holds state s for address a, the main
\* loop is eventually told of s (updateInputValue), unless a later frame has
\* replaced s in the cache first.  The main loop runs the closures even
\* after stop() has returned (whether the kernel they capture still exists
\* then is StopLeavesNoCallbacks).
CachedStateReachesMain ==
  \A a \in Addr, s \in States :
    (inputValues[a] = s) ~> (delivered[a] = s \/ inputValues[a] # s)

\* The feature handshake of start() completes: once the interface is
\* online, the Features reply is eventually handled (m_featureFlagsSet), so
\* inputs and outputs are queried, unless the kernel is stopped first.  No
\* request is repeated, so a GetFeatures the IO handler refuses is never
\* sent again (send's failure branch is empty).
HandshakeCompletes == (kphase = "running") ~> (featureFlagsSet \/ kphase # "running")

-----------------------------------------------------------------------------
(* Properties the spec states and the code does not keep (violation runs).  *)

\* Spec 4.8: simulateInputChange(addr) "posts a synthetic SetInputState into
\* the kernel's receive path, toggling the current cached state": once the
\* input feature is on, a cached True or False becomes the other one.
SimulateToggles ==
  [][ (KernelSimulate /\ featureFlagsSet /\ featureInput
       /\ inputValues[Head(kq).addr] \in {"False", "True"})
      => inputValues'[Head(kq).addr] # inputValues[Head(kq).addr] ]_vars

\* Spec 5: stop() "cancels timers, stops the IO handler, drains the queue,
\* and joins": once it has returned, no closure the kernel posted (each
\* captures the kernel's this) is left for the main loop to run.
StopLeavesNoCallbacks == kphase = "stopped" => mq = <<>>

\* Spec 4.7 and 8 (property 6, scenario S6): every received frame restarts
\* the timer, so a heartbeat goes out only after at least the shortest
\* timeout without traffic.  (Violated: a frame handled after the wait
\* expired but before its queued handler ran restarts nothing the handler
\* sees; heartbeatTimeoutExpired still runs with success and sends a
\* heartbeat right after the frame.)
HeartbeatNotEarly == [][HeartbeatTimeoutExpired => quiet >= MinTimeout]_vars

\* Spec 5: once stop() has returned, the IO handler has been stopped.
StopStopsIOHandler == kphase = "stopped" => ~ioHandlerRunning

\* Spec 4.8 and 4.9: the kernel tracks the device's state for every input
\* the controller knows: once nothing is in flight and the input feature is
\* on, every known input shows the device's state.
KnownInputsMirrorHardware ==
  (Quiescent /\ featureFlagsSet /\ featureInput) =>
    \A a \in inputs : hwIn[a] # "Invalid" => inputValue[a] = ToTriState(hwIn[a])
=============================================================================
