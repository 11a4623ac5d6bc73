--------------------------- MODULE Z21ClientKernel ---------------------------
(***************************************************************************)
(* The Z21 client kernel (server/src/hardware/protocol/z21/clientkernel.cpp)*)
(* on its io_context thread, the main EventLoop it reports to, and the Z21 *)
(* command station at the other end of the UDP link.                       *)
(*   - kernel thread: closures posted by trackPowerOn/trackPowerOff/       *)
(*     emergencyStop/postSend (kq), the receive path (fromStation) and the *)
(*     keep-alive timer, one handler at a time;                            *)
(*   - main thread: the callbacks m_onTrackPowerOnChanged,                 *)
(*     m_onEmergencyStop, m_onSerialNumberChanged, m_onHardwareInfoChanged *)
(*     posted with EventLoop::call (mq), and the user's requests;          *)
(*   - the station: answers requests, broadcasts changes made by other     *)
(*     Z21 clients (a handheld, an app) once broadcast flags are set.      *)
(* The kernel's start/stop skeleton (the Kernel base class) is not in this *)
(* file: it is modelled as "start runs onStart, stop runs onStop" (§4.7).  *)
(* setConfig swaps m_config, which only holds debugLogRXTX: it changes no  *)
(* modelled state and is left out with the logging.                        *)
(***************************************************************************)
EXTENDS Integers, Sequences, SequencesExt, FiniteSets, Bitwise

CONSTANTS
  SpeedStepModes,     \* decoder.speedSteps values the decoders use
  StepValues,         \* speed steps the decoders are driven at
  FunctionNumbers,    \* function numbers a decoder may change
  DecoderFunctions,   \* those the decoder has (decoder.getFunction)
  FunctionNumberMax,  \* LanXSetLocoFunction::functionNumberMax
  SerialNumbers,      \* serial numbers a station may report (0 excluded)
  HardwareInfos,      \* hardware type/firmware triples, abstracted
  HwtUnknown,         \* model value: HWT_UNKNOWN and firmware 0.0
  ExternalChanges,    \* TRUE: other Z21 clients also switch the station
  MaxEvents,          \* bound on user requests and external changes
  MaxChannel,         \* bound on datagrams in flight in each direction
  MaxLoss             \* bound on datagrams UDP loses, in both directions

ASSUME SpeedStepModes \subseteq {14, 28, 126, 128}
ASSUME StepValues \subseteq 0..126 /\ 0 \in StepValues
ASSUME DecoderFunctions \subseteq FunctionNumbers /\ FunctionNumbers \subseteq Nat
ASSUME 0 \notin SerialNumbers /\ HwtUnknown \notin HardwareInfos
ASSUME ExternalChanges \in BOOLEAN /\ MaxEvents \in Nat /\ MaxChannel \in Nat /\ MaxLoss \in Nat

VARIABLES
  \* kernel thread (ClientKernel members)
  running,        \* the IO handler runs: between onStart and onStop
  kq,             \* closures posted to m_ioContext
  trackPowerOn,   \* m_trackPowerOn
  emergencyStop,  \* m_emergencyStop
  serialNumber,   \* m_serialNumber
  hardwareInfo,   \* m_hardwareType, m_firmwareVersionMajor/Minor
  keepAlive,      \* m_keepAliveTimer armed
  \* main thread
  mq,             \* closures posted with EventLoop::call
  stopPosted,     \* the interface has stopped the kernel
  mainPower, mainStopped, mainSerial, mainHardware, \* what the callbacks said
  \* station and UDP link
  toStation, fromStation,
  lost,           \* datagrams UDP has lost so far
  stPower, stStopped, stFlags, stSerial, stHardware, stLoco, stFunctions,
  \* history, for the properties only
  events, lastRequest

kernelVars == <<running, kq, trackPowerOn, emergencyStop, serialNumber,
                hardwareInfo, keepAlive>>
mainVars == <<mq, stopPosted, mainPower, mainStopped, mainSerial, mainHardware>>
stationVars == <<toStation, fromStation, lost, stPower, stStopped, stFlags, stSerial,
                 stHardware, stLoco, stFunctions>>
historyVars == <<events, lastRequest>>
vars == <<kernelVars, mainVars, stationVars, historyVars>>

-----------------------------------------------------------------------------
TriStates == {"Undefined", "False", "True"}
ToTri(b) == IF b THEN "True" ELSE "False"

\* Requests of the kernel and datagrams of the station, by their header.
Datagram(op) == [op |-> op]
NoLoco == [op |-> "none"]

\* Mutant: the 14 step branch without the + 1 past emergency stop.
SpeedAndDirectionNoOffset(steps, step, estop, forward) ==
  LET sd == CASE estop         -> 1
              [] step = 0      -> 0
              [] steps = 14    -> step
              [] steps = 28    -> LET s == (step + 1) % 256
                                  IN ((s & 1) * 16) | shiftR(s, 1)
              [] OTHER         -> step + 1
  IN IF forward THEN sd | 128 ELSE sd

\* LanXSetLocoDrive.speedAndDirection for a decoder (lines 226-266).  The
\* decoder's throttle is abstracted to the speed step throttleToSpeedStep
\* gives; emergency stop is 0x01, stop is 0x00, Forward sets bit 7.
SpeedAndDirection(steps, step, estop, forward) ==
  LET sd == CASE estop         -> 1
              [] step = 0      -> 0
              [] steps = 14    -> step + 1
              [] steps = 28    -> LET s == (step + 1) % 256
                                  IN ((s & 1) * 16) | shiftR(s, 1)
              [] OTHER         -> step + 1
  IN IF forward THEN sd | 128 ELSE sd

\* db0 of LanXSetLocoDrive: the speed step mode.
SpeedStepsCode(steps) == CASE steps = 14 -> 16 [] steps = 28 -> 18 [] OTHER -> 19

\* The steps a decoder in mode `steps` can be driven at.
StepsOf(steps) == {n \in StepValues : n <= IF steps = 14 THEN 14
                                            ELSE IF steps = 28 THEN 28 ELSE 126}

\* decoderChanged for a drive change: the LanXSetLocoDrive datagram.  The
\* decoder state it was built from rides along for the properties.
LocoDrive(steps, step, estop, forward) ==
  [op |-> "LocoDrive", db0 |-> SpeedStepsCode(steps),
   sd |-> SpeedAndDirection(steps, step, estop, forward),
   steps |-> steps, step |-> step, estop |-> estop, forward |-> forward]

LocoFunction(fn, on) == [op |-> "LocoFunction", fn |-> fn, on |-> on]

RequestOps == {"GetSerialNumber", "GetHardwareInfo", "SetBroadcastFlags",
               "GetBroadcastFlags", "SystemStateGetData", "SetTrackPowerOn",
               "SetTrackPowerOff", "SetStop", "Logoff"}
ToStationDatagrams ==
  {Datagram(o) : o \in RequestOps}
  \cup {LocoDrive(m, n, e, f) : m \in SpeedStepModes, n \in StepValues,
                                e \in BOOLEAN, f \in BOOLEAN}
  \cup {LocoFunction(fn, on) : fn \in 0..FunctionNumberMax, on \in BOOLEAN}
FromStationDatagrams ==
  {Datagram(o) : o \in {"BCTrackPowerOff", "BCTrackPowerOn", "BCStopped",
                        "BroadcastFlags"}}
  \cup {[op |-> "SystemStateDataChanged", power |-> p, stopped |-> s] :
          p \in BOOLEAN, s \in BOOLEAN}
  \cup {[op |-> "SerialNumber", sn |-> s] : s \in SerialNumbers}
  \cup {[op |-> "HardwareInfo", hw |-> h] : h \in HardwareInfos}

KernelClosures ==
  {[op |-> o] : o \in {"start", "stop", "trackPowerOn", "trackPowerOff", "emergencyStop"}}
  \cup {[op |-> "send", d |-> x] : x \in ToStationDatagrams}
MainCallbacks ==
  {[op |-> "trackPowerOnChanged", on |-> b] : b \in BOOLEAN}
  \cup {[op |-> "emergencyStop"]}
  \cup {[op |-> "serialNumberChanged", sn |-> s] : s \in SerialNumbers}
  \cup {[op |-> "hardwareInfoChanged", hw |-> h] : h \in HardwareInfos}

-----------------------------------------------------------------------------
(* Helpers.                                                                *)

\* UDP: of the datagrams ds sent on channel ch, those of a subsequence r
\* arrive, in order; the others are lost, at most MaxLoss of them in all.
Transmit(ch, ds) ==
  \E keep \in SUBSET DOMAIN ds :
    LET r == [i \in 1..Cardinality(keep) |-> ds[SetToSortSeq(keep, <)[i]]] IN
      /\ lost + Len(ds) - Len(r) <= MaxLoss
      /\ ch' = ch \o r
      /\ lost' = lost + Len(ds) - Len(r)

\* ClientKernel::send: a datagram handed to a stopped handler is lost, and
\* so is a failed send (the else branch is empty).
Send(ds) == IF running THEN Transmit(toStation, ds) ELSE UNCHANGED <<toStation, lost>>

KernelTask(op) == kq # <<>> /\ Head(kq).op = op

-----------------------------------------------------------------------------
(* ClientKernel::receive.                                                  *)

\* Mutant: the broadcast is only taken while the state is still unknown.
ReceiveTrackPowerFirstOnly(on) ==
  IF trackPowerOn = "Undefined"
  THEN /\ trackPowerOn' = ToTri(on)
       /\ mq' = Append(mq, [op |-> "trackPowerOnChanged", on |-> on])
  ELSE UNCHANGED <<trackPowerOn, mq>>

\* LanXBCTrackPowerOff / LanXBCTrackPowerOn (xheader 0x61).
ReceiveTrackPower(on) ==
  IF trackPowerOn # ToTri(on)
  THEN /\ trackPowerOn' = ToTri(on)
       /\ mq' = Append(mq, [op |-> "trackPowerOnChanged", on |-> on])
  ELSE UNCHANGED <<trackPowerOn, mq>>

\* LanXBCStopped (xheader 0x81).
ReceiveStopped ==
  IF emergencyStop # "True"
  THEN /\ emergencyStop' = "True"
       /\ mq' = Append(mq, [op |-> "emergencyStop"])
  ELSE UNCHANGED <<emergencyStop, mq>>

\* LAN_GET_SERIAL_NUMBER reply.
ReceiveSerialNumber(sn) ==
  IF serialNumber # sn
  THEN /\ serialNumber' = sn
       /\ mq' = Append(mq, [op |-> "serialNumberChanged", sn |-> sn])
  ELSE UNCHANGED <<serialNumber, mq>>

\* LAN_GET_HWINFO reply.
ReceiveHardwareInfo(hw) ==
  IF hardwareInfo # hw
  THEN /\ hardwareInfo' = hw
       /\ mq' = Append(mq, [op |-> "hardwareInfoChanged", hw |-> hw])
  ELSE UNCHANGED <<hardwareInfo, mq>>

Receive(d) ==
  \/ /\ d.op \in {"BCTrackPowerOff", "BCTrackPowerOn"}
     /\ ReceiveTrackPower(d.op = "BCTrackPowerOn")
     /\ UNCHANGED <<emergencyStop, serialNumber, hardwareInfo>>
  \/ /\ d.op = "BCStopped"
     /\ ReceiveStopped
     /\ UNCHANGED <<trackPowerOn, serialNumber, hardwareInfo>>
  \/ /\ d.op = "SerialNumber"
     /\ ReceiveSerialNumber(d.sn)
     /\ UNCHANGED <<trackPowerOn, emergencyStop, hardwareInfo>>
  \/ /\ d.op = "HardwareInfo"
     /\ ReceiveHardwareInfo(d.hw)
     /\ UNCHANGED <<trackPowerOn, emergencyStop, serialNumber>>
  \* GET/SET_BROADCASTFLAGS, SYSTEMSTATE_DATACHANGED, ...: not (yet) supported;
  \* the central state a SYSTEMSTATE_DATACHANGED carries is dropped
  \/ /\ d.op \in {"BroadcastFlags", "SystemStateDataChanged"}
     /\ UNCHANGED <<trackPowerOn, emergencyStop, serialNumber, hardwareInfo, mq>>

KernelReceive ==
  /\ running /\ fromStation # <<>>
  /\ fromStation' = Tail(fromStation)
  /\ Receive(Head(fromStation))
  /\ UNCHANGED <<running, kq, keepAlive, stopPosted, mainPower, mainStopped,
                 mainSerial, mainHardware, toStation, lost, stPower, stStopped,
                 stFlags, stSerial, stHardware, stLoco, stFunctions,
                 historyVars>>

-----------------------------------------------------------------------------
(* The kernel thread: one handler of m_ioContext at a time.                *)

\* ClientKernel::onStart, run when the kernel starts: all state values are
\* reset, the station is asked for its serial number and hardware info,
\* broadcasts are subscribed and the keep-alive timer is armed.
OnStart ==
  /\ KernelTask("start")
  /\ kq' = Tail(kq)
  /\ running' = TRUE
  /\ serialNumber' = 0 /\ hardwareInfo' = HwtUnknown
  /\ trackPowerOn' = "Undefined" /\ emergencyStop' = "Undefined"
  /\ Transmit(toStation,
       [i \in 1..5 |-> Datagram(<<"GetSerialNumber", "GetHardwareInfo",
                                  "SetBroadcastFlags", "GetBroadcastFlags",
                                  "SystemStateGetData">>[i])])
  /\ keepAlive' = TRUE
  /\ UNCHANGED <<mainVars, fromStation, stPower, stStopped, stFlags, stSerial,
                 stHardware, stLoco, stFunctions, historyVars>>

\* ClientKernel::onStop, run when the kernel stops; the IO handler and the
\* timer stop with it.
OnStop ==
  /\ KernelTask("stop")
  /\ kq' = Tail(kq)
  /\ Send(<<Datagram("Logoff")>>)
  /\ running' = FALSE /\ keepAlive' = FALSE
  /\ UNCHANGED <<trackPowerOn, emergencyStop, serialNumber, hardwareInfo,
                 mainVars, fromStation, stPower, stStopped, stFlags, stSerial,
                 stHardware, stLoco, stFunctions, historyVars>>

\* A guarded request closure: send `d` when `cond` holds on the kernel's
\* cached state; the request is the last one the user made.
Request(op, cond, d, req) ==
  /\ KernelTask(op)
  /\ kq' = Tail(kq)
  /\ IF cond THEN Send(<<Datagram(d)>>) ELSE UNCHANGED <<toStation, lost>>
  /\ lastRequest' = req
  /\ UNCHANGED <<running, trackPowerOn, emergencyStop, serialNumber,
                 hardwareInfo, keepAlive, mainVars, fromStation, stPower,
                 stStopped, stFlags, stSerial, stHardware, stLoco, stFunctions,
                 events>>

\* The closure posted by ClientKernel::trackPowerOn.
KernelTrackPowerOn ==
  Request("trackPowerOn", trackPowerOn # "True" \/ emergencyStop # "False",
          "SetTrackPowerOn", "on")

\* The closure posted by ClientKernel::trackPowerOff.
KernelTrackPowerOff ==
  Request("trackPowerOff", trackPowerOn # "False", "SetTrackPowerOff", "off")

\* The closure posted by ClientKernel::emergencyStop.
KernelEmergencyStop ==
  Request("emergencyStop", emergencyStop # "True", "SetStop", "stop")

\* The closure posted by postSend.
KernelSend ==
  /\ KernelTask("send")
  /\ kq' = Tail(kq)
  /\ Send(<<Head(kq).d>>)
  /\ UNCHANGED <<running, trackPowerOn, emergencyStop, serialNumber,
                 hardwareInfo, keepAlive, mainVars, fromStation, stPower,
                 stStopped, stFlags, stSerial, stHardware, stLoco, stFunctions,
                 historyVars>>

\* ClientKernel::keepAliveTimerExpired with ec == success: poll the system
\* state and rearm (startKeepAliveTimer).
KeepAliveTimerExpired ==
  /\ running /\ keepAlive /\ Len(toStation) < MaxChannel
  /\ Send(<<Datagram("SystemStateGetData")>>)
  /\ UNCHANGED <<kernelVars, mainVars, fromStation, stPower, stStopped,
                 stFlags, stSerial, stHardware, stLoco, stFunctions,
                 historyVars>>

-----------------------------------------------------------------------------
(* The main thread: requests of the interface and the posted callbacks.    *)

UserCall == ~stopPosted /\ events < MaxEvents /\ events' = events + 1

\* trackPowerOn(), trackPowerOff(), emergencyStop(): post the closure.
Post(op) ==
  /\ UserCall
  /\ kq' = Append(kq, [op |-> op])
  /\ UNCHANGED <<running, trackPowerOn, emergencyStop, serialNumber,
                 hardwareInfo, keepAlive, mainVars, stationVars, lastRequest>>

\* ClientKernel::decoderChanged with a drive flag (EmergencyStop, Direction,
\* Throttle or SpeedSteps): postSend(LanXSetLocoDrive).
DecoderDriveChanged(steps, step, estop, forward) ==
  /\ UserCall
  /\ kq' = Append(kq, [op |-> "send", d |-> LocoDrive(steps, step, estop, forward)])
  /\ UNCHANGED <<running, trackPowerOn, emergencyStop, serialNumber,
                 hardwareInfo, keepAlive, mainVars, stationVars, lastRequest>>

\* Mutant: the functionNumberMax test dropped.
DecoderFunctionChangedNoMax(fn, on) ==
  /\ UserCall
  /\ kq' = IF fn \in DecoderFunctions
           THEN Append(kq, [op |-> "send", d |-> LocoFunction(fn, on)])
           ELSE kq
  /\ UNCHANGED <<running, trackPowerOn, emergencyStop, serialNumber,
                 hardwareInfo, keepAlive, mainVars, stationVars, lastRequest>>

\* ClientKernel::decoderChanged with FunctionValue only: a function number
\* above functionNumberMax, or one the decoder lacks, sends nothing.
DecoderFunctionChanged(fn, on) ==
  /\ UserCall
  /\ kq' = IF fn <= FunctionNumberMax /\ fn \in DecoderFunctions
           THEN Append(kq, [op |-> "send", d |-> LocoFunction(fn, on)])
           ELSE kq
  /\ UNCHANGED <<running, trackPowerOn, emergencyStop, serialNumber,
                 hardwareInfo, keepAlive, mainVars, stationVars, lastRequest>>

\* The interface goes offline: the kernel is stopped.
Stop ==
  /\ ~stopPosted
  /\ stopPosted' = TRUE
  /\ kq' = Append(kq, [op |-> "stop"])
  /\ UNCHANGED <<running, trackPowerOn, emergencyStop, serialNumber,
                 hardwareInfo, keepAlive, mq, mainPower, mainStopped,
                 mainSerial, mainHardware, stationVars, historyVars>>

\* A callback posted by receive() runs on the main thread.
Callback ==
  /\ mq # <<>>
  /\ mq' = Tail(mq)
  /\ LET c == Head(mq) IN
       /\ mainPower' = IF c.op = "trackPowerOnChanged" THEN ToTri(c.on) ELSE mainPower
       /\ mainStopped' = (mainStopped \/ c.op = "emergencyStop")
       /\ mainSerial' = IF c.op = "serialNumberChanged" THEN c.sn ELSE mainSerial
       /\ mainHardware' = IF c.op = "hardwareInfoChanged" THEN c.hw ELSE mainHardware
  /\ UNCHANGED <<kernelVars, stopPosted, stationVars, historyVars>>

-----------------------------------------------------------------------------
(* The Z21 station: answers each request in order and, once a client has  *)
(* set its broadcast flags, reports changes made by other clients.         *)

\* The station's answer to a request of this client.
Answer(d) ==
  CASE d.op = "GetSerialNumber"    -> <<[op |-> "SerialNumber", sn |-> stSerial]>>
    [] d.op = "GetHardwareInfo"    -> <<[op |-> "HardwareInfo", hw |-> stHardware]>>
    [] d.op = "GetBroadcastFlags"  -> <<Datagram("BroadcastFlags")>>
    [] d.op = "SystemStateGetData" ->
         <<[op |-> "SystemStateDataChanged", power |-> stPower, stopped |-> stStopped]>>
    [] d.op = "SetTrackPowerOn"    -> <<Datagram("BCTrackPowerOn")>>
    [] d.op = "SetTrackPowerOff"   -> <<Datagram("BCTrackPowerOff")>>
    [] d.op = "SetStop"            -> <<Datagram("BCStopped")>>
    [] OTHER                       -> <<>>

StationReceive ==
  /\ toStation # <<>> /\ Len(fromStation) < MaxChannel
  /\ LET d == Head(toStation) IN
       /\ toStation' = Tail(toStation)
       /\ Transmit(fromStation, Answer(d))
       /\ stPower' = CASE d.op = "SetTrackPowerOn"  -> TRUE
                       [] d.op = "SetTrackPowerOff" -> FALSE
                       [] OTHER                     -> stPower
       /\ stStopped' = CASE d.op = "SetStop" -> TRUE
                         [] d.op \in {"SetTrackPowerOn", "SetTrackPowerOff"} -> FALSE
                         [] OTHER -> stStopped
       /\ stFlags' = CASE d.op = "SetBroadcastFlags" -> TRUE
                       [] d.op = "Logoff"            -> FALSE
                       [] OTHER                      -> stFlags
       /\ stLoco' = IF d.op = "LocoDrive" THEN d ELSE stLoco
       /\ stFunctions' = IF d.op = "LocoFunction"
                         THEN [stFunctions EXCEPT ![d.fn] = d.on]
                         ELSE stFunctions
  /\ UNCHANGED <<kernelVars, mainVars, stSerial, stHardware, historyVars>>

\* Another client switches track power on or off or stops all locos; the
\* station broadcasts it to this client if it has subscribed.
ExternalChange(op, bc) ==
  /\ ExternalChanges /\ events < MaxEvents /\ events' = events + 1
  /\ Len(fromStation) < MaxChannel
  /\ stPower' = CASE op = "on" -> TRUE [] op = "off" -> FALSE [] OTHER -> stPower
  /\ stStopped' = (op = "stop")
  /\ IF stFlags THEN Transmit(fromStation, <<Datagram(bc)>>)
                ELSE UNCHANGED <<fromStation, lost>>
  /\ lastRequest' = "none"
  /\ UNCHANGED <<kernelVars, mainVars, toStation, stFlags, stSerial,
                 stHardware, stLoco, stFunctions>>

-----------------------------------------------------------------------------
(* The kernel has been constructed and started: the closure that runs      *)
(* onStart is queued.  The station is in any state.                        *)
Init ==
  /\ running = FALSE /\ kq = <<[op |-> "start"]>>
  /\ trackPowerOn = "Undefined" /\ emergencyStop = "Undefined"
  /\ serialNumber = 0 /\ hardwareInfo = HwtUnknown /\ keepAlive = FALSE
  /\ mq = <<>> /\ stopPosted = FALSE
  /\ mainPower = "Undefined" /\ mainStopped = FALSE
  /\ mainSerial = 0 /\ mainHardware = HwtUnknown
  /\ toStation = <<>> /\ fromStation = <<>> /\ lost = 0
  /\ stPower \in BOOLEAN /\ stStopped \in BOOLEAN /\ stFlags = FALSE
  /\ stSerial \in SerialNumbers /\ stHardware \in HardwareInfos
  /\ stLoco = NoLoco
  /\ stFunctions = [fn \in 0..FunctionNumberMax |-> FALSE]
  /\ events = 0 /\ lastRequest = "none"

KernelThread ==
  \/ OnStart \/ OnStop \/ KernelTrackPowerOn \/ KernelTrackPowerOff
  \/ KernelEmergencyStop \/ KernelSend \/ KernelReceive
  \/ KeepAliveTimerExpired

MainThread ==
  \/ Post("trackPowerOn") \/ Post("trackPowerOff") \/ Post("emergencyStop")
  \/ \E m \in SpeedStepModes, f \in BOOLEAN, e \in BOOLEAN :
       \E n \in StepsOf(m) : DecoderDriveChanged(m, n, e, f)
  \/ \E fn \in FunctionNumbers, on \in BOOLEAN : DecoderFunctionChanged(fn, on)
  \/ Stop \/ Callback

Station ==
  \/ StationReceive
  \/ ExternalChange("on", "BCTrackPowerOn") \/ ExternalChange("off", "BCTrackPowerOff")
  \/ ExternalChange("stop", "BCStopped")

Next == KernelThread \/ MainThread \/ Station

Spec == Init /\ [][Next]_vars

\* The kernel's io_context runs every posted closure and every datagram the
\* UDP handler receives, the keep-alive timer keeps firing while the kernel
\* runs (startKeepAliveTimer rearms it each time), the main EventLoop runs
\* every callback, and the station answers every request that reaches it.
\* The user, other Z21 clients and the loss of datagrams get no fairness.
Fairness ==
  /\ WF_vars(OnStart) /\ WF_vars(OnStop) /\ WF_vars(KernelTrackPowerOn)
  /\ WF_vars(KernelTrackPowerOff) /\ WF_vars(KernelEmergencyStop)
  /\ WF_vars(KernelSend) /\ WF_vars(KernelReceive)
  /\ WF_vars(KeepAliveTimerExpired) /\ WF_vars(Callback)
  /\ WF_vars(StationReceive)

FairSpec == Spec /\ Fairness

-----------------------------------------------------------------------------
(* Properties.                                                             *)

TypeOK ==
  /\ running \in BOOLEAN /\ keepAlive \in BOOLEAN /\ stopPosted \in BOOLEAN
  /\ trackPowerOn \in TriStates /\ emergencyStop \in TriStates
  /\ serialNumber \in SerialNumbers \cup {0}
  /\ hardwareInfo \in HardwareInfos \cup {HwtUnknown}
  /\ kq \in Seq(KernelClosures) /\ mq \in Seq(MainCallbacks)
  /\ toStation \in Seq(ToStationDatagrams) /\ lost \in 0..MaxLoss
  /\ fromStation \in Seq(FromStationDatagrams)
  /\ mainPower \in TriStates /\ mainStopped \in BOOLEAN
  /\ mainSerial \in SerialNumbers \cup {0}
  /\ mainHardware \in HardwareInfos \cup {HwtUnknown}
  /\ stPower \in BOOLEAN /\ stStopped \in BOOLEAN /\ stFlags \in BOOLEAN
  /\ stLoco \in ToStationDatagrams \cup {NoLoco}
  /\ stFunctions \in [0..FunctionNumberMax -> BOOLEAN]
  /\ events \in 0..MaxEvents
  /\ lastRequest \in {"none", "on", "off", "stop"}

\* Nothing is in flight: no closure queued on either thread, no datagram on
\* the link.
Quiescent == kq = <<>> /\ mq = <<>> /\ toStation = <<>> /\ fromStation = <<>>

\* Once everything is delivered, the kernel's m_trackPowerOn is either still
\* unknown or the station's real track power, and the main thread's view,
\* built from the onTrackPowerOnChanged callbacks, and the serial number
\* and hardware info it was told, equal the kernel's: the broadcast handling
\* in receive() and the ordering of EventLoop::call keep the three in step,
\* even with other clients switching the station.
PowerMirrorsStation ==
  running /\ Quiescent =>
    /\ trackPowerOn \in {"Undefined", ToTri(stPower)}
    /\ mainPower = trackPowerOn
    /\ mainSerial = serialNumber /\ mainHardware = hardwareInfo

\* Once everything is delivered, the kernel's m_emergencyStop is either still
\* unknown or says whether the station really is in emergency stop.  This
\* is the state ClientKernel::emergencyStop tests before it sends LanXSetStop
\* (and trackPowerOn before it sends LanXSetTrackPowerOn).
EmergencyStopMirrorsStation ==
  running /\ Quiescent => emergencyStop \in {"Undefined", ToTri(stStopped)}

\* When the last request the kernel handled was trackPowerOff() and nothing
\* else happened since, the station's track power ends up off.
PowerOffTakesEffect ==
  Quiescent /\ lastRequest = "off" => ~stPower

\* The LanXSetLocoDrive the station received from decoderChanged carries the
\* decoder's intent: the emergency-stop code 0x01 exactly for a decoder in
\* emergency stop, the stop code 0x00 exactly for speed step 0, and the
\* direction bit exactly for Forward.
DriveCommandKeepsIntent ==
  stLoco.op = "LocoDrive" =>
    LET sd == stLoco.sd % 128 IN
      /\ stLoco.estop <=> sd = 1
      /\ ~stLoco.estop => (stLoco.step = 0 <=> sd = 0)
      /\ stLoco.forward <=> stLoco.sd >= 128

\* m_trackPowerOn is known and says the opposite of the station's track power.
PowerStale == running /\ trackPowerOn \notin {"Undefined", ToTri(stPower)}

\* m_emergencyStop is known and wrong about the station's emergency stop.
StopStale == running /\ emergencyStop \notin {"Undefined", ToTri(stStopped)}

\* A wrong m_trackPowerOn is eventually corrected while the kernel runs: the
\* keep-alive timer polls the station's central state every interval
\* (LanSystemStateGetData), so a track-power broadcast lost on the UDP link
\* is repaired by a later poll's answer.
TrackPowerResynchronises == PowerStale ~> ~PowerStale

\* Both cached station flags resynchronise: a wrong m_trackPowerOn or
\* m_emergencyStop, whether a broadcast was lost or no broadcast ever
\* reports the change (the station leaving emergency stop), is eventually
\* corrected while the kernel runs.
CacheResynchronises ==
  /\ TrackPowerResynchronises
  /\ StopStale ~> ~StopStale
====
