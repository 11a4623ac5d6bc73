\* The controller mirrors the device: no clock, a real (non-simulated) device.
CONSTANTS
  Addr <- MCAddr
  IoAddressMin = 1
  IoAddressMax = 1
  Simulation = FALSE
  HeartbeatTimeouts <- MCOneTimeout
  MaxEvents = 2
  MaxChannel = 2
  TimePasses = FALSE
  SendFailures = FALSE
  NoValue = NoValue
  NoTimer = NoTimer

SPECIFICATION Spec
INVARIANT TypeOK
INVARIANT ControllerMirrorsHardware
\* After Kernel::stop has joined the kernel thread nothing is left to run.
CHECK_DEADLOCK FALSE
