\* Closures posted to the main loop outlive Kernel::stop.
CONSTANTS
  Addr <- MCAddrOne
  IoAddressMin = 1
  IoAddressMax = 1
  Simulation = FALSE
  HeartbeatTimeouts <- MCOneTimeout
  MaxEvents = 2
  MaxChannel = 2
  TimePasses = FALSE
  SendFailures = FALSE
  NoValue = NoValue
  NoTimer = NoTimer

SPECIFICATION Spec
INVARIANT StopLeavesNoCallbacks
CHECK_DEADLOCK FALSE
