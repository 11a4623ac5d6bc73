\* An input added after the Features reply is never queried.
CONSTANTS
  Addr <- MCAddrOne
  IoAddressMin = 1
  IoAddressMax = 1
  Simulation = FALSE
  HeartbeatTimeouts <- MCOneTimeout
  MaxEvents = 2
  MaxChannel = 2
  TimePasses = FALSE
  SendFailures = FALSE
  NoValue = NoValue
  NoTimer = NoTimer

SPECIFICATION Spec
INVARIANT KnownInputsMirrorHardware
CHECK_DEADLOCK FALSE
