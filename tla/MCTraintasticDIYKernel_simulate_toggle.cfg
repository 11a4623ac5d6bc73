\* simulateInputChange on a cached True does not toggle it (kernel.cpp:284).
CONSTANTS
  Addr <- MCAddrOne
  IoAddressMin = 1
  IoAddressMax = 1
  Simulation = TRUE
  HeartbeatTimeouts <- MCOneTimeout
  MaxEvents = 2
  MaxChannel = 2
  TimePasses = FALSE
  SendFailures = FALSE
  NoValue = NoValue
  NoTimer = NoTimer

SPECIFICATION Spec
PROPERTY SimulateToggles
CHECK_DEADLOCK FALSE
