\* The main loop and Kernel::stop under fairness: one address, simulated changes.
CONSTANTS
  Addr <- MCAddrOne
  IoAddressMin = 1
  IoAddressMax = 1
  Simulation = TRUE
  HeartbeatTimeouts <- MCOneTimeout
  MaxEvents = 1
  MaxChannel = 2
  TimePasses = FALSE
  SendFailures = FALSE
  NoValue = NoValue
  NoTimer = NoTimer
SPECIFICATION FairSpec
PROPERTY CachedStateReachesMain
PROPERTY HandshakeCompletes
CHECK_DEADLOCK FALSE
