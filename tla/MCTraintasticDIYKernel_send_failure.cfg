\* The IO handler may refuse a frame: a refused GetFeatures is never sent again.
CONSTANTS
  Addr <- MCAddrOne
  IoAddressMin = 1
  IoAddressMax = 1
  Simulation = TRUE
  HeartbeatTimeouts <- MCOneTimeout
  MaxEvents = 1
  MaxChannel = 2
  TimePasses = FALSE
  SendFailures = TRUE
  NoValue = NoValue
  NoTimer = NoTimer
SPECIFICATION FairSpec
PROPERTY HandshakeCompletes
CHECK_DEADLOCK FALSE
