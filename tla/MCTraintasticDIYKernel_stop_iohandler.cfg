\* io_context::stop() can drop the closure that stops the IO handler.
CONSTANTS
  Addr <- MCAddrOne
  IoAddressMin = 1
  IoAddressMax = 1
  Simulation = FALSE
  HeartbeatTimeouts <- MCOneTimeout
  MaxEvents = 2
  MaxChannel = 2
  TimePasses = FALSE
  SendFailures = FALSE
  NoValue = NoValue
  NoTimer = NoTimer

SPECIFICATION Spec
INVARIANT StopStopsIOHandler
CHECK_DEADLOCK FALSE
