\* A frame handled between the expiry of the heartbeat wait and its queued
\* handler: the handler still sends a heartbeat right after the frame.
CONSTANTS
  Addr <- MCAddrOne
  IoAddressMin = 1
  IoAddressMax = 1
  Simulation = FALSE
  HeartbeatTimeouts <- MCTwoTimeouts
  MaxEvents = 1
  MaxChannel = 2
  TimePasses = TRUE
  SendFailures = FALSE
  NoValue = NoValue
  NoTimer = NoTimer

SPECIFICATION Spec
PROPERTY HeartbeatNotEarly
\* After Kernel::stop has joined the kernel thread nothing is left to run.
CHECK_DEADLOCK FALSE
