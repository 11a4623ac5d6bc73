\* The heartbeat timer against a clock, with a configuration change racing it.
CONSTANTS
  Addr <- MCAddrOne
  IoAddressMin = 1
  IoAddressMax = 1
  Simulation = FALSE
  HeartbeatTimeouts <- MCTwoTimeouts
  MaxEvents = 1
  MaxChannel = 2
  TimePasses = TRUE
  SendFailures = FALSE
  NoValue = NoValue
  NoTimer = NoTimer

SPECIFICATION Spec
INVARIANT HeartbeatNeverSilent
\* After Kernel::stop has joined the kernel thread nothing is left to run.
CHECK_DEADLOCK FALSE
