\* Track power and emergency stop requested by this server only.
CONSTANTS
  SpeedStepModes <- MCNoModes
  StepValues = {0}
  FunctionNumbers <- MCNoFunctions
  DecoderFunctions <- MCNoFunctions
  FunctionNumberMax = 28
  SerialNumbers <- MCSerials
  HardwareInfos = {Z21Black}
  HwtUnknown = HwtUnknown
  ExternalChanges = FALSE
  MaxEvents = 3
  MaxChannel = 3
  MaxLoss = 0

SPECIFICATION Spec
INVARIANT EmergencyStopMirrorsStation
\* After onStop has run and the link has drained nothing is left to run.
CHECK_DEADLOCK FALSE
