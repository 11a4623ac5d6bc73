\* decoderChanged for decoders in the 28 step mode.
CONSTANTS
  SpeedStepModes <- MCModes28
  StepValues <- MCSteps28
  FunctionNumbers <- MCNoFunctions
  DecoderFunctions <- MCNoFunctions
  FunctionNumberMax = 28
  SerialNumbers <- MCSerials
  HardwareInfos = {Z21Black}
  HwtUnknown = HwtUnknown
  ExternalChanges = FALSE
  MaxEvents = 1
  MaxChannel = 3
  MaxLoss = 0

SPECIFICATION Spec
INVARIANT DriveCommandKeepsIntent
\* After onStop has run and the link has drained nothing is left to run.
CHECK_DEADLOCK FALSE
