\* decoderChanged for decoders in the 14, 126 and 128 step modes.
CONSTANTS
  SpeedStepModes <- MCModes
  StepValues <- MCSteps
  FunctionNumbers <- MCFunctions
  DecoderFunctions <- MCDecoderFunctions
  FunctionNumberMax = 28
  SerialNumbers <- MCSerials
  HardwareInfos = {Z21Black}
  HwtUnknown = HwtUnknown
  ExternalChanges = FALSE
  MaxEvents = 1
  MaxChannel = 3
  MaxLoss = 0

SPECIFICATION Spec
INVARIANT TypeOK
INVARIANT DriveCommandKeepsIntent
\* After onStop has run and the link has drained nothing is left to run.
CHECK_DEADLOCK FALSE
