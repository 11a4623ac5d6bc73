\* Track power and emergency stop, with other Z21 clients switching the
\* station; no decoders.
CONSTANTS
  SpeedStepModes <- MCNoModes
  StepValues = {0}
  FunctionNumbers <- MCNoFunctions
  DecoderFunctions <- MCNoFunctions
  FunctionNumberMax = 28
  SerialNumbers <- MCSerials
  HardwareInfos = {Z21Black}
  HwtUnknown = HwtUnknown
  ExternalChanges = TRUE
  MaxEvents = 3
  MaxChannel = 3
  MaxLoss = 0

SPECIFICATION Spec

INVARIANT PowerMirrorsStation
\* After onStop has run and the link has drained nothing is left to run.
CHECK_DEADLOCK FALSE
