\* A track-power broadcast lost on the UDP link, with the kernel, the
\* keep-alive timer, the main loop and the station running fairly.
CONSTANTS
  SpeedStepModes <- MCNoModes
  StepValues = {0}
  FunctionNumbers <- MCNoFunctions
  DecoderFunctions <- MCNoFunctions
  FunctionNumberMax = 28
  SerialNumbers <- MCSerials
  HardwareInfos = {Z21Black}
  HwtUnknown = HwtUnknown
  ExternalChanges = FALSE
  MaxEvents = 2
  MaxChannel = 2
  MaxLoss = 1

SPECIFICATION FairSpec

PROPERTY TrackPowerResynchronises
\* After onStop has run and the link has drained nothing is left to run.
CHECK_DEADLOCK FALSE
