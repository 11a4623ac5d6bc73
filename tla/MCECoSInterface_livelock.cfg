\* One kernel, two world events or calls and one STOP or GO on the station:
\* callbacks and world events drive each other in a loop.
CONSTANTS
    InputChannels <- MCInputChannels
    OutputChannels <- MCOutputChannels
    InputRange <- MCInputRange
    OutputRange <- MCOutputRange
    Addresses <- MCAddresses
    MaxOnline = 1
    MaxUserOps = 2
    MaxPanelOps = 1
    LocomotiveProtocols <- MCLocomotiveProtocols
    StationLayout <- MCStationLayout
    StateFiles <- MCStateFiles
SPECIFICATION Spec
PROPERTY Settles
CHECK_DEADLOCK FALSE
