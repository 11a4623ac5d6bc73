\* A kernel reset while its onStarted closure is still queued.
CONSTANTS
    InputChannels <- MCInputChannels
    OutputChannels <- MCOutputChannels
    InputRange <- MCInputRange
    OutputRange <- MCOutputRange
    Addresses <- MCAddresses
    MaxOnline = 1
    MaxUserOps = 2
    MaxPanelOps = 1
    LocomotiveProtocols <- MCLocomotiveProtocols
    StationLayout <- MCStationLayout
    StateFiles <- MCStateFiles
SPECIFICATION Spec
INVARIANT OnlineHasKernel
CHECK_DEADLOCK FALSE
