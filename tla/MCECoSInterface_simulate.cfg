\* An input added, the interface online, and its change simulated.
CONSTANTS
    InputChannels <- MCInputChannels
    OutputChannels <- MCOutputChannels
    InputRange <- MCInputRange
    OutputRange <- MCOutputRange
    Addresses <- MCAddresses
    MaxOnline = 1
    MaxUserOps = 3
    MaxPanelOps = 1
    LocomotiveProtocols <- MCLocomotiveProtocols
    StationLayout <- MCStationLayout
    StateFiles <- MCStateFiles
SPECIFICATION Spec
INVARIANT SimulateReachesKernel
CHECK_DEADLOCK FALSE
