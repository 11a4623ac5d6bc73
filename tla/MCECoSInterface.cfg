\* Two kernels in turn, world events, controller calls and a STOP or GO
\* pressed on the station, with the kernel thread, the main EventLoop and
\* the station weakly fair.
CONSTANTS
    InputChannels <- MCInputChannels
    OutputChannels <- MCOutputChannels
    InputRange <- MCInputRange
    OutputRange <- MCOutputRange
    Addresses <- MCAddresses
    MaxOnline = 2
    MaxUserOps = 3
    MaxPanelOps = 1
    LocomotiveProtocols <- MCLocomotiveProtocols
    StationLayout <- MCStationLayout
    StateFiles <- MCStateFiles
SPECIFICATION Spec
INVARIANT TypeOK StationFollowsWorld
PROPERTY EventuallyOnline
CHECK_DEADLOCK FALSE
