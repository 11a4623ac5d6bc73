\* Two connections; the first may drop in the middle of a frame.
CONSTANTS
    o1 = o1
    o2 = o2
    t1 = t1
    u1 = u1
    None = None
    ObjectIds <- MCObjects
    TableIds <- MCNoTables
    UnknownIds <- MCNoUnknown
    Values <- MCValues
    PropertyType <- MCBooleans
    HeaderUnits = 2
    MaxConnects = 2
    MaxRequests = 1
    MaxChanges = 0
SPECIFICATION Spec
INVARIANT FramesIntact
CHECK_DEADLOCK FALSE
