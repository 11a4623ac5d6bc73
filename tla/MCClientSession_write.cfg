\* Two objects and two connections: a property write through a mirror kept
\* over a reconnect, whose handle the new session gave to another object.
CONSTANTS
    o1 = o1
    o2 = o2
    t1 = t1
    u1 = u1
    None = None
    ObjectIds <- MCTwoObjects
    TableIds <- MCNoTables
    UnknownIds <- MCNoUnknown
    Values <- MCValues
    PropertyType <- MCTwoBooleans
    HeaderUnits = 2
    MaxConnects = 2
    MaxRequests = 3
    MaxChanges = 0
SPECIFICATION Spec
INVARIANT WritesReachOwnObject
CHECK_DEADLOCK FALSE
