\* Two objects and two connections: handles restart with each session.
CONSTANTS
    o1 = o1
    o2 = o2
    t1 = t1
    u1 = u1
    None = None
    ObjectIds <- MCTwoObjects
    TableIds <- MCNoTables
    UnknownIds <- MCNoUnknown
    Values <- MCValues
    PropertyType <- MCTwoBooleans
    HeaderUnits = 2
    MaxConnects = 2
    MaxRequests = 2
    MaxChanges = 1
SPECIFICATION Spec
INVARIANT MirrorsShowOwnObject
CHECK_DEADLOCK FALSE
