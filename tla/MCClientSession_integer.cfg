\* One object whose property is an Integer, changed on the server.
CONSTANTS
    o1 = o1
    o2 = o2
    t1 = t1
    u1 = u1
    None = None
    ObjectIds <- MCObjects
    TableIds <- MCNoTables
    UnknownIds <- MCNoUnknown
    Values <- MCValues
    PropertyType <- MCInteger
    HeaderUnits = 2
    MaxConnects = 1
    MaxRequests = 1
    MaxChanges = 1
SPECIFICATION Spec
INVARIANT HeldMirrorsTrackServer
CHECK_DEADLOCK FALSE
