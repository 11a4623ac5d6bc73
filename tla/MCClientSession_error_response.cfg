\* getObject of an id the server does not know: the error response.
CONSTANTS
    o1 = o1
    o2 = o2
    t1 = t1
    u1 = u1
    None = None
    ObjectIds <- MCObjects
    TableIds <- MCNoTables
    UnknownIds <- MCUnknown
    Values <- MCValues
    PropertyType <- MCBooleans
    HeaderUnits = 2
    MaxConnects = 1
    MaxRequests = 1
    MaxChanges = 0
SPECIFICATION Spec
INVARIANT NoNullDereference
CHECK_DEADLOCK FALSE
