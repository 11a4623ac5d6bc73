\* The session handshake, requests, cancellation, release and late events
\* over two connections.
CONSTANTS
    o1 = o1
    o2 = o2
    t1 = t1
    u1 = u1
    None = None
    ObjectIds <- MCObjects
    TableIds <- MCTables
    UnknownIds <- MCUnknown
    Values <- MCValues
    PropertyType <- MCBooleans
    HeaderUnits = 2
    MaxConnects = 2
    MaxRequests = 2
    MaxChanges = 1
SPECIFICATION Spec
INVARIANT TypeOK
PROPERTY ReleasedMirrorsFrozen SessionRefinement
CHECK_DEADLOCK FALSE
