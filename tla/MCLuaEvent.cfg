\* The sandbox releases a destroyed object's handlers; addresses are reused.
CONSTANTS
  o1 = o1
  o2 = o2
  o3 = o3
  None = None
  Objects <- MCObjects
  Addrs = {1, 2}
  MaxData = 4
  MaxHandlers = 2
  HandlersOutliveEvents = FALSE

SYMMETRY MCSymmetry
SPECIFICATION Spec
INVARIANT TypeOK
INVARIANT NoDeadEventUse
INVARIANT DisconnectOwnHandler
\* Once the objects are destroyed and the bounds reached the script has
\* nothing left to call.
CHECK_DEADLOCK FALSE
