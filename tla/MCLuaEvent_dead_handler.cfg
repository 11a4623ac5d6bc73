\* A destroyed object's handlers stay registered; addresses are reused.
CONSTANTS
  o1 = o1
  o2 = o2
  o3 = o3
  None = None
  Objects <- MCObjects
  Addrs = {1, 2}
  MaxData = 4
  MaxHandlers = 2
  HandlersOutliveEvents = TRUE

SYMMETRY MCSymmetry
SPECIFICATION Spec
INVARIANT NoDeadEventUse
\* Once the objects are destroyed and the bounds reached the script has
\* nothing left to call.
CHECK_DEADLOCK FALSE
