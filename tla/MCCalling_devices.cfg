SPECIFICATION Spec
CONSTANTS
  ann = ann
  bob = bob
  bob2 = bob2
  None = None
  Userid <- MCUserid
  Clientid <- MCClientid
  Client = {ann, bob, bob2}
  Faults = {}
  MaxConn = 1
  MaxMf = 1
  Inputs = {}
  Callers = {ann}
INVARIANTS WaitIsTimed PairedLinked
PROPERTIES PeerIsPinned
CHECK_DEADLOCK FALSE
