SPECIFICATION Spec
CONSTANTS
  ann = ann
  bob = bob
  bob2 = bob2
  None = None
  Userid <- MCUserid
  Clientid <- MCClientid
  Client = {ann, bob}
  Faults = {"tx", "alloc", "sdp", "media"}
  MaxConn = 1
  MaxMf = 2
  Inputs = {"restart", "media", "failure"}
  Callers = {ann}
INVARIANTS WaitIsTimed 
PROPERTIES TerminatingIsFinal
CHECK_DEADLOCK FALSE
