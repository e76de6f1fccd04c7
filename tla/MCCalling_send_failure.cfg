SPECIFICATION Spec
CONSTANTS
  ann = ann
  bob = bob
  bob2 = bob2
  None = None
  Userid <- MCUserid
  Clientid <- MCClientid
  Client = {ann, bob}
  Faults = {"tx"}
  MaxConn = 1
  MaxMf = 1
  Inputs = {}
  Callers = {ann}
INVARIANTS ClosingIsTimed
CHECK_DEADLOCK FALSE
