SPECIFICATION FairSpec
CONSTANTS
  ann = ann
  bob = bob
  bob2 = bob2
  None = None
  Userid <- MCUserid
  Clientid <- MCClientid
  Client = {ann, bob}
  Faults = {}
  MaxConn = 1
  MaxMf = 1
  Inputs = {"failure"}
  Callers = {ann, bob}
PROPERTIES EndCloses
CHECK_DEADLOCK FALSE
