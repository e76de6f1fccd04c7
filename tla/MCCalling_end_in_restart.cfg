SPECIFICATION FairSpec
CONSTANTS
  ann = ann
  bob = bob
  bob2 = bob2
  None = None
  Userid <- MCUserid
  Clientid <- MCClientid
  Client = {ann, bob}
  Faults = {}
  MaxConn = 1
  MaxMf = 2
  Inputs = {"restart"}
  Callers = {ann}
PROPERTIES EndCloses
CHECK_DEADLOCK FALSE
