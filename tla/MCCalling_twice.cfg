SPECIFICATION Spec
CONSTANTS
  ann = ann
  bob = bob
  bob2 = bob2
  None = None
  Userid <- MCUserid
  Clientid <- MCClientid
  Client = {ann, bob}
  Faults = {}
  MaxConn = 2
  MaxMf = 2
  Inputs = {}
  Callers = {ann, bob}
INVARIANTS EndedIsOver PairedLinked RolesComplement
PROPERTIES PeerIsPinned
CHECK_DEADLOCK FALSE
