SPECIFICATION Spec
CONSTANTS
  ann = ann
  bob = bob
  bob2 = bob2
  None = None
  Userid <- MCUserid
  Clientid <- MCClientid
  Client = {ann, bob}
  Faults = {}
  MaxConn = 1
  MaxMf = 2
  Inputs = {"restart", "duplicate"}
  Callers = {ann, bob}
INVARIANTS TypeOK WaitIsTimed ClosingIsTimed EndedIsOver RolesComplement OneOfferer PairedLinked
PROPERTIES TerminatingIsFinal
CHECK_DEADLOCK FALSE
