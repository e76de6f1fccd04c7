SPECIFICATION Spec
CONSTANTS
  Active = Active
  Passive = Passive
  calling = calling
  aux = aux
  third = third
  None = None
  Label = {calling, aux}
  Opener <- TwoOpeners
  Closers = {Active, Passive}
  NChannels = 3
  NStreams = 6
  OutStreams = 5
  Refusals = {"error"}
  MaxOpen = 4
  MaxData = 1
INVARIANTS NoStreamGlare OpenIsReported CloseIsReported
CHECK_DEADLOCK FALSE
