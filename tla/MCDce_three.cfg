SPECIFICATION Spec
CONSTANTS
  Active = Active
  Passive = Passive
  calling = calling
  aux = aux
  third = third
  None = None
  Label = {calling, aux, third}
  Opener <- OneOpener
  Closers = {Active, Passive}
  NChannels = 3
  NStreams = 5
  OutStreams = 4
  Refusals = {"error"}
  MaxOpen = 3
  MaxData = 1
INVARIANTS TypeOK OStreamsAgree EndsAgree
CHECK_DEADLOCK FALSE
