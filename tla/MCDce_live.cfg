SPECIFICATION FairSpec
CONSTANTS
  Active = Active
  Passive = Passive
  calling = calling
  aux = aux
  third = third
  None = None
  Label = {calling}
  Opener <- OneOpener
  Closers = {Active, Passive}
  NChannels = 2
  NStreams = 3
  OutStreams = 3
  Refusals = {}
  MaxOpen = 1
  MaxData = 4
PROPERTIES CloseCompletes OpenCompletes
CHECK_DEADLOCK FALSE
