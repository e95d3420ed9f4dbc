SPECIFICATION Spec
CONSTANTS
  Handlers = {h1, h2}
  Total = 2
  PipeRoom = 1
  LogRoom = 4
  MaxFaults = 1
  None = None
INVARIANTS SpoiledHasCause LlamaHasHandler
PROPERTY RequestEnds
