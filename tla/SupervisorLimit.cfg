SPECIFICATION Spec
CONSTANTS
  Agents <- OneAgent
  MaxPid = 1
  LogRoom = 2
  Cgroups = {}
  a = a
  b = b
PROPERTY KilledWhenOver
CHECK_DEADLOCK FALSE
