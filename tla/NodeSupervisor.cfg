SPECIFICATION Spec
CONSTANTS
  Agents <- BothAgents
  MaxPid = 2
  LogRoom = 1
  Cgroups = {2}
  a = a
  b = b
INVARIANT OneGuardPerAgent RuntimeNamesGuard OrphanOnlyByPause
PROPERTY KilledUnlessBlocked DeadWorkerReplaced
CHECK_DEADLOCK FALSE
