CONSTANTS
  MAX_THREAD = 3
  FirstTids = {1, 2}
  MAXTID = 4
SPECIFICATION Spec
CHECK_DEADLOCK FALSE
PROPERTIES MainStopEndsProcess
