SPECIFICATION Spec
CONSTANTS
  c1 = c1
  c2 = c2
  p1 = p1
  p2 = p2
  Caller <- MCCaller
  Pid <- MCPid
  Nobody = Nobody
  MaxFaults = 3
SYMMETRY MCSame
INVARIANTS
  MutualExclusion
  NoOrphan
  AtMostOneXray
  StoppedMeansNone
  NoForeignKill
CHECK_DEADLOCK FALSE
