CONSTANTS
  MaxPid = 3
  AnyJob = AnyJob
  j1 = j1
  j2 = j2
  Settings <- MCSettings
  None = None
SPECIFICATION Spec
INVARIANTS TypeOK NeverOvercounts QuietExact GpuPaired AppsOnce
CHECK_DEADLOCK FALSE
