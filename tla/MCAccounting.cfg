CONSTANTS
  j1 = j1
  s1 = s1
  s2 = s2
  n = n
  Nobody = Nobody
  Jobs = {j1}
  Scrapers = {s1, s2}
  Nodes = {n}
  Node <- MCNode
  Roles = {"sacct", "privileged"}
  MaxTime = 2
  Faults = {"crash", "exit", "busy"}
  MaxFaults = 1
SPECIFICATION Spec
INVARIANTS TypeOK  JobinfoFirst NoDuplicate
