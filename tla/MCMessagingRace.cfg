CONSTANTS
  a = a
  b = b
  c = c
  Nobody = Nobody
  Scrapers = {a, b}
  Load <- MCLoad
  Outdated = {}
  Cuts = {4}
  Garbage = {0, 1}
  Prompt = TRUE
  ExitWhen = "any"
SPECIFICATION Spec
CHECK_DEADLOCK FALSE
INVARIANTS DrainExclusive
