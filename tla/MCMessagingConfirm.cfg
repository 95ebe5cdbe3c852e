CONSTANTS
  a = a
  b = b
  c = c
  Nobody = Nobody
  Scrapers = {a, b}
  Load <- MCLoad
  Outdated = {}
  Cuts = {4}
  Garbage = {0, 1}
  Prompt = TRUE
  ExitWhen = "never"
SPECIFICATION Spec
INVARIANTS SentIsTakenIn
