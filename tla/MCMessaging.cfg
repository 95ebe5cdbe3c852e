CONSTANTS
  a = a
  b = b
  c = c
  Nobody = Nobody
  Scrapers = {a, b, c}
  Load <- MCLoad
  Outdated = {c}
  Cuts = {2, 4}
  Garbage = {0, 1}
  Prompt = TRUE
  ExitWhen = "idle"
SPECIFICATION FairSpec
CHECK_DEADLOCK FALSE
INVARIANTS TypeOK  DrainExclusive  ExitDrained
PROPERTIES SwapsEmptyBuffer BufferSpec TakenInCollected ScraperServed
