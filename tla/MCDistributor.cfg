CONSTANTS
  None = None
  Nobody = Nobody
  Hosts <- MCHosts
  Partitions = {"p1", "p2", "p3", "p4"}
  Unlimited = 1000
  Tables <- MCTables
  JobLists <- MCJobLists
  Written <- Listing
  Assocs <- MCAssocs
  Concurrent = 2
  MaxRounds = 2
SPECIFICATION FairSpec
INVARIANTS TypeOK  AtMostDouble  AllTried
PROPERTY RoundEnds
CHECK_DEADLOCK FALSE
