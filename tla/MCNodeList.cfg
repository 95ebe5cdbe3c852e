CONSTANTS
  None = None
  Nobody = Nobody
  Hosts <- MCHosts
  Partitions = {"p1", "p2", "p3", "p4"}
  Unlimited = 1000
  Tables <- MCTables
  JobLists <- AllJobLists
  Written <- Listing
  Assocs <- MCAssocs
  Concurrent = 2
  MaxRounds = 1
SPECIFICATION Spec
INVARIANT ListsExpand
CHECK_DEADLOCK FALSE
