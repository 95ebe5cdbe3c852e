CONSTANTS
  NoTx = NoTx
  Versions = {2, 3, 5, 6, 7}
  u1 = u1
  u2 = u2
  Users = {u1, u2}
  NoUser = NoUser
  None = None
  MaxRecords = 2
  Owner <- MCOwner
  Telling = {1}
  MaxFaults = 1
SPECIFICATION FairSpec
INVARIANTS MigTypeOK SchemaMatches RunsMigrated ReportsTypeOK VisibleWhole PeriodsCover 
PROPERTIES NeverShrinks Notified PublishedInTheEnd
