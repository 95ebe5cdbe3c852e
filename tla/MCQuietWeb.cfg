CONSTANTS
  NoTx = NoTx
  Versions = {6}
  u1 = u1
  u2 = u2
  Users = {u1, u2}
  NoUser = NoUser
  None = None
  MaxRecords = 2
  Owner <- MCOwner
  Telling = {1}
  MaxFaults = 0
SPECIFICATION FairSpec
PROPERTIES QuietServed
