\* A recovery key is made while SERVER_BACKUP is off, the backup after it is switched on.
SPECIFICATION Spec
CONSTANTS
  only = only
  Homes = {only}
  Private <- TwoNames
  BackupKey = "backup"
  Happenings <- GateCase
  Settings = {TRUE, FALSE}
CHECK_DEADLOCK FALSE
PROPERTY GateKeepsHistory
