\* Both files, three writes, restarts at any moment.
SPECIFICATION FairSpec
CONSTANTS
  SettingsFiles <- MCSettingsFiles
  KeyFiles <- MCKeyFiles
  MaxTtl = 2
  MaxWrites = 3
INVARIANTS ConfigTypeOK TtlWithinMaximum KeysMatchLast
PROPERTIES SettingsFollowFile KeysFollowFile
CHECK_DEADLOCK FALSE
