SPECIFICATION MCSpec
CONSTANTS
  Installed <- MCInstalled
  Informed <- MCInformed
  SortKey <- MCSortKey
  Wanted <- MCWanted
  Bkms <- MCBkms
  AreaOf <- MCAreaOf
  Fields <- MCFields
  FieldOf <- MCFieldOf
  Offsets <- MCOffsets
INVARIANTS
  RowsStandForPages
PROPERTIES
  DialogsAsAsked
  TipFollowsMouse
  TipsEnd
