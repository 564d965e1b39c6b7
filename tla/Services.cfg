SPECIFICATION ServicesSpec
CONSTANTS
  MaxVersion = 3
  Unset = Unset
  MaxTroubles <- Faults
  Box = {b1, b2}
  Origin = {box, node}
  MaxAddr = 2
  None = None
  Absent = Absent
  Limit <- Outages
INVARIANTS
  OneUpgrade
PROPERTIES
  RecordedRises
  UpgradeRecorded
  CatchesUp
  NeverBack
  Follows
