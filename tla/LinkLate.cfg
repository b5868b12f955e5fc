SPECIFICATION VersionSpec
CONSTANTS
  HigherMac = "left"
  Versions = {1, 2}
  HostInputs <- NoHostOnly
  Events = {"duplication", "reordering", "reboot"}
  MaxAuthFailures = 0
  EpochSpan = 8
  MaxEpoch = 2
  MaxSeq = 2
  MaxNet = 1
INVARIANTS LinkedMeansCurrent
CHECK_DEADLOCK FALSE
