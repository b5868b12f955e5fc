SPECIFICATION FairSpec
CONSTANTS
  HigherMac = "left"
  Versions = {1}
  HostInputs <- NoHostOnly
  Events = {"reboot", "loss"}
  MaxAuthFailures = 0
  EpochSpan = 2
  MaxEpoch = 2
  MaxSeq = 2
  MaxNet = 1
PROPERTY Relinks
CHECK_DEADLOCK FALSE
