SPECIFICATION Spec
CONSTANTS
  HigherMac = "left"
  Versions = {1}
  HostInputs <- TwoInputs
  Events = {"loss", "reboot", "inputs"}
  MaxAuthFailures = 0
  EpochSpan = 8
  MaxEpoch = 2
  MaxSeq = 2
  MaxNet = 1
INVARIANTS TypeOK SessionCoherent RolesAgree
CHECK_DEADLOCK FALSE
