SPECIFICATION Spec
CONSTANTS
  HigherMac = "left"
  Versions = {1}
  HostInputs <- NoHostOnly
  Events = {"swap", "loss"}
  MaxAuthFailures = 0
  EpochSpan = 8
  MaxEpoch = 1
  MaxSeq = 3
  MaxNet = 2
INVARIANTS SwapSettles
CHECK_DEADLOCK FALSE
