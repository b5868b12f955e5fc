SPECIFICATION Spec
CONSTANTS
  HigherMac = "left"
  Versions = {1}
  HostInputs <- NoHostOnly
  Events = {"swap", "unpair", "pairing"}
  MaxAuthFailures = 0
  EpochSpan = 8
  MaxEpoch = 1
  MaxSeq = 4
  MaxNet = 2
INVARIANTS SwapSettles
CHECK_DEADLOCK FALSE
