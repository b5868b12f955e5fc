SPECIFICATION Spec
CONSTANTS
  Transports = {"usb", "ble"}
  NoTransport = "none"
  MaxReconcileRounds = 2
  BufferSize = 2
  PacketCounts = {1, 5}
  MaxCommands = 2
  MaxFaults = 1
INVARIANTS TypeOK BufferPure AloneExecutesWhole
PROPERTY WatchdogReleases
CHECK_DEADLOCK FALSE
