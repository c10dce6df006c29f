SPECIFICATION BrokerLiveSpec
CONSTANTS
  p1 = p1
  p2 = p2
  v1 = v1
  Pausers = {p1, p2}
  Viewers = {v1}
  MaxPrompts = 2
  MaxPauses = 2
  MaxUploads = 1
  Faults = {"start", "restore", "cleanup", "reject", "interrupt", "exit"}
INVARIANTS OneOwner ConflictsPaid
PROPERTIES GpuFreed
CHECK_DEADLOCK FALSE
