SPECIFICATION Spec
CONSTANTS
  Procs = {p1, p2, p3}
  Prints = {"update"}
  Faults = {"store", "renew", "crash", "long"}
  ProcessingTimeout = 3
  RenewInterval = 1
  TTL = 4
  MaxTime = 6
  MaxRows = 2
SYMMETRY Symmetry
CHECK_DEADLOCK FALSE
INVARIANTS
  LockInv
  LeaseCoversHolder
