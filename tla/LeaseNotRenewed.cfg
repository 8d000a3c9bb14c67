SPECIFICATION Spec
CONSTANTS
  Procs = {p1, p2}
  Prints = {"update", "rollback"}
  Faults = {"long"}
  ProcessingTimeout = 3
  RenewInterval = 1
  TTL = 4
  MaxTime = 5
  MaxRows = 2
SYMMETRY Symmetry
CHECK_DEADLOCK FALSE
INVARIANT LeaseCoversHolder
