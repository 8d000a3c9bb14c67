SPECIFICATION Spec
CONSTANTS
  Procs = {p1, p2, p3}
  Prints = {"x", "y"}
  Faults = {"store", "execute", "crash", "slow"}
  ProcessingTimeout = 1
  TTL = 2
  Backoff = 1
  MaxTime = 3
  MaxRows = 2
SYMMETRY Symmetry
CHECK_DEADLOCK FALSE
INVARIANTS
  IdemInv
  OneOwner
  AnswersMatch
  EffectsBounded
