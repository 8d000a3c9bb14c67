SPECIFICATION Spec
CONSTANTS
  Jobs = {j1}
  Workers = {w1, w2}
  NoWorker = NoWorker
  Hold = 2
  Balances = {1, 2}
  Elsewhere = 2
  Costs = {1, 3}
  MaxRetries = 2
  Faults = {"db", "lost", "queue", "provider", "lock", "crash"}
  Ops = {"cancel", "recover", "resubmit", "delete", "cleanup"}
SYMMETRY Symmetry
CHECK_DEADLOCK FALSE
INVARIANTS
  IInv
  FrozenIsHolds
  ChargedWasHeld
  ChargedOrReturned
  StatusMatchesMoney
  HoldOwnedOrBurnt
  UnnamedIsStopped
PROPERTY CompletedStays
