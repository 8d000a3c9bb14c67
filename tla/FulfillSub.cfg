SPECIFICATION Spec
CONSTANTS
  Orders = {o1}
  Subs = {o1}
  Procs = {p1, p2}
  Ops = {"create", "webhook", "verify", "cancel", "expire", "retry"}
  Faults = {"order", "audit", "rebate", "assign", "after", "gateway", "crash"}
  MaxPending = 1
  NoProc = NoProc
SYMMETRY ProcSymmetry
CHECK_DEADLOCK FALSE
INVARIANT AssignInv
INVARIANT AssignedOnce
