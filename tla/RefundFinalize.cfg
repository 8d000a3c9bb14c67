SPECIFICATION Spec
CONSTANTS
  Orders = {o1, o2}
  Types = {"balance", "subscription"}
  Untraced = {o2}
  Procs = {p1}
  Ops = {"request", "refund", "finalize"}
  Faults = {"gateway"}
  Async = TRUE
  Amount = 2
SYMMETRY ProcSymmetry
CHECK_DEADLOCK FALSE
INVARIANT RefundInv
