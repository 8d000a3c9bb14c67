SPECIFICATION Spec
CONSTANTS
  Orders = {o1}
  Types = {"balance", "subscription"}
  Untraced = {}
  Procs = {p1, p2}
  Ops = {"request", "refund"}
  Faults = {"order", "user", "gateway", "crash"}
  Async = TRUE
  Amount = 2
SYMMETRY ProcSymmetry
CHECK_DEADLOCK FALSE
INVARIANT SingleRefunder
INVARIANT RefundedIsSettled
INVARIANT NoDoubleDeduction
INVARIANT FailedTakesNothing
PROPERTY RefundedStays
