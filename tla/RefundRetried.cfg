SPECIFICATION Spec
CONSTANTS
  Orders = {o1}
  Types = {"balance"}
  Untraced = {}
  Procs = {p1}
  Ops = {"refund", "finalize"}
  Faults = {"user"}
  Async = TRUE
  Amount = 2
SYMMETRY ProcSymmetry
CHECK_DEADLOCK FALSE
INVARIANT NoDoubleDeduction
