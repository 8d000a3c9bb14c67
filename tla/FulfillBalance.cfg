SPECIFICATION Spec
CONSTANTS
  Orders = {o1}
  Subs = {}
  Procs = {p1, p2}
  Ops = {"create", "webhook", "verify", "cancel", "expire", "retry", "redeem"}
  Faults = {"order", "audit", "redeem", "rebate", "assign", "after", "gateway", "redis", "ttl", "crash"}
  MaxPending = 1
  NoProc = NoProc
SYMMETRY ProcSymmetry
CHECK_DEADLOCK FALSE
INVARIANT IInv
INVARIANT SingleFulfiller
INVARIANT CompletedIsDelivered
INVARIANT RebateOnce
PROPERTY PaymentKept
PROPERTY ContractSpec
