SPECIFICATION FairSpec
CONSTANTS
  Orders = {o1}
  Subs = {}
  Procs = {p1, p2}
  Ops = {"create", "webhook", "verify", "cancel", "expire", "retry", "redeem"}
  Faults = {"redeem", "rebate", "gateway", "redis", "ttl"}
  MaxPending = 1
  NoProc = NoProc
CHECK_DEADLOCK FALSE
INVARIANT RechargingIsWorkedOn
PROPERTY PaymentSettles
