-------------------------- MODULE PaymentFulfillment --------------------------
(***************************************************************************)
(* Payment orders, from creation to the delivery of what was bought.       *)
(*                                                                         *)
(* Every handler (webhook, user request, admin request, expiry sweep) is   *)
(* a process that runs concurrently with all the others, possibly on       *)
(* another instance of the server.  The code wraps no handler in a         *)
(* transaction: each database, Redis or gateway call is one atomic step,   *)
(* and whatever another handler does in between is visible to the next.    *)
(* Sources: service/payment_order.go, payment_order_lifecycle.go,          *)
(* payment_fulfillment.go, redeem_service.go.                              *)
(***************************************************************************)
EXTENDS Naturals, FiniteSets

CONSTANTS
  Orders,      \* payment orders of one user
  Subs,        \* the orders that buy a subscription; the others top up the balance
  Procs,       \* handlers that can be running at once
  Ops,         \* the operations handlers run, a subset of AllOps
  Faults,      \* the kinds of call that can fail, a subset of AllFaults
  MaxPending,  \* PaymentConfig.MaxPendingOrders
  NoProc       \* nobody holds the redeem lock

AllOps == {"create", "webhook", "verify", "cancel", "expire", "retry", "redeem"}

\* "order", "audit", "redeem", "rebate", "assign": a statement on that table fails;
\* "after": the assignment of a subscription or the rebate transaction fails after
\* its write; "gateway", "redis": a remote call fails; "ttl": a lock outlives its TTL;
\* "crash": a handler dies between two calls.
AllFaults == {"order", "audit", "redeem", "rebate", "assign", "after",
              "gateway", "redis", "ttl", "crash"}

ASSUME OrdersAssumption == Orders # {} /\ Subs \subseteq Orders
ASSUME ProcsAssumption  == NoProc \notin Procs
ASSUME OpsAssumption    == Ops \subseteq AllOps
ASSUME FaultsAssumption == Faults \subseteq AllFaults
ASSUME LimitAssumption  == MaxPending \in Nat \ {0}

VARIABLES
  status,    \* payment_orders.status; "NONE" before the row exists
  paidAt,    \* payment_orders.paid_at is set
  tradeNo,   \* payment_orders.payment_trade_no holds the gateway's number
  age,       \* payment_orders.updated_at of an EXPIRED order against the grace period
  gateway,   \* the payment as the gateway knows it
  acked,     \* the gateway got a success answer to its notification
  code,      \* the order's redeem code
  lock,      \* Redis key redeem:lock:<code>
  credited,  \* how often the code's value was added to the user's balance
  assigned,  \* how often the plan's days were added: 0, 1, or 2 for more than once
  unrecorded, \* history: orders whose days were added with no audit row to say so,
              \* or whose audit row could not be read
  rebate,    \* how often the inviter's rebate was accrued for the order
  redeemRebate, \* how often it was accrued by a redemption outside the order
  audit,     \* rows of payment_audit_logs that the code reads back
  pc, op, job, flag  \* per handler: next call, operation, order, local result

orderVars   == <<status, paidAt, tradeNo, age>>
gatewayVars == <<gateway, acked>>
redeemVars  == <<code, lock, credited, redeemRebate>>
grantVars   == <<assigned, unrecorded, rebate, audit>>
procVars    == <<pc, op, job, flag>>
vars == <<orderVars, gatewayVars, redeemVars, grantVars, procVars>>

Statuses == {"NONE", "PENDING", "PAID", "RECHARGING", "COMPLETED",
             "EXPIRED", "CANCELLED", "FAILED"}
Actions  == {"SUBSCRIPTION_ASSIGNED", "SUBSCRIPTION_SUCCESS", "AFFILIATE_REBATE"}

\* The calls between taking the order for fulfilment and letting it go.
RedeemCalls  == {"lock", "check_code", "use", "unlock"}
FulfillCalls == RedeemCalls \cup {"lookup", "create_code", "assign", "note",
                                  "rebate", "complete", "fail"}
Calls == FulfillCalls \cup {"idle", "insert", "invoke", "query", "persist",
           "cancel_upstream", "close", "confirm", "already", "check", "take", "reset"}

\* Handlers that fulfil their order, and those that fulfil order o.
Fulfilling(p)   == pc[p] \in FulfillCalls /\ op[p] # "redeem"
FulfillersOf(o) == {p \in Procs : Fulfilling(p) /\ job[p] = o}
Delivered(o)    == IF o \in Subs THEN assigned[o] > 0 ELSE credited[o] > 0

-------------------------------------------------------------------------------
Init ==
  /\ status = [o \in Orders |-> "NONE"]
  /\ paidAt = [o \in Orders |-> FALSE]
  /\ tradeNo = [o \in Orders |-> FALSE]
  /\ age = [o \in Orders |-> "recent"]
  /\ gateway = [o \in Orders |-> "none"]
  /\ acked = [o \in Orders |-> FALSE]
  /\ code = [o \in Orders |-> "absent"]
  /\ lock = [o \in Orders |-> NoProc]
  /\ credited = [o \in Orders |-> 0]
  /\ assigned = [o \in Orders |-> 0]
  /\ unrecorded = {}
  /\ rebate = [o \in Orders |-> 0]
  /\ redeemRebate = [o \in Orders |-> 0]
  /\ audit = [o \in Orders |-> {}]
  /\ pc = [p \in Procs |-> "idle"]
  /\ op = [p \in Procs |-> "create"]
  /\ job = [p \in Procs |-> CHOOSE o \in Orders : TRUE]
  /\ flag = [p \in Procs |-> FALSE]

Fails(kind) == kind \in Faults

Goto(p, call) == pc' = [pc EXCEPT ![p] = call]

\* A handler starts operation kind on order o with its first call.
Begin(p, kind, o, call) ==
  /\ pc[p] = "idle"
  /\ kind \in Ops
  /\ Goto(p, call)
  /\ op' = [op EXCEPT ![p] = kind]
  /\ job' = [job EXCEPT ![p] = o]

\* A handler returns; only the webhook's answer reaches anybody, the gateway,
\* which stops redelivering once it got a success.
Return(p, ok) ==
  /\ Goto(p, "idle")
  /\ acked' = [acked EXCEPT ![job[p]] = @ \/ (ok /\ op[p] = "webhook")]
  /\ UNCHANGED gateway

SetStatus(o, s) == status' = [status EXCEPT ![o] = s]

\* Every update of the row renews updated_at; that matters once it is old.
Touch(o) == age' = [age EXCEPT ![o] = IF @ = "old" THEN "renewed" ELSE @]

-------------------------------------------------------------------------------
(* CreateOrder: a transaction counts the user's pending orders, then inserts *)
(* the row (read committed, no lock between the two); then the gateway is    *)
(* called, and any error marks the row FAILED whatever its status is by then.*)

PendingOrders == {o \in Orders : status[o] = "PENDING"}

checkPendingLimit(p) ==
  /\ \E o \in Orders : status[o] = "NONE"
  /\ Cardinality(PendingOrders) < MaxPending
  /\ Begin(p, "create", job[p], "insert")
  /\ UNCHANGED <<flag, orderVars, gatewayVars, redeemVars, grantVars>>

\* The handler also returns when the model has no order left to create.
createOrderInTx(p) ==
  /\ pc[p] = "insert"
  /\ \/ \E o \in Orders :
          /\ status[o] = "NONE"
          /\ SetStatus(o, "PENDING")
          /\ job' = [job EXCEPT ![p] = o]
          /\ Goto(p, "invoke")
     \/ /\ Fails("order") \/ \A o \in Orders : status[o] # "NONE"
        /\ Goto(p, "idle")
        /\ UNCHANGED <<status, job>>
  /\ UNCHANGED <<op, flag, paidAt, tradeNo, age, gatewayVars, redeemVars, grantVars>>

\* The user can pay once the payment details were stored and returned to him.
\* Some gateways name the payment in that response, others only when it is paid.
invokeProvider(p) ==
  /\ pc[p] = "invoke"
  /\ \/ /\ gateway' = [gateway EXCEPT ![job[p]] = "open"]
        /\ \E known \in BOOLEAN : tradeNo' = [tradeNo EXCEPT ![job[p]] = known]
        /\ Touch(job[p])
        /\ UNCHANGED status
     \/ /\ Fails("gateway") \/ Fails("order")
        /\ \/ SetStatus(job[p], "FAILED") /\ Touch(job[p])
           \/ Fails("order") /\ UNCHANGED <<status, age>>
        /\ UNCHANGED <<gateway, tradeNo>>
  /\ Goto(p, "idle")
  /\ UNCHANGED <<op, job, flag, paidAt, acked, redeemVars, grantVars>>

-------------------------------------------------------------------------------
(* The gateway and the clock.                                               *)

\* The user pays the right amount, or the gateway reports a payment that the
\* order's snapshot does not match (amount, currency or merchant).
UserPays(o) ==
  /\ gateway[o] = "open"
  /\ \E result \in {"paid", "mismatch"} : gateway' = [gateway EXCEPT ![o] = result]
  /\ UNCHANGED <<acked, orderVars, redeemVars, grantVars, procVars>>

\* paymentGraceMinutes pass after the last update of an expired order.
GraceLapses(o) ==
  /\ status[o] = "EXPIRED"
  /\ age[o] # "old"
  /\ age' = [age EXCEPT ![o] = "old"]
  /\ UNCHANGED <<status, paidAt, tradeNo, gatewayVars, redeemVars, grantVars, procVars>>

\* redeemLockDuration passes before the holder releases the lock.
LockExpires(o) ==
  /\ Fails("ttl")
  /\ lock[o] # NoProc
  /\ lock' = [lock EXCEPT ![o] = NoProc]
  /\ UNCHANGED <<code, credited, redeemRebate, orderVars, gatewayVars, grantVars, procVars>>

Crash(p) ==
  /\ Fails("crash")
  /\ pc[p] # "idle"
  /\ Goto(p, "idle")
  /\ UNCHANGED <<op, job, flag, orderVars, gatewayVars, redeemVars, grantVars>>

-------------------------------------------------------------------------------
(* CancelOrder, AdminCancelOrder, ExpireTimedOutOrders, VerifyOrderByOutTradeNo *)
(* and ReconcilePendingWxpayOrders: look at the order, ask the gateway, act.    *)

CancelOrder(p, o) ==
  /\ status[o] = "PENDING"
  /\ Begin(p, "cancel", o, "query")
  /\ flag' = [flag EXCEPT ![p] = tradeNo[o]]
  /\ UNCHANGED <<orderVars, gatewayVars, redeemVars, grantVars>>

ExpireTimedOutOrders(p, o) ==
  /\ status[o] = "PENDING"
  /\ Begin(p, "expire", o, "query")
  /\ flag' = [flag EXCEPT ![p] = tradeNo[o]]
  /\ UNCHANGED <<orderVars, gatewayVars, redeemVars, grantVars>>

VerifyOrderByOutTradeNo(p, o) ==
  /\ status[o] \in {"PENDING", "EXPIRED"}
  /\ Begin(p, "verify", o, "query")
  /\ flag' = [flag EXCEPT ![p] = tradeNo[o]]
  /\ UNCHANGED <<orderVars, gatewayVars, redeemVars, grantVars>>

\* checkPaid found no payment: verify stops here, the others close the order.
NotPaid(p, call) == Goto(p, IF op[p] = "verify" THEN "idle" ELSE call)

\* checkPaidWithOptions.  A payment whose amount is not even a number counts as
\* no payment; any other is handed to the notification handler, after the
\* gateway's trade number was stored if it is news to the row read at the start.
checkPaid(p) ==
  /\ pc[p] = "query"
  /\ \/ /\ gateway[job[p]] \in {"paid", "mismatch"}
        /\ Goto(p, "confirm") \/ (~flag[p] /\ Goto(p, "persist"))
     \/ gateway[job[p]] = "mismatch" /\ NotPaid(p, "close")
     \/ gateway[job[p]] \notin {"paid", "mismatch"} /\ NotPaid(p, "cancel_upstream")
     \/ /\ Fails("gateway") \/ Fails("order")
        /\ NotPaid(p, "close")
  /\ UNCHANGED <<op, job, flag, orderVars, gatewayVars, redeemVars, grantVars>>

\* An unconditional update, whatever the order's status is by now.
PersistTradeNo(p) ==
  /\ pc[p] = "persist"
  /\ \/ /\ tradeNo' = [tradeNo EXCEPT ![job[p]] = TRUE]
        /\ Touch(job[p])
     \/ /\ Fails("order")
        /\ UNCHANGED <<tradeNo, age>>
  /\ Goto(p, "confirm")
  /\ UNCHANGED <<op, job, flag, status, paidAt, gatewayVars, redeemVars, grantVars>>

\* CancelPayment: its error, and a gateway without the call, are ignored.
CancelPayment(p) ==
  /\ pc[p] = "cancel_upstream"
  /\ \/ gateway' = [gateway EXCEPT ![job[p]] = IF @ = "open" THEN "closed" ELSE @]
     \/ UNCHANGED gateway
  /\ Goto(p, "close")
  /\ UNCHANGED <<op, job, flag, acked, orderVars, redeemVars, grantVars>>

\* Mutant: the update no longer insists that the order is still pending.
cancelCoreBlindly(p) ==
  /\ pc[p] = "close"
  /\ SetStatus(job[p], IF op[p] = "expire" THEN "EXPIRED" ELSE "CANCELLED")
  /\ age' = [age EXCEPT ![job[p]] = "recent"]
  /\ Goto(p, "idle")
  /\ UNCHANGED <<op, job, flag, paidAt, tradeNo, gatewayVars, redeemVars, grantVars>>

\* Mutant: the order is closed under a name that is no order status.
cancelCoreMisnamed(p) ==
  /\ pc[p] = "close"
  /\ SetStatus(job[p], IF status[job[p]] = "PENDING" THEN "CLOSED" ELSE status[job[p]])
  /\ Goto(p, "idle")
  /\ UNCHANGED <<op, job, flag, paidAt, tradeNo, age, gatewayVars, redeemVars, grantVars>>

\* The compare-and-set that ends cancelCore.
cancelCore(p) ==
  /\ pc[p] = "close"
  /\ \/ /\ status[job[p]] = "PENDING"
        /\ SetStatus(job[p], IF op[p] = "expire" THEN "EXPIRED" ELSE "CANCELLED")
        /\ age' = [age EXCEPT ![job[p]] = "recent"]
     \/ /\ status[job[p]] # "PENDING" \/ Fails("order")
        /\ UNCHANGED <<status, age>>
  /\ Goto(p, "idle")
  /\ UNCHANGED <<op, job, flag, paidAt, tradeNo, gatewayVars, redeemVars, grantVars>>

-------------------------------------------------------------------------------
(* HandlePaymentNotification, confirmPayment, toPaid, alreadyProcessed.     *)

\* The gateway delivers, and redelivers until it gets a success.
HandlePaymentNotification(p, o) ==
  /\ gateway[o] \in {"paid", "mismatch"}
  /\ ~acked[o]
  /\ Begin(p, "webhook", o, "confirm")
  /\ UNCHANGED <<flag, orderVars, gatewayVars, redeemVars, grantVars>>

\* Mutant: toPaid forgets that a cancelled order may still be paid.
PayableUnlessCancelled(o) == \/ status[o] = "PENDING"
                             \/ status[o] = "EXPIRED" /\ age[o] # "old"

Payable(o) == \/ status[o] \in {"PENDING", "CANCELLED"}
              \/ status[o] = "EXPIRED" /\ age[o] # "old"

\* Mutant: the amount is not compared with the order's.
confirmAnyAmount(p) ==
  LET o == job[p] IN
  /\ pc[p] = "confirm"
  /\ \/ /\ Payable(o)
        /\ SetStatus(o, "PAID")
        /\ paidAt' = [paidAt EXCEPT ![o] = TRUE]
        /\ tradeNo' = [tradeNo EXCEPT ![o] = TRUE]
        /\ Goto(p, "check")
     \/ /\ ~Payable(o)
        /\ Goto(p, "already")
        /\ UNCHANGED <<status, paidAt, tradeNo>>
  /\ UNCHANGED <<op, job, flag, age, gatewayVars, redeemVars, grantVars>>

\* The order's provider, amount and metadata are checked against columns that
\* no handler changes beyond the amount's tolerance, so the check and toPaid's
\* compare-and-set make one step.
confirmPayment(p) ==
  LET o == job[p] IN
  /\ pc[p] = "confirm"
  /\ \/ /\ gateway[o] = "paid"
        /\ Payable(o)
        /\ SetStatus(o, "PAID")
        /\ paidAt' = [paidAt EXCEPT ![o] = TRUE]
        /\ tradeNo' = [tradeNo EXCEPT ![o] = TRUE]
        /\ Goto(p, "check")
        /\ UNCHANGED gatewayVars
     \/ /\ gateway[o] = "paid"
        /\ ~Payable(o)
        /\ Goto(p, "already")
        /\ UNCHANGED <<status, paidAt, tradeNo, gatewayVars>>
     \/ \* a mismatch or a failing statement is an error, but confirmPayment
        \* answers an order it cannot read with success
        /\ gateway[o] # "paid" \/ Fails("order")
        /\ Return(p, FALSE) \/ (Fails("order") /\ Return(p, TRUE))
        /\ UNCHANGED <<status, paidAt, tradeNo>>
  /\ UNCHANGED <<op, job, flag, age, redeemVars, grantVars>>

alreadyProcessed(p) ==
  LET o == job[p] IN
  /\ pc[p] = "already"
  /\ \/ /\ status[o] = "FAILED"
        /\ Goto(p, "check")
        /\ UNCHANGED gatewayVars
     \/ status[o] \in {"PAID", "RECHARGING"} /\ Return(p, FALSE)
     \/ status[o] \notin {"FAILED", "PAID", "RECHARGING"} /\ Return(p, TRUE)
     \/ Fails("order") /\ Return(p, TRUE)
  /\ UNCHANGED <<op, job, flag, orderVars, redeemVars, grantVars>>

-------------------------------------------------------------------------------
(* executeFulfillment: ExecuteBalanceFulfillment and                        *)
(* ExecuteSubscriptionFulfillment.                                          *)

\* The status is read first; the compare-and-set that follows repeats the test.
executeFulfillment(p) ==
  /\ pc[p] = "check"
  /\ \/ /\ status[job[p]] \in {"PAID", "FAILED"}
        /\ Goto(p, "take")
        /\ UNCHANGED gatewayVars
     \/ status[job[p]] = "COMPLETED" /\ Return(p, TRUE)
     \/ /\ status[job[p]] \notin {"PAID", "FAILED", "COMPLETED"} \/ Fails("order")
        /\ Return(p, FALSE)
  /\ UNCHANGED <<op, job, flag, orderVars, redeemVars, grantVars>>

\* Mutant: an order whose fulfilment seems stuck is taken over.
TakeableWhenStuck(o) == status[o] \in {"PAID", "FAILED", "RECHARGING"}

Takeable(o) == status[o] \in {"PAID", "FAILED"}

TakeRecharging(p) ==
  LET o == job[p] IN
  /\ pc[p] = "take"
  /\ \/ /\ Takeable(o)
        /\ SetStatus(o, "RECHARGING")
        /\ Goto(p, IF o \in Subs THEN "assign" ELSE "lookup")
        /\ UNCHANGED gatewayVars
     \/ /\ ~Takeable(o)
        /\ Return(p, TRUE)
        /\ UNCHANGED status
     \/ /\ Fails("order")
        /\ Return(p, FALSE)
        /\ UNCHANGED status
  /\ UNCHANGED <<op, job, flag, paidAt, tradeNo, age, redeemVars, grantVars>>

\* markCompleted updates only a RECHARGING row and ignores how many it hit.
markCompleted(p) ==
  LET o == job[p] IN
  /\ pc[p] = "complete"
  /\ \/ /\ status' = [status EXCEPT ![o] = IF @ = "RECHARGING" THEN "COMPLETED" ELSE @]
        /\ \/ audit' = [audit EXCEPT ![o] = IF o \in Subs THEN @ \cup {"SUBSCRIPTION_SUCCESS"} ELSE @]
           \/ Fails("audit") /\ UNCHANGED audit
        /\ Return(p, TRUE)
     \/ /\ Fails("order")
        /\ Goto(p, "fail")
        /\ UNCHANGED <<status, audit, gatewayVars>>
  /\ UNCHANGED <<op, job, flag, paidAt, tradeNo, age, assigned, unrecorded, rebate, redeemVars>>

markFailed(p) ==
  /\ pc[p] = "fail"
  /\ \/ status' = [status EXCEPT ![job[p]] = IF @ = "RECHARGING" THEN "FAILED" ELSE @]
     \/ Fails("order") /\ UNCHANGED status
  /\ Return(p, FALSE)
  /\ UNCHANGED <<op, job, flag, paidAt, tradeNo, age, redeemVars, grantVars>>

\* RetryFulfillment (admin): the read, then the reset to PAID whose row count is
\* ignored, then fulfilment.
RetryFulfillment(p, o) ==
  /\ paidAt[o]
  /\ status[o] \in {"FAILED", "PAID"}
  /\ Begin(p, "retry", o, "reset")
  /\ UNCHANGED <<flag, orderVars, gatewayVars, redeemVars, grantVars>>

ResetForRetry(p) ==
  /\ pc[p] = "reset"
  /\ \/ /\ status' = [status EXCEPT ![job[p]] = IF @ \in {"FAILED", "PAID"} THEN "PAID" ELSE @]
        /\ Goto(p, "check")
     \/ /\ Fails("order")
        /\ Goto(p, "idle")
        /\ UNCHANGED status
  /\ UNCHANGED <<op, job, flag, paidAt, tradeNo, age, gatewayVars, redeemVars, grantVars>>

-------------------------------------------------------------------------------
(* doBalance: resolveRedeemAction, CreateCode, Redeem, the rebate.          *)

\* A failing lookup is taken for "no such code".
resolveRedeemAction(p) ==
  LET o == job[p] IN
  /\ pc[p] = "lookup"
  /\ \/ code[o] = "used" /\ Goto(p, "rebate")
     \/ code[o] = "unused" /\ Goto(p, "lock")
     \/ (code[o] = "absent" \/ Fails("redeem")) /\ Goto(p, "create_code")
  /\ UNCHANGED <<op, job, flag, orderVars, gatewayVars, redeemVars, grantVars>>

\* redeem_codes.code is unique.
CreateCode(p) ==
  LET o == job[p] IN
  /\ pc[p] = "create_code"
  /\ \/ /\ code[o] = "absent"
        /\ code' = [code EXCEPT ![o] = "unused"]
        /\ Goto(p, "lock")
     \/ /\ code[o] # "absent" \/ Fails("redeem")
        /\ Goto(p, "fail")
        /\ UNCHANGED code
  /\ UNCHANGED <<op, job, flag, lock, credited, redeemRebate,
                 orderVars, gatewayVars, grantVars>>

\* A code handed out by an administrator is redeemed like any other code.
Redeem(p, o) ==
  /\ code[o] # "absent"
  /\ Begin(p, "redeem", o, "lock")
  /\ UNCHANGED <<flag, orderVars, gatewayVars, redeemVars, grantVars>>

\* Mutant: an order's handler returns without marking the order FAILED.
RedeemFailsSilently(p) == Goto(p, "idle")

\* Redeem's outcome: an order continues, a redemption by hand is over.
RedeemFails(p) == Goto(p, IF op[p] = "redeem" THEN "idle" ELSE "fail")

\* The rate limit refuses, somebody holds the lock, or a Redis error lets the
\* caller go on without it.
acquireRedeemLock(p) ==
  LET o == job[p] IN
  /\ pc[p] = "lock"
  /\ \/ /\ lock[o] = NoProc
        /\ lock' = [lock EXCEPT ![o] = p]
        /\ Goto(p, "check_code")
     \/ /\ Fails("redis")
        /\ Goto(p, "check_code")
        /\ UNCHANGED lock
     \/ /\ lock[o] # NoProc \/ Fails("redeem")
        /\ RedeemFails(p)
        /\ UNCHANGED lock
  /\ UNCHANGED <<op, job, flag, code, credited, redeemRebate,
                 orderVars, gatewayVars, grantVars>>

CheckCode(p) ==
  /\ pc[p] = "check_code"
  /\ \/ code[job[p]] = "unused" /\ Goto(p, "use") /\ UNCHANGED flag
     \/ /\ code[job[p]] # "unused" \/ Fails("redeem")
        /\ Goto(p, "unlock")
        /\ flag' = [flag EXCEPT ![p] = FALSE]
  /\ UNCHANGED <<op, job, orderVars, gatewayVars, redeemVars, grantVars>>

\* Mutant: the update of the code no longer tests that it is unused.
UseAgain(p) ==
  LET o == job[p] IN
  /\ pc[p] = "use"
  /\ code' = [code EXCEPT ![o] = "used"]
  /\ credited' = [credited EXCEPT ![o] = @ + 1]
  /\ flag' = [flag EXCEPT ![p] = TRUE]
  /\ Goto(p, "unlock")
  /\ UNCHANGED <<op, job, lock, redeemRebate, orderVars, gatewayVars, grantVars>>

\* The transaction: Use and UpdateBalance.  A lost commit acknowledgement or a
\* failing GetByID afterwards is an error although the balance was credited.
\* Outside an order, Redeem accrues the inviter's rebate on its own.
Use(p) ==
  LET o == job[p] IN
  /\ pc[p] = "use"
  /\ \/ /\ code[o] = "unused"
        /\ code' = [code EXCEPT ![o] = "used"]
        /\ credited' = [credited EXCEPT ![o] = @ + 1]
        /\ redeemRebate' = [redeemRebate EXCEPT ![o] = IF op[p] = "redeem" THEN @ + 1 ELSE @]
        /\ \/ flag' = [flag EXCEPT ![p] = TRUE]
           \/ Fails("redeem") /\ flag' = [flag EXCEPT ![p] = FALSE]
     \/ /\ code[o] # "unused" \/ Fails("redeem")
        /\ flag' = [flag EXCEPT ![p] = FALSE]
        /\ UNCHANGED <<code, credited, redeemRebate>>
  /\ Goto(p, "unlock")
  /\ UNCHANGED <<op, job, lock, orderVars, gatewayVars, grantVars>>

\* Mutant: an order goes on although its code was not redeemed.
releaseIgnoringError(p) ==
  /\ pc[p] = "unlock"
  /\ lock' = [lock EXCEPT ![job[p]] = NoProc]
  /\ Goto(p, IF op[p] # "redeem" THEN "rebate" ELSE "idle")
  /\ UNCHANGED <<op, job, flag, code, credited, redeemRebate,
                 orderVars, gatewayVars, grantVars>>

\* The deferred DEL removes the key whoever holds it.
releaseRedeemLock(p) ==
  /\ pc[p] = "unlock"
  /\ \/ lock' = [lock EXCEPT ![job[p]] = NoProc]
     \/ Fails("redis") /\ UNCHANGED lock
  /\ IF flag[p] /\ op[p] # "redeem" THEN Goto(p, "rebate") ELSE RedeemFails(p)
  /\ UNCHANGED <<op, job, flag, code, credited, redeemRebate,
                 orderVars, gatewayVars, grantVars>>

\* Mutant: the rebate is accrued before the audit row is claimed.
accrueUnclaimed(p) ==
  /\ pc[p] = "rebate"
  /\ rebate' = [rebate EXCEPT ![job[p]] = @ + 1]
  /\ audit' = [audit EXCEPT ![job[p]] = @ \cup {"AFFILIATE_REBATE"}]
  /\ Goto(p, "complete")
  /\ UNCHANGED <<op, job, flag, assigned, unrecorded, orderVars, gatewayVars, redeemVars>>

\* applyAffiliateRebateForOrder: one transaction that claims the audit row and
\* accrues only if the row was not there.  A lost answer to the commit is an error.
applyAffiliateRebateForOrder(p) ==
  LET o == job[p] IN
  /\ pc[p] = "rebate"
  /\ \/ /\ "AFFILIATE_REBATE" \notin audit[o]
        /\ audit' = [audit EXCEPT ![o] = @ \cup {"AFFILIATE_REBATE"}]
        /\ rebate' = [rebate EXCEPT ![o] = @ + 1]
        /\ Goto(p, "complete") \/ (Fails("after") /\ Goto(p, "fail"))
     \/ /\ "AFFILIATE_REBATE" \in audit[o]
        /\ Goto(p, "complete")
        /\ UNCHANGED <<audit, rebate>>
     \/ /\ Fails("rebate")
        /\ Goto(p, "fail")
        /\ UNCHANGED <<audit, rebate>>
  /\ UNCHANGED <<op, job, flag, assigned, unrecorded, orderVars, gatewayVars, redeemVars>>

-------------------------------------------------------------------------------
(* doSub: the audit log decides whether the days were already added; both   *)
(* its errors, on reading and on writing, are swallowed.                    *)

\* Mutant: the newer of the two audit actions is not looked for.
LegacyAudit(o) == "SUBSCRIPTION_SUCCESS" \in audit[o]

AssignedInAudit(o) ==
  "SUBSCRIPTION_ASSIGNED" \in audit[o] \/ "SUBSCRIPTION_SUCCESS" \in audit[o]

AddDays(o) == assigned' = [assigned EXCEPT ![o] = IF @ = 0 THEN 1 ELSE 2]

MarkUnrecorded(o, when) == unrecorded' = IF when THEN unrecorded \cup {o} ELSE unrecorded

\* AssignOrExtendSubscription reads the subscription again after its write, and its
\* transaction can lose the answer to the commit: both are errors although the days
\* were added, and doSub returns them before it writes the audit row.
doSub(p) ==
  LET o == job[p] IN
  /\ pc[p] = "assign"
  /\ \/ /\ AssignedInAudit(o)
        /\ Goto(p, "rebate")
        /\ UNCHANGED <<assigned, unrecorded>>
     \/ /\ ~AssignedInAudit(o) \/ Fails("audit")
        /\ AddDays(o)
        /\ \/ Goto(p, "note") /\ MarkUnrecorded(o, AssignedInAudit(o))
           \/ Fails("after") /\ Goto(p, "fail") /\ MarkUnrecorded(o, TRUE)
     \/ /\ Fails("assign")
        /\ Goto(p, "fail")
        /\ UNCHANGED <<assigned, unrecorded>>
  /\ UNCHANGED <<op, job, flag, rebate, audit, orderVars, gatewayVars, redeemVars>>

\* Mutant: the row that remembers the added days is not written.
noteNothing(p) ==
  /\ pc[p] = "note"
  /\ Goto(p, "rebate")
  /\ UNCHANGED <<op, job, flag, grantVars, orderVars, gatewayVars, redeemVars>>

writeAuditAssigned(p) ==
  /\ pc[p] = "note"
  /\ \/ /\ audit' = [audit EXCEPT ![job[p]] = @ \cup {"SUBSCRIPTION_ASSIGNED"}]
        /\ UNCHANGED unrecorded
     \/ /\ Fails("audit")
        /\ MarkUnrecorded(job[p], TRUE)
        /\ UNCHANGED audit
  /\ Goto(p, "rebate")
  /\ UNCHANGED <<op, job, flag, assigned, rebate, orderVars, gatewayVars, redeemVars>>

-------------------------------------------------------------------------------
Start(p) ==
  \/ checkPendingLimit(p)
  \/ \E o \in Orders :
       \/ CancelOrder(p, o) \/ ExpireTimedOutOrders(p, o) \/ VerifyOrderByOutTradeNo(p, o)
       \/ HandlePaymentNotification(p, o) \/ RetryFulfillment(p, o) \/ Redeem(p, o)

Order(p) ==
  \/ createOrderInTx(p) \/ invokeProvider(p)
  \/ checkPaid(p) \/ PersistTradeNo(p) \/ CancelPayment(p) \/ cancelCore(p)
  \/ confirmPayment(p) \/ alreadyProcessed(p) \/ ResetForRetry(p)

Fulfill(p) ==
  \/ executeFulfillment(p) \/ TakeRecharging(p) \/ markCompleted(p) \/ markFailed(p)
  \/ resolveRedeemAction(p) \/ CreateCode(p)
  \/ acquireRedeemLock(p) \/ CheckCode(p) \/ Use(p) \/ releaseRedeemLock(p)
  \/ applyAffiliateRebateForOrder(p) \/ doSub(p) \/ writeAuditAssigned(p)

Environment == \E o \in Orders : UserPays(o) \/ GraceLapses(o) \/ LockExpires(o)

Next ==
  \/ Environment
  \/ \E p \in Procs : Start(p) \/ Order(p) \/ Fulfill(p) \/ Crash(p)

Spec == Init /\ [][Next]_vars

\* A handler that has started goes on unless it dies, and the gateway redelivers
\* its notification until it gets a success: a free handler picks it up even if
\* other requests keep arriving.
FairSpec ==
  /\ Spec
  /\ \A p \in Procs : WF_vars(Order(p) \/ Fulfill(p))
  /\ \A o \in Orders : SF_vars(\E p \in Procs : HandlePaymentNotification(p, o))

-------------------------------------------------------------------------------
(* Properties.                                                              *)

\* Every column, cache entry and program counter has one of its values.
TypeOK ==
  /\ status \in [Orders -> Statuses]
  /\ paidAt \in [Orders -> BOOLEAN]
  /\ tradeNo \in [Orders -> BOOLEAN]
  /\ age \in [Orders -> {"recent", "old", "renewed"}]
  /\ gateway \in [Orders -> {"none", "open", "closed", "paid", "mismatch"}]
  /\ acked \in [Orders -> BOOLEAN]
  /\ code \in [Orders -> {"absent", "unused", "used"}]
  /\ lock \in [Orders -> Procs \cup {NoProc}]
  /\ credited \in [Orders -> Nat]
  /\ assigned \in [Orders -> 0..2]
  /\ unrecorded \in SUBSET Orders
  /\ rebate \in [Orders -> Nat]
  /\ redeemRebate \in [Orders -> Nat]
  /\ audit \in [Orders -> SUBSET Actions]
  /\ pc \in [Procs -> Calls]
  /\ op \in [Procs -> AllOps]
  /\ job \in [Procs -> Orders]
  /\ flag \in [Procs -> BOOLEAN]

\* RECHARGING is a lock: no two handlers are ever between taking the same order
\* for fulfilment and completing or failing it.
SingleFulfiller ==
  \A p, q \in Procs : Fulfilling(p) /\ Fulfilling(q) /\ job[p] = job[q] => p = q

\* However often a payment is notified, verified, retried or redeemed by hand,
\* the balance is credited once, and exactly when the code is spent.
CreditedOnce ==
  \A o \in Orders : credited[o] = IF code[o] = "used" THEN 1 ELSE 0

\* Nothing is delivered that the gateway has not been paid for in full.
PaidBeforeDelivery ==
  \A o \in Orders : Delivered(o) => gateway[o] = "paid"

\* An order is COMPLETED only after its balance or subscription was delivered.
CompletedIsDelivered ==
  \A o \in Orders : status[o] = "COMPLETED" => Delivered(o)

\* A subscription order adds its days once, whatever is retried and whoever dies:
\* twice only where an assignment was carried out and left no row in the audit log
\* (its own error, or the row's), or where the row could not be read.
AssignedOnce == \A o \in Orders : assigned[o] <= 1 \/ o \in unrecorded

\* Fulfilment pays the inviter's rebate at most once per order.
RebateOnce == \A o \in Orders : rebate[o] <= 1

\* A recorded payment is never lost again: no cancellation, expiry or late error
\* of another handler takes the order out of the paid statuses, and a completed
\* order stays completed.
KeepsPayments == \A o \in Orders :
  /\ paidAt[o] => /\ paidAt'[o]
                  /\ status'[o] \in {"PAID", "RECHARGING", "COMPLETED", "FAILED"}
  /\ status[o] = "COMPLETED" => status'[o] = "COMPLETED"

PaymentKept == [][KeepsPayments]_vars

\* The service refines its contract: an order counts as paid when the gateway
\* holds the right amount, as delivered when its balance was credited or its
\* days were added.
Contract == INSTANCE DeliveryContract WITH
              paid      <- {o \in Orders : gateway[o] = "paid"},
              delivered <- [o \in Orders |-> credited[o] + assigned[o]]

ContractSpec == Contract!Spec

\* A payment ends in an order that is completed, or handed to the administrator
\* as FAILED, or expired for longer than the grace period; it is never left with
\* a cancelled, pending or half-fulfilled order.
PaymentSettles ==
  \A o \in Orders :
    gateway[o] = "paid" ~> \/ status[o] \in {"COMPLETED", "FAILED"}
                           \/ status[o] = "EXPIRED" /\ age[o] = "old"

\* RECHARGING means that some handler is at work: the state refuses every retry
\* ("order is being processed") because that handler will finish or fail it.
RechargingIsWorkedOn ==
  \A o \in Orders : status[o] = "RECHARGING" => FulfillersOf(o) # {}

-------------------------------------------------------------------------------
(* The inductive invariant behind the safety properties.                    *)

\* Who holds an order for fulfilment finds it RECHARGING, and nobody else does.
HeldIsRecharging == \A p \in Procs : Fulfilling(p) => status[job[p]] = "RECHARGING"

RedeemCallsOnly ==
  \A p \in Procs : op[p] = "redeem" => pc[p] \in RedeemCalls \cup {"idle"}

LockInv == SingleFulfiller /\ HeldIsRecharging /\ RedeemCallsOnly

\* A status that lets an order be fulfilled comes from a payment, except the
\* FAILED of a creation that the gateway refused, which nobody can pay.
OrdersPaid == \A o \in Orders :
  /\ paidAt[o] => /\ gateway[o] = "paid"
                  /\ status[o] \in {"PAID", "RECHARGING", "COMPLETED", "FAILED"}
  /\ status[o] \in {"PAID", "RECHARGING", "COMPLETED"} => paidAt[o]
  /\ status[o] = "FAILED" => paidAt[o] \/ gateway[o] = "none"
  /\ status[o] = "NONE" => gateway[o] = "none"
  /\ code[o] # "absent" => gateway[o] = "paid" /\ o \notin Subs
  /\ assigned[o] > 0 => gateway[o] = "paid" /\ o \in Subs

CallsPaid == \A p \in Procs :
  /\ pc[p] \in {"already", "check", "take", "reset"} => gateway[job[p]] = "paid"
  /\ pc[p] = "invoke" => /\ gateway[job[p]] = "none"
                         /\ status[job[p]] \in {"PENDING", "CANCELLED", "EXPIRED"}

OneCreator == \A p, q \in Procs :
  pc[p] = "invoke" /\ pc[q] = "invoke" /\ job[p] = job[q] => p = q

PaidInv == OrdersPaid /\ CallsPaid /\ OneCreator

\* Each call of a fulfilment runs only after what it relies on was done.
AuditIsTrue == \A o \in Orders : AssignedInAudit(o) => assigned[o] > 0

CallsPrepared == \A p \in Procs :
  /\ pc[p] \in {"note", "rebate", "complete"} => Delivered(job[p])
  /\ pc[p] = "unlock" /\ flag[p] => code[job[p]] = "used"
  /\ pc[p] \in {"assign", "note"} => job[p] \in Subs
  /\ pc[p] \in RedeemCalls \cup {"lookup", "create_code"} => job[p] \notin Subs
  /\ pc[p] \in RedeemCalls => code[job[p]] # "absent"

DeliveryInv == CreditedOnce /\ CompletedIsDelivered /\ AuditIsTrue /\ CallsPrepared

RebateInv == \A o \in Orders :
  rebate[o] = IF "AFFILIATE_REBATE" \in audit[o] THEN 1 ELSE 0

\* Handlers live to finish their order, and the statements that do it succeed.
HandlersFinish == ~Fails("crash") /\ ~Fails("order")

\* Days that were added are on record before anyone can take the order again,
\* unless the assignment or its row is one of those that went wrong.
AssignInv ==
  \A o \in Orders :
    \/ o \in unrecorded
    \/ assigned[o] = 0
    \/ /\ assigned[o] = 1
       /\ \/ "SUBSCRIPTION_ASSIGNED" \in audit[o]
          \/ /\ status[o] = "RECHARGING"
             /\ \A p \in FulfillersOf(o) : pc[p] = "note"

\* Where no audit statement fails and no assignment fails after its write, every
\* assignment leaves its record.
GrantsRecorded == Subs = {} \/ (~Fails("audit") /\ ~Fails("after"))

AllRecorded == unrecorded = {}

IInv == TypeOK /\ LockInv /\ PaidInv /\ DeliveryInv /\ RebateInv
===============================================================================
