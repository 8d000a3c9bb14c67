----------------------------- MODULE PaymentRefund -----------------------------
(***************************************************************************)
(* Refunds of completed orders: the user's request, the administrator's    *)
(* refund (PrepareRefund and ExecuteRefund in one HTTP request) and the    *)
(* later confirmation of a refund that the gateway left pending            *)
(* (QueryAndFinalizeRefund).  As in PaymentFulfillment every call is one   *)
(* atomic step and handlers interleave freely.  Amounts are small numbers: *)
(* every order is worth Amount, in the currency of the balance for a       *)
(* balance order, in days of its subscription for a subscription order.    *)
(* Source: service/payment_refund.go, service/subscription_service.go.     *)
(***************************************************************************)
EXTENDS Integers, FiniteSetsExt

CONSTANTS
  Orders,     \* completed orders of one user
  Types,      \* what they may have bought, a subset of AllTypes
  Untraced,   \* those whose notification carried no gateway trade number
  Procs,      \* handlers that can be running at once
  Ops,        \* the operations handlers run, a subset of AllOps
  Faults,     \* the kinds of call that can fail, a subset of AllFaults
  Async,      \* the gateway may leave a refund pending
  Amount      \* what an order credited, and the most it refunds

\* A subscription is of a group that no other order is for.
AllTypes  == {"balance", "subscription"}
AllOps    == {"request", "refund", "finalize"}
\* "order", "audit", "user": a statement on that table fails; "gateway": the
\* answer to an executed gateway call is lost; "after": a change of a subscription
\* is written, and the call reports an error; "crash": a handler dies.
AllFaults == {"order", "audit", "user", "gateway", "after", "crash"}

ASSUME OrdersAssumption ==
  /\ IsFiniteSet(Orders) /\ Orders # {}
  /\ Untraced \subseteq Orders /\ Types \subseteq AllTypes
ASSUME OpsAssumption    == Ops \subseteq AllOps /\ Faults \subseteq AllFaults
ASSUME AmountAssumption == Async \in BOOLEAN /\ Amount \in Nat \ {0}

VARIABLES
  orderType,    \* payment_orders.order_type, which nothing changes
  status,       \* payment_orders.status
  refundAmount, \* payment_orders.refund_amount
  balance,      \* users.balance; it may go negative
  days,         \* what is left of the order's subscription, or Revoked
  taken,        \* history: what refunds of the order took, net
  settled,      \* what the gateway paid back for the order
  pending,      \* what it has promised to pay back
  ended,        \* the last pending refund to end was paid
  audit,        \* payment_audit_logs rows the code reads back
  pendingOK,    \* deductionRollbackOK in the order's REFUND_PENDING row
  h             \* per handler: next call and local variables

orderVars   == <<orderType, status, refundAmount>>
valueVars   == <<balance, days, taken>>
gatewayVars == <<settled, pending, ended>>
auditVars   == <<audit, pendingOK>>
vars == <<orderVars, valueVars, gatewayVars, auditVars, h>>

Refundable == {"COMPLETED", "REFUND_REQUESTED", "REFUND_PENDING", "REFUND_FAILED"}
Final      == {"REFUNDED", "PARTIALLY_REFUNDED"}
Statuses   == Refundable \cup Final \cup {"REFUNDING"}
Amounts    == 1 .. Amount
Revoked    == -1              \* the row of the subscription is deleted

\* Calls made while the order is held as REFUNDING, and the others.
HeldCalls == {"deduct", "revoke", "gateway", "rollback", "restore", "mark_failed",
              "mark_pending", "mark_ok"}
Calls == HeldCalls \cup {"idle", "request", "plan", "execute", "note_pending",
           "note_ok", "query", "final_deduct", "final_failed"}

Subs        == {o \in Orders : orderType[o] = "subscription"}
Holds(p, o) == h[p].pc \in HeldCalls /\ h[p].op = "refund" /\ h[p].order = o
Quiet(o)    == \A p \in Procs : h[p].pc = "idle" \/ h[p].order # o

Handlers == [pc : Calls, op : AllOps, order : Orders, from : Statuses,
             amount : 0 .. Amount, take : Int, ok : BOOLEAN]

Idle == [pc |-> "idle", op |-> "refund", order |-> CHOOSE o \in Orders : TRUE,
         from |-> "COMPLETED", amount |-> 0, take |-> 0, ok |-> FALSE]

Init ==
  /\ orderType \in [Orders -> Types]
  /\ status = [o \in Orders |-> "COMPLETED"]
  /\ refundAmount = [o \in Orders |-> 0]
  /\ balance = Amount * Cardinality(Orders \ Subs)
  /\ days \in [Orders -> {0, Amount, Amount + 1}]
  /\ \A o \in Orders : days[o] = 0 <=> o \notin Subs
  /\ taken = [o \in Orders |-> 0]
  /\ settled = [o \in Orders |-> 0]
  /\ pending = [o \in Orders |-> 0]
  /\ ended = [o \in Orders |-> FALSE]
  /\ audit = [o \in Orders |-> {}]
  /\ pendingOK = [o \in Orders |-> TRUE]
  /\ h = [p \in Procs |-> Idle]

Fails(kind) == kind \in Faults
Goto(p, call) == h' = [h EXCEPT ![p].pc = call]
Return(p) == h' = [h EXCEPT ![p] = Idle]
SetStatus(o, s) == status' = [status EXCEPT ![o] = s]

\* writeAuditLog swallows its errors.  Rows are unique per order and action
\* (migration 131), so a second row of an action is dropped as well.
Log(o, action) ==
  \/ audit' = [audit EXCEPT ![o] = @ \cup {action}]
  \/ Fails("audit") /\ UNCHANGED audit

-------------------------------------------------------------------------------
(* The rest of the system.                                                  *)

\* The user spends on API calls; DeductBalance of a later refund may overdraw.
UserSpends ==
  /\ balance > 0
  /\ balance' = balance - 1
  /\ UNCHANGED <<orderVars, days, taken, gatewayVars, auditVars, h>>

SubscriptionAges(o) ==
  /\ days[o] > 0
  /\ days' = [days EXCEPT ![o] = @ - 1]
  /\ UNCHANGED <<orderVars, balance, taken, gatewayVars, auditVars, h>>

\* A refund that the gateway left pending succeeds or fails.
PendingEnds(o) ==
  /\ pending[o] > 0
  /\ \E paid \in BOOLEAN :
       /\ settled' = [settled EXCEPT ![o] = @ + IF paid THEN pending[o] ELSE 0]
       /\ ended' = [ended EXCEPT ![o] = paid]
  /\ pending' = [pending EXCEPT ![o] = 0]
  /\ UNCHANGED <<orderVars, valueVars, auditVars, h>>

Crash(p) ==
  /\ Fails("crash")
  /\ h[p].pc # "idle"
  /\ Return(p)
  /\ UNCHANGED <<orderVars, valueVars, gatewayVars, auditVars>>

-------------------------------------------------------------------------------
(* The two calls of the subscription service, each for every answer the      *)
(* refund tells apart.                                                       *)

\* The row is read, judged and written.  An expired subscription is extended from
\* now on and cannot be shortened; a deleted one is not found.
ExtendSubscription(o, n, answer) ==
  LET left == (IF days[o] > 0 THEN days[o] ELSE 0) + n IN
  \/ /\ answer = "done" \/ (answer = "failed" /\ Fails("after"))
     /\ days[o] # Revoked /\ left > 0
     /\ days' = [days EXCEPT ![o] = left]
     /\ taken' = [taken EXCEPT ![o] = @ - n]
  \/ /\ answer = "would_expire"
     /\ days[o] > 0 /\ left <= 0
     /\ UNCHANGED <<days, taken>>
  \/ /\ answer = "failed"
     /\ days[o] = Revoked \/ (days[o] = 0 /\ n < 0) \/ Fails("user")
     /\ UNCHANGED <<days, taken>>

\* The row is deleted with whatever it has left.
RevokeSubscription(o, answer) ==
  \/ /\ answer = "done" \/ (answer = "failed" /\ Fails("after"))
     /\ days[o] # Revoked
     /\ days' = [days EXCEPT ![o] = Revoked]
     /\ taken' = [taken EXCEPT ![o] = @ + days[o]]
  \/ /\ answer = "failed"
     /\ days[o] = Revoked \/ Fails("user")
     /\ UNCHANGED <<days, taken>>

-------------------------------------------------------------------------------
(* RequestRefund: for balance orders, which the balance must still cover.   *)

validateRefundRequest(p, o) ==
  /\ "request" \in Ops /\ h[p].pc = "idle"
  /\ o \notin Subs /\ status[o] = "COMPLETED"
  /\ balance >= Amount
  /\ h' = [h EXCEPT ![p] = [Idle EXCEPT !.pc = "request", !.op = "request", !.order = o]]
  /\ UNCHANGED <<orderVars, valueVars, gatewayVars, auditVars>>

RequestRefund(p) ==
  LET o == h[p].order IN
  /\ h[p].pc = "request"
  /\ \/ /\ status[o] = "COMPLETED"
        /\ SetStatus(o, "REFUND_REQUESTED")
        /\ refundAmount' = [refundAmount EXCEPT ![o] = Amount]
        /\ UNCHANGED orderType
     \/ /\ status[o] # "COMPLETED" \/ Fails("order")
        /\ UNCHANGED orderVars
  /\ Return(p)
  /\ UNCHANGED <<valueVars, gatewayVars, auditVars>>

-------------------------------------------------------------------------------
(* PrepareRefund and ExecuteRefund.                                         *)

\* Mutant: the amount is not limited by the order's.
PrepareAnyAmount(p, o) ==
  /\ "refund" \in Ops /\ h[p].pc = "idle"
  /\ status[o] \in Refundable
  /\ \E amt \in 1 .. Amount + 1 :
       h' = [h EXCEPT ![p] = [Idle EXCEPT !.pc = "plan", !.order = o, !.from = status[o],
                                          !.amount = amt]]
  /\ UNCHANGED <<orderVars, valueVars, gatewayVars, auditVars>>

\* The plan keeps the order as it was read; deduct says whether the
\* administrator wants the balance taken back.
PrepareRefund(p, o) ==
  /\ "refund" \in Ops /\ h[p].pc = "idle"
  /\ status[o] \in Refundable
  /\ \E amt \in Amounts, deduct \in BOOLEAN :
       h' = [h EXCEPT ![p] = [Idle EXCEPT !.pc = IF deduct THEN "plan" ELSE "execute",
                                          !.order = o, !.from = status[o], !.amount = amt]]
  /\ UNCHANGED <<orderVars, valueVars, gatewayVars, auditVars>>

\* What is to be taken: of a balance what is there, of a subscription all the days
\* of the order, whatever the amount.  Without a user or an active subscription the
\* refund stops, or under force takes nothing; finalisation, which plans for
\* subscriptions only, uses force.  The cache may still show a subscription that
\* has ended.
prepDeduct(p) ==
  LET o == h[p].order
      next == IF h[p].op = "finalize" THEN "final_deduct" ELSE "execute"
      plan(n) == h' = [h EXCEPT ![p].pc = next, ![p].take = n] IN
  /\ h[p].pc = "plan"
  /\ \/ o \notin Subs /\ plan(Min({h[p].amount, balance}))
     \/ o \in Subs /\ plan(Amount)
     \/ /\ Fails("user") \/ (o \in Subs /\ days[o] <= 0)
        /\ plan(0) \/ (h[p].op = "refund" /\ Return(p))
  /\ UNCHANGED <<orderVars, valueVars, gatewayVars, auditVars>>

\* Mutants: a refund takes over one that is under way, or repeats a finished one.
ExecutableWhileRefunding(o) == status[o] \in Refundable \cup {"REFUNDING"}
ExecutableTwice(o) == status[o] \in Refundable \cup Final

Executable(o) == status[o] \in Refundable

ExecuteRefund(p) ==
  LET o == h[p].order IN
  /\ h[p].pc = "execute"
  /\ \/ /\ Executable(o)
        /\ SetStatus(o, "REFUNDING")
        /\ Goto(p, IF h[p].take > 0 THEN "deduct" ELSE "gateway")
     \/ /\ ~Executable(o) \/ Fails("order")
        /\ Return(p)
        /\ UNCHANGED status
  /\ UNCHANGED <<orderType, refundAmount, valueVars, gatewayVars, auditVars>>

\* Mutant: a failed rollback of an earlier attempt is forgotten.
DeductAlways(p) ==
  LET o == h[p].order IN
  /\ h[p].pc = "deduct" /\ o \notin Subs
  /\ balance' = balance - h[p].take
  /\ taken' = [taken EXCEPT ![o] = @ + h[p].take]
  /\ Goto(p, "gateway")
  /\ UNCHANGED <<orderVars, days, gatewayVars, auditVars>>

\* hasAuditLog takes a failing query for "no such row".
DeductBalance(p) ==
  LET o == h[p].order IN
  /\ h[p].pc = "deduct" /\ o \notin Subs
  /\ \/ /\ "REFUND_ROLLBACK_FAILED" \notin audit[o] \/ Fails("audit")
        /\ balance' = balance - h[p].take
        /\ taken' = [taken EXCEPT ![o] = @ + h[p].take]
        /\ Goto(p, "gateway")
     \/ /\ "REFUND_ROLLBACK_FAILED" \in audit[o]
        /\ h' = [h EXCEPT ![p].pc = "gateway", ![p].take = 0]
        /\ UNCHANGED <<balance, taken>>
     \/ /\ Fails("user")
        /\ Goto(p, "restore")
        /\ UNCHANGED <<balance, taken>>
  /\ UNCHANGED <<orderVars, days, gatewayVars, auditVars>>

\* A refund whose days could not be taken is abandoned; so is a finalisation.
Abandon(p) == IF h[p].op = "finalize" THEN Return(p) ELSE Goto(p, "restore")
Deducted(p) == Goto(p, IF h[p].op = "finalize" THEN "mark_ok" ELSE "gateway")

\* A deduction that would end the subscription revokes it instead.
DeductDays(p) ==
  LET o == h[p].order
      done == IF h[p].op = "finalize" THEN "REFUND_SUCCESS" ELSE "REFUND_ROLLBACK_FAILED" IN
  /\ h[p].pc \in {"deduct", "final_deduct"} /\ o \in Subs /\ h[p].take > 0
  /\ \/ /\ done \notin audit[o] \/ Fails("audit")
        /\ \/ ExtendSubscription(o, -h[p].take, "done") /\ Deducted(p)
           \/ ExtendSubscription(o, -h[p].take, "would_expire") /\ Goto(p, "revoke")
           \/ ExtendSubscription(o, -h[p].take, "failed") /\ Abandon(p)
     \/ /\ done \in audit[o]
        /\ h' = [h EXCEPT ![p].pc = IF h[p].op = "finalize" THEN "mark_ok" ELSE "gateway",
                          ![p].take = 0]
        /\ UNCHANGED <<days, taken>>
  /\ UNCHANGED <<orderVars, balance, gatewayVars, auditVars>>

RevokeInstead(p) ==
  /\ h[p].pc = "revoke"
  /\ \/ RevokeSubscription(h[p].order, "done") /\ Deducted(p)
     \/ RevokeSubscription(h[p].order, "failed") /\ Abandon(p)
  /\ UNCHANGED <<orderVars, balance, gatewayVars, auditVars>>

\* What the gateway does with a refund request: it executes it now or later
\* within what was paid, recognises the number of an earlier request, or refuses.
GatewayAnswers(o, amt, answer) ==
  \/ /\ answer = "success"
     /\ \/ /\ settled[o] + pending[o] + amt <= Amount
           /\ settled' = [settled EXCEPT ![o] = @ + amt]
        \/ settled[o] >= amt /\ UNCHANGED settled
     /\ UNCHANGED <<pending, ended>>
  \/ /\ answer = "pending"
     /\ Async
     /\ \/ /\ settled[o] + pending[o] + amt <= Amount
           /\ pending' = [pending EXCEPT ![o] = @ + amt]
        \/ pending[o] >= amt /\ UNCHANGED pending
     /\ UNCHANGED <<settled, ended>>
  \/ answer = "refused" /\ UNCHANGED gatewayVars

\* Mutant: the status in the gateway's answer is not looked at.
gwRefundUnchecked(p) ==
  LET o == h[p].order IN
  /\ h[p].pc = "gateway"
  /\ \E answer \in {"success", "pending", "refused"} : GatewayAnswers(o, h[p].amount, answer)
  /\ Goto(p, "mark_ok")
  /\ UNCHANGED <<orderVars, valueVars, auditVars>>

\* An error, lost answers included, is taken for a refusal.  An order without a
\* trade number is not sent to the gateway at all.
gwRefund(p) ==
  LET o == h[p].order IN
  /\ h[p].pc = "gateway"
  /\ \/ /\ o \in Untraced
        /\ Goto(p, "mark_ok")
        /\ UNCHANGED gatewayVars
     \/ /\ o \notin Untraced
        /\ \E answer \in {"success", "pending", "refused"} :
             /\ GatewayAnswers(o, h[p].amount, answer)
             /\ \/ answer = "success" /\ Goto(p, "mark_ok")
                \/ answer = "pending" /\ h' = [h EXCEPT ![p].pc = "rollback", ![p].ok = TRUE]
                \/ /\ answer = "refused" \/ Fails("gateway")
                   /\ h' = [h EXCEPT ![p].pc = "rollback", ![p].ok = FALSE]
  /\ UNCHANGED <<orderVars, valueVars, auditVars>>

\* Mutant: the balance is not given back, and nobody is told.
RollbackNothing(p) ==
  /\ h[p].pc = "rollback"
  /\ h' = [h EXCEPT ![p].pc = IF h[p].ok THEN "mark_pending" ELSE "restore", ![p].take = 0]
  /\ UNCHANGED <<orderVars, valueVars, gatewayVars, auditVars>>

\* Mutant: a pending refund keeps what it took.
RollbackUnlessPending(p) ==
  LET o == h[p].order
      back == IF h[p].ok THEN 0 ELSE h[p].take IN
  /\ h[p].pc = "rollback"
  /\ balance' = balance + back
  /\ taken' = [taken EXCEPT ![o] = @ - back]
  /\ h' = [h EXCEPT ![p].pc = IF h[p].ok THEN "mark_pending" ELSE "restore", ![p].take = 0]
  /\ UNCHANGED <<orderVars, days, gatewayVars, auditVars>>

\* RollbackRefund, for a refused refund (handleGwFail; ok = FALSE) and for a
\* pending one (markRefundPending; ok = TRUE).  take stays positive when what was
\* taken could not be given back, as a revoked subscription never can.
RollbackRefund(p) ==
  LET o == h[p].order
      n == h[p].take
      RolledBack == h' = [h EXCEPT ![p].pc = IF h[p].ok THEN "mark_pending" ELSE "restore",
                                   ![p].take = 0]
      NotRolledBack == /\ Log(o, "REFUND_ROLLBACK_FAILED")
                       /\ Goto(p, IF h[p].ok THEN "mark_pending" ELSE "mark_failed") IN
  /\ h[p].pc = "rollback"
  /\ \/ n <= 0 /\ RolledBack /\ UNCHANGED <<valueVars, audit>>
     \/ /\ n > 0 /\ o \notin Subs
        /\ balance' = balance + n
        /\ taken' = [taken EXCEPT ![o] = @ - n]
        /\ RolledBack
        /\ UNCHANGED <<days, audit>>
     \/ /\ n > 0 /\ o \notin Subs /\ Fails("user")
        /\ NotRolledBack
        /\ UNCHANGED valueVars
     \/ /\ n > 0 /\ o \in Subs
        /\ \/ ExtendSubscription(o, n, "done") /\ RolledBack /\ UNCHANGED audit
           \/ ExtendSubscription(o, n, "failed") /\ NotRolledBack
        /\ UNCHANGED balance
  /\ UNCHANGED <<orderVars, gatewayVars, pendingOK>>

\* An unconditional update, like every one below; its error is ignored.
restoreStatus(p) ==
  LET o == h[p].order IN
  /\ h[p].pc = "restore"
  /\ \/ SetStatus(o, IF h[p].from = "REFUND_REQUESTED" THEN "REFUND_REQUESTED" ELSE "COMPLETED")
     \/ Fails("order") /\ UNCHANGED status
  /\ Return(p)
  /\ UNCHANGED <<orderType, refundAmount, valueVars, gatewayVars, auditVars>>

handleGwFail(p) ==
  /\ h[p].pc = "mark_failed"
  /\ \/ SetStatus(h[p].order, "REFUND_FAILED")
     \/ Fails("order") /\ UNCHANGED status
  /\ Return(p)
  /\ UNCHANGED <<orderType, refundAmount, valueVars, gatewayVars, auditVars>>

markRefundPending(p) ==
  LET o == h[p].order IN
  /\ h[p].pc = "mark_pending"
  /\ \/ /\ SetStatus(o, "REFUND_PENDING")
        /\ refundAmount' = [refundAmount EXCEPT ![o] = h[p].amount]
        /\ UNCHANGED orderType
        /\ Goto(p, "note_pending")
     \/ /\ Fails("order")
        /\ Return(p)
        /\ UNCHANGED orderVars
  /\ UNCHANGED <<valueVars, gatewayVars, auditVars>>

\* Only the first REFUND_PENDING row of an order is kept.
LogRefundPending(p) ==
  LET o == h[p].order IN
  /\ h[p].pc = "note_pending"
  /\ \/ /\ "REFUND_PENDING" \notin audit[o]
        /\ audit' = [audit EXCEPT ![o] = @ \cup {"REFUND_PENDING"}]
        /\ pendingOK' = [pendingOK EXCEPT ![o] = (h[p].take <= 0)]
     \/ /\ "REFUND_PENDING" \in audit[o] \/ Fails("audit")
        /\ UNCHANGED auditVars
  /\ Return(p)
  /\ UNCHANGED <<orderVars, valueVars, gatewayVars>>

markRefundOk(p) ==
  LET o == h[p].order IN
  /\ h[p].pc = "mark_ok"
  /\ \/ /\ SetStatus(o, IF h[p].amount < Amount THEN "PARTIALLY_REFUNDED" ELSE "REFUNDED")
        /\ refundAmount' = [refundAmount EXCEPT ![o] = h[p].amount]
        /\ UNCHANGED orderType
        /\ Goto(p, "note_ok")
     \/ /\ Fails("order")
        /\ Return(p)
        /\ UNCHANGED orderVars
  /\ UNCHANGED <<valueVars, gatewayVars, auditVars>>

LogRefundSuccess(p) ==
  /\ h[p].pc = "note_ok"
  /\ Log(h[p].order, "REFUND_SUCCESS")
  /\ Return(p)
  /\ UNCHANGED <<orderVars, valueVars, gatewayVars, pendingOK>>

-------------------------------------------------------------------------------
(* QueryAndFinalizeRefund: the status is read once and never tested again.  *)

QueryAndFinalizeRefund(p, o) ==
  /\ "finalize" \in Ops /\ h[p].pc = "idle"
  /\ status[o] = "REFUND_PENDING"
  /\ h' = [h EXCEPT ![p] = [Idle EXCEPT !.pc = "query", !.op = "finalize",
                                        !.order = o, !.amount = refundAmount[o]]]
  /\ UNCHANGED <<orderVars, valueVars, gatewayVars, auditVars>>

\* latestRefundPendingDetail answers TRUE when there is no row or it cannot be read.
RollbackOK(o) == "REFUND_PENDING" \notin audit[o] \/ pendingOK[o]

\* Mutant: a refund that failed at the gateway counts as paid.
QueryRefundUnchecked(p) ==
  LET o == h[p].order IN
  /\ h[p].pc = "query"
  /\ \/ pending[o] > 0 /\ Return(p)
     \/ /\ pending[o] = 0
        /\ h' = [h EXCEPT ![p].pc = "final_deduct",
                          ![p].take = IF RollbackOK(o) THEN h[p].amount ELSE 0]
  /\ UNCHANGED <<orderVars, valueVars, gatewayVars, auditVars>>

\* A paid refund whose rollback succeeded is deducted again, the days of a
\* subscription order after a new plan.
QueryRefund(p) ==
  LET o == h[p].order
      deduct(ok) ==
        h' = [h EXCEPT ![p].pc = IF ok /\ o \in Subs THEN "plan" ELSE "final_deduct",
                       ![p].take = IF ok /\ o \notin Subs THEN h[p].amount ELSE 0] IN
  /\ h[p].pc = "query"
  /\ \/ pending[o] > 0 /\ Return(p)
     \/ /\ pending[o] = 0 /\ ended[o]
        /\ deduct(RollbackOK(o)) \/ (Fails("audit") /\ deduct(TRUE))
     \/ pending[o] = 0 /\ ~ended[o] /\ Goto(p, "final_failed")
     \/ Fails("gateway") /\ Return(p)
  /\ UNCHANGED <<orderVars, valueVars, gatewayVars, auditVars>>

\* For a balance, and for days when there are none to take; DeductDays is the rest.
applyRefundFinalDeduction(p) ==
  LET o == h[p].order IN
  /\ h[p].pc = "final_deduct" /\ (o \notin Subs \/ h[p].take = 0)
  /\ \/ /\ "REFUND_SUCCESS" \notin audit[o] \/ Fails("audit")
        /\ balance' = balance - h[p].take
        /\ taken' = [taken EXCEPT ![o] = @ + h[p].take]
        /\ Goto(p, "mark_ok")
     \/ /\ "REFUND_SUCCESS" \in audit[o]
        /\ h' = [h EXCEPT ![p].pc = "mark_ok", ![p].take = 0]
        /\ UNCHANGED <<balance, taken>>
     \/ /\ Fails("user") /\ h[p].take > 0
        /\ Return(p)
        /\ UNCHANGED <<balance, taken>>
  /\ UNCHANGED <<orderVars, days, gatewayVars, auditVars>>

finalizeRefundFailed(p) ==
  /\ h[p].pc = "final_failed"
  /\ \/ SetStatus(h[p].order, "REFUND_FAILED")
     \/ Fails("order") /\ UNCHANGED status
  /\ Return(p)
  /\ UNCHANGED <<orderType, refundAmount, valueVars, gatewayVars, auditVars>>

-------------------------------------------------------------------------------
Start(p) == \E o \in Orders :
  validateRefundRequest(p, o) \/ PrepareRefund(p, o) \/ QueryAndFinalizeRefund(p, o)

Refund(p) ==
  \/ RequestRefund(p) \/ prepDeduct(p) \/ ExecuteRefund(p) \/ DeductBalance(p)
  \/ DeductDays(p) \/ RevokeInstead(p) \/ gwRefund(p) \/ RollbackRefund(p) \/ restoreStatus(p) \/ handleGwFail(p)
  \/ markRefundPending(p) \/ LogRefundPending(p) \/ markRefundOk(p) \/ LogRefundSuccess(p)

Finalize(p) == QueryRefund(p) \/ applyRefundFinalDeduction(p) \/ finalizeRefundFailed(p)

Next ==
  \/ UserSpends
  \/ \E o \in Orders : PendingEnds(o) \/ SubscriptionAges(o)
  \/ \E p \in Procs : Start(p) \/ Refund(p) \/ Finalize(p) \/ Crash(p)

Spec == Init /\ [][Next]_vars

-------------------------------------------------------------------------------
(* Properties.                                                              *)

\* Every column, amount and local variable has one of its values.
TypeOK ==
  /\ orderType \in [Orders -> Types]
  /\ status \in [Orders -> Statuses]
  /\ refundAmount \in [Orders -> 0 .. Amount]
  /\ balance \in Int
  /\ days \in [Orders -> Nat \cup {Revoked}]
  /\ taken \in [Orders -> Int]
  /\ settled \in [Orders -> 0 .. Amount]
  /\ pending \in [Orders -> 0 .. Amount]
  /\ ended \in [Orders -> BOOLEAN]
  /\ audit \in [Orders -> SUBSET {"REFUND_ROLLBACK_FAILED", "REFUND_PENDING", "REFUND_SUCCESS"}]
  /\ pendingOK \in [Orders -> BOOLEAN]
  /\ h \in [Procs -> Handlers]

\* REFUNDING is a lock: two administrators who press "refund" together never
\* both get as far as taking balance or days or calling the gateway.
SingleRefunder ==
  \A p, q \in Procs, o \in Orders : Holds(p, o) /\ Holds(q, o) => p = q

\* An order is only called refunded when the gateway paid the amount back.
RefundedIsSettled ==
  \A o \in Orders \ Untraced : status[o] \in Final => settled[o] >= refundAmount[o]

\* "Skip balance deduction on retry if previous attempt already deducted but
\* failed to roll back" (ExecuteRefund): the refunds of an order never take more
\* balance or days than the order credited.
NoDoubleDeduction == \A o \in Orders : taken[o] <= Amount

\* With no handler at work on the order, balance or days that were taken for a
\* refund that did not go through have been given back, or the failure to do so is
\* on record, as it must be for every revoked subscription.
FailedTakesNothing ==
  \A o \in Orders :
    Quiet(o) /\ status[o] \in {"COMPLETED", "REFUND_REQUESTED", "REFUND_PENDING"}
      => taken[o] = 0 \/ "REFUND_ROLLBACK_FAILED" \in audit[o]

\* A refunded order stays refunded.
RefundedStays ==
  [][\A o \in Orders : status[o] \in Final => status'[o] = status[o]]_vars

-------------------------------------------------------------------------------
(* The invariant behind the properties, and when it holds.                  *)

\* A finalisation never meets another handler.
Serial == "finalize" \notin Ops \/ \A p, q \in Procs : p = q

\* The audit log can be written and read, a failing call changes no subscription,
\* and a finalisation is not cut short between the deduction and the new status.
Trusted ==
  /\ Serial
  /\ Faults \cap {"audit", "after"} = {}
  /\ "finalize" \in Ops => Faults \subseteq {"gateway"}

\* The handler goes by the status it set or read.
Busy(p) == h[p].pc \in HeldCalls \/ (h[p].op = "finalize" /\ h[p].pc # "note_ok")

\* Which operation makes which call.
HandlerInv ==
  \A p \in Procs :
    /\ h[p].op = "finalize" =>
         /\ "finalize" \in Ops
         /\ h[p].pc \in {"query", "plan", "final_deduct", "revoke", "mark_ok",
                         "final_failed", "note_ok"}
    /\ h[p].pc \in {"query", "final_deduct", "final_failed"} => h[p].op = "finalize"
    /\ h[p].pc \in {"plan", "revoke"} /\ h[p].op = "finalize" => h[p].order \in Subs

\* One handler is busy with an order, and the status is still the one it goes by.
LockInv ==
  /\ \A p, q \in Procs :
       Busy(p) /\ Busy(q) /\ h[p].order = h[q].order => p = q
  /\ \A p \in Procs :
       Busy(p) => status[h[p].order] =
                    IF h[p].op = "finalize" THEN "REFUND_PENDING" ELSE "REFUNDING"

\* A pending refund of amt is still under way, or has ended and, if paid, brought amt.
Promised(o, amt) ==
  pending[o] >= amt \/ (pending[o] = 0 /\ (ended[o] => settled[o] >= amt))

\* What the order, or a handler, says of the gateway is so.
OrderPaid(o) ==
  /\ settled[o] + pending[o] <= Amount
  /\ status[o] = "REFUND_PENDING" => Promised(o, refundAmount[o])
  /\ status[o] \in Final /\ o \notin Untraced => settled[o] >= refundAmount[o]

HandlerPaid(p) ==
  LET o == h[p].order IN
  /\ h[p].pc = "mark_pending" \/ (h[p].pc = "rollback" /\ h[p].ok)
       => Promised(o, h[p].amount)
  /\ h[p].op = "finalize" /\ Busy(p) => h[p].amount = refundAmount[o]
  /\ h[p].op = "finalize" /\ h[p].pc \in {"plan", "final_deduct", "revoke"}
       => settled[o] >= h[p].amount
  /\ h[p].pc = "mark_ok" /\ o \notin Untraced => settled[o] >= h[p].amount

GatewayInv == (\A o \in Orders : OrderPaid(o)) /\ (\A p \in Procs : HandlerPaid(p))

RollbackFailed(o) == "REFUND_ROLLBACK_FAILED" \in audit[o]

\* Nothing is taken, or what is will not be taken again.
Clean(o) == taken[o] = 0 \/ RollbackFailed(o)

\* What nobody is busy with is clean.  Where orders are finalised, only a revoked
\* subscription makes a rollback fail.
OrderTaken(o) ==
  /\ taken[o] <= Amount
  /\ status[o] \in Refundable /\ (\A p \in Procs : Busy(p) => h[p].order # o) => Clean(o)
  /\ "finalize" \in Ops /\ RollbackFailed(o) => o \in Subs /\ days[o] = Revoked

\* What was taken is what the busy handler would give back, unless it was the rest
\* of a revoked subscription.
HandlerTaken(p) ==
  LET o == h[p].order IN
  /\ h[p].take <= Amount
  /\ h[p].op = "finalize" => h[p].take >= 0
  /\ h[p].pc = "deduct" => h[p].take > 0
  /\ h[p].pc = "revoke" =>
       o \in Subs /\ taken[o] = 0 /\ days[o] <= Amount /\ h[p].take > 0
  /\ Busy(p) /\ h[p].pc \notin {"gateway", "rollback", "mark_ok"} => Clean(o)
  /\ h[p].pc \in {"gateway", "rollback"} =>
       IF h[p].take > 0
       THEN taken[o] = h[p].take \/ (o \in Subs /\ days[o] = Revoked)
       ELSE Clean(o)

DeductionInv == (\A o \in Orders : OrderTaken(o)) /\ (\A p \in Procs : HandlerTaken(p))

\* Inductive where Trusted: types, lock, gateway, and what was taken.
RefundInv == TypeOK /\ HandlerInv /\ LockInv /\ GatewayInv /\ DeductionInv
===============================================================================
