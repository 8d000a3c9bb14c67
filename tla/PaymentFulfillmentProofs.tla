----------------------- MODULE PaymentFulfillmentProofs -----------------------
(* Proofs about PaymentFulfillment, for every number of orders and handlers, *)
(* every selection of operations and every selection of faults.              *)
EXTENDS PaymentFulfillment, TLAPS

-------------------------------------------------------------------------------
(* Type correctness.                                                        *)

\* The initial state is well typed: there is an order for the idle handlers' job.
LEMMA TypeInit == Init => TypeOK
  BY OrdersAssumption DEF Init, TypeOK, Statuses, Calls, AllOps

\* A returning handler leaves the program counters and the gateway's record of
\* its answers well typed.
LEMMA ReturnType ==
  ASSUME TypeOK, NEW p \in Procs, NEW ok \in BOOLEAN, Return(p, ok)
  PROVE  pc' \in [Procs -> Calls] /\ acked' \in [Orders -> BOOLEAN] /\ gateway' = gateway
<1> USE DEF TypeOK, Return
<1>1. pc' \in [Procs -> Calls]
  BY DEF Goto, Calls, FulfillCalls, RedeemCalls
<1>2. acked' \in [Orders -> BOOLEAN]
  <2>1. (acked[job[p]] \/ (ok /\ op[p] = "webhook")) \in BOOLEAN
    OBVIOUS
  <2> QED
    BY <2>1, Zenon
<1> QED
  BY <1>1, <1>2

\* Every step of every handler keeps the columns and counters in their types.
LEMMA TypeStep == TypeOK /\ [Next]_vars => TypeOK'
<1> SUFFICES ASSUME TypeOK, [Next]_vars PROVE TypeOK'
  OBVIOUS
<1> USE DEF TypeOK
<1>1. ASSUME NEW p \in Procs, PersistTradeNo(p) PROVE TypeOK'
  <2> USE <1>1 DEF PersistTradeNo
  <2>1. pc' \in [Procs -> Calls]
    BY DEF Goto, Calls, FulfillCalls, RedeemCalls
  <2>2. tradeNo' \in [Orders -> BOOLEAN]
    OBVIOUS
  <2>3. age' \in [Orders -> {"recent", "old", "renewed"}]
    BY DEF Touch
  <2> QED
    BY <2>1, <2>2, <2>3 DEF orderVars, gatewayVars, redeemVars, grantVars, procVars
<1>2. ASSUME NEW p \in Procs, confirmPayment(p) PROVE TypeOK'
  <2> USE <1>2 DEF confirmPayment
  <2>1. pc' \in [Procs -> Calls] /\ acked' \in [Orders -> BOOLEAN] /\ gateway' = gateway
    <3>1. \/ Return(p, FALSE)
          \/ Return(p, TRUE)
          \/ Goto(p, "check") /\ UNCHANGED gatewayVars
          \/ Goto(p, "already") /\ UNCHANGED gatewayVars
      OBVIOUS
    <3> HIDE <1>2 DEF confirmPayment
    <3> QED
      BY <3>1, ReturnType DEF Goto, Calls, FulfillCalls, RedeemCalls, gatewayVars
  <2>2. status' \in [Orders -> Statuses]
    BY DEF SetStatus, Statuses
  <2>3. paidAt' \in [Orders -> BOOLEAN]
    OBVIOUS
  <2>4. tradeNo' \in [Orders -> BOOLEAN]
    OBVIOUS
  <2> QED
    BY <2>1, <2>2, <2>3, <2>4 DEF orderVars, gatewayVars, redeemVars, grantVars, procVars
<1>3. ASSUME NEW p \in Procs, alreadyProcessed(p) PROVE TypeOK'
  <2> USE <1>3 DEF alreadyProcessed
  <2>1. pc' \in [Procs -> Calls] /\ acked' \in [Orders -> BOOLEAN] /\ gateway' = gateway
    BY ReturnType DEF Goto, Calls, FulfillCalls, RedeemCalls, gatewayVars
  <2> QED
    BY <2>1 DEF orderVars, gatewayVars, redeemVars, grantVars, procVars
<1>4. ASSUME NEW p \in Procs, executeFulfillment(p) PROVE TypeOK'
  <2> USE <1>4 DEF executeFulfillment
  <2>1. pc' \in [Procs -> Calls] /\ acked' \in [Orders -> BOOLEAN] /\ gateway' = gateway
    <3>1. \/ Return(p, FALSE)
          \/ Return(p, TRUE)
          \/ Goto(p, "take") /\ UNCHANGED gatewayVars
      BY DEF gatewayVars
    <3> HIDE <1>4 DEF executeFulfillment
    <3> QED
      BY <3>1, ReturnType DEF Goto, Calls, FulfillCalls, RedeemCalls, gatewayVars
  <2> QED
    BY <2>1 DEF orderVars, gatewayVars, redeemVars, grantVars, procVars
<1>5. ASSUME NEW p \in Procs, TakeRecharging(p) PROVE TypeOK'
  <2> USE <1>5 DEF TakeRecharging
  <2>1. pc' \in [Procs -> Calls] /\ acked' \in [Orders -> BOOLEAN] /\ gateway' = gateway
    BY ReturnType DEF Goto, Calls, FulfillCalls, RedeemCalls, gatewayVars
  <2>2. status' \in [Orders -> Statuses]
    BY DEF SetStatus, Statuses
  <2> QED
    BY <2>1, <2>2 DEF orderVars, gatewayVars, redeemVars, grantVars, procVars
<1>6. ASSUME NEW p \in Procs, markCompleted(p) PROVE TypeOK'
  <2> DEFINE o == job[p]
  <2>1. pc' \in [Procs -> Calls] /\ acked' \in [Orders -> BOOLEAN] /\ gateway' = gateway
    BY <1>6, ReturnType DEF markCompleted, Goto, Calls, FulfillCalls, RedeemCalls, gatewayVars
  <2>2. \/ status' = [status EXCEPT ![o] = IF @ = "RECHARGING" THEN "COMPLETED" ELSE @]
        \/ status' = status
    BY <1>6 DEF markCompleted
  <2>3. \/ audit' = [audit EXCEPT ![o] = IF o \in Subs THEN @ \cup {"SUBSCRIPTION_SUCCESS"} ELSE @]
        \/ audit' = audit
    BY <1>6 DEF markCompleted
  <2>4. status' \in [Orders -> Statuses]
    BY <2>2 DEF Statuses
  <2>5. audit' \in [Orders -> SUBSET Actions]
    BY <2>3 DEF Actions
  <2> QED
    BY <1>6, <2>1, <2>4, <2>5
    DEF markCompleted, orderVars, gatewayVars, redeemVars, grantVars, procVars
<1>7. ASSUME NEW p \in Procs, markFailed(p) PROVE TypeOK'
  <2> USE <1>7 DEF markFailed
  <2>1. pc' \in [Procs -> Calls] /\ acked' \in [Orders -> BOOLEAN] /\ gateway' = gateway
    BY ReturnType DEF Goto, Calls, FulfillCalls, RedeemCalls, gatewayVars
  <2>2. status' \in [Orders -> Statuses]
    BY DEF Statuses
  <2> QED
    BY <2>1, <2>2 DEF orderVars, gatewayVars, redeemVars, grantVars, procVars
<1>8. ASSUME NEW p \in Procs, CheckCode(p) PROVE TypeOK'
  <2> USE <1>8 DEF CheckCode
  <2>1. pc' \in [Procs -> Calls]
    BY DEF Goto, Calls, FulfillCalls, RedeemCalls
  <2>2. flag' \in [Procs -> BOOLEAN]
    OBVIOUS
  <2> QED
    BY <2>1, <2>2 DEF orderVars, gatewayVars, redeemVars, grantVars, procVars
<1>9. ASSUME NEW p \in Procs, Use(p) PROVE TypeOK'
  <2> USE <1>9 DEF Use
  <2>1. pc' \in [Procs -> Calls]
    BY DEF Goto, Calls, FulfillCalls, RedeemCalls
  <2>2. code' \in [Orders -> {"absent", "unused", "used"}]
    OBVIOUS
  <2>3. credited' \in [Orders -> Nat]
    OBVIOUS
  <2>4. redeemRebate' \in [Orders -> Nat]
    OBVIOUS
  <2>5. flag' \in [Procs -> BOOLEAN]
    OBVIOUS
  <2> QED
    BY <2>1, <2>2, <2>3, <2>4, <2>5 DEF orderVars, gatewayVars, redeemVars, grantVars, procVars
<1> USE DEF Statuses, Actions, AllOps, Calls, FulfillCalls, RedeemCalls, Goto, Begin,
            SetStatus, Touch, orderVars, gatewayVars, redeemVars, grantVars, procVars
<1>10. ASSUME NEW o \in Orders, UserPays(o) PROVE TypeOK'
  BY <1>10 DEF UserPays
<1>11. ASSUME NEW o \in Orders, GraceLapses(o) PROVE TypeOK'
  BY <1>11 DEF GraceLapses
<1>12. ASSUME NEW o \in Orders, LockExpires(o) PROVE TypeOK'
  BY <1>12 DEF LockExpires
<1>13. ASSUME NEW p \in Procs, checkPendingLimit(p) PROVE TypeOK'
  BY <1>13 DEF checkPendingLimit
<1>14. ASSUME NEW p \in Procs, NEW o \in Orders, CancelOrder(p, o) PROVE TypeOK'
  BY <1>14 DEF CancelOrder
<1>15. ASSUME NEW p \in Procs, NEW o \in Orders, ExpireTimedOutOrders(p, o) PROVE TypeOK'
  BY <1>15 DEF ExpireTimedOutOrders
<1>16. ASSUME NEW p \in Procs, NEW o \in Orders, VerifyOrderByOutTradeNo(p, o) PROVE TypeOK'
  BY <1>16 DEF VerifyOrderByOutTradeNo
<1>17. ASSUME NEW p \in Procs, NEW o \in Orders, HandlePaymentNotification(p, o) PROVE TypeOK'
  BY <1>17 DEF HandlePaymentNotification
<1>18. ASSUME NEW p \in Procs, NEW o \in Orders, RetryFulfillment(p, o) PROVE TypeOK'
  BY <1>18 DEF RetryFulfillment
<1>19. ASSUME NEW p \in Procs, NEW o \in Orders, Redeem(p, o) PROVE TypeOK'
  BY <1>19 DEF Redeem
<1>20. ASSUME NEW p \in Procs, createOrderInTx(p) PROVE TypeOK'
  <2> USE <1>20 DEF createOrderInTx
  <2>1. pc' \in [Procs -> Calls]
    OBVIOUS
  <2>2. status' \in [Orders -> Statuses]
    OBVIOUS
  <2>3. job' \in [Procs -> Orders]
    OBVIOUS
  <2> QED
    BY <2>1, <2>2, <2>3
<1>21. ASSUME NEW p \in Procs, invokeProvider(p) PROVE TypeOK'
  <2> USE <1>21 DEF invokeProvider
  <2>1. pc' \in [Procs -> Calls] /\ status' \in [Orders -> Statuses]
    OBVIOUS
  <2>2. age' \in [Orders -> {"recent", "old", "renewed"}]
    <3>1. Touch(job[p]) \/ age' = age
      OBVIOUS
    <3> QED
      BY <3>1 DEF Touch
  <2>3. gateway' \in [Orders -> {"none", "open", "closed", "paid", "mismatch"}]
    OBVIOUS
  <2>4. tradeNo' \in [Orders -> BOOLEAN]
    OBVIOUS
  <2> QED
    BY <2>1, <2>2, <2>3, <2>4
<1>22. ASSUME NEW p \in Procs, checkPaid(p) PROVE TypeOK'
  BY <1>22 DEF checkPaid, NotPaid
<1>23. ASSUME NEW p \in Procs, CancelPayment(p) PROVE TypeOK'
  BY <1>23 DEF CancelPayment
<1>24. ASSUME NEW p \in Procs, cancelCore(p) PROVE TypeOK'
  BY <1>24 DEF cancelCore
<1>25. ASSUME NEW p \in Procs, ResetForRetry(p) PROVE TypeOK'
  BY <1>25 DEF ResetForRetry
<1>26. ASSUME NEW p \in Procs, resolveRedeemAction(p) PROVE TypeOK'
  BY <1>26 DEF resolveRedeemAction
<1>27. ASSUME NEW p \in Procs, CreateCode(p) PROVE TypeOK'
  BY <1>27 DEF CreateCode
<1>28. ASSUME NEW p \in Procs, acquireRedeemLock(p) PROVE TypeOK'
  BY <1>28 DEF acquireRedeemLock, RedeemFails
<1>29. ASSUME NEW p \in Procs, releaseRedeemLock(p) PROVE TypeOK'
  BY <1>29 DEF releaseRedeemLock, RedeemFails
<1>30. ASSUME NEW p \in Procs, applyAffiliateRebateForOrder(p) PROVE TypeOK'
  BY <1>30 DEF applyAffiliateRebateForOrder
<1>31. ASSUME NEW p \in Procs, doSub(p) PROVE TypeOK'
  BY <1>31 DEF doSub, AddDays, MarkUnrecorded
<1>32. ASSUME NEW p \in Procs, writeAuditAssigned(p) PROVE TypeOK'
  BY <1>32 DEF writeAuditAssigned, MarkUnrecorded
<1>33. ASSUME NEW p \in Procs, Crash(p) PROVE TypeOK'
  BY <1>33 DEF Crash
<1>34. ASSUME UNCHANGED vars PROVE TypeOK'
  BY <1>34 DEF vars
<1> QED
  BY <1>1, <1>2, <1>3, <1>4, <1>5, <1>6, <1>7, <1>8, <1>9, <1>10, <1>11,
     <1>12, <1>13, <1>14, <1>15, <1>16, <1>17, <1>18, <1>19, <1>20, <1>21,
     <1>22, <1>23, <1>24, <1>25, <1>26, <1>27, <1>28, <1>29, <1>30, <1>31,
     <1>32, <1>33, <1>34
  DEF Next, Environment, Start, Order, Fulfill

-------------------------------------------------------------------------------
(* The inductive invariant.  Each lemma shows one conjunct kept by every step, *)
(* from all of them: the order of RECHARGING handlers rests on what was paid,   *)
(* and what was delivered on who holds the order.                               *)

\* Nothing runs and nothing was paid at the start.
LEMMA InvInit == Init => IInv
<1> SUFFICES ASSUME Init PROVE IInv
  OBVIOUS
<1>1. TypeOK
  BY TypeInit
<1>2. LockInv
  BY DEF Init, LockInv, SingleFulfiller, HeldIsRecharging, RedeemCallsOnly, Fulfilling,
         FulfillCalls, RedeemCalls
<1>3. PaidInv
  BY <1>1 DEF Init, TypeOK, PaidInv, OrdersPaid, CallsPaid, OneCreator
<1>4. DeliveryInv
  BY <1>1 DEF Init, TypeOK, DeliveryInv, CreditedOnce, CompletedIsDelivered, AuditIsTrue,
              CallsPrepared, AssignedInAudit, RedeemCalls
<1>5. RebateInv
  BY DEF Init, RebateInv
<1> QED
  BY <1>1, <1>2, <1>3, <1>4, <1>5 DEF IInv

\* RECHARGING keeps working as a lock: only TakeRecharging's compare-and-set gives
\* an order to a handler, and only its holder moves it out of RECHARGING.
LEMMA LockStep == IInv /\ [Next]_vars => LockInv'
<1> SUFFICES ASSUME IInv, [Next]_vars PROVE LockInv'
  OBVIOUS
<1> USE DEF IInv, TypeOK, LockInv, PaidInv, SingleFulfiller, HeldIsRecharging,
            RedeemCallsOnly, CallsPaid, Fulfilling, FulfillCalls, RedeemCalls,
            Goto, Return, Begin, SetStatus, Touch, orderVars, gatewayVars,
            redeemVars, grantVars, procVars
<1>1. ASSUME NEW o \in Orders, UserPays(o) PROVE LockInv'
  BY <1>1 DEF UserPays
<1>2. ASSUME NEW o \in Orders, GraceLapses(o) PROVE LockInv'
  BY <1>2 DEF GraceLapses
<1>3. ASSUME NEW o \in Orders, LockExpires(o) PROVE LockInv'
  BY <1>3 DEF LockExpires
<1>4. ASSUME NEW p \in Procs, NEW o \in Orders, CancelOrder(p, o) PROVE LockInv'
  BY <1>4 DEF CancelOrder
<1>5. ASSUME NEW p \in Procs, NEW o \in Orders, ExpireTimedOutOrders(p, o) PROVE LockInv'
  BY <1>5 DEF ExpireTimedOutOrders
<1>6. ASSUME NEW p \in Procs, NEW o \in Orders, VerifyOrderByOutTradeNo(p, o) PROVE LockInv'
  BY <1>6 DEF VerifyOrderByOutTradeNo
<1>7. ASSUME NEW p \in Procs, NEW o \in Orders, HandlePaymentNotification(p, o) PROVE LockInv'
  BY <1>7 DEF HandlePaymentNotification
<1>8. ASSUME NEW p \in Procs, NEW o \in Orders, RetryFulfillment(p, o) PROVE LockInv'
  BY <1>8 DEF RetryFulfillment
<1>9. ASSUME NEW p \in Procs, NEW o \in Orders, Redeem(p, o) PROVE LockInv'
  BY <1>9 DEF Redeem
<1>10. ASSUME NEW p \in Procs, checkPendingLimit(p) PROVE LockInv'
  BY <1>10 DEF checkPendingLimit
<1>11. ASSUME NEW p \in Procs, createOrderInTx(p) PROVE LockInv'
  BY <1>11 DEF createOrderInTx
<1>12. ASSUME NEW p \in Procs, invokeProvider(p) PROVE LockInv'
  <2> USE <1>12 DEF invokeProvider
  <2>1. SingleFulfiller'
    OBVIOUS
  <2>2. HeldIsRecharging'
    OBVIOUS
  <2>3. RedeemCallsOnly'
    OBVIOUS
  <2> QED
    BY <2>1, <2>2, <2>3
<1>13. ASSUME NEW p \in Procs, checkPaid(p) PROVE LockInv'
  <2> USE <1>13 DEF checkPaid, NotPaid
  <2>1. SingleFulfiller'
    OBVIOUS
  <2>2. HeldIsRecharging'
    OBVIOUS
  <2>3. RedeemCallsOnly'
    OBVIOUS
  <2> QED
    BY <2>1, <2>2, <2>3
<1>14. ASSUME NEW p \in Procs, PersistTradeNo(p) PROVE LockInv'
  BY <1>14 DEF PersistTradeNo
<1>15. ASSUME NEW p \in Procs, CancelPayment(p) PROVE LockInv'
  BY <1>15 DEF CancelPayment
<1>16. ASSUME NEW p \in Procs, cancelCore(p) PROVE LockInv'
  BY <1>16 DEF cancelCore
<1>17. ASSUME NEW p \in Procs, confirmPayment(p) PROVE LockInv'
  <2> USE <1>17 DEF confirmPayment, Payable
  <2>1. SingleFulfiller'
    OBVIOUS
  <2>2. HeldIsRecharging'
    OBVIOUS
  <2>3. RedeemCallsOnly'
    OBVIOUS
  <2> QED
    BY <2>1, <2>2, <2>3
<1>18. ASSUME NEW p \in Procs, alreadyProcessed(p) PROVE LockInv'
  <2> USE <1>18 DEF alreadyProcessed
  <2>1. SingleFulfiller'
    OBVIOUS
  <2>2. HeldIsRecharging'
    OBVIOUS
  <2>3. RedeemCallsOnly'
    OBVIOUS
  <2> QED
    BY <2>1, <2>2, <2>3
<1>19. ASSUME NEW p \in Procs, ResetForRetry(p) PROVE LockInv'
  <2> USE <1>19 DEF ResetForRetry
  <2>1. SingleFulfiller'
    OBVIOUS
  <2>2. HeldIsRecharging'
    OBVIOUS
  <2>3. RedeemCallsOnly'
    OBVIOUS
  <2> QED
    BY <2>1, <2>2, <2>3
<1>20. ASSUME NEW p \in Procs, executeFulfillment(p) PROVE LockInv'
  <2> USE <1>20 DEF executeFulfillment
  <2>1. SingleFulfiller'
    OBVIOUS
  <2>2. HeldIsRecharging'
    OBVIOUS
  <2>3. RedeemCallsOnly'
    OBVIOUS
  <2> QED
    BY <2>1, <2>2, <2>3
<1>21. ASSUME NEW p \in Procs, TakeRecharging(p) PROVE LockInv'
  <2> USE <1>21 DEF TakeRecharging, Takeable
  <2>1. SingleFulfiller'
    OBVIOUS
  <2>2. HeldIsRecharging'
    OBVIOUS
  <2>3. RedeemCallsOnly'
    OBVIOUS
  <2> QED
    BY <2>1, <2>2, <2>3
<1>22. ASSUME NEW p \in Procs, markCompleted(p) PROVE LockInv'
  <2> USE <1>22 DEF markCompleted
  <2>1. SingleFulfiller'
    OBVIOUS
  <2>2. HeldIsRecharging'
    OBVIOUS
  <2>3. RedeemCallsOnly'
    OBVIOUS
  <2> QED
    BY <2>1, <2>2, <2>3
<1>23. ASSUME NEW p \in Procs, markFailed(p) PROVE LockInv'
  BY <1>23 DEF markFailed
<1>24. ASSUME NEW p \in Procs, resolveRedeemAction(p) PROVE LockInv'
  BY <1>24 DEF resolveRedeemAction
<1>25. ASSUME NEW p \in Procs, CreateCode(p) PROVE LockInv'
  <2> USE <1>25 DEF CreateCode
  <2>1. SingleFulfiller'
    OBVIOUS
  <2>2. HeldIsRecharging'
    OBVIOUS
  <2>3. RedeemCallsOnly'
    OBVIOUS
  <2> QED
    BY <2>1, <2>2, <2>3
<1>26. ASSUME NEW p \in Procs, acquireRedeemLock(p) PROVE LockInv'
  <2> USE <1>26 DEF acquireRedeemLock, RedeemFails
  <2>1. SingleFulfiller'
    OBVIOUS
  <2>2. HeldIsRecharging'
    OBVIOUS
  <2>3. RedeemCallsOnly'
    OBVIOUS
  <2> QED
    BY <2>1, <2>2, <2>3
<1>27. ASSUME NEW p \in Procs, CheckCode(p) PROVE LockInv'
  <2> USE <1>27 DEF CheckCode
  <2>1. SingleFulfiller'
    OBVIOUS
  <2>2. HeldIsRecharging'
    OBVIOUS
  <2>3. RedeemCallsOnly'
    OBVIOUS
  <2> QED
    BY <2>1, <2>2, <2>3
<1>28. ASSUME NEW p \in Procs, Use(p) PROVE LockInv'
  <2> USE <1>28 DEF Use
  <2>1. SingleFulfiller'
    OBVIOUS
  <2>2. HeldIsRecharging'
    OBVIOUS
  <2>3. RedeemCallsOnly'
    OBVIOUS
  <2> QED
    BY <2>1, <2>2, <2>3
<1>29. ASSUME NEW p \in Procs, releaseRedeemLock(p) PROVE LockInv'
  <2> USE <1>29 DEF releaseRedeemLock, RedeemFails
  <2>1. SingleFulfiller'
    OBVIOUS
  <2>2. HeldIsRecharging'
    OBVIOUS
  <2>3. RedeemCallsOnly'
    OBVIOUS
  <2> QED
    BY <2>1, <2>2, <2>3
<1>30. ASSUME NEW p \in Procs, applyAffiliateRebateForOrder(p) PROVE LockInv'
  <2> USE <1>30 DEF applyAffiliateRebateForOrder
  <2>1. SingleFulfiller'
    OBVIOUS
  <2>2. HeldIsRecharging'
    OBVIOUS
  <2>3. RedeemCallsOnly'
    OBVIOUS
  <2> QED
    BY <2>1, <2>2, <2>3
<1>31. ASSUME NEW p \in Procs, doSub(p) PROVE LockInv'
  <2> USE <1>31 DEF doSub, AddDays, MarkUnrecorded
  <2>1. SingleFulfiller'
    OBVIOUS
  <2>2. HeldIsRecharging'
    OBVIOUS
  <2>3. RedeemCallsOnly'
    OBVIOUS
  <2> QED
    BY <2>1, <2>2, <2>3
<1>32. ASSUME NEW p \in Procs, writeAuditAssigned(p) PROVE LockInv'
  BY <1>32 DEF writeAuditAssigned, MarkUnrecorded
<1>33. ASSUME NEW p \in Procs, Crash(p) PROVE LockInv'
  BY <1>33 DEF Crash
<1>34. ASSUME UNCHANGED vars PROVE LockInv'
  BY <1>34 DEF vars
<1> HIDE DEF IInv, TypeOK, LockInv, PaidInv, SingleFulfiller, HeldIsRecharging,
            RedeemCallsOnly, CallsPaid, Fulfilling, FulfillCalls, RedeemCalls,
            Goto, Return, Begin, SetStatus, Touch, orderVars, gatewayVars,
            redeemVars, grantVars, procVars
<1> QED
  BY <1>1, <1>2, <1>3, <1>4, <1>5, <1>6, <1>7, <1>8, <1>9, <1>10, <1>11,
     <1>12, <1>13, <1>14, <1>15, <1>16, <1>17, <1>18, <1>19, <1>20, <1>21,
     <1>22, <1>23, <1>24, <1>25, <1>26, <1>27, <1>28, <1>29, <1>30, <1>31,
     <1>32, <1>33, <1>34
  DEF Next, Environment, Start, Order, Fulfill

\* What is known of an order's payment survives every step; a refused creation
\* can only fail an order that nobody could have paid.
LEMMA PaidStep == IInv /\ [Next]_vars => PaidInv'
<1> SUFFICES ASSUME IInv, [Next]_vars PROVE PaidInv'
  OBVIOUS
<1> USE DEF IInv, TypeOK, LockInv, PaidInv, DeliveryInv, CreditedOnce,
            CompletedIsDelivered, Delivered, AssignedInAudit, SingleFulfiller,
            HeldIsRecharging, RedeemCallsOnly, OrdersPaid, CallsPaid,
            OneCreator, AuditIsTrue, CallsPrepared, Fulfilling, FulfillCalls,
            RedeemCalls, Goto, Return, Begin, SetStatus, Touch, orderVars,
            gatewayVars, redeemVars, grantVars, procVars
<1>1. ASSUME NEW o \in Orders, UserPays(o) PROVE PaidInv'
  BY <1>1 DEF UserPays
<1>2. ASSUME NEW o \in Orders, GraceLapses(o) PROVE PaidInv'
  BY <1>2 DEF GraceLapses
<1>3. ASSUME NEW o \in Orders, LockExpires(o) PROVE PaidInv'
  BY <1>3 DEF LockExpires
<1>4. ASSUME NEW p \in Procs, NEW o \in Orders, CancelOrder(p, o) PROVE PaidInv'
  BY <1>4 DEF CancelOrder
<1>5. ASSUME NEW p \in Procs, NEW o \in Orders, ExpireTimedOutOrders(p, o) PROVE PaidInv'
  BY <1>5 DEF ExpireTimedOutOrders
<1>6. ASSUME NEW p \in Procs, NEW o \in Orders, VerifyOrderByOutTradeNo(p, o) PROVE PaidInv'
  BY <1>6 DEF VerifyOrderByOutTradeNo
<1>7. ASSUME NEW p \in Procs, NEW o \in Orders, HandlePaymentNotification(p, o) PROVE PaidInv'
  BY <1>7 DEF HandlePaymentNotification
<1>8. ASSUME NEW p \in Procs, NEW o \in Orders, RetryFulfillment(p, o) PROVE PaidInv'
  BY <1>8 DEF RetryFulfillment
<1>9. ASSUME NEW p \in Procs, NEW o \in Orders, Redeem(p, o) PROVE PaidInv'
  BY <1>9 DEF Redeem
<1>10. ASSUME NEW p \in Procs, checkPendingLimit(p) PROVE PaidInv'
  BY <1>10 DEF checkPendingLimit
<1>11. ASSUME NEW p \in Procs, createOrderInTx(p) PROVE PaidInv'
  <2> USE <1>11 DEF createOrderInTx
  <2>1. OrdersPaid'
    OBVIOUS
  <2>2. CallsPaid'
    OBVIOUS
  <2>3. OneCreator'
    OBVIOUS
  <2> QED
    BY <2>1, <2>2, <2>3
<1>12. ASSUME NEW p \in Procs, invokeProvider(p) PROVE PaidInv'
  <2> USE <1>12 DEF invokeProvider
  <2>1. OrdersPaid'
    <3>1. gateway[job[p]] = "none" /\ status[job[p]] \in {"PENDING", "CANCELLED", "EXPIRED"}
      OBVIOUS
    <3>2. UNCHANGED <<paidAt, code, assigned>>
      OBVIOUS
    <3>3. \/ gateway' = [gateway EXCEPT ![job[p]] = "open"] /\ status' = status
          \/ status' = [status EXCEPT ![job[p]] = "FAILED"] /\ gateway' = gateway
          \/ UNCHANGED <<status, gateway>>
      OBVIOUS
    <3> HIDE <1>12 DEF invokeProvider
    <3> QED
      BY <3>1, <3>2, <3>3
  <2>2. CallsPaid'
    OBVIOUS
  <2>3. OneCreator'
    OBVIOUS
  <2> QED
    BY <2>1, <2>2, <2>3
<1>13. ASSUME NEW p \in Procs, checkPaid(p) PROVE PaidInv'
  <2> USE <1>13 DEF checkPaid, NotPaid
  <2>1. OrdersPaid'
    OBVIOUS
  <2>2. CallsPaid'
    OBVIOUS
  <2>3. OneCreator'
    OBVIOUS
  <2> QED
    BY <2>1, <2>2, <2>3
<1>14. ASSUME NEW p \in Procs, PersistTradeNo(p) PROVE PaidInv'
  BY <1>14 DEF PersistTradeNo
<1>15. ASSUME NEW p \in Procs, CancelPayment(p) PROVE PaidInv'
  BY <1>15 DEF CancelPayment
<1>16. ASSUME NEW p \in Procs, cancelCore(p) PROVE PaidInv'
  <2> USE <1>16 DEF cancelCore
  <2>1. OrdersPaid'
    OBVIOUS
  <2>2. CallsPaid'
    OBVIOUS
  <2>3. OneCreator'
    OBVIOUS
  <2> QED
    BY <2>1, <2>2, <2>3
<1>17. ASSUME NEW p \in Procs, confirmPayment(p) PROVE PaidInv'
  <2> USE <1>17 DEF confirmPayment, Payable
  <2>1. OrdersPaid'
    OBVIOUS
  <2>2. CallsPaid'
    OBVIOUS
  <2>3. OneCreator'
    OBVIOUS
  <2> QED
    BY <2>1, <2>2, <2>3
<1>18. ASSUME NEW p \in Procs, alreadyProcessed(p) PROVE PaidInv'
  BY <1>18 DEF alreadyProcessed
<1>19. ASSUME NEW p \in Procs, ResetForRetry(p) PROVE PaidInv'
  <2> USE <1>19 DEF ResetForRetry
  <2>1. OrdersPaid'
    OBVIOUS
  <2>2. CallsPaid'
    OBVIOUS
  <2>3. OneCreator'
    OBVIOUS
  <2> QED
    BY <2>1, <2>2, <2>3
<1>20. ASSUME NEW p \in Procs, executeFulfillment(p) PROVE PaidInv'
  <2> USE <1>20 DEF executeFulfillment
  <2>1. OrdersPaid'
    OBVIOUS
  <2>2. CallsPaid'
    OBVIOUS
  <2>3. OneCreator'
    OBVIOUS
  <2> QED
    BY <2>1, <2>2, <2>3
<1>21. ASSUME NEW p \in Procs, TakeRecharging(p) PROVE PaidInv'
  <2> USE <1>21 DEF TakeRecharging, Takeable
  <2>1. OrdersPaid'
    OBVIOUS
  <2>2. CallsPaid'
    OBVIOUS
  <2>3. OneCreator'
    OBVIOUS
  <2> QED
    BY <2>1, <2>2, <2>3
<1>22. ASSUME NEW p \in Procs, markCompleted(p) PROVE PaidInv'
  <2> USE <1>22 DEF markCompleted
  <2>1. OrdersPaid'
    OBVIOUS
  <2>2. CallsPaid'
    OBVIOUS
  <2>3. OneCreator'
    OBVIOUS
  <2> QED
    BY <2>1, <2>2, <2>3
<1>23. ASSUME NEW p \in Procs, markFailed(p) PROVE PaidInv'
  <2> USE <1>23 DEF markFailed
  <2>1. OrdersPaid'
    OBVIOUS
  <2>2. CallsPaid'
    OBVIOUS
  <2>3. OneCreator'
    OBVIOUS
  <2> QED
    BY <2>1, <2>2, <2>3
<1>24. ASSUME NEW p \in Procs, resolveRedeemAction(p) PROVE PaidInv'
  <2> USE <1>24 DEF resolveRedeemAction
  <2>1. OrdersPaid'
    OBVIOUS
  <2>2. CallsPaid'
    OBVIOUS
  <2>3. OneCreator'
    OBVIOUS
  <2> QED
    BY <2>1, <2>2, <2>3
<1>25. ASSUME NEW p \in Procs, CreateCode(p) PROVE PaidInv'
  <2> USE <1>25 DEF CreateCode
  <2>1. OrdersPaid'
    OBVIOUS
  <2>2. CallsPaid'
    OBVIOUS
  <2>3. OneCreator'
    OBVIOUS
  <2> QED
    BY <2>1, <2>2, <2>3
<1>26. ASSUME NEW p \in Procs, acquireRedeemLock(p) PROVE PaidInv'
  <2> USE <1>26 DEF acquireRedeemLock, RedeemFails
  <2>1. OrdersPaid'
    OBVIOUS
  <2>2. CallsPaid'
    OBVIOUS
  <2>3. OneCreator'
    OBVIOUS
  <2> QED
    BY <2>1, <2>2, <2>3
<1>27. ASSUME NEW p \in Procs, CheckCode(p) PROVE PaidInv'
  <2> USE <1>27 DEF CheckCode
  <2>1. OrdersPaid'
    OBVIOUS
  <2>2. CallsPaid'
    OBVIOUS
  <2>3. OneCreator'
    OBVIOUS
  <2> QED
    BY <2>1, <2>2, <2>3
<1>28. ASSUME NEW p \in Procs, Use(p) PROVE PaidInv'
  <2> USE <1>28 DEF Use
  <2>1. OrdersPaid'
    OBVIOUS
  <2>2. CallsPaid'
    OBVIOUS
  <2>3. OneCreator'
    OBVIOUS
  <2> QED
    BY <2>1, <2>2, <2>3
<1>29. ASSUME NEW p \in Procs, releaseRedeemLock(p) PROVE PaidInv'
  <2> USE <1>29 DEF releaseRedeemLock, RedeemFails
  <2>1. OrdersPaid'
    OBVIOUS
  <2>2. CallsPaid'
    OBVIOUS
  <2>3. OneCreator'
    OBVIOUS
  <2> QED
    BY <2>1, <2>2, <2>3
<1>30. ASSUME NEW p \in Procs, applyAffiliateRebateForOrder(p) PROVE PaidInv'
  <2> USE <1>30 DEF applyAffiliateRebateForOrder
  <2>1. OrdersPaid'
    OBVIOUS
  <2>2. CallsPaid'
    OBVIOUS
  <2>3. OneCreator'
    OBVIOUS
  <2> QED
    BY <2>1, <2>2, <2>3
<1>31. ASSUME NEW p \in Procs, doSub(p) PROVE PaidInv'
  <2> USE <1>31 DEF doSub, AddDays, MarkUnrecorded
  <2>1. OrdersPaid'
    OBVIOUS
  <2>2. CallsPaid'
    OBVIOUS
  <2>3. OneCreator'
    OBVIOUS
  <2> QED
    BY <2>1, <2>2, <2>3
<1>32. ASSUME NEW p \in Procs, writeAuditAssigned(p) PROVE PaidInv'
  BY <1>32 DEF writeAuditAssigned, MarkUnrecorded
<1>33. ASSUME NEW p \in Procs, Crash(p) PROVE PaidInv'
  BY <1>33 DEF Crash
<1>34. ASSUME UNCHANGED vars PROVE PaidInv'
  BY <1>34 DEF vars
<1> HIDE DEF IInv, TypeOK, LockInv, PaidInv, DeliveryInv, CreditedOnce,
            CompletedIsDelivered, Delivered, AssignedInAudit, SingleFulfiller,
            HeldIsRecharging, RedeemCallsOnly, OrdersPaid, CallsPaid,
            OneCreator, AuditIsTrue, CallsPrepared, Fulfilling, FulfillCalls,
            RedeemCalls, Goto, Return, Begin, SetStatus, Touch, orderVars,
            gatewayVars, redeemVars, grantVars, procVars
<1> QED
  BY <1>1, <1>2, <1>3, <1>4, <1>5, <1>6, <1>7, <1>8, <1>9, <1>10, <1>11,
     <1>12, <1>13, <1>14, <1>15, <1>16, <1>17, <1>18, <1>19, <1>20, <1>21,
     <1>22, <1>23, <1>24, <1>25, <1>26, <1>27, <1>28, <1>29, <1>30, <1>31,
     <1>32, <1>33, <1>34
  DEF Next, Environment, Start, Order, Fulfill

\* No step completes an order, or prepares its completion, without the delivery.
LEMMA DeliveryStep == IInv /\ [Next]_vars => DeliveryInv'
<1> SUFFICES ASSUME IInv, [Next]_vars PROVE DeliveryInv'
  OBVIOUS
<1> USE DEF IInv, TypeOK, LockInv, PaidInv, DeliveryInv, CreditedOnce,
            CompletedIsDelivered, Delivered, AssignedInAudit, SingleFulfiller,
            HeldIsRecharging, RedeemCallsOnly, OrdersPaid, CallsPaid,
            OneCreator, AuditIsTrue, CallsPrepared, Fulfilling, FulfillCalls,
            RedeemCalls, Goto, Return, Begin, SetStatus, Touch, orderVars,
            gatewayVars, redeemVars, grantVars, procVars
<1>1. ASSUME NEW o \in Orders, UserPays(o) PROVE DeliveryInv'
  BY <1>1 DEF UserPays
<1>2. ASSUME NEW o \in Orders, GraceLapses(o) PROVE DeliveryInv'
  BY <1>2 DEF GraceLapses
<1>3. ASSUME NEW o \in Orders, LockExpires(o) PROVE DeliveryInv'
  BY <1>3 DEF LockExpires
<1>4. ASSUME NEW p \in Procs, NEW o \in Orders, CancelOrder(p, o) PROVE DeliveryInv'
  BY <1>4 DEF CancelOrder
<1>5. ASSUME NEW p \in Procs, NEW o \in Orders, ExpireTimedOutOrders(p, o) PROVE DeliveryInv'
  BY <1>5 DEF ExpireTimedOutOrders
<1>6. ASSUME NEW p \in Procs, NEW o \in Orders, VerifyOrderByOutTradeNo(p, o) PROVE DeliveryInv'
  BY <1>6 DEF VerifyOrderByOutTradeNo
<1>7. ASSUME NEW p \in Procs, NEW o \in Orders, HandlePaymentNotification(p, o) PROVE DeliveryInv'
  BY <1>7 DEF HandlePaymentNotification
<1>8. ASSUME NEW p \in Procs, NEW o \in Orders, RetryFulfillment(p, o) PROVE DeliveryInv'
  BY <1>8 DEF RetryFulfillment
<1>9. ASSUME NEW p \in Procs, NEW o \in Orders, Redeem(p, o) PROVE DeliveryInv'
  BY <1>9 DEF Redeem
<1>10. ASSUME NEW p \in Procs, checkPendingLimit(p) PROVE DeliveryInv'
  BY <1>10 DEF checkPendingLimit
<1>11. ASSUME NEW p \in Procs, createOrderInTx(p) PROVE DeliveryInv'
  <2> USE <1>11 DEF createOrderInTx
  <2>1. CreditedOnce'
    OBVIOUS
  <2>2. CompletedIsDelivered'
    OBVIOUS
  <2>3. AuditIsTrue'
    OBVIOUS
  <2>4. CallsPrepared'
    OBVIOUS
  <2> QED
    BY <2>1, <2>2, <2>3, <2>4
<1>12. ASSUME NEW p \in Procs, invokeProvider(p) PROVE DeliveryInv'
  BY <1>12 DEF invokeProvider
<1>13. ASSUME NEW p \in Procs, checkPaid(p) PROVE DeliveryInv'
  BY <1>13 DEF checkPaid, NotPaid
<1>14. ASSUME NEW p \in Procs, PersistTradeNo(p) PROVE DeliveryInv'
  BY <1>14 DEF PersistTradeNo
<1>15. ASSUME NEW p \in Procs, CancelPayment(p) PROVE DeliveryInv'
  BY <1>15 DEF CancelPayment
<1>16. ASSUME NEW p \in Procs, cancelCore(p) PROVE DeliveryInv'
  BY <1>16 DEF cancelCore
<1>17. ASSUME NEW p \in Procs, confirmPayment(p) PROVE DeliveryInv'
  BY <1>17 DEF confirmPayment, Payable
<1>18. ASSUME NEW p \in Procs, alreadyProcessed(p) PROVE DeliveryInv'
  BY <1>18 DEF alreadyProcessed
<1>19. ASSUME NEW p \in Procs, ResetForRetry(p) PROVE DeliveryInv'
  BY <1>19 DEF ResetForRetry
<1>20. ASSUME NEW p \in Procs, executeFulfillment(p) PROVE DeliveryInv'
  BY <1>20 DEF executeFulfillment
<1>21. ASSUME NEW p \in Procs, TakeRecharging(p) PROVE DeliveryInv'
  BY <1>21 DEF TakeRecharging, Takeable
<1>22. ASSUME NEW p \in Procs, markCompleted(p) PROVE DeliveryInv'
  <2> USE <1>22 DEF markCompleted
  <2>1. CreditedOnce'
    OBVIOUS
  <2>2. CompletedIsDelivered'
    OBVIOUS
  <2>3. AuditIsTrue'
    <3>1. assigned' = assigned
      OBVIOUS
    <3>2. \A o \in Orders : AssignedInAudit(o)' =>
            AssignedInAudit(o) \/ (o = job[p] /\ o \in Subs)
      OBVIOUS
    <3>3. job[p] \in Subs => assigned[job[p]] > 0
      OBVIOUS
    <3> HIDE <1>22 DEF markCompleted
    <3> QED
      BY <3>1, <3>2, <3>3
  <2>4. CallsPrepared'
    OBVIOUS
  <2> QED
    BY <2>1, <2>2, <2>3, <2>4
<1>23. ASSUME NEW p \in Procs, markFailed(p) PROVE DeliveryInv'
  BY <1>23 DEF markFailed
<1>24. ASSUME NEW p \in Procs, resolveRedeemAction(p) PROVE DeliveryInv'
  BY <1>24 DEF resolveRedeemAction
<1>25. ASSUME NEW p \in Procs, CreateCode(p) PROVE DeliveryInv'
  BY <1>25 DEF CreateCode
<1>26. ASSUME NEW p \in Procs, acquireRedeemLock(p) PROVE DeliveryInv'
  BY <1>26 DEF acquireRedeemLock, RedeemFails
<1>27. ASSUME NEW p \in Procs, CheckCode(p) PROVE DeliveryInv'
  BY <1>27 DEF CheckCode
<1>28. ASSUME NEW p \in Procs, Use(p) PROVE DeliveryInv'
  <2> USE <1>28 DEF Use
  <2>1. CreditedOnce'
    OBVIOUS
  <2>2. CompletedIsDelivered'
    <3>1. status' = status /\ assigned' = assigned
      OBVIOUS
    <3>2. \/ credited' = [credited EXCEPT ![job[p]] = @ + 1]
          \/ credited' = credited
      OBVIOUS
    <3> HIDE <1>28 DEF Use
    <3> QED
      BY <3>1, <3>2
  <2>3. AuditIsTrue'
    OBVIOUS
  <2>4. CallsPrepared'
    OBVIOUS
  <2> QED
    BY <2>1, <2>2, <2>3, <2>4
<1>29. ASSUME NEW p \in Procs, releaseRedeemLock(p) PROVE DeliveryInv'
  BY <1>29 DEF releaseRedeemLock, RedeemFails
<1>30. ASSUME NEW p \in Procs, applyAffiliateRebateForOrder(p) PROVE DeliveryInv'
  <2> USE <1>30 DEF applyAffiliateRebateForOrder
  <2>1. CreditedOnce'
    OBVIOUS
  <2>2. CompletedIsDelivered'
    OBVIOUS
  <2>3. AuditIsTrue'
    <3>1. assigned' = assigned
      OBVIOUS
    <3>2. \/ audit' = [audit EXCEPT ![job[p]] = @ \cup {"AFFILIATE_REBATE"}]
          \/ audit' = audit
      OBVIOUS
    <3> HIDE <1>30 DEF applyAffiliateRebateForOrder, LockInv, PaidInv, CallsPrepared
    <3>3. \A o \in Orders : AssignedInAudit(o)' => AssignedInAudit(o)
      BY <3>2
    <3> QED
      BY <3>1, <3>3
  <2>4. CallsPrepared'
    OBVIOUS
  <2> QED
    BY <2>1, <2>2, <2>3, <2>4
<1>31. ASSUME NEW p \in Procs, doSub(p) PROVE DeliveryInv'
  <2> USE <1>31 DEF doSub, AddDays, MarkUnrecorded
  <2>1. CreditedOnce'
    OBVIOUS
  <2>2. CompletedIsDelivered'
    OBVIOUS
  <2>3. AuditIsTrue'
    OBVIOUS
  <2>4. CallsPrepared'
    OBVIOUS
  <2> QED
    BY <2>1, <2>2, <2>3, <2>4
<1>32. ASSUME NEW p \in Procs, writeAuditAssigned(p) PROVE DeliveryInv'
  <2> USE <1>32 DEF writeAuditAssigned, MarkUnrecorded
  <2>1. CreditedOnce'
    OBVIOUS
  <2>2. CompletedIsDelivered'
    OBVIOUS
  <2>3. AuditIsTrue'
    <3>1. assigned[job[p]] > 0
      OBVIOUS
    <3>2. \A o \in Orders : AssignedInAudit(o)' => AssignedInAudit(o) \/ o = job[p]
      OBVIOUS
    <3>3. assigned' = assigned
      OBVIOUS
    <3> QED
      BY <3>1, <3>2, <3>3
  <2>4. CallsPrepared'
    OBVIOUS
  <2> QED
    BY <2>1, <2>2, <2>3, <2>4
<1>33. ASSUME NEW p \in Procs, Crash(p) PROVE DeliveryInv'
  BY <1>33 DEF Crash
<1>34. ASSUME UNCHANGED vars PROVE DeliveryInv'
  BY <1>34 DEF vars
<1> HIDE DEF IInv, TypeOK, LockInv, PaidInv, DeliveryInv, CreditedOnce,
            CompletedIsDelivered, Delivered, AssignedInAudit, SingleFulfiller,
            HeldIsRecharging, RedeemCallsOnly, OrdersPaid, CallsPaid,
            OneCreator, AuditIsTrue, CallsPrepared, Fulfilling, FulfillCalls,
            RedeemCalls, Goto, Return, Begin, SetStatus, Touch, orderVars,
            gatewayVars, redeemVars, grantVars, procVars
<1> QED
  BY <1>1, <1>2, <1>3, <1>4, <1>5, <1>6, <1>7, <1>8, <1>9, <1>10, <1>11,
     <1>12, <1>13, <1>14, <1>15, <1>16, <1>17, <1>18, <1>19, <1>20, <1>21,
     <1>22, <1>23, <1>24, <1>25, <1>26, <1>27, <1>28, <1>29, <1>30, <1>31,
     <1>32, <1>33, <1>34
  DEF Next, Environment, Start, Order, Fulfill

\* The rebate and the audit row that claims it change together.
LEMMA RebateStep == IInv /\ [Next]_vars => RebateInv'
<1> SUFFICES ASSUME IInv, [Next]_vars PROVE RebateInv'
  OBVIOUS
<1> USE DEF IInv, TypeOK, RebateInv, Goto, Return, Begin, SetStatus, Touch,
            orderVars, gatewayVars, redeemVars, grantVars, procVars
<1>1. ASSUME NEW o \in Orders, UserPays(o) PROVE RebateInv'
  BY <1>1 DEF UserPays
<1>2. ASSUME NEW o \in Orders, GraceLapses(o) PROVE RebateInv'
  BY <1>2 DEF GraceLapses
<1>3. ASSUME NEW o \in Orders, LockExpires(o) PROVE RebateInv'
  BY <1>3 DEF LockExpires
<1>4. ASSUME NEW p \in Procs, NEW o \in Orders, CancelOrder(p, o) PROVE RebateInv'
  BY <1>4 DEF CancelOrder
<1>5. ASSUME NEW p \in Procs, NEW o \in Orders, ExpireTimedOutOrders(p, o) PROVE RebateInv'
  BY <1>5 DEF ExpireTimedOutOrders
<1>6. ASSUME NEW p \in Procs, NEW o \in Orders, VerifyOrderByOutTradeNo(p, o) PROVE RebateInv'
  BY <1>6 DEF VerifyOrderByOutTradeNo
<1>7. ASSUME NEW p \in Procs, NEW o \in Orders, HandlePaymentNotification(p, o) PROVE RebateInv'
  BY <1>7 DEF HandlePaymentNotification
<1>8. ASSUME NEW p \in Procs, NEW o \in Orders, RetryFulfillment(p, o) PROVE RebateInv'
  BY <1>8 DEF RetryFulfillment
<1>9. ASSUME NEW p \in Procs, NEW o \in Orders, Redeem(p, o) PROVE RebateInv'
  BY <1>9 DEF Redeem
<1>10. ASSUME NEW p \in Procs, checkPendingLimit(p) PROVE RebateInv'
  BY <1>10 DEF checkPendingLimit
<1>11. ASSUME NEW p \in Procs, createOrderInTx(p) PROVE RebateInv'
  BY <1>11 DEF createOrderInTx
<1>12. ASSUME NEW p \in Procs, invokeProvider(p) PROVE RebateInv'
  BY <1>12 DEF invokeProvider
<1>13. ASSUME NEW p \in Procs, checkPaid(p) PROVE RebateInv'
  BY <1>13 DEF checkPaid, NotPaid
<1>14. ASSUME NEW p \in Procs, PersistTradeNo(p) PROVE RebateInv'
  BY <1>14 DEF PersistTradeNo
<1>15. ASSUME NEW p \in Procs, CancelPayment(p) PROVE RebateInv'
  BY <1>15 DEF CancelPayment
<1>16. ASSUME NEW p \in Procs, cancelCore(p) PROVE RebateInv'
  BY <1>16 DEF cancelCore
<1>17. ASSUME NEW p \in Procs, confirmPayment(p) PROVE RebateInv'
  BY <1>17 DEF confirmPayment, Payable
<1>18. ASSUME NEW p \in Procs, alreadyProcessed(p) PROVE RebateInv'
  BY <1>18 DEF alreadyProcessed
<1>19. ASSUME NEW p \in Procs, ResetForRetry(p) PROVE RebateInv'
  BY <1>19 DEF ResetForRetry
<1>20. ASSUME NEW p \in Procs, executeFulfillment(p) PROVE RebateInv'
  BY <1>20 DEF executeFulfillment
<1>21. ASSUME NEW p \in Procs, TakeRecharging(p) PROVE RebateInv'
  BY <1>21 DEF TakeRecharging, Takeable
<1>22. ASSUME NEW p \in Procs, markCompleted(p) PROVE RebateInv'
  BY <1>22 DEF markCompleted
<1>23. ASSUME NEW p \in Procs, markFailed(p) PROVE RebateInv'
  BY <1>23 DEF markFailed
<1>24. ASSUME NEW p \in Procs, resolveRedeemAction(p) PROVE RebateInv'
  BY <1>24 DEF resolveRedeemAction
<1>25. ASSUME NEW p \in Procs, CreateCode(p) PROVE RebateInv'
  BY <1>25 DEF CreateCode
<1>26. ASSUME NEW p \in Procs, acquireRedeemLock(p) PROVE RebateInv'
  BY <1>26 DEF acquireRedeemLock, RedeemFails
<1>27. ASSUME NEW p \in Procs, CheckCode(p) PROVE RebateInv'
  BY <1>27 DEF CheckCode
<1>28. ASSUME NEW p \in Procs, Use(p) PROVE RebateInv'
  BY <1>28 DEF Use
<1>29. ASSUME NEW p \in Procs, releaseRedeemLock(p) PROVE RebateInv'
  BY <1>29 DEF releaseRedeemLock, RedeemFails
<1>30. ASSUME NEW p \in Procs, applyAffiliateRebateForOrder(p) PROVE RebateInv'
  BY <1>30 DEF applyAffiliateRebateForOrder
<1>31. ASSUME NEW p \in Procs, doSub(p) PROVE RebateInv'
  BY <1>31 DEF doSub, AddDays, MarkUnrecorded
<1>32. ASSUME NEW p \in Procs, writeAuditAssigned(p) PROVE RebateInv'
  BY <1>32 DEF writeAuditAssigned, MarkUnrecorded
<1>33. ASSUME NEW p \in Procs, Crash(p) PROVE RebateInv'
  BY <1>33 DEF Crash
<1>34. ASSUME UNCHANGED vars PROVE RebateInv'
  BY <1>34 DEF vars
<1> HIDE DEF IInv, TypeOK, RebateInv, Goto, Return, Begin, SetStatus, Touch,
            orderVars, gatewayVars, redeemVars, grantVars, procVars
<1> QED
  BY <1>1, <1>2, <1>3, <1>4, <1>5, <1>6, <1>7, <1>8, <1>9, <1>10, <1>11,
     <1>12, <1>13, <1>14, <1>15, <1>16, <1>17, <1>18, <1>19, <1>20, <1>21,
     <1>22, <1>23, <1>24, <1>25, <1>26, <1>27, <1>28, <1>29, <1>30, <1>31,
     <1>32, <1>33, <1>34
  DEF Next, Environment, Start, Order, Fulfill

\* A step from a state of the invariant keeps every recorded payment: the writes
\* that do not look at the status (a failing creation) meet only unpaid orders.
LEMMA KeptStep == IInv /\ [Next]_vars => KeepsPayments
<1> SUFFICES ASSUME IInv, [Next]_vars PROVE KeepsPayments
  OBVIOUS
<1> USE DEF KeepsPayments, IInv, TypeOK, LockInv, HeldIsRecharging, PaidInv,
            OrdersPaid, CallsPaid, Fulfilling, FulfillCalls, RedeemCalls,
            Goto, Return, Begin, SetStatus, Touch, orderVars, gatewayVars,
            redeemVars, grantVars, procVars
<1>1. ASSUME NEW o \in Orders, UserPays(o) PROVE KeepsPayments
  BY <1>1 DEF UserPays
<1>2. ASSUME NEW o \in Orders, GraceLapses(o) PROVE KeepsPayments
  BY <1>2 DEF GraceLapses
<1>3. ASSUME NEW o \in Orders, LockExpires(o) PROVE KeepsPayments
  BY <1>3 DEF LockExpires
<1>4. ASSUME NEW p \in Procs, NEW o \in Orders, CancelOrder(p, o) PROVE KeepsPayments
  BY <1>4 DEF CancelOrder
<1>5. ASSUME NEW p \in Procs, NEW o \in Orders, ExpireTimedOutOrders(p, o) PROVE KeepsPayments
  BY <1>5 DEF ExpireTimedOutOrders
<1>6. ASSUME NEW p \in Procs, NEW o \in Orders, VerifyOrderByOutTradeNo(p, o) PROVE KeepsPayments
  BY <1>6 DEF VerifyOrderByOutTradeNo
<1>7. ASSUME NEW p \in Procs, NEW o \in Orders, HandlePaymentNotification(p, o) PROVE KeepsPayments
  BY <1>7 DEF HandlePaymentNotification
<1>8. ASSUME NEW p \in Procs, NEW o \in Orders, RetryFulfillment(p, o) PROVE KeepsPayments
  BY <1>8 DEF RetryFulfillment
<1>9. ASSUME NEW p \in Procs, NEW o \in Orders, Redeem(p, o) PROVE KeepsPayments
  BY <1>9 DEF Redeem
<1>10. ASSUME NEW p \in Procs, checkPendingLimit(p) PROVE KeepsPayments
  BY <1>10 DEF checkPendingLimit
<1>11. ASSUME NEW p \in Procs, createOrderInTx(p) PROVE KeepsPayments
  BY <1>11 DEF createOrderInTx
<1>12. ASSUME NEW p \in Procs, invokeProvider(p) PROVE KeepsPayments
  BY <1>12 DEF invokeProvider
<1>13. ASSUME NEW p \in Procs, checkPaid(p) PROVE KeepsPayments
  BY <1>13 DEF checkPaid, NotPaid
<1>14. ASSUME NEW p \in Procs, PersistTradeNo(p) PROVE KeepsPayments
  BY <1>14 DEF PersistTradeNo
<1>15. ASSUME NEW p \in Procs, CancelPayment(p) PROVE KeepsPayments
  BY <1>15 DEF CancelPayment
<1>16. ASSUME NEW p \in Procs, cancelCore(p) PROVE KeepsPayments
  BY <1>16 DEF cancelCore
<1>17. ASSUME NEW p \in Procs, confirmPayment(p) PROVE KeepsPayments
  BY <1>17 DEF confirmPayment, Payable
<1>18. ASSUME NEW p \in Procs, alreadyProcessed(p) PROVE KeepsPayments
  BY <1>18 DEF alreadyProcessed
<1>19. ASSUME NEW p \in Procs, ResetForRetry(p) PROVE KeepsPayments
  BY <1>19 DEF ResetForRetry
<1>20. ASSUME NEW p \in Procs, executeFulfillment(p) PROVE KeepsPayments
  BY <1>20 DEF executeFulfillment
<1>21. ASSUME NEW p \in Procs, TakeRecharging(p) PROVE KeepsPayments
  BY <1>21 DEF TakeRecharging, Takeable
<1>22. ASSUME NEW p \in Procs, markCompleted(p) PROVE KeepsPayments
  BY <1>22 DEF markCompleted
<1>23. ASSUME NEW p \in Procs, markFailed(p) PROVE KeepsPayments
  BY <1>23 DEF markFailed
<1>24. ASSUME NEW p \in Procs, resolveRedeemAction(p) PROVE KeepsPayments
  BY <1>24 DEF resolveRedeemAction
<1>25. ASSUME NEW p \in Procs, CreateCode(p) PROVE KeepsPayments
  BY <1>25 DEF CreateCode
<1>26. ASSUME NEW p \in Procs, acquireRedeemLock(p) PROVE KeepsPayments
  BY <1>26 DEF acquireRedeemLock, RedeemFails
<1>27. ASSUME NEW p \in Procs, CheckCode(p) PROVE KeepsPayments
  BY <1>27 DEF CheckCode
<1>28. ASSUME NEW p \in Procs, Use(p) PROVE KeepsPayments
  BY <1>28 DEF Use
<1>29. ASSUME NEW p \in Procs, releaseRedeemLock(p) PROVE KeepsPayments
  BY <1>29 DEF releaseRedeemLock, RedeemFails
<1>30. ASSUME NEW p \in Procs, applyAffiliateRebateForOrder(p) PROVE KeepsPayments
  BY <1>30 DEF applyAffiliateRebateForOrder
<1>31. ASSUME NEW p \in Procs, doSub(p) PROVE KeepsPayments
  BY <1>31 DEF doSub, AddDays, MarkUnrecorded
<1>32. ASSUME NEW p \in Procs, writeAuditAssigned(p) PROVE KeepsPayments
  BY <1>32 DEF writeAuditAssigned, MarkUnrecorded
<1>33. ASSUME NEW p \in Procs, Crash(p) PROVE KeepsPayments
  BY <1>33 DEF Crash
<1>34. ASSUME UNCHANGED vars PROVE KeepsPayments
  BY <1>34 DEF vars
<1> HIDE DEF KeepsPayments, IInv, TypeOK, LockInv, HeldIsRecharging, PaidInv,
            OrdersPaid, CallsPaid, Fulfilling, FulfillCalls, RedeemCalls,
            Goto, Return, Begin, SetStatus, Touch, orderVars, gatewayVars,
            redeemVars, grantVars, procVars
<1> QED
  BY <1>1, <1>2, <1>3, <1>4, <1>5, <1>6, <1>7, <1>8, <1>9, <1>10, <1>11,
     <1>12, <1>13, <1>14, <1>15, <1>16, <1>17, <1>18, <1>19, <1>20, <1>21,
     <1>22, <1>23, <1>24, <1>25, <1>26, <1>27, <1>28, <1>29, <1>30, <1>31,
     <1>32, <1>33, <1>34
  DEF Next, Environment, Start, Order, Fulfill

-------------------------------------------------------------------------------
(* The theorems.                                                            *)

\* Every reachable state is well typed.
THEOREM TypeCorrect == Spec => []TypeOK
<1>1. TypeOK /\ [Next]_vars => TypeOK'
  BY TypeStep
<1> QED
  BY TypeInit, <1>1, PTL DEF Spec

\* The inductive invariant holds in every reachable state.
THEOREM Invariant == Spec => []IInv
<1>1. IInv /\ [Next]_vars => IInv'
  <2> SUFFICES ASSUME IInv, [Next]_vars PROVE IInv'
    OBVIOUS
  <2>1. TypeOK'
    BY TypeStep DEF IInv
  <2> QED
    BY <2>1, LockStep, PaidStep, DeliveryStep, RebateStep DEF IInv
<1> QED
  BY InvInit, <1>1, PTL DEF Spec

\* However many webhooks, verifications and retries race, at most one handler at
\* a time is between taking an order (the RECHARGING compare-and-set) and
\* completing or failing it.
THEOREM OneFulfiller == Spec => []SingleFulfiller
<1>1. IInv => SingleFulfiller
  BY DEF IInv, LockInv
<1> QED
  BY Invariant, <1>1, PTL

\* markCompleted never completes an order whose balance or subscription was not
\* delivered, whatever failed on the way.
THEOREM CompletionIsDelivery == Spec => []CompletedIsDelivered
<1>1. IInv => CompletedIsDelivered
  BY DEF IInv, DeliveryInv
<1> QED
  BY Invariant, <1>1, PTL

\* However often a payment is notified, verified, retried or redeemed by hand, and
\* whoever loses the redeem lock, the order's balance is credited once, exactly when
\* its code is spent.
THEOREM BalanceCreditedOnce == Spec => []CreditedOnce
<1>1. IInv => CreditedOnce
  BY DEF IInv, DeliveryInv
<1> QED
  BY Invariant, <1>1, PTL

\* Neither a balance nor days are delivered before the gateway was paid the order's
\* full amount, whatever status a handler read.
THEOREM PaymentFirst == Spec => []PaidBeforeDelivery
<1>1. ASSUME IInv PROVE PaidBeforeDelivery
  <2> SUFFICES ASSUME NEW o \in Orders, Delivered(o) PROVE gateway[o] = "paid"
    BY DEF PaidBeforeDelivery
  <2>1. CASE assigned[o] > 0
    BY <1>1, <2>1 DEF IInv, PaidInv, OrdersPaid
  <2>2. CASE ~(assigned[o] > 0)
    <3>1. credited[o] # 0
      BY <1>1, <2>2 DEF IInv, TypeOK, Delivered
    <3>2. code[o] = "used"
      BY <1>1, <3>1 DEF IInv, DeliveryInv, CreditedOnce
    <3> QED BY <1>1, <3>2 DEF IInv, PaidInv, OrdersPaid
  <2> QED BY <2>1, <2>2
<1> QED
  BY Invariant, <1>1, PTL


\* applyAffiliateRebateForOrder accrues at most one rebate for an order, however
\* often its fulfilment is retried.
THEOREM RebatedOnce == Spec => []RebateOnce
<1>1. IInv => RebateOnce
  BY DEF IInv, RebateInv, RebateOnce
<1> QED
  BY Invariant, <1>1, PTL

\* No cancellation, expiry, failed creation or late error takes a recorded
\* payment back, and a completed order stays completed.
THEOREM PaymentsAreKept == Spec => PaymentKept
<1>1. IInv /\ [Next]_vars => [KeepsPayments]_vars
  BY KeptStep
<1> QED
  BY Invariant, <1>1, PTL DEF Spec, PaymentKept

-------------------------------------------------------------------------------
(* Days are added once where their record is kept, and the payment service then *)
(* implements DeliveryContract.                                                 *)

\* Days that were added are on record before their order can be taken again: its
\* taker is alone with the order until it has written the audit row.
LEMMA AssignStep == IInv /\ AssignInv /\ [Next]_vars => AssignInv'
<1> SUFFICES ASSUME IInv, AssignInv, [Next]_vars PROVE AssignInv'
  OBVIOUS
<1>30. ASSUME NEW p \in Procs, applyAffiliateRebateForOrder(p) PROVE AssignInv'
  <2>1. \/ audit' = [audit EXCEPT ![job[p]] = @ \cup {"AFFILIATE_REBATE"}]
        \/ audit' = audit
    BY <1>30 DEF applyAffiliateRebateForOrder
  <2>2. \A o \in Orders : "SUBSCRIPTION_ASSIGNED" \in audit[o] => "SUBSCRIPTION_ASSIGNED" \in audit'[o]
    BY <2>1 DEF IInv, TypeOK
  <2>3. /\ \A o \in Orders : assigned'[o] = assigned[o] /\ status'[o] = status[o]
        /\ pc[p] = "rebate" /\ op' = op /\ job' = job
        /\ \A q \in Procs \ {p} : pc'[q] = pc[q]
    BY <1>30 DEF applyAffiliateRebateForOrder, Goto, orderVars, IInv, TypeOK
  <2>9. unrecorded' = unrecorded
    BY <1>30 DEF applyAffiliateRebateForOrder
  <2>4. Fulfilling(p)
    BY <2>3 DEF Fulfilling, FulfillCalls, RedeemCalls, IInv, LockInv, RedeemCallsOnly
  <2>5. \A o \in Orders : assigned[o] > 0 /\ o = job[p] /\ o \notin unrecorded => "SUBSCRIPTION_ASSIGNED" \in audit[o]
    BY <2>3, <2>4 DEF AssignInv, FulfillersOf, IInv, TypeOK
  <2>6. \A o \in Orders : \A q \in Procs :
          o # job[p] /\ q \in FulfillersOf(o)' => q \in FulfillersOf(o) /\ pc'[q] = pc[q]
    BY <2>3 DEF FulfillersOf, Fulfilling
  <2> SUFFICES ASSUME NEW x \in Orders, x \notin unrecorded
               PROVE  \/ assigned'[x] = 0
                      \/ /\ assigned'[x] = 1
                         /\ \/ "SUBSCRIPTION_ASSIGNED" \in audit'[x]
                            \/ /\ status'[x] = "RECHARGING"
                               /\ \A q \in FulfillersOf(x)' : pc'[q] = "note"
    BY <2>9 DEF AssignInv
  <2>7. CASE x = job[p]
    BY <2>2, <2>3, <2>5, <2>7 DEF AssignInv, IInv, TypeOK
  <2>8. CASE x # job[p]
    <3>1. \A q \in FulfillersOf(x)' : q \in FulfillersOf(x) /\ pc'[q] = pc[q]
      BY <2>6, <2>8 DEF FulfillersOf
    <3> QED
      BY <2>2, <2>3, <3>1 DEF AssignInv
  <2> QED
    BY <2>7, <2>8
<1> USE DEF IInv, TypeOK, AssignInv, Fails, FulfillersOf,
            AssignedInAudit, LockInv, PaidInv, SingleFulfiller,
            HeldIsRecharging, RedeemCallsOnly, CallsPaid, Fulfilling,
            FulfillCalls, RedeemCalls, DeliveryInv, CallsPrepared, Goto,
            Return, Begin, SetStatus, Touch, orderVars, gatewayVars, redeemVars,
            grantVars, procVars
<1>1. ASSUME NEW o \in Orders, UserPays(o) PROVE AssignInv'
  BY <1>1 DEF UserPays
<1>2. ASSUME NEW o \in Orders, GraceLapses(o) PROVE AssignInv'
  BY <1>2 DEF GraceLapses
<1>3. ASSUME NEW o \in Orders, LockExpires(o) PROVE AssignInv'
  BY <1>3 DEF LockExpires
<1>4. ASSUME NEW p \in Procs, NEW o \in Orders, CancelOrder(p, o) PROVE AssignInv'
  BY <1>4 DEF CancelOrder
<1>5. ASSUME NEW p \in Procs, NEW o \in Orders, ExpireTimedOutOrders(p, o) PROVE AssignInv'
  BY <1>5 DEF ExpireTimedOutOrders
<1>6. ASSUME NEW p \in Procs, NEW o \in Orders, VerifyOrderByOutTradeNo(p, o) PROVE AssignInv'
  BY <1>6 DEF VerifyOrderByOutTradeNo
<1>7. ASSUME NEW p \in Procs, NEW o \in Orders, HandlePaymentNotification(p, o) PROVE AssignInv'
  BY <1>7 DEF HandlePaymentNotification
<1>8. ASSUME NEW p \in Procs, NEW o \in Orders, RetryFulfillment(p, o) PROVE AssignInv'
  BY <1>8 DEF RetryFulfillment
<1>9. ASSUME NEW p \in Procs, NEW o \in Orders, Redeem(p, o) PROVE AssignInv'
  BY <1>9 DEF Redeem
<1>10. ASSUME NEW p \in Procs, checkPendingLimit(p) PROVE AssignInv'
  BY <1>10 DEF checkPendingLimit
<1>11. ASSUME NEW p \in Procs, createOrderInTx(p) PROVE AssignInv'
  <2> USE <1>11 DEF createOrderInTx
  <2>1. UNCHANGED <<assigned, unrecorded, audit>>
    OBVIOUS
  <2>2. \A o \in Orders : status[o] = "RECHARGING" => status'[o] = "RECHARGING"
    OBVIOUS
  <2>3. \A o \in Orders : \A q \in FulfillersOf(o)' : q \in FulfillersOf(o) /\ pc'[q] = pc[q]
    OBVIOUS
  <2> HIDE <1>11 DEF createOrderInTx, FulfillersOf, LockInv, PaidInv, DeliveryInv
  <2> QED
    BY <2>1, <2>2, <2>3
<1>12. ASSUME NEW p \in Procs, invokeProvider(p) PROVE AssignInv'
  BY <1>12 DEF invokeProvider
<1>13. ASSUME NEW p \in Procs, checkPaid(p) PROVE AssignInv'
  BY <1>13 DEF checkPaid, NotPaid
<1>14. ASSUME NEW p \in Procs, PersistTradeNo(p) PROVE AssignInv'
  BY <1>14 DEF PersistTradeNo
<1>15. ASSUME NEW p \in Procs, CancelPayment(p) PROVE AssignInv'
  BY <1>15 DEF CancelPayment
<1>16. ASSUME NEW p \in Procs, cancelCore(p) PROVE AssignInv'
  BY <1>16 DEF cancelCore
<1>17. ASSUME NEW p \in Procs, confirmPayment(p) PROVE AssignInv'
  BY <1>17 DEF confirmPayment, Payable
<1>18. ASSUME NEW p \in Procs, alreadyProcessed(p) PROVE AssignInv'
  BY <1>18 DEF alreadyProcessed
<1>19. ASSUME NEW p \in Procs, ResetForRetry(p) PROVE AssignInv'
  BY <1>19 DEF ResetForRetry
<1>20. ASSUME NEW p \in Procs, executeFulfillment(p) PROVE AssignInv'
  BY <1>20 DEF executeFulfillment
<1>21. ASSUME NEW p \in Procs, TakeRecharging(p) PROVE AssignInv'
  BY <1>21 DEF TakeRecharging, Takeable
<1>22. ASSUME NEW p \in Procs, markCompleted(p) PROVE AssignInv'
  <2> USE <1>22 DEF markCompleted
  <2>1. UNCHANGED <<assigned, unrecorded>> /\ Fulfilling(p)
    OBVIOUS
  <2>2. \A o \in Orders : "SUBSCRIPTION_ASSIGNED" \in audit[o] => "SUBSCRIPTION_ASSIGNED" \in audit'[o]
    OBVIOUS
  <2>3. assigned[job[p]] = 0 \/ job[p] \in unrecorded
        \/ (assigned[job[p]] = 1 /\ "SUBSCRIPTION_ASSIGNED" \in audit[job[p]])
    OBVIOUS
  <2>4. \A o \in Orders \ {job[p]} : status'[o] = status[o]
    OBVIOUS
  <2>5. \A o \in Orders \ {job[p]} :
          \A q \in FulfillersOf(o)' : q \in FulfillersOf(o) /\ pc'[q] = pc[q]
    OBVIOUS
  <2> HIDE <1>22 DEF markCompleted, FulfillersOf, LockInv, PaidInv, DeliveryInv
  <2> QED
    BY <2>1, <2>2, <2>3, <2>4, <2>5
<1>23. ASSUME NEW p \in Procs, markFailed(p) PROVE AssignInv'
  BY <1>23 DEF markFailed
<1>24. ASSUME NEW p \in Procs, resolveRedeemAction(p) PROVE AssignInv'
  BY <1>24 DEF resolveRedeemAction
<1>25. ASSUME NEW p \in Procs, CreateCode(p) PROVE AssignInv'
  BY <1>25 DEF CreateCode
<1>26. ASSUME NEW p \in Procs, acquireRedeemLock(p) PROVE AssignInv'
  BY <1>26 DEF acquireRedeemLock, RedeemFails
<1>27. ASSUME NEW p \in Procs, CheckCode(p) PROVE AssignInv'
  BY <1>27 DEF CheckCode
<1>28. ASSUME NEW p \in Procs, Use(p) PROVE AssignInv'
  BY <1>28 DEF Use
<1>29. ASSUME NEW p \in Procs, releaseRedeemLock(p) PROVE AssignInv'
  BY <1>29 DEF releaseRedeemLock, RedeemFails
<1>31. ASSUME NEW p \in Procs, doSub(p) PROVE AssignInv'
  BY <1>31 DEF doSub, AddDays, MarkUnrecorded
<1>32. ASSUME NEW p \in Procs, writeAuditAssigned(p) PROVE AssignInv'
  BY <1>32 DEF writeAuditAssigned, MarkUnrecorded
<1>33. ASSUME NEW p \in Procs, Crash(p) PROVE AssignInv'
  BY <1>33 DEF Crash
<1>34. ASSUME UNCHANGED vars PROVE AssignInv'
  BY <1>34 DEF vars
<1> QED
  BY <1>1, <1>2, <1>3, <1>4, <1>5, <1>6, <1>7, <1>8, <1>9, <1>10, <1>11,
     <1>12, <1>13, <1>14, <1>15, <1>16, <1>17, <1>18, <1>19, <1>20, <1>21,
     <1>22, <1>23, <1>24, <1>25, <1>26, <1>27, <1>28, <1>29, <1>30, <1>31,
     <1>32, <1>33, <1>34
  DEF Next, Environment, Start, Order, Fulfill

\* The first of two assignments that are both on record would have left the row that
\* the second looks for: where no audit statement fails and no assignment fails after
\* its write, nothing is ever added off the record.
LEMMA RecordedStep == GrantsRecorded /\ IInv /\ AllRecorded /\ [Next]_vars => AllRecorded'
<1> SUFFICES ASSUME GrantsRecorded, IInv, AllRecorded, [Next]_vars PROVE AllRecorded'
  OBVIOUS
<1>1. ASSUME NEW p \in Procs, doSub(p) \/ writeAuditAssigned(p) PROVE AllRecorded'
  <2>1. job[p] \in Subs
    BY <1>1 DEF doSub, writeAuditAssigned, IInv, DeliveryInv, CallsPrepared
  <2>2. ~Fails("audit") /\ ~Fails("after")
    BY <2>1 DEF GrantsRecorded
  <2> QED
    BY <1>1, <2>2 DEF doSub, writeAuditAssigned, MarkUnrecorded, AllRecorded
<1>2. CASE UNCHANGED unrecorded
  BY <1>2 DEF AllRecorded
<1> USE DEF grantVars
<1>3. CASE Environment \/ UNCHANGED vars
  BY <1>2, <1>3 DEF Environment, UserPays, GraceLapses, LockExpires, vars
<1>4. ASSUME NEW p \in Procs, Start(p) \/ Crash(p) PROVE AllRecorded'
  BY <1>2, <1>4 DEF Start, checkPendingLimit, CancelOrder, ExpireTimedOutOrders, Crash,
     VerifyOrderByOutTradeNo, HandlePaymentNotification, RetryFulfillment, Redeem
<1>5. ASSUME NEW p \in Procs, Order(p) PROVE AllRecorded'
  BY <1>2, <1>5 DEF Order, createOrderInTx, invokeProvider, checkPaid, PersistTradeNo,
     CancelPayment, cancelCore, confirmPayment, alreadyProcessed, ResetForRetry
<1>6. ASSUME NEW p \in Procs, Fulfill(p) PROVE AllRecorded'
  BY <1>1, <1>2, <1>6 DEF Fulfill, executeFulfillment, TakeRecharging, markCompleted,
     markFailed, resolveRedeemAction, CreateCode, acquireRedeemLock, CheckCode, Use,
     releaseRedeemLock, applyAffiliateRebateForOrder
<1> QED
  BY <1>3, <1>4, <1>5, <1>6 DEF Next

\* Every step is a payment, a delivery of an order that is paid for and not yet
\* delivered, or invisible to the contract.
LEMMA ContractStep ==
  IInv /\ AssignInv /\ AllRecorded /\ AllRecorded' /\ [Next]_vars => [Contract!Next]_(Contract!vars)
<1> SUFFICES ASSUME IInv, AssignInv, AllRecorded, AllRecorded', [Next]_vars
             PROVE  [Contract!Next]_(Contract!vars)
  OBVIOUS
<1> DEFINE paid == {o \in Orders : gateway[o] = "paid"}
           delivered == [o \in Orders |-> credited[o] + assigned[o]]
<1>1. ASSUME NEW o \in Orders, UserPays(o) PROVE [Contract!Next]_(Contract!vars)
  <2>1. delivered' = delivered
    BY <1>1 DEF UserPays, redeemVars, grantVars
  <2>2. CASE gateway' = [gateway EXCEPT ![o] = "paid"]
    <3>1. o \notin paid /\ paid' = paid \cup {o}
      BY <1>1, <2>2 DEF UserPays, IInv, TypeOK
    <3> QED
      BY <2>1, <3>1 DEF Contract!Next, Contract!Pay
  <2>3. CASE gateway' = [gateway EXCEPT ![o] = "mismatch"]
    <3>1. paid' = paid
      BY <1>1, <2>3 DEF UserPays, IInv, TypeOK
    <3> QED
      BY <2>1, <3>1 DEF Contract!vars
  <2> QED
    BY <1>1, <2>2, <2>3 DEF UserPays
<1>28. ASSUME NEW p \in Procs, Use(p) PROVE [Contract!Next]_(Contract!vars)
  <2> DEFINE o == job[p]
  <2>1. o \in Orders /\ paid' = paid
    BY <1>28 DEF Use, gatewayVars, IInv, TypeOK
  <2>2. CASE code[o] = "unused" /\ credited' = [credited EXCEPT ![o] = @ + 1]
    <3>1. gateway[o] = "paid" /\ o \notin Subs
      BY <2>1, <2>2 DEF IInv, PaidInv, OrdersPaid
    <3>2. credited[o] = 0 
      BY <2>1, <2>2 DEF IInv, DeliveryInv, CreditedOnce
    <3>3. assigned[o] = 0
      BY <2>1, <3>1 DEF IInv, PaidInv, OrdersPaid, TypeOK
    <3>4. assigned' = assigned
      BY <1>28 DEF Use, grantVars
    <3>5. \A x \in Orders : credited'[x] + assigned'[x]
                             = IF x = o THEN 1 ELSE credited[x] + assigned[x]
      BY <2>1, <2>2, <3>2, <3>3, <3>4 DEF IInv, TypeOK
    <3>7. delivered' = [delivered EXCEPT ![o] = 1]
      BY <2>1, <3>5
    <3>6. delivered[o] = 0
      BY <2>1, <3>2, <3>3
    <3> QED
      BY <2>1, <3>1, <3>6, <3>7 DEF Contract!Next, Contract!Deliver
  <2>3. CASE UNCHANGED credited
    BY <1>28, <2>1, <2>3 DEF Use, grantVars, Contract!vars
  <2> QED
    BY <1>28, <2>2, <2>3 DEF Use
<1>31. ASSUME NEW p \in Procs, doSub(p) PROVE [Contract!Next]_(Contract!vars)
  <2> DEFINE o == job[p]
  <2>1. o \in Orders /\ paid' = paid
    BY <1>31 DEF doSub, gatewayVars, IInv, TypeOK
  <2>2. credited' = credited
    BY <1>31 DEF doSub, redeemVars
  <2>3. CASE ~AssignedInAudit(o) /\ AddDays(o)
    <3>1. Fulfilling(p) /\ o \in Subs
      BY <1>31 DEF doSub, Fulfilling, FulfillCalls, RedeemCalls, IInv, LockInv, RedeemCallsOnly, DeliveryInv, CallsPrepared
    <3>2. gateway[o] = "paid"
      BY <2>1, <3>1 DEF IInv, LockInv, HeldIsRecharging, PaidInv, OrdersPaid
    <3>3. credited[o] = 0
      BY <2>1, <3>1 DEF IInv, PaidInv, OrdersPaid, DeliveryInv, CreditedOnce
    <3>4. assigned[o] = 0
      BY <1>31, <2>1, <2>3, <3>1 DEF doSub, AssignInv, AllRecorded, AssignedInAudit, FulfillersOf
    <3>5. \A x \in Orders : credited'[x] + assigned'[x]
                             = IF x = o THEN 1 ELSE credited[x] + assigned[x]
      BY <2>1, <2>2, <2>3, <3>3, <3>4 DEF AddDays, IInv, TypeOK
    <3>6. delivered[o] = 0
      BY <2>1, <3>3, <3>4
    <3>7. delivered' = [delivered EXCEPT ![o] = 1]
      BY <2>1, <3>5
    <3> QED
      BY <2>1, <3>2, <3>6, <3>7 DEF Contract!Next, Contract!Deliver
  <2>4. CASE UNCHANGED assigned
    BY <2>1, <2>2, <2>4 DEF Contract!vars
  <2>5. CASE AssignedInAudit(o) /\ ~UNCHANGED assigned
    <3>1. o \in unrecorded'
      BY <1>31, <2>5 DEF doSub, MarkUnrecorded
    <3> QED
      BY <3>1 DEF AllRecorded
  <2>6. ~UNCHANGED assigned => AddDays(o)
    BY <1>31 DEF doSub
  <2> QED
    BY <2>3, <2>4, <2>5, <2>6
<1> USE DEF Contract!vars, IInv, TypeOK, PaidInv, CallsPaid, Goto, Return,
            Begin, SetStatus, Touch, orderVars, gatewayVars, redeemVars, grantVars,
            procVars
<1>2. ASSUME NEW o \in Orders, GraceLapses(o) PROVE [Contract!Next]_(Contract!vars)
  BY <1>2 DEF GraceLapses
<1>3. ASSUME NEW o \in Orders, LockExpires(o) PROVE [Contract!Next]_(Contract!vars)
  BY <1>3 DEF LockExpires
<1>4. ASSUME NEW p \in Procs, NEW o \in Orders, CancelOrder(p, o) PROVE [Contract!Next]_(Contract!vars)
  BY <1>4 DEF CancelOrder
<1>5. ASSUME NEW p \in Procs, NEW o \in Orders, ExpireTimedOutOrders(p, o) PROVE [Contract!Next]_(Contract!vars)
  BY <1>5 DEF ExpireTimedOutOrders
<1>6. ASSUME NEW p \in Procs, NEW o \in Orders, VerifyOrderByOutTradeNo(p, o) PROVE [Contract!Next]_(Contract!vars)
  BY <1>6 DEF VerifyOrderByOutTradeNo
<1>7. ASSUME NEW p \in Procs, NEW o \in Orders, HandlePaymentNotification(p, o) PROVE [Contract!Next]_(Contract!vars)
  BY <1>7 DEF HandlePaymentNotification
<1>8. ASSUME NEW p \in Procs, NEW o \in Orders, RetryFulfillment(p, o) PROVE [Contract!Next]_(Contract!vars)
  BY <1>8 DEF RetryFulfillment
<1>9. ASSUME NEW p \in Procs, NEW o \in Orders, Redeem(p, o) PROVE [Contract!Next]_(Contract!vars)
  BY <1>9 DEF Redeem
<1>10. ASSUME NEW p \in Procs, checkPendingLimit(p) PROVE [Contract!Next]_(Contract!vars)
  BY <1>10 DEF checkPendingLimit
<1>11. ASSUME NEW p \in Procs, createOrderInTx(p) PROVE [Contract!Next]_(Contract!vars)
  BY <1>11 DEF createOrderInTx
<1>12. ASSUME NEW p \in Procs, invokeProvider(p) PROVE [Contract!Next]_(Contract!vars)
  BY <1>12 DEF invokeProvider
<1>13. ASSUME NEW p \in Procs, checkPaid(p) PROVE [Contract!Next]_(Contract!vars)
  BY <1>13 DEF checkPaid, NotPaid
<1>14. ASSUME NEW p \in Procs, PersistTradeNo(p) PROVE [Contract!Next]_(Contract!vars)
  BY <1>14 DEF PersistTradeNo
<1>15. ASSUME NEW p \in Procs, CancelPayment(p) PROVE [Contract!Next]_(Contract!vars)
  BY <1>15 DEF CancelPayment
<1>16. ASSUME NEW p \in Procs, cancelCore(p) PROVE [Contract!Next]_(Contract!vars)
  BY <1>16 DEF cancelCore
<1>17. ASSUME NEW p \in Procs, confirmPayment(p) PROVE [Contract!Next]_(Contract!vars)
  BY <1>17 DEF confirmPayment, Payable
<1>18. ASSUME NEW p \in Procs, alreadyProcessed(p) PROVE [Contract!Next]_(Contract!vars)
  BY <1>18 DEF alreadyProcessed
<1>19. ASSUME NEW p \in Procs, ResetForRetry(p) PROVE [Contract!Next]_(Contract!vars)
  BY <1>19 DEF ResetForRetry
<1>20. ASSUME NEW p \in Procs, executeFulfillment(p) PROVE [Contract!Next]_(Contract!vars)
  BY <1>20 DEF executeFulfillment
<1>21. ASSUME NEW p \in Procs, TakeRecharging(p) PROVE [Contract!Next]_(Contract!vars)
  BY <1>21 DEF TakeRecharging, Takeable
<1>22. ASSUME NEW p \in Procs, markCompleted(p) PROVE [Contract!Next]_(Contract!vars)
  BY <1>22 DEF markCompleted
<1>23. ASSUME NEW p \in Procs, markFailed(p) PROVE [Contract!Next]_(Contract!vars)
  BY <1>23 DEF markFailed
<1>24. ASSUME NEW p \in Procs, resolveRedeemAction(p) PROVE [Contract!Next]_(Contract!vars)
  BY <1>24 DEF resolveRedeemAction
<1>25. ASSUME NEW p \in Procs, CreateCode(p) PROVE [Contract!Next]_(Contract!vars)
  BY <1>25 DEF CreateCode
<1>26. ASSUME NEW p \in Procs, acquireRedeemLock(p) PROVE [Contract!Next]_(Contract!vars)
  BY <1>26 DEF acquireRedeemLock, RedeemFails
<1>27. ASSUME NEW p \in Procs, CheckCode(p) PROVE [Contract!Next]_(Contract!vars)
  BY <1>27 DEF CheckCode
<1>29. ASSUME NEW p \in Procs, releaseRedeemLock(p) PROVE [Contract!Next]_(Contract!vars)
  BY <1>29 DEF releaseRedeemLock, RedeemFails
<1>30. ASSUME NEW p \in Procs, applyAffiliateRebateForOrder(p) PROVE [Contract!Next]_(Contract!vars)
  BY <1>30 DEF applyAffiliateRebateForOrder
<1>32. ASSUME NEW p \in Procs, writeAuditAssigned(p) PROVE [Contract!Next]_(Contract!vars)
  BY <1>32 DEF writeAuditAssigned, MarkUnrecorded
<1>33. ASSUME NEW p \in Procs, Crash(p) PROVE [Contract!Next]_(Contract!vars)
  BY <1>33 DEF Crash
<1>34. ASSUME UNCHANGED vars PROVE [Contract!Next]_(Contract!vars)
  BY <1>34 DEF vars
<1> QED
  BY <1>1, <1>2, <1>3, <1>4, <1>5, <1>6, <1>7, <1>8, <1>9, <1>10, <1>11,
     <1>12, <1>13, <1>14, <1>15, <1>16, <1>17, <1>18, <1>19, <1>20, <1>21,
     <1>22, <1>23, <1>24, <1>25, <1>26, <1>27, <1>28, <1>29, <1>30, <1>31,
     <1>32, <1>33, <1>34
  DEF Next, Environment, Start, Order, Fulfill

-------------------------------------------------------------------------------
\* The two invariants hold together, whatever fails.
THEOREM AssignInvariant == Spec => [](IInv /\ AssignInv)
<1>1. Init => AssignInv
  BY DEF Init, AssignInv
<1>2. IInv /\ AssignInv /\ [Next]_vars => AssignInv'
  BY AssignStep
<1> QED
  BY Invariant, <1>1, <1>2, PTL DEF Spec

\* ExecuteSubscriptionFulfillment adds a plan's days once per order, however often
\* it is retried, except where an assignment was carried out and no audit row says
\* so, or the row could not be read.
THEOREM DaysAreAddedOnce == Spec => []AssignedOnce
<1>1. AssignInv /\ IInv => AssignedOnce
  BY DEF AssignInv, AssignedOnce, IInv, TypeOK
<1> QED
  BY AssignInvariant, <1>1, PTL

\* That exception needs a failing audit statement, or an assignment that is answered
\* with an error after its write; crashes and all other failures do not bring it about.
THEOREM EveryGrantIsRecorded == ASSUME GrantsRecorded PROVE Spec => []AllRecorded
<1>1. Init => AllRecorded
  BY DEF Init, AllRecorded
<1> QED
  BY <1>1, Invariant, RecordedStep, PTL DEF Spec

\* Where every assignment leaves its record, the service delivers only what was paid
\* for in full, and delivers it once.
THEOREM ContractHolds == ASSUME GrantsRecorded PROVE Spec => ContractSpec
<1>1. Init => Contract!Init
  BY DEF Init, Contract!Init
<1>2. /\ IInv /\ AssignInv /\ AllRecorded
      /\ (IInv /\ AssignInv /\ AllRecorded)'
      /\ [Next]_vars
      => [Contract!Next]_(Contract!vars)
  BY ContractStep
<1> QED
  BY AssignInvariant, EveryGrantIsRecorded, <1>1, <1>2, PTL DEF Spec, ContractSpec, Contract!Spec

-------------------------------------------------------------------------------
(* Orders that stay RECHARGING.                                                 *)

\* A step of handler p leaves every order that is RECHARGING with a fulfiller when p
\* is the fulfiller of those it makes RECHARGING, and does not leave its own.
LEMMA WorkedFrame ==
  ASSUME RechargingIsWorkedOn, NEW p \in Procs,
         \A q \in Procs \ {p} : pc'[q] = pc[q] /\ op'[q] = op[q] /\ job'[q] = job[q],
         \A o \in Orders : status'[o] = "RECHARGING" =>
           \/ status[o] = "RECHARGING" /\ (Fulfilling(p) => job[p] # o)
           \/ Fulfilling(p)' /\ job'[p] = o
  PROVE  RechargingIsWorkedOn'
<1> SUFFICES ASSUME NEW o \in Orders, status'[o] = "RECHARGING"
             PROVE  \E q \in Procs : Fulfilling(q)' /\ job'[q] = o
  BY DEF RechargingIsWorkedOn, FulfillersOf
<1>1. CASE Fulfilling(p)' /\ job'[p] = o
  BY <1>1
<1>2. CASE status[o] = "RECHARGING" /\ (Fulfilling(p) => job[p] # o)
  <2>1. PICK q \in Procs : Fulfilling(q) /\ job[q] = o
    BY <1>2 DEF RechargingIsWorkedOn, FulfillersOf
  <2>2. q # p
    BY <1>2, <2>1
  <2> QED
    BY <2>1, <2>2 DEF Fulfilling
<1> QED
  BY <1>1, <1>2

\* Where handlers live and their statements succeed, an order is left RECHARGING by
\* nobody: markCompleted and markFailed end the fulfilment and the status together.
LEMMA WorkedStep ==
  HandlersFinish /\ IInv /\ RechargingIsWorkedOn /\ [Next]_vars => RechargingIsWorkedOn'
<1> SUFFICES ASSUME HandlersFinish, IInv, RechargingIsWorkedOn, [Next]_vars
             PROVE  RechargingIsWorkedOn'
  OBVIOUS
<1>1. CASE Environment \/ UNCHANGED vars
  <2>1. UNCHANGED <<status, procVars>>
    BY <1>1 DEF Environment, UserPays, GraceLapses, LockExpires, vars, orderVars
  <2> QED
    BY <2>1 DEF RechargingIsWorkedOn, FulfillersOf, Fulfilling, procVars
<1> DEFINE Alone(p) == \A q \in Procs \ {p} : pc'[q] = pc[q] /\ op'[q] = op[q] /\ job'[q] = job[q]
           Goes(p)  == pc[p] \notin FulfillCalls \/ op[p] = "redeem"
           Stays(p) == pc'[p] \in FulfillCalls /\ op'[p] # "redeem" /\ job'[p] = job[p]
           Same     == \A o \in Orders : status'[o] = "RECHARGING" => status[o] = "RECHARGING"
<1>2. ASSUME NEW p \in Procs, Alone(p), Same, Goes(p) \/ Stays(p) PROVE RechargingIsWorkedOn'
  BY <1>2, WorkedFrame DEF Fulfilling
<1> USE DEF IInv, TypeOK, Goto, Begin, Return
<1>3. ASSUME NEW p \in Procs, Start(p) PROVE RechargingIsWorkedOn'
  <2>1. pc[p] = "idle" /\ UNCHANGED status /\ Alone(p)
    BY <1>3 DEF Start, checkPendingLimit, CancelOrder, ExpireTimedOutOrders,
         VerifyOrderByOutTradeNo, HandlePaymentNotification, RetryFulfillment, Redeem, orderVars
  <2> QED
    BY <1>2, <2>1 DEF FulfillCalls, RedeemCalls
<1>4. ASSUME NEW p \in Procs, Order(p) PROVE RechargingIsWorkedOn'
  <2>1. Alone(p)
    BY <1>4 DEF Order, createOrderInTx, invokeProvider, checkPaid, NotPaid, PersistTradeNo,
         CancelPayment, cancelCore, confirmPayment, alreadyProcessed, ResetForRetry
  <2>2. Goes(p)
    BY <1>4 DEF Order, createOrderInTx, invokeProvider, checkPaid, PersistTradeNo,
         CancelPayment, cancelCore, confirmPayment, alreadyProcessed, ResetForRetry,
         FulfillCalls, RedeemCalls
  <2>3. Same
    BY <1>4 DEF Order, createOrderInTx, invokeProvider, checkPaid, PersistTradeNo,
         CancelPayment, cancelCore, confirmPayment, alreadyProcessed, ResetForRetry,
         SetStatus, orderVars
  <2> QED
    BY <1>2, <2>1, <2>2, <2>3
<1>5. ASSUME NEW p \in Procs, executeFulfillment(p) PROVE RechargingIsWorkedOn'
  BY <1>2, <1>5 DEF executeFulfillment, FulfillCalls, RedeemCalls, orderVars
<1>6. ASSUME NEW p \in Procs, TakeRecharging(p) PROVE RechargingIsWorkedOn'
  <2>1. pc[p] = "take" /\ UNCHANGED <<op, job>> /\ Alone(p) /\ Goes(p)
    BY <1>6 DEF TakeRecharging, FulfillCalls, RedeemCalls
  <2>2. CASE UNCHANGED status
    BY <1>2, <2>1, <2>2
  <2>3. CASE /\ SetStatus(job[p], "RECHARGING")
             /\ Goto(p, IF job[p] \in Subs THEN "assign" ELSE "lookup")
    <3>1. pc'[p] \in FulfillCalls /\ op'[p] # "redeem"
      BY <2>1, <2>3 DEF FulfillCalls, RedeemCalls, LockInv, RedeemCallsOnly
    <3>2. \A o \in Orders : status'[o] = "RECHARGING" => status[o] = "RECHARGING" \/ o = job'[p]
      BY <2>1, <2>3 DEF SetStatus
    <3> QED
      BY <2>1, <3>1, <3>2, WorkedFrame DEF Fulfilling
  <2> QED
    BY <1>6, <2>2, <2>3 DEF TakeRecharging
<1>7. ASSUME NEW p \in Procs, markCompleted(p) \/ markFailed(p) PROVE RechargingIsWorkedOn'
  <2>1. CASE UNCHANGED status /\ Stays(p) /\ Alone(p)
    BY <1>2, <2>1
  <2>2. CASE \E s \in {"COMPLETED", "FAILED"} :
               status' = [status EXCEPT ![job[p]] = IF @ = "RECHARGING" THEN s ELSE @]
    <3>1. /\ status'[job[p]] # "RECHARGING"
          /\ \A o \in Orders : status'[o] = "RECHARGING" => status[o] = "RECHARGING"
      BY <2>2
    <3>2. Alone(p)
      BY <1>7 DEF markCompleted, markFailed
    <3> QED
      BY <3>1, <3>2, WorkedFrame
  <2> QED
    BY <1>7, <2>1, <2>2 DEF markCompleted, markFailed, HandlersFinish
<1>8. ASSUME NEW p \in Procs, Fulfill(p) PROVE RechargingIsWorkedOn'
  <2>1. CASE resolveRedeemAction(p) \/ CreateCode(p) \/ CheckCode(p) \/ Use(p)
             \/ applyAffiliateRebateForOrder(p) \/ doSub(p) \/ writeAuditAssigned(p)
    <3>1. Alone(p) /\ UNCHANGED status
      BY <2>1 DEF resolveRedeemAction, CreateCode, CheckCode, Use,
           applyAffiliateRebateForOrder, doSub, writeAuditAssigned, orderVars
    <3>2. pc'[p] \in FulfillCalls /\ UNCHANGED <<op, job>>
      BY <2>1 DEF resolveRedeemAction, CreateCode, CheckCode, Use,
           applyAffiliateRebateForOrder, doSub, writeAuditAssigned, FulfillCalls, RedeemCalls
    <3> QED
      BY <1>2, <3>1, <3>2
  <2>2. CASE acquireRedeemLock(p) \/ releaseRedeemLock(p)
    <3>1. Alone(p) /\ UNCHANGED <<status, op, job>>
      BY <2>2 DEF acquireRedeemLock, releaseRedeemLock, RedeemFails, orderVars
    <3>2. op[p] = "redeem" \/ pc'[p] \in FulfillCalls
      BY <2>2 DEF acquireRedeemLock, releaseRedeemLock, RedeemFails, FulfillCalls, RedeemCalls
    <3> QED
      BY <1>2, <3>1, <3>2
  <2> QED
    BY <1>5, <1>6, <1>7, <1>8, <2>1, <2>2 DEF Fulfill
<1> QED
  BY <1>1, <1>3, <1>4, <1>8 DEF Next, Crash, HandlersFinish, Fails

\* While handlers live and their statements succeed, a refused retry ("order is
\* being processed") always has a handler that is at work on the order.
THEOREM SomebodyRecharges ==
  ASSUME HandlersFinish
  PROVE  Spec => []RechargingIsWorkedOn
<1>1. Init => RechargingIsWorkedOn
  BY DEF Init, RechargingIsWorkedOn
<1> QED
  BY <1>1, Invariant, WorkedStep, PTL DEF Spec
===============================================================================
