------------------------- MODULE PaymentRefundProofs --------------------------
(***************************************************************************)
(* Proofs about PaymentRefund, for any orders and handlers.                *)
(***************************************************************************)
EXTENDS PaymentRefund, FiniteSetTheorems, TLAPS

-------------------------------------------------------------------------------
(* What a step does to the handlers.                                        *)

\* The record of a handler that is not running is well typed.
LEMMA IdleType == Idle \in Handlers
<1>1. (CHOOSE o \in Orders : TRUE) \in Orders
  BY OrdersAssumption
<1> QED
  BY <1>1, AmountAssumption
     DEF Idle, Handlers, Calls, HeldCalls, AllOps, Statuses, Refundable

\* The other handlers keep their records.
Others(p) == \A q \in Procs \ {p} : h'[q] = h[q]

\* The handler keeps its order and its operation.
Same(p) == h'[p].order = h[p].order /\ h'[p].op = h[p].op /\ h'[p].amount = h[p].amount

\* A handler that goes on to its next call.
LEMMA GotoDoes ==
  ASSUME TypeOK, NEW p \in Procs, NEW call \in Calls, Goto(p, call)
  PROVE  /\ h' \in [Procs -> Handlers] /\ Others(p) /\ Same(p)
         /\ h'[p].pc = call /\ h'[p].take = h[p].take /\ h'[p].ok = h[p].ok
BY DEF TypeOK, Handlers, Goto, Others, Same

\* The same with another deduction in mind.
GotoWith(p, call, n) == h' = [h EXCEPT ![p].pc = call, ![p].take = n]

\* What that does to the record.
LEMMA GotoTaking ==
  ASSUME TypeOK, NEW p \in Procs, NEW call \in Calls, NEW n \in Int, GotoWith(p, call, n)
  PROVE  /\ h' \in [Procs -> Handlers] /\ Others(p) /\ Same(p)
         /\ h'[p].pc = call /\ h'[p].take = n /\ h'[p].ok = h[p].ok
BY DEF TypeOK, Handlers, GotoWith, Others, Same

\* The same with the outcome at the gateway in mind.
LEMMA GotoRollback ==
  ASSUME TypeOK, NEW p \in Procs, NEW b \in BOOLEAN,
         h' = [h EXCEPT ![p].pc = "rollback", ![p].ok = b]
  PROVE  /\ h' \in [Procs -> Handlers] /\ Others(p) /\ Same(p)
         /\ h'[p].pc = "rollback" /\ h'[p].take = h[p].take /\ h'[p].ok = b
BY DEF TypeOK, Handlers, Others, Same, Calls, HeldCalls

\* A handler that begins, or ends, gets a record of its own.
LEMMA Becomes ==
  ASSUME TypeOK, NEW p \in Procs, NEW r \in Handlers, h' = [h EXCEPT ![p] = r]
  PROVE  h' \in [Procs -> Handlers] /\ Others(p) /\ h'[p] = r
BY DEF TypeOK, Others

\* A handler that ends.
LEMMA ReturnDoes ==
  ASSUME TypeOK, NEW p \in Procs, Return(p)
  PROVE  /\ h' \in [Procs -> Handlers] /\ Others(p) /\ h'[p] = Idle
         /\ h'[p].pc = "idle" /\ h'[p].op = "refund" /\ h'[p].take = 0 /\ ~h'[p].ok
<1>1. h' = [h EXCEPT ![p] = Idle]
  BY DEF Return
<1>2. h'[p] = Idle /\ h' \in [Procs -> Handlers] /\ Others(p)
  BY <1>1, IdleType, Becomes
<1> QED
  BY <1>2 DEF Idle

-------------------------------------------------------------------------------
(* Types.                                                                   *)

\* The smaller of two amounts.
LEMMA MinOfTwo == \A a, b \in Int : Min({a, b}) \in Int /\ Min({a, b}) <= a
<1> SUFFICES ASSUME NEW a \in Int, NEW b \in Int
             PROVE  Min({a, b}) \in Int /\ Min({a, b}) <= a
  OBVIOUS
<1>1. \E x \in {a, b} : \A y \in {a, b} : x <= y
  OBVIOUS
<1>2. Min({a, b}) = CHOOSE x \in {a, b} : \A y \in {a, b} : x <= y
  BY DEF Min
<1>3. Min({a, b}) \in {a, b} /\ \A y \in {a, b} : Min({a, b}) <= y
  BY <1>1, <1>2
<1> QED
  BY <1>3

\* The gateway keeps within what was paid.
Within == \A o \in Orders : settled[o] + pending[o] <= Amount

\* The columns, apart from the handlers.
RowsOK ==
  /\ orderType \in [Orders -> Types]
  /\ status \in [Orders -> Statuses]
  /\ refundAmount \in [Orders -> 0 .. Amount]
  /\ balance \in Int
  /\ days \in [Orders -> Nat \cup {Revoked}]
  /\ taken \in [Orders -> Int]
  /\ settled \in [Orders -> 0 .. Amount]
  /\ pending \in [Orders -> 0 .. Amount]
  /\ ended \in [Orders -> BOOLEAN]
  /\ audit \in [Orders -> SUBSET {"REFUND_ROLLBACK_FAILED", "REFUND_PENDING", "REFUND_SUCCESS"}]
  /\ pendingOK \in [Orders -> BOOLEAN]

\* TypeOK is the columns and the handlers.
LEMMA TypeSplit == TypeOK <=> RowsOK /\ h \in [Procs -> Handlers]
BY DEF TypeOK, RowsOK

\* Initially the orders are completed and nobody runs.
LEMMA TypeInit == Init => TypeOK /\ Within
<1> SUFFICES ASSUME Init PROVE TypeOK /\ Within
  OBVIOUS
<1>1. balance \in Int
  <2>1. IsFiniteSet(Orders \ Subs)
    BY OrdersAssumption, FS_Subset
  <2>2. Cardinality(Orders \ Subs) \in Nat
    BY <2>1, FS_CardinalityType
  <2> QED
    BY <2>2, AmountAssumption DEF Init
<1>2. h \in [Procs -> Handlers]
  BY IdleType DEF Init
<1>3. days \in [Orders -> Nat \cup {Revoked}]
  BY AmountAssumption DEF Init
<1> QED
  BY <1>1, <1>2, <1>3, AmountAssumption DEF Init, TypeOK, Within, Statuses, Refundable

\* A call of the subscription service leaves days and taken well typed.
LEMMA ExtendType ==
  ASSUME TypeOK, NEW o \in Orders, NEW n \in Int, NEW answer, ExtendSubscription(o, n, answer)
  PROVE  /\ days' \in [Orders -> Nat \cup {Revoked}]
         /\ taken' \in [Orders -> Int]
<1>1. days[o] \in Int /\ taken[o] \in Int
  BY DEF TypeOK, Revoked
<1> QED
  BY <1>1 DEF TypeOK, ExtendSubscription

\* So does the other one.
LEMMA RevokeType ==
  ASSUME TypeOK, NEW o \in Orders, NEW answer, RevokeSubscription(o, answer)
  PROVE  /\ days' \in [Orders -> Nat \cup {Revoked}]
         /\ taken' \in [Orders -> Int]
<1>1. days[o] \in Int /\ taken[o] \in Int
  BY DEF TypeOK, Revoked
<1> QED
  BY <1>1 DEF TypeOK, RevokeSubscription, Revoked

\* The gateway's answer keeps the refunds within what was paid.
LEMMA GatewayType ==
  ASSUME TypeOK, Within, NEW o \in Orders, NEW amt \in 0 .. Amount, NEW answer,
         GatewayAnswers(o, amt, answer)
  PROVE  /\ settled' \in [Orders -> 0 .. Amount]
         /\ pending' \in [Orders -> 0 .. Amount]
         /\ ended' \in [Orders -> BOOLEAN]
         /\ Within'
BY AmountAssumption DEF TypeOK, Within, GatewayAnswers, gatewayVars

\* Every step keeps the types, and the gateway within its bound.
LEMMA TypeStep == TypeOK /\ Within /\ [Next]_vars => TypeOK' /\ Within'
<1> SUFFICES ASSUME TypeOK, Within, [Next]_vars PROVE TypeOK' /\ Within'
  OBVIOUS
<1> USE AmountAssumption DEF orderVars, valueVars, gatewayVars, auditVars, Subs
<1>0. \A p \in Procs : h[p] \in Handlers
  BY DEF TypeOK
<1>1. CASE UserSpends
  BY <1>1 DEF UserSpends, TypeOK, Within
<1>2. ASSUME NEW o \in Orders, SubscriptionAges(o) PROVE TypeOK' /\ Within'
  BY <1>2 DEF SubscriptionAges, TypeOK, Within, Revoked
<1>3. ASSUME NEW o \in Orders, PendingEnds(o) PROVE TypeOK' /\ Within'
  BY <1>3 DEF PendingEnds, TypeOK, Within
<1>4. ASSUME NEW p \in Procs, Crash(p) PROVE TypeOK' /\ Within'
  BY <1>4, ReturnDoes DEF Crash, TypeOK, Within
<1>5. ASSUME NEW p \in Procs, NEW o \in Orders, validateRefundRequest(p, o)
      PROVE  TypeOK' /\ Within'
  <2>1. [Idle EXCEPT !.pc = "request", !.op = "request", !.order = o] \in Handlers
    BY IdleType DEF Handlers, Calls, AllOps
  <2> QED
    BY <1>5, <2>1, Becomes DEF validateRefundRequest, TypeOK, Within
<1>6. ASSUME NEW p \in Procs, RequestRefund(p) PROVE TypeOK' /\ Within'
  <2>1. h' \in [Procs -> Handlers]
    BY <1>6, ReturnDoes DEF RequestRefund
  <2> QED
    BY <1>6, <2>1 DEF RequestRefund, TypeOK, Within, SetStatus, Statuses, Refundable
<1>7. ASSUME NEW p \in Procs, NEW o \in Orders, PrepareRefund(p, o) PROVE TypeOK' /\ Within'
  <2>1. PICK amt \in Amounts, deduct \in BOOLEAN :
          h' = [h EXCEPT ![p] = [Idle EXCEPT !.pc = IF deduct THEN "plan" ELSE "execute",
                                             !.order = o, !.from = status[o], !.amount = amt]]
    BY <1>7 DEF PrepareRefund
  <2>2. [Idle EXCEPT !.pc = IF deduct THEN "plan" ELSE "execute",
                     !.order = o, !.from = status[o], !.amount = amt] \in Handlers
    <3>1. (IF deduct THEN "plan" ELSE "execute") \in Calls
      BY DEF Calls
    <3>2. status[o] \in Statuses /\ amt \in 0 .. Amount
      BY DEF Amounts, TypeOK
    <3> QED
      BY <3>1, <3>2, IdleType DEF Handlers
  <2>3. h' \in [Procs -> Handlers]
    BY <2>1, <2>2, Becomes
  <2> QED
    BY <1>7, <2>3 DEF PrepareRefund, TypeOK, Within
<1>8. ASSUME NEW p \in Procs, prepDeduct(p) PROVE TypeOK' /\ Within'
  <2>1. Min({h[p].amount, balance}) \in Int
    <3>1. h[p].amount \in Int /\ balance \in Int
      BY <1>0 DEF TypeOK, Handlers
    <3> QED
      BY <3>1, MinOfTwo
  <2>2. \/ \E n \in Int, call \in {"final_deduct", "execute"} : GotoWith(p, call, n)
        \/ Return(p)
    <3> DEFINE next == IF h[p].op = "finalize" THEN "final_deduct" ELSE "execute"
    <3>1. \/ GotoWith(p, next, Min({h[p].amount, balance}))
          \/ GotoWith(p, next, Amount) \/ GotoWith(p, next, 0) \/ Return(p)
      BY <1>8 DEF prepDeduct, GotoWith
    <3>2. next \in {"final_deduct", "execute"}
      OBVIOUS
    <3> HIDE DEF next
    <3> QED
      BY <2>1, <3>1, <3>2
  <2>3. h' \in [Procs -> Handlers]
    BY <2>2, GotoTaking, ReturnDoes DEF Calls
  <2> QED
    BY <1>8, <2>3 DEF prepDeduct, TypeOK, Within
<1>9. ASSUME NEW p \in Procs, ExecuteRefund(p) PROVE TypeOK' /\ Within'
  <2>1. h' \in [Procs -> Handlers]
    BY <1>9, GotoDoes, ReturnDoes DEF ExecuteRefund, Calls, HeldCalls
  <2> QED
    BY <1>9, <2>1 DEF ExecuteRefund, TypeOK, Within, SetStatus, Statuses
<1>10. ASSUME NEW p \in Procs, DeductBalance(p) PROVE TypeOK' /\ Within'
  <2>1. h' \in [Procs -> Handlers]
    <3>1. Goto(p, "gateway") \/ Goto(p, "restore") \/ GotoWith(p, "gateway", 0)
      BY <1>10 DEF DeductBalance, GotoWith
    <3> QED
      BY <3>1, GotoDoes, GotoTaking DEF Calls, HeldCalls
  <2>2. h[p].take \in Int
    BY <1>0 DEF Handlers
  <2> QED
    BY <1>10, <2>1, <2>2 DEF DeductBalance, TypeOK, Within
<1>11. ASSUME NEW p \in Procs, DeductDays(p) PROVE TypeOK' /\ Within'
  <2>1. h[p].take \in Int /\ h[p].order \in Orders
    BY <1>0 DEF Handlers
  <2>2. \/ \E call \in Calls : Goto(p, call)
        \/ Return(p)
        \/ \E call \in Calls : GotoWith(p, call, 0)
    <3>1. \/ Deducted(p) \/ Goto(p, "revoke") \/ Abandon(p)
          \/ GotoWith(p, IF h[p].op = "finalize" THEN "mark_ok" ELSE "gateway", 0)
      BY <1>11 DEF DeductDays, GotoWith
    <3> QED
      BY <3>1 DEF Deducted, Abandon, Calls, HeldCalls
  <2>3. h' \in [Procs -> Handlers]
    BY <2>2, GotoDoes, GotoTaking, ReturnDoes
  <2>4. days' \in [Orders -> Nat \cup {Revoked}] /\ taken' \in [Orders -> Int]
    <3>1. \/ \E answer : ExtendSubscription(h[p].order, -h[p].take, answer)
          \/ UNCHANGED <<days, taken>>
      BY <1>11 DEF DeductDays
    <3> QED
      BY <2>1, <3>1, ExtendType DEF TypeOK
  <2> QED
    BY <1>11, <2>3, <2>4 DEF DeductDays, TypeOK, Within
<1>12. ASSUME NEW p \in Procs, RevokeInstead(p) PROVE TypeOK' /\ Within'
  <2>1. h[p].order \in Orders
    BY <1>0 DEF Handlers
  <2>2. h' \in [Procs -> Handlers]
    BY <1>12, GotoDoes, ReturnDoes DEF RevokeInstead, Deducted, Abandon, Calls, HeldCalls
  <2>3. days' \in [Orders -> Nat \cup {Revoked}] /\ taken' \in [Orders -> Int]
    BY <1>12, <2>1, RevokeType DEF RevokeInstead
  <2> QED
    BY <1>12, <2>2, <2>3 DEF RevokeInstead, TypeOK, Within
<1>13. ASSUME NEW p \in Procs, gwRefund(p) PROVE TypeOK' /\ Within'
  <2>1. h[p].order \in Orders /\ h[p].amount \in 0 .. Amount
    BY <1>0 DEF Handlers
  <2>2. \/ Goto(p, "mark_ok")
        \/ \E b \in BOOLEAN : h' = [h EXCEPT ![p].pc = "rollback", ![p].ok = b]
    BY <1>13 DEF gwRefund
  <2>3. h' \in [Procs -> Handlers]
    BY <2>2, GotoDoes, GotoRollback DEF Calls, HeldCalls
  <2>4. \/ \E answer : GatewayAnswers(h[p].order, h[p].amount, answer)
        \/ UNCHANGED gatewayVars
    BY <1>13 DEF gwRefund
  <2>5. /\ settled' \in [Orders -> 0 .. Amount] /\ pending' \in [Orders -> 0 .. Amount]
        /\ ended' \in [Orders -> BOOLEAN] /\ Within'
    BY <2>1, <2>4, GatewayType DEF TypeOK, Within
  <2> QED
    BY <1>13, <2>3, <2>5 DEF gwRefund, TypeOK
<1>14. ASSUME NEW p \in Procs, RollbackRefund(p) PROVE TypeOK' /\ Within'
  <2>1. h[p].take \in Int /\ h[p].order \in Orders
    BY <1>0 DEF Handlers
  <2>2. \/ \E call \in Calls : Goto(p, call)
        \/ \E call \in Calls : GotoWith(p, call, 0)
    <3>1. \/ GotoWith(p, IF h[p].ok THEN "mark_pending" ELSE "restore", 0)
          \/ Goto(p, IF h[p].ok THEN "mark_pending" ELSE "mark_failed")
      BY <1>14 DEF RollbackRefund, GotoWith
    <3> QED
      BY <3>1 DEF Calls, HeldCalls
  <2>3. h' \in [Procs -> Handlers]
    BY <2>2, GotoDoes, GotoTaking
  <2>4. /\ days' \in [Orders -> Nat \cup {Revoked}] /\ taken' \in [Orders -> Int]
        /\ balance' \in Int
    <3>1. \/ \E answer : ExtendSubscription(h[p].order, h[p].take, answer) /\ UNCHANGED balance
          \/ UNCHANGED valueVars
          \/ /\ balance' = balance + h[p].take /\ UNCHANGED days
             /\ taken' = [taken EXCEPT ![h[p].order] = @ - h[p].take]
      BY <1>14 DEF RollbackRefund
    <3> QED
      BY <2>1, <3>1, ExtendType DEF TypeOK
  <2>5. audit' \in [Orders -> SUBSET {"REFUND_ROLLBACK_FAILED", "REFUND_PENDING", "REFUND_SUCCESS"}]
    <3>1. Log(h[p].order, "REFUND_ROLLBACK_FAILED") \/ UNCHANGED audit
      BY <1>14 DEF RollbackRefund
    <3> QED
      BY <3>1 DEF Log, TypeOK
  <2> QED
    BY <1>14, <2>3, <2>4, <2>5 DEF RollbackRefund, TypeOK, Within
<1>15. ASSUME NEW p \in Procs, restoreStatus(p) \/ handleGwFail(p) \/ finalizeRefundFailed(p)
       PROVE  TypeOK' /\ Within'
  <2>1. h' \in [Procs -> Handlers]
    BY <1>15, ReturnDoes DEF restoreStatus, handleGwFail, finalizeRefundFailed
  <2>2. status' \in [Orders -> Statuses]
    BY <1>15 DEF restoreStatus, handleGwFail, finalizeRefundFailed, TypeOK, SetStatus,
                 Statuses, Refundable
  <2> QED
    BY <1>15, <2>1, <2>2 DEF restoreStatus, handleGwFail, finalizeRefundFailed, TypeOK, Within
<1>16. ASSUME NEW p \in Procs, markRefundPending(p) \/ markRefundOk(p) PROVE TypeOK' /\ Within'
  <2>1. h' \in [Procs -> Handlers]
    BY <1>16, GotoDoes, ReturnDoes DEF markRefundPending, markRefundOk, Calls
  <2>2. h[p].amount \in 0 .. Amount
    BY <1>0 DEF Handlers
  <2>3. status' \in [Orders -> Statuses] /\ refundAmount' \in [Orders -> 0 .. Amount]
        /\ orderType' = orderType
    BY <1>16, <2>2 DEF markRefundPending, markRefundOk, TypeOK, SetStatus,
                 Statuses, Refundable, Final
  <2> QED
    BY <1>16, <2>1, <2>3 DEF markRefundPending, markRefundOk, TypeOK, Within
<1>17. ASSUME NEW p \in Procs, LogRefundPending(p) \/ LogRefundSuccess(p) PROVE TypeOK' /\ Within'
  <2>1. h' \in [Procs -> Handlers]
    BY <1>17, ReturnDoes DEF LogRefundPending, LogRefundSuccess
  <2>2. /\ audit' \in [Orders -> SUBSET {"REFUND_ROLLBACK_FAILED", "REFUND_PENDING", "REFUND_SUCCESS"}]
        /\ pendingOK' \in [Orders -> BOOLEAN]
    <3>1. h[p].order \in Orders
      BY <1>0 DEF Handlers
    <3>2. CASE LogRefundPending(p)
      <4>1. audit' \in [Orders -> SUBSET {"REFUND_ROLLBACK_FAILED", "REFUND_PENDING", "REFUND_SUCCESS"}]
        BY <3>1, <3>2 DEF LogRefundPending, TypeOK
      <4>2. \/ pendingOK' = pendingOK
            \/ \E b \in BOOLEAN : pendingOK' = [pendingOK EXCEPT ![h[p].order] = b]
        <5>1. (h[p].take <= 0) \in BOOLEAN
          OBVIOUS
        <5> QED
          BY <3>2, <5>1, Zenon DEF LogRefundPending
      <4>3. pendingOK' \in [Orders -> BOOLEAN]
        BY <4>2 DEF TypeOK
      <4> QED
        BY <4>1, <4>3
    <3>3. CASE LogRefundSuccess(p)
      BY <3>1, <3>3 DEF LogRefundSuccess, Log, TypeOK
    <3> QED
      BY <1>17, <3>2, <3>3
  <2> QED
    BY <1>17, <2>1, <2>2 DEF LogRefundPending, LogRefundSuccess, TypeOK, Within
<1>18. ASSUME NEW p \in Procs, NEW o \in Orders, QueryAndFinalizeRefund(p, o)
       PROVE  TypeOK' /\ Within'
  <2>1. [Idle EXCEPT !.pc = "query", !.op = "finalize", !.order = o, !.amount = refundAmount[o]]
          \in Handlers
    BY IdleType DEF Handlers, Calls, AllOps, TypeOK
  <2> QED
    BY <1>18, <2>1, Becomes DEF QueryAndFinalizeRefund, TypeOK, Within
<1>19. ASSUME NEW p \in Procs, QueryRefund(p) PROVE TypeOK' /\ Within'
  <2>1. h[p].amount \in Int
    BY <1>0 DEF Handlers
  <2>2. \/ \E n \in Int, call \in {"plan", "final_deduct"} : GotoWith(p, call, n)
        \/ Goto(p, "final_failed")
        \/ Return(p)
    BY <1>19, <2>1 DEF QueryRefund, GotoWith
  <2>3. h' \in [Procs -> Handlers]
    BY <2>2, GotoTaking, GotoDoes, ReturnDoes DEF Calls
  <2> QED
    BY <1>19, <2>3 DEF QueryRefund, TypeOK, Within
<1>20. ASSUME NEW p \in Procs, applyRefundFinalDeduction(p) PROVE TypeOK' /\ Within'
  <2>1. h' \in [Procs -> Handlers]
    <3>1. Goto(p, "mark_ok") \/ GotoWith(p, "mark_ok", 0) \/ Return(p)
      BY <1>20 DEF applyRefundFinalDeduction, GotoWith
    <3> QED
      BY <3>1, GotoDoes, GotoTaking, ReturnDoes DEF Calls, HeldCalls
  <2>2. h[p].take \in Int
    BY <1>0 DEF Handlers
  <2> QED
    BY <1>20, <2>1, <2>2 DEF applyRefundFinalDeduction, TypeOK, Within
<1>21. CASE UNCHANGED vars
  BY <1>21 DEF vars, TypeOK, Within
<1> QED
  BY <1>1, <1>2, <1>3, <1>4, <1>5, <1>6, <1>7, <1>8, <1>9, <1>10, <1>11, <1>12, <1>13, <1>14,
     <1>15, <1>16, <1>17, <1>18, <1>19, <1>20, <1>21
     DEF Next, Start, Refund, Finalize

\* Every column, amount and local variable always has one of its values, whatever
\* operations run and whatever fails.
THEOREM TypeCorrect == Spec => []TypeOK
<1>1. TypeOK /\ Within /\ [Next]_vars => TypeOK' /\ Within'
  BY TypeStep
<1>2. Spec => [](TypeOK /\ Within)
  BY TypeInit, <1>1, PTL DEF Spec
<1> QED
  BY <1>2, PTL

-------------------------------------------------------------------------------
(* The handler and its order.                                               *)

\* The next call of the handler, with what it will deduct and the gateway's outcome.
Moves(p, call, n, b) ==
  Others(p) /\ Same(p) /\ h'[p].pc = call /\ h'[p].take = n /\ h'[p].ok = b

\* The handler answers, and is free again.
Ends(p) == Others(p) /\ h'[p].pc = "idle" /\ h'[p].op = "refund" /\ h'[p].take = 0

\* Each way the model changes a record, as one of these.
LEMMA GotoMoves ==
  ASSUME TypeOK, NEW p \in Procs
  PROVE  /\ \A call : Goto(p, call) => Moves(p, call, h[p].take, h[p].ok)
         /\ \A call, n : GotoWith(p, call, n) => Moves(p, call, n, h[p].ok)
         /\ \A b : h' = [h EXCEPT ![p].pc = "rollback", ![p].ok = b]
                     => Moves(p, "rollback", h[p].take, b)
         /\ Return(p) => Ends(p)
<1>1. h \in [Procs -> Handlers]
  BY DEF TypeOK
<1>2. Return(p) => Ends(p)
  BY ReturnDoes DEF Ends
<1>3. \A call : Goto(p, call) => Moves(p, call, h[p].take, h[p].ok)
  BY <1>1 DEF Goto, Moves, Others, Same, Handlers
<1>4. \A call, n : GotoWith(p, call, n) => Moves(p, call, n, h[p].ok)
  BY <1>1 DEF GotoWith, Moves, Others, Same, Handlers
<1>5. \A b : h' = [h EXCEPT ![p].pc = "rollback", ![p].ok = b]
               => Moves(p, "rollback", h[p].take, b)
  BY <1>1 DEF Moves, Others, Same, Handlers
<1> QED
  BY <1>2, <1>3, <1>4, <1>5

\* The record a handler begins with.
Begins(p, call, kind, o, amt) ==
  /\ Others(p) /\ h'[p].pc = call /\ h'[p].op = kind /\ h'[p].order = o
  /\ h'[p].amount = amt /\ h'[p].take = 0 /\ h'[p].ok = FALSE

\* The three operations begin.
LEMMA StartDoes ==
  ASSUME TypeOK, NEW p \in Procs, NEW o \in Orders
  PROVE  /\ validateRefundRequest(p, o) => Begins(p, "request", "request", o, 0)
         /\ PrepareRefund(p, o) => \E amt \in Amounts, call \in {"plan", "execute"} :
                                     Begins(p, call, "refund", o, amt)
         /\ QueryAndFinalizeRefund(p, o) => Begins(p, "query", "finalize", o, refundAmount[o])
<1>1. h \in [Procs -> Handlers]
  BY DEF TypeOK
<1>2. validateRefundRequest(p, o) => Begins(p, "request", "request", o, 0)
  BY <1>1 DEF validateRefundRequest, Begins, Others, Idle
<1>3. ASSUME PrepareRefund(p, o)
      PROVE  \E amt \in Amounts, call \in {"plan", "execute"} : Begins(p, call, "refund", o, amt)
  <2>1. PICK amt \in Amounts, deduct \in BOOLEAN :
          h' = [h EXCEPT ![p] = [Idle EXCEPT !.pc = IF deduct THEN "plan" ELSE "execute",
                                             !.order = o, !.from = status[o], !.amount = amt]]
    BY <1>3 DEF PrepareRefund
  <2>2. Begins(p, IF deduct THEN "plan" ELSE "execute", "refund", o, amt)
    BY <1>1, <2>1 DEF Begins, Others, Idle
  <2> QED
    BY <2>2
<1>4. QueryAndFinalizeRefund(p, o) => Begins(p, "query", "finalize", o, refundAmount[o])
  BY <1>1 DEF QueryAndFinalizeRefund, Begins, Others, Idle
<1> QED
  BY <1>2, <1>3, <1>4

-------------------------------------------------------------------------------
(* The status as a lock.                                                    *)

\* Which operation makes which call, for one handler.
CallsFit(p) ==
  /\ h[p].op = "finalize" =>
       /\ "finalize" \in Ops
       /\ h[p].pc \in {"query", "plan", "final_deduct", "revoke", "mark_ok",
                       "final_failed", "note_ok"}
  /\ h[p].pc \in {"query", "final_deduct", "final_failed"} => h[p].op = "finalize"
  /\ h[p].pc \in {"plan", "revoke"} /\ h[p].op = "finalize" => h[p].order \in Subs

\* A step of one handler cannot unfit the others.
LEMMA OneFits ==
  ASSUME HandlerInv, NEW p \in Procs, Others(p), UNCHANGED orderType, CallsFit(p)'
  PROVE  HandlerInv'
BY DEF HandlerInv, CallsFit, Others, Subs

\* Every handler fits.
LEMMA AllFit == HandlerInv <=> \A p \in Procs : CallsFit(p)
BY DEF HandlerInv, CallsFit

\* Nobody else is busy with the order.
Alone(p, o) == \A q \in Procs \ {p} : Busy(q) => h[q].order # o

\* A busy handler is alone with its order.
LEMMA BusyAlone ==
  ASSUME LockInv, NEW p \in Procs, Busy(p)
  PROVE  Alone(p, h[p].order)
BY DEF LockInv, Alone

\* Busy only depends on the handler's own record.
LEMMA OthersBusy ==
  ASSUME NEW p \in Procs, Others(p)
  PROVE  \A q \in Procs \ {p} : (Busy(q)' <=> Busy(q)) /\ h'[q] = h[q]
BY DEF Others, Busy

\* A handler alone with an order may write its status, and be busy with it afterwards.
LEMMA LockFrame ==
  ASSUME TypeOK, LockInv, NEW p \in Procs, NEW o \in Orders, Others(p), Alone(p, o),
         \A x \in Orders \ {o} : status'[x] = status[x],
         Busy(p)' => /\ h'[p].order = o
                     /\ status'[o] = IF h'[p].op = "finalize" THEN "REFUND_PENDING" ELSE "REFUNDING"
  PROVE  LockInv'
<1>1. \A q \in Procs \ {p} : h'[q] = h[q] /\ (Busy(q)' <=> Busy(q)) /\ h[q].order \in Orders
  BY OthersBusy DEF TypeOK, Handlers
<1>2. \A q, r \in Procs : Busy(q)' /\ Busy(r)' /\ h'[q].order = h'[r].order => q = r
  BY <1>1 DEF LockInv, Alone
<1>3. ASSUME NEW q \in Procs, Busy(q)'
      PROVE  status'[h'[q].order] =
               IF h'[q].op = "finalize" THEN "REFUND_PENDING" ELSE "REFUNDING"
  BY <1>1, <1>3 DEF LockInv, Alone
<1> QED
  BY <1>2, <1>3 DEF LockInv

\* A handler that is not busy afterwards, and leaves the status alone.
LEMMA LockLeft ==
  ASSUME LockInv, NEW p \in Procs, Others(p), UNCHANGED status, ~Busy(p)'
  PROVE  LockInv'
BY OthersBusy DEF LockInv

\* The status a busy handler goes by.
LEMMA BusyStatus ==
  ASSUME LockInv, NEW p \in Procs, Busy(p)
  PROVE  status[h[p].order] = IF h[p].op = "finalize" THEN "REFUND_PENDING" ELSE "REFUNDING"
BY DEF LockInv

\* Where a finalisation never meets another handler, a refundable order, and one
\* about to be finalised, has nobody else busy with it.
LEMMA FreeAlone ==
  ASSUME Serial, TypeOK, HandlerInv, LockInv, NEW p \in Procs, NEW o \in Orders,
         status[o] \in Refundable
  PROVE  Alone(p, o)
<1> SUFFICES ASSUME NEW q \in Procs \ {p}, Busy(q), h[q].order = o PROVE FALSE
  BY DEF Alone
<1>1. h[q].op # "finalize"
  BY DEF Serial, HandlerInv
<1> QED
  BY <1>1, BusyStatus DEF Refundable

\* Most calls of a handler either leave the statuses alone, or write the status of
\* the order it is busy with and leave it.
LEMMA KeepsLock ==
  ASSUME TypeOK, HandlerInv, LockInv, NEW p \in Procs, Others(p), UNCHANGED orderType,
         CallsFit(p)',
         \/ UNCHANGED status /\ (Busy(p)' => Busy(p) /\ Same(p))
         \/ Busy(p) /\ ~Busy(p)' /\ \A x \in Orders \ {h[p].order} : status'[x] = status[x]
  PROVE  HandlerInv' /\ LockInv'
<1>1. HandlerInv'
  BY OneFits
<1>2. h[p].order \in Orders
  BY DEF TypeOK, Handlers
<1>3. CASE UNCHANGED status /\ ~Busy(p)'
  BY <1>1, <1>3, LockLeft
<1>4. CASE UNCHANGED status /\ Busy(p) /\ Same(p)
  BY <1>1, <1>2, <1>4, BusyAlone, BusyStatus, LockFrame DEF Same
<1>5. CASE Busy(p) /\ ~Busy(p)' /\ \A x \in Orders \ {h[p].order} : status'[x] = status[x]
  BY <1>1, <1>2, <1>5, BusyAlone, LockFrame
<1> QED
  BY <1>3, <1>4, <1>5

\* Where a finalisation never meets another handler, every step keeps the lock.
LEMMA LockStep ==
  ASSUME Serial, TypeOK, HandlerInv, LockInv, [Next]_vars
  PROVE  HandlerInv' /\ LockInv'
<1> USE DEF orderVars, valueVars, gatewayVars, auditVars
<1>0. \A p \in Procs : h[p] \in Handlers /\ CallsFit(p)
  BY AllFit DEF TypeOK
<1>1. CASE UNCHANGED <<orderVars, h>>
  BY <1>1 DEF HandlerInv, LockInv, Busy, Subs
<1>2. ASSUME NEW p \in Procs, Crash(p) PROVE HandlerInv' /\ LockInv'
  <2>1. Ends(p)
    BY <1>2, GotoMoves DEF Crash
  <2> QED
    BY <1>2, <2>1, KeepsLock DEF Crash, Ends, CallsFit, Busy, HeldCalls
<1>3. ASSUME NEW p \in Procs, NEW o \in Orders, validateRefundRequest(p, o)
      PROVE  HandlerInv' /\ LockInv'
  <2>1. Begins(p, "request", "request", o, 0)
    BY <1>3, StartDoes
  <2> QED
    BY <1>3, <2>1, KeepsLock DEF validateRefundRequest, Begins, CallsFit, Busy, HeldCalls
<1>4. ASSUME NEW p \in Procs, NEW o \in Orders, PrepareRefund(p, o)
      PROVE  HandlerInv' /\ LockInv'
  <2>1. \E amt \in Amounts, call \in {"plan", "execute"} : Begins(p, call, "refund", o, amt)
    BY <1>4, StartDoes
  <2> QED
    BY <1>4, <2>1, KeepsLock DEF PrepareRefund, Begins, CallsFit, Busy, HeldCalls
<1>5. ASSUME NEW p \in Procs, NEW o \in Orders, QueryAndFinalizeRefund(p, o)
      PROVE  HandlerInv' /\ LockInv'
  <2>1. Begins(p, "query", "finalize", o, refundAmount[o])
    BY <1>5, StartDoes
  <2>2. CallsFit(p)'
    BY <1>5, <2>1 DEF QueryAndFinalizeRefund, Begins, CallsFit
  <2>3. Alone(p, o)
    BY <1>5, FreeAlone DEF QueryAndFinalizeRefund, Refundable
  <2> QED
    BY <1>5, <2>1, <2>2, <2>3, OneFits, LockFrame DEF QueryAndFinalizeRefund, Begins
<1>6. ASSUME NEW p \in Procs, RequestRefund(p) PROVE HandlerInv' /\ LockInv'
  <2>1. Ends(p)
    BY <1>6, GotoMoves DEF RequestRefund
  <2>2. Others(p) /\ ~Busy(p)' /\ CallsFit(p)' /\ UNCHANGED orderType
    BY <1>6, <2>1 DEF RequestRefund, Ends, CallsFit, Busy, HeldCalls
  <2>3. CASE UNCHANGED status
    BY <2>2, <2>3, KeepsLock
  <2>4. CASE status[h[p].order] = "COMPLETED" /\ SetStatus(h[p].order, "REFUND_REQUESTED")
    <3>1. h[p].order \in Orders /\ Alone(p, h[p].order)
      BY <1>0, <2>4, FreeAlone DEF Handlers, Refundable
    <3> QED
      BY <2>2, <2>4, <3>1, OneFits, LockFrame DEF SetStatus, TypeOK
  <2> QED
    BY <1>6, <2>3, <2>4 DEF RequestRefund
<1>7. ASSUME NEW p \in Procs, prepDeduct(p) PROVE HandlerInv' /\ LockInv'
  <2> DEFINE next == IF h[p].op = "finalize" THEN "final_deduct" ELSE "execute"
  <2>1. Ends(p) \/ \E n : Moves(p, next, n, h[p].ok)
    BY <1>7, GotoMoves DEF prepDeduct, GotoWith
  <2>2. CallsFit(p)' /\ Others(p) /\ (Busy(p)' => Busy(p) /\ Same(p))
    BY <1>0, <1>7, <2>1 DEF prepDeduct, Ends, Moves, Same, CallsFit, Busy, HeldCalls
  <2> QED
    BY <1>7, <2>2, KeepsLock DEF prepDeduct
<1>8. ASSUME NEW p \in Procs, ExecuteRefund(p) PROVE HandlerInv' /\ LockInv'
  <2>1. h[p].order \in Orders /\ h[p].op # "finalize" /\ ~Busy(p)
    BY <1>0, <1>8 DEF ExecuteRefund, CallsFit, Handlers, Busy, HeldCalls
  <2>2. CASE Return(p) /\ UNCHANGED status
    BY <1>8, <2>2, GotoMoves, KeepsLock DEF ExecuteRefund, Ends, CallsFit, Busy, HeldCalls
  <2>3. CASE /\ Executable(h[p].order) /\ SetStatus(h[p].order, "REFUNDING")
             /\ Goto(p, IF h[p].take > 0 THEN "deduct" ELSE "gateway")
    <3>1. Moves(p, IF h[p].take > 0 THEN "deduct" ELSE "gateway", h[p].take, h[p].ok)
      BY <2>3, GotoMoves
    <3>2. Others(p) /\ CallsFit(p)' /\ h'[p].op # "finalize" /\ h'[p].order = h[p].order
      BY <2>1, <3>1 DEF Moves, Same, CallsFit
    <3>3. Alone(p, h[p].order)
      BY <2>1, <2>3, FreeAlone DEF Executable
    <3> QED
      BY <1>8, <2>1, <2>3, <3>2, <3>3, OneFits, LockFrame DEF ExecuteRefund, SetStatus, TypeOK
  <2> QED
    BY <1>8, <2>2, <2>3 DEF ExecuteRefund
<1>9. ASSUME NEW p \in Procs, DeductBalance(p) PROVE HandlerInv' /\ LockInv'
  <2>1. \E call \in {"gateway", "restore"} : \E n : Moves(p, call, n, h[p].ok)
    BY <1>9, GotoMoves DEF DeductBalance, GotoWith
  <2> QED
    BY <1>0, <1>9, <2>1, KeepsLock DEF DeductBalance, Moves, Same, CallsFit, Busy, HeldCalls
<1>10. ASSUME NEW p \in Procs, DeductDays(p) \/ RevokeInstead(p) PROVE HandlerInv' /\ LockInv'
  <2>1. \/ Deducted(p) \/ Abandon(p)
        \/ Goto(p, "revoke") /\ h[p].order \in Subs
        \/ GotoWith(p, IF h[p].op = "finalize" THEN "mark_ok" ELSE "gateway", 0)
    BY <1>10 DEF DeductDays, RevokeInstead, GotoWith
  <2>2. \/ \E n : Moves(p, IF h[p].op = "finalize" THEN "mark_ok" ELSE "gateway", n, h[p].ok)
        \/ Moves(p, "revoke", h[p].take, h[p].ok) /\ h[p].order \in Subs
        \/ Moves(p, "restore", h[p].take, h[p].ok) /\ h[p].op # "finalize"
        \/ Ends(p)
    BY <2>1, GotoMoves DEF Deducted, Abandon
  <2>3. Busy(p) /\ UNCHANGED <<orderType, status>>
    BY <1>0, <1>10 DEF DeductDays, RevokeInstead, Busy, CallsFit, HeldCalls
  <2>4. CallsFit(p)' /\ Others(p) /\ (Busy(p)' => Same(p))
    BY <1>0, <2>2, <2>3 DEF Ends, Moves, Same, CallsFit, Busy, HeldCalls, Subs
  <2> QED
    BY <2>3, <2>4, KeepsLock
<1>11. ASSUME NEW p \in Procs, gwRefund(p) PROVE HandlerInv' /\ LockInv'
  <2>1. \E call \in {"mark_ok", "rollback"} : \E b : Moves(p, call, h[p].take, b)
    BY <1>11, GotoMoves DEF gwRefund
  <2> QED
    BY <1>0, <1>11, <2>1, KeepsLock DEF gwRefund, Moves, Same, CallsFit, Busy, HeldCalls
<1>12. ASSUME NEW p \in Procs, RollbackRefund(p) PROVE HandlerInv' /\ LockInv'
  <2>1. \E call \in {"mark_pending", "mark_failed", "restore"} : \E n : Moves(p, call, n, h[p].ok)
    <3>1. \/ GotoWith(p, IF h[p].ok THEN "mark_pending" ELSE "restore", 0)
          \/ Goto(p, IF h[p].ok THEN "mark_pending" ELSE "mark_failed")
      BY <1>12 DEF RollbackRefund, GotoWith
    <3> QED
      BY <3>1, GotoMoves
  <2> QED
    BY <1>0, <1>12, <2>1, KeepsLock DEF RollbackRefund, Moves, Same, CallsFit, Busy, HeldCalls
<1>13. ASSUME NEW p \in Procs, restoreStatus(p) \/ handleGwFail(p) \/ finalizeRefundFailed(p)
       PROVE  HandlerInv' /\ LockInv'
  <2>1. Ends(p) /\ UNCHANGED orderType
    BY <1>13, GotoMoves DEF restoreStatus, handleGwFail, finalizeRefundFailed
  <2>2. Busy(p) /\ \A x \in Orders \ {h[p].order} : status'[x] = status[x]
    BY <1>0, <1>13 DEF restoreStatus, handleGwFail, finalizeRefundFailed, SetStatus, Busy,
                       CallsFit, HeldCalls, TypeOK
  <2> QED
    BY <2>1, <2>2, KeepsLock DEF Ends, CallsFit, Busy, HeldCalls
<1>14. ASSUME NEW p \in Procs, markRefundPending(p) \/ markRefundOk(p)
       PROVE  HandlerInv' /\ LockInv'
  <2>1. \/ Ends(p)
        \/ h[p].pc = "mark_pending" /\ Moves(p, "note_pending", h[p].take, h[p].ok)
        \/ h[p].pc = "mark_ok" /\ Moves(p, "note_ok", h[p].take, h[p].ok)
    BY <1>14, GotoMoves DEF markRefundPending, markRefundOk
  <2>2. Busy(p) /\ UNCHANGED orderType /\ \A x \in Orders \ {h[p].order} : status'[x] = status[x]
    BY <1>0, <1>14 DEF markRefundPending, markRefundOk, SetStatus, Busy, HeldCalls, TypeOK
  <2>3. Others(p) /\ CallsFit(p)' /\ ~Busy(p)'
    BY <1>0, <2>1 DEF Ends, Moves, Same, CallsFit, Busy, HeldCalls
  <2> QED
    BY <2>2, <2>3, KeepsLock
<1>15. ASSUME NEW p \in Procs, LogRefundPending(p) \/ LogRefundSuccess(p)
       PROVE  HandlerInv' /\ LockInv'
  <2>1. Ends(p) /\ UNCHANGED orderVars
    BY <1>15, GotoMoves DEF LogRefundPending, LogRefundSuccess
  <2> QED
    BY <2>1, KeepsLock DEF Ends, CallsFit, Busy, HeldCalls
<1>16. ASSUME NEW p \in Procs, QueryRefund(p) PROVE HandlerInv' /\ LockInv'
  <2>1. \/ Ends(p)
        \/ Moves(p, "final_failed", h[p].take, h[p].ok)
        \/ \E n : Moves(p, "final_deduct", n, h[p].ok)
        \/ h[p].order \in Subs /\ \E n : Moves(p, "plan", n, h[p].ok)
    <3> DEFINE next(ok) == IF ok /\ h[p].order \in Subs THEN "plan" ELSE "final_deduct"
               amt(ok) == IF ok /\ h[p].order \notin Subs THEN h[p].amount ELSE 0
    <3>1. \/ Return(p) \/ Goto(p, "final_failed")
          \/ \E ok \in BOOLEAN : GotoWith(p, next(ok), amt(ok))
      BY <1>16 DEF QueryRefund, GotoWith, RollbackOK, TypeOK
    <3> QED
      BY <3>1, GotoMoves
  <2>2. Others(p) /\ CallsFit(p)' /\ (Busy(p)' => Busy(p) /\ Same(p))
    BY <1>0, <1>16, <2>1 DEF QueryRefund, Ends, Moves, Same, CallsFit, Busy, HeldCalls, Subs
  <2> QED
    BY <1>16, <2>2, KeepsLock DEF QueryRefund
<1>17. ASSUME NEW p \in Procs, applyRefundFinalDeduction(p) PROVE HandlerInv' /\ LockInv'
  <2>1. Ends(p) \/ \E n : Moves(p, "mark_ok", n, h[p].ok)
    BY <1>17, GotoMoves DEF applyRefundFinalDeduction, GotoWith
  <2>2. Others(p) /\ CallsFit(p)' /\ (Busy(p)' => Busy(p) /\ Same(p))
    BY <1>0, <1>17, <2>1 DEF applyRefundFinalDeduction, Ends, Moves, Same, CallsFit, Busy, HeldCalls
  <2> QED
    BY <1>17, <2>2, KeepsLock DEF applyRefundFinalDeduction
<1>18. CASE UserSpends \/ (\E o \in Orders : PendingEnds(o) \/ SubscriptionAges(o)) \/ UNCHANGED vars
  BY <1>1, <1>18 DEF UserSpends, PendingEnds, SubscriptionAges, vars
<1> QED
  BY <1>2, <1>3, <1>4, <1>5, <1>6, <1>7, <1>8, <1>9, <1>10, <1>11, <1>12, <1>13, <1>14, <1>15,
     <1>16, <1>17, <1>18
     DEF Next, Start, Refund, Finalize

-------------------------------------------------------------------------------
(* What is said of the gateway.                                             *)

\* A handler alone with an order may change what it, or the gateway, says of it.
LEMMA PaidFrame ==
  ASSUME TypeOK, GatewayInv, NEW p \in Procs, NEW o \in Orders, Others(p), Alone(p, o),
         \A x \in Orders \ {o} :
           /\ status'[x] = status[x] /\ refundAmount'[x] = refundAmount[x]
           /\ settled'[x] = settled[x] /\ pending'[x] = pending[x] /\ ended'[x] = ended[x],
         OrderPaid(o)', HandlerPaid(p)'
  PROVE  GatewayInv'
<1>1. \A x \in Orders \ {o} : OrderPaid(x)'
  BY DEF GatewayInv, OrderPaid, Promised
<1>2. ASSUME NEW q \in Procs \ {p} PROVE HandlerPaid(q)'
  <2>1. h'[q] = h[q] /\ (Busy(q)' <=> Busy(q)) /\ h[q].order \in Orders /\ HandlerPaid(q)
    BY OthersBusy DEF TypeOK, Handlers, GatewayInv
  <2>2. CASE Busy(q)
    <3>1. h[q].order \in Orders \ {o}
      BY <2>1, <2>2 DEF Alone
    <3> QED
      BY <2>1, <3>1 DEF HandlerPaid, Promised
  <2>3. CASE ~Busy(q)
    BY <2>1, <2>3 DEF HandlerPaid, Busy, HeldCalls
  <2> QED
    BY <2>2, <2>3
<1> QED
  BY <1>1, <1>2 DEF GatewayInv

\* A handler may go on as long as what it says itself is so.
LEMMA PaidLeft ==
  ASSUME TypeOK, GatewayInv, NEW p \in Procs, Others(p),
         UNCHANGED <<status, refundAmount, gatewayVars>>, HandlerPaid(p)'
  PROVE  GatewayInv'
<1>1. \A o \in Orders : OrderPaid(o)'
  BY DEF GatewayInv, OrderPaid, Promised, gatewayVars
<1>2. \A q \in Procs \ {p} : HandlerPaid(q)'
  BY OthersBusy DEF GatewayInv, HandlerPaid, Promised, gatewayVars
<1> QED
  BY <1>1, <1>2 DEF GatewayInv

\* A free handler says nothing.
LEMMA EndsPaid == ASSUME NEW p \in Procs, Ends(p) PROVE HandlerPaid(p)'
BY DEF Ends, HandlerPaid, Busy

\* A promise is kept by the end of the pending refund.
LEMMA PendingKept ==
  ASSUME TypeOK, NEW o \in Orders, PendingEnds(o), NEW x \in Orders, NEW amt \in 0 .. Amount
  PROVE  /\ Promised(x, amt) => Promised(x, amt)'
         /\ settled'[x] >= settled[x]
         /\ settled'[x] + pending'[x] <= settled[x] + pending[x]
<1>1. settled[x] \in Nat /\ pending[x] \in Nat
  BY DEF TypeOK
<1> QED
  BY <1>1 DEF TypeOK, PendingEnds, Promised

\* The records and amounts of an order are numbers.
LEMMA AmountTypes ==
  ASSUME TypeOK
  PROVE  /\ \A o \in Orders : /\ refundAmount[o] \in 0 .. Amount /\ settled[o] \in 0 .. Amount
                              /\ pending[o] \in 0 .. Amount /\ status[o] \in Statuses
         /\ \A p \in Procs : h[p].order \in Orders /\ h[p].amount \in 0 .. Amount
BY DEF TypeOK, Handlers

\* The end of a pending refund keeps what orders and handlers say.
LEMMA PaidPending ==
  ASSUME TypeOK, GatewayInv, NEW o \in Orders, PendingEnds(o) PROVE GatewayInv'
<1>1. UNCHANGED <<status, refundAmount, h>>
  BY DEF PendingEnds, orderVars
<1>2. ASSUME NEW x \in Orders PROVE OrderPaid(x)'
  <2>1. /\ settled'[x] \in Nat /\ settled[x] \in Nat /\ refundAmount[x] \in 0 .. Amount
        /\ pending[x] \in Nat /\ pending'[x] \in Nat /\ Amount \in Nat
    BY AmountAssumption DEF TypeOK, PendingEnds
  <2> QED
    BY <1>1, <2>1, PendingKept DEF GatewayInv, OrderPaid
<1>3. ASSUME NEW q \in Procs PROVE HandlerPaid(q)'
  <2>1. h[q].order \in Orders /\ h[q].amount \in 0 .. Amount
    BY AmountTypes
  <2>2. settled'[h[q].order] \in Nat /\ settled[h[q].order] \in Nat
    BY <2>1 DEF TypeOK, PendingEnds
  <2>3. Busy(q)' <=> Busy(q)
    BY <1>1 DEF Busy
  <2> QED
    BY <1>1, <2>1, <2>2, <2>3, PendingKept DEF GatewayInv, HandlerPaid
<1> QED
  BY <1>2, <1>3 DEF GatewayInv

\* What the gateway answers is so.
LEMMA AnswersPaid ==
  ASSUME TypeOK, GatewayInv, NEW o \in Orders, NEW amt \in 0 .. Amount, NEW answer,
         GatewayAnswers(o, amt, answer)
  PROVE  /\ settled'[o] + pending'[o] <= Amount
         /\ answer = "success" => settled'[o] >= amt
         /\ answer = "pending" => pending'[o] >= amt
         /\ \A x \in Orders \ {o} :
              settled'[x] = settled[x] /\ pending'[x] = pending[x] /\ ended'[x] = ended[x]
<1>1. settled[o] \in Nat /\ pending[o] \in Nat /\ amt \in Nat /\ Amount \in Nat
  BY AmountAssumption DEF TypeOK
<1>2. settled[o] + pending[o] <= Amount
  BY DEF GatewayInv, OrderPaid
<1> QED
  BY <1>1, <1>2 DEF TypeOK, GatewayAnswers, gatewayVars

\* Where a finalisation never meets another handler, every step keeps what orders
\* and handlers say of the gateway.
LEMMA GatewayStep ==
  ASSUME Serial, TypeOK, HandlerInv, LockInv, GatewayInv, [Next]_vars
  PROVE  GatewayInv'
<1> USE DEF orderVars, valueVars, gatewayVars, auditVars
<1>0. \A p \in Procs : h[p] \in Handlers /\ CallsFit(p) /\ HandlerPaid(p)
  BY AllFit DEF TypeOK, GatewayInv
<1>1. CASE UNCHANGED <<orderVars, gatewayVars, h>>
  BY <1>1 DEF GatewayInv, OrderPaid, HandlerPaid, Promised, Busy
<1>2. ASSUME NEW p \in Procs, Crash(p) PROVE GatewayInv'
  <2>1. Ends(p)
    BY <1>2, GotoMoves DEF Crash
  <2> QED
    BY <1>2, <2>1, PaidLeft, EndsPaid DEF Crash, Ends
<1>3. ASSUME NEW p \in Procs, NEW o \in Orders, validateRefundRequest(p, o) PROVE GatewayInv'
  <2>1. Begins(p, "request", "request", o, 0)
    BY <1>3, StartDoes
  <2> QED
    BY <1>3, <2>1, PaidLeft DEF validateRefundRequest, Begins, HandlerPaid
<1>4. ASSUME NEW p \in Procs, NEW o \in Orders, PrepareRefund(p, o) PROVE GatewayInv'
  <2>1. \E amt \in Amounts, call \in {"plan", "execute"} : Begins(p, call, "refund", o, amt)
    BY <1>4, StartDoes
  <2> QED
    BY <1>4, <2>1, PaidLeft DEF PrepareRefund, Begins, HandlerPaid
<1>5. ASSUME NEW p \in Procs, NEW o \in Orders, QueryAndFinalizeRefund(p, o) PROVE GatewayInv'
  <2>1. Begins(p, "query", "finalize", o, refundAmount[o])
    BY <1>5, StartDoes
  <2> QED
    BY <1>5, <2>1, PaidLeft DEF QueryAndFinalizeRefund, Begins, HandlerPaid
<1>6. ASSUME NEW p \in Procs, RequestRefund(p) PROVE GatewayInv'
  <2>0. PICK o \in Orders : o = h[p].order
    BY AmountTypes
  <2>1. Ends(p) /\ o \in Orders
    BY <1>6, <2>0, GotoMoves, AmountTypes DEF RequestRefund
  <2>2. CASE UNCHANGED orderVars
    BY <1>6, <2>0, <2>1, <2>2, PaidLeft, EndsPaid DEF RequestRefund, Ends
  <2>3. CASE /\ status[o] = "COMPLETED" /\ SetStatus(h[p].order, "REFUND_REQUESTED")
             /\ refundAmount' = [refundAmount EXCEPT ![o] = Amount]
    <3>1. Alone(p, o)
      BY <2>0, <2>1, <2>3, FreeAlone DEF Refundable
    <3>2. OrderPaid(o)'
      BY <1>6, <2>0, <2>1, <2>3 DEF RequestRefund, GatewayInv, OrderPaid, SetStatus, TypeOK, Final
    <3> QED
      BY <1>6, <2>0, <2>1, <2>3, <3>1, <3>2, PaidFrame, EndsPaid
         DEF RequestRefund, Ends, SetStatus, TypeOK
  <2> QED
    BY <1>6, <2>0, <2>2, <2>3 DEF RequestRefund
<1>7. ASSUME NEW p \in Procs, prepDeduct(p) PROVE GatewayInv'
  <2> DEFINE next == IF h[p].op = "finalize" THEN "final_deduct" ELSE "execute"
  <2>1. Ends(p) \/ \E n : Moves(p, next, n, h[p].ok)
    BY <1>7, GotoMoves DEF prepDeduct, GotoWith
  <2>2. ASSUME NEW n, Moves(p, next, n, h[p].ok) PROVE HandlerPaid(p)'
    BY <1>0, <1>7, <2>2 DEF prepDeduct, Moves, Same, HandlerPaid, Busy
  <2> QED
    BY <1>7, <2>1, <2>2, PaidLeft, EndsPaid DEF prepDeduct, Moves, Ends
<1>8. ASSUME NEW p \in Procs, ExecuteRefund(p) PROVE GatewayInv'
  <2>0. PICK o \in Orders : o = h[p].order
    BY AmountTypes
  <2>1. o \in Orders /\ h[p].op # "finalize"
    BY <1>0, <1>8, <2>0, AmountTypes DEF ExecuteRefund, CallsFit
  <2>2. CASE Return(p) /\ UNCHANGED status
    BY <1>8, <2>0, <2>2, GotoMoves, PaidLeft, EndsPaid DEF ExecuteRefund, Ends
  <2>3. CASE /\ Executable(o) /\ SetStatus(h[p].order, "REFUNDING")
             /\ Goto(p, IF h[p].take > 0 THEN "deduct" ELSE "gateway")
    <3>1. Moves(p, IF h[p].take > 0 THEN "deduct" ELSE "gateway", h[p].take, h[p].ok)
      BY <2>3, GotoMoves
    <3>2. HandlerPaid(p)' /\ Others(p)
      BY <2>1, <3>1 DEF Moves, Same, HandlerPaid
    <3>3. Alone(p, o)
      BY <2>1, <2>3, FreeAlone DEF Executable
    <3>4. OrderPaid(o)'
      BY <1>8, <2>0, <2>1, <2>3 DEF ExecuteRefund, GatewayInv, OrderPaid, SetStatus, TypeOK, Final
    <3> QED
      BY <1>8, <2>0, <2>1, <2>3, <3>2, <3>3, <3>4, PaidFrame DEF ExecuteRefund, SetStatus, TypeOK
  <2> QED
    BY <1>8, <2>0, <2>2, <2>3 DEF ExecuteRefund
<1>9. ASSUME NEW p \in Procs, DeductBalance(p) PROVE GatewayInv'
  <2>1. \E call \in {"gateway", "restore"} : \E n : Moves(p, call, n, h[p].ok)
    BY <1>9, GotoMoves DEF DeductBalance, GotoWith
  <2>2. Others(p) /\ HandlerPaid(p)'
    BY <1>0, <1>9, <2>1 DEF DeductBalance, Moves, Same, HandlerPaid, CallsFit
  <2> QED
    BY <1>9, <2>2, PaidLeft DEF DeductBalance
<1>10. ASSUME NEW p \in Procs, DeductDays(p) \/ RevokeInstead(p) PROVE GatewayInv'
  <2>1. \/ Deducted(p) \/ Abandon(p) \/ Goto(p, "revoke")
        \/ GotoWith(p, IF h[p].op = "finalize" THEN "mark_ok" ELSE "gateway", 0)
    BY <1>10 DEF DeductDays, RevokeInstead, GotoWith
  <2>2. \/ \E n : Moves(p, IF h[p].op = "finalize" THEN "mark_ok" ELSE "gateway", n, h[p].ok)
        \/ Moves(p, "revoke", h[p].take, h[p].ok)
        \/ Moves(p, "restore", h[p].take, h[p].ok) /\ h[p].op # "finalize"
        \/ Ends(p)
    BY <2>1, GotoMoves DEF Deducted, Abandon
  <2>3. UNCHANGED <<status, refundAmount, gatewayVars>>
    BY <1>10 DEF DeductDays, RevokeInstead
  <2>4. h[p].op = "finalize" => h[p].pc \in {"final_deduct", "revoke"}
    BY <1>0, <1>10 DEF DeductDays, RevokeInstead, CallsFit
  <2>5. h[p].op = "finalize" => /\ settled[h[p].order] >= h[p].amount
                                /\ h[p].amount = refundAmount[h[p].order]
    BY <1>0, <2>4 DEF HandlerPaid, Busy
  <2>6. HandlerPaid(p)'
    BY <2>2, <2>3, <2>5, EndsPaid DEF Moves, Same, HandlerPaid, Busy
  <2> QED
    BY <2>2, <2>3, <2>6, PaidLeft DEF Moves, Ends
<1>11. ASSUME NEW p \in Procs, gwRefund(p) PROVE GatewayInv'
  <2>0. PICK o \in Orders : o = h[p].order
    BY AmountTypes
  <2>1. o \in Orders /\ h[p].amount \in 0 .. Amount /\ h[p].op # "finalize" /\ Busy(p)
    BY <1>0, <1>11, <2>0, AmountTypes DEF gwRefund, CallsFit, Busy, HeldCalls
  <2>2. Alone(p, o) /\ status[o] = "REFUNDING"
    BY <2>0, <2>1, BusyAlone, BusyStatus
  <2>3. CASE o \in Untraced
    <3>1. Moves(p, "mark_ok", h[p].take, h[p].ok)
      BY <1>11, <2>0, <2>3, GotoMoves DEF gwRefund
    <3>2. Others(p) /\ HandlerPaid(p)'
      BY <2>0, <2>1, <2>3, <3>1 DEF Moves, Same, HandlerPaid
    <3> QED
      BY <1>11, <2>0, <2>3, <3>2, PaidLeft DEF gwRefund
  <2>4. CASE o \notin Untraced
    <3>1. PICK answer \in {"success", "pending", "refused"} :
            /\ GatewayAnswers(o, h[p].amount, answer)
            /\ \/ answer = "success" /\ Goto(p, "mark_ok")
               \/ answer = "pending" /\ h' = [h EXCEPT ![p].pc = "rollback", ![p].ok = TRUE]
               \/ h' = [h EXCEPT ![p].pc = "rollback", ![p].ok = FALSE]
      BY <1>11, <2>0, <2>4 DEF gwRefund
    <3>2. \/ answer = "success" /\ Moves(p, "mark_ok", h[p].take, h[p].ok)
          \/ answer = "pending" /\ Moves(p, "rollback", h[p].take, TRUE)
          \/ Moves(p, "rollback", h[p].take, FALSE)
      BY <3>1, GotoMoves
    <3>3. /\ settled'[o] + pending'[o] <= Amount
          /\ answer = "success" => settled'[o] >= h[p].amount
          /\ answer = "pending" => pending'[o] >= h[p].amount
          /\ \A x \in Orders \ {o} :
               settled'[x] = settled[x] /\ pending'[x] = pending[x] /\ ended'[x] = ended[x]
      BY <2>0, <2>1, <3>1, AnswersPaid
    <3>4. UNCHANGED <<status, refundAmount>>
      BY <1>11 DEF gwRefund
    <3>5. OrderPaid(o)'
      BY <2>0, <2>2, <3>3, <3>4 DEF OrderPaid, Final
    <3>6. Others(p) /\ HandlerPaid(p)'
      BY <2>0, <2>1, <3>2, <3>3 DEF Moves, Same, HandlerPaid, Promised
    <3> QED
      BY <2>1, <2>2, <3>3, <3>4, <3>5, <3>6, PaidFrame
  <2> QED
    BY <2>3, <2>4
<1>12. ASSUME NEW p \in Procs, RollbackRefund(p) PROVE GatewayInv'
  <2>1. \/ h[p].ok /\ \E n : Moves(p, "mark_pending", n, h[p].ok)
        \/ \E call \in {"mark_failed", "restore"} : \E n : Moves(p, call, n, h[p].ok)
    <3>1. \/ GotoWith(p, IF h[p].ok THEN "mark_pending" ELSE "restore", 0)
          \/ Goto(p, IF h[p].ok THEN "mark_pending" ELSE "mark_failed")
      BY <1>12 DEF RollbackRefund, GotoWith
    <3> QED
      BY <3>1, GotoMoves
  <2>2. Others(p) /\ HandlerPaid(p)'
    BY <1>0, <1>12, <2>1 DEF RollbackRefund, Moves, Same, HandlerPaid, Promised, CallsFit
  <2> QED
    BY <1>12, <2>2, PaidLeft DEF RollbackRefund
<1>13. ASSUME NEW p \in Procs, restoreStatus(p) \/ handleGwFail(p) \/ finalizeRefundFailed(p)
       PROVE  GatewayInv'
  <2>0. PICK o \in Orders : o = h[p].order
    BY AmountTypes
  <2>1. Ends(p) /\ UNCHANGED <<refundAmount, gatewayVars>>
    BY <1>13, GotoMoves DEF restoreStatus, handleGwFail, finalizeRefundFailed
  <2>2. Busy(p) /\ o \in Orders
    BY <1>0, <1>13, <2>0, AmountTypes DEF restoreStatus, handleGwFail, finalizeRefundFailed, Busy,
                                    CallsFit, HeldCalls
  <2>3. CASE UNCHANGED status
    BY <2>1, <2>3, PaidLeft, EndsPaid DEF Ends
  <2>4. CASE \E s \in {"REFUND_REQUESTED", "COMPLETED", "REFUND_FAILED"} : SetStatus(o, s)
    <3>1. OrderPaid(o)'
      BY <2>1, <2>2, <2>4 DEF GatewayInv, OrderPaid, SetStatus, TypeOK, Final
    <3> QED
      BY <2>0, <2>1, <2>2, <2>4, <3>1, BusyAlone, PaidFrame, EndsPaid DEF Ends, SetStatus, TypeOK
  <2> QED
    BY <1>13, <2>0, <2>3, <2>4 DEF restoreStatus, handleGwFail, finalizeRefundFailed
<1>14. ASSUME NEW p \in Procs, markRefundPending(p) \/ markRefundOk(p) PROVE GatewayInv'
  <2>0. PICK o \in Orders : o = h[p].order
    BY AmountTypes
  <2>1. Busy(p) /\ o \in Orders
    BY <1>14, <2>0, AmountTypes DEF markRefundPending, markRefundOk, Busy, HeldCalls
  <2>2. Alone(p, o)
    BY <2>0, <2>1, BusyAlone
  <2>3. CASE Return(p) /\ UNCHANGED orderVars
    BY <1>14, <2>0, <2>3, GotoMoves, PaidLeft, EndsPaid DEF markRefundPending, markRefundOk, Ends
  <2>4. CASE /\ h[p].pc = "mark_pending" /\ SetStatus(o, "REFUND_PENDING")
             /\ refundAmount' = [refundAmount EXCEPT ![o] = h[p].amount]
             /\ Goto(p, "note_pending") /\ UNCHANGED gatewayVars
    <3>1. Moves(p, "note_pending", h[p].take, h[p].ok)
      BY <2>4, GotoMoves
    <3>2. Others(p) /\ HandlerPaid(p)'
      BY <1>0, <2>0, <2>4, <3>1 DEF Moves, Same, HandlerPaid, CallsFit
    <3>3. Promised(o, h[p].amount)
      BY <1>0, <2>0, <2>4 DEF HandlerPaid
    <3>4. status'[o] = "REFUND_PENDING" /\ refundAmount'[o] = h[p].amount
      BY <2>1, <2>4 DEF SetStatus, TypeOK
    <3>5. OrderPaid(o)'
      BY <2>1, <2>4, <3>3, <3>4 DEF GatewayInv, OrderPaid, Promised, Final
    <3> QED
      BY <2>1, <2>2, <2>4, <3>2, <3>5, PaidFrame DEF SetStatus, TypeOK
  <2>5. CASE /\ h[p].pc = "mark_ok" /\ Goto(p, "note_ok") /\ UNCHANGED gatewayVars
             /\ \E s \in Final : SetStatus(o, s)
             /\ refundAmount' = [refundAmount EXCEPT ![o] = h[p].amount]
    <3>1. Moves(p, "note_ok", h[p].take, h[p].ok)
      BY <2>5, GotoMoves
    <3>2. Others(p) /\ HandlerPaid(p)'
      BY <1>0, <2>0, <2>5, <3>1 DEF Moves, Same, HandlerPaid, Busy, HeldCalls
    <3>3. o \notin Untraced => settled[o] >= h[p].amount
      BY <1>0, <2>0, <2>5 DEF HandlerPaid
    <3>4. status'[o] \in Final /\ refundAmount'[o] = h[p].amount
      BY <2>1, <2>5 DEF SetStatus, TypeOK
    <3>5. OrderPaid(o)'
      BY <2>1, <2>5, <3>3, <3>4 DEF GatewayInv, OrderPaid, Final
    <3> QED
      BY <2>1, <2>2, <2>5, <3>2, <3>5, PaidFrame DEF SetStatus, TypeOK
  <2> QED
    BY <1>14, <2>0, <2>3, <2>4, <2>5 DEF markRefundPending, markRefundOk, Final
<1>15. ASSUME NEW p \in Procs, LogRefundPending(p) \/ LogRefundSuccess(p) PROVE GatewayInv'
  <2>1. Ends(p) /\ UNCHANGED <<orderVars, gatewayVars>>
    BY <1>15, GotoMoves DEF LogRefundPending, LogRefundSuccess
  <2> QED
    BY <2>1, PaidLeft, EndsPaid DEF Ends
<1>16. ASSUME NEW p \in Procs, QueryRefund(p) PROVE GatewayInv'
  <2> DEFINE o == h[p].order
  <2>1. /\ h[p].op = "finalize" /\ Busy(p) /\ o \in Orders /\ h[p].amount \in Nat
        /\ settled[o] \in Nat /\ pending[o] \in Nat /\ h[p].amount = refundAmount[o]
    BY <1>0, <1>16, AmountTypes DEF QueryRefund, CallsFit, HandlerPaid, Busy
  <2>2. Promised(o, h[p].amount)
    BY <2>1, BusyStatus DEF GatewayInv, OrderPaid
  <2>3. \/ Ends(p)
        \/ Moves(p, "final_failed", h[p].take, h[p].ok)
        \/ pending[o] = 0 /\ ended[o] /\ \E call, n : Moves(p, call, n, h[p].ok)
    <3> DEFINE next(ok) == IF ok /\ o \in Subs THEN "plan" ELSE "final_deduct"
               amt(ok) == IF ok /\ o \notin Subs THEN h[p].amount ELSE 0
    <3>1. \/ Return(p) \/ Goto(p, "final_failed")
          \/ pending[o] = 0 /\ ended[o] /\ GotoWith(p, next(RollbackOK(o)), amt(RollbackOK(o)))
          \/ pending[o] = 0 /\ ended[o] /\ GotoWith(p, next(TRUE), amt(TRUE))
      BY <1>16 DEF QueryRefund, GotoWith
    <3> QED
      BY <3>1, GotoMoves
  <2>4. UNCHANGED <<status, refundAmount, gatewayVars>>
    BY <1>16 DEF QueryRefund
  <2>5. Others(p) /\ HandlerPaid(p)'
    <3>1. CASE Ends(p)
      BY <3>1, EndsPaid DEF Ends
    <3>2. CASE Moves(p, "final_failed", h[p].take, h[p].ok)
      BY <2>1, <2>4, <3>2 DEF Moves, Same, HandlerPaid
    <3>3. CASE pending[o] = 0 /\ ended[o] /\ \E call, n : Moves(p, call, n, h[p].ok)
      <4>1. settled[o] >= h[p].amount
        BY <2>1, <2>2, <3>3 DEF Promised
      <4>2. Promised(o, h[p].amount)'
        BY <2>1, <2>2, <2>4, <3>3 DEF Promised, Moves, Same
      <4> QED
        BY <2>1, <2>4, <3>3, <4>1, <4>2 DEF Moves, Same, HandlerPaid
    <3> QED
      BY <2>3, <3>1, <3>2, <3>3
  <2> QED
    BY <2>4, <2>5, PaidLeft
<1>17. ASSUME NEW p \in Procs, applyRefundFinalDeduction(p) PROVE GatewayInv'
  <2>1. Ends(p) \/ \E n : Moves(p, "mark_ok", n, h[p].ok)
    BY <1>17, GotoMoves DEF applyRefundFinalDeduction, GotoWith
  <2>2. h[p].op = "finalize" /\ Busy(p) /\ UNCHANGED <<status, refundAmount, gatewayVars>>
    BY <1>0, <1>17 DEF applyRefundFinalDeduction, CallsFit, Busy
  <2>3. settled[h[p].order] >= h[p].amount /\ h[p].amount = refundAmount[h[p].order]
    BY <1>0, <1>17, <2>2 DEF applyRefundFinalDeduction, HandlerPaid
  <2>4. Others(p) /\ HandlerPaid(p)'
    BY <2>1, <2>2, <2>3, EndsPaid DEF Ends, Moves, Same, HandlerPaid
  <2> QED
    BY <2>2, <2>4, PaidLeft
<1>18. ASSUME NEW o \in Orders, PendingEnds(o) PROVE GatewayInv'
  BY <1>18, PaidPending
<1>19. CASE UserSpends \/ (\E o \in Orders : SubscriptionAges(o)) \/ UNCHANGED vars
  BY <1>1, <1>19 DEF UserSpends, SubscriptionAges, vars
<1> QED
  BY <1>2, <1>3, <1>4, <1>5, <1>6, <1>7, <1>8, <1>9, <1>10, <1>11, <1>12, <1>13, <1>14, <1>15,
     <1>16, <1>17, <1>18, <1>19
     DEF Next, Start, Refund, Finalize

-------------------------------------------------------------------------------
(* Refunds where a finalisation never meets another handler.                *)

\* Initially no order is held, promised or refunded.
LEMMA LockInit == Init => HandlerInv /\ LockInv /\ GatewayInv
<1> SUFFICES ASSUME Init PROVE HandlerInv /\ LockInv /\ GatewayInv
  OBVIOUS
<1>1. \A p \in Procs : h[p].pc = "idle" /\ h[p].op = "refund"
  BY DEF Init, Idle
<1>2. HandlerInv /\ LockInv
  BY <1>1 DEF HandlerInv, LockInv, Busy, HeldCalls
<1>3. \A p \in Procs : HandlerPaid(p)
  BY <1>1 DEF HandlerPaid
<1>4. \A o \in Orders : OrderPaid(o)
  BY AmountAssumption DEF Init, OrderPaid, Final
<1> QED
  BY <1>2, <1>3, <1>4 DEF GatewayInv

\* What is always so then.
LEMMA SerialInv ==
  ASSUME Serial
  PROVE  Spec => [](TypeOK /\ Within /\ HandlerInv /\ LockInv /\ GatewayInv)
<1> DEFINE Inv == TypeOK /\ Within /\ HandlerInv /\ LockInv /\ GatewayInv
<1>1. Init => Inv
  BY TypeInit, LockInit
<1>2. Inv /\ [Next]_vars => Inv'
  BY TypeStep, LockStep, GatewayStep
<1> QED
  BY <1>1, <1>2, PTL DEF Spec

\* REFUNDING is a lock: two administrators who press "refund" together never both
\* get as far as taking balance or days or calling the gateway, whatever fails.
THEOREM OneRefunder ==
  ASSUME Serial
  PROVE  Spec => []SingleRefunder
<1>1. LockInv => SingleRefunder
  BY DEF LockInv, SingleRefunder, Holds, Busy
<1> QED
  BY <1>1, SerialInv, PTL

\* An order that the gateway knows of is only called refunded when the gateway paid
\* the amount back, now or later, whatever fails.
THEOREM RefundedSettled ==
  ASSUME Serial
  PROVE  Spec => []RefundedIsSettled
<1>1. GatewayInv => RefundedIsSettled
  BY DEF GatewayInv, OrderPaid, RefundedIsSettled
<1> QED
  BY <1>1, SerialInv, PTL

\* No handler writes the status of a refunded order: whoever writes one goes by
\* another status, and that is still the status of the order.
LEMMA RefundedStep ==
  ASSUME Serial, TypeOK, HandlerInv, LockInv, [Next]_vars
  PROVE  \A o \in Orders : status[o] \in Final => status'[o] = status[o]
<1> SUFFICES ASSUME NEW o \in Orders, status[o] \in Final PROVE status'[o] = status[o]
  OBVIOUS
<1> USE DEF orderVars
<1>1. ASSUME NEW p \in Procs, Busy(p) PROVE h[p].order # o
  BY <1>1, BusyStatus DEF Final
<1>2. \A p \in Procs : CallsFit(p) /\ h[p].order \in Orders
  BY AllFit, AmountTypes
<1>3. ASSUME NEW p \in Procs, RequestRefund(p) \/ ExecuteRefund(p) PROVE status'[o] = status[o]
  BY <1>2, <1>3 DEF RequestRefund, ExecuteRefund, Executable, SetStatus, Refundable, Final, TypeOK
<1>4. ASSUME NEW p \in Procs, restoreStatus(p) \/ handleGwFail(p) \/ finalizeRefundFailed(p)
                             \/ markRefundPending(p) \/ markRefundOk(p)
      PROVE  status'[o] = status[o]
  <2>1. Busy(p)
    BY <1>2, <1>4 DEF restoreStatus, handleGwFail, finalizeRefundFailed, markRefundPending,
                      markRefundOk, Busy, CallsFit, HeldCalls
  <2>2. h[p].order # o
    BY <1>1, <2>1
  <2> QED
    BY <1>2, <1>4, <2>2 DEF restoreStatus, handleGwFail, finalizeRefundFailed, markRefundPending,
                            markRefundOk, SetStatus, TypeOK
<1>5. ASSUME NEW p \in Procs, Refund(p) \/ Finalize(p) PROVE status'[o] = status[o]
  BY <1>3, <1>4, <1>5 DEF Refund, Finalize, prepDeduct, DeductBalance, DeductDays, RevokeInstead,
     gwRefund, RollbackRefund, LogRefundPending, LogRefundSuccess, QueryRefund,
     applyRefundFinalDeduction
<1>6. ASSUME NEW p \in Procs, Start(p) \/ Crash(p) PROVE status'[o] = status[o]
  BY <1>6 DEF Start, Crash, validateRefundRequest, PrepareRefund, QueryAndFinalizeRefund
<1> QED
  BY <1>5, <1>6 DEF Next, UserSpends, PendingEnds, SubscriptionAges, vars

\* A refunded order stays refunded, whatever else administrators start and whatever
\* fails.
THEOREM RefundedForGood ==
  ASSUME Serial
  PROVE  Spec => RefundedStays
<1>1. TypeOK /\ HandlerInv /\ LockInv /\ [Next]_vars
        => [\A o \in Orders : status[o] \in Final => status'[o] = status[o]]_vars
  BY RefundedStep
<1> QED
  BY <1>1, SerialInv, PTL DEF Spec, RefundedStays

-------------------------------------------------------------------------------
(* What refunds took.                                                       *)

\* The step changes no row of the order but the gateway's, the amount and the balance.
Untouched(o) ==
  /\ status'[o] = status[o] /\ days'[o] = days[o] /\ taken'[o] = taken[o]
  /\ RollbackFailed(o)' <=> RollbackFailed(o)

\* After the step of p, what is said of what was taken for the order is so.
Accounted(p, o) ==
  /\ taken'[o] <= Amount
  /\ status'[o] \in Refundable /\ ~Busy(p)' => Clean(o)'
  /\ "finalize" \in Ops /\ RollbackFailed(o)' => o \in Subs /\ days'[o] = Revoked

\* A handler alone with its order may change what was taken for it.
LEMMA TakenFrame ==
  ASSUME TypeOK, DeductionInv, NEW p \in Procs, NEW o \in Orders, Others(p), Alone(p, o),
         UNCHANGED orderType, \A x \in Orders \ {o} : Untouched(x),
         Busy(p) => h[p].order = o, Busy(p)' => h'[p].order = o,
         Accounted(p, o), HandlerTaken(p)'
  PROVE  DeductionInv'
<1>0. Subs' = Subs
  BY DEF Subs
<1>1. \A q \in Procs \ {p} : h'[q] = h[q] /\ (Busy(q)' <=> Busy(q)) /\ h[q].order \in Orders
  BY OthersBusy DEF TypeOK, Handlers
<1>2. ASSUME NEW x \in Orders \ {o} PROVE OrderTaken(x)'
  <2>1. OrderTaken(x) /\ Untouched(x)
    BY DEF DeductionInv
  <2>2. (\A q \in Procs : Busy(q)' => h'[q].order # x)
          => \A q \in Procs : Busy(q) => h[q].order # x
    BY <1>1
  <2> QED
    BY <1>0, <2>1, <2>2 DEF OrderTaken, Untouched, Clean
<1>3. OrderTaken(o)'
  BY <1>0, <1>1 DEF OrderTaken, Accounted, Alone
<1>4. ASSUME NEW q \in Procs \ {p} PROVE HandlerTaken(q)'
  <2>1. HandlerTaken(q)
    BY DEF DeductionInv
  <2>2. CASE Busy(q)
    <3>1. PICK x \in Orders : x = h[q].order
      BY <1>1
    <3>2. x # o /\ x = h'[q].order
      BY <1>1, <2>2, <3>1 DEF Alone
    <3>3. Untouched(x)
      BY <3>2
    <3> QED
      BY <1>0, <1>1, <2>1, <3>1, <3>2, <3>3 DEF HandlerTaken, Untouched, Clean, RollbackFailed
  <2>3. CASE ~Busy(q)
    BY <1>0, <1>1, <2>1, <2>3 DEF HandlerTaken, Busy, HeldCalls
  <2> QED
    BY <2>2, <2>3
<1> QED
  BY <1>2, <1>3, <1>4 DEF DeductionInv

\* A handler that is not busy may go on, or become busy.
LEMMA TakenLeft ==
  ASSUME TypeOK, DeductionInv, NEW p \in Procs, Others(p), UNCHANGED orderType,
         \A x \in Orders : Untouched(x), ~Busy(p), HandlerTaken(p)'
  PROVE  DeductionInv'
<1>0. Subs' = Subs
  BY DEF Subs
<1>1. \A q \in Procs \ {p} : h'[q] = h[q] /\ (Busy(q)' <=> Busy(q)) /\ h[q].order \in Orders
  BY OthersBusy DEF TypeOK, Handlers
<1>2. \A x \in Orders : OrderTaken(x)'
  BY <1>0, <1>1 DEF DeductionInv, OrderTaken, Untouched, Clean
<1>3. ASSUME NEW q \in Procs \ {p} PROVE HandlerTaken(q)'
  <2>1. PICK x \in Orders : x = h[q].order
    BY <1>1
  <2>2. HandlerTaken(q) /\ Untouched(x)
    BY DEF DeductionInv
  <2> QED
    BY <1>0, <1>1, <2>1, <2>2 DEF HandlerTaken, Untouched, Clean, RollbackFailed
<1> QED
  BY <1>2, <1>3 DEF DeductionInv

\* A free handler has taken nothing.
LEMMA EndsTaken == ASSUME NEW p \in Procs, Ends(p) PROVE HandlerTaken(p)'
BY AmountAssumption DEF Ends, HandlerTaken, Busy, HeldCalls

\* A handler that is busy and leaves the rows alone may go on, and may leave an order
\* that is held as REFUNDING, or clean.
LEMMA TakenHeld ==
  ASSUME TypeOK, LockInv, DeductionInv, NEW p \in Procs, NEW o \in Orders, o = h[p].order,
         Busy(p), Others(p), UNCHANGED orderType, \A x \in Orders : Untouched(x),
         Busy(p)' => h'[p].order = o,
         h[p].op # "finalize" \/ Busy(p)' \/ Clean(o),
         HandlerTaken(p)'
  PROVE  DeductionInv'
<1>1. Alone(p, o)
  BY BusyAlone
<1>2. h[p].op # "finalize" => status[o] \notin Refundable
  BY BusyStatus DEF Refundable
<1>3. OrderTaken(o) /\ Untouched(o)
  BY DEF DeductionInv
<1>4. Accounted(p, o)
  BY <1>2, <1>3 DEF OrderTaken, Untouched, Accounted, Clean
<1> QED
  BY <1>1, <1>4, TakenFrame

\* An order that nobody is busy with, and that may be refunded, is clean.
LEMMA FreeClean ==
  ASSUME Serial, TypeOK, HandlerInv, LockInv, DeductionInv, NEW p \in Procs, NEW o \in Orders,
         ~Busy(p), status[o] \in Refundable
  PROVE  Alone(p, o) /\ Clean(o)
<1>1. Alone(p, o)
  BY FreeAlone
<1>2. OrderTaken(o)
  BY DEF DeductionInv
<1> QED
  BY <1>1, <1>2 DEF Alone, OrderTaken

\* Where a call fails without effect and the audit log works, the two calls of the
\* subscription service do what they answer.
LEMMA ExtendDoes ==
  ASSUME Trusted, TypeOK, NEW o \in Orders, NEW n \in Int
  PROVE  /\ ExtendSubscription(o, n, "done")
              => days[o] # Revoked /\ taken'[o] = taken[o] - n
         /\ ExtendSubscription(o, n, "would_expire")
              => days[o] > 0 /\ days[o] + n <= 0 /\ UNCHANGED <<days, taken>>
         /\ ExtendSubscription(o, n, "failed")
              => /\ UNCHANGED <<days, taken>>
                 /\ "finalize" \in Ops /\ n > 0 => days[o] = Revoked
         /\ \A answer : ExtendSubscription(o, n, answer)
              => \A x \in Orders \ {o} : days'[x] = days[x] /\ taken'[x] = taken[x]
<1>1. days[o] \in Int /\ taken[o] \in Int /\ Revoked = -1
  BY DEF TypeOK, Revoked
<1>2. ~Fails("after") /\ ("finalize" \in Ops => ~Fails("user"))
  BY DEF Trusted, Fails
<1> QED
  BY <1>1, <1>2 DEF ExtendSubscription, TypeOK

\* So does the other one.
LEMMA RevokeDoes ==
  ASSUME Trusted, TypeOK, NEW o \in Orders
  PROVE  /\ RevokeSubscription(o, "done")
              => days[o] # Revoked /\ days'[o] = Revoked /\ taken'[o] = taken[o] + days[o]
         /\ RevokeSubscription(o, "failed") => UNCHANGED <<days, taken>>
         /\ \A answer : RevokeSubscription(o, answer)
              => \A x \in Orders \ {o} : days'[x] = days[x] /\ taken'[x] = taken[x]
<1>1. ~Fails("after")
  BY DEF Trusted, Fails
<1> QED
  BY <1>1 DEF RevokeSubscription, TypeOK

\* A row of another kind, or none, leaves every order untouched.
LEMMA OtherRows ==
  ASSUME TypeOK, NEW o \in Orders, UNCHANGED <<status, days, taken>>,
         \/ UNCHANGED audit
         \/ \E a \in {"REFUND_PENDING", "REFUND_SUCCESS"} :
              audit' = [audit EXCEPT ![o] = @ \cup {a}]
  PROVE  \A x \in Orders : Untouched(x)
BY DEF Untouched, RollbackFailed, TypeOK

\* The calls that begin an operation keep what is said of what was taken.
LEMMA StartTaken ==
  ASSUME Serial, TypeOK, HandlerInv, LockInv, DeductionInv, NEW p \in Procs, Start(p)
  PROVE  DeductionInv'
<1> USE AmountAssumption DEF orderVars, valueVars, gatewayVars, auditVars
<1>1. PICK o \in Orders :
        validateRefundRequest(p, o) \/ PrepareRefund(p, o) \/ QueryAndFinalizeRefund(p, o)
  BY DEF Start
<1>2. /\ UNCHANGED orderType /\ ~Busy(p)
      /\ \A x \in Orders : Untouched(x)
  <2>1. h[p].op # "finalize" /\ h[p].pc = "idle"
    BY <1>1, AllFit DEF validateRefundRequest, PrepareRefund, QueryAndFinalizeRefund, CallsFit
  <2> QED
    BY <1>1, <2>1 DEF validateRefundRequest, PrepareRefund, QueryAndFinalizeRefund, Busy,
                      HeldCalls, Untouched, RollbackFailed
<1>3. \/ \E call \in {"request", "plan", "execute"}, kind \in {"request", "refund"} : \E amt :
           Begins(p, call, kind, o, amt)
      \/ status[o] = "REFUND_PENDING" /\ \E amt : Begins(p, "query", "finalize", o, amt)
  BY <1>1, StartDoes DEF QueryAndFinalizeRefund
<1>4. status[o] = "REFUND_PENDING" => Clean(o)
  BY <1>2, FreeClean DEF Refundable
<1>5. Others(p) /\ HandlerTaken(p)'
  <2>1. Clean(o) => Clean(o)'
    BY <1>2 DEF Untouched, Clean
  <2>2. CASE \E call \in {"request", "plan", "execute"}, kind \in {"request", "refund"} : \E amt :
               Begins(p, call, kind, o, amt)
    BY <2>2 DEF Begins, HandlerTaken, Busy, HeldCalls
  <2>3. CASE status[o] = "REFUND_PENDING" /\ \E amt : Begins(p, "query", "finalize", o, amt)
    <3>1. Others(p) /\ h'[p].pc = "query" /\ h'[p].take = 0 /\ h'[p].order = o
      BY <2>3 DEF Begins
    <3>2. Clean(h[p].order)'
      BY <1>4, <2>1, <2>3, <3>1 DEF Clean, RollbackFailed
    <3> QED
      BY <3>1, <3>2 DEF HandlerTaken
  <2> QED
    BY <1>3, <2>2, <2>3
<1> QED
  BY <1>2, <1>5, TakenLeft

\* What is known of a handler.
LEMMA HandlerKnown ==
  ASSUME TypeOK, HandlerInv, DeductionInv, NEW p \in Procs
  PROVE  /\ h[p] \in Handlers /\ CallsFit(p) /\ HandlerTaken(p)
         /\ h[p].take \in Int /\ h[p].amount \in 0 .. Amount
         /\ \E o \in Orders : /\ o = h[p].order /\ OrderTaken(o)
                              /\ taken[o] \in Int /\ days[o] \in Int
BY AllFit DEF TypeOK, Handlers, DeductionInv, Revoked

\* So do the calls up to the deduction.
LEMMA PlanTaken ==
  ASSUME Trusted, TypeOK, HandlerInv, LockInv, DeductionInv, NEW p \in Procs,
         RequestRefund(p) \/ prepDeduct(p) \/ ExecuteRefund(p)
  PROVE  DeductionInv'
<1> USE AmountAssumption DEF orderVars, valueVars, gatewayVars, auditVars
<1>1. PICK o \in Orders : o = h[p].order /\ OrderTaken(o)
  BY HandlerKnown
<1>2. /\ h[p] \in Handlers /\ CallsFit(p) /\ HandlerTaken(p) /\ Serial
      /\ h[p].take \in Int /\ h[p].amount \in 0 .. Amount
  BY HandlerKnown DEF Trusted
<1>3. CASE RequestRefund(p)
  <2>1. Ends(p) /\ HandlerTaken(p)' /\ Others(p) /\ ~Busy(p) /\ ~Busy(p)' /\ UNCHANGED orderType
    BY <1>2, <1>3, GotoMoves, EndsTaken DEF RequestRefund, Ends, CallsFit, Busy, HeldCalls
  <2>2. CASE UNCHANGED orderVars
    BY <1>3, <2>1, <2>2, OtherRows, TakenLeft DEF RequestRefund
  <2>3. CASE status[o] = "COMPLETED" /\ SetStatus(o, "REFUND_REQUESTED")
    <3>1. Alone(p, o) /\ Clean(o)
      BY <1>2, <2>1, <2>3, FreeClean DEF Refundable
    <3>2. Accounted(p, o) /\ \A x \in Orders \ {o} : Untouched(x)
      BY <1>1, <1>3, <2>3, <3>1
         DEF RequestRefund, SetStatus, OrderTaken, Accounted, Clean, RollbackFailed, Untouched, TypeOK
    <3> QED
      BY <2>1, <3>1, <3>2, TakenFrame
  <2> QED
    BY <1>1, <1>3, <2>2, <2>3 DEF RequestRefund
<1>4. CASE prepDeduct(p)
  <2> DEFINE next == IF h[p].op = "finalize" THEN "final_deduct" ELSE "execute"
  <2>0. Min({h[p].amount, balance}) \in Int /\ Min({h[p].amount, balance}) <= h[p].amount
    <3>1. h[p].amount \in Int /\ balance \in Int
      BY <1>2 DEF TypeOK
    <3> QED
      BY <3>1, MinOfTwo
  <2>1. \/ Ends(p) /\ h[p].op # "finalize"
        \/ \E n \in Int : /\ n <= Amount /\ (h[p].op = "finalize" => n >= 0)
                          /\ Moves(p, next, n, h[p].ok)
    <3>1. h[p].op = "finalize" => o \in Subs
      BY <1>1, <1>2, <1>4 DEF prepDeduct, CallsFit
    <3>2. \/ h[p].op # "finalize" /\ GotoWith(p, next, Min({h[p].amount, balance}))
          \/ GotoWith(p, next, Amount) \/ GotoWith(p, next, 0)
          \/ h[p].op # "finalize" /\ Return(p)
      BY <1>1, <1>4, <3>1 DEF prepDeduct, GotoWith
    <3>3. Min({h[p].amount, balance}) <= Amount
      BY <1>2, <2>0
    <3> HIDE DEF next
    <3> QED
      <4>1. \/ h[p].op # "finalize" /\ Moves(p, next, Min({h[p].amount, balance}), h[p].ok)
            \/ Moves(p, next, Amount, h[p].ok) \/ Moves(p, next, 0, h[p].ok)
            \/ h[p].op # "finalize" /\ Ends(p)
        BY <3>2, GotoMoves
      <4>2. Amount \in Int /\ Amount >= 0
        OBVIOUS
      <4> QED
        BY <2>0, <3>3, <4>1, <4>2
  <2>2. UNCHANGED orderType /\ \A x \in Orders : Untouched(x)
    BY <1>4 DEF prepDeduct, Untouched, RollbackFailed
  <2>3. CASE h[p].op # "finalize"
    <3>1. ~Busy(p) /\ Others(p) /\ HandlerTaken(p)'
      BY <1>4, <2>1, <2>3, EndsTaken
         DEF prepDeduct, Busy, HeldCalls, Ends, Moves, Same, HandlerTaken
    <3> QED
      BY <2>2, <3>1, TakenLeft
  <2>4. CASE h[p].op = "finalize"
    <3>1. Busy(p) /\ Clean(o)
      BY <1>1, <1>2, <1>4, <2>4 DEF prepDeduct, Busy, HandlerTaken
    <3>2. PICK n \in Int : n <= Amount /\ n >= 0 /\ Moves(p, "final_deduct", n, h[p].ok)
      BY <2>1, <2>4
    <3>3. Others(p) /\ h'[p].order = o /\ Clean(o)'
      BY <1>1, <2>2, <3>1, <3>2 DEF Moves, Same, Untouched, Clean
    <3>4. HandlerTaken(p)'
      <4>1. Clean(h[p].order)'
        BY <3>3 DEF Clean, RollbackFailed
      <4> QED
        BY <3>2, <4>1 DEF Moves, HandlerTaken
    <3> QED
      BY <1>1, <2>2, <3>1, <3>3, <3>4, TakenHeld
  <2> QED
    BY <2>3, <2>4
<1>5. CASE ExecuteRefund(p)
  <2>1. ~Busy(p) /\ h[p].op # "finalize"
    BY <1>2, <1>5 DEF ExecuteRefund, CallsFit, Busy, HeldCalls
  <2>2. CASE Return(p) /\ UNCHANGED status
    <3>1. Ends(p) /\ HandlerTaken(p)' /\ Others(p)
      BY <2>2, GotoMoves, EndsTaken DEF Ends
    <3> QED
      BY <1>5, <2>1, <2>2, <3>1, OtherRows, TakenLeft DEF ExecuteRefund
  <2>3. CASE /\ status[o] \in Refundable /\ SetStatus(o, "REFUNDING")
             /\ Goto(p, IF h[p].take > 0 THEN "deduct" ELSE "gateway")
    <3>1. Moves(p, IF h[p].take > 0 THEN "deduct" ELSE "gateway", h[p].take, h[p].ok)
      BY <2>3, GotoMoves
    <3>2. Alone(p, o) /\ Clean(o)
      BY <1>2, <2>1, <2>3, FreeClean
    <3>3. UNCHANGED <<orderType, days, taken, audit>>
      BY <1>5 DEF ExecuteRefund
    <3>4. Accounted(p, o) /\ \A x \in Orders \ {o} : Untouched(x)
      BY <1>1, <2>3, <3>2, <3>3
         DEF SetStatus, OrderTaken, Accounted, Clean, RollbackFailed, Untouched, TypeOK, Refundable
    <3>5. Others(p) /\ h'[p].order = o
      BY <1>1, <3>1 DEF Moves, Same
    <3>6. HandlerTaken(p)'
      <4>1. Clean(h[p].order)'
        BY <3>2, <3>3, <3>5 DEF Clean, RollbackFailed
      <4> QED
        BY <1>2, <2>1, <3>1, <4>1 DEF Moves, Same, HandlerTaken
    <3> QED
      BY <2>1, <3>2, <3>3, <3>4, <3>5, <3>6, TakenFrame
  <2> QED
    BY <1>1, <1>5, <2>2, <2>3 DEF ExecuteRefund, Executable
<1> QED
  BY <1>3, <1>4, <1>5

\* What is known of a handler whose operation is a refund, while it holds the order.
LEMMA HeldKnown ==
  ASSUME TypeOK, HandlerInv, LockInv, DeductionInv, NEW p \in Procs,
         h[p].pc \in HeldCalls, h[p].op # "finalize"
  PROVE  \E o \in Orders : /\ o = h[p].order /\ OrderTaken(o) /\ Busy(p) /\ Alone(p, o)
                           /\ status[o] \notin Refundable
BY HandlerKnown, BusyAlone, BusyStatus DEF Busy, Refundable

\* The deduction from a balance takes once, or follows a rollback that failed.
LEMMA BalanceTaken ==
  ASSUME Trusted, TypeOK, HandlerInv, LockInv, DeductionInv, NEW p \in Procs, DeductBalance(p)
  PROVE  DeductionInv'
<1> USE AmountAssumption DEF orderVars, valueVars, gatewayVars, auditVars
<1>1. h[p].op # "finalize" /\ h[p].pc = "deduct"
  BY HandlerKnown DEF DeductBalance, CallsFit
<1>2. PICK o \in Orders : /\ o = h[p].order /\ OrderTaken(o) /\ Busy(p) /\ Alone(p, o)
                          /\ status[o] \notin Refundable
  BY <1>1, HeldKnown DEF HeldCalls
<1>3. /\ HandlerTaken(p) /\ h[p].take \in Int /\ taken[o] \in Int /\ ~Fails("audit")
  BY <1>2, HandlerKnown DEF Trusted, Fails
<1>4. Clean(o) /\ h[p].take > 0 /\ h[p].take <= Amount
  BY <1>1, <1>2, <1>3 DEF HandlerTaken
<1>5. UNCHANGED <<orderType, status, days, audit>>
  BY DEF DeductBalance
<1>6. CASE /\ ~RollbackFailed(o)
           /\ taken' = [taken EXCEPT ![o] = @ + h[p].take] /\ Goto(p, "gateway")
  <2>1. Moves(p, "gateway", h[p].take, h[p].ok)
    BY <1>6, GotoMoves
  <2>2. taken'[o] = h[p].take /\ \A x \in Orders \ {o} : taken'[x] = taken[x]
    BY <1>3, <1>4, <1>6 DEF Clean, TypeOK
  <2>3. Accounted(p, o) /\ \A x \in Orders \ {o} : Untouched(x)
    BY <1>2, <1>4, <1>5, <1>6, <2>2 DEF Accounted, Untouched, RollbackFailed
  <2>4. Others(p) /\ h'[p].order = o /\ HandlerTaken(p)'
    BY <1>1, <1>2, <1>4, <2>1, <2>2 DEF Moves, Same, HandlerTaken
  <2> QED
    BY <1>2, <1>5, <2>3, <2>4, TakenFrame
<1>7. CASE /\ UNCHANGED taken
           /\ GotoWith(p, "gateway", 0) \/ Goto(p, "restore")
  <2>1. Moves(p, "gateway", 0, h[p].ok) \/ Moves(p, "restore", h[p].take, h[p].ok)
    BY <1>7, GotoMoves
  <2>2. Others(p) /\ h'[p].order = o /\ \A x \in Orders : Untouched(x)
    BY <1>2, <1>5, <1>7, <2>1, OtherRows DEF Moves, Same
  <2>3. HandlerTaken(p)'
    <3>1. Clean(h[p].order)'
      BY <1>4, <1>5, <1>7, <2>2 DEF Clean, RollbackFailed
    <3> QED
      BY <1>1, <1>4, <2>1, <3>1 DEF Moves, Same, HandlerTaken
  <2> QED
    BY <1>1, <1>2, <1>5, <2>2, <2>3, TakenHeld
<1> QED
  BY <1>2, <1>3, <1>6, <1>7 DEF DeductBalance, RollbackFailed, GotoWith

\* The deduction from a subscription takes once, or follows a rollback that failed;
\* a revocation takes what is left.
LEMMA DaysTaken ==
  ASSUME Trusted, TypeOK, HandlerInv, LockInv, DeductionInv, NEW p \in Procs,
         DeductDays(p) \/ RevokeInstead(p)
  PROVE  DeductionInv'
<1> USE AmountAssumption DEF orderVars, valueVars, gatewayVars, auditVars
<1>1. PICK o \in Orders : o = h[p].order /\ OrderTaken(o) /\ taken[o] \in Int /\ days[o] \in Int
  BY HandlerKnown
<1>2. /\ CallsFit(p) /\ HandlerTaken(p) /\ h[p].take \in Int /\ ~Fails("audit")
      /\ h[p].op = "finalize" => "finalize" \in Ops
  BY HandlerKnown DEF Trusted, Fails, CallsFit
<1>3. /\ Busy(p) /\ o \in Subs /\ Clean(o) /\ h[p].take > 0 /\ h[p].take <= Amount
      /\ h[p].op # "finalize" => h[p].pc \in HeldCalls
  BY <1>1, <1>2 DEF DeductDays, RevokeInstead, CallsFit, HandlerTaken, Busy, HeldCalls
<1>4. Alone(p, o)
  BY <1>1, <1>3, BusyAlone
<1>5. h[p].op # "finalize" => status[o] \notin Refundable
  BY <1>1, <1>3, BusyStatus DEF Refundable
<1>6. UNCHANGED <<orderType, status, audit>>
  BY DEF DeductDays, RevokeInstead
<1> DEFINE next == IF h[p].op = "finalize" THEN "mark_ok" ELSE "gateway"
\* Days are taken.
<1>7. CASE /\ taken'[o] <= Amount /\ Deducted(p)
           /\ taken'[o] = h[p].take \/ days'[o] = Revoked
           /\ ("finalize" \in Ops /\ RollbackFailed(o)) => days'[o] = Revoked
           /\ \A x \in Orders \ {o} : days'[x] = days[x] /\ taken'[x] = taken[x]
  <2>1. Moves(p, next, h[p].take, h[p].ok)
    BY <1>7, GotoMoves DEF Deducted
  <2>2. Others(p) /\ h'[p].order = o /\ Busy(p)'
    BY <1>1, <2>1 DEF Moves, Same, Busy, HeldCalls
  <2>3. Accounted(p, o) /\ \A x \in Orders \ {o} : Untouched(x)
    BY <1>3, <1>6, <1>7, <2>2 DEF Accounted, Untouched, RollbackFailed
  <2>4. HandlerTaken(p)'
    <3>1. /\ h'[p].take = h[p].take /\ h'[p].op = h[p].op
          /\ h'[p].pc = IF h[p].op = "finalize" THEN "mark_ok" ELSE "gateway"
      BY <2>1 DEF Moves, Same
    <3>2. o \in Subs'
      BY <1>3, <1>6 DEF Subs
    <3>3. taken'[h'[p].order] = h[p].take \/ (h'[p].order \in Subs' /\ days'[h'[p].order] = Revoked)
      BY <1>7, <2>2, <3>2
    <3>4. Revoked' = Revoked
      OBVIOUS
    <3> QED
      BY <1>2, <1>3, <3>1, <3>3, <3>4 DEF HandlerTaken
  <2> QED
    BY <1>1, <1>4, <1>6, <2>2, <2>3, <2>4, TakenFrame
\* No days are taken.
<1>8. CASE /\ UNCHANGED <<days, taken>>
           /\ \/ GotoWith(p, next, 0) \/ Abandon(p)
              \/ Goto(p, "revoke") /\ taken[o] = 0 /\ days[o] <= Amount
  <2>1. \/ Moves(p, next, 0, h[p].ok)
        \/ h[p].op # "finalize" /\ Moves(p, "restore", h[p].take, h[p].ok)
        \/ Ends(p)
        \/ Moves(p, "revoke", h[p].take, h[p].ok) /\ taken[o] = 0 /\ days[o] <= Amount
    BY <1>8, GotoMoves DEF Abandon
  <2>2. Others(p) /\ (Busy(p)' => h'[p].order = o) /\ \A x \in Orders : Untouched(x)
    BY <1>1, <1>6, <1>8, <2>1, OtherRows DEF Moves, Ends, Same, Busy, HeldCalls
  <2>3. HandlerTaken(p)'
    <3>1. CASE Ends(p)
      BY <3>1, EndsTaken
    <3>2. CASE ~Ends(p)
      <4>1. h'[p].order = o /\ h'[p].op = h[p].op
        BY <1>1, <2>1, <3>2 DEF Moves, Same
      <4>2. Clean(h[p].order)' /\ Subs' = Subs
        BY <1>3, <1>6, <1>8, <4>1 DEF Clean, RollbackFailed, Subs
      <4> QED
        <5>1. CASE Moves(p, next, 0, h[p].ok)
          BY <4>2, <5>1 DEF Moves, HandlerTaken
        <5>2. CASE Moves(p, "restore", h[p].take, h[p].ok)
          BY <1>2, <1>3, <4>2, <5>2 DEF Moves, HandlerTaken
        <5>3. CASE Moves(p, "revoke", h[p].take, h[p].ok) /\ taken[o] = 0 /\ days[o] <= Amount
          <6>1. o \in Subs' /\ taken'[h'[p].order] = 0 /\ days'[h'[p].order] <= Amount
            BY <1>3, <1>8, <4>1, <4>2, <5>3
          <6> QED
            BY <1>2, <1>3, <4>1, <4>2, <5>3, <6>1 DEF Moves, HandlerTaken
        <5> QED
          BY <2>1, <3>2, <5>1, <5>2, <5>3
    <3> QED
      BY <3>1, <3>2
  <2> QED
    BY <1>1, <1>3, <1>6, <2>2, <2>3, TakenHeld
<1>9. CASE DeductDays(p)
  <2> DEFINE done == IF h[p].op = "finalize" THEN "REFUND_SUCCESS" ELSE "REFUND_ROLLBACK_FAILED"
             n == -h[p].take
  <2>1. n \in Int
    BY <1>2
  <2>2. \/ done \in audit[o] /\ GotoWith(p, next, 0) /\ UNCHANGED <<days, taken>>
        \/ /\ done \notin audit[o]
           /\ \/ ExtendSubscription(o, n, "done") /\ Deducted(p)
              \/ ExtendSubscription(o, n, "would_expire") /\ Goto(p, "revoke")
              \/ ExtendSubscription(o, n, "failed") /\ Abandon(p)
    BY <1>1, <1>2, <1>9 DEF DeductDays, GotoWith
  <2>3. done \notin audit[o] /\ days[o] # Revoked => taken[o] = 0
    BY <1>1, <1>2, <1>3 DEF Clean, RollbackFailed, OrderTaken
  <2>4. CASE done \notin audit[o] /\ ExtendSubscription(o, n, "done") /\ Deducted(p)
    <3>1. /\ days[o] # Revoked /\ taken'[o] = taken[o] - n
          /\ \A x \in Orders \ {o} : days'[x] = days[x] /\ taken'[x] = taken[x]
      BY <2>1, <2>4, ExtendDoes
    <3>2. taken'[o] = h[p].take
      BY <1>2, <2>3, <2>4, <3>1
    <3>3. ~("finalize" \in Ops /\ RollbackFailed(o))
      BY <1>1, <3>1 DEF OrderTaken
    <3> QED
      BY <1>3, <1>7, <2>4, <3>1, <3>2, <3>3
  <2>5. CASE done \notin audit[o] /\ ExtendSubscription(o, n, "would_expire") /\ Goto(p, "revoke")
    <3>1. days[o] > 0 /\ days[o] + n <= 0 /\ UNCHANGED <<days, taken>>
      BY <2>1, <2>5, ExtendDoes
    <3>2. taken[o] = 0 /\ days[o] <= Amount
      BY <1>1, <1>2, <1>3, <2>3, <2>5, <3>1 DEF Revoked
    <3> QED
      BY <1>8, <2>5, <3>1, <3>2
  <2>6. CASE ExtendSubscription(o, n, "failed") /\ Abandon(p)
    <3>1. UNCHANGED <<days, taken>>
      BY <2>1, <2>6, ExtendDoes
    <3> QED
      BY <1>8, <2>6, <3>1
  <2> QED
    BY <1>8, <2>2, <2>4, <2>5, <2>6
<1>10. CASE RevokeInstead(p)
  <2>1. \/ RevokeSubscription(o, "done") /\ Deducted(p)
        \/ RevokeSubscription(o, "failed") /\ Abandon(p)
    BY <1>1, <1>10 DEF RevokeInstead
  <2>2. taken[o] = 0 /\ days[o] <= Amount
    BY <1>1, <1>2, <1>10 DEF RevokeInstead, HandlerTaken
  <2>3. CASE RevokeSubscription(o, "done") /\ Deducted(p)
    <3>1. /\ days'[o] = Revoked /\ taken'[o] = taken[o] + days[o]
          /\ \A x \in Orders \ {o} : days'[x] = days[x] /\ taken'[x] = taken[x]
      BY <2>3, RevokeDoes
    <3>2. taken'[o] <= Amount
      BY <1>1, <2>2, <3>1
    <3> QED
      BY <1>7, <2>3, <3>1, <3>2
  <2>4. CASE RevokeSubscription(o, "failed") /\ Abandon(p)
    <3>1. UNCHANGED <<days, taken>>
      BY <2>4, RevokeDoes
    <3> QED
      BY <1>8, <2>4, <3>1
  <2> QED
    BY <2>1, <2>3, <2>4
<1> QED
  BY <1>9, <1>10

\* A rollback gives back what was taken, or records that it could not.
LEMMA RollbackTaken ==
  ASSUME Trusted, TypeOK, HandlerInv, LockInv, DeductionInv, NEW p \in Procs, RollbackRefund(p)
  PROVE  DeductionInv'
<1> USE AmountAssumption DEF orderVars, valueVars, gatewayVars, auditVars
<1>1. h[p].op # "finalize" /\ h[p].pc = "rollback"
  BY HandlerKnown DEF RollbackRefund, CallsFit
<1>2. PICK o \in Orders : /\ o = h[p].order /\ OrderTaken(o) /\ Busy(p) /\ Alone(p, o)
                          /\ status[o] \notin Refundable
  BY <1>1, HeldKnown DEF HeldCalls
<1>3. /\ HandlerTaken(p) /\ h[p].take \in Int /\ taken[o] \in Int
      /\ ~Fails("audit") /\ ("finalize" \in Ops => ~Fails("user"))
  BY <1>2, HandlerKnown DEF Trusted, Fails
<1>4. IF h[p].take > 0
      THEN taken[o] = h[p].take \/ (o \in Subs /\ days[o] = Revoked)
      ELSE Clean(o)
  BY <1>1, <1>2, <1>3 DEF HandlerTaken
<1>5. UNCHANGED <<orderType, status>>
  BY DEF RollbackRefund
<1> DEFINE n == h[p].take
           RolledBack == GotoWith(p, IF h[p].ok THEN "mark_pending" ELSE "restore", 0)
           NotRolledBack == /\ Log(o, "REFUND_ROLLBACK_FAILED")
                            /\ Goto(p, IF h[p].ok THEN "mark_pending" ELSE "mark_failed")
\* Whatever the answer, it is enough that the order is clean, and that a failed
\* rollback is one of a revoked subscription where orders are finalised.
<1>6. ASSUME \E call \in {"mark_pending", "restore", "mark_failed"}, m \in {n, 0} :
               Moves(p, call, m, h[p].ok),
             \A x \in Orders \ {o} : days'[x] = days[x] /\ taken'[x] = taken[x] /\ audit'[x] = audit[x],
             Clean(o)', taken'[o] <= Amount,
             "finalize" \in Ops /\ RollbackFailed(o)' => o \in Subs /\ days'[o] = Revoked
      PROVE  DeductionInv'
  <2>1. Others(p) /\ h'[p].order = o /\ Busy(p)' /\ h'[p].op # "finalize"
    BY <1>1, <1>2, <1>6 DEF Moves, Same, Busy, HeldCalls
  <2>2. Accounted(p, o) /\ \A x \in Orders \ {o} : Untouched(x)
    BY <1>5, <1>6, <2>1 DEF Accounted, Untouched, RollbackFailed
  <2>3. HandlerTaken(p)'
    <3>1. Clean(h[p].order)'
      BY <1>6, <2>1 DEF Clean, RollbackFailed
    <3>2. n <= Amount
      BY <1>3 DEF HandlerTaken
    <3> QED
      BY <1>6, <2>1, <3>1, <3>2 DEF Moves, HandlerTaken
  <2> QED
    BY <1>2, <1>5, <2>1, <2>2, <2>3, TakenFrame
<1>7. /\ RolledBack => Moves(p, IF h[p].ok THEN "mark_pending" ELSE "restore", 0, h[p].ok)
      /\ NotRolledBack => Moves(p, IF h[p].ok THEN "mark_pending" ELSE "mark_failed", n, h[p].ok)
      /\ NotRolledBack => RollbackFailed(o)' /\ \A x \in Orders \ {o} : audit'[x] = audit[x]
  BY <1>3, GotoMoves DEF Log, RollbackFailed, TypeOK
<1>8. \/ n <= 0 /\ RolledBack /\ UNCHANGED <<days, taken, audit>>
      \/ /\ n > 0 /\ o \notin Subs
         /\ taken' = [taken EXCEPT ![o] = @ - n] /\ RolledBack /\ UNCHANGED <<days, audit>>
      \/ /\ n > 0 /\ Fails("user") /\ NotRolledBack /\ UNCHANGED <<days, taken>>
      \/ n > 0 /\ o \in Subs /\ ExtendSubscription(o, n, "done") /\ RolledBack /\ UNCHANGED audit
      \/ n > 0 /\ o \in Subs /\ ExtendSubscription(o, n, "failed") /\ NotRolledBack
  BY <1>2 DEF RollbackRefund, GotoWith
<1>9. taken[o] <= Amount /\ ("finalize" \in Ops /\ RollbackFailed(o) => o \in Subs /\ days[o] = Revoked)
  BY <1>2 DEF OrderTaken
<1>10. CASE n <= 0 /\ RolledBack /\ UNCHANGED <<days, taken, audit>>
  <2>1. Clean(o)' /\ (RollbackFailed(o)' <=> RollbackFailed(o))
    BY <1>3, <1>4, <1>10 DEF Clean, RollbackFailed
  <2> QED
    BY <1>6, <1>7, <1>9, <1>10, <2>1
<1>11. CASE /\ n > 0 /\ o \notin Subs
            /\ taken' = [taken EXCEPT ![o] = @ - n] /\ RolledBack /\ UNCHANGED <<days, audit>>
  <2>1. taken'[o] = 0 /\ \A x \in Orders \ {o} : taken'[x] = taken[x]
    BY <1>3, <1>4, <1>11 DEF TypeOK
  <2>2. Clean(o)' /\ (RollbackFailed(o)' <=> RollbackFailed(o))
    BY <1>11, <2>1 DEF Clean, RollbackFailed
  <2> QED
    BY <1>6, <1>7, <1>9, <1>11, <2>1, <2>2
<1>12. CASE n > 0 /\ Fails("user") /\ NotRolledBack /\ UNCHANGED <<days, taken>>
  <2>1. Clean(o)'
    BY <1>7, <1>12 DEF Clean
  <2> QED
    BY <1>3, <1>6, <1>7, <1>9, <1>12, <2>1
<1>13. CASE /\ n > 0 /\ o \in Subs /\ ExtendSubscription(o, n, "done") /\ RolledBack
            /\ UNCHANGED audit
  <2>1. /\ days[o] # Revoked /\ taken'[o] = taken[o] - n
        /\ \A x \in Orders \ {o} : days'[x] = days[x] /\ taken'[x] = taken[x]
    BY <1>3, <1>13, ExtendDoes
  <2>2. taken'[o] = 0
    BY <1>3, <1>4, <1>13, <2>1
  <2>3. Clean(o)' /\ (RollbackFailed(o)' <=> RollbackFailed(o))
    BY <1>13, <2>2 DEF Clean, RollbackFailed
  <2> QED
    BY <1>6, <1>7, <1>9, <1>13, <2>1, <2>2, <2>3
<1>14. CASE n > 0 /\ o \in Subs /\ ExtendSubscription(o, n, "failed") /\ NotRolledBack
  <2>1. UNCHANGED <<days, taken>> /\ ("finalize" \in Ops => days[o] = Revoked)
    BY <1>3, <1>14, ExtendDoes
  <2>2. Clean(o)'
    BY <1>7, <1>14 DEF Clean
  <2> QED
    BY <1>6, <1>7, <1>9, <1>14, <2>1, <2>2
<1> QED
  BY <1>8, <1>10, <1>11, <1>12, <1>13, <1>14

\* A call of the gateway, or the query of a pending refund, takes nothing.
LEMMA GatewayTaken ==
  ASSUME Trusted, TypeOK, HandlerInv, LockInv, DeductionInv, NEW p \in Procs,
         gwRefund(p) \/ QueryRefund(p)
  PROVE  DeductionInv'
<1> USE AmountAssumption DEF orderVars, valueVars, gatewayVars, auditVars
<1>1. PICK o \in Orders : o = h[p].order
  BY HandlerKnown
<1>2. /\ CallsFit(p) /\ HandlerTaken(p) /\ h[p].take \in Int /\ h[p].amount \in 0 .. Amount
  BY HandlerKnown
<1>3. Busy(p) /\ UNCHANGED <<orderType, status, days, taken, audit>>
  BY <1>2 DEF gwRefund, QueryRefund, CallsFit, Busy, HeldCalls
<1>4. \A x \in Orders : Untouched(x)
  BY <1>1, <1>3, OtherRows
<1>5. CASE gwRefund(p)
  <2>1. \E call \in {"mark_ok", "rollback"} : \E b : Moves(p, call, h[p].take, b)
    BY <1>5, GotoMoves DEF gwRefund
  <2>2. h[p].op # "finalize" /\ h[p].pc = "gateway"
    BY <1>2, <1>5 DEF gwRefund, CallsFit
  <2>3. Others(p) /\ h'[p].order = o /\ h'[p].op = h[p].op
    BY <1>1, <2>1 DEF Moves, Same
  <2>4. IF h[p].take > 0
          THEN taken[o] = h[p].take \/ (o \in Subs /\ days[o] = Revoked)
          ELSE Clean(o)
    BY <1>1, <1>2, <2>2 DEF HandlerTaken
  <2>5. HandlerTaken(p)'
    <3>1. (Clean(o) => Clean(h[p].order)') /\ Subs' = Subs
      BY <1>3, <2>3 DEF Clean, RollbackFailed, Subs
    <3>2. h'[p].take = h[p].take /\ h'[p].pc \in {"mark_ok", "rollback"}
      BY <2>1 DEF Moves
    <3>3. h[p].take <= Amount
      BY <1>2 DEF HandlerTaken
    <3> QED
      BY <1>3, <2>2, <2>3, <2>4, <3>1, <3>2, <3>3 DEF HandlerTaken
  <2> QED
    BY <1>1, <1>3, <1>4, <2>2, <2>3, <2>5, TakenHeld
<1>6. CASE QueryRefund(p)
  <2>1. Clean(o)
    BY <1>1, <1>2, <1>3, <1>6 DEF QueryRefund, HandlerTaken
  <2>2. \/ Ends(p)
        \/ \E call \in {"plan", "final_deduct", "final_failed"}, m \in {h[p].take, h[p].amount, 0} :
             Moves(p, call, m, h[p].ok)
    <3> DEFINE next(ok) == IF ok /\ o \in Subs THEN "plan" ELSE "final_deduct"
               amt(ok) == IF ok /\ o \notin Subs THEN h[p].amount ELSE 0
    <3>1. \/ Return(p) \/ Goto(p, "final_failed")
          \/ GotoWith(p, next(RollbackOK(o)), amt(RollbackOK(o)))
          \/ GotoWith(p, next(TRUE), amt(TRUE))
      BY <1>1, <1>6 DEF QueryRefund, GotoWith
    <3> QED
      BY <3>1, GotoMoves
  <2>3. Others(p) /\ (Busy(p)' => h'[p].order = o)
    BY <1>1, <2>2 DEF Moves, Same, Ends, Busy, HeldCalls
  <2>4. HandlerTaken(p)'
    <3>1. CASE Ends(p)
      BY <3>1, EndsTaken
    <3>2. CASE \E call \in {"plan", "final_deduct", "final_failed"}, m \in {h[p].take, h[p].amount, 0} :
                 Moves(p, call, m, h[p].ok)
      <4>1. h'[p].order = o /\ h'[p].op = h[p].op
        BY <1>1, <3>2 DEF Moves, Same
      <4>2. Clean(h[p].order)'
        BY <1>3, <2>1, <4>1 DEF Clean, RollbackFailed
      <4>3. h[p].op = "finalize" /\ h[p].take >= 0 /\ h[p].take <= Amount
        BY <1>2, <1>6 DEF QueryRefund, CallsFit, HandlerTaken
      <4> QED
        BY <1>2, <3>2, <4>2, <4>3 DEF Moves, HandlerTaken
    <3> QED
      BY <2>2, <3>1, <3>2
  <2> QED
    BY <1>1, <1>3, <1>4, <2>1, <2>3, <2>4, TakenHeld
<1> QED
  BY <1>5, <1>6

\* A call that writes the status of the order and ends, or goes on to the log: a clean
\* order may be refunded again, a refunded one is refunded for good, and a handler
\* that could not write the status leaves the order held.
LEMMA StatusTaken ==
  ASSUME Trusted, TypeOK, HandlerInv, LockInv, DeductionInv, NEW p \in Procs,
         \/ restoreStatus(p) \/ handleGwFail(p) \/ finalizeRefundFailed(p)
         \/ markRefundPending(p) \/ markRefundOk(p)
  PROVE  DeductionInv'
<1> USE AmountAssumption DEF orderVars, valueVars, gatewayVars, auditVars
<1>1. PICK o \in Orders : o = h[p].order /\ OrderTaken(o) /\ taken[o] \in Int
  BY HandlerKnown
<1>2. /\ CallsFit(p) /\ HandlerTaken(p) /\ h[p].take \in Int
      /\ h[p].op = "finalize" => ~Fails("order")
  BY HandlerKnown DEF Trusted, Fails, CallsFit
<1>3. Busy(p) /\ UNCHANGED <<orderType, days, taken, audit>>
  BY <1>2 DEF restoreStatus, handleGwFail, finalizeRefundFailed, markRefundPending, markRefundOk,
              CallsFit, Busy, HeldCalls
<1>4. Alone(p, o)
  BY <1>1, <1>3, BusyAlone
<1>5. h[p].pc # "mark_ok" => Clean(o)
  BY <1>1, <1>2, <1>3 DEF restoreStatus, handleGwFail, finalizeRefundFailed, markRefundPending,
                          markRefundOk, HandlerTaken
<1>6. \/ Ends(p)
      \/ h[p].pc = "mark_pending" /\ Moves(p, "note_pending", h[p].take, h[p].ok)
      \/ h[p].pc = "mark_ok" /\ Moves(p, "note_ok", h[p].take, h[p].ok)
  BY GotoMoves DEF restoreStatus, handleGwFail, finalizeRefundFailed, markRefundPending, markRefundOk
<1>7. Others(p) /\ ~Busy(p)' /\ HandlerTaken(p)'
  <2>1. CASE Ends(p)
    BY <2>1, EndsTaken DEF Ends, Busy, HeldCalls
  <2>2. CASE h[p].pc = "mark_pending" /\ Moves(p, "note_pending", h[p].take, h[p].ok)
    <3>1. h[p].op # "finalize"
      BY <1>2, <2>2 DEF CallsFit
    <3> QED
      BY <1>2, <2>2, <3>1 DEF Moves, Same, Busy, HeldCalls, HandlerTaken
  <2>3. CASE h[p].pc = "mark_ok" /\ Moves(p, "note_ok", h[p].take, h[p].ok)
    BY <1>2, <2>3 DEF Moves, Same, Busy, HeldCalls, HandlerTaken
  <2> QED
    BY <1>6, <2>1, <2>2, <2>3
<1>8. \/ UNCHANGED status /\ (h[p].op # "finalize" \/ Clean(o))
      \/ h[p].pc # "mark_ok" /\ \E s : SetStatus(o, s)
      \/ \E s \in Final : SetStatus(o, s)
  <2>1. CASE restoreStatus(p) \/ handleGwFail(p) \/ finalizeRefundFailed(p) \/ markRefundPending(p)
    BY <1>1, <1>5, <2>1 DEF restoreStatus, handleGwFail, finalizeRefundFailed, markRefundPending
  <2>2. CASE markRefundOk(p)
    BY <1>1, <1>2, <2>2 DEF markRefundOk, Final
  <2> QED
    BY <2>1, <2>2
<1>9. \A x \in Orders \ {o} : status'[x] = status[x]
  BY <1>8 DEF SetStatus, TypeOK
<1>10. status'[o] \in Refundable => Clean(o)
  <2>1. h[p].op # "finalize" => status[o] \notin Refundable
    BY <1>1, <1>3, BusyStatus DEF Refundable
  <2> QED
    BY <1>5, <1>8, <2>1 DEF SetStatus, TypeOK, Final, Refundable
<1>11. Accounted(p, o) /\ \A x \in Orders \ {o} : Untouched(x)
  BY <1>1, <1>3, <1>9, <1>10 DEF OrderTaken, Accounted, Clean, RollbackFailed, Untouched
<1> QED
  BY <1>1, <1>3, <1>4, <1>7, <1>11, TakenFrame

\* The deduction of a finalisation takes once: where orders are finalised, what an
\* earlier attempt could not give back is a revoked subscription.
LEMMA FinalTaken ==
  ASSUME Trusted, TypeOK, HandlerInv, LockInv, DeductionInv, NEW p \in Procs,
         applyRefundFinalDeduction(p)
  PROVE  DeductionInv'
<1> USE AmountAssumption DEF orderVars, valueVars, gatewayVars, auditVars
<1>1. PICK o \in Orders : o = h[p].order /\ OrderTaken(o) /\ taken[o] \in Int
  BY HandlerKnown
<1>2. /\ HandlerTaken(p) /\ h[p].take \in Int /\ h[p].op = "finalize" /\ "finalize" \in Ops
      /\ h[p].pc = "final_deduct" /\ Busy(p) /\ ~Fails("user")
  BY HandlerKnown DEF Trusted, Fails, CallsFit, applyRefundFinalDeduction, Busy
<1>3. UNCHANGED <<orderType, status, days, audit>>
  BY DEF applyRefundFinalDeduction
<1>4. Alone(p, o) /\ Clean(o) /\ h[p].take >= 0 /\ h[p].take <= Amount
  BY <1>1, <1>2, BusyAlone DEF HandlerTaken
<1>5. \/ Moves(p, "mark_ok", h[p].take, h[p].ok) /\ taken' = [taken EXCEPT ![o] = @ + h[p].take]
      \/ Moves(p, "mark_ok", 0, h[p].ok) /\ UNCHANGED taken
  BY <1>1, <1>2, GotoMoves DEF applyRefundFinalDeduction, GotoWith
<1>6. taken'[o] <= Amount /\ \A x \in Orders \ {o} : taken'[x] = taken[x]
  <2>1. taken[o] = 0 \/ h[p].take = 0
    BY <1>1, <1>2, <1>4 DEF applyRefundFinalDeduction, Clean, OrderTaken
  <2>2. taken[o] <= Amount
    BY <1>1 DEF OrderTaken
  <2> QED
    BY <1>1, <1>2, <1>4, <1>5, <2>1, <2>2 DEF TypeOK
<1>7. Others(p) /\ h'[p].order = o /\ Busy(p)'
  BY <1>1, <1>5 DEF Moves, Same, Busy, HeldCalls
<1>8. Accounted(p, o) /\ \A x \in Orders \ {o} : Untouched(x)
  BY <1>1, <1>3, <1>6, <1>7 DEF OrderTaken, Accounted, RollbackFailed, Untouched
<1>9. HandlerTaken(p)'
  BY <1>2, <1>4, <1>5 DEF Moves, HandlerTaken
<1> QED
  BY <1>1, <1>3, <1>4, <1>7, <1>8, <1>9, TakenFrame

\* A handler that dies leaves its order held; a finalisation does not die.
LEMMA CrashTaken ==
  ASSUME Trusted, TypeOK, HandlerInv, LockInv, DeductionInv, NEW p \in Procs, Crash(p)
  PROVE  DeductionInv'
<1> USE DEF orderVars, valueVars, gatewayVars, auditVars
<1>1. PICK o \in Orders : o = h[p].order
  BY HandlerKnown
<1>2. h[p].op # "finalize"
  BY HandlerKnown DEF Trusted, Fails, CallsFit, Crash
<1>3. Ends(p) /\ UNCHANGED orderType /\ \A x \in Orders : Untouched(x)
  BY <1>1, GotoMoves, OtherRows DEF Crash
<1>4. Others(p) /\ ~Busy(p)' /\ HandlerTaken(p)'
  BY <1>3, EndsTaken DEF Ends, Busy, HeldCalls
<1> QED
  BY <1>1, <1>2, <1>3, <1>4, TakenHeld, TakenLeft

\* The last row of the log is written when nobody goes by the status any more.
LEMMA LogTaken ==
  ASSUME TypeOK, HandlerInv, LockInv, DeductionInv, NEW p \in Procs,
         LogRefundPending(p) \/ LogRefundSuccess(p)
  PROVE  DeductionInv'
<1> USE DEF orderVars, valueVars, gatewayVars, auditVars
<1>1. PICK o \in Orders : o = h[p].order
  BY HandlerKnown
<1>2. ~Busy(p)
  BY HandlerKnown DEF LogRefundPending, LogRefundSuccess, CallsFit, Busy, HeldCalls
<1>3. Ends(p) /\ UNCHANGED orderType /\ HandlerTaken(p)' /\ Others(p)
  BY GotoMoves, EndsTaken DEF LogRefundPending, LogRefundSuccess, Ends
<1>4. \A x \in Orders : Untouched(x)
  <2>1. \/ UNCHANGED audit
        \/ \E a \in {"REFUND_PENDING", "REFUND_SUCCESS"} : audit' = [audit EXCEPT ![o] = @ \cup {a}]
    BY <1>1 DEF LogRefundPending, LogRefundSuccess, Log
  <2>2. UNCHANGED <<status, days, taken>>
    BY DEF LogRefundPending, LogRefundSuccess
  <2> QED
    BY <2>1, <2>2, OtherRows
<1> QED
  BY <1>2, <1>3, <1>4, TakenLeft

\* Spending and time change nothing that was taken.
LEMMA RestTaken ==
  ASSUME TypeOK, DeductionInv,
         \/ UserSpends \/ UNCHANGED vars
         \/ \E o \in Orders : PendingEnds(o) \/ SubscriptionAges(o)
  PROVE  DeductionInv'
<1> USE DEF orderVars, valueVars, gatewayVars, auditVars, vars
<1>1. UNCHANGED <<orderType, status, taken, audit, h>>
  BY DEF UserSpends, PendingEnds, SubscriptionAges
<1>2. \A x \in Orders : \/ days'[x] = days[x]
                        \/ days[x] # Revoked /\ days'[x] <= days[x] /\ days'[x] \in Int
  BY DEF UserSpends, PendingEnds, SubscriptionAges, TypeOK, Revoked
<1>3. Subs' = Subs /\ \A p \in Procs : (Busy(p)' <=> Busy(p)) /\ h[p].order \in Orders
  BY <1>1 DEF Subs, Busy, TypeOK, Handlers
<1>4. \A x \in Orders : /\ Clean(x)' <=> Clean(x)
                        /\ RollbackFailed(x)' <=> RollbackFailed(x)
                        /\ days[x] = Revoked => days'[x] = Revoked
                        /\ days[x] <= Amount => days'[x] <= Amount
  <2>1. \A x \in Orders : days[x] \in Int
    BY DEF TypeOK, Revoked
  <2> QED
    BY <1>1, <1>2, <2>1, AmountAssumption DEF Clean, RollbackFailed
<1>5. ASSUME NEW x \in Orders PROVE OrderTaken(x)'
  <2>1. OrderTaken(x)
    BY DEF DeductionInv
  <2> QED
    BY <1>1, <1>3, <1>4, <2>1 DEF OrderTaken
<1>6. ASSUME NEW p \in Procs PROVE HandlerTaken(p)'
  <2>1. PICK x \in Orders : x = h[p].order /\ x = h'[p].order
    BY <1>1, <1>3
  <2>2. HandlerTaken(p)
    BY DEF DeductionInv
  <2>3. Clean(h[p].order)' <=> Clean(x)
    BY <1>1, <2>1 DEF Clean, RollbackFailed
  <2> QED
    BY <1>1, <1>3, <1>4, <2>1, <2>2, <2>3 DEF HandlerTaken
<1> QED
  BY <1>5, <1>6 DEF DeductionInv

\* Where the audit log can be trusted, every step keeps what is said of what was taken.
LEMMA DeductionStep ==
  ASSUME Trusted, TypeOK, HandlerInv, LockInv, DeductionInv, [Next]_vars
  PROVE  DeductionInv'
<1>1. ASSUME NEW p \in Procs, Start(p) PROVE DeductionInv'
  BY <1>1, StartTaken DEF Trusted
<1>2. ASSUME NEW p \in Procs, Refund(p) PROVE DeductionInv'
  BY <1>2, PlanTaken, BalanceTaken, DaysTaken, GatewayTaken, RollbackTaken, StatusTaken, LogTaken
     DEF Refund
<1>3. ASSUME NEW p \in Procs, Finalize(p) PROVE DeductionInv'
  BY <1>3, GatewayTaken, FinalTaken, StatusTaken DEF Finalize
<1>4. ASSUME NEW p \in Procs, Crash(p) PROVE DeductionInv'
  BY <1>4, CrashTaken
<1> QED
  BY <1>1, <1>2, <1>3, <1>4, RestTaken DEF Next

\* Initially nothing is taken.
LEMMA DeductionInit == Init => DeductionInv
<1> SUFFICES ASSUME Init PROVE DeductionInv
  OBVIOUS
<1>1. \A o \in Orders : OrderTaken(o)
  BY AmountAssumption DEF Init, OrderTaken, Clean, RollbackFailed
<1>2. \A p \in Procs : HandlerTaken(p)
  BY AmountAssumption DEF Init, Idle, HandlerTaken, Busy, HeldCalls
<1> QED
  BY <1>1, <1>2 DEF DeductionInv

\* Types, lock, gateway and deductions are an invariant where the audit log can be
\* trusted and finalisations run alone.
THEOREM Refunds ==
  ASSUME Trusted
  PROVE  Spec => []RefundInv
<1> DEFINE Inv == TypeOK /\ Within /\ HandlerInv /\ LockInv /\ GatewayInv
<1>1. Spec => []Inv
  BY SerialInv DEF Trusted
<1>2. Inv /\ DeductionInv /\ [Next]_vars => DeductionInv'
  BY DeductionStep
<1>3. Inv /\ DeductionInv => RefundInv
  BY DEF RefundInv
<1> HIDE DEF Inv
<1> QED
  BY <1>1, <1>2, <1>3, DeductionInit, PTL DEF Spec

\* "Skip balance deduction on retry if previous attempt already deducted but failed
\* to roll back" works: the refunds of an order never take more than it credited.
THEOREM DeductedOnce ==
  ASSUME Trusted
  PROVE  Spec => []NoDoubleDeduction
<1>1. RefundInv => NoDoubleDeduction
  BY DEF RefundInv, DeductionInv, OrderTaken, NoDoubleDeduction
<1> QED
  BY <1>1, Refunds, PTL

\* What a refund that did not go through took is given back, or on record as not
\* given back, when nobody works on the order.
THEOREM GivenBack ==
  ASSUME Trusted
  PROVE  Spec => []FailedTakesNothing
<1>1. ASSUME RefundInv PROVE FailedTakesNothing
  <2>1. SUFFICES ASSUME NEW o \in Orders, Quiet(o),
                        status[o] \in {"COMPLETED", "REFUND_REQUESTED", "REFUND_PENDING"}
                 PROVE  Clean(o)
    BY DEF FailedTakesNothing, Clean, RollbackFailed
  <2>2. \A p \in Procs : h[p].pc = "idle" => ~Busy(p)
    BY <1>1 DEF RefundInv, HandlerInv, Busy, HeldCalls
  <2>3. \A p \in Procs : Busy(p) => h[p].order # o
    BY <2>1, <2>2 DEF Quiet
  <2>4. OrderTaken(o)
    BY <1>1 DEF RefundInv, DeductionInv
  <2> QED
    BY <2>1, <2>3, <2>4 DEF OrderTaken, Refundable
<1> QED
  BY <1>1, Refunds, PTL
===============================================================================
