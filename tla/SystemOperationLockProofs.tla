---------------------- MODULE SystemOperationLockProofs -----------------------
(***************************************************************************)
(* Proofs about SystemOperationLock: types with no hypothesis, exclusion   *)
(* and leases wherever leases are renewable, for any handlers, operations, *)
(* lease, renewal interval and failures.                                   *)
(***************************************************************************)
EXTENDS SystemOperationLock, TLAPS

USE DEF rowVars

-------------------------------------------------------------------------------
(* Types.                                                                   *)

Calls == {"idle", "run"} \cup AcquireCalls \cup ReleaseCalls

\* The variables of the handlers, without what each was asked to do.
ProcTypeOK ==
  /\ pc \in [Procs -> Calls]
  /\ local \in [Procs -> Locals]
  /\ renewAt \in [Procs -> Nat]

\* The locals of a handler that is not running are well typed.
LEMMA NoLocalType == NoLocal \in Locals
BY DEF NoLocal, Locals, Statuses

\* The timer that never fires, the lease and the renewal interval are natural numbers.
LEMMA TimesTyped ==
  /\ Stopped \in Nat
  /\ RenewInterval \in Nat /\ ProcessingTimeout \in Nat /\ TTL \in Nat
  /\ 1 <= RenewInterval /\ RenewInterval <= ProcessingTimeout /\ ProcessingTimeout <= TTL
  /\ TypeOK => now \in Nat /\ \A p \in Procs : local[p].start \in Nat /\ Lease(p) \in Nat
BY TimesAssumption, IntervalAssumption DEF Stopped, TypeOK, StoreTypeOK, Locals, Lease

\* Initially there is no row, and no handler or goroutine runs.
LEMMA TypeInit == Init => TypeOK
<1> SUFFICES ASSUME Init PROVE TypeOK
  OBVIOUS
<1>1. StoreTypeOK /\ operation \in [Procs -> Prints]
  BY DEF Init, StoreInit, StoreTypeOK
<1>2. ProcTypeOK
  BY NoLocalType, TimesTyped DEF Init, ProcTypeOK, Calls
<1> QED
  BY <1>1, <1>2 DEF TypeOK, ProcTypeOK, Calls

\* A handler that returns stays well typed.
LEMMA ReturnType ==
  ASSUME TypeOK, NEW p \in Procs, Return(p)
  PROVE  ProcTypeOK'
BY NoLocalType, TimesTyped DEF TypeOK, Return, Goto, ProcTypeOK, Calls

\* So does one that acquired the lock, or whose statement's answer got lost.
LEMMA AcquiredType ==
  ASSUME TypeOK, NEW p \in Procs, NEW row \in Nat, Acquired(p, row)
  PROVE  ProcTypeOK'
<1>1. CASE Return(p)
  BY <1>1, ReturnType
<1>2. CASE /\ Goto(p, "run")
           /\ local' = [local EXCEPT ![p].rec = row]
           /\ renewAt' = [renewAt EXCEPT ![p] = now + RenewInterval]
  BY <1>2, TimesTyped DEF TypeOK, Goto, Locals, ProcTypeOK, Calls
<1> QED
  BY <1>1, <1>2 DEF Acquired

\* Every step keeps the row's columns and the handlers' variables in their types.
LEMMA TypeStep == TypeOK /\ [Next]_vars => TypeOK'
<1> SUFFICES ASSUME TypeOK, [Next]_vars PROVE TypeOK'
  OBVIOUS
<1>0. ASSUME ProcTypeOK', StoreTypeOK', UNCHANGED operation PROVE TypeOK'
  BY <1>0 DEF TypeOK, ProcTypeOK, Calls
<1>1. ASSUME NEW p \in Procs, NEW op \in Prints, Begin(p, op) PROVE TypeOK'
  BY <1>1 DEF Begin, Goto, TypeOK, StoreTypeOK, Locals, AcquireCalls
<1>2. ASSUME NEW p \in Procs, CreateProcessing(p) PROVE TypeOK'
  <2>1. StoreTypeOK'
    BY <1>2, TimesTyped DEF CreateProcessing, Insert, TypeOK, StoreTypeOK, Statuses
  <2>2. ProcTypeOK'
    <3>1. \/ Acquired(p, id')
          \/ Goto(p, "get") /\ UNCHANGED <<local, renewAt>>
          \/ Return(p)
      BY <1>2 DEF CreateProcessing
    <3>2. CASE Goto(p, "get") /\ UNCHANGED <<local, renewAt>>
      BY <3>2 DEF Goto, TypeOK, ProcTypeOK, Calls, AcquireCalls
    <3> QED
      BY <2>1, <3>1, <3>2, AcquiredType, ReturnType DEF StoreTypeOK
  <2> QED
    BY <1>0, <1>2, <2>1, <2>2 DEF CreateProcessing
<1>3. ASSUME NEW p \in Procs, GetExisting(p) PROVE TypeOK'
  <2>1. ProcTypeOK'
    <3>1. CASE Return(p)
      BY <3>1, ReturnType
    <3>2. CASE /\ Free(p)
               /\ Goto(p, "reclaim")
               /\ local' = [local EXCEPT ![p] = [@ EXCEPT !.rec = id, !.from = status]]
               /\ UNCHANGED renewAt
      BY <3>2 DEF Free, Goto, TypeOK, StoreTypeOK, Locals, ProcTypeOK, Calls, AcquireCalls
    <3> QED
      BY <1>3, <3>1, <3>2 DEF GetExisting
  <2> QED
    BY <1>0, <1>3, <2>1 DEF GetExisting, TypeOK, StoreTypeOK
<1>4. ASSUME NEW p \in Procs, TryReclaim(p) PROVE TypeOK'
  <2>1. StoreTypeOK'
    BY <1>4, TimesTyped DEF TryReclaim, Reclaim, TypeOK, StoreTypeOK, Statuses
  <2>2. ProcTypeOK'
    BY <1>4, AcquiredType, ReturnType DEF TryReclaim, TypeOK, Locals
  <2> QED
    BY <1>0, <1>4, <2>1, <2>2 DEF TryReclaim
<1>5. ASSUME NEW p \in Procs, Finish(p) PROVE TypeOK'
  BY <1>5, TimesTyped DEF Finish, Goto, TypeOK, StoreTypeOK
<1>6. ASSUME NEW p \in Procs, Release(p) PROVE TypeOK'
  <2>1. StoreTypeOK'
    BY <1>6, TimesTyped
       DEF Release, MarkSucceeded, MarkFailedRetryable, TypeOK, StoreTypeOK, Statuses
  <2> QED
    BY <1>0, <1>6, <2>1, ReturnType DEF Release
<1>7. ASSUME NEW p \in Procs, renewLoop(p) PROVE TypeOK'
  <2>1. StoreTypeOK'
    BY <1>7, TimesTyped DEF renewLoop, RenewFails, Extend, TypeOK, StoreTypeOK
  <2>2. ProcTypeOK'
    BY <1>7, TimesTyped DEF renewLoop, RenewFails, TypeOK, ProcTypeOK, Calls
  <2> QED
    BY <1>0, <1>7, <2>1, <2>2 DEF renewLoop
<1>8. ASSUME NEW p \in Procs, Crash(p) PROVE TypeOK'
  BY <1>0, <1>8, ReturnType DEF Crash, TypeOK, StoreTypeOK
<1>9. CASE cleanupOnce
  BY <1>9 DEF cleanupOnce, DeleteExpired, TypeOK, StoreTypeOK
<1>10. CASE Tick
  BY <1>10 DEF Tick, TypeOK, StoreTypeOK
<1>11. CASE UNCHANGED vars
  BY <1>11 DEF vars, TypeOK, StoreTypeOK
<1> QED
  BY <1>1, <1>2, <1>3, <1>4, <1>5, <1>6, <1>7, <1>8, <1>9, <1>10, <1>11 DEF Next, Step

\* The row of the lock and the state of its handlers are well typed, in any execution.
THEOREM TypeCorrect == Spec => []TypeOK
BY TypeInit, TypeStep, PTL DEF Spec

-------------------------------------------------------------------------------
(* Exclusion and leases.                                                    *)

\* What HolderInv says of one handler.
HandlerInv(p) ==
  /\ pc[p] \in AcquireCalls => local[p].start <= now /\ now < local[p].start + RenewInterval
  /\ pc[p] # "run" => renewAt[p] = Stopped
  /\ Holding(p) => HoldsLock(p)
  /\ pc[p] = "run" => IF Fails("long") THEN renewAt[p] < lockedUntil
                                       ELSE Lease(p) <= lockedUntil

\* A step of another handler, or of the cleanup, that leaves p's variables alone.
Bystander(p) == UNCHANGED <<now, pc[p], local[p], renewAt[p]>>

\* A bystander's obligations depend on the row only while it holds the lock.
LEMMA BystanderStep ==
  ASSUME NEW p \in Procs, HandlerInv(p), Bystander(p), UNCHANGED rowVars \/ ~Holding(p)
  PROVE  HandlerInv(p)'
BY DEF HandlerInv, Bystander, Holding, HoldsLock, Lease

\* A handler with no lock and no goroutine has no obligations.
LEMMA IdleStep ==
  ASSUME TypeOK, NEW p \in Procs, Return(p)
  PROVE  HandlerInv(p)' /\ ~Holding(p)'
<1>1. pc'[p] = "idle" /\ renewAt'[p] = Stopped
  BY DEF Return, Goto, TypeOK
<1> QED
  BY <1>1 DEF HandlerInv, Holding, AcquireCalls, ReleaseCalls, Stopped

\* When one handler at most changes its variables, it alone has to be looked at,
\* unless it is the first holder or changes the row it holds.
LEMMA HandlersStep ==
  ASSUME LockInv, TypeOK', UNCHANGED now, NEW p \in Procs,
         \A q \in Procs \ {p} : UNCHANGED <<pc[q], local[q], renewAt[q]>>,
         HandlerInv(p)',
         Holding(p)' => Holding(p) \/ \A q \in Procs : ~Holding(q),
         UNCHANGED rowVars \/ Holding(p) \/ \A q \in Procs : ~Holding(q)
  PROVE  LockInv'
<1>1. \A q \in Procs \ {p} : HandlerInv(q)'
  <2> SUFFICES ASSUME NEW q \in Procs \ {p} PROVE HandlerInv(q)'
    OBVIOUS
  <2>1. HandlerInv(q) /\ Bystander(q)
    BY DEF LockInv, HolderInv, HandlerInv, Bystander
  <2>2. UNCHANGED rowVars \/ ~Holding(q)
    BY DEF LockInv, SingleOperation
  <2> QED
    BY <2>1, <2>2, BystanderStep
<1>2. HolderInv'
  BY <1>1 DEF LockInv, HolderInv, HandlerInv
<1>3. SingleOperation'
  <2>1. \A q \in Procs \ {p} : Holding(q)' = Holding(q)
    BY DEF Holding
  <2> QED
    BY <2>1 DEF LockInv, SingleOperation
<1> QED
  BY <1>2, <1>3 DEF LockInv

\* A row without a running lease is nobody's.
LEMMA FreeRow ==
  ASSUME LockInv, status = "absent" \/ lockedUntil <= now
  PROVE  \A p \in Procs : ~Holding(p)
BY DEF LockInv, TypeOK, StoreTypeOK, HolderInv, HoldsLock

\* A claim made early in the lease leaves the time for a renewal.
LEMMA ClaimStep ==
  ASSUME LockInv, Renewable, NEW p \in Procs, pc[p] \in AcquireCalls, UNCHANGED now,
         NEW row \in Nat, row = id', status' = "processing",
         lockedUntil' = Lease(p), expiresAt' = local[p].start + TTL,
         TypeOK', Acquired(p, row), \A q \in Procs : ~Holding(q)
  PROVE  LockInv'
<1>1. HandlerInv(p)'
  <2>1. CASE Return(p)
    BY <2>1, IdleStep DEF LockInv
  <2>2. CASE /\ Goto(p, "run")
             /\ local' = [local EXCEPT ![p].rec = row]
             /\ renewAt' = [renewAt EXCEPT ![p] = now + RenewInterval]
    <3>1. /\ pc'[p] = "run" /\ local'[p].rec = row /\ local'[p].start = local[p].start
          /\ renewAt'[p] = now + RenewInterval
      BY <2>2 DEF Goto, LockInv, TypeOK, Locals
    <3>2. local[p].start <= now /\ now < local[p].start + RenewInterval
      BY DEF LockInv, HolderInv
    <3>3. now \in Nat /\ local[p].start \in Nat
      BY TimesTyped DEF LockInv
    <3>4. Lease(p) = local[p].start + ProcessingTimeout /\ Lease(p)' = Lease(p)
      BY <3>1 DEF Lease
    <3>5. now < Lease(p) /\ Lease(p) <= local[p].start + TTL
      BY <3>2, <3>3, <3>4, TimesTyped
    <3>6. HoldsLock(p)'
      BY <3>1, <3>2, <3>5 DEF HoldsLock
    <3>7. Fails("long") => renewAt'[p] < lockedUntil'
      BY <3>1, <3>2, <3>3, <3>4, TimesTyped DEF Renewable
    <3>8. Fails("long") \/ Lease(p)' <= lockedUntil'
      BY <3>3, <3>4, TimesTyped
    <3> QED
      BY <3>1, <3>6, <3>7, <3>8 DEF HandlerInv, AcquireCalls, Fails
  <2> QED
    BY <2>1, <2>2 DEF Acquired
<1>2. \A q \in Procs \ {p} : UNCHANGED <<pc[q], local[q], renewAt[q]>>
  BY DEF Acquired, Return, Goto, LockInv, TypeOK
<1> QED
  BY <1>1, <1>2, HandlersStep

\* Initially nobody holds the lock.
LEMMA LockInit == Init => LockInv
<1> SUFFICES ASSUME Init PROVE LockInv
  OBVIOUS
<1>1. now = 0 /\ \A p \in Procs : pc[p] = "idle" /\ renewAt[p] = Stopped
  BY DEF Init, StoreInit
<1>2. SingleOperation /\ HolderInv
  BY <1>1, TimesAssumption
     DEF SingleOperation, HolderInv, Holding, AcquireCalls, ReleaseCalls
<1> QED
  BY <1>2, TypeInit DEF LockInv

\* A round of the goroutine finds the row of its handler and renews the lease, or
\* fails early enough to be tried again; it ends by itself only in a first lease.
LEMMA RenewStep ==
  ASSUME LockInv, Renewable, TypeOK', NEW p \in Procs, renewLoop(p)
  PROVE  LockInv'
<1>1. now \in Nat /\ local[p].start \in Nat /\ Lease(p) \in Nat /\ renewAt[p] \in Nat
  BY TimesTyped DEF LockInv, TypeOK
<1>2. pc[p] = "run"
  <2>1. renewAt[p] <= now /\ now <= MaxTime
    BY DEF renewLoop, LockInv, HolderInv
  <2>2. renewAt[p] # Stopped
    BY <1>1, <2>1, TimesTyped, TimesAssumption DEF Stopped
  <2> QED
    BY <2>2 DEF LockInv, HolderInv
<1>3. UNCHANGED <<now, pc, operation, local>>
  BY DEF renewLoop
<1>4. Holding(p) /\ Holding(p)' /\ HoldsLock(p)
  BY <1>2, <1>3 DEF Holding, LockInv, HolderInv
<1>5. \A q \in Procs \ {p} : renewAt'[q] = renewAt[q]
  BY DEF renewLoop, RenewFails, LockInv, TypeOK
<1>6. HandlerInv(p)'
  <2>0. /\ pc'[p] = "run" /\ now' = now /\ Lease(p)' = Lease(p)
        /\ local'[p].start = local[p].start /\ local'[p].rec = local[p].rec
    BY <1>2, <1>3 DEF Lease
  <2>1. CASE /\ Extend(now + ProcessingTimeout, now + TTL)
             /\ renewAt' = [renewAt EXCEPT ![p] = now + RenewInterval]
    <3>1. renewAt'[p] = now + RenewInterval
      BY <2>1 DEF LockInv, TypeOK
    <3>2. HoldsLock(p)'
      BY <1>1, <1>4, <2>0, <2>1, TimesTyped DEF Extend, HoldsLock
    <3>3. Fails("long") => renewAt'[p] < lockedUntil'
      BY <1>1, <2>1, <3>1, TimesTyped DEF Extend, Renewable
    <3>4. Lease(p)' <= lockedUntil'
      BY <1>1, <1>4, <2>0, <2>1, TimesTyped DEF Extend, HoldsLock, Lease
    <3> QED
      BY <2>0, <3>2, <3>3, <3>4 DEF HandlerInv, AcquireCalls, Fails
  <2>2. CASE /\ ~Extendable(local[p].rec, operation[p])
             /\ UNCHANGED rowVars
    <3>1. ~Fails("long")
      BY <1>4, <2>2 DEF Extendable, HoldsLock, Renewable, LockInv, TypeOK, StoreTypeOK
    <3> QED
      BY <1>2, <1>3, <1>4, <2>0, <2>2, <3>1
         DEF HandlerInv, HoldsLock, AcquireCalls, Fails, LockInv, HolderInv
  <2>3. CASE now + RenewInterval < lockedUntil /\ RenewFails(p)
    <3>1. renewAt'[p] = now + RenewInterval
      BY <2>3 DEF RenewFails, LockInv, TypeOK
    <3> QED
      BY <1>2, <1>3, <1>4, <2>0, <2>3, <3>1
         DEF RenewFails, HandlerInv, HoldsLock, AcquireCalls, Fails, LockInv, HolderInv
  <2> QED
    BY <2>1, <2>2, <2>3 DEF renewLoop
<1> QED
  BY <1>3, <1>4, <1>5, <1>6, HandlersStep

\* Time passes only while claims are early, rounds are made when they are due and
\* operations that are not long are within their first lease.
LEMMA TickStep ==
  ASSUME LockInv, TypeOK', Tick
  PROVE  LockInv'
<1>1. SingleOperation'
  BY DEF Tick, LockInv, SingleOperation, Holding
<1>2. now' <= MaxTime
  BY TimesAssumption DEF Tick, LockInv, TypeOK, StoreTypeOK
<1>3. ASSUME NEW p \in Procs PROVE HandlerInv(p)'
  <2>1. /\ now \in Nat /\ now' = now + 1 /\ renewAt[p] \in Nat /\ lockedUntil \in Nat
        /\ local[p].start \in Nat /\ Lease(p) \in Nat
    BY TimesTyped DEF Tick, LockInv, TypeOK, StoreTypeOK
  <2>2. UNCHANGED <<rowVars, pc, local, renewAt>> /\ Lease(p)' = Lease(p)
    BY DEF Tick, Lease
  <2>3. pc[p] \in AcquireCalls => local[p].start <= now' /\ now' < local[p].start + RenewInterval
    BY <2>1 DEF Tick, LockInv, HolderInv
  <2>4. ASSUME Holding(p) PROVE HoldsLock(p)'
    <3>1. pc[p] = "run" /\ HoldsLock(p)
      BY <2>4 DEF Tick, Holding, LockInv, HolderInv
    <3>2. now' < lockedUntil
      BY <2>1, <3>1 DEF Tick, LockInv, HolderInv, Fails
    <3> QED
      BY <2>1, <2>2, <3>1, <3>2 DEF HoldsLock
  <2> QED
    BY <2>2, <2>3, <2>4 DEF HandlerInv, Holding, LockInv, HolderInv, Fails
<1> QED
  BY <1>1, <1>2, <1>3 DEF LockInv, HolderInv, HandlerInv

\* Every step keeps the lock exclusive and its leases running.
LEMMA LockStep == Renewable /\ LockInv /\ [Next]_vars => LockInv'
<1> SUFFICES ASSUME Renewable, LockInv, [Next]_vars PROVE LockInv'
  OBVIOUS
<1>0. TypeOK /\ TypeOK'
  BY TypeStep DEF LockInv
<1>1. ASSUME NEW p \in Procs, UNCHANGED <<now, rowVars>>, HandlerInv(p)',
             Holding(p)' => Holding(p),
             \A q \in Procs \ {p} : UNCHANGED <<pc[q], local[q], renewAt[q]>>
      PROVE  LockInv'
  BY <1>0, <1>1, HandlersStep
<1>2. ASSUME NEW p \in Procs, Return(p), UNCHANGED now, UNCHANGED rowVars \/ Holding(p)
      PROVE  LockInv'
  <2>1. \A q \in Procs \ {p} : UNCHANGED <<pc[q], local[q], renewAt[q]>>
    BY <1>0, <1>2 DEF Return, Goto, TypeOK
  <2> QED
    BY <1>0, <1>2, <2>1, IdleStep, HandlersStep
<1>3. ASSUME NEW p \in Procs, NEW op \in Prints, Begin(p, op) PROVE LockInv'
  <2>1. /\ pc'[p] = "create" /\ local'[p].start = now /\ now \in Nat
        /\ UNCHANGED <<now, rowVars, renewAt>> /\ renewAt[p] = Stopped
    BY <1>0, <1>3 DEF Begin, Goto, TypeOK, StoreTypeOK, Locals, LockInv, HolderInv
  <2>2. HandlerInv(p)' /\ ~Holding(p)'
    BY <2>1, TimesTyped DEF HandlerInv, Holding, AcquireCalls, ReleaseCalls, Stopped
  <2>3. \A q \in Procs \ {p} : UNCHANGED <<pc[q], local[q], renewAt[q]>>
    BY <1>0, <1>3 DEF Begin, Goto, TypeOK
  <2> QED
    BY <1>1, <2>1, <2>2, <2>3
<1>4. ASSUME NEW p \in Procs, NEW call \in AcquireCalls, pc[p] \in AcquireCalls, Goto(p, call),
             UNCHANGED <<now, rowVars, renewAt>>, local'[p].start = local[p].start,
             \A q \in Procs \ {p} : UNCHANGED local[q]
      PROVE  LockInv'
  <2>1. /\ pc'[p] = call /\ call # "run" /\ call \notin ReleaseCalls /\ pc[p] # "run"
    BY <1>0, <1>4 DEF Goto, TypeOK, AcquireCalls, ReleaseCalls
  <2>2. HandlerInv(p)' /\ ~Holding(p)'
    BY <1>4, <2>1 DEF HandlerInv, Holding, LockInv, HolderInv, Stopped
  <2>3. \A q \in Procs \ {p} : UNCHANGED <<pc[q], local[q], renewAt[q]>>
    BY <1>0, <1>4 DEF Goto, TypeOK
  <2> QED
    BY <1>1, <1>4, <2>2, <2>3
<1>5. ASSUME NEW p \in Procs, CreateProcessing(p) PROVE LockInv'
  <2>1. CASE Insert(operation[p], Lease(p), local[p].start + TTL) /\ Acquired(p, id')
    <3>1. \A q \in Procs : ~Holding(q)
      BY <2>1, FreeRow DEF Insert
    <3>2. id' \in Nat
      BY <1>0 DEF TypeOK, StoreTypeOK
    <3> QED
      BY <1>0, <1>5, <2>1, <3>1, <3>2, ClaimStep DEF CreateProcessing, Insert, AcquireCalls
  <2>2. CASE Goto(p, "get") /\ UNCHANGED <<rowVars, local, renewAt>>
    BY <1>4, <1>5, <2>2 DEF CreateProcessing, AcquireCalls
  <2>3. CASE Return(p) /\ UNCHANGED rowVars
    BY <1>2, <1>5, <2>3 DEF CreateProcessing
  <2> QED
    BY <1>5, <2>1, <2>2, <2>3 DEF CreateProcessing
<1>6. ASSUME NEW p \in Procs, GetExisting(p) PROVE LockInv'
  <2>1. CASE /\ Goto(p, "reclaim")
             /\ local' = [local EXCEPT ![p] = [@ EXCEPT !.rec = id, !.from = status]]
             /\ UNCHANGED renewAt
    <3>1. local'[p].start = local[p].start /\ \A q \in Procs \ {p} : UNCHANGED local[q]
      BY <1>0, <2>1 DEF TypeOK, Locals
    <3> QED
      BY <1>4, <1>6, <2>1, <3>1 DEF GetExisting, AcquireCalls
  <2>2. CASE Return(p)
    BY <1>2, <1>6, <2>2 DEF GetExisting
  <2> QED
    BY <1>6, <2>1, <2>2 DEF GetExisting
<1>7. ASSUME NEW p \in Procs, TryReclaim(p) PROVE LockInv'
  <2>1. CASE /\ Reclaimable(local[p].rec, local[p].from, local[p].start)
             /\ Reclaim(Lease(p), local[p].start + TTL)
             /\ Acquired(p, local[p].rec)
    <3>1. lockedUntil <= now
      <4>1. lockedUntil <= local[p].start /\ local[p].start <= now
        BY <1>7, <2>1 DEF Reclaimable, TryReclaim, AcquireCalls, LockInv, HolderInv
      <4> QED
        BY <1>0, <4>1, TimesTyped DEF TypeOK, StoreTypeOK
    <3>2. local[p].rec \in Nat /\ local[p].rec = id'
      BY <1>0, <2>1 DEF TypeOK, Locals, Reclaimable, Reclaim
    <3> QED
      BY <1>0, <1>7, <2>1, <3>1, <3>2, FreeRow, ClaimStep DEF TryReclaim, Reclaim, AcquireCalls
  <2>2. CASE Return(p) /\ UNCHANGED rowVars
    BY <1>2, <1>7, <2>2 DEF TryReclaim
  <2> QED
    BY <1>7, <2>1, <2>2 DEF TryReclaim
<1>8. ASSUME NEW p \in Procs, Finish(p) PROVE LockInv'
  <2>1. PICK call \in ReleaseCalls : Goto(p, call)
    BY <1>8 DEF Finish
  <2>2. /\ pc'[p] = call /\ renewAt'[p] = Stopped /\ Holding(p)
        /\ UNCHANGED <<now, rowVars, local>>
    BY <1>0, <1>8, <2>1 DEF Finish, Goto, TypeOK, Holding
  <2>3. HandlerInv(p)'
    BY <2>2 DEF HandlerInv, HoldsLock, AcquireCalls, ReleaseCalls, Stopped, LockInv, HolderInv
  <2>4. \A q \in Procs \ {p} : UNCHANGED <<pc[q], local[q], renewAt[q]>>
    BY <1>0, <1>8, <2>1 DEF Finish, Goto, TypeOK
  <2> QED
    BY <1>1, <2>2, <2>3, <2>4
<1>9. ASSUME NEW p \in Procs, Release(p) PROVE LockInv'
  BY <1>2, <1>9 DEF Release, Holding, ReleaseCalls
<1>10. ASSUME NEW p \in Procs, renewLoop(p) PROVE LockInv'
  BY <1>0, <1>10, RenewStep
<1>11. ASSUME NEW p \in Procs, Crash(p) PROVE LockInv'
  BY <1>2, <1>11 DEF Crash
<1>12. CASE cleanupOnce
  \* The row of a holder has not expired.
  <2>1. \A p \in Procs : ~Holding(p)
    BY <1>0, <1>12 DEF cleanupOnce, DeleteExpired, LockInv, HolderInv, HoldsLock, TypeOK, StoreTypeOK
  <2>2. \A p \in Procs : HandlerInv(p)' /\ ~Holding(p)'
    BY <1>12, <2>1, BystanderStep
       DEF cleanupOnce, Bystander, Holding, LockInv, HolderInv, HandlerInv
  <2> QED
    BY <1>0, <1>12, <2>2 DEF LockInv, HolderInv, HandlerInv, SingleOperation, cleanupOnce
<1>13. CASE Tick
  BY <1>0, <1>13, TickStep
<1>14. CASE UNCHANGED vars
  BY <1>0, <1>14
     DEF vars, LockInv, SingleOperation, HolderInv, Holding, HoldsLock, Lease
<1> QED
  BY <1>3, <1>5, <1>6, <1>7, <1>8, <1>9, <1>10, <1>11, <1>12, <1>13, <1>14 DEF Next, Step

\* Two system operations never run at once, whatever fails or dies, where every
\* operation ends within its first lease or the lock's record keeps one id.
THEOREM Exclusion ==
  ASSUME Renewable
  PROVE  Spec => []LockInv
BY LockInit, LockStep, PTL DEF Spec

\* There, too, no reader ever finds the row of a holder without a running lease.
THEOREM LeaseKept ==
  ASSUME Renewable
  PROVE  Spec => []LeaseCoversHolder
<1>1. LockInv => LeaseCoversHolder
  BY DEF LockInv, HolderInv, HoldsLock, LeaseCoversHolder, TypeOK, StoreTypeOK
<1> QED
  BY <1>1, Exclusion, PTL
===============================================================================
