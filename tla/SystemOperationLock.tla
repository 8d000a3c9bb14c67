------------------------- MODULE SystemOperationLock --------------------------
(***************************************************************************)
(* The lock that keeps two system operations (update, rollback, restart)   *)
(* from running at once, on every instance that shares the database: one   *)
(* row of IdempotencyStore whose fingerprint is the operation's id, leased *)
(* for ProcessingTimeout and renewed by a goroutine of the holder.         *)
(* Source: service/system_operation_lock_service.go and the handlers of    *)
(* handler/admin/system_handler.go.                                        *)
(***************************************************************************)
EXTENDS IdempotencyStore

CONSTANTS
  Procs,          \* handlers that can be running at once
  Faults,         \* the kinds of failure, a subset of AllFaults
  RenewInterval   \* a third of the lease

\* "store": a statement of Acquire or Release fails, applied or not; "renew": a
\* renewal fails; "crash": a handler dies and its goroutine with it; "long": an
\* operation runs longer than a lease.
AllFaults == {"store", "renew", "crash", "long"}

ASSUME FaultsAssumption   == Faults \subseteq AllFaults
ASSUME IntervalAssumption == RenewInterval \in 1 .. ProcessingTimeout

VARIABLES
  pc,         \* per handler: next call
  operation,  \* the id of its operation
  local,      \* the time it read, and the id and status of the row it read
  renewAt     \* when its goroutine renews next; Stopped if it does not run

vars == <<now, rowVars, pc, operation, local, renewAt>>

Stopped == MaxTime + RenewInterval + 1

AcquireCalls == {"create", "get", "reclaim"}
ReleaseCalls == {"release_succeeded", "release_failed"}
Holding(p)  == pc[p] \in {"run"} \cup ReleaseCalls
Lease(p)    == local[p].start + ProcessingTimeout

Locals  == [start : Nat, rec : Nat, from : Statuses]
NoLocal == [start |-> 0, rec |-> 0, from |-> "processing"]

Init ==
  /\ StoreInit
  /\ pc = [p \in Procs |-> "idle"]
  /\ operation = [p \in Procs |-> fingerprint]
  /\ local = [p \in Procs |-> NoLocal]
  /\ renewAt = [p \in Procs |-> Stopped]

Fails(kind) == kind \in Faults

Goto(p, call) == pc' = [pc EXCEPT ![p] = call]

Return(p) ==
  /\ Goto(p, "idle")
  /\ local' = [local EXCEPT ![p] = NoLocal]
  /\ renewAt' = [renewAt EXCEPT ![p] = Stopped]

Begin(p, op) ==
  /\ pc[p] = "idle"
  /\ Goto(p, "create")
  /\ operation' = [operation EXCEPT ![p] = op]
  /\ local' = [local EXCEPT ![p].start = now]
  /\ UNCHANGED <<now, rowVars, renewAt>>

\* The lock is held, unless the statement's answer got lost; the goroutine starts.
Acquired(p, row) ==
  \/ /\ Goto(p, "run")
     /\ local' = [local EXCEPT ![p].rec = row]
     /\ renewAt' = [renewAt EXCEPT ![p] = now + RenewInterval]
  \/ Fails("store") /\ Return(p)

\* Acquire: insert the row, or take it over unless its lease is running.
CreateProcessing(p) ==
  /\ pc[p] = "create"
  /\ \/ /\ Insert(operation[p], Lease(p), local[p].start + TTL)
        /\ Acquired(p, id')
     \/ /\ status # "absent"
        /\ Goto(p, "get")
        /\ UNCHANGED <<rowVars, local, renewAt>>
     \/ Fails("store") /\ Return(p) /\ UNCHANGED rowVars
  /\ UNCHANGED <<now, operation>>

\* The row exists and no lease is running on it.
Free(p) == status # "absent" /\ ~(status = "processing" /\ lockedUntil > local[p].start)

GetExisting(p) ==
  /\ pc[p] = "get"
  /\ \/ /\ Free(p)
        /\ Goto(p, "reclaim")
        /\ local' = [local EXCEPT ![p] = [@ EXCEPT !.rec = id, !.from = status]]
        /\ UNCHANGED renewAt
     \/ (~Free(p) \/ Fails("store")) /\ Return(p)
  /\ UNCHANGED <<now, rowVars, operation>>

TryReclaim(p) ==
  LET seen == local[p] IN
  /\ pc[p] = "reclaim"
  /\ \/ /\ Reclaimable(seen.rec, seen.from, seen.start)
        /\ Reclaim(Lease(p), seen.start + TTL)
        /\ Acquired(p, seen.rec)
     \/ /\ ~Reclaimable(seen.rec, seen.from, seen.start) \/ Fails("store")
        /\ Return(p)
        /\ UNCHANGED rowVars
  /\ UNCHANGED <<now, operation>>

\* The operation ends; Release first stops the goroutine, then updates the row.
Finish(p) ==
  /\ pc[p] = "run"
  /\ \E call \in ReleaseCalls : Goto(p, call)
  /\ renewAt' = [renewAt EXCEPT ![p] = Stopped]
  /\ UNCHANGED <<now, rowVars, operation, local>>

Release(p) ==
  /\ \/ /\ pc[p] = "release_succeeded"
        /\ MarkSucceeded(local[p].rec, operation[p], now + TTL)
     \/ /\ pc[p] = "release_failed"
        /\ MarkFailedRetryable(local[p].rec, now, now + TTL)
     \/ pc[p] \in ReleaseCalls /\ Fails("store") /\ UNCHANGED rowVars
  /\ Return(p)
  /\ UNCHANGED <<now, operation>>

\* Mutant: the goroutine gives up at the first failure.
RenewOnce(p) ==
  /\ renewAt' = [renewAt EXCEPT ![p] = Stopped]
  /\ UNCHANGED rowVars

\* A renewal that fails is tried again in the next round.  The failures that occur
\* leave a round before the lease ends.
RenewFails(p) ==
  /\ renewAt' = [renewAt EXCEPT ![p] = now + RenewInterval]
  /\ UNCHANGED rowVars

\* One round of renewLoop: the goroutine ends when it finds no row of its own.
renewLoop(p) ==
  /\ renewAt[p] <= now
  /\ \/ /\ Extendable(local[p].rec, operation[p])
        /\ Extend(now + ProcessingTimeout, now + TTL)
        /\ renewAt' = [renewAt EXCEPT ![p] = now + RenewInterval]
     \/ /\ ~Extendable(local[p].rec, operation[p])
        /\ renewAt' = [renewAt EXCEPT ![p] = Stopped]
        /\ UNCHANGED rowVars
     \/ Fails("renew") /\ now + RenewInterval < lockedUntil /\ RenewFails(p)
  /\ UNCHANGED <<now, pc, operation, local>>

Crash(p) ==
  /\ Fails("crash")
  /\ pc[p] # "idle"
  /\ Return(p)
  /\ UNCHANGED <<now, rowVars, operation>>

cleanupOnce ==
  /\ DeleteExpired
  /\ UNCHANGED <<now, pc, operation, local, renewAt>>

\* Renewals are made when they are due, the calls of Acquire and Release take less
\* than a renewal interval, and an operation that is not long less than a lease.
Tick ==
  /\ now < MaxTime
  /\ now' = now + 1
  /\ \A p \in Procs :
       /\ renewAt[p] > now
       /\ pc[p] \in AcquireCalls => now' < local[p].start + RenewInterval
       /\ pc[p] = "run" /\ ~Fails("long") => now' < Lease(p)
       /\ pc[p] \notin ReleaseCalls
  /\ UNCHANGED <<rowVars, pc, operation, local, renewAt>>

Step(p) ==
  \/ \E op \in Prints : Begin(p, op)
  \/ CreateProcessing(p) \/ GetExisting(p) \/ TryReclaim(p)
  \/ Finish(p) \/ Release(p) \/ renewLoop(p) \/ Crash(p)

Next == (\E p \in Procs : Step(p)) \/ cleanupOnce \/ Tick

Spec == Init /\ [][Next]_vars

-------------------------------------------------------------------------------
(* Properties.                                                              *)

\* The row, the handlers' locals and the goroutines' timers are well typed.
TypeOK ==
  /\ StoreTypeOK
  /\ pc \in [Procs -> {"idle", "run"} \cup AcquireCalls \cup ReleaseCalls]
  /\ operation \in [Procs -> Prints]
  /\ local \in [Procs -> Locals]
  /\ renewAt \in [Procs -> Nat]

\* Two system operations never run at the same time, on whatever instances.
SingleOperation == \A p, q \in Procs : Holding(p) /\ Holding(q) => p = q


\* locked_until is renewed while the lock is held: the row never looks free.
LeaseCoversHolder ==
  (\E p \in Procs : Holding(p)) => status = "processing" /\ lockedUntil > now

-------------------------------------------------------------------------------
(* The invariant behind them, and when it holds.                            *)

\* Every operation ends within its first lease, or the record of the lock always
\* carries the id of the operation that renews it, well before the lease ends.
Renewable ==
  \/ ~Fails("long")
  \/ 2 * RenewInterval <= ProcessingTimeout /\ \A a, b \in Prints : a = b

\* The holder's record is the one it claimed, with its lease running.
HoldsLock(p) ==
  /\ local[p].start <= now
  /\ status = "processing" /\ id = local[p].rec
  /\ now < lockedUntil /\ lockedUntil <= expiresAt

\* Claims are made early in the lease, and only a running operation has a goroutine,
\* which will renew the lease before it ends unless the operation ends first.
HolderInv ==
  /\ now <= MaxTime
  /\ \A p \in Procs :
       /\ pc[p] \in AcquireCalls => local[p].start <= now /\ now < local[p].start + RenewInterval
       /\ pc[p] # "run" => renewAt[p] = Stopped
       /\ Holding(p) => HoldsLock(p)
       /\ pc[p] = "run" => IF Fails("long") THEN renewAt[p] < lockedUntil
                                            ELSE Lease(p) <= lockedUntil

\* Inductive where Renewable: types, the lock excludes, and its leases.
LockInv == TypeOK /\ SingleOperation /\ HolderInv
===============================================================================
