------------------------ MODULE BatchImageJobsProofs -------------------------
(***************************************************************************)
(* Proofs about BatchImageJobs: the inductive invariant IInv, part by part *)
(* and handler by handler, and the safety theorems that follow from it,    *)
(* for any number of jobs and workers, any hold, cost and retry limit and  *)
(* any set of failures.                                                    *)
(***************************************************************************)
EXTENDS BatchImageJobs, TLAPS

USE HoldAssumption, BalanceAssumption, CostsAssumption, RetriesAssumption,
    WorkersAssumption
USE DEF Fails, Committed, Errs, Answers, Held, Captured, Returned, Released, Burnt,
    moneyVars, jobVars, handlerVars, Operations, Early, Failing, Settled, Terminal,
    Statuses, Done, ReleaseSteps, RecordSteps, SubmitSteps, CancelSteps,
    RecoverSteps, WorkerSteps, Idle, At

-----------------------------------------------------------------------------
(* What the three transactions do to the money.                            *)

MoneyTypes ==
  /\ balance \in Nat /\ frozen \in Nat
  /\ returned \subseteq Jobs
  /\ dedup \in [Operations -> SUBSET Jobs]

\* A reservation claims the hold of its job only, and "ok" means it has.
LEMMA ReserveStep ==
  ASSUME MoneyTypes, NEW j \in Jobs, NEW r \in Answers, ReserveBatchImageBalance(j, r)
  PROVE  /\ MoneyTypes'
         /\ returned' = returned
         /\ dedup'["capture"] = dedup["capture"] /\ dedup'["release"] = dedup["release"]
         /\ dedup["hold"] \subseteq dedup'["hold"]
         /\ dedup'["hold"] \subseteq dedup["hold"] \cup {j}
         /\ r = "ok" => j \in dedup'["hold"]
         /\ r \in {"refused", "error"} => dedup' = dedup
  BY DEF MoneyTypes, ReserveBatchImageBalance, Claim

\* A capture within the hold keeps the balances natural and claims its job only.
LEMMA CaptureStep ==
  ASSUME MoneyTypes, NEW j \in Jobs, NEW a \in Nat, a <= Hold, NEW r \in Answers,
         CaptureBatchImageBalance(j, a, r)
  PROVE  /\ MoneyTypes'
         /\ returned' = returned
         /\ dedup'["hold"] = dedup["hold"] /\ dedup'["release"] = dedup["release"]
         /\ dedup["capture"] \subseteq dedup'["capture"]
         /\ dedup'["capture"] \subseteq dedup["capture"] \cup {j}
         /\ r = "ok" => j \in dedup'["capture"]
         /\ r \in {"refused", "error"} => dedup' = dedup
  BY DEF MoneyTypes, CaptureBatchImageBalance, Claim

\* A release returns the hold of its job only, and only one that was made and not
\* released before.
LEMMA ReleaseStep ==
  ASSUME MoneyTypes, NEW j \in Jobs, NEW r \in Answers, ReleaseBatchImageBalance(j, r)
  PROVE  /\ MoneyTypes'
         /\ dedup'["hold"] = dedup["hold"] /\ dedup'["capture"] = dedup["capture"]
         /\ dedup["release"] \subseteq dedup'["release"]
         /\ dedup'["release"] \subseteq dedup["release"] \cup {j}
         /\ returned \subseteq returned' /\ returned' \subseteq returned \cup {j}
         /\ j \in returned' => j \in returned \/ (Held(j) /\ j \in dedup'["release"])
         /\ r = "ok" => j \in dedup'["release"]
  BY DEF MoneyTypes, ReleaseBatchImageBalance, Claim

\* A transition that a worker makes, and what it does next, keep the types.
LEMMA MoveOnTypes ==
  ASSUME TypeOK, NEW w \in Workers, NEW j \in Jobs, worker[w].job = j,
         NEW to \in Statuses, NEW next \in WorkerSteps \cup {"requeue"},
         MoveOn(w, j, to, next)
  PROVE  /\ status' \in [Jobs -> Statuses]
         /\ worker' \in [Workers -> [step : WorkerSteps, job : Jobs \cup {"none"},
                                     seen : Statuses]]
         /\ lock' \in [Jobs -> Workers \cup {NoWorker}]
         /\ queued' \subseteq Jobs
<1>1. PICK r \in Answers : /\ Transition(j, to, r)
                           /\ IF r = "ok" /\ next # "requeue" THEN WorkerTo(w, next)
                                                            ELSE Requeue(w)
  BY DEF MoveOn
<1>2. status' \in [Jobs -> Statuses]
  BY <1>1 DEF TypeOK, Transition, SetStatus
<1>3. CASE next # "requeue" /\ WorkerTo(w, next)
  BY <1>2, <1>3 DEF TypeOK, WorkerTo
<1>4. CASE Requeue(w)
  BY <1>2, <1>4 DEF TypeOK, Requeue, LeaveJob
<1> QED BY <1>1, <1>3, <1>4

-----------------------------------------------------------------------------
(* A step of Submit. *)

\* A step of Submit keeps the types.
LEMMA SubmitKeepsTypeOK ==
  ASSUME IInv, NEW j \in Jobs, SubmitNext(j)
  PROVE  TypeOK'
<1>1. CASE CreateBatchImageJob(j)
  BY <1>1 DEF IInv, TypeOK, CreateBatchImageJob, SetStatus, SubmitTo,
      SubmitUnchanged
<1>2. CASE SubmitReserve(j)
  BY <1>2, ReserveStep DEF IInv, TypeOK, SubmitReserve, SubmitTo, SubmitUnchanged,
      MoneyTypes
<1>3. CASE SubmitItems(j)
  BY <1>3 DEF IInv, TypeOK, SubmitItems, SubmitTo, SubmitUnchanged
<1>4. CASE SubmitUpload(j)
  BY <1>4 DEF IInv, TypeOK, CanTransition, SetStatus, Steps, SubmitTo,
      SubmitUnchanged, SubmitUpload, Transition
<1>5. CASE SubmitProvider(j)
  BY <1>5 DEF IInv, TypeOK, Upstreams, SubmitProvider, SubmitTo, SubmitUnchanged
<1>6. CASE SubmitName(j)
  BY <1>6 DEF IInv, TypeOK, CanTransition, SetStatus, Steps, SubmitName, SubmitTo,
      SubmitUnchanged, Transition
<1>7. CASE abortOrphanProviderJob(j)
  BY <1>7 DEF IInv, TypeOK, Upstreams, StopUpstream, SubmitTo, SubmitUnchanged,
      abortOrphanProviderJob
<1>8. CASE SubmitEnqueue(j)
  BY <1>8 DEF IInv, TypeOK, Enqueue, SubmitEnqueue, SubmitTo, SubmitUnchanged
<1>9. CASE SubmitRelease(j)
  BY <1>9, ReleaseStep DEF IInv, TypeOK, SubmitRelease, SubmitTo, SubmitUnchanged,
      MoneyTypes
<1>10. CASE SubmitRecord(j)
  BY <1>10 DEF IInv, TypeOK, SetStatus, SubmitRecord, SubmitTo, SubmitUnchanged
<1>11. CASE SubmitRetry(j)
  BY <1>11 DEF IInv, TypeOK, Enqueue, SubmitRetry, SubmitTo, SubmitUnchanged
<1>12. CASE SubmitCrash(j)
  BY <1>12 DEF IInv, TypeOK, SubmitCrash, SubmitTo, SubmitUnchanged
<1>13. CASE Resubmit(j)
  BY <1>13 DEF IInv, TypeOK, Enqueue, Resubmit
<1> QED BY <1>1, <1>2, <1>3, <1>4, <1>5, <1>6, <1>7, <1>8, <1>9, <1>10, <1>11,
    <1>12, <1>13 DEF SubmitNext

\* A step of Submit keeps the precedence of the hold.
LEMMA SubmitKeepsHeldFirst ==
  ASSUME IInv, NEW j \in Jobs, SubmitNext(j)
  PROVE  HeldFirst'
<1>1. CASE CreateBatchImageJob(j)
  BY <1>1 DEF IInv, TypeOK, HeldFirst, CreateBatchImageJob, SetStatus, SubmitTo,
      SubmitUnchanged
<1>2. CASE SubmitReserve(j)
  BY <1>2, ReserveStep DEF IInv, TypeOK, HeldFirst, SubmitReserve, SubmitTo,
      SubmitUnchanged, MoneyTypes
<1>3. CASE SubmitItems(j)
  BY <1>3 DEF IInv, TypeOK, HeldFirst, SubmitItems, SubmitTo, SubmitUnchanged
<1>4. CASE SubmitUpload(j)
  BY <1>4 DEF IInv, TypeOK, HeldFirst, CanTransition, SetStatus, Steps, SubmitTo,
      SubmitUnchanged, SubmitUpload, Transition
<1>5. CASE SubmitProvider(j)
  BY <1>5 DEF IInv, TypeOK, HeldFirst, SubmitProvider, SubmitTo, SubmitUnchanged
<1>6. CASE SubmitName(j)
  BY <1>6 DEF IInv, TypeOK, HeldFirst, CanTransition, SetStatus, Steps, SubmitName,
      SubmitTo, SubmitUnchanged, Transition
<1>7. CASE abortOrphanProviderJob(j)
  BY <1>7 DEF IInv, TypeOK, HeldFirst, StopUpstream, SubmitTo, SubmitUnchanged,
      abortOrphanProviderJob
<1>8. CASE SubmitEnqueue(j)
  BY <1>8 DEF IInv, TypeOK, HeldFirst, Enqueue, SubmitEnqueue, SubmitTo,
      SubmitUnchanged
<1>9. CASE SubmitRelease(j)
  BY <1>9, ReleaseStep DEF IInv, TypeOK, HeldFirst, SubmitRelease, SubmitTo,
      SubmitUnchanged, MoneyTypes
<1>10. CASE SubmitRecord(j)
  BY <1>10 DEF IInv, TypeOK, HeldFirst, SetStatus, SubmitRecord, SubmitTo,
      SubmitUnchanged
<1>11. CASE SubmitRetry(j)
  BY <1>11 DEF IInv, TypeOK, HeldFirst, Enqueue, SubmitRetry, SubmitTo,
      SubmitUnchanged
<1>12. CASE SubmitCrash(j)
  BY <1>12 DEF IInv, TypeOK, HeldFirst, SubmitCrash, SubmitTo, SubmitUnchanged
<1>13. CASE Resubmit(j)
  BY <1>13 DEF IInv, TypeOK, HeldFirst, Enqueue, Resubmit
<1> QED BY <1>1, <1>2, <1>3, <1>4, <1>5, <1>6, <1>7, <1>8, <1>9, <1>10, <1>11,
    <1>12, <1>13 DEF SubmitNext

\* A step of Submit keeps what is known before the name is recorded.
LEMMA SubmitKeepsBeforeName ==
  ASSUME IInv, NEW j \in Jobs, SubmitNext(j)
  PROVE  BeforeName'
<1>1. CASE CreateBatchImageJob(j)
  BY <1>1 DEF IInv, TypeOK, BeforeName, CreateBatchImageJob, SetStatus, SubmitTo,
      SubmitUnchanged
<1>2. CASE SubmitReserve(j)
  BY <1>2, ReserveStep DEF IInv, TypeOK, BeforeName, SubmitReserve, SubmitTo,
      SubmitUnchanged, MoneyTypes
<1>3. CASE SubmitItems(j)
  BY <1>3 DEF IInv, TypeOK, BeforeName, SubmitItems, SubmitTo, SubmitUnchanged
<1>4. CASE SubmitUpload(j)
  BY <1>4 DEF IInv, TypeOK, BeforeName, CanTransition, SetStatus, Steps, SubmitTo,
      SubmitUnchanged, SubmitUpload, Transition
<1>5. CASE SubmitProvider(j)
  BY <1>5 DEF IInv, TypeOK, BeforeName, SubmitProvider, SubmitTo, SubmitUnchanged
<1>6. CASE SubmitName(j)
  BY <1>6 DEF IInv, TypeOK, BeforeName, CanTransition, SetStatus, Steps, SubmitName,
      SubmitTo, SubmitUnchanged, Transition
<1>7. CASE abortOrphanProviderJob(j)
  BY <1>7 DEF IInv, TypeOK, BeforeName, StopUpstream, SubmitTo, SubmitUnchanged,
      abortOrphanProviderJob
<1>8. CASE SubmitEnqueue(j)
  BY <1>8 DEF IInv, TypeOK, BeforeName, Enqueue, SubmitEnqueue, SubmitTo,
      SubmitUnchanged
<1>9. CASE SubmitRelease(j)
  BY <1>9, ReleaseStep DEF IInv, TypeOK, BeforeName, SubmitRelease, SubmitTo,
      SubmitUnchanged, MoneyTypes
<1>10. CASE SubmitRecord(j)
  BY <1>10 DEF IInv, TypeOK, BeforeName, SetStatus, SubmitRecord, SubmitTo,
      SubmitUnchanged
<1>11. CASE SubmitRetry(j)
  BY <1>11 DEF IInv, TypeOK, BeforeName, Enqueue, SubmitRetry, SubmitTo,
      SubmitUnchanged
<1>12. CASE SubmitCrash(j)
  BY <1>12 DEF IInv, TypeOK, BeforeName, SubmitCrash, SubmitTo, SubmitUnchanged
<1>13. CASE Resubmit(j)
  BY <1>13 DEF IInv, TypeOK, BeforeName, Enqueue, Resubmit
<1> QED BY <1>1, <1>2, <1>3, <1>4, <1>5, <1>6, <1>7, <1>8, <1>9, <1>10, <1>11,
    <1>12, <1>13 DEF SubmitNext

\* A step of Submit keeps what the workers know.
LEMMA SubmitKeepsWorkerKnows ==
  ASSUME IInv, NEW j \in Jobs, SubmitNext(j)
  PROVE  WorkerKnows'
<1>1. CASE CreateBatchImageJob(j)
  BY <1>1 DEF IInv, TypeOK, HeldFirst, BeforeName, WorkerKnows, MoneyMatches,
      OwnerKept, Owned, Stale, CreateBatchImageJob, SetStatus, SubmitTo,
      SubmitUnchanged
<1>2. CASE SubmitReserve(j)
  BY <1>2, ReserveStep DEF IInv, TypeOK, WorkerKnows, SubmitReserve, SubmitTo,
      SubmitUnchanged, MoneyTypes
<1>3. CASE SubmitItems(j)
  BY <1>3 DEF IInv, TypeOK, WorkerKnows, SubmitItems, SubmitTo, SubmitUnchanged
<1>4. CASE SubmitUpload(j)
  BY <1>4 DEF IInv, TypeOK, WorkerKnows, CanTransition, SetStatus, Steps, SubmitTo,
      SubmitUnchanged, SubmitUpload, Transition
<1>5. CASE SubmitProvider(j)
  BY <1>5 DEF IInv, TypeOK, WorkerKnows, SubmitProvider, SubmitTo, SubmitUnchanged
<1>6. CASE SubmitName(j)
  BY <1>6 DEF IInv, TypeOK, WorkerKnows, CanTransition, SetStatus, Steps,
      SubmitName, SubmitTo, SubmitUnchanged, Transition
<1>7. CASE abortOrphanProviderJob(j)
  BY <1>7 DEF IInv, TypeOK, WorkerKnows, StopUpstream, SubmitTo, SubmitUnchanged,
      abortOrphanProviderJob
<1>8. CASE SubmitEnqueue(j)
  BY <1>8 DEF IInv, TypeOK, WorkerKnows, Enqueue, SubmitEnqueue, SubmitTo,
      SubmitUnchanged
<1>9. CASE SubmitRelease(j)
  BY <1>9, ReleaseStep DEF IInv, TypeOK, HeldFirst, BeforeName, WorkerKnows,
      MoneyMatches, OwnerKept, Owned, Stale, SubmitRelease, SubmitTo,
      SubmitUnchanged, MoneyTypes
<1>10. CASE SubmitRecord(j)
  BY <1>10 DEF IInv, TypeOK, HeldFirst, BeforeName, WorkerKnows, MoneyMatches,
      OwnerKept, Owned, Stale, SetStatus, SubmitRecord, SubmitTo, SubmitUnchanged
<1>11. CASE SubmitRetry(j)
  BY <1>11 DEF IInv, TypeOK, WorkerKnows, Enqueue, SubmitRetry, SubmitTo,
      SubmitUnchanged
<1>12. CASE SubmitCrash(j)
  BY <1>12 DEF IInv, TypeOK, WorkerKnows, SubmitCrash, SubmitTo, SubmitUnchanged
<1>13. CASE Resubmit(j)
  BY <1>13 DEF IInv, TypeOK, WorkerKnows, Enqueue, Resubmit
<1> QED BY <1>1, <1>2, <1>3, <1>4, <1>5, <1>6, <1>7, <1>8, <1>9, <1>10, <1>11,
    <1>12, <1>13 DEF SubmitNext

\* A step of Submit keeps the agreement of row and claims.
LEMMA SubmitKeepsMoneyMatches ==
  ASSUME IInv, NEW j \in Jobs, SubmitNext(j)
  PROVE  MoneyMatches'
<1>1. CASE CreateBatchImageJob(j)
  BY <1>1 DEF IInv, TypeOK, HeldFirst, BeforeName, WorkerKnows, MoneyMatches,
      OwnerKept, Owned, Stale, CreateBatchImageJob, SetStatus, SubmitTo,
      SubmitUnchanged
<1>2. CASE SubmitReserve(j)
  BY <1>2, ReserveStep DEF IInv, TypeOK, MoneyMatches, SubmitReserve, SubmitTo,
      SubmitUnchanged, MoneyTypes
<1>3. CASE SubmitItems(j)
  BY <1>3 DEF IInv, TypeOK, MoneyMatches, SubmitItems, SubmitTo, SubmitUnchanged
<1>4. CASE SubmitUpload(j)
  BY <1>4 DEF IInv, TypeOK, MoneyMatches, CanTransition, SetStatus, Steps, SubmitTo,
      SubmitUnchanged, SubmitUpload, Transition
<1>5. CASE SubmitProvider(j)
  BY <1>5 DEF IInv, TypeOK, MoneyMatches, SubmitProvider, SubmitTo, SubmitUnchanged
<1>6. CASE SubmitName(j)
  BY <1>6 DEF IInv, TypeOK, MoneyMatches, CanTransition, SetStatus, Steps,
      SubmitName, SubmitTo, SubmitUnchanged, Transition
<1>7. CASE abortOrphanProviderJob(j)
  BY <1>7 DEF IInv, TypeOK, MoneyMatches, StopUpstream, SubmitTo, SubmitUnchanged,
      abortOrphanProviderJob
<1>8. CASE SubmitEnqueue(j)
  BY <1>8 DEF IInv, TypeOK, MoneyMatches, Enqueue, SubmitEnqueue, SubmitTo,
      SubmitUnchanged
<1>9. CASE SubmitRelease(j)
  BY <1>9, ReleaseStep DEF IInv, TypeOK, HeldFirst, BeforeName, WorkerKnows,
      MoneyMatches, OwnerKept, Owned, Stale, SubmitRelease, SubmitTo,
      SubmitUnchanged, MoneyTypes
<1>10. CASE SubmitRecord(j)
  BY <1>10 DEF IInv, TypeOK, HeldFirst, BeforeName, WorkerKnows, MoneyMatches,
      OwnerKept, Owned, Stale, SetStatus, SubmitRecord, SubmitTo, SubmitUnchanged
<1>11. CASE SubmitRetry(j)
  BY <1>11 DEF IInv, TypeOK, MoneyMatches, Enqueue, SubmitRetry, SubmitTo,
      SubmitUnchanged
<1>12. CASE SubmitCrash(j)
  BY <1>12 DEF IInv, TypeOK, MoneyMatches, SubmitCrash, SubmitTo, SubmitUnchanged
<1>13. CASE Resubmit(j)
  BY <1>13 DEF IInv, TypeOK, MoneyMatches, Enqueue, Resubmit
<1> QED BY <1>1, <1>2, <1>3, <1>4, <1>5, <1>6, <1>7, <1>8, <1>9, <1>10, <1>11,
    <1>12, <1>13 DEF SubmitNext

\* A step of Submit keeps an owner for every hold.
LEMMA SubmitKeepsOwnerKept ==
  ASSUME IInv, NEW j \in Jobs, SubmitNext(j)
  PROVE  OwnerKept'
<1>1. CASE CreateBatchImageJob(j)
  BY <1>1 DEF IInv, TypeOK, HeldFirst, BeforeName, WorkerKnows, MoneyMatches,
      OwnerKept, Owned, Stale, CreateBatchImageJob, SetStatus, SubmitTo,
      SubmitUnchanged
<1>2. CASE SubmitReserve(j)
  BY <1>2, ReserveStep DEF IInv, TypeOK, OwnerKept, Owned, Stale, SubmitReserve,
      SubmitTo, SubmitUnchanged, MoneyTypes
<1>3. CASE SubmitItems(j)
  BY <1>3 DEF IInv, TypeOK, OwnerKept, Owned, Stale, SubmitItems, SubmitTo,
      SubmitUnchanged
<1>4. CASE SubmitUpload(j)
  BY <1>4 DEF IInv, TypeOK, OwnerKept, Owned, Stale, CanTransition, SetStatus,
      Steps, SubmitTo, SubmitUnchanged, SubmitUpload, Transition
<1>5. CASE SubmitProvider(j)
  BY <1>5 DEF IInv, TypeOK, OwnerKept, Owned, Stale, SubmitProvider, SubmitTo,
      SubmitUnchanged
<1>6. CASE SubmitName(j)
  BY <1>6 DEF IInv, TypeOK, OwnerKept, Owned, Stale, CanTransition, SetStatus,
      Steps, SubmitName, SubmitTo, SubmitUnchanged, Transition
<1>7. CASE abortOrphanProviderJob(j)
  BY <1>7 DEF IInv, TypeOK, OwnerKept, Owned, Stale, StopUpstream, SubmitTo,
      SubmitUnchanged, abortOrphanProviderJob
<1>8. CASE SubmitEnqueue(j)
  BY <1>8 DEF IInv, TypeOK, OwnerKept, Owned, Stale, Enqueue, SubmitEnqueue,
      SubmitTo, SubmitUnchanged
<1>9. CASE SubmitRelease(j)
  BY <1>9, ReleaseStep DEF IInv, TypeOK, OwnerKept, Owned, Stale, SubmitRelease,
      SubmitTo, SubmitUnchanged, MoneyTypes
<1>10. CASE SubmitRecord(j)
  BY <1>10 DEF IInv, TypeOK, HeldFirst, BeforeName, WorkerKnows, MoneyMatches,
      OwnerKept, Owned, Stale, SetStatus, SubmitRecord, SubmitTo, SubmitUnchanged
<1>11. CASE SubmitRetry(j)
  BY <1>11 DEF IInv, TypeOK, OwnerKept, Owned, Stale, Enqueue, SubmitRetry,
      SubmitTo, SubmitUnchanged
<1>12. CASE SubmitCrash(j)
  BY <1>12 DEF IInv, TypeOK, OwnerKept, Owned, Stale, SubmitCrash, SubmitTo,
      SubmitUnchanged
<1>13. CASE Resubmit(j)
  BY <1>13 DEF IInv, TypeOK, OwnerKept, Owned, Stale, Enqueue, Resubmit
<1> QED BY <1>1, <1>2, <1>3, <1>4, <1>5, <1>6, <1>7, <1>8, <1>9, <1>10, <1>11,
    <1>12, <1>13 DEF SubmitNext

-----------------------------------------------------------------------------
(* A step of Cancel. *)

\* A step of Cancel keeps the types.
LEMMA CancelKeepsTypeOK ==
  ASSUME IInv, NEW j \in Jobs, CancelNext(j)
  PROVE  TypeOK'
<1>1. CASE CancelRead(j)
  BY <1>1 DEF IInv, TypeOK, CancelRead, CancelTo, CancelUnchanged
<1>2. CASE CancelProvider(j)
  BY <1>2 DEF IInv, TypeOK, Upstreams, CancelProvider, CancelTo, CancelUnchanged,
      StopUpstream
<1>3. CASE CancelTransition(j)
  BY <1>3 DEF IInv, TypeOK, CanTransition, CancelTo, CancelTransition,
      CancelUnchanged, SetStatus, Steps, Transition
<1>4. CASE CancelRelease(j)
  BY <1>4, ReleaseStep DEF IInv, TypeOK, CancelRelease, CancelTo, CancelUnchanged,
      MoneyTypes
<1>5. CASE CancelEnqueue(j)
  BY <1>5 DEF IInv, TypeOK, CancelEnqueue, CancelTo, CancelUnchanged, Enqueue
<1>6. CASE CancelCrash(j)
  BY <1>6 DEF IInv, TypeOK, CancelCrash, CancelTo, CancelUnchanged
<1> QED BY <1>1, <1>2, <1>3, <1>4, <1>5, <1>6 DEF CancelNext

\* A step of Cancel keeps the precedence of the hold.
LEMMA CancelKeepsHeldFirst ==
  ASSUME IInv, NEW j \in Jobs, CancelNext(j)
  PROVE  HeldFirst'
<1>1. CASE CancelRead(j)
  BY <1>1 DEF IInv, TypeOK, HeldFirst, CancelRead, CancelTo, CancelUnchanged
<1>2. CASE CancelProvider(j)
  BY <1>2 DEF IInv, TypeOK, HeldFirst, CancelProvider, CancelTo, CancelUnchanged,
      StopUpstream
<1>3. CASE CancelTransition(j)
  BY <1>3 DEF IInv, TypeOK, HeldFirst, CanTransition, CancelTo, CancelTransition,
      CancelUnchanged, SetStatus, Steps, Transition
<1>4. CASE CancelRelease(j)
  BY <1>4, ReleaseStep DEF IInv, TypeOK, HeldFirst, CancelRelease, CancelTo,
      CancelUnchanged, MoneyTypes
<1>5. CASE CancelEnqueue(j)
  BY <1>5 DEF IInv, TypeOK, HeldFirst, CancelEnqueue, CancelTo, CancelUnchanged,
      Enqueue
<1>6. CASE CancelCrash(j)
  BY <1>6 DEF IInv, TypeOK, HeldFirst, CancelCrash, CancelTo, CancelUnchanged
<1> QED BY <1>1, <1>2, <1>3, <1>4, <1>5, <1>6 DEF CancelNext

\* A step of Cancel keeps what is known before the name is recorded.
LEMMA CancelKeepsBeforeName ==
  ASSUME IInv, NEW j \in Jobs, CancelNext(j)
  PROVE  BeforeName'
<1>1. CASE CancelRead(j)
  BY <1>1 DEF IInv, TypeOK, BeforeName, CancelRead, CancelTo, CancelUnchanged
<1>2. CASE CancelProvider(j)
  BY <1>2 DEF IInv, TypeOK, BeforeName, CancelProvider, CancelTo, CancelUnchanged,
      StopUpstream
<1>3. CASE CancelTransition(j)
  BY <1>3 DEF IInv, TypeOK, BeforeName, CanTransition, CancelTo, CancelTransition,
      CancelUnchanged, SetStatus, Steps, Transition
<1>4. CASE CancelRelease(j)
  BY <1>4, ReleaseStep DEF IInv, TypeOK, BeforeName, CancelRelease, CancelTo,
      CancelUnchanged, MoneyTypes
<1>5. CASE CancelEnqueue(j)
  BY <1>5 DEF IInv, TypeOK, BeforeName, CancelEnqueue, CancelTo, CancelUnchanged,
      Enqueue
<1>6. CASE CancelCrash(j)
  BY <1>6 DEF IInv, TypeOK, BeforeName, CancelCrash, CancelTo, CancelUnchanged
<1> QED BY <1>1, <1>2, <1>3, <1>4, <1>5, <1>6 DEF CancelNext

\* A step of Cancel keeps what the workers know.
LEMMA CancelKeepsWorkerKnows ==
  ASSUME IInv, NEW j \in Jobs, CancelNext(j)
  PROVE  WorkerKnows'
<1>1. CASE CancelRead(j)
  BY <1>1 DEF IInv, TypeOK, WorkerKnows, CancelRead, CancelTo, CancelUnchanged
<1>2. CASE CancelProvider(j)
  BY <1>2 DEF IInv, TypeOK, WorkerKnows, CancelProvider, CancelTo, CancelUnchanged,
      StopUpstream
<1>3. CASE CancelTransition(j)
  BY <1>3 DEF IInv, TypeOK, WorkerKnows, CanTransition, CancelTo, CancelTransition,
      CancelUnchanged, SetStatus, Steps, Transition
<1>4. CASE CancelRelease(j)
  BY <1>4, ReleaseStep DEF IInv, TypeOK, HeldFirst, BeforeName, WorkerKnows,
      MoneyMatches, OwnerKept, Owned, Stale, CancelRelease, CancelTo,
      CancelUnchanged, MoneyTypes
<1>5. CASE CancelEnqueue(j)
  BY <1>5 DEF IInv, TypeOK, WorkerKnows, CancelEnqueue, CancelTo, CancelUnchanged,
      Enqueue
<1>6. CASE CancelCrash(j)
  BY <1>6 DEF IInv, TypeOK, WorkerKnows, CancelCrash, CancelTo, CancelUnchanged
<1> QED BY <1>1, <1>2, <1>3, <1>4, <1>5, <1>6 DEF CancelNext

\* A step of Cancel keeps the agreement of row and claims.
LEMMA CancelKeepsMoneyMatches ==
  ASSUME IInv, NEW j \in Jobs, CancelNext(j)
  PROVE  MoneyMatches'
<1>1. CASE CancelRead(j)
  BY <1>1 DEF IInv, TypeOK, MoneyMatches, CancelRead, CancelTo, CancelUnchanged
<1>2. CASE CancelProvider(j)
  BY <1>2 DEF IInv, TypeOK, MoneyMatches, CancelProvider, CancelTo, CancelUnchanged,
      StopUpstream
<1>3. CASE CancelTransition(j)
  BY <1>3 DEF IInv, TypeOK, MoneyMatches, CanTransition, CancelTo, CancelTransition,
      CancelUnchanged, SetStatus, Steps, Transition
<1>4. CASE CancelRelease(j)
  BY <1>4, ReleaseStep DEF IInv, TypeOK, HeldFirst, BeforeName, WorkerKnows,
      MoneyMatches, OwnerKept, Owned, Stale, CancelRelease, CancelTo,
      CancelUnchanged, MoneyTypes
<1>5. CASE CancelEnqueue(j)
  BY <1>5 DEF IInv, TypeOK, MoneyMatches, CancelEnqueue, CancelTo, CancelUnchanged,
      Enqueue
<1>6. CASE CancelCrash(j)
  BY <1>6 DEF IInv, TypeOK, MoneyMatches, CancelCrash, CancelTo, CancelUnchanged
<1> QED BY <1>1, <1>2, <1>3, <1>4, <1>5, <1>6 DEF CancelNext

\* A step of Cancel keeps an owner for every hold.
LEMMA CancelKeepsOwnerKept ==
  ASSUME IInv, NEW j \in Jobs, CancelNext(j)
  PROVE  OwnerKept'
<1>1. CASE CancelRead(j)
  BY <1>1 DEF IInv, TypeOK, OwnerKept, Owned, Stale, CancelRead, CancelTo,
      CancelUnchanged
<1>2. CASE CancelProvider(j)
  BY <1>2 DEF IInv, TypeOK, OwnerKept, Owned, Stale, CancelProvider, CancelTo,
      CancelUnchanged, StopUpstream
<1>3. CASE CancelTransition(j)
  BY <1>3 DEF IInv, TypeOK, OwnerKept, Owned, Stale, CanTransition, CancelTo,
      CancelTransition, CancelUnchanged, SetStatus, Steps, Transition
<1>4. CASE CancelRelease(j)
  BY <1>4, ReleaseStep DEF IInv, TypeOK, OwnerKept, Owned, Stale, CancelRelease,
      CancelTo, CancelUnchanged, MoneyTypes
<1>5. CASE CancelEnqueue(j)
  BY <1>5 DEF IInv, TypeOK, OwnerKept, Owned, Stale, CancelEnqueue, CancelTo,
      CancelUnchanged, Enqueue
<1>6. CASE CancelCrash(j)
  BY <1>6 DEF IInv, TypeOK, OwnerKept, Owned, Stale, CancelCrash, CancelTo,
      CancelUnchanged
<1> QED BY <1>1, <1>2, <1>3, <1>4, <1>5, <1>6 DEF CancelNext

-----------------------------------------------------------------------------
(* A step of the recovery. *)

\* A step of the recovery keeps the types.
LEMMA RecoveryKeepsTypeOK ==
  ASSUME IInv, NEW j \in Jobs, RecoverNext(j)
  PROVE  TypeOK'
<1>1. CASE RecoverFail(j)
  BY <1>1 DEF IInv, TypeOK, RecoverFail, RecoverTo, RecoverUnchanged, SetStatus,
      Stale
<1>2. CASE RecoverRelease(j)
  BY <1>2, ReleaseStep DEF IInv, TypeOK, RecoverRelease, RecoverTo,
      RecoverUnchanged, MoneyTypes
<1>3. CASE RecoverRetry(j)
  BY <1>3 DEF IInv, TypeOK, Enqueue, RecoverRetry, RecoverTo, RecoverUnchanged
<1>4. CASE RecoverCrash(j)
  BY <1>4 DEF IInv, TypeOK, RecoverCrash, RecoverTo, RecoverUnchanged
<1> QED BY <1>1, <1>2, <1>3, <1>4 DEF RecoverNext

\* A step of the recovery keeps the precedence of the hold.
LEMMA RecoveryKeepsHeldFirst ==
  ASSUME IInv, NEW j \in Jobs, RecoverNext(j)
  PROVE  HeldFirst'
<1>1. CASE RecoverFail(j)
  BY <1>1 DEF IInv, TypeOK, HeldFirst, RecoverFail, RecoverTo, RecoverUnchanged,
      SetStatus, Stale
<1>2. CASE RecoverRelease(j)
  BY <1>2, ReleaseStep DEF IInv, TypeOK, HeldFirst, RecoverRelease, RecoverTo,
      RecoverUnchanged, MoneyTypes
<1>3. CASE RecoverRetry(j)
  BY <1>3 DEF IInv, TypeOK, HeldFirst, Enqueue, RecoverRetry, RecoverTo,
      RecoverUnchanged
<1>4. CASE RecoverCrash(j)
  BY <1>4 DEF IInv, TypeOK, HeldFirst, RecoverCrash, RecoverTo, RecoverUnchanged
<1> QED BY <1>1, <1>2, <1>3, <1>4 DEF RecoverNext

\* A step of the recovery keeps what is known before the name is recorded.
LEMMA RecoveryKeepsBeforeName ==
  ASSUME IInv, NEW j \in Jobs, RecoverNext(j)
  PROVE  BeforeName'
<1>1. CASE RecoverFail(j)
  BY <1>1 DEF IInv, TypeOK, BeforeName, RecoverFail, RecoverTo, RecoverUnchanged,
      SetStatus, Stale
<1>2. CASE RecoverRelease(j)
  BY <1>2, ReleaseStep DEF IInv, TypeOK, BeforeName, RecoverRelease, RecoverTo,
      RecoverUnchanged, MoneyTypes
<1>3. CASE RecoverRetry(j)
  BY <1>3 DEF IInv, TypeOK, BeforeName, Enqueue, RecoverRetry, RecoverTo,
      RecoverUnchanged
<1>4. CASE RecoverCrash(j)
  BY <1>4 DEF IInv, TypeOK, BeforeName, RecoverCrash, RecoverTo, RecoverUnchanged
<1> QED BY <1>1, <1>2, <1>3, <1>4 DEF RecoverNext

\* A step of the recovery keeps what the workers know.
LEMMA RecoveryKeepsWorkerKnows ==
  ASSUME IInv, NEW j \in Jobs, RecoverNext(j)
  PROVE  WorkerKnows'
<1>1. CASE RecoverFail(j)
  BY <1>1 DEF IInv, TypeOK, WorkerKnows, RecoverFail, RecoverTo, RecoverUnchanged,
      SetStatus, Stale
<1>2. CASE RecoverRelease(j)
  BY <1>2, ReleaseStep DEF IInv, TypeOK, HeldFirst, BeforeName, WorkerKnows,
      MoneyMatches, OwnerKept, Owned, Stale, RecoverRelease, RecoverTo,
      RecoverUnchanged, MoneyTypes
<1>3. CASE RecoverRetry(j)
  BY <1>3 DEF IInv, TypeOK, WorkerKnows, Enqueue, RecoverRetry, RecoverTo,
      RecoverUnchanged
<1>4. CASE RecoverCrash(j)
  BY <1>4 DEF IInv, TypeOK, WorkerKnows, RecoverCrash, RecoverTo, RecoverUnchanged
<1> QED BY <1>1, <1>2, <1>3, <1>4 DEF RecoverNext

\* A step of the recovery keeps the agreement of row and claims.
LEMMA RecoveryKeepsMoneyMatches ==
  ASSUME IInv, NEW j \in Jobs, RecoverNext(j)
  PROVE  MoneyMatches'
<1>1. CASE RecoverFail(j)
  BY <1>1 DEF IInv, TypeOK, MoneyMatches, RecoverFail, RecoverTo, RecoverUnchanged,
      SetStatus, Stale
<1>2. CASE RecoverRelease(j)
  BY <1>2, ReleaseStep DEF IInv, TypeOK, HeldFirst, BeforeName, WorkerKnows,
      MoneyMatches, OwnerKept, Owned, Stale, RecoverRelease, RecoverTo,
      RecoverUnchanged, MoneyTypes
<1>3. CASE RecoverRetry(j)
  BY <1>3 DEF IInv, TypeOK, MoneyMatches, Enqueue, RecoverRetry, RecoverTo,
      RecoverUnchanged
<1>4. CASE RecoverCrash(j)
  BY <1>4 DEF IInv, TypeOK, MoneyMatches, RecoverCrash, RecoverTo, RecoverUnchanged
<1> QED BY <1>1, <1>2, <1>3, <1>4 DEF RecoverNext

\* A step of the recovery keeps an owner for every hold.
LEMMA RecoveryKeepsOwnerKept ==
  ASSUME IInv, NEW j \in Jobs, RecoverNext(j)
  PROVE  OwnerKept'
<1>1. CASE RecoverFail(j)
  BY <1>1 DEF IInv, TypeOK, OwnerKept, Owned, RecoverFail, RecoverTo,
      RecoverUnchanged, SetStatus, Stale
<1>2. CASE RecoverRelease(j)
  BY <1>2, ReleaseStep DEF IInv, TypeOK, OwnerKept, Owned, Stale, RecoverRelease,
      RecoverTo, RecoverUnchanged, MoneyTypes
<1>3. CASE RecoverRetry(j)
  BY <1>3 DEF IInv, TypeOK, OwnerKept, Owned, Stale, Enqueue, RecoverRetry,
      RecoverTo, RecoverUnchanged
<1>4. CASE RecoverCrash(j)
  BY <1>4 DEF IInv, TypeOK, OwnerKept, Owned, Stale, RecoverCrash, RecoverTo,
      RecoverUnchanged
<1> QED BY <1>1, <1>2, <1>3, <1>4 DEF RecoverNext

-----------------------------------------------------------------------------
(* The provider, a deletion or the cleanup. *)

\* The provider, a deletion or the cleanup keeps the types.
LEMMA EnvKeepsTypeOK ==
  ASSUME IInv, NEW j \in Jobs, EnvNext(j)
  PROVE  TypeOK'
<1>1. CASE UpstreamEnds(j)
  BY <1>1 DEF IInv, TypeOK, Upstreams, EnvUnchanged, UpstreamEnds
<1>2. CASE MarkBatchImageJobUserDeleted(j)
  BY <1>2 DEF IInv, TypeOK, EnvUnchanged, MarkBatchImageJobUserDeleted
<1>3. CASE MarkBatchImageOutputDeleted(j)
  BY <1>3 DEF IInv, TypeOK, EnvUnchanged, MarkBatchImageOutputDeleted, SetStatus
<1> QED BY <1>1, <1>2, <1>3 DEF EnvNext

\* The provider, a deletion or the cleanup keeps the precedence of the hold.
LEMMA EnvKeepsHeldFirst ==
  ASSUME IInv, NEW j \in Jobs, EnvNext(j)
  PROVE  HeldFirst'
<1>1. CASE UpstreamEnds(j)
  BY <1>1 DEF IInv, TypeOK, HeldFirst, EnvUnchanged, UpstreamEnds
<1>2. CASE MarkBatchImageJobUserDeleted(j)
  BY <1>2 DEF IInv, TypeOK, HeldFirst, EnvUnchanged, MarkBatchImageJobUserDeleted
<1>3. CASE MarkBatchImageOutputDeleted(j)
  BY <1>3 DEF IInv, TypeOK, HeldFirst, EnvUnchanged, MarkBatchImageOutputDeleted,
      SetStatus
<1> QED BY <1>1, <1>2, <1>3 DEF EnvNext

\* The provider, a deletion or the cleanup keeps what is known before the name is recorded.
LEMMA EnvKeepsBeforeName ==
  ASSUME IInv, NEW j \in Jobs, EnvNext(j)
  PROVE  BeforeName'
<1>1. CASE UpstreamEnds(j)
  BY <1>1 DEF IInv, TypeOK, BeforeName, EnvUnchanged, UpstreamEnds
<1>2. CASE MarkBatchImageJobUserDeleted(j)
  BY <1>2 DEF IInv, TypeOK, BeforeName, EnvUnchanged, MarkBatchImageJobUserDeleted
<1>3. CASE MarkBatchImageOutputDeleted(j)
  BY <1>3 DEF IInv, TypeOK, BeforeName, EnvUnchanged, MarkBatchImageOutputDeleted,
      SetStatus
<1> QED BY <1>1, <1>2, <1>3 DEF EnvNext

\* The provider, a deletion or the cleanup keeps what the workers know.
LEMMA EnvKeepsWorkerKnows ==
  ASSUME IInv, NEW j \in Jobs, EnvNext(j)
  PROVE  WorkerKnows'
<1>1. CASE UpstreamEnds(j)
  BY <1>1 DEF IInv, TypeOK, WorkerKnows, EnvUnchanged, UpstreamEnds
<1>2. CASE MarkBatchImageJobUserDeleted(j)
  BY <1>2 DEF IInv, TypeOK, WorkerKnows, EnvUnchanged, MarkBatchImageJobUserDeleted
<1>3. CASE MarkBatchImageOutputDeleted(j)
  BY <1>3 DEF IInv, TypeOK, WorkerKnows, EnvUnchanged, MarkBatchImageOutputDeleted,
      SetStatus
<1> QED BY <1>1, <1>2, <1>3 DEF EnvNext

\* The provider, a deletion or the cleanup keeps the agreement of row and claims.
LEMMA EnvKeepsMoneyMatches ==
  ASSUME IInv, NEW j \in Jobs, EnvNext(j)
  PROVE  MoneyMatches'
<1>1. CASE UpstreamEnds(j)
  BY <1>1 DEF IInv, TypeOK, MoneyMatches, EnvUnchanged, UpstreamEnds
<1>2. CASE MarkBatchImageJobUserDeleted(j)
  BY <1>2 DEF IInv, TypeOK, MoneyMatches, EnvUnchanged, MarkBatchImageJobUserDeleted
<1>3. CASE MarkBatchImageOutputDeleted(j)
  BY <1>3 DEF IInv, TypeOK, MoneyMatches, EnvUnchanged, MarkBatchImageOutputDeleted,
      SetStatus
<1> QED BY <1>1, <1>2, <1>3 DEF EnvNext

\* The provider, a deletion or the cleanup keeps an owner for every hold.
LEMMA EnvKeepsOwnerKept ==
  ASSUME IInv, NEW j \in Jobs, EnvNext(j)
  PROVE  OwnerKept'
<1>1. CASE UpstreamEnds(j)
  BY <1>1 DEF IInv, TypeOK, OwnerKept, Owned, Stale, EnvUnchanged, UpstreamEnds
<1>2. CASE MarkBatchImageJobUserDeleted(j)
  BY <1>2 DEF IInv, TypeOK, OwnerKept, Owned, Stale, EnvUnchanged,
      MarkBatchImageJobUserDeleted
<1>3. CASE MarkBatchImageOutputDeleted(j)
  BY <1>3 DEF IInv, TypeOK, OwnerKept, Owned, Stale, EnvUnchanged,
      MarkBatchImageOutputDeleted, SetStatus
<1> QED BY <1>1, <1>2, <1>3 DEF EnvNext

-----------------------------------------------------------------------------
(* A step of a worker. *)

\* A step of a worker keeps the types.
LEMMA WorkerKeepsTypeOK ==
  ASSUME IInv, NEW j \in Jobs, NEW w \in Workers, WorkerNext(w, j)
  PROVE  TypeOK'
<1>1. CASE RunOnce(w, j)
  BY <1>1 DEF IInv, TypeOK, RunOnce, WorkerUnchanged
<1>2. CASE ProcessRead(w, j)
  BY <1>2 DEF IInv, TypeOK, LeaveJob, ProcessRead, Requeue, WorkerTo,
      WorkerUnchanged
<1>3. CASE ProviderRead(w, j)
  BY <1>3 DEF IInv, TypeOK, AfterDone, LeaveJob, ProviderRead, Requeue, WorkerTo,
      WorkerUnchanged
<1>4. CASE ProviderPoll(w, j)
  <2>1. TypeOK /\ worker[w].job = j
    BY <1>4 DEF IInv, ProviderPoll
  <2>2. /\ status' \in [Jobs -> Statuses]
           /\ worker' \in [Workers -> [step : WorkerSteps, job : Jobs \cup {"none"},
                                       seen : Statuses]]
           /\ lock' \in [Jobs -> Workers \cup {NoWorker}]
           /\ queued' \subseteq Jobs
    <3>1. ASSUME NEW to \in {"running", "indexing", "failed", "cancelled"},
                 NEW next \in {"requeue", "index", "release"}, MoveOn(w, j, to, next)
          PROVE  /\ status' \in [Jobs -> Statuses]
                 /\ worker' \in [Workers -> [step : WorkerSteps, job : Jobs \cup {"none"},
                                             seen : Statuses]]
                 /\ lock' \in [Jobs -> Workers \cup {NoWorker}]
                 /\ queued' \subseteq Jobs
      <4>1. to \in Statuses /\ next \in WorkerSteps \cup {"requeue"}
        OBVIOUS
      <4> QED BY <2>1, <3>1, <4>1, MoveOnTypes
    <3>2. CASE Requeue(w) /\ UNCHANGED status
      BY <2>1, <3>2 DEF TypeOK, Requeue, LeaveJob
    <3> QED BY <1>4, <3>1, <3>2 DEF ProviderPoll
  <2> QED BY <1>4, <2>1, <2>2 DEF TypeOK, ProviderPoll, WorkerUnchanged
<1>5. CASE Index(w, j)
  BY <1>5 DEF IInv, TypeOK, Index, LeaveJob, Requeue, WorkerTo, WorkerUnchanged
<1>6. CASE IndexEnds(w, j)
  BY <1>6, MoveOnTypes DEF IInv, TypeOK, IndexEnds, WorkerUnchanged
<1>7. CASE TerminalRelease(w, j)
  BY <1>7, ReleaseStep, SMTT(60) DEF IInv, TypeOK, LeaveJob, Requeue, TerminalRelease,
      WorkerTo, WorkerUnchanged, MoneyTypes
<1>8. CASE SettleRead(w, j)
  BY <1>8 DEF IInv, TypeOK, LeaveJob, Requeue, SettleRead, WorkerTo, WorkerUnchanged
<1>9. CASE SettleCapture(w, j)
  BY <1>9, CaptureStep DEF IInv, TypeOK, WorkerKnows, SettleCapture, WorkerTo,
      WorkerUnchanged, MoneyTypes
<1>10. CASE SettleRecord(w, j)
  BY <1>10 DEF IInv, TypeOK, CountRetry, LeaveJob, Requeue, SettleRecord, WorkerTo,
      WorkerUnchanged
<1>11. CASE SettleMark(w, j)
  BY <1>11, SMTT(60) DEF IInv, TypeOK, LeaveJob, Requeue, SetStatus, SettleMark, WorkerTo,
      WorkerUnchanged
<1>12. CASE failExhaustedSettlement(w, j)
  <2>1. TypeOK /\ worker[w].job = j
    BY <1>12 DEF IInv, failExhaustedSettlement
  <2>2. CASE MoveOn(w, j, "failed", "ack") /\ UNCHANGED moneyVars
    <3>1. /\ status' \in [Jobs -> Statuses]
           /\ worker' \in [Workers -> [step : WorkerSteps, job : Jobs \cup {"none"},
                                       seen : Statuses]]
           /\ lock' \in [Jobs -> Workers \cup {NoWorker}]
           /\ queued' \subseteq Jobs
      <4>1. "failed" \in Statuses /\ "ack" \in WorkerSteps \cup {"requeue"}
        OBVIOUS
      <4> QED BY <2>1, <2>2, <4>1, MoveOnTypes
    <3> QED BY <1>12, <2>1, <2>2, <3>1
        DEF TypeOK, failExhaustedSettlement, WorkerUnchanged
  <2>3. CASE At(w, "exhausted", j)
    BY <1>12, <2>1, <2>3, ReleaseStep
      DEF TypeOK, failExhaustedSettlement, WorkerUnchanged, MoneyTypes, WorkerTo, Requeue,
        LeaveJob
  <2> QED BY <1>12, <2>2, <2>3 DEF failExhaustedSettlement
<1>13. CASE Ack(w, j)
  BY <1>13 DEF IInv, TypeOK, Ack, LeaveJob, WorkerUnchanged
<1>14. CASE WorkerCrash(w, j)
  BY <1>14 DEF IInv, TypeOK, WorkerCrash, WorkerUnchanged
<1> QED BY <1>1, <1>2, <1>3, <1>4, <1>5, <1>6, <1>7, <1>8, <1>9, <1>10, <1>11,
    <1>12, <1>13, <1>14 DEF WorkerNext

\* A step of a worker keeps the precedence of the hold.
LEMMA WorkerKeepsHeldFirst ==
  ASSUME IInv, NEW j \in Jobs, NEW w \in Workers, WorkerNext(w, j)
  PROVE  HeldFirst'
<1>1. CASE RunOnce(w, j)
  BY <1>1 DEF IInv, TypeOK, HeldFirst, RunOnce, WorkerUnchanged
<1>2. CASE ProcessRead(w, j)
  BY <1>2 DEF IInv, TypeOK, HeldFirst, LeaveJob, ProcessRead, Requeue, WorkerTo,
      WorkerUnchanged
<1>3. CASE ProviderRead(w, j)
  BY <1>3 DEF IInv, TypeOK, HeldFirst, AfterDone, LeaveJob, ProviderRead, Requeue,
      WorkerTo, WorkerUnchanged
<1>4. CASE ProviderPoll(w, j)
  BY <1>4 DEF IInv, TypeOK, HeldFirst, CanTransition, LeaveJob, MoveOn,
      ProviderPoll, Requeue, SetStatus, Steps, Transition, WorkerTo, WorkerUnchanged
<1>5. CASE Index(w, j)
  BY <1>5 DEF IInv, TypeOK, HeldFirst, Index, LeaveJob, Requeue, WorkerTo,
      WorkerUnchanged
<1>6. CASE IndexEnds(w, j)
  BY <1>6 DEF IInv, TypeOK, HeldFirst, CanTransition, IndexEnds, LeaveJob, MoveOn,
      Requeue, SetStatus, Steps, Transition, WorkerTo, WorkerUnchanged
<1>7. CASE TerminalRelease(w, j)
  BY <1>7, ReleaseStep DEF IInv, TypeOK, HeldFirst, LeaveJob, Requeue,
      TerminalRelease, WorkerTo, WorkerUnchanged, MoneyTypes
<1>8. CASE SettleRead(w, j)
  BY <1>8 DEF IInv, TypeOK, HeldFirst, LeaveJob, Requeue, SettleRead, WorkerTo,
      WorkerUnchanged
<1>9. CASE SettleCapture(w, j)
  BY <1>9, CaptureStep DEF IInv, TypeOK, HeldFirst, BeforeName, WorkerKnows,
      MoneyMatches, OwnerKept, Owned, Stale, SettleCapture, WorkerTo,
      WorkerUnchanged, MoneyTypes
<1>10. CASE SettleRecord(w, j)
  BY <1>10 DEF IInv, TypeOK, HeldFirst, CountRetry, LeaveJob, Requeue, SettleRecord,
      WorkerTo, WorkerUnchanged
<1>11. CASE SettleMark(w, j)
  BY <1>11 DEF IInv, TypeOK, HeldFirst, LeaveJob, Requeue, SetStatus, SettleMark,
      WorkerTo, WorkerUnchanged
<1>12. CASE failExhaustedSettlement(w, j)
  BY <1>12, ReleaseStep DEF IInv, TypeOK, HeldFirst, CanTransition, LeaveJob,
      MoveOn, Requeue, SetStatus, Steps, Transition, WorkerTo, WorkerUnchanged,
      failExhaustedSettlement, MoneyTypes
<1>13. CASE Ack(w, j)
  BY <1>13 DEF IInv, TypeOK, HeldFirst, Ack, LeaveJob, WorkerUnchanged
<1>14. CASE WorkerCrash(w, j)
  BY <1>14 DEF IInv, TypeOK, HeldFirst, WorkerCrash, WorkerUnchanged
<1> QED BY <1>1, <1>2, <1>3, <1>4, <1>5, <1>6, <1>7, <1>8, <1>9, <1>10, <1>11,
    <1>12, <1>13, <1>14 DEF WorkerNext

\* A step of a worker keeps what is known before the name is recorded.
LEMMA WorkerKeepsBeforeName ==
  ASSUME IInv, NEW j \in Jobs, NEW w \in Workers, WorkerNext(w, j)
  PROVE  BeforeName'
<1>1. CASE RunOnce(w, j)
  BY <1>1 DEF IInv, TypeOK, BeforeName, RunOnce, WorkerUnchanged
<1>2. CASE ProcessRead(w, j)
  BY <1>2 DEF IInv, TypeOK, BeforeName, LeaveJob, ProcessRead, Requeue, WorkerTo,
      WorkerUnchanged
<1>3. CASE ProviderRead(w, j)
  BY <1>3 DEF IInv, TypeOK, BeforeName, AfterDone, LeaveJob, ProviderRead, Requeue,
      WorkerTo, WorkerUnchanged
<1>4. CASE ProviderPoll(w, j)
  BY <1>4 DEF IInv, TypeOK, BeforeName, CanTransition, LeaveJob, MoveOn,
      ProviderPoll, Requeue, SetStatus, Steps, Transition, WorkerTo, WorkerUnchanged
<1>5. CASE Index(w, j)
  BY <1>5 DEF IInv, TypeOK, BeforeName, Index, LeaveJob, Requeue, WorkerTo,
      WorkerUnchanged
<1>6. CASE IndexEnds(w, j)
  BY <1>6 DEF IInv, TypeOK, BeforeName, CanTransition, IndexEnds, LeaveJob, MoveOn,
      Requeue, SetStatus, Steps, Transition, WorkerTo, WorkerUnchanged
<1>7. CASE TerminalRelease(w, j)
  BY <1>7, ReleaseStep DEF IInv, TypeOK, BeforeName, LeaveJob, Requeue,
      TerminalRelease, WorkerTo, WorkerUnchanged, MoneyTypes
<1>8. CASE SettleRead(w, j)
  BY <1>8 DEF IInv, TypeOK, BeforeName, LeaveJob, Requeue, SettleRead, WorkerTo,
      WorkerUnchanged
<1>9. CASE SettleCapture(w, j)
  BY <1>9, CaptureStep DEF IInv, TypeOK, HeldFirst, BeforeName, WorkerKnows,
      MoneyMatches, OwnerKept, Owned, Stale, SettleCapture, WorkerTo,
      WorkerUnchanged, MoneyTypes
<1>10. CASE SettleRecord(w, j)
  BY <1>10 DEF IInv, TypeOK, BeforeName, CountRetry, LeaveJob, Requeue,
      SettleRecord, WorkerTo, WorkerUnchanged
<1>11. CASE SettleMark(w, j)
  BY <1>11 DEF IInv, TypeOK, BeforeName, LeaveJob, Requeue, SetStatus, SettleMark,
      WorkerTo, WorkerUnchanged
<1>12. CASE failExhaustedSettlement(w, j)
  BY <1>12, ReleaseStep DEF IInv, TypeOK, BeforeName, CanTransition, LeaveJob,
      MoveOn, Requeue, SetStatus, Steps, Transition, WorkerTo, WorkerUnchanged,
      failExhaustedSettlement, MoneyTypes
<1>13. CASE Ack(w, j)
  BY <1>13 DEF IInv, TypeOK, BeforeName, Ack, LeaveJob, WorkerUnchanged
<1>14. CASE WorkerCrash(w, j)
  BY <1>14 DEF IInv, TypeOK, BeforeName, WorkerCrash, WorkerUnchanged
<1> QED BY <1>1, <1>2, <1>3, <1>4, <1>5, <1>6, <1>7, <1>8, <1>9, <1>10, <1>11,
    <1>12, <1>13, <1>14 DEF WorkerNext

\* A step of a worker keeps what the workers know.
LEMMA WorkerKeepsWorkerKnows ==
  ASSUME IInv, NEW j \in Jobs, NEW w \in Workers, WorkerNext(w, j)
  PROVE  WorkerKnows'
<1>1. CASE RunOnce(w, j)
  BY <1>1 DEF IInv, TypeOK, WorkerKnows, RunOnce, WorkerUnchanged
<1>2. CASE ProcessRead(w, j)
  BY <1>2, SMTT(60) DEF IInv, TypeOK, WorkerKnows, LeaveJob, ProcessRead, Requeue, WorkerTo,
      WorkerUnchanged
<1>3. CASE ProviderRead(w, j)
  <2>1. CASE Requeue(w)
    BY <1>3, <2>1 DEF IInv, TypeOK, WorkerKnows, LeaveJob, ProviderRead, Requeue,
        WorkerUnchanged
  <2>2. CASE status[j] \in Done /\ WorkerTo(w, AfterDone(j))
    <3>1. status[j] \in Failing \/ Captured(j) \/ j \in doubt
      BY <1>3, <2>2 DEF ProviderRead, IInv, WorkerKnows, MoneyMatches
    <3>2. CASE status[j] \in Failing
      BY <1>3, <2>2, <3>2 DEF IInv, TypeOK, WorkerKnows, AfterDone, ProviderRead, WorkerTo,
          WorkerUnchanged
    <3>3. CASE status[j] \notin Failing
      BY <1>3, <2>2, <3>1, <3>3 DEF IInv, TypeOK, WorkerKnows, AfterDone, ProviderRead,
          WorkerTo, WorkerUnchanged
    <3> QED BY <3>2, <3>3
  <2>3. CASE \E step \in {"index", "poll"} :
               /\ worker' = [worker EXCEPT ![w] = [step |-> step, job |-> j, seen |-> status[j]]]
               /\ UNCHANGED <<lock, queued>>
    BY <1>3, <2>3 DEF IInv, TypeOK, WorkerKnows, ProviderRead, WorkerUnchanged
  <2> QED BY <1>3, <2>1, <2>2, <2>3 DEF ProviderRead
<1>4. CASE ProviderPoll(w, j)
  <2>1. CASE MoveOn(w, j, "running", "requeue")
    BY <1>4, <2>1 DEF IInv, TypeOK, WorkerKnows, CanTransition, LeaveJob, MoveOn,
        ProviderPoll, Requeue, SetStatus, Steps, Transition, WorkerTo,
        WorkerUnchanged
  <2>2. CASE MoveOn(w, j, "indexing", "index")
    BY <1>4, <2>2, SMTT(60) DEF IInv, TypeOK, HeldFirst, BeforeName, WorkerKnows,
        MoneyMatches, OwnerKept, Owned, Stale, CanTransition, LeaveJob, MoveOn,
        ProviderPoll, Requeue, SetStatus, Steps, Transition, WorkerTo,
        WorkerUnchanged
  <2>3. CASE MoveOn(w, j, "failed", "release")
    BY <1>4, <2>3, SMTT(60) DEF IInv, TypeOK, WorkerKnows, CanTransition, LeaveJob, MoveOn,
        ProviderPoll, Requeue, SetStatus, Steps, Transition, WorkerTo,
        WorkerUnchanged
  <2>4. CASE MoveOn(w, j, "cancelled", "release")
    BY <1>4, <2>4, SMTT(60) DEF IInv, TypeOK, HeldFirst, BeforeName, WorkerKnows,
        MoneyMatches, OwnerKept, Owned, Stale, CanTransition, LeaveJob, MoveOn,
        ProviderPoll, Requeue, SetStatus, Steps, Transition, WorkerTo,
        WorkerUnchanged
  <2>5. CASE Requeue(w) /\ UNCHANGED status
    BY <1>4, <2>5 DEF IInv, TypeOK, WorkerKnows, CanTransition, LeaveJob, MoveOn,
        ProviderPoll, Requeue, SetStatus, Steps, Transition, WorkerTo,
        WorkerUnchanged
  <2> QED BY <1>4, <2>1, <2>2, <2>3, <2>4, <2>5 DEF ProviderPoll
<1>5. CASE Index(w, j)
  BY <1>5 DEF IInv, TypeOK, WorkerKnows, Index, LeaveJob, Requeue, WorkerTo,
      WorkerUnchanged
<1>6. CASE IndexEnds(w, j)
  BY <1>6 DEF IInv, TypeOK, WorkerKnows, CanTransition, IndexEnds, LeaveJob, MoveOn,
      Requeue, SetStatus, Steps, Transition, WorkerTo, WorkerUnchanged
<1>7. CASE TerminalRelease(w, j)
  BY <1>7, ReleaseStep DEF IInv, TypeOK, WorkerKnows, LeaveJob, Requeue,
      TerminalRelease, WorkerTo, WorkerUnchanged, MoneyTypes
<1>8. CASE SettleRead(w, j)
  BY <1>8, SMTT(60) DEF IInv, TypeOK, HeldFirst, BeforeName, WorkerKnows,
      MoneyMatches, OwnerKept, Owned, Stale, LeaveJob, Requeue, SettleRead,
      WorkerTo, WorkerUnchanged
<1>9. CASE SettleCapture(w, j)
  BY <1>9, CaptureStep DEF IInv, TypeOK, WorkerKnows, SettleCapture, WorkerTo,
      WorkerUnchanged, MoneyTypes
<1>10. CASE SettleRecord(w, j)
  BY <1>10 DEF IInv, TypeOK, WorkerKnows, CountRetry, LeaveJob, Requeue,
      SettleRecord, WorkerTo, WorkerUnchanged
<1>11. CASE SettleMark(w, j)
  BY <1>11 DEF IInv, TypeOK, WorkerKnows, LeaveJob, Requeue, SetStatus, SettleMark,
      WorkerTo, WorkerUnchanged
<1>12. CASE failExhaustedSettlement(w, j)
  BY <1>12, ReleaseStep, SMTT(60) DEF IInv, TypeOK, WorkerKnows, CanTransition, LeaveJob,
      MoveOn, Requeue, SetStatus, Steps, Transition, WorkerTo, WorkerUnchanged,
      failExhaustedSettlement, MoneyTypes
<1>13. CASE Ack(w, j)
  BY <1>13 DEF IInv, TypeOK, WorkerKnows, Ack, LeaveJob, WorkerUnchanged
<1>14. CASE WorkerCrash(w, j)
  BY <1>14 DEF IInv, TypeOK, WorkerKnows, WorkerCrash, WorkerUnchanged
<1> QED BY <1>1, <1>2, <1>3, <1>4, <1>5, <1>6, <1>7, <1>8, <1>9, <1>10, <1>11,
    <1>12, <1>13, <1>14 DEF WorkerNext

\* A worker that leaves rows and money alone, and does not stand at "mark", keeps the
\* agreement of row and claims.
LEMMA IdleKeepsMoney ==
  ASSUME IInv, NEW w \in Workers, worker[w].step # "mark",
         \A u \in Workers : u # w => worker'[u] = worker[u],
         UNCHANGED <<status, dedup, returned, retry, doubt, submit>>
  PROVE  MoneyMatches'
  BY DEF IInv, MoneyMatches

\* So does one that moves its job's row on: a charged job is not moved, except where
\* its settlement is in doubt, and a job whose hold went back can only fail.
LEMMA MoveKeepsMoney ==
  ASSUME IInv, NEW j \in Jobs, NEW w \in Workers, NEW to \in Statuses \ Settled,
         worker[w].job = j, worker[w].step \notin {"idle", "mark"},
         CanTransition(status[j], to), SetStatus(j, to),
         status[j] \in Early => to \in Failing,
         \A u \in Workers : u # w => worker'[u] = worker[u],
         UNCHANGED <<dedup, returned, retry, doubt, submit>>
  PROVE  MoneyMatches'
<1>1. j \notin doubt => \A u \in Workers : ~At(u, "mark", j)
  BY DEF IInv, WorkerKnows
<1>2. status[j] \notin Settled
  BY DEF CanTransition, Steps
<1>3. Captured(j) => j \in doubt
  BY <1>1, <1>2 DEF IInv, MoneyMatches
<1>4. Returned(j) /\ j \notin doubt => status[j] = "settling" \/ status[j] \in Early \cup Failing
  BY DEF IInv, MoneyMatches
<1>5. Returned(j) /\ j \notin doubt => to \in Failing
  BY <1>4 DEF CanTransition, Steps
<1>6. status'[j] = to
  BY DEF SetStatus, IInv, TypeOK
<1>7. \A k \in Jobs : k # j => status'[k] = status[k]
  BY DEF SetStatus, IInv, TypeOK
<1> SUFFICES ASSUME NEW k \in Jobs
             PROVE  /\ status'[k] \in Settled => Captured(k)
                    /\ Captured(k) /\ k \notin doubt =>
                         \/ status'[k] \in Settled
                         \/ status'[k] = "settling" /\ \E u \in Workers : At(u, "mark", k)'
                    /\ Returned(k) /\ k \notin doubt =>
                         \/ status'[k] \in Failing
                         \/ status'[k] = "settling" /\ retry[k] >= MaxRetries
                         \/ /\ status'[k] \in Early
                            /\ submit[k] \notin {"start", "reserve", "items", "upload",
                                                "provider", "name"}
                    /\ Captured(k) /\ Returned(k) => k \in doubt
  BY DEF MoneyMatches
<1>8. CASE k = j
  BY <1>3, <1>5, <1>6, <1>8
<1>9. CASE k # j
  BY <1>7, <1>9 DEF IInv, MoneyMatches
<1> QED BY <1>8, <1>9

\* Every outcome of MoveOn is one of the two.
LEMMA MoveOnKeepsMoney ==
  ASSUME IInv, NEW j \in Jobs, NEW w \in Workers, NEW to \in Statuses \ Settled, NEW next,
         worker[w].job = j, worker[w].step \notin {"idle", "mark"}, MoveOn(w, j, to, next),
         to \notin {"created", "uploading", "submitted"},
         UNCHANGED <<dedup, returned, retry, doubt, submit>>
  PROVE  MoneyMatches'
<1>1. \A u \in Workers : u # w => worker'[u] = worker[u]
  BY DEF MoveOn, WorkerTo, Requeue, LeaveJob, IInv, TypeOK
<1>2. UNCHANGED status \/ (CanTransition(status[j], to) /\ SetStatus(j, to))
  BY DEF MoveOn, Transition
<1>3. CanTransition(status[j], to) /\ status[j] \in Early => to \in Failing
  BY DEF CanTransition, Steps
<1> QED BY <1>1, <1>2, <1>3, IdleKeepsMoney, MoveKeepsMoney

\* A step of a worker keeps the agreement of row and claims.
LEMMA WorkerKeepsMoneyMatches ==
  ASSUME IInv, NEW j \in Jobs, NEW w \in Workers, WorkerNext(w, j)
  PROVE  MoneyMatches'
<1>1. CASE RunOnce(w, j)
  BY <1>1 DEF IInv, TypeOK, MoneyMatches, RunOnce, WorkerUnchanged
<1>2. CASE ProcessRead(w, j)
  BY <1>2 DEF IInv, TypeOK, MoneyMatches, LeaveJob, ProcessRead, Requeue, WorkerTo,
      WorkerUnchanged
<1>3. CASE ProviderRead(w, j)
  BY <1>3 DEF IInv, TypeOK, MoneyMatches, AfterDone, LeaveJob, ProviderRead,
      Requeue, WorkerTo, WorkerUnchanged
<1>4. CASE ProviderPoll(w, j)
  <2>1. /\ worker[w].job = j /\ worker[w].step = "poll"
        /\ UNCHANGED <<dedup, returned, retry, doubt, submit>>
    BY <1>4 DEF ProviderPoll, WorkerUnchanged
  <2>2. ASSUME NEW to \in {"running", "indexing", "failed", "cancelled"}, NEW next,
               MoveOn(w, j, to, next)
        PROVE  MoneyMatches'
    BY <2>1, <2>2, MoveOnKeepsMoney
  <2>3. CASE Requeue(w) /\ UNCHANGED status
    <3>1. \A u \in Workers : u # w => worker'[u] = worker[u]
      BY <2>3 DEF Requeue, LeaveJob, IInv, TypeOK
    <3> QED BY <2>1, <2>3, <3>1, IdleKeepsMoney
  <2> QED BY <1>4, <2>2, <2>3 DEF ProviderPoll
<1>5. CASE Index(w, j)
  BY <1>5, SMTT(60) DEF IInv, TypeOK, HeldFirst, BeforeName, WorkerKnows,
      MoneyMatches, OwnerKept, Owned, Stale, Index, LeaveJob, Requeue, WorkerTo,
      WorkerUnchanged
<1>6. CASE IndexEnds(w, j)
  <2>1. /\ worker[w].job = j /\ worker[w].step \in {"index_done", "index_failed"}
        /\ UNCHANGED <<dedup, returned, retry, doubt, submit>>
    BY <1>6 DEF IndexEnds, WorkerUnchanged
  <2>2. MoveOn(w, j, "settling", "requeue") \/ MoveOn(w, j, "failed", "release")
    BY <1>6 DEF IndexEnds
  <2> QED BY <2>1, <2>2, MoveOnKeepsMoney
<1>7. CASE TerminalRelease(w, j)
  BY <1>7, ReleaseStep DEF IInv, TypeOK, HeldFirst, BeforeName, WorkerKnows,
      MoneyMatches, OwnerKept, Owned, Stale, LeaveJob, Requeue, TerminalRelease,
      WorkerTo, WorkerUnchanged, MoneyTypes
<1>8. CASE SettleRead(w, j)
  BY <1>8 DEF IInv, TypeOK, MoneyMatches, LeaveJob, Requeue, SettleRead, WorkerTo,
      WorkerUnchanged
<1>9. CASE SettleCapture(w, j)
  BY <1>9, CaptureStep DEF IInv, TypeOK, HeldFirst, BeforeName, WorkerKnows,
      MoneyMatches, OwnerKept, Owned, Stale, SettleCapture, WorkerTo,
      WorkerUnchanged, MoneyTypes
<1>10. CASE SettleRecord(w, j)
  BY <1>10, SMTT(60) DEF IInv, TypeOK, HeldFirst, BeforeName, WorkerKnows,
      MoneyMatches, OwnerKept, Owned, Stale, CountRetry, LeaveJob, Requeue,
      SettleRecord, WorkerTo, WorkerUnchanged
<1>11. CASE SettleMark(w, j)
  BY <1>11, SMTT(60) DEF IInv, TypeOK, HeldFirst, BeforeName, WorkerKnows, MoneyMatches,
      OwnerKept, Owned, Stale, LeaveJob, Requeue, SetStatus, SettleMark, WorkerTo,
      WorkerUnchanged
<1>12. CASE failExhaustedSettlement(w, j)
  BY <1>12, ReleaseStep, SMTT(60) DEF IInv, TypeOK, HeldFirst, BeforeName,
      WorkerKnows, MoneyMatches, OwnerKept, Owned, Stale, CanTransition, LeaveJob,
      MoveOn, Requeue, SetStatus, Steps, Transition, WorkerTo, WorkerUnchanged,
      failExhaustedSettlement, MoneyTypes
<1>13. CASE Ack(w, j)
  BY <1>13 DEF IInv, TypeOK, MoneyMatches, Ack, LeaveJob, WorkerUnchanged
<1>14. CASE WorkerCrash(w, j)
  BY <1>14 DEF IInv, TypeOK, MoneyMatches, WorkerCrash, WorkerUnchanged
<1> QED BY <1>1, <1>2, <1>3, <1>4, <1>5, <1>6, <1>7, <1>8, <1>9, <1>10, <1>11,
    <1>12, <1>13, <1>14 DEF WorkerNext

\* A step of a worker keeps an owner for every hold.
LEMMA WorkerKeepsOwnerKept ==
  ASSUME IInv, NEW j \in Jobs, NEW w \in Workers, WorkerNext(w, j)
  PROVE  OwnerKept'
<1>1. CASE RunOnce(w, j)
  BY <1>1 DEF IInv, TypeOK, OwnerKept, Owned, Stale, RunOnce, WorkerUnchanged
<1>2. CASE ProcessRead(w, j)
  BY <1>2 DEF IInv, TypeOK, OwnerKept, Owned, Stale, LeaveJob, ProcessRead, Requeue,
      WorkerTo, WorkerUnchanged
<1>3. CASE ProviderRead(w, j)
  BY <1>3 DEF IInv, TypeOK, OwnerKept, Owned, Stale, AfterDone, LeaveJob,
      ProviderRead, Requeue, WorkerTo, WorkerUnchanged
<1>4. CASE ProviderPoll(w, j)
  BY <1>4 DEF IInv, TypeOK, HeldFirst, BeforeName, WorkerKnows, MoneyMatches,
      OwnerKept, Owned, Stale, CanTransition, LeaveJob, MoveOn, ProviderPoll,
      Requeue, SetStatus, Steps, Transition, WorkerTo, WorkerUnchanged
<1>5. CASE Index(w, j)
  BY <1>5 DEF IInv, TypeOK, OwnerKept, Owned, Stale, Index, LeaveJob, Requeue,
      WorkerTo, WorkerUnchanged
<1>6. CASE IndexEnds(w, j)
  BY <1>6 DEF IInv, TypeOK, HeldFirst, BeforeName, WorkerKnows, MoneyMatches,
      OwnerKept, Owned, Stale, CanTransition, IndexEnds, LeaveJob, MoveOn, Requeue,
      SetStatus, Steps, Transition, WorkerTo, WorkerUnchanged
<1>7. CASE TerminalRelease(w, j)
  BY <1>7, ReleaseStep DEF IInv, TypeOK, OwnerKept, Owned, Stale, LeaveJob, Requeue,
      TerminalRelease, WorkerTo, WorkerUnchanged, MoneyTypes
<1>8. CASE SettleRead(w, j)
  BY <1>8 DEF IInv, TypeOK, OwnerKept, Owned, Stale, LeaveJob, Requeue, SettleRead,
      WorkerTo, WorkerUnchanged
<1>9. CASE SettleCapture(w, j)
  BY <1>9, CaptureStep DEF IInv, TypeOK, HeldFirst, BeforeName, WorkerKnows,
      MoneyMatches, OwnerKept, Owned, Stale, SettleCapture, WorkerTo,
      WorkerUnchanged, MoneyTypes
<1>10. CASE SettleRecord(w, j)
  BY <1>10 DEF IInv, TypeOK, OwnerKept, Owned, Stale, CountRetry, LeaveJob, Requeue,
      SettleRecord, WorkerTo, WorkerUnchanged
<1>11. CASE SettleMark(w, j)
  BY <1>11 DEF IInv, TypeOK, OwnerKept, Owned, Stale, LeaveJob, Requeue, SetStatus,
      SettleMark, WorkerTo, WorkerUnchanged
<1>12. CASE failExhaustedSettlement(w, j)
  BY <1>12, ReleaseStep DEF IInv, TypeOK, HeldFirst, BeforeName, WorkerKnows,
      MoneyMatches, OwnerKept, Owned, Stale, CanTransition, LeaveJob, MoveOn,
      Requeue, SetStatus, Steps, Transition, WorkerTo, WorkerUnchanged,
      failExhaustedSettlement, MoneyTypes
<1>13. CASE Ack(w, j)
  BY <1>13 DEF IInv, TypeOK, HeldFirst, BeforeName, WorkerKnows, MoneyMatches,
      OwnerKept, Owned, Stale, Ack, LeaveJob, WorkerUnchanged
<1>14. CASE WorkerCrash(w, j)
  BY <1>14 DEF IInv, TypeOK, OwnerKept, Owned, Stale, WorkerCrash, WorkerUnchanged
<1> QED BY <1>1, <1>2, <1>3, <1>4, <1>5, <1>6, <1>7, <1>8, <1>9, <1>10, <1>11,
    <1>12, <1>13, <1>14 DEF WorkerNext

-----------------------------------------------------------------------------
(* The expiry of a lock. *)

\* The expiry of a lock keeps the types.
LEMMA LockExpiresKeepsTypeOK ==
  ASSUME IInv, NEW j \in Jobs, LockExpires(j)
  PROVE  TypeOK'
  BY DEF IInv, TypeOK, LockExpires, WorkerUnchanged

\* The expiry of a lock keeps the precedence of the hold.
LEMMA LockExpiresKeepsHeldFirst ==
  ASSUME IInv, NEW j \in Jobs, LockExpires(j)
  PROVE  HeldFirst'
  BY DEF IInv, TypeOK, HeldFirst, LockExpires, WorkerUnchanged

\* The expiry of a lock keeps what is known before the name is recorded.
LEMMA LockExpiresKeepsBeforeName ==
  ASSUME IInv, NEW j \in Jobs, LockExpires(j)
  PROVE  BeforeName'
  BY DEF IInv, TypeOK, BeforeName, LockExpires, WorkerUnchanged

\* The expiry of a lock keeps what the workers know.
LEMMA LockExpiresKeepsWorkerKnows ==
  ASSUME IInv, NEW j \in Jobs, LockExpires(j)
  PROVE  WorkerKnows'
  BY DEF IInv, TypeOK, WorkerKnows, LockExpires, WorkerUnchanged

\* The expiry of a lock keeps the agreement of row and claims.
LEMMA LockExpiresKeepsMoneyMatches ==
  ASSUME IInv, NEW j \in Jobs, LockExpires(j)
  PROVE  MoneyMatches'
  BY DEF IInv, TypeOK, MoneyMatches, LockExpires, WorkerUnchanged

\* The expiry of a lock keeps an owner for every hold.
LEMMA LockExpiresKeepsOwnerKept ==
  ASSUME IInv, NEW j \in Jobs, LockExpires(j)
  PROVE  OwnerKept'
  BY DEF IInv, TypeOK, OwnerKept, Owned, Stale, LockExpires, WorkerUnchanged

-----------------------------------------------------------------------------
(* The invariant and what follows from it.                                 *)

\* The initial states satisfy every part of the invariant.
LEMMA InitIInv == Init => IInv
  BY DEF Init, HoldInit, IInv, TypeOK, Upstreams, HeldFirst, BeforeName, WorkerKnows,
    MoneyMatches, OwnerKept

\* Every step, and a stuttering step, keeps the invariant.
LEMMA NextIInv == IInv /\ [Next]_vars => IInv'
<1> SUFFICES ASSUME IInv, [Next]_vars PROVE IInv'
  OBVIOUS
<1>1. ASSUME NEW j \in Jobs, SubmitNext(j) PROVE IInv'
  BY <1>1, SubmitKeepsTypeOK, SubmitKeepsHeldFirst, SubmitKeepsBeforeName,
    SubmitKeepsWorkerKnows, SubmitKeepsMoneyMatches, SubmitKeepsOwnerKept DEF IInv
<1>2. ASSUME NEW j \in Jobs, CancelNext(j) PROVE IInv'
  BY <1>2, CancelKeepsTypeOK, CancelKeepsHeldFirst, CancelKeepsBeforeName,
    CancelKeepsWorkerKnows, CancelKeepsMoneyMatches, CancelKeepsOwnerKept DEF IInv
<1>3. ASSUME NEW j \in Jobs, RecoverNext(j) PROVE IInv'
  BY <1>3, RecoveryKeepsTypeOK, RecoveryKeepsHeldFirst, RecoveryKeepsBeforeName,
    RecoveryKeepsWorkerKnows, RecoveryKeepsMoneyMatches, RecoveryKeepsOwnerKept DEF IInv
<1>4. ASSUME NEW j \in Jobs, EnvNext(j) PROVE IInv'
  BY <1>4, EnvKeepsTypeOK, EnvKeepsHeldFirst, EnvKeepsBeforeName,
    EnvKeepsWorkerKnows, EnvKeepsMoneyMatches, EnvKeepsOwnerKept DEF IInv
<1>5. ASSUME NEW j \in Jobs, NEW w \in Workers, WorkerNext(w, j) PROVE IInv'
  BY <1>5, WorkerKeepsTypeOK, WorkerKeepsHeldFirst, WorkerKeepsBeforeName,
    WorkerKeepsWorkerKnows, WorkerKeepsMoneyMatches, WorkerKeepsOwnerKept DEF IInv
<1>6. ASSUME NEW j \in Jobs, LockExpires(j) PROVE IInv'
  BY <1>6, LockExpiresKeepsTypeOK, LockExpiresKeepsHeldFirst, LockExpiresKeepsBeforeName,
    LockExpiresKeepsWorkerKnows, LockExpiresKeepsMoneyMatches, LockExpiresKeepsOwnerKept
    DEF IInv
<1>7. CASE UNCHANGED vars
  BY <1>7 DEF vars, IInv, TypeOK, HeldFirst, BeforeName, WorkerKnows, MoneyMatches,
    OwnerKept, Owned, Stale
<1> QED BY <1>1, <1>2, <1>3, <1>4, <1>5, <1>6, <1>7 DEF Next

\* IInv holds in every reachable state.
THEOREM Invariance == Spec => []IInv
<1>1. Init => IInv
  BY InitIInv
<1>2. IInv /\ [Next]_vars => IInv'
  BY NextIInv
<1> QED BY <1>1, <1>2, PTL DEF Spec

\* The balance and the frozen balance never go below zero, and every row, claim and
\* handler keeps its type.
THEOREM TypeCorrect == Spec => []TypeOK
<1>1. IInv => TypeOK
  BY DEF IInv
<1> QED BY <1>1, Invariance, PTL

\* Only a job that froze its hold is charged.
THEOREM OnlyHeldCharged == Spec => []ChargedWasHeld
<1>1. IInv => ChargedWasHeld
  BY DEF IInv, HeldFirst, ChargedWasHeld
<1> QED BY <1>1, Invariance, PTL

\* No hold is both charged and given back unless its settlement was interrupted.
THEOREM NeverBoth == Spec => []ChargedOrReturned
<1>1. IInv => ChargedOrReturned
  BY DEF IInv, MoneyMatches, ChargedOrReturned
<1> QED BY <1>1, Invariance, PTL

\* The final status of a job says whether it was charged.
THEOREM RowMatchesMoney == Spec => []StatusMatchesMoney
<1>1. IInv => StatusMatchesMoney
  BY DEF IInv, MoneyMatches, StatusMatchesMoney
<1> QED BY <1>1, Invariance, PTL

\* An outstanding hold has somebody who will settle it, or one of the listed reasons.
THEOREM HoldsAreOwned == Spec => []HoldOwnedOrBurnt
<1>1. IInv => HoldOwnedOrBurnt
  BY DEF IInv, OwnerKept, HoldOwnedOrBurnt, Outstanding
<1> QED BY <1>1, Invariance, PTL
=============================================================================
