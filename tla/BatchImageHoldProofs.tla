------------------------ MODULE BatchImageHoldProofs -------------------------
(***************************************************************************)
(* Further proofs about BatchImageJobs: the account of the frozen balance, *)
(* which the three transactions keep in step with their claims, the rows   *)
(* that stay completed, and the provider's jobs that are not forgotten;    *)
(* and what holds without exception when the failures behind the history   *)
(* variables doubt and stranded cannot happen.                             *)
(***************************************************************************)
EXTENDS BatchImageJobsProofs, FiniteSetTheorems

USE HoldAssumption, BalanceAssumption, CostsAssumption, RetriesAssumption,
    WorkersAssumption
USE DEF Fails, Committed, Errs, Answers, Held, Captured, Returned, Released, Burnt,
    moneyVars, jobVars, handlerVars, Operations, Early, Failing, Settled, Terminal,
    Statuses, Done, ReleaseSteps, RecordSteps, SubmitSteps, CancelSteps,
    RecoverSteps, WorkerSteps, Idle, At

-----------------------------------------------------------------------------
(* The frozen balance.                                                     *)

\* One more claim of a job that had none counts one more.
LEMMA OneMore ==
  ASSUME NEW S \in SUBSET Jobs, NEW j \in Jobs, j \notin S
  PROVE  Cardinality(S) \in Nat /\ Cardinality(S \cup {j}) = Cardinality(S) + 1
<1>1. IsFiniteSet(S)
  BY JobsAssumption, FS_Subset
<1> QED BY <1>1, FS_AddElement, FS_CardinalityType

\* A set of jobs has a size.
LEMMA JobCount ==
  ASSUME NEW S \in SUBSET Jobs
  PROVE  Cardinality(S) \in Nat
  BY JobsAssumption, FS_Subset, FS_CardinalityType

\* A reservation freezes one hold and claims one.
LEMMA ReserveCounted ==
  ASSUME MoneyTypes, FrozenIsHolds, NEW j \in Jobs, NEW r \in Answers,
         ReserveBatchImageBalance(j, r)
  PROVE  FrozenIsHolds'
<1> DEFINE h == Cardinality(dedup["hold"])
           n == Cardinality(dedup["capture"])
           m == Cardinality(returned)
<1>1. h \in Nat /\ n \in Nat /\ m \in Nat
  BY JobCount DEF MoneyTypes
<1>2. CASE UNCHANGED moneyVars
  BY <1>2 DEF FrozenIsHolds
<1>3. CASE /\ ~Held(j) /\ Claim("hold", j)
           /\ frozen' = frozen + Hold
           /\ UNCHANGED returned
  <2>1. dedup'["hold"] = dedup["hold"] \cup {j} /\ dedup'["capture"] = dedup["capture"]
    BY <1>3 DEF MoneyTypes, Claim
  <2>2. Cardinality(dedup["hold"] \cup {j}) = h + 1
    BY <1>3, OneMore DEF MoneyTypes
  <2>3. Hold * ((h + 1) - n - m) = Hold * (h - n - m) + Hold
    BY <1>1
  <2> QED BY <1>1, <1>3, <2>1, <2>2, <2>3 DEF FrozenIsHolds, MoneyTypes
<1> QED BY <1>2, <1>3 DEF ReserveBatchImageBalance

\* A capture thaws one hold and claims one.
LEMMA CaptureCounted ==
  ASSUME MoneyTypes, FrozenIsHolds, NEW j \in Jobs, NEW a, NEW r \in Answers,
         CaptureBatchImageBalance(j, a, r)
  PROVE  FrozenIsHolds'
<1> DEFINE h == Cardinality(dedup["hold"])
           n == Cardinality(dedup["capture"])
           m == Cardinality(returned)
<1>1. h \in Nat /\ n \in Nat /\ m \in Nat
  BY JobCount DEF MoneyTypes
<1>2. CASE UNCHANGED moneyVars
  BY <1>2 DEF FrozenIsHolds
<1>3. CASE /\ ~Captured(j) /\ Claim("capture", j)
           /\ frozen' = frozen - Hold
           /\ UNCHANGED returned
  <2>1. dedup'["capture"] = dedup["capture"] \cup {j} /\ dedup'["hold"] = dedup["hold"]
    BY <1>3 DEF MoneyTypes, Claim
  <2>2. Cardinality(dedup["capture"] \cup {j}) = n + 1
    BY <1>3, OneMore DEF MoneyTypes
  <2>3. Hold * (h - (n + 1) - m) = Hold * (h - n - m) - Hold
    BY <1>1
  <2> QED BY <1>1, <1>3, <2>1, <2>2, <2>3 DEF FrozenIsHolds, MoneyTypes
<1> QED BY <1>2, <1>3 DEF CaptureBatchImageBalance

\* A release thaws one hold and returns it, or moves nothing.
LEMMA ReleaseCounted ==
  ASSUME MoneyTypes, FrozenIsHolds, NEW j \in Jobs, NEW r \in Answers,
         Returned(j) => Released(j), ReleaseBatchImageBalance(j, r)
  PROVE  FrozenIsHolds'
<1> DEFINE h == Cardinality(dedup["hold"])
           n == Cardinality(dedup["capture"])
           m == Cardinality(returned)
<1>1. h \in Nat /\ n \in Nat /\ m \in Nat
  BY JobCount DEF MoneyTypes
<1>2. CASE UNCHANGED moneyVars
  BY <1>2 DEF FrozenIsHolds
<1>3. CASE ~Released(j) /\ Claim("release", j) /\ UNCHANGED <<balance, frozen, returned>>
  BY <1>3 DEF FrozenIsHolds, MoneyTypes, Claim
<1>4. CASE /\ ~Released(j) /\ Claim("release", j)
           /\ frozen' = frozen - Hold
           /\ returned' = returned \cup {j}
  <2>1. dedup'["capture"] = dedup["capture"] /\ dedup'["hold"] = dedup["hold"]
    BY <1>4 DEF MoneyTypes, Claim
  <2>2. Cardinality(returned \cup {j}) = m + 1
    BY <1>4, OneMore DEF MoneyTypes
  <2>3. Hold * (h - n - (m + 1)) = Hold * (h - n - m) - Hold
    BY <1>1
  <2> QED BY <1>1, <1>4, <2>1, <2>2, <2>3 DEF FrozenIsHolds, MoneyTypes
<1> QED BY <1>2, <1>3, <1>4 DEF ReleaseBatchImageBalance

\* Nothing but the three transactions moves the money of the jobs.
LEMMA MoneyMoves ==
  ASSUME IInv, [Next]_vars
  PROVE  \/ UNCHANGED moneyVars
         \/ \E j \in Jobs, r \in Answers :
              \/ ReserveBatchImageBalance(j, r)
              \/ CaptureBatchImageBalance(j, cost[j], r)
              \/ ReleaseBatchImageBalance(j, r)
<1>1. ASSUME NEW j \in Jobs, SubmitNext(j)
      PROVE  \/ UNCHANGED moneyVars
             \/ \E r \in Answers :
                  \/ ReserveBatchImageBalance(j, r)
                  \/ CaptureBatchImageBalance(j, cost[j], r)
                  \/ ReleaseBatchImageBalance(j, r)
  BY <1>1 DEF CreateBatchImageJob, Resubmit, SubmitCrash, SubmitEnqueue,
      SubmitItems, SubmitName, SubmitNext, SubmitProvider, SubmitRecord,
      SubmitRelease, SubmitReserve, SubmitRetry, SubmitUnchanged, SubmitUpload,
      abortOrphanProviderJob
<1>2. ASSUME NEW j \in Jobs, CancelNext(j)
      PROVE  \/ UNCHANGED moneyVars
             \/ \E r \in Answers :
                  \/ ReserveBatchImageBalance(j, r)
                  \/ CaptureBatchImageBalance(j, cost[j], r)
                  \/ ReleaseBatchImageBalance(j, r)
  BY <1>2 DEF CancelCrash, CancelEnqueue, CancelNext, CancelProvider, CancelRead,
      CancelRelease, CancelTransition, CancelUnchanged
<1>3. ASSUME NEW j \in Jobs, RecoverNext(j)
      PROVE  \/ UNCHANGED moneyVars
             \/ \E r \in Answers :
                  \/ ReserveBatchImageBalance(j, r)
                  \/ CaptureBatchImageBalance(j, cost[j], r)
                  \/ ReleaseBatchImageBalance(j, r)
  BY <1>3 DEF RecoverCrash, RecoverFail, RecoverNext, RecoverRelease, RecoverRetry,
      RecoverUnchanged
<1>4. ASSUME NEW j \in Jobs, EnvNext(j)
      PROVE  \/ UNCHANGED moneyVars
             \/ \E r \in Answers :
                  \/ ReserveBatchImageBalance(j, r)
                  \/ CaptureBatchImageBalance(j, cost[j], r)
                  \/ ReleaseBatchImageBalance(j, r)
  BY <1>4 DEF EnvNext, EnvUnchanged, MarkBatchImageJobUserDeleted,
      MarkBatchImageOutputDeleted, UpstreamEnds
<1>5. ASSUME NEW j \in Jobs, NEW w \in Workers, WorkerNext(w, j)
      PROVE  \/ UNCHANGED moneyVars
             \/ \E r \in Answers :
                  \/ ReserveBatchImageBalance(j, r)
                  \/ CaptureBatchImageBalance(j, cost[j], r)
                  \/ ReleaseBatchImageBalance(j, r)
  BY <1>5 DEF Ack, Index, IndexEnds, ProcessRead, ProviderPoll, ProviderRead,
      RunOnce, SettleCapture, SettleMark, SettleRead, SettleRecord, TerminalRelease,
      WorkerCrash, WorkerNext, WorkerUnchanged, failExhaustedSettlement
<1>6. ASSUME NEW j \in Jobs, LockExpires(j) PROVE UNCHANGED moneyVars
  BY <1>6 DEF LockExpires, WorkerUnchanged
<1> QED BY <1>1, <1>2, <1>3, <1>4, <1>5, <1>6 DEF Next, vars

\* The frozen balance is the sum of the outstanding holds.
THEOREM FrozenAccounted == Spec => []FrozenIsHolds
<1>1. Init => FrozenIsHolds
  BY FS_EmptySet DEF Init, HoldInit, FrozenIsHolds
<1>2. IInv /\ FrozenIsHolds /\ [Next]_vars => FrozenIsHolds'
  <2> SUFFICES ASSUME IInv, FrozenIsHolds, [Next]_vars PROVE FrozenIsHolds'
    OBVIOUS
  <2>1. MoneyTypes
    BY DEF IInv, TypeOK, MoneyTypes
  <2>2. CASE UNCHANGED moneyVars
    BY <2>2 DEF FrozenIsHolds
  <2>3. ASSUME NEW j \in Jobs, NEW r \in Answers,
               \/ ReserveBatchImageBalance(j, r)
               \/ CaptureBatchImageBalance(j, cost[j], r)
               \/ ReleaseBatchImageBalance(j, r)
        PROVE  FrozenIsHolds'
    <3>1. Returned(j) => Released(j)
      BY DEF IInv, HeldFirst
    <3> QED BY <2>1, <2>3, <3>1, ReserveCounted, CaptureCounted, ReleaseCounted
  <2> QED BY <2>2, <2>3, MoneyMoves
<1> QED BY <1>1, <1>2, Invariance, PTL DEF Spec

-----------------------------------------------------------------------------
(* Rows that stay completed.                                               *)

\* A step of Submit leaves a completed row completed, and its cost alone.
LEMMA SubmitKeepsCompleted ==
  ASSUME IInv, NEW j \in Jobs, SubmitNext(j)
  PROVE  CompletedStep
<1>1. CASE CreateBatchImageJob(j)
  BY <1>1 DEF IInv, TypeOK, BeforeName, CompletedStep, CreateBatchImageJob,
      SetStatus, SubmitTo, SubmitUnchanged
<1>2. CASE SubmitUpload(j)
  BY <1>2 DEF IInv, TypeOK, BeforeName, CompletedStep, CanTransition, SetStatus,
      Steps, SubmitTo, SubmitUnchanged, SubmitUpload, Transition
<1>3. CASE SubmitName(j)
  BY <1>3 DEF IInv, TypeOK, BeforeName, CompletedStep, CanTransition, SetStatus,
      Steps, SubmitName, SubmitTo, SubmitUnchanged, Transition
<1>4. CASE SubmitRecord(j)
  BY <1>4 DEF IInv, TypeOK, BeforeName, CompletedStep, SetStatus, SubmitRecord,
      SubmitTo, SubmitUnchanged
<1>5. CASE SubmitReserve(j) \/ SubmitItems(j) \/ SubmitProvider(j) \/
                abortOrphanProviderJob(j) \/ SubmitEnqueue(j) \/ SubmitRelease(j) \/
                SubmitRetry(j) \/ SubmitCrash(j) \/ Resubmit(j)
  BY <1>5 DEF CompletedStep, SubmitReserve, SubmitUnchanged, SubmitItems,
      SubmitProvider, abortOrphanProviderJob, SubmitEnqueue, SubmitRelease,
      SubmitRetry, SubmitCrash, Resubmit
<1> QED BY <1>1, <1>2, <1>3, <1>4, <1>5 DEF SubmitNext

\* A step of Cancel leaves a completed row completed, and its cost alone.
LEMMA CancelKeepsCompleted ==
  ASSUME IInv, NEW j \in Jobs, CancelNext(j)
  PROVE  CompletedStep
<1>1. CASE CancelTransition(j)
  BY <1>1 DEF IInv, TypeOK, CompletedStep, CanTransition, CancelTo,
      CancelTransition, CancelUnchanged, SetStatus, Steps, Transition
<1>2. CASE CancelRead(j) \/ CancelProvider(j) \/ CancelRelease(j) \/
                CancelEnqueue(j) \/ CancelCrash(j)
  BY <1>2 DEF CompletedStep, CancelRead, CancelUnchanged, CancelProvider,
      CancelRelease, CancelEnqueue, CancelCrash
<1> QED BY <1>1, <1>2 DEF CancelNext

\* A step of Recovery leaves a completed row completed, and its cost alone.
LEMMA RecoveryKeepsCompleted ==
  ASSUME IInv, NEW j \in Jobs, RecoverNext(j)
  PROVE  CompletedStep
<1>1. CASE RecoverFail(j)
  BY <1>1 DEF IInv, TypeOK, CompletedStep, RecoverFail, RecoverTo, RecoverUnchanged,
      SetStatus, Stale
<1>2. CASE RecoverRelease(j) \/ RecoverRetry(j) \/ RecoverCrash(j)
  BY <1>2 DEF CompletedStep, RecoverRelease, RecoverUnchanged, RecoverRetry,
      RecoverCrash
<1> QED BY <1>1, <1>2 DEF RecoverNext

\* A step of Env leaves a completed row completed, and its cost alone.
LEMMA EnvKeepsCompleted ==
  ASSUME IInv, NEW j \in Jobs, EnvNext(j)
  PROVE  CompletedStep
<1>1. CASE MarkBatchImageOutputDeleted(j)
  BY <1>1 DEF IInv, TypeOK, CompletedStep, EnvUnchanged,
      MarkBatchImageOutputDeleted, SetStatus
<1>2. CASE UpstreamEnds(j) \/ MarkBatchImageJobUserDeleted(j)
  BY <1>2 DEF CompletedStep, EnvUnchanged, UpstreamEnds,
      MarkBatchImageJobUserDeleted
<1> QED BY <1>1, <1>2 DEF EnvNext

\* A step of Worker leaves a completed row completed, and its cost alone.
LEMMA WorkerKeepsCompleted ==
  ASSUME IInv, NEW j \in Jobs, NEW w \in Workers, WorkerNext(w, j)
  PROVE  CompletedStep
<1>1. CASE ProviderPoll(w, j)
  BY <1>1 DEF IInv, TypeOK, CompletedStep, CanTransition, MoveOn, ProviderPoll,
      SetStatus, Steps, Transition, WorkerUnchanged
<1>2. CASE Index(w, j)
  BY <1>2 DEF IInv, TypeOK, CompletedStep, Index, WorkerUnchanged
<1>3. CASE IndexEnds(w, j)
  BY <1>3 DEF IInv, TypeOK, CompletedStep, CanTransition, IndexEnds, MoveOn,
      SetStatus, Steps, Transition, WorkerUnchanged
<1>4. CASE SettleMark(w, j)
  BY <1>4 DEF IInv, TypeOK, CompletedStep, SetStatus, SettleMark, WorkerUnchanged
<1>5. CASE failExhaustedSettlement(w, j)
  BY <1>5 DEF IInv, TypeOK, CompletedStep, CanTransition, MoveOn, SetStatus, Steps,
      Transition, WorkerUnchanged, failExhaustedSettlement
<1>6. CASE RunOnce(w, j) \/ ProcessRead(w, j) \/ ProviderRead(w, j) \/
                TerminalRelease(w, j) \/ SettleRead(w, j) \/ SettleCapture(w, j) \/
                SettleRecord(w, j) \/ Ack(w, j) \/ WorkerCrash(w, j)
  BY <1>6 DEF CompletedStep, RunOnce, WorkerUnchanged, ProcessRead, ProviderRead,
      TerminalRelease, SettleRead, SettleCapture, SettleRecord, Ack, WorkerCrash
<1> QED BY <1>1, <1>2, <1>3, <1>4, <1>5, <1>6 DEF WorkerNext

\* A step of LockExpires leaves a completed row completed, and its cost alone.
LEMMA LockExpiresKeepsCompleted ==
  ASSUME IInv, NEW j \in Jobs, LockExpires(j)
  PROVE  CompletedStep
  BY DEF CompletedStep, LockExpires, WorkerUnchanged

\* A completed job stays completed and charged what it was.
THEOREM CompletedIsFinal == Spec => CompletedStays
<1>1. IInv /\ [Next]_vars => [CompletedStep]_vars
  BY SubmitKeepsCompleted, CancelKeepsCompleted, RecoveryKeepsCompleted,
    EnvKeepsCompleted, WorkerKeepsCompleted, LockExpiresKeepsCompleted DEF Next
<1> QED BY <1>1, Invariance, PTL DEF Spec, CompletedStays

-----------------------------------------------------------------------------
(* Jobs at the provider.                                                   *)

\* Reservations and releases charge nobody.
LEMMA NotCharged ==
  ASSUME TypeOK, NEW j \in Jobs, NEW r \in Answers,
         ReserveBatchImageBalance(j, r) \/ ReleaseBatchImageBalance(j, r)
  PROVE  dedup'["capture"] = dedup["capture"]
BY DEF TypeOK, ReserveBatchImageBalance, ReleaseBatchImageBalance, Claim

\* Recording the name names the job, or leaves it to abortOrphanProviderJob.
LEMMA SubmitNameKeepsNames ==
  ASSUME IInv, NameInv, NEW j \in Jobs, SubmitName(j)
  PROVE  NameInv'
<1>1. PICK r \in Answers :
        /\ Transition(j, "submitted", r)
        /\ named' = IF r \in {"ok", "lost"} THEN [named EXCEPT ![j] = TRUE] ELSE named
        /\ submit' = [submit EXCEPT ![j] = IF r = "ok" THEN "enqueue" ELSE "abort"]
  BY DEF SubmitName, SubmitTo
<1>2. /\ submit[j] = "name" /\ stranded \subseteq stranded'
      /\ UNCHANGED <<upstream, dedup, worker>>
  BY DEF SubmitName, SubmitUnchanged, moneyVars
<1>3. TypeOK
  BY DEF IInv
<1>4. \A k \in Jobs : k # j =>
        named'[k] = named[k] /\ submit'[k] = submit[k] /\ status'[k] = status[k]
  <2>1. status' = status \/ status' = [status EXCEPT ![j] = "submitted"]
    BY <1>1 DEF Transition, SetStatus
  <2>2. \A k \in Jobs : k # j => status'[k] = status[k]
    BY <2>1, <1>3 DEF TypeOK
  <2>3. \A k \in Jobs : k # j => named'[k] = named[k]
    BY <1>1, <1>3 DEF TypeOK
  <2>4. \A k \in Jobs : k # j => submit'[k] = submit[k]
    BY <1>1, <1>3 DEF TypeOK
  <2> QED BY <2>2, <2>3, <2>4
<1>5. upstream[j] # "unreported"
  BY <1>2 DEF NameInv, NamedSteps, UnnamedIsStopped
<1> USE DEF NameInv, UnnamedIsStopped, NamedSteps
<1>6. CASE r \in {"ok", "lost"}
  <2>1. named'[j]
    BY <1>1, <1>3, <1>6 DEF TypeOK
  <2>2. \A w \in Workers : worker[w].step \in NamedSteps => worker[w].job \in Jobs
    BY DEF IInv, WorkerKnows
  <2> QED BY <1>2, <1>4, <1>5, <2>1, <2>2
<1>7. CASE r \notin {"ok", "lost"}
  <2>1. named' = named
    BY <1>1, <1>7
  <2>2. submit'[j] = "abort" /\ status'[j] = status[j]
    BY <1>1, <1>3, <1>7 DEF Transition, TypeOK
  <2> QED BY <1>2, <1>4, <1>5, <2>1, <2>2
<1> QED BY <1>6, <1>7

\* A step of Submit that starts a batch is about to record its name, or has let go of it.
LEMMA SubmitKeepsNames ==
  ASSUME IInv, NameInv, NEW j \in Jobs, SubmitNext(j)
  PROVE  NameInv'
<1> USE DEF IInv, TypeOK, NameInv, UnnamedIsStopped, NamedSteps, SubmitTo, SubmitUnchanged
<1>1. CASE CreateBatchImageJob(j)
  BY <1>1 DEF CreateBatchImageJob, SetStatus
<1>2. CASE SubmitReserve(j)
  <2>1. dedup'["capture"] = dedup["capture"]
    BY <1>2, NotCharged DEF SubmitReserve
  <2> QED BY <1>2, <2>1 DEF SubmitReserve
<1>3. CASE SubmitItems(j)
  BY <1>3 DEF SubmitItems
<1>4. CASE SubmitUpload(j)
  BY <1>4 DEF SubmitUpload, Transition, SetStatus
<1>5. CASE SubmitProvider(j)
  <2>1. ~named[j]
    BY <1>5 DEF SubmitProvider, BeforeName
  <2>2. CASE upstream' = [upstream EXCEPT ![j] = "running"] /\ submit'[j] = "name"
    BY <1>5, <2>2 DEF SubmitProvider
  <2>3. CASE /\ UNCHANGED upstream \/ upstream' = [upstream EXCEPT ![j] = "unreported"]
             /\ submit'[j] = "release_record"
    BY <1>5, <2>1, <2>3 DEF SubmitProvider
  <2> QED BY <1>5, <2>2, <2>3 DEF SubmitProvider
<1>6. CASE SubmitName(j)
  BY <1>6, SubmitNameKeepsNames
<1>7. CASE abortOrphanProviderJob(j)
  BY <1>7 DEF StopUpstream, abortOrphanProviderJob
<1>8. CASE SubmitEnqueue(j) \/ SubmitRetry(j) \/ Resubmit(j)
  BY <1>8 DEF Enqueue, SubmitEnqueue, SubmitRetry, Resubmit
<1>9. CASE SubmitRelease(j)
  <2>1. dedup'["capture"] = dedup["capture"]
    BY <1>9, NotCharged DEF SubmitRelease
  <2> QED BY <1>9, <2>1 DEF SubmitRelease
<1>10. CASE SubmitRecord(j)
  BY <1>10 DEF SetStatus, SubmitRecord
<1>11. CASE SubmitCrash(j)
  BY <1>11 DEF SubmitCrash
<1> QED BY <1>1, <1>2, <1>3, <1>4, <1>5, <1>6, <1>7, <1>8, <1>9, <1>10, <1>11
    DEF SubmitNext

\* Cancel, recovery and the owner end jobs without a name, and charge none.
LEMMA HandlersKeepNames ==
  ASSUME TypeOK, NameInv, NEW j \in Jobs, CancelNext(j) \/ RecoverNext(j) \/ EnvNext(j)
  PROVE  NameInv'
<1> USE DEF TypeOK, NameInv, UnnamedIsStopped, NamedSteps, CancelUnchanged,
            RecoverUnchanged, EnvUnchanged, SetStatus
<1>1. CASE CancelRelease(j) \/ RecoverRelease(j)
  <2>1. dedup'["capture"] = dedup["capture"]
    BY <1>1, NotCharged DEF CancelRelease, RecoverRelease
  <2> QED BY <1>1, <2>1 DEF CancelRelease, RecoverRelease
<1>2. CASE CancelTransition(j)
  BY <1>2 DEF CancelTransition, Transition
<1>3. CASE CancelRead(j) \/ CancelEnqueue(j) \/ CancelCrash(j)
  BY <1>3 DEF CancelRead, CancelEnqueue, CancelCrash, Enqueue
<1>4. CASE CancelProvider(j)
  BY <1>4 DEF CancelProvider, StopUpstream
<1>5. CASE RecoverFail(j) \/ RecoverRetry(j) \/ RecoverCrash(j)
  BY <1>5 DEF RecoverFail, RecoverRetry, RecoverCrash, Enqueue
<1>6. CASE EnvNext(j)
  BY <1>6 DEF EnvNext, MarkBatchImageJobUserDeleted, MarkBatchImageOutputDeleted, UpstreamEnds
<1> QED BY <1>1, <1>2, <1>3, <1>4, <1>5, <1>6 DEF CancelNext, RecoverNext

\* MoveOn leaves the other workers and the other jobs' rows alone.
LEMMA MoveOnMoves ==
  ASSUME TypeOK, NEW j \in Jobs, NEW w \in Workers, NEW to, NEW next, worker[w].job = j,
         MoveOn(w, j, to, next)
  PROVE  /\ \A u \in Workers : u # w => worker'[u] = worker[u]
         /\ worker'[w].step = "idle" \/ worker'[w].job = j
         /\ \A k \in Jobs : k # j => status'[k] = status[k]
<1>1. (\E step \in {next} : WorkerTo(w, step)) \/ LeaveJob(w)
  BY DEF MoveOn, Requeue
<1>2. \A k \in Jobs : k # j => status'[k] = status[k]
  BY DEF MoveOn, Transition, SetStatus, TypeOK
<1> QED BY <1>1, <1>2 DEF WorkerTo, LeaveJob, TypeOK

\* A worker's step moves no other worker and no other row, and it stays with its job
\* until it leaves it.
LEMMA WorkerMoves ==
  ASSUME TypeOK, NEW j \in Jobs, NEW w \in Workers, WorkerNext(w, j)
  PROVE  /\ WorkerUnchanged
         /\ \A u \in Workers : u # w => worker'[u] = worker[u]
         /\ worker[w].step = "idle" \/ worker[w].job = j
         /\ worker'[w].step = "idle" \/ worker'[w].job = j
         /\ \A k \in Jobs : k # j => status'[k] = status[k]
<1> USE DEF TypeOK, WorkerTo, Requeue, LeaveJob
<1>1. CASE RunOnce(w, j)
  BY <1>1 DEF RunOnce
<1>2. CASE ProcessRead(w, j)
  BY <1>2 DEF ProcessRead
<1>3. CASE ProviderRead(w, j)
  BY <1>3 DEF ProviderRead, AfterDone
<1>4. CASE ProviderPoll(w, j)
  <2>1. WorkerUnchanged /\ worker[w].job = j
    BY <1>4 DEF ProviderPoll
  <2>2. CASE Requeue(w) /\ UNCHANGED status
    BY <2>1, <2>2
  <2>3. CASE \E to, next : MoveOn(w, j, to, next)
    BY <2>1, <2>3, MoveOnMoves
  <2> QED BY <1>4, <2>2, <2>3 DEF ProviderPoll
<1>5. CASE Index(w, j)
  BY <1>5 DEF Index
<1>6. CASE IndexEnds(w, j)
  <2>1. WorkerUnchanged /\ worker[w].job = j /\ \E to, next : MoveOn(w, j, to, next)
    BY <1>6 DEF IndexEnds
  <2> QED BY <2>1, MoveOnMoves
<1>7. CASE TerminalRelease(w, j)
  BY <1>7 DEF TerminalRelease
<1>8. CASE SettleRead(w, j)
  BY <1>8 DEF SettleRead
<1>9. CASE SettleCapture(w, j)
  BY <1>9 DEF SettleCapture
<1>10. CASE SettleRecord(w, j)
  BY <1>10 DEF SettleRecord
<1>11. CASE SettleMark(w, j)
  BY <1>11 DEF SettleMark, SetStatus
<1>12. CASE failExhaustedSettlement(w, j)
  <2>1. WorkerUnchanged /\ worker[w].job = j
    BY <1>12 DEF failExhaustedSettlement
  <2>2. CASE UNCHANGED status /\ (WorkerTo(w, "give_up") \/ Requeue(w))
    BY <2>1, <2>2
  <2>3. CASE MoveOn(w, j, "failed", "ack")
    BY <2>1, <2>3, MoveOnMoves
  <2> QED BY <1>12, <2>2, <2>3 DEF failExhaustedSettlement
<1>13. CASE Ack(w, j)
  BY <1>13 DEF Ack
<1>14. CASE WorkerCrash(w, j)
  BY <1>14 DEF WorkerCrash
<1> QED BY <1>1, <1>2, <1>3, <1>4, <1>5, <1>6, <1>7, <1>8, <1>9, <1>10, <1>11, <1>12, <1>13, <1>14
    DEF WorkerNext

\* A worker that knows a name, or leaves row and claims of its job to their failure,
\* keeps what is known of the unnamed.
LEMMA NamesFrame ==
  ASSUME IInv, NameInv, NEW j \in Jobs, NEW w \in Workers, WorkerUnchanged,
         \A u \in Workers : u # w => worker'[u] = worker[u],
         worker'[w].step \in NamedSteps => worker'[w].job = j /\ named[j],
         \A k \in Jobs : k # j \/ ~named[j] =>
           status'[k] = status[k] \/ status'[k] \in Failing,
         \A k \in Jobs : k # j \/ ~named[j] => (Captured(k)' => Captured(k))
  PROVE  NameInv'
  BY DEF NameInv, UnnamedIsStopped, WorkerUnchanged

\* A worker turns away from a job whose name is not in the row.
LEMMA WorkersKeepNames ==
  ASSUME IInv, NameInv, NEW j \in Jobs,
         LockExpires(j) \/ \E w \in Workers : WorkerNext(w, j)
  PROVE  NameInv'
<1>1. CASE LockExpires(j)
  BY <1>1 DEF LockExpires, WorkerUnchanged, NameInv, UnnamedIsStopped
<1>2. ASSUME NEW w \in Workers, WorkerNext(w, j) PROVE NameInv'
  <2>1. /\ WorkerUnchanged
        /\ \A u \in Workers : u # w => worker'[u] = worker[u]
        /\ worker[w].step = "idle" \/ worker[w].job = j
        /\ worker'[w].step = "idle" \/ worker'[w].job = j
        /\ \A k \in Jobs : k # j => status'[k] = status[k]
    BY <1>2, WorkerMoves DEF IInv
  <2>3. CASE worker[w].step \in NamedSteps
    <3>1. named[j]
      BY <2>1, <2>3 DEF NameInv, NamedSteps
    <3>3. \A k \in Jobs : k # j => (Captured(k)' => Captured(k))
      <4>1. CASE UNCHANGED moneyVars
        BY <4>1
      <4>2. CASE SettleCapture(w, j)
        BY <4>2 DEF SettleCapture, CaptureBatchImageBalance, Claim, IInv, TypeOK
      <4>3. CASE \E r \in Answers : ReleaseBatchImageBalance(j, r)
        BY <4>3, NotCharged DEF IInv
      <4> QED BY <1>2, <4>1, <4>2, <4>3 DEF WorkerNext, RunOnce, ProcessRead, ProviderRead,
          ProviderPoll, Index, IndexEnds, TerminalRelease, SettleRead, SettleRecord,
          SettleMark, failExhaustedSettlement, Ack, WorkerCrash
    <3> QED BY <2>1, <3>1, <3>3, NamesFrame DEF NamedSteps
  <2>4. CASE worker[w].step \notin NamedSteps
    <3>1. \/ RunOnce(w, j) \/ ProcessRead(w, j) \/ ProviderRead(w, j)
          \/ TerminalRelease(w, j) \/ Ack(w, j) \/ WorkerCrash(w, j)
      BY <1>2, <2>4 DEF WorkerNext, NamedSteps, ProviderPoll, Index, IndexEnds, SettleRead,
         SettleCapture, SettleRecord, SettleMark, failExhaustedSettlement
    <3>2. UNCHANGED status /\ dedup'["capture"] = dedup["capture"]
      BY <3>1, NotCharged DEF RunOnce, ProcessRead, ProviderRead, TerminalRelease, Ack,
         WorkerCrash, IInv
    <3>3. worker'[w].step \in NamedSteps => named[j]
      <4>1. CASE ProcessRead(w, j)
        BY <4>1 DEF ProcessRead, NamedSteps, NameInv, UnnamedIsStopped, WorkerTo, Requeue,
           LeaveJob, IInv, TypeOK
      <4>2. CASE ProviderRead(w, j)
        BY <4>2 DEF ProviderRead, AfterDone, NamedSteps, WorkerTo, Requeue, LeaveJob, IInv, TypeOK
      <4>3. CASE RunOnce(w, j) \/ TerminalRelease(w, j) \/ Ack(w, j) \/ WorkerCrash(w, j)
        BY <4>3 DEF RunOnce, TerminalRelease, Ack, WorkerCrash, NamedSteps, WorkerTo, Requeue,
           LeaveJob, IInv, TypeOK
      <4> QED BY <3>1, <4>1, <4>2, <4>3
    <3> QED BY <2>1, <3>2, <3>3, NamesFrame DEF NamedSteps
  <2> QED BY <2>3, <2>4
<1> QED BY <1>1, <1>2

\* A batch that runs at the provider without a name in its row is about to be named, or
\* aborted, or was left by a failure; no job without a name is charged for it, and it
\* ends failed or cancelled.
THEOREM RunningIsNamed == Spec => []UnnamedIsStopped
<1>1. Init => NameInv
  BY DEF Init, HoldInit, NameInv, UnnamedIsStopped, NamedSteps
<1>2. IInv /\ NameInv /\ [Next]_vars => NameInv'
  <2>1. CASE UNCHANGED vars
    BY <2>1 DEF vars, NameInv, UnnamedIsStopped
  <2> QED BY <2>1, SubmitKeepsNames, HandlersKeepNames, WorkersKeepNames DEF Next, IInv
<1>3. NameInv => UnnamedIsStopped
  BY DEF NameInv
<1> QED BY <1>1, <1>2, <1>3, Invariance, PTL DEF Spec

-----------------------------------------------------------------------------
(* What the exceptions for doubt and stranded jobs need.                   *)

\* Settlements run to their end: every statement answers what it did, no worker dies
\* and none loses its lock.  The queue and the provider may fail.
SettlesWhole == ~Fails("lost") /\ ~Fails("db") /\ ~Fails("crash") /\ ~Fails("lock")

\* Nothing is dropped between the calls: no answer is lost, no handler dies, and the
\* queue and the provider answer.  Statements may fail and locks expire.
HandsOver == ~Fails("lost") /\ ~Fails("queue") /\ ~Fails("provider") /\ ~Fails("crash")

\* Row and money of every job agree, with no exception.
MoneyIsExact ==
  \A j \in Jobs :
    /\ ~(Captured(j) /\ Returned(j))
    /\ status[j] \in Settled => Captured(j)
    /\ status[j] \in Failing => ~Captured(j)

\* Only a doubtful settlement or a release claimed too early leaves a hold to nobody,
\* and no job that runs at the provider is forgotten.
NothingIsStranded ==
  \A j \in Jobs :
    /\ Outstanding(j) => Owned(j) \/ j \in doubt \/ Burnt(j)
    /\ upstream[j] = "running" /\ ~named[j] => submit[j] \in {"name", "abort"}

\* A step casts doubt on a settlement only with one of the four failures.
LEMMA DoubtStep == SettlesWhole /\ [Next]_vars => UNCHANGED doubt
<1> SUFFICES ASSUME SettlesWhole, [Next]_vars PROVE UNCHANGED doubt
  OBVIOUS
<1> USE DEF SettlesWhole
<1>1. ASSUME NEW j \in Jobs, SubmitNext(j) PROVE UNCHANGED doubt
  BY <1>1 DEF SubmitNext, CreateBatchImageJob, SubmitReserve, SubmitItems, SubmitUpload,
      SubmitProvider, SubmitName, abortOrphanProviderJob, SubmitEnqueue, SubmitRelease,
      SubmitRecord, SubmitRetry, SubmitCrash, Resubmit, SubmitUnchanged
<1>2. ASSUME NEW j \in Jobs, CancelNext(j) \/ RecoverNext(j) \/ EnvNext(j) PROVE UNCHANGED doubt
  BY <1>2 DEF CancelNext, CancelRead, CancelProvider, CancelTransition, CancelRelease,
      CancelEnqueue, CancelCrash, CancelUnchanged, RecoverNext, RecoverFail, RecoverRelease,
      RecoverRetry, RecoverCrash, RecoverUnchanged, EnvNext, EnvUnchanged, UpstreamEnds,
      MarkBatchImageJobUserDeleted, MarkBatchImageOutputDeleted
<1>3. ASSUME NEW j \in Jobs, NEW w \in Workers, SettleCapture(w, j) PROVE UNCHANGED doubt
  <2>1. PICK r \in Answers : /\ CaptureBatchImageBalance(j, cost[j], r)
                             /\ doubt' = IF r = "lost" THEN doubt \cup {j} ELSE doubt
    BY <1>3 DEF SettleCapture
  <2>2. r # "lost"
    BY <2>1 DEF CaptureBatchImageBalance
  <2> QED BY <2>1, <2>2
<1>4. ASSUME NEW j \in Jobs, NEW w \in Workers, WorkerNext(w, j) PROVE UNCHANGED doubt
  BY <1>3, <1>4 DEF WorkerNext, RunOnce, ProcessRead, ProviderRead, ProviderPoll, Index,
      IndexEnds, TerminalRelease, SettleRead, SettleRecord, SettleMark,
      failExhaustedSettlement, Ack, WorkerCrash
<1>5. ASSUME NEW j \in Jobs, LockExpires(j) PROVE UNCHANGED doubt
  BY <1>5 DEF LockExpires
<1> QED BY <1>1, <1>2, <1>4, <1>5 DEF Next, vars

\* Where settlements are not interrupted, every job's row and money agree: the failures
\* of the queue and the provider, and any interleaving, are harmless.
THEOREM ExactWhenWhole ==
  ASSUME SettlesWhole
  PROVE  Spec => []MoneyIsExact
<1>1. Init => doubt = {}
  BY DEF Init
<1>2. doubt = {} /\ [Next]_vars => (doubt = {})'
  BY DoubtStep
<1>3. Spec => [](doubt = {})
  BY <1>1, <1>2, PTL DEF Spec
<1>4. doubt = {} /\ IInv => MoneyIsExact
  BY DEF IInv, MoneyMatches, MoneyIsExact
<1> QED BY <1>3, <1>4, Invariance, PTL

\* A step strands a job only with one of the four failures.
LEMMA StrandedStep == HandsOver /\ [Next]_vars => UNCHANGED stranded
<1> SUFFICES ASSUME HandsOver, [Next]_vars PROVE UNCHANGED stranded
  OBVIOUS
<1> USE DEF HandsOver
<1>1. ASSUME NEW j \in Jobs, SubmitReserve(j) \/ SubmitName(j) \/ CancelTransition(j)
      PROVE  UNCHANGED stranded
  <2>1. PICK r \in Answers :
          /\ stranded' = IF r = "lost" THEN stranded \cup {j} ELSE stranded
          /\ \/ ReserveBatchImageBalance(j, r)
             \/ Transition(j, "submitted", r) \/ Transition(j, "cancelled", r)
    BY <1>1 DEF SubmitReserve, SubmitName, CancelTransition
  <2>2. r # "lost"
    BY <2>1 DEF ReserveBatchImageBalance, Transition
  <2> QED BY <2>1, <2>2
<1>2. ASSUME NEW j \in Jobs, SubmitNext(j) PROVE UNCHANGED stranded
  BY <1>1, <1>2 DEF SubmitNext, CreateBatchImageJob, SubmitItems, SubmitUpload,
      SubmitProvider, abortOrphanProviderJob, SubmitEnqueue, SubmitRelease,
      SubmitRecord, SubmitRetry, SubmitCrash, Resubmit, Enqueue
<1>3. ASSUME NEW j \in Jobs, CancelNext(j) \/ RecoverNext(j) \/ EnvNext(j)
      PROVE  UNCHANGED stranded
  BY <1>1, <1>3 DEF CancelNext, CancelRead, CancelProvider, CancelRelease, CancelEnqueue,
      CancelCrash, RecoverNext, RecoverFail, RecoverRelease, RecoverRetry, RecoverCrash,
      EnvNext, EnvUnchanged, UpstreamEnds, MarkBatchImageJobUserDeleted,
      MarkBatchImageOutputDeleted, Enqueue
<1>4. ASSUME NEW j \in Jobs, LockExpires(j) \/ \E w \in Workers : WorkerNext(w, j)
      PROVE  UNCHANGED stranded
  BY <1>4 DEF LockExpires, WorkerNext, WorkerUnchanged, RunOnce, ProcessRead, ProviderRead,
      ProviderPoll, Index, IndexEnds, TerminalRelease, SettleRead, SettleCapture,
      SettleRecord, SettleMark, failExhaustedSettlement, Ack, WorkerCrash
<1> QED BY <1>2, <1>3, <1>4 DEF Next, vars

\* Where calls and their answers arrive, nobody's hold and no provider's job is left
\* behind, though statements fail, settlements are given up and locks expire.
THEOREM NoneStranded ==
  ASSUME HandsOver
  PROVE  Spec => []NothingIsStranded
<1>1. Init => stranded = {}
  BY DEF Init
<1>2. stranded = {} /\ [Next]_vars => (stranded = {})'
  BY StrandedStep
<1>3. Spec => [](stranded = {})
  BY <1>1, <1>2, PTL DEF Spec
<1>4. stranded = {} /\ HoldOwnedOrBurnt /\ UnnamedIsStopped => NothingIsStranded
  BY DEF HoldOwnedOrBurnt, UnnamedIsStopped, NothingIsStranded
<1> QED BY <1>3, <1>4, HoldsAreOwned, RunningIsNamed, PTL
===============================================================================
