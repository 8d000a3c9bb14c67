------------------------ MODULE BatchImageQueueProofs ------------------------
(***************************************************************************)
(* Proofs about BatchImageQueue: an accepted job stays in the structures,  *)
(* the calls that hold their lock exclude each other, and the structures   *)
(* keep the contract WorkQueueContract, for any number of jobs, workers,   *)
(* calls and faults.                                                       *)
(***************************************************************************)
EXTENDS BatchImageQueue, TLAPS

USE NoneAssumption, BoundAssumption
USE DEF queueVars, Idle, WorkerSteps, Fault

-----------------------------------------------------------------------------
(* The ready list as a set.                                                *)

\* Pushing a job makes it ready and keeps the others.
LEMMA AppendReady ==
  ASSUME NEW s \in Seq(Jobs), NEW j \in Jobs, NEW k \in Jobs
  PROVE  /\ Append(s, j) \in Seq(Jobs)
         /\ (\E i \in 1 .. Len(Append(s, j)) : Append(s, j)[i] = k)
              <=> (\E i \in 1 .. Len(s) : s[i] = k) \/ k = j
<1>1. /\ Append(s, j) \in Seq(Jobs) /\ Len(Append(s, j)) = Len(s) + 1
      /\ \A i \in 1 .. Len(s) : Append(s, j)[i] = s[i]
      /\ Append(s, j)[Len(s) + 1] = j
  OBVIOUS
<1>2. Len(s) \in Nat
  OBVIOUS
<1> QED BY <1>1, <1>2

\* Popping a job takes away its first entry and keeps the others.
LEMMA PopReady ==
  ASSUME NEW s \in Seq(Jobs), s # <<>>, NEW k \in Jobs
  PROVE  /\ Tail(s) \in Seq(Jobs) /\ Head(s) \in Jobs
         /\ (\E i \in 1 .. Len(s) : s[i] = k)
              <=> (\E i \in 1 .. Len(Tail(s)) : Tail(s)[i] = k) \/ k = Head(s)
<1>1. /\ Tail(s) \in Seq(Jobs) /\ Head(s) \in Jobs /\ Head(s) = s[1]
      /\ Len(s) \in Nat \ {0} /\ Len(Tail(s)) = Len(s) - 1
      /\ \A i \in 1 .. Len(Tail(s)) : Tail(s)[i] = s[i + 1]
  OBVIOUS
<1>2. ASSUME NEW i \in 1 .. Len(s), s[i] = k
      PROVE  (\E m \in 1 .. Len(Tail(s)) : Tail(s)[m] = k) \/ k = Head(s)
  <2>1. CASE i = 1
    BY <1>1, <1>2, <2>1
  <2>2. CASE i # 1
    <3>1. i - 1 \in 1 .. Len(Tail(s)) /\ (i - 1) + 1 = i
      BY <1>1, <2>2
    <3> QED BY <1>1, <1>2, <3>1
  <2> QED BY <2>1, <2>2
<1>3. ASSUME NEW i \in 1 .. Len(Tail(s)), Tail(s)[i] = k
      PROVE  \E m \in 1 .. Len(s) : s[m] = k
  <2>1. i + 1 \in 1 .. Len(s)
    BY <1>1
  <2> QED BY <1>1, <1>3, <2>1
<1>4. k = Head(s) => \E m \in 1 .. Len(s) : s[m] = k
  BY <1>1
<1> QED BY <1>1, <1>2, <1>3, <1>4

\* What a push means for the structures.
LEMMA PushReady ==
  ASSUME ready \in Seq(Jobs), NEW j \in Jobs, ready' = Append(ready, j)
  PROVE  /\ ready' \in Seq(Jobs)
         /\ \A k \in Jobs : InReady(k)' <=> InReady(k) \/ k = j
  BY AppendReady DEF InReady

\* What a pop means for the structures.
LEMMA PopsReady ==
  ASSUME ready \in Seq(Jobs), ready # <<>>, ready' = Tail(ready)
  PROVE  /\ ready' \in Seq(Jobs) /\ Head(ready) \in Jobs
         /\ \A k \in Jobs : InReady(k) <=> InReady(k)' \/ k = Head(ready)
  BY PopReady DEF InReady

\* Without either the list holds what it held.
LEMMA SameReady ==
  ASSUME UNCHANGED ready
  PROVE  \A k : InReady(k)' <=> InReady(k)
  BY DEF InReady

-----------------------------------------------------------------------------
(* The inductive invariant.                                                *)

\* Enqueue: the key and the list entry come together.
LEMMA EnqueueKeepsIInv ==
  ASSUME IInv, NEW j \in Jobs, Enqueue(j)
  PROVE  IInv'
<1>1. TypeOK'
  BY PushReady, SameReady DEF IInv, TypeOK, EnqueueScript, Enqueue
<1>2. RefusedIsQueued'
  BY PushReady, SameReady DEF IInv, TypeOK, RefusedIsQueued, Queue, EnqueueScript, Enqueue
<1>3. \A v \in Workers \ lapsed' : worker'[v].step \in Holding => lock'[worker'[v].job] = v
  BY DEF IInv, TypeOK, Holding, EnqueueScript, Enqueue
<1>4. \A v \in Workers : worker'[v].step = "ack" => work'[worker'[v].job] = 0
  BY DEF IInv, TypeOK, EnqueueScript, Enqueue
<1> QED BY <1>1, <1>2, <1>3, <1>4 DEF IInv

\* Reserve: the job goes from the list to the active set.
LEMMA ReserveKeepsIInv ==
  ASSUME IInv, NEW w \in Workers, Reserve(w)
  PROVE  IInv'
<1>1. TypeOK'
  BY PopsReady DEF IInv, TypeOK, Reserve
<1>2. RefusedIsQueued'
  BY PopsReady DEF IInv, TypeOK, RefusedIsQueued, Queue, Reserve
<1>3. \A v \in Workers \ lapsed' : worker'[v].step \in Holding => lock'[worker'[v].job] = v
  BY DEF IInv, TypeOK, Holding, Reserve
<1>4. \A v \in Workers : worker'[v].step = "ack" => work'[worker'[v].job] = 0
  BY DEF IInv, TypeOK, Reserve
<1> QED BY <1>1, <1>2, <1>3, <1>4 DEF IInv

\* TryAcquireJobLock: only a free lock is taken.
LEMMA LockKeepsIInv ==
  ASSUME IInv, NEW w \in Workers, TryAcquireJobLock(w)
  PROVE  IInv'
<1> DEFINE j == worker[w].job
<1>1. TypeOK /\ worker[w].step = "lock" /\ j \in Jobs
  BY DEF IInv, TypeOK, TryAcquireJobLock
<1>2. PICK s \in {"process", "conflict"} :
        /\ worker' = [worker EXCEPT ![w] = [step |-> s, job |-> j]]
        /\ s = "process" => lock[j] = NoWorker /\ lock' = [lock EXCEPT ![j] = w]
  BY DEF TryAcquireJobLock, StepTo
<1>3. /\ UNCHANGED lock \/ (lock[j] = NoWorker /\ lock' = [lock EXCEPT ![j] = w])
      /\ UNCHANGED faults \/ Fault
      /\ UNCHANGED <<queueVars, work, calls, lapsed>>
  BY DEF TryAcquireJobLock
<1>4. TypeOK'
  <2>1. lock' \in [Jobs -> Workers \cup {NoWorker}]
    BY <1>1, <1>2, <1>3 DEF TypeOK
  <2>2. worker' \in [Workers -> [step : WorkerSteps, job : Jobs \cup {NoJob}]]
    BY <1>1, <1>2, <1>3 DEF TypeOK
  <2>3. faults' \in 0 .. MaxFaults
    BY <1>1, <1>2, <1>3 DEF TypeOK
  <2>4. \A v \in Workers : worker'[v].step # "idle" => worker'[v].job \in Jobs
    BY <1>1, <1>2, <1>3 DEF TypeOK
  <2> QED BY <1>1, <1>2, <1>3, <2>1, <2>2, <2>3, <2>4 DEF TypeOK
<1>5. RefusedIsQueued'
  BY <1>3, SameReady DEF IInv, RefusedIsQueued, Queue
<1>6. \A v \in Workers \ lapsed' : worker'[v].step \in Holding => lock'[worker'[v].job] = v
  BY <1>1, <1>2, <1>3 DEF IInv, TypeOK, Holding
<1>7. \A v \in Workers : worker'[v].step = "ack" => work'[worker'[v].job] = 0
  BY <1>1, <1>2, <1>3 DEF IInv, TypeOK
<1> QED BY <1>4, <1>5, <1>6, <1>7 DEF IInv

\* Process: only a finished job goes to Ack.
LEMMA ProcessKeepsIInv ==
  ASSUME IInv, NEW w \in Workers, Process(w)
  PROVE  IInv'
<1> DEFINE j == worker[w].job
<1>1. TypeOK /\ worker[w].step = "process" /\ j \in Jobs /\ work[j] \in 0 .. Rounds
  BY DEF IInv, TypeOK, Process
<1>2. PICK s \in {"ack", "requeue"} :
        /\ worker' = [worker EXCEPT ![w] = [step |-> s, job |-> j]]
        /\ s = "ack" => work[j] = 0 /\ work' = work
        /\ s = "requeue" => work[j] # 0 /\ work' = [work EXCEPT ![j] = work[j] - 1]
  BY DEF Process, StepTo
<1>3. UNCHANGED <<queueVars, lock, calls, faults, lapsed>>
  BY DEF Process
<1>4. TypeOK'
  BY <1>1, <1>2, <1>3 DEF TypeOK
<1>5. RefusedIsQueued'
  BY <1>3, SameReady DEF IInv, RefusedIsQueued, Queue
<1>6. \A v \in Workers \ lapsed' : worker'[v].step \in Holding => lock'[worker'[v].job] = v
  BY <1>1, <1>2, <1>3 DEF IInv, TypeOK, Holding
<1>7. \A v \in Workers : worker'[v].step = "ack" => work'[worker'[v].job] = 0
  BY <1>1, <1>2, <1>3 DEF IInv, TypeOK
<1> QED BY <1>4, <1>5, <1>6, <1>7 DEF IInv

\* RequeueAfter: the job goes from the active to the delayed set.
LEMMA RequeueKeepsIInv ==
  ASSUME IInv, NEW w \in Workers, RequeueAfter(w)
  PROVE  IInv'
<1>1. TypeOK'
  BY SameReady DEF IInv, TypeOK, RequeueAfter, Refused
<1>2. RefusedIsQueued'
  BY SameReady DEF IInv, TypeOK, RefusedIsQueued, Queue, RequeueAfter, Refused
<1>3. \A v \in Workers \ lapsed' : worker'[v].step \in Holding => lock'[worker'[v].job] = v
  BY DEF IInv, TypeOK, Holding, RequeueAfter, Refused
<1>4. \A v \in Workers : worker'[v].step = "ack" => work'[worker'[v].job] = 0
  BY DEF IInv, TypeOK, RequeueAfter, Refused
<1> QED BY <1>1, <1>2, <1>3, <1>4 DEF IInv

\* Ack: the key goes with the job.
LEMMA AckKeepsIInv ==
  ASSUME IInv, NEW w \in Workers, Ack(w)
  PROVE  IInv'
<1>1. TypeOK'
  BY SameReady DEF IInv, TypeOK, Ack, Refused, StepTo
<1>2. RefusedIsQueued'
  BY SameReady DEF IInv, TypeOK, RefusedIsQueued, Queue, Ack, Refused, StepTo
<1>3. \A v \in Workers \ lapsed' : worker'[v].step \in Holding => lock'[worker'[v].job] = v
  BY DEF IInv, TypeOK, Holding, Ack, Refused, StepTo
<1>4. \A v \in Workers : worker'[v].step = "ack" => work'[worker'[v].job] = 0
  BY DEF IInv, TypeOK, Ack, Refused, StepTo
<1> QED BY <1>1, <1>2, <1>3, <1>4 DEF IInv

\* Release: only the own lock is deleted.
LEMMA ReleaseKeepsIInv ==
  ASSUME IInv, NEW w \in Workers, ReleaseLock(w)
  PROVE  IInv'
<1> DEFINE j == worker[w].job
<1>1. TypeOK /\ worker[w].step = "unlock" /\ j \in Jobs
  BY DEF IInv, TypeOK, ReleaseLock
<1>2. /\ \/ UNCHANGED lock
         \/ lock' = [lock EXCEPT ![j] = IF lock[j] = w THEN NoWorker ELSE lock[j]]
      /\ UNCHANGED faults \/ Fault
      /\ worker' = [worker EXCEPT ![w] = Idle] /\ lapsed' = lapsed \ {w}
      /\ UNCHANGED <<queueVars, work, calls>>
  BY DEF ReleaseLock, LeaveCall
<1>3. TypeOK'
  <2>1. lock' \in [Jobs -> Workers \cup {NoWorker}]
    BY <1>1, <1>2 DEF TypeOK
  <2>2. worker' \in [Workers -> [step : WorkerSteps, job : Jobs \cup {NoJob}]]
    BY <1>1, <1>2 DEF TypeOK
  <2>3. faults' \in 0 .. MaxFaults
    BY <1>1, <1>2 DEF TypeOK
  <2>4. \A v \in Workers : worker'[v].step # "idle" => worker'[v].job \in Jobs
    BY <1>1, <1>2 DEF TypeOK
  <2> QED BY <1>1, <1>2, <2>1, <2>2, <2>3, <2>4 DEF TypeOK
<1>4. RefusedIsQueued'
  BY <1>2, SameReady DEF IInv, RefusedIsQueued, Queue
<1>5. \A v \in Workers \ lapsed' : worker'[v].step \in Holding => lock'[worker'[v].job] = v
  BY <1>1, <1>2 DEF IInv, TypeOK, Holding
<1>6. \A v \in Workers : worker'[v].step = "ack" => work'[worker'[v].job] = 0
  BY <1>1, <1>2 DEF IInv, TypeOK
<1> QED BY <1>3, <1>4, <1>5, <1>6 DEF IInv

\* MoveDueDelayedToReady keeps the job.
LEMMA MoveKeepsIInv ==
  ASSUME IInv, NEW j \in Jobs, MoveDueDelayedToReady(j)
  PROVE  IInv'
<1>1. TypeOK'
  BY PushReady DEF IInv, TypeOK, MoveDueDelayedToReady
<1>2. RefusedIsQueued'
  BY PushReady DEF IInv, TypeOK, RefusedIsQueued, Queue, MoveDueDelayedToReady
<1>3. \A v \in Workers \ lapsed' : worker'[v].step \in Holding => lock'[worker'[v].job] = v
  BY DEF IInv, TypeOK, Holding, MoveDueDelayedToReady
<1>4. \A v \in Workers : worker'[v].step = "ack" => work'[worker'[v].job] = 0
  BY DEF IInv, TypeOK, MoveDueDelayedToReady
<1> QED BY <1>1, <1>2, <1>3, <1>4 DEF IInv

\* RecoverStaleActive keeps the job.
LEMMA RecoverKeepsIInv ==
  ASSUME IInv, NEW j \in Jobs, RecoverStaleActive(j)
  PROVE  IInv'
<1>1. TypeOK'
  BY PushReady DEF IInv, TypeOK, RecoverStaleActive, Reserved
<1>2. RefusedIsQueued'
  BY PushReady DEF IInv, TypeOK, RefusedIsQueued, Queue, RecoverStaleActive, Reserved
<1>3. \A v \in Workers \ lapsed' : worker'[v].step \in Holding => lock'[worker'[v].job] = v
  BY DEF IInv, TypeOK, Holding, RecoverStaleActive, Reserved
<1>4. \A v \in Workers : worker'[v].step = "ack" => work'[worker'[v].job] = 0
  BY DEF IInv, TypeOK, RecoverStaleActive, Reserved
<1> QED BY <1>1, <1>2, <1>3, <1>4 DEF IInv

\* A death leaves the structures as they are.
LEMMA DieKeepsIInv ==
  ASSUME IInv, NEW w \in Workers, Die(w)
  PROVE  IInv'
<1>1. TypeOK'
  BY SameReady DEF IInv, TypeOK, Die, LeaveCall
<1>2. RefusedIsQueued'
  BY SameReady DEF IInv, TypeOK, RefusedIsQueued, Queue, Die, LeaveCall
<1>3. \A v \in Workers \ lapsed' : worker'[v].step \in Holding => lock'[worker'[v].job] = v
  BY DEF IInv, TypeOK, Holding, Die, LeaveCall
<1>4. \A v \in Workers : worker'[v].step = "ack" => work'[worker'[v].job] = 0
  BY DEF IInv, TypeOK, Die, LeaveCall
<1> QED BY <1>1, <1>2, <1>3, <1>4 DEF IInv

\* An expired lock is recorded against the worker that held it.
LEMMA ExpiryKeepsIInv ==
  ASSUME IInv, NEW j \in Jobs, LockExpires(j)
  PROVE  IInv'
<1>1. TypeOK'
  BY SameReady DEF IInv, TypeOK, LockExpires, Renews
<1>2. RefusedIsQueued'
  BY SameReady DEF IInv, TypeOK, RefusedIsQueued, Queue, LockExpires, Renews
<1>3. \A v \in Workers \ lapsed' : worker'[v].step \in Holding => lock'[worker'[v].job] = v
  BY DEF IInv, TypeOK, Holding, LockExpires, Renews
<1>4. \A v \in Workers : worker'[v].step = "ack" => work'[worker'[v].job] = 0
  BY DEF IInv, TypeOK, LockExpires, Renews
<1> QED BY <1>1, <1>2, <1>3, <1>4 DEF IInv

\* A key that expires only admits another Enqueue.
LEMMA KeyExpiryKeepsIInv ==
  ASSUME IInv, NEW j \in Jobs, InflightExpires(j)
  PROVE  IInv'
<1>1. TypeOK'
  BY SameReady DEF IInv, TypeOK, InflightExpires
<1>2. RefusedIsQueued'
  BY SameReady DEF IInv, TypeOK, RefusedIsQueued, Queue, InflightExpires
<1>3. \A v \in Workers \ lapsed' : worker'[v].step \in Holding => lock'[worker'[v].job] = v
  BY DEF IInv, TypeOK, Holding, InflightExpires
<1>4. \A v \in Workers : worker'[v].step = "ack" => work'[worker'[v].job] = 0
  BY DEF IInv, TypeOK, InflightExpires
<1> QED BY <1>1, <1>2, <1>3, <1>4 DEF IInv

\* Every step, and a stuttering step, keeps the invariant.
LEMMA NextIInv == IInv /\ [Next]_vars => IInv'
<1>1. CASE UNCHANGED vars
  BY <1>1 DEF vars, IInv, TypeOK, RefusedIsQueued, Queue, InReady
<1> QED
  BY <1>1, EnqueueKeepsIInv, ReserveKeepsIInv, LockKeepsIInv, ProcessKeepsIInv,
    RequeueKeepsIInv, AckKeepsIInv, ReleaseKeepsIInv, MoveKeepsIInv, RecoverKeepsIInv,
    DieKeepsIInv, ExpiryKeepsIInv, KeyExpiryKeepsIInv
    DEF Next, RunOnce

\* The invariant holds in every reachable state, with or without fairness.
THEOREM Invariance == Spec => []IInv
<1>1. Init => IInv
  BY DEF Init, IInv, TypeOK, RefusedIsQueued, Queue, InReady, Holding
<1> QED BY <1>1, NextIInv, PTL DEF Spec

\* The structures and the workers keep their types.
THEOREM TypeCorrect == Spec => []TypeOK
<1>1. IInv => TypeOK
  BY DEF IInv
<1> QED BY <1>1, Invariance, PTL

\* A job that a second Enqueue is refused for is in one of the structures.
THEOREM NoneStranded == Spec => []RefusedIsQueued
<1>1. IInv => RefusedIsQueued
  BY DEF IInv
<1> QED BY <1>1, Invariance, PTL

\* Two calls process one job only if the lock of one of them has expired.
THEOREM Exclusion == Spec => []OneProcessor
<1>1. IInv => OneProcessor
  BY DEF IInv, TypeOK, OneProcessor, Processing, Holding
<1> QED BY <1>1, Invariance, PTL

-----------------------------------------------------------------------------
(* The refinement.                                                         *)

\* A worker that leaves or changes its step within its job is seen as such.
LEMMA ServingIdle ==
  ASSUME TypeOK, NEW w \in Workers, worker[w].step \notin {"idle", "unlock"},
         NEW s \in {"idle", "unlock"}, NEW k \in Jobs \cup {NoJob},
         worker' = [worker EXCEPT ![w] = [step |-> s, job |-> k]]
  PROVE  Serving' = [Serving EXCEPT ![w] = NoJob] /\ Serving[w] = worker[w].job
  BY DEF TypeOK, Serving

\* A worker that goes on with its job serves what it served.
LEMMA ServingSame ==
  ASSUME TypeOK, NEW w \in Workers, NEW s \in WorkerSteps,
         worker[w].step \in {"idle", "unlock"} <=> s \in {"idle", "unlock"},
         NEW k \in Jobs \cup {NoJob},
         s \notin {"idle", "unlock"} => k = worker[w].job,
         worker' = [worker EXCEPT ![w] = [step |-> s, job |-> k]]
  PROVE  Serving' = Serving
  BY DEF TypeOK, Serving

\* Enqueue accepts the job, or finds it pending.
LEMMA EnqueueRefines ==
  ASSUME IInv, NEW j \in Jobs, Enqueue(j)
  PROVE  [Contract!Next]_(Contract!vars)
<1>1. UNCHANGED <<Serving, Finished>>
  BY DEF Enqueue, Serving, Finished
<1>2. CASE UNCHANGED ready
  <2>1. UNCHANGED Queue
    BY <1>2, SameReady DEF Enqueue, Queue
  <2> QED BY <1>1, <2>1 DEF Contract!vars
<1>3. CASE ready' = Append(ready, j)
  <2>1. Queue' = Queue \cup {j}
    BY <1>3, PushReady DEF IInv, TypeOK, Enqueue, Queue
  <2>2. Contract!Accept(j)
    BY <1>1, <2>1 DEF Contract!Accept
  <2> QED BY <2>2 DEF Contract!Next
<1> QED BY <1>2, <1>3 DEF Enqueue, EnqueueScript

\* Reserve gives the worker a pending job.
LEMMA ReserveRefines ==
  ASSUME IInv, NEW w \in Workers, Reserve(w)
  PROVE  [Contract!Next]_(Contract!vars)
<1> DEFINE j == Head(ready)
<1>1. TypeOK /\ ready \in Seq(Jobs)
  BY DEF IInv, TypeOK
<1>2. j \in Jobs /\ InReady(j) /\ Queue' = Queue
  BY <1>1, PopsReady DEF Reserve, Queue
<1>3. UNCHANGED Finished
  BY DEF Reserve, Finished
<1>4. Serving' = [Serving EXCEPT ![w] = j] /\ Serving[w] = NoJob
  BY <1>1, <1>2 DEF Reserve, TypeOK, Serving
<1>5. Contract!Give(w, j)
  BY <1>2, <1>3, <1>4 DEF Contract!Give, Queue
<1> QED BY <1>2, <1>5 DEF Contract!Next

\* TryAcquireJobLock changes nothing the callers see.
LEMMA LockRefines ==
  ASSUME IInv, NEW w \in Workers, TryAcquireJobLock(w)
  PROVE  [Contract!Next]_(Contract!vars)
<1>1. UNCHANGED <<Queue, Finished>>
  BY SameReady DEF TryAcquireJobLock, Queue, Finished
<1>2. TypeOK /\ worker[w].step = "lock" /\ worker[w].job \in Jobs
  BY DEF IInv, TypeOK, TryAcquireJobLock
<1>3. PICK s \in {"process", "conflict"} :
        worker' = [worker EXCEPT ![w] = [step |-> s, job |-> worker[w].job]]
  BY DEF TryAcquireJobLock, StepTo
<1>4. UNCHANGED Serving
  BY <1>2, <1>3, ServingSame
<1> QED BY <1>1, <1>4 DEF Contract!vars

\* Process works on the job that the worker serves.
LEMMA ProcessRefines ==
  ASSUME IInv, NEW w \in Workers, Process(w)
  PROVE  [Contract!Next]_(Contract!vars)
<1> DEFINE j == worker[w].job
<1>1. UNCHANGED Queue
  BY SameReady DEF Process, Queue
<1>2. TypeOK /\ worker[w].step = "process" /\ j \in Jobs
  BY DEF IInv, TypeOK, Process
<1>3. PICK s \in {"ack", "requeue"} :
        /\ worker' = [worker EXCEPT ![w] = [step |-> s, job |-> j]]
        /\ s = "ack" => work' = work
        /\ s = "requeue" => work[j] # 0 /\ work' = [work EXCEPT ![j] = work[j] - 1]
  BY DEF Process, StepTo
<1>4. UNCHANGED Serving
  BY <1>2, <1>3, ServingSame
<1>5. Serving[w] = j /\ j # NoJob
  BY <1>2 DEF Serving
<1>6. UNCHANGED Finished \/ Finished' = Finished \cup {j}
  BY <1>2, <1>3 DEF TypeOK, Finished
<1>7. CASE UNCHANGED Finished
  BY <1>1, <1>4, <1>7 DEF Contract!vars
<1>8. CASE Finished' = Finished \cup {j}
  BY <1>1, <1>4, <1>5, <1>8 DEF Contract!Next, Contract!Work
<1> QED BY <1>6, <1>7, <1>8

\* RequeueAfter gives the job back.
LEMMA RequeueRefines ==
  ASSUME IInv, NEW w \in Workers, RequeueAfter(w)
  PROVE  [Contract!Next]_(Contract!vars)
<1> DEFINE j == worker[w].job
<1>1. TypeOK /\ worker[w].step \in {"conflict", "requeue"} /\ j \in Jobs
  BY DEF IInv, TypeOK, RequeueAfter
<1>2. UNCHANGED Finished
  BY DEF RequeueAfter, Finished
<1>3. Queue' = Queue \cup {j} \/ UNCHANGED Queue
  BY <1>1, SameReady DEF RequeueAfter, Refused, Queue
<1>4. Serving' = [Serving EXCEPT ![w] = NoJob] /\ Serving[w] = j
  <2>1. PICK s \in {"idle", "unlock"}, k \in Jobs \cup {NoJob} :
          worker' = [worker EXCEPT ![w] = [step |-> s, job |-> k]]
    BY <1>1 DEF RequeueAfter
  <2> QED BY <1>1, <2>1, ServingIdle
<1>5. Contract!GiveBack(w)
  BY <1>1, <1>2, <1>3, <1>4 DEF Contract!GiveBack
<1> QED BY <1>5 DEF Contract!Next

\* Ack completes a finished job, unless another entry keeps it pending.
LEMMA AckRefines ==
  ASSUME IInv, NEW w \in Workers, Ack(w)
  PROVE  [Contract!Next]_(Contract!vars)
<1> DEFINE j == worker[w].job
<1>1. TypeOK /\ worker[w].step = "ack" /\ j \in Jobs /\ j \in Finished
  BY DEF IInv, TypeOK, Ack, Finished
<1>2. UNCHANGED Finished
  BY DEF Ack, Finished
<1>3. Queue' = Queue \ {j} \/ UNCHANGED Queue
  <2>1. CASE UNCHANGED <<ready, delayed, active>>
    BY <2>1, SameReady DEF Queue
  <2>2. CASE /\ active' = active \ {j} /\ delayed' = delayed \ {j}
             /\ UNCHANGED ready
    <3>1. CASE InReady(j)
      BY <1>1, <2>2, <3>1, SameReady DEF Queue
    <3>2. CASE ~InReady(j)
      BY <1>1, <2>2, <3>2, SameReady DEF Queue
    <3> QED BY <3>1, <3>2
  <2> QED BY <2>1, <2>2 DEF Ack, Refused
<1>4. Serving' = [Serving EXCEPT ![w] = NoJob] /\ Serving[w] = j
  <2>1. worker' = [worker EXCEPT ![w] = [step |-> "unlock", job |-> j]]
    BY DEF Ack, StepTo
  <2> QED BY <1>1, <2>1, ServingIdle
<1>5. Contract!GiveBack(w) \/ Contract!Complete(w)
  BY <1>1, <1>2, <1>3, <1>4 DEF Contract!GiveBack, Contract!Complete
<1> QED BY <1>5 DEF Contract!Next

\* Release changes nothing the callers see.
LEMMA ReleaseRefines ==
  ASSUME IInv, NEW w \in Workers, ReleaseLock(w)
  PROVE  [Contract!Next]_(Contract!vars)
<1>1. UNCHANGED <<Queue, Finished>>
  BY SameReady DEF ReleaseLock, Queue, Finished
<1>2. TypeOK /\ worker[w].step = "unlock"
      /\ worker' = [worker EXCEPT ![w] = [step |-> "idle", job |-> NoJob]]
  BY DEF IInv, ReleaseLock, LeaveCall
<1>3. UNCHANGED Serving
  BY <1>2, ServingSame
<1> QED BY <1>1, <1>3 DEF Contract!vars

\* The mover and the recovery move the job within the structures.
LEMMA MoversRefine ==
  ASSUME IInv, NEW j \in Jobs, MoveDueDelayedToReady(j) \/ RecoverStaleActive(j)
  PROVE  [Contract!Next]_(Contract!vars)
<1>1. UNCHANGED Queue
  BY PushReady DEF IInv, TypeOK, MoveDueDelayedToReady, RecoverStaleActive, Queue
<1>2. UNCHANGED <<Serving, Finished>>
  BY DEF MoveDueDelayedToReady, RecoverStaleActive, Serving, Finished
<1> QED BY <1>1, <1>2 DEF Contract!vars

\* A worker that dies gives its job back.
LEMMA DieRefines ==
  ASSUME IInv, NEW w \in Workers, Die(w)
  PROVE  [Contract!Next]_(Contract!vars)
<1>1. UNCHANGED <<Queue, Finished>>
  BY SameReady DEF Die, Queue, Finished
<1>2. TypeOK /\ worker[w].step # "idle" /\ worker[w].job \in Jobs
      /\ worker' = [worker EXCEPT ![w] = [step |-> "idle", job |-> NoJob]]
  BY DEF IInv, TypeOK, Die, LeaveCall
<1>3. CASE worker[w].step = "unlock"
  <2>1. UNCHANGED Serving
    BY <1>2, <1>3, ServingSame
  <2> QED BY <1>1, <2>1 DEF Contract!vars
<1>4. CASE worker[w].step # "unlock"
  <2>1. Serving' = [Serving EXCEPT ![w] = NoJob] /\ Serving[w] = worker[w].job
    BY <1>2, <1>4, ServingIdle
  <2>2. Contract!GiveBack(w)
    BY <1>1, <1>2, <2>1 DEF Contract!GiveBack
  <2> QED BY <2>2 DEF Contract!Next
<1> QED BY <1>3, <1>4

\* Keys and locks that expire are not seen.
LEMMA ExpiriesRefine ==
  ASSUME IInv, NEW j \in Jobs, LockExpires(j) \/ InflightExpires(j)
  PROVE  [Contract!Next]_(Contract!vars)
<1>1. UNCHANGED <<Queue, Serving, Finished>>
  BY SameReady DEF LockExpires, InflightExpires, Queue, Serving, Finished
<1> QED BY <1>1 DEF Contract!vars

\* The Redis structures keep the contract of a work queue: an accepted job is pending
\* until a worker that was given it has finished it.
THEOREM ContractHolds == Spec => ContractSpec
<1>1. Init => Contract!Init
  BY DEF Init, TypeOK, Contract!Init, Queue, InReady, Serving, Finished
<1>2. IInv /\ [Next]_vars => [Contract!Next]_(Contract!vars)
  <2>1. UNCHANGED vars => UNCHANGED Contract!vars
    BY DEF vars, Contract!vars, Queue, InReady, Serving, Finished
  <2> QED
    BY <2>1, EnqueueRefines, ReserveRefines, LockRefines, ProcessRefines, RequeueRefines,
      AckRefines, ReleaseRefines, MoversRefine, DieRefines, ExpiriesRefine
      DEF Next, RunOnce
<1> QED BY <1>1, <1>2, Invariance, PTL DEF Spec, ContractSpec, Contract!Spec
=============================================================================
