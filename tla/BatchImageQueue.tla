-------------------------- MODULE BatchImageQueue ---------------------------
(***************************************************************************)
(* The Redis structures of the batch image queue, one action per script or *)
(* pipeline, and the worker loop that drives them: a ready list, a zset of *)
(* delayed and a zset of active jobs, a key per accepted job that refuses  *)
(* a second Enqueue, and a lock per job with a token and a lifetime.       *)
(* Source: repository/batch_image_queue.go, service/batch_image_worker.go. *)
(***************************************************************************)
EXTENDS Naturals, Sequences

CONSTANTS
  Jobs, Workers,
  NoJob, NoWorker,
  Rounds,       \* Process calls a job needs at most before it is terminal
  MaxEnqueues,  \* bound: Enqueue calls for a job
  MaxFaults     \* bound: deaths, lost heartbeats, expired keys, refused commands

ASSUME NoneAssumption  == NoJob \notin Jobs /\ NoWorker \notin Workers
ASSUME BoundAssumption == Rounds \in Nat /\ MaxEnqueues \in Nat /\ MaxFaults \in Nat

VARIABLES
  ready,     \* the list, next to be popped first
  delayed,   \* the zset of jobs that wait for a time
  active,    \* the zset of reserved jobs
  inflight,  \* jobs whose inflight key exists
  lock,      \* per job: the worker whose token the lock key holds
  worker,    \* per worker: next step and reserved job
  work,      \* per job: Process calls left
  calls,     \* per job: Enqueue calls left
  faults,    \* faults left
  lapsed     \* history: workers whose lock expired during their call

queueVars == <<ready, delayed, active, inflight>>
vars == <<queueVars, lock, worker, work, calls, faults, lapsed>>

InReady(j) == \E i \in 1 .. Len(ready) : ready[i] = j

\* The jobs some structure still leads to.
Queue == {j \in Jobs : InReady(j) \/ j \in delayed \/ j \in active}

WorkerSteps == {"idle", "lock", "conflict", "process", "requeue", "ack", "unlock"}
Holding == {"process", "requeue", "ack", "unlock"}   \* between SETNX and Release
Idle == [step |-> "idle", job |-> NoJob]

Init ==
  /\ ready = <<>>
  /\ delayed = {} /\ active = {} /\ inflight = {}
  /\ lock = [j \in Jobs |-> NoWorker]
  /\ worker = [w \in Workers |-> Idle]
  /\ work \in [Jobs -> 0 .. Rounds]
  /\ calls = [j \in Jobs |-> MaxEnqueues]
  /\ faults = MaxFaults
  /\ lapsed = {}

Fault == faults > 0 /\ faults' = faults - 1

\* Mutant: SETNX and LPUSH are two commands, and the second is lost.
EnqueueKeyOnly(j) ==
  /\ inflight' = inflight \cup {j}
  /\ UNCHANGED ready

\* One script: the key, and the job in the list.
EnqueueScript(j) ==
  \/ /\ j \notin inflight
     /\ inflight' = inflight \cup {j}
     /\ ready' = Append(ready, j)
  \/ j \in inflight /\ UNCHANGED <<inflight, ready>>

\* A client, a Cancel or the recovery; a second call finds the job queued.
Enqueue(j) ==
  /\ calls[j] > 0
  /\ calls' = [calls EXCEPT ![j] = @ - 1]
  /\ EnqueueScript(j)
  /\ UNCHANGED <<delayed, active, lock, worker, work, faults, lapsed>>

\* Mutant: RPOP and ZADD are two commands, and the second is lost.
ReservePopOnly(w) ==
  /\ worker[w].step = "idle"
  /\ ready # <<>>
  /\ ready' = Tail(ready)
  /\ worker' = [worker EXCEPT ![w] = [step |-> "lock", job |-> Head(ready)]]
  /\ UNCHANGED <<delayed, active, inflight, lock, work, calls, faults, lapsed>>

\* Mutant: an empty list is taken for a job.
ReserveNothing(w) ==
  /\ worker[w].step = "idle"
  /\ worker' = [worker EXCEPT ![w] =
       [step |-> "lock", job |-> IF ready = <<>> THEN NoJob ELSE Head(ready)]]
  /\ ready' = IF ready = <<>> THEN ready ELSE Tail(ready)
  /\ UNCHANGED <<delayed, active, inflight, lock, work, calls, faults, lapsed>>

\* One script: the job leaves the list and enters the active set.
Reserve(w) ==
  /\ worker[w].step = "idle"
  /\ ready # <<>>
  /\ ready' = Tail(ready)
  /\ active' = active \cup {Head(ready)}
  /\ worker' = [worker EXCEPT ![w] = [step |-> "lock", job |-> Head(ready)]]
  /\ UNCHANGED <<delayed, inflight, lock, work, calls, faults, lapsed>>

StepTo(w, step) == worker' = [worker EXCEPT ![w] = [step |-> step, job |-> @.job]]

\* SETNX; a lock somebody holds, or an error, puts the job back.  The answer of a
\* command that was executed may be lost, and then nobody holds the lock it set.
TryAcquireJobLock(w) ==
  LET j == worker[w].job IN
  /\ worker[w].step = "lock"
  /\ \/ /\ lock[j] = NoWorker
        /\ lock' = [lock EXCEPT ![j] = w]
        /\ StepTo(w, "process")
        /\ UNCHANGED faults
     \/ lock[j] # NoWorker /\ StepTo(w, "conflict") /\ UNCHANGED <<lock, faults>>
     \/ /\ Fault /\ StepTo(w, "conflict")
        /\ UNCHANGED lock \/ (lock[j] = NoWorker /\ lock' = [lock EXCEPT ![j] = w])
  /\ UNCHANGED <<queueVars, work, calls, lapsed>>

\* One call of the processor: the job is terminal after its last round.
Process(w) ==
  LET j == worker[w].job IN
  /\ worker[w].step = "process"
  /\ IF work[j] = 0
       THEN StepTo(w, "ack") /\ UNCHANGED work
       ELSE StepTo(w, "requeue") /\ work' = [work EXCEPT ![j] = @ - 1]
  /\ UNCHANGED <<queueVars, lock, calls, faults, lapsed>>

\* A command that Redis refuses leaves the job where it was.
Refused == Fault /\ UNCHANGED queueVars

\* Mutant: a delay of zero, which is neither pushed nor delayed.
RequeueNowhere(w) ==
  /\ worker[w].step \in {"conflict", "requeue"}
  /\ active' = active \ {worker[w].job}
  /\ worker' = [worker EXCEPT ![w] =
       IF @.step = "conflict" THEN Idle ELSE [step |-> "unlock", job |-> @.job]]
  /\ UNCHANGED <<ready, delayed, inflight, faults, lock, work, calls, lapsed>>

\* One pipeline, always with a delay: out of the active set, into the delayed one.
RequeueAfter(w) ==
  LET j == worker[w].job IN
  /\ worker[w].step \in {"conflict", "requeue"}
  /\ \/ /\ active' = active \ {j}
        /\ delayed' = delayed \cup {j}
        /\ UNCHANGED <<ready, inflight, faults>>
     \/ Refused
  /\ worker' = [worker EXCEPT ![w] =
       IF @.step = "conflict" THEN Idle ELSE [step |-> "unlock", job |-> j]]
  /\ UNCHANGED <<lock, work, calls, lapsed>>

Ack(w) ==
  LET j == worker[w].job IN
  /\ worker[w].step = "ack"
  /\ \/ /\ active' = active \ {j}
        /\ delayed' = delayed \ {j}
        /\ inflight' = inflight \ {j}
        /\ UNCHANGED <<ready, faults>>
     \/ Refused
  /\ StepTo(w, "unlock")
  /\ UNCHANGED <<lock, work, calls, lapsed>>

LeaveCall(w) == worker' = [worker EXCEPT ![w] = Idle] /\ lapsed' = lapsed \ {w}

\* Mutant: the lock is deleted without comparing the token.
DeleteLock(w) ==
  /\ worker[w].step = "unlock"
  /\ lock' = [lock EXCEPT ![worker[w].job] = NoWorker]
  /\ LeaveCall(w)
  /\ UNCHANGED <<queueVars, work, calls, faults>>

\* Only the lock with this worker's token is deleted; an error is ignored.
ReleaseLock(w) ==
  /\ worker[w].step = "unlock"
  /\ \/ /\ lock' = [lock EXCEPT ![worker[w].job] = IF @ = w THEN NoWorker ELSE @]
        /\ UNCHANGED faults
     \/ Fault /\ UNCHANGED lock
  /\ LeaveCall(w)
  /\ UNCHANGED <<queueVars, work, calls>>

\* The due time of a delayed job has come.
MoveDueDelayedToReady(j) ==
  /\ j \in delayed
  /\ delayed' = delayed \ {j}
  /\ ready' = Append(ready, j)
  /\ UNCHANGED <<active, inflight, lock, worker, work, calls, faults, lapsed>>

Reserved(j) == \E w \in Workers : worker[w].job = j /\ worker[w].step # "unlock"

\* A job is stale when nobody has it; a worker that has it renews it unless its
\* heartbeats fail.
RecoverStaleActive(j) ==
  /\ j \in active
  /\ (Reserved(j) /\ Fault) \/ (~Reserved(j) /\ UNCHANGED faults)
  /\ active' = active \ {j}
  /\ ready' = Append(ready, j)
  /\ UNCHANGED <<delayed, inflight, lock, worker, work, calls, lapsed>>

\* A worker dies with its instance and starts again; Redis keeps what it wrote.
Die(w) ==
  /\ worker[w].step # "idle"
  /\ Fault
  /\ LeaveCall(w)
  /\ UNCHANGED <<queueVars, lock, work, calls>>

Renews(w, j) ==
  /\ lock[j] = w /\ worker[w].job = j
  /\ worker[w].step \in Holding

\* A lock nobody renews expires; a live worker renews its own unless that fails.
LockExpires(j) ==
  /\ lock[j] # NoWorker
  /\ \/ \E w \in Workers : Renews(w, j) /\ Fault /\ lapsed' = lapsed \cup {w}
     \/ (\A w \in Workers : ~Renews(w, j)) /\ UNCHANGED <<faults, lapsed>>
  /\ lock' = [lock EXCEPT ![j] = NoWorker]
  /\ UNCHANGED <<queueVars, worker, work, calls>>

\* The inflight key's lifetime ends before the job does.
InflightExpires(j) ==
  /\ j \in inflight
  /\ Fault
  /\ inflight' = inflight \ {j}
  /\ UNCHANGED <<ready, delayed, active, lock, worker, work, calls, lapsed>>

RunOnce(w) ==
  \/ Reserve(w) \/ TryAcquireJobLock(w) \/ Process(w)
  \/ RequeueAfter(w) \/ Ack(w) \/ ReleaseLock(w)

Next ==
  \/ \E j \in Jobs : Enqueue(j) \/ MoveDueDelayedToReady(j) \/ RecoverStaleActive(j)
                     \/ LockExpires(j) \/ InflightExpires(j)
  \/ \E w \in Workers : RunOnce(w) \/ Die(w)

Spec == Init /\ [][Next]_vars

\* Every instance runs its worker loop, its delayed mover and its recovery for ever
\* (batch_image_worker_runtime.go), and Redis expires keys.
FairSpec ==
  /\ Spec
  /\ \A w \in Workers : WF_vars(RunOnce(w))
  /\ \A j \in Jobs : /\ WF_vars(MoveDueDelayedToReady(j))
                     /\ WF_vars(~Reserved(j) /\ RecoverStaleActive(j))
                     /\ WF_vars(UNCHANGED faults /\ LockExpires(j))

-----------------------------------------------------------------------------
(* Properties.                                                             *)

\* The types of the structures and of the workers' steps.
TypeOK ==
  /\ ready \in Seq(Jobs)
  /\ delayed \subseteq Jobs /\ active \subseteq Jobs /\ inflight \subseteq Jobs
  /\ lock \in [Jobs -> Workers \cup {NoWorker}]
  /\ worker \in [Workers -> [step : WorkerSteps, job : Jobs \cup {NoJob}]]
  /\ \A w \in Workers : worker[w].step # "idle" => worker[w].job \in Jobs
  /\ work \in [Jobs -> 0 .. Rounds]
  /\ calls \in [Jobs -> 0 .. MaxEnqueues]
  /\ faults \in 0 .. MaxFaults
  /\ lapsed \subseteq Workers

\* A job whose key refuses a second Enqueue is in one of the structures: no crash
\* or interleaving of scripts leaves it to nobody for the key's seven days.
RefusedIsQueued == inflight \subseteq Queue

Processing(w, j) == worker[w].job = j /\ worker[w].step = "process"

\* The Process calls of one job exclude each other, but for a worker whose own lock
\* expired during its call: such a worker, and a dead one, takes the lock from nobody.
OneProcessor ==
  \A j \in Jobs : \A v, w \in Workers \ lapsed :
    Processing(v, j) /\ Processing(w, j) => v = w

\* The inductive invariant: a worker whose lock did not expire still holds it, which
\* is what keeps the others out, and only a finished job is acknowledged.
IInv ==
  /\ TypeOK
  /\ RefusedIsQueued
  /\ \A w \in Workers \ lapsed : worker[w].step \in Holding => lock[worker[w].job] = w
  /\ \A w \in Workers : worker[w].step = "ack" => work[worker[w].job] = 0

Serving  == [w \in Workers |-> IF worker[w].step \in {"idle", "unlock"} THEN NoJob
                               ELSE worker[w].job]
Finished == {j \in Jobs : work[j] = 0}

Contract == INSTANCE WorkQueueContract WITH
  pending <- Queue, serving <- Serving, finished <- Finished

\* The structures keep the contract: a job leaves them only by the Ack of a worker
\* that found it terminal.
ContractSpec == Contract!Spec

\* Every accepted job is processed to its end, and the queue runs empty.
Served == \A j \in Jobs : (j \in Queue) ~> (work[j] = 0 /\ j \notin Queue)
=============================================================================
