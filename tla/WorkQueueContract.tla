------------------------- MODULE WorkQueueContract --------------------------
(***************************************************************************)
(* What the callers of the batch image queue rely on: an accepted job is   *)
(* pending until a worker that was given it has found it finished, however *)
(* many workers die in between.  A job may be given to several workers.    *)
(* Source of the promise: docs/BATCH_IMAGE_MVP.md ("Redis is used for      *)
(* wakeups, retries, worker coordination") and the comments of             *)
(* repository/batch_image_queue.go on jobs that leave every structure.     *)
(***************************************************************************)
CONSTANTS Jobs, Workers, NoJob

VARIABLES
  pending,   \* accepted jobs
  serving,   \* the job each worker was given
  finished   \* jobs with nothing left to do

vars == <<pending, serving, finished>>

Init ==
  /\ pending = {}
  /\ serving = [w \in Workers |-> NoJob]
  /\ finished \in SUBSET Jobs

Accept(j) ==
  /\ pending' = pending \cup {j}
  /\ UNCHANGED <<serving, finished>>

Give(w, j) ==
  /\ j \in pending
  /\ serving[w] = NoJob
  /\ serving' = [serving EXCEPT ![w] = j]
  /\ UNCHANGED <<pending, finished>>

Work(w) ==
  /\ serving[w] # NoJob
  /\ finished' = finished \cup {serving[w]}
  /\ UNCHANGED <<pending, serving>>

\* A worker gives up its job and the job stays pending, or is so again.
GiveBack(w) ==
  /\ serving[w] # NoJob
  /\ serving' = [serving EXCEPT ![w] = NoJob]
  /\ pending' = pending \cup {serving[w]} \/ UNCHANGED pending
  /\ UNCHANGED finished

\* A job stops being pending only by a worker that was given it and finished it.
Complete(w) ==
  /\ serving[w] \in finished
  /\ serving' = [serving EXCEPT ![w] = NoJob]
  /\ pending' = pending \ {serving[w]}
  /\ UNCHANGED finished

Next ==
  \/ \E j \in Jobs : Accept(j)
  \/ \E w \in Workers : Work(w) \/ GiveBack(w) \/ Complete(w) \/ (\E j \in Jobs : Give(w, j))

Spec == Init /\ [][Next]_vars
=============================================================================
