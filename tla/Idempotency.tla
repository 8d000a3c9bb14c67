----------------------------- MODULE Idempotency ------------------------------
(***************************************************************************)
(* IdempotencyCoordinator.Execute: concurrent requests that carry the same *)
(* idempotency key, against the key's row in IdempotencyStore.  A request  *)
(* reads the clock once, then makes its calls one by one; other requests,  *)
(* the cleanup and the clock go on in between.                             *)
(* Source: service/idempotency.go, service/idempotency_cleanup_service.go. *)
(***************************************************************************)
EXTENDS IdempotencyStore, FiniteSets

CONSTANTS
  Procs,    \* requests that can be running at once
  Faults,   \* the kinds of failure, a subset of AllFaults
  Backoff   \* IdempotencyConfig.FailedRetryBackoff

\* "store": a statement fails, applied or not, or a response cannot be encoded;
\* "execute": the operation fails; "crash": a request dies; "slow": an operation
\* outlasts its record.
AllFaults == {"store", "execute", "crash", "slow"}

ASSUME FaultsAssumption  == Faults \subseteq AllFaults
ASSUME BackoffAssumption == Backoff \in Nat
ASSUME PrintsAssumption  == "error" \notin Prints
ASSUME ProcsAssumption   == IsFiniteSet(Procs)

VARIABLES
  pc,        \* per request: next call
  payload,   \* its fingerprint
  local,     \* its local variables: the time it read, and of the row it read the
             \* id, the status, and whether it wants to retry a failure
  reply,     \* its answer: the fingerprint whose result it is, or an error
  effects,   \* how often the operation was executed successfully
  done,      \* the fingerprints it was executed for
  claims,    \* how often a new or an expired row was claimed
  outlived   \* an operation has outlasted its record

effectVars == <<effects, done>>
ghostVars  == <<claims, outlived>>
vars == <<now, rowVars, pc, payload, local, reply, effectVars, ghostVars>>

StoreCalls  == {"create", "get", "reclaim", "get_latest"}
OwnerCalls  == {"execute", "mark_succeeded", "mark_failed"}
Owners      == {p \in Procs : pc[p] \in OwnerCalls}
Deadline(p) == local[p].start + TTL
Lock(p)     == local[p].start + ProcessingTimeout

Locals  == [start : Nat, rec : Nat, from : Statuses, retry : BOOLEAN]
NoLocal == [start |-> 0, rec |-> 0, from |-> "processing", retry |-> FALSE]

Init ==
  /\ StoreInit
  /\ pc = [p \in Procs |-> "idle"]
  /\ payload = [p \in Procs |-> fingerprint]
  /\ local = [p \in Procs |-> NoLocal]
  /\ reply = [p \in Procs |-> "error"]
  /\ effects = 0 /\ done = {} /\ claims = 0 /\ outlived = FALSE

Fails(kind) == kind \in Faults

Goto(p, call) == pc' = [pc EXCEPT ![p] = call]

Return(p, result) ==
  /\ Goto(p, "idle")
  /\ reply' = [reply EXCEPT ![p] = result]
  /\ local' = [local EXCEPT ![p] = NoLocal]

Request(p, print) ==
  /\ pc[p] = "idle"
  /\ Goto(p, "create")
  /\ payload' = [payload EXCEPT ![p] = print]
  /\ local' = [local EXCEPT ![p].start = now]
  /\ reply' = [reply EXCEPT ![p] = "error"]
  /\ UNCHANGED <<now, rowVars, effectVars, ghostVars>>

\* A claim whose error reaches the request may still have been applied.
Claim(p, row) ==
  \/ /\ Goto(p, "execute")
     /\ local' = [local EXCEPT ![p].rec = row]
     /\ UNCHANGED reply
  \/ Fails("store") /\ Return(p, "error")

CreateProcessing(p) ==
  /\ pc[p] = "create"
  /\ \/ /\ Insert(payload[p], Lock(p), Deadline(p))
        /\ claims' = claims + 1
        /\ Claim(p, id')
     \/ /\ status # "absent"
        /\ Goto(p, "get")
        /\ UNCHANGED <<rowVars, claims, local, reply>>
     \/ /\ Fails("store")
        /\ Return(p, "error")
        /\ UNCHANGED <<rowVars, claims>>
  /\ UNCHANGED <<now, payload, effectVars, outlived>>

\* The request will try to take the row over from the status it saw.
AimAt(p, again) ==
  /\ Goto(p, "reclaim")
  /\ local' = [local EXCEPT ![p] = [@ EXCEPT !.rec = id, !.from = status, !.retry = again]]
  /\ UNCHANGED reply

\* A failure may be retried after its backoff.
OpenToRetry(p) == status = "failed_retryable" /\ lockedUntil <= local[p].start

\* The switch on the existing row's status.  A stored response that was
\* truncated cannot be decoded again.
Resolve(p) ==
  \/ OpenToRetry(p) /\ AimAt(p, TRUE)
  \/ status = "succeeded" /\ Return(p, answer)
  \/ ~OpenToRetry(p) /\ Return(p, "error")

\* Mutant: the key's request is not compared with this one.
MatchesAny(p) == status # "absent"

\* The row exists and belongs to the same request.
Matches(p) == status # "absent" /\ fingerprint = payload[p]

GetExisting(p) ==
  /\ pc[p] = "get"
  /\ \/ ~Matches(p) /\ Return(p, "error")
     \/ Fails("store") /\ Return(p, "error")
     \/ Matches(p) /\ expiresAt <= local[p].start /\ AimAt(p, FALSE)
     \/ Matches(p) /\ expiresAt > local[p].start /\ Resolve(p)
  /\ UNCHANGED <<now, rowVars, payload, effectVars, ghostVars>>

GetLatest(p) ==
  /\ pc[p] = "get_latest"
  /\ \/ ~Matches(p) /\ Return(p, "error")
     \/ Fails("store") /\ Return(p, "error")
     \/ Matches(p) /\ Resolve(p)
  /\ UNCHANGED <<now, rowVars, payload, effectVars, ghostVars>>

TryReclaim(p) ==
  LET seen == local[p] IN
  /\ pc[p] = "reclaim"
  /\ \/ /\ Reclaimable(seen.rec, seen.from, seen.start)
        /\ Reclaim(Lock(p), Deadline(p))
        /\ claims' = IF seen.retry THEN claims ELSE claims + 1
        /\ Claim(p, seen.rec)
     \/ /\ ~Reclaimable(seen.rec, seen.from, seen.start)
        /\ \/ seen.retry /\ Return(p, "error")
           \/ ~seen.retry /\ Goto(p, "get_latest") /\ UNCHANGED <<local, reply>>
        /\ UNCHANGED <<rowVars, claims>>
     \/ /\ Fails("store")
        /\ Return(p, "error")
        /\ UNCHANGED <<rowVars, claims>>
  /\ UNCHANGED <<now, payload, effectVars, outlived>>

\* The operation itself: it succeeds, or fails without a trace.
execute(p) ==
  /\ pc[p] = "execute"
  /\ \/ /\ effects' = effects + 1
        /\ done' = done \cup {payload[p]}
        /\ Goto(p, "mark_succeeded")
     \/ /\ Fails("execute")
        /\ Goto(p, "mark_failed")
        /\ UNCHANGED effectVars
  /\ UNCHANGED <<now, rowVars, payload, local, reply, ghostVars>>

\* A response that cannot be encoded, or not stored, is an error to the client.
RecordSuccess(p) ==
  /\ pc[p] = "mark_succeeded"
  /\ \/ /\ MarkSucceeded(local[p].rec, payload[p], Deadline(p))
        /\ Return(p, payload[p]) \/ (Fails("store") /\ Return(p, "error"))
     \/ /\ Fails("store")
        /\ Return(p, "error")
        /\ UNCHANGED rowVars
  /\ UNCHANGED <<now, payload, effectVars, ghostVars>>

\* Mutant: a failed operation is recorded as if it had succeeded.
RecordFailureAsSuccess(p) ==
  /\ pc[p] = "mark_failed"
  /\ MarkSucceeded(local[p].rec, payload[p], Deadline(p))
  /\ Return(p, "error")
  /\ UNCHANGED <<now, payload, effectVars, ghostVars>>

RecordFailure(p) ==
  /\ pc[p] = "mark_failed"
  /\ \/ MarkFailedRetryable(local[p].rec, now + Backoff, Deadline(p))
     \/ Fails("store") /\ UNCHANGED rowVars
  /\ Return(p, "error")
  /\ UNCHANGED <<now, payload, effectVars, ghostVars>>

Crash(p) ==
  /\ Fails("crash")
  /\ pc[p] # "idle"
  /\ Return(p, "error")
  /\ UNCHANGED <<now, rowVars, payload, effectVars, ghostVars>>

cleanupOnce ==
  /\ DeleteExpired
  /\ UNCHANGED <<now, pc, payload, local, reply, effectVars, ghostVars>>

\* A request's reads and its claim take less than ProcessingTimeout; its operation
\* ends before its record expires, unless it is slow.
Tick ==
  /\ now < MaxTime
  /\ now' = now + 1
  /\ \A p \in Procs : pc[p] \in StoreCalls => now' < Lock(p)
  /\ outlived' = (outlived \/ \E p \in Owners : now' >= Deadline(p))
  /\ outlived' => outlived \/ Fails("slow")
  /\ UNCHANGED <<rowVars, pc, payload, local, reply, effectVars, claims>>

Step(p) ==
  \/ \E print \in Prints : Request(p, print)
  \/ CreateProcessing(p) \/ GetExisting(p) \/ TryReclaim(p) \/ GetLatest(p)
  \/ execute(p) \/ RecordSuccess(p) \/ RecordFailure(p) \/ Crash(p)

Next == (\E p \in Procs : Step(p)) \/ cleanupOnce \/ Tick

Spec == Init /\ [][Next]_vars

-------------------------------------------------------------------------------
(* Properties.                                                              *)

\* The row's columns and every request's locals have one of their values.
TypeOK ==
  /\ StoreTypeOK
  /\ pc \in [Procs -> {"idle"} \cup StoreCalls \cup OwnerCalls]
  /\ payload \in [Procs -> Prints]
  /\ local \in [Procs -> Locals]
  /\ reply \in [Procs -> Prints \cup {"error"}]
  /\ effects \in Nat
  /\ done \subseteq Prints
  /\ claims \in Nat
  /\ outlived \in BOOLEAN

\* Requests with the same key never run the operation at the same time, as long
\* as no operation outlasts its record.
OneOwner == outlived \/ \A p, q \in Owners : p = q

\* A success the client sees, its own or a replayed one, is the result of a
\* request with the client's own fingerprint that was really executed.
AnswersMatch ==
  \A p \in Procs : reply[p] # "error" => reply[p] = payload[p] /\ reply[p] \in done

\* The operation takes effect at most once for each time a new or an expired key
\* was claimed, whatever fails and however long anything takes.
EffectsBounded == effects <= claims

-------------------------------------------------------------------------------
(* The invariant behind the properties.                                     *)

Granted == {p \in Procs : pc[p] \in {"execute", "mark_failed"}}

\* Whoever may still execute was let in by a claim that no effect has used; a
\* recorded failure keeps its claim for the request that retries it.
ClaimsInv ==
  /\ effects + Cardinality(Granted) + (IF status = "failed_retryable" THEN 1 ELSE 0)
       <= claims
  /\ \A p \in Procs :
       pc[p] = "reclaim" /\ local[p].retry => local[p].from = "failed_retryable"

\* A request that has, or is about to take, the present row carries that row's
\* fingerprint, so a stored answer is that of the row's own fingerprint.
AnswersInv ==
  /\ status = "succeeded" => answer = fingerprint /\ answer \in done
  /\ \A p \in Procs :
       /\ pc[p] \in OwnerCalls \cup {"reclaim"} => local[p].rec <= id
       /\ pc[p] \in OwnerCalls \cup {"reclaim"} /\ local[p].rec = id
            => payload[p] = fingerprint
       /\ pc[p] = "mark_succeeded" => payload[p] \in done

\* An owner's record is the one it claimed, unexpired; whoever saw an earlier claim
\* of that record expire read the clock before the owner's lock ends.
HoldsRow(p) ==
  /\ status = "processing" /\ id = local[p].rec
  /\ expiresAt = Deadline(p) /\ now < expiresAt
  /\ \A q \in Procs : pc[q] = "reclaim" /\ local[q].rec = id /\ local[q].from = "processing"
                      => local[q].start < lockedUntil

\* A request claims in time, and an owner that has not outlived its record holds it
\* alone.
OwnerInv ==
  /\ \A p \in Procs : pc[p] \in StoreCalls => local[p].start <= now /\ now < Lock(p)
  /\ outlived \/ ((\A p \in Owners : HoldsRow(p)) /\ OneOwner)

\* Inductive: types, who may execute, whose answer is stored, and who owns the row.
IdemInv == TypeOK /\ ClaimsInv /\ AnswersInv /\ AnswersMatch /\ OwnerInv
===============================================================================
