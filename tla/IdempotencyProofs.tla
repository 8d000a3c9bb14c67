-------------------------- MODULE IdempotencyProofs ---------------------------
(***************************************************************************)
(* Proofs about Idempotency, for any requests, fingerprints, timeouts and  *)
(* failures.  Effects and answers are right whatever time anything takes;  *)
(* only the section on owners uses the assumptions about the clock.        *)
(***************************************************************************)
EXTENDS Idempotency, FiniteSetTheorems, TLAPS

USE DEF rowVars, effectVars, ghostVars

-------------------------------------------------------------------------------
(* Types.                                                                   *)

\* The locals of a request that is not running are well typed.
LEMMA NoLocalType == NoLocal \in Locals
BY DEF NoLocal, Locals, Statuses

\* Initially there is no row and nobody runs.
LEMMA TypeInit == Init => TypeOK
<1> SUFFICES ASSUME Init PROVE TypeOK
  OBVIOUS
<1>1. StoreTypeOK
  BY DEF Init, StoreInit, StoreTypeOK, Statuses
<1>2. pc \in [Procs -> {"idle"} \cup StoreCalls \cup OwnerCalls]
  BY DEF Init
<1>3. payload \in [Procs -> Prints]
  BY DEF Init, StoreInit
<1>4. local \in [Procs -> Locals]
  BY NoLocalType DEF Init
<1>5. reply \in [Procs -> Prints \cup {"error"}]
  BY DEF Init
<1> QED
  BY <1>1, <1>2, <1>3, <1>4, <1>5 DEF Init, TypeOK

\* Every request's times are natural numbers.
LEMMA TimesTyped ==
  ASSUME TypeOK, NEW p \in Procs
  PROVE  Lock(p) \in Nat /\ Deadline(p) \in Nat
BY TimesAssumption DEF TypeOK, Locals, Lock, Deadline

\* The variables of the requests, without what a request asked for.
ProcTypeOK ==
  /\ pc \in [Procs -> {"idle"} \cup StoreCalls \cup OwnerCalls]
  /\ local \in [Procs -> Locals]
  /\ reply \in [Procs -> Prints \cup {"error"}]

\* A request that returns stays well typed.
LEMMA ReturnType ==
  ASSUME TypeOK, NEW p \in Procs, NEW r \in Prints \cup {"error"}, Return(p, r)
  PROVE  ProcTypeOK'
<1>1. pc' \in [Procs -> {"idle"} \cup StoreCalls \cup OwnerCalls]
  BY DEF TypeOK, Return, Goto
<1>2. local' \in [Procs -> Locals]
  BY NoLocalType DEF TypeOK, Return
<1>3. reply' \in [Procs -> Prints \cup {"error"}]
  BY DEF TypeOK, Return
<1> QED
  BY <1>1, <1>2, <1>3 DEF ProcTypeOK

\* A request that only goes on to its next call stays well typed.
LEMMA GotoType ==
  ASSUME TypeOK, NEW p \in Procs, NEW call \in StoreCalls \cup OwnerCalls, Goto(p, call),
         UNCHANGED <<local, reply>>
  PROVE  ProcTypeOK'
BY DEF TypeOK, Goto, ProcTypeOK

\* So does one whose claim succeeded, or whose claim's answer got lost.
LEMMA ClaimType ==
  ASSUME TypeOK, NEW p \in Procs, NEW row \in Nat, Claim(p, row)
  PROVE  ProcTypeOK'
<1>1. CASE Return(p, "error")
  BY <1>1, ReturnType
<1>2. CASE Goto(p, "execute") /\ local' = [local EXCEPT ![p].rec = row] /\ UNCHANGED reply
  <2>1. local' \in [Procs -> Locals]
    BY <1>2 DEF TypeOK, Locals
  <2> QED
    BY <1>2, <2>1 DEF TypeOK, Goto, ProcTypeOK, OwnerCalls
<1> QED
  BY <1>1, <1>2 DEF Claim

\* So does one that aims at the row it found.
LEMMA AimAtType ==
  ASSUME TypeOK, NEW p \in Procs, NEW again \in BOOLEAN, AimAt(p, again), status # "absent"
  PROVE  ProcTypeOK'
<1>1. [local[p] EXCEPT !.rec = id, !.from = status, !.retry = again] \in Locals
  BY DEF TypeOK, StoreTypeOK, Locals
<1>2. local' \in [Procs -> Locals]
  BY <1>1 DEF TypeOK, AimAt
<1> QED
  BY <1>2 DEF TypeOK, AimAt, Goto, ProcTypeOK, StoreCalls

\* The switch on the status of the existing row keeps the types.
LEMMA ResolveType ==
  ASSUME TypeOK, NEW p \in Procs, Resolve(p), status # "absent"
  PROVE  ProcTypeOK'
<1>1. answer \in Prints
  BY DEF TypeOK, StoreTypeOK
<1> QED
  BY <1>1, AimAtType, ReturnType DEF Resolve

\* Every step keeps the row's columns and the requests' locals in their types.
LEMMA TypeStep == TypeOK /\ [Next]_vars => TypeOK'
<1> SUFFICES ASSUME TypeOK, [Next]_vars PROVE TypeOK'
  OBVIOUS
<1>0. ASSUME ProcTypeOK', StoreTypeOK', UNCHANGED <<payload, effectVars, outlived>>, claims' \in Nat
      PROVE  TypeOK'
  BY <1>0 DEF TypeOK, ProcTypeOK
<1>1. ASSUME NEW p \in Procs, NEW print \in Prints, Request(p, print) PROVE TypeOK'
  BY <1>1 DEF Request, StoreCalls, TypeOK, StoreTypeOK, Locals, Goto
<1>2. ASSUME NEW p \in Procs, CreateProcessing(p) PROVE TypeOK'
  <2>1. StoreTypeOK' /\ claims' \in Nat
    BY <1>2, TimesTyped DEF CreateProcessing, Insert, TypeOK, StoreTypeOK, Statuses
  <2>2. ProcTypeOK'
    <3>1. \/ Claim(p, id')
          \/ Goto(p, "get") /\ UNCHANGED <<local, reply>>
          \/ Return(p, "error")
      BY <1>2 DEF CreateProcessing
    <3> QED
      BY <2>1, <3>1, ClaimType, GotoType, ReturnType DEF StoreTypeOK, StoreCalls
  <2> QED
    BY <1>0, <1>2, <2>1, <2>2 DEF CreateProcessing
<1>3. ASSUME NEW p \in Procs, GetExisting(p) \/ GetLatest(p) PROVE TypeOK'
  <2>1. ProcTypeOK'
    <3>1. \/ Return(p, "error")
          \/ status # "absent" /\ AimAt(p, FALSE)
          \/ status # "absent" /\ Resolve(p)
      BY <1>3 DEF GetExisting, GetLatest, Matches
    <3> QED
      BY <3>1, ReturnType, AimAtType, ResolveType
  <2> QED
    BY <1>0, <1>3, <2>1 DEF GetExisting, GetLatest, TypeOK, StoreTypeOK
<1>5. ASSUME NEW p \in Procs, TryReclaim(p) PROVE TypeOK'
  <2>1. StoreTypeOK' /\ claims' \in Nat
    BY <1>5, TimesTyped DEF TryReclaim, Reclaim, TypeOK, StoreTypeOK, Statuses
  <2>2. ProcTypeOK'
    <3>1. \/ Claim(p, local[p].rec)
          \/ Goto(p, "get_latest") /\ UNCHANGED <<local, reply>>
          \/ Return(p, "error")
      BY <1>5 DEF TryReclaim
    <3>2. local[p].rec \in Nat
      BY DEF TypeOK, Locals
    <3> QED
      BY <3>1, <3>2, ClaimType, GotoType, ReturnType DEF StoreCalls
  <2> QED
    BY <1>0, <1>5, <2>1, <2>2 DEF TryReclaim
<1>6. ASSUME NEW p \in Procs, execute(p) PROVE TypeOK'
  <2>1. ProcTypeOK'
    BY <1>6, GotoType DEF execute, OwnerCalls
  <2> QED
    BY <1>6, <2>1 DEF execute, TypeOK, ProcTypeOK, StoreTypeOK
<1>7. ASSUME NEW p \in Procs, RecordSuccess(p) PROVE TypeOK'
  <2>1. payload[p] \in Prints
    BY DEF TypeOK
  <2>2. StoreTypeOK'
    BY <1>7, <2>1, TimesTyped DEF RecordSuccess, MarkSucceeded, TypeOK, StoreTypeOK, Statuses
  <2>3. ProcTypeOK'
    BY <1>7, <2>1, ReturnType DEF RecordSuccess
  <2> QED
    BY <1>0, <1>7, <2>2, <2>3 DEF RecordSuccess, TypeOK
<1>8. ASSUME NEW p \in Procs, RecordFailure(p) PROVE TypeOK'
  <2>1. StoreTypeOK'
    BY <1>8, TimesTyped, BackoffAssumption
       DEF RecordFailure, MarkFailedRetryable, TypeOK, StoreTypeOK, Statuses
  <2>2. ProcTypeOK'
    BY <1>8, ReturnType DEF RecordFailure
  <2> QED
    BY <1>0, <1>8, <2>1, <2>2 DEF RecordFailure, TypeOK
<1>9. ASSUME NEW p \in Procs, Crash(p) PROVE TypeOK'
  <2>1. ProcTypeOK'
    BY <1>9, ReturnType DEF Crash
  <2> QED
    BY <1>0, <1>9, <2>1 DEF Crash, TypeOK, StoreTypeOK
<1>10. CASE cleanupOnce
  BY <1>10 DEF cleanupOnce, DeleteExpired, TypeOK, StoreTypeOK
<1>11. CASE Tick
  BY <1>11 DEF Tick, TypeOK, StoreTypeOK
<1>12. CASE UNCHANGED vars
  BY <1>12 DEF vars, TypeOK, StoreTypeOK
<1> QED
  BY <1>1, <1>2, <1>3, <1>5, <1>6, <1>7, <1>8, <1>9, <1>10, <1>11, <1>12
     DEF Next, Step

-------------------------------------------------------------------------------
(* Claims and effects.                                                      *)

\* The requests that may execute are finitely many.
LEMMA GrantedFinite == IsFiniteSet(Granted) /\ Cardinality(Granted) \in Nat
<1>1. Granted \subseteq Procs
  BY DEF Granted
<1> QED
  BY <1>1, ProcsAssumption, FS_Subset, FS_CardinalityType

\* A request that goes elsewhere leaves them, or was not one of them.
LEMMA GrantedLeave ==
  ASSUME TypeOK, NEW p \in Procs, NEW call, Goto(p, call), call \notin {"execute", "mark_failed"}
  PROVE  /\ IF p \in Granted THEN Cardinality(Granted') = Cardinality(Granted) - 1
                              ELSE Cardinality(Granted') = Cardinality(Granted)
         /\ Cardinality(Granted') \in Nat
<1>1. Granted' = Granted \ {p}
  BY DEF TypeOK, Goto, Granted
<1>2. IF p \in Granted THEN Cardinality(Granted') = Cardinality(Granted) - 1
                       ELSE Cardinality(Granted') = Cardinality(Granted)
  BY <1>1, GrantedFinite, FS_RemoveElement
<1>3. IsFiniteSet(Granted')
  BY <1>1, GrantedFinite, FS_Subset
<1> QED
  BY <1>2, <1>3, FS_CardinalityType

\* A request that goes on to execute, or has failed to, is one of them.
LEMMA GrantedJoin ==
  ASSUME TypeOK, NEW p \in Procs, NEW call \in {"execute", "mark_failed"}, Goto(p, call)
  PROVE  /\ IF p \in Granted THEN Cardinality(Granted') = Cardinality(Granted)
                              ELSE Cardinality(Granted') = Cardinality(Granted) + 1
         /\ Cardinality(Granted') \in Nat
<1>1. Granted' = Granted \cup {p}
  BY DEF TypeOK, Goto, Granted
<1>2. IF p \in Granted THEN Cardinality(Granted') = Cardinality(Granted)
                       ELSE Cardinality(Granted') = Cardinality(Granted) + 1
  BY <1>1, GrantedFinite, FS_AddElement
<1> QED
  BY <1>2, GrantedFinite

\* The claim that a recorded failure keeps for its retry.
Kept == IF status = "failed_retryable" THEN 1 ELSE 0

ClaimsBound == effects + Cardinality(Granted) + Kept <= claims

RetriesFailures ==
  \A p \in Procs : pc[p] = "reclaim" /\ local[p].retry => local[p].from = "failed_retryable"

\* Only a request that saw a failure aims at a retry.
LEMMA RetriesStep == TypeOK /\ RetriesFailures /\ [Next]_vars => RetriesFailures'
<1> SUFFICES ASSUME TypeOK, RetriesFailures, [Next]_vars PROVE RetriesFailures'
  OBVIOUS
<1>0. ASSUME NEW p \in Procs, NEW call, call # "reclaim", Goto(p, call),
             \A q \in Procs \ {p} : local'[q] = local[q]
      PROVE  RetriesFailures'
  BY <1>0 DEF RetriesFailures, TypeOK, Goto
<1>1. ASSUME NEW p \in Procs, NEW again \in BOOLEAN, AimAt(p, again),
             again => status = "failed_retryable"
      PROVE  RetriesFailures'
  BY <1>1 DEF RetriesFailures, TypeOK, AimAt, Goto
<1>2. ASSUME NEW p \in Procs, NEW r, Return(p, r) PROVE RetriesFailures'
  BY <1>0, <1>2 DEF Return, TypeOK
<1>3. ASSUME NEW p \in Procs, NEW print \in Prints, Request(p, print) PROVE RetriesFailures'
  BY <1>0, <1>3 DEF Request, TypeOK
<1>4. ASSUME NEW p \in Procs, CreateProcessing(p) PROVE RetriesFailures'
  BY <1>0, <1>2, <1>4 DEF CreateProcessing, Claim, TypeOK
<1>5. ASSUME NEW p \in Procs, GetExisting(p) \/ GetLatest(p) PROVE RetriesFailures'
  BY <1>1, <1>2, <1>5 DEF GetExisting, GetLatest, Resolve, OpenToRetry
<1>6. ASSUME NEW p \in Procs, TryReclaim(p) PROVE RetriesFailures'
  BY <1>0, <1>2, <1>6 DEF TryReclaim, Claim, TypeOK
<1>7. ASSUME NEW p \in Procs, execute(p) PROVE RetriesFailures'
  BY <1>0, <1>7 DEF execute
<1>8. ASSUME NEW p \in Procs, RecordSuccess(p) \/ RecordFailure(p) \/ Crash(p)
      PROVE  RetriesFailures'
  BY <1>2, <1>8 DEF RecordSuccess, RecordFailure, Crash
<1>9. CASE cleanupOnce \/ Tick \/ UNCHANGED vars
  BY <1>9 DEF cleanupOnce, Tick, vars, RetriesFailures
<1> QED
  BY <1>3, <1>4, <1>5, <1>6, <1>7, <1>8, <1>9 DEF Next, Step

\* A step that lets a request in uses a new claim or the kept one; an effect uses
\* up what let its request in.
LEMMA ClaimsStep ==
  TypeOK /\ TypeOK' /\ RetriesFailures /\ ClaimsBound /\ [Next]_vars => ClaimsBound'
<1> SUFFICES ASSUME TypeOK, TypeOK', RetriesFailures, ClaimsBound, [Next]_vars PROVE ClaimsBound'
  OBVIOUS
<1>t. /\ effects \in Nat /\ claims \in Nat /\ effects' \in Nat /\ claims' \in Nat
      /\ Cardinality(Granted) \in Nat
  BY GrantedFinite DEF TypeOK
<1> USE DEF ClaimsBound, Kept
<1>0. ASSUME NEW p \in Procs, NEW call, Goto(p, call), call \notin {"execute", "mark_failed"},
             effects' = effects, claims' >= claims,
             status' = "failed_retryable" => status = "failed_retryable" \/ p \in Granted
      PROVE  ClaimsBound'
  BY <1>t, <1>0, GrantedLeave
<1>1. ASSUME NEW p \in Procs, NEW print \in Prints, Request(p, print) PROVE ClaimsBound'
  BY <1>t, <1>0, <1>1 DEF Request
<1>2. ASSUME NEW p \in Procs, CreateProcessing(p) PROVE ClaimsBound'
  <2>1. CASE Goto(p, "execute") /\ status' = "processing" /\ claims' = claims + 1 /\ effects' = effects
    BY <1>t, <2>1, GrantedJoin
  <2>2. CASE Return(p, "error") /\ status' = "processing" /\ claims' = claims + 1 /\ effects' = effects
    BY <1>t, <1>0, <2>2 DEF Return
  <2>3. CASE Goto(p, "get") /\ UNCHANGED <<rowVars, claims, effects>>
    BY <1>t, <1>0, <2>3
  <2>4. CASE Return(p, "error") /\ UNCHANGED <<rowVars, claims, effects>>
    BY <1>t, <1>0, <2>4 DEF Return
  <2> QED
    BY <1>2, <2>1, <2>2, <2>3, <2>4 DEF CreateProcessing, Insert, Claim
<1>3. ASSUME NEW p \in Procs, GetExisting(p) \/ GetLatest(p) PROVE ClaimsBound'
  <2>1. \E call \in {"idle", "reclaim"} : Goto(p, call)
    BY <1>3 DEF GetExisting, GetLatest, Resolve, AimAt, Return
  <2>2. UNCHANGED <<status, effects, claims>>
    BY <1>3 DEF GetExisting, GetLatest
  <2>3. PICK call \in {"idle", "reclaim"} : Goto(p, call)
    BY <2>1
  <2> QED
    BY <1>t, <1>0, <2>2, <2>3
<1>5. ASSUME NEW p \in Procs, TryReclaim(p) PROVE ClaimsBound'
  <2>1. CASE /\ Goto(p, "execute") /\ status' = "processing" /\ effects' = effects
             /\ status = local[p].from
             /\ claims' = IF local[p].retry THEN claims ELSE claims + 1
    <3>1. local[p].retry => status = "failed_retryable"
      BY <1>5, <2>1 DEF TryReclaim, RetriesFailures
    <3> QED
      BY <1>t, <2>1, <3>1, GrantedJoin
  <2>2. CASE Return(p, "error") /\ effects' = effects /\ claims' >= claims
             /\ (status' = "processing" \/ status' = status)
    BY <1>t, <1>0, <2>2 DEF Return
  <2>3. CASE Goto(p, "get_latest") /\ UNCHANGED <<rowVars, claims, effects>>
    BY <1>t, <1>0, <2>3
  <2> QED
    <3>1. CASE /\ Reclaimable(local[p].rec, local[p].from, local[p].start)
               /\ Reclaim(Lock(p), Deadline(p))
               /\ claims' = IF local[p].retry THEN claims ELSE claims + 1
               /\ Claim(p, local[p].rec)
      BY <1>t, <1>5, <2>1, <2>2, <3>1 DEF TryReclaim, Reclaimable, Reclaim, Claim
    <3>2. CASE /\ UNCHANGED <<rowVars, claims>>
               /\ Return(p, "error") \/ Goto(p, "get_latest")
      BY <1>t, <1>5, <2>2, <2>3, <3>2 DEF TryReclaim
    <3> QED
      BY <1>5, <3>1, <3>2 DEF TryReclaim
<1>6. ASSUME NEW p \in Procs, execute(p) PROVE ClaimsBound'
  <2>1. p \in Granted
    BY <1>6 DEF execute, Granted
  <2>2. CASE effects' = effects + 1 /\ Goto(p, "mark_succeeded")
    BY <1>t, <1>6, <2>1, <2>2, GrantedLeave DEF execute
  <2>3. CASE effects' = effects /\ Goto(p, "mark_failed")
    BY <1>t, <1>6, <2>1, <2>3, GrantedJoin DEF execute
  <2> QED
    BY <1>6, <2>2, <2>3 DEF execute
<1>7. ASSUME NEW p \in Procs, RecordSuccess(p) PROVE ClaimsBound'
  <2>1. Goto(p, "idle") /\ UNCHANGED <<effects, claims>> /\ (status' = "succeeded" \/ status' = status)
    BY <1>7 DEF RecordSuccess, Return, MarkSucceeded
  <2> QED
    BY <1>t, <1>0, <2>1
<1>8. ASSUME NEW p \in Procs, RecordFailure(p) PROVE ClaimsBound'
  <2>1. p \in Granted /\ Goto(p, "idle") /\ UNCHANGED <<effects, claims>>
    BY <1>8 DEF RecordFailure, Return, Granted
  <2> QED
    BY <1>t, <1>0, <2>1
<1>9. ASSUME NEW p \in Procs, Crash(p) PROVE ClaimsBound'
  BY <1>t, <1>0, <1>9 DEF Crash, Return
<1>10. CASE cleanupOnce
  BY <1>t, <1>10 DEF cleanupOnce, DeleteExpired, Granted
<1>11. CASE Tick \/ UNCHANGED vars
  BY <1>11 DEF Tick, vars, Granted
<1> QED
  BY <1>1, <1>2, <1>3, <1>5, <1>6, <1>7, <1>8, <1>9, <1>10, <1>11 DEF Next, Step

-------------------------------------------------------------------------------
(* Answers.                                                                 *)

\* A success that the row stores or a request has seen was executed for the
\* fingerprint concerned; a request's row, if it is still there, is its own.
AnswerStored == status = "succeeded" => answer = fingerprint /\ answer \in done

OwnsItsRow(p) ==
  pc[p] \in OwnerCalls \cup {"reclaim"}
    => local[p].rec <= id /\ (local[p].rec = id => payload[p] = fingerprint)

HasExecuted(p) == pc[p] = "mark_succeeded" => payload[p] \in done

ToldTheTruth(p) == reply[p] # "error" => reply[p] = payload[p] /\ reply[p] \in done

AnswersParts ==
  /\ AnswerStored
  /\ \A p \in Procs : OwnsItsRow(p) /\ HasExecuted(p) /\ ToldTheTruth(p)

\* The two invariants about answers, one request at a time.
LEMMA AnswersSplit == AnswersInv /\ AnswersMatch <=> AnswersParts
BY DEF AnswersInv, AnswersMatch, AnswersParts, AnswerStored, OwnsItsRow, HasExecuted, ToldTheTruth

\* Every step keeps stored and given answers true.
LEMMA AnswersStep == TypeOK /\ AnswersParts /\ [Next]_vars => AnswersParts'
<1> SUFFICES ASSUME TypeOK, AnswersParts, [Next]_vars PROVE AnswersParts'
  OBVIOUS
<1>t. id \in Nat /\ pc \in [Procs -> {"idle"} \cup StoreCalls \cup OwnerCalls]
      /\ payload \in [Procs -> Prints] /\ local \in [Procs -> Locals]
      /\ reply \in [Procs -> Prints \cup {"error"}]
      /\ \A p \in Procs : local[p].rec \in Nat
  BY DEF TypeOK, StoreTypeOK, Locals
<1> USE DEF AnswersParts, AnswerStored, OwnsItsRow, HasExecuted, ToldTheTruth
\* The requests that do not move keep what they rely on.
<1>0. ASSUME NEW p \in Procs, UNCHANGED <<id, fingerprint>> \/ id' = id + 1, done \subseteq done',
             \A q \in Procs \ {p} : /\ pc'[q] = pc[q] /\ local'[q] = local[q]
                                     /\ payload'[q] = payload[q] /\ reply'[q] = reply[q]
      PROVE  \A q \in Procs \ {p} : (OwnsItsRow(q) /\ HasExecuted(q) /\ ToldTheTruth(q))'
  BY <1>t, <1>0
<1>r. ASSUME NEW p \in Procs, NEW r, Return(p, r), UNCHANGED <<id, fingerprint, payload, done>>,
             AnswerStored', r # "error" => r = payload[p] /\ r \in done
      PROVE  AnswersParts'
  BY <1>t, <1>0, <1>r DEF Return, Goto, OwnerCalls
<1>a. ASSUME NEW p \in Procs, NEW again, AimAt(p, again), Matches(p), UNCHANGED <<rowVars, payload, done>>
      PROVE  AnswersParts'
  BY <1>t, <1>0, <1>a DEF AimAt, Goto, Matches, OwnerCalls
<1>1. ASSUME NEW p \in Procs, NEW print \in Prints, Request(p, print) PROVE AnswersParts'
  BY <1>t, <1>0, <1>1 DEF Request, Goto, OwnerCalls
<1>2. ASSUME NEW p \in Procs, CreateProcessing(p) PROVE AnswersParts'
  <2>1. UNCHANGED <<payload, done>>
    BY <1>2 DEF CreateProcessing
  <2>2. CASE Insert(payload[p], Lock(p), Deadline(p)) /\ Claim(p, id')
    <3>1. id' = id + 1 /\ fingerprint' = payload[p] /\ status' = "processing"
      BY <2>2 DEF Insert
    <3>2. CASE Goto(p, "execute") /\ local' = [local EXCEPT ![p].rec = id'] /\ UNCHANGED reply
      BY <1>t, <1>0, <2>1, <3>1, <3>2 DEF Goto, Locals
    <3>3. CASE Return(p, "error")
      BY <1>t, <1>0, <2>1, <3>1, <3>3 DEF Return, Goto, OwnerCalls
    <3> QED
      BY <2>2, <3>2, <3>3 DEF Claim
  <2>3. CASE Goto(p, "get") /\ UNCHANGED <<rowVars, local, reply>>
    BY <1>t, <1>0, <2>1, <2>3 DEF Goto, OwnerCalls
  <2>4. CASE Return(p, "error") /\ UNCHANGED rowVars
    BY <1>r, <2>1, <2>4
  <2> QED
    BY <1>2, <2>2, <2>3, <2>4 DEF CreateProcessing
<1>3. ASSUME NEW p \in Procs, GetExisting(p) \/ GetLatest(p) PROVE AnswersParts'
  <2>1. UNCHANGED <<rowVars, payload, done>>
    BY <1>3 DEF GetExisting, GetLatest
  <2>2. \/ Return(p, "error")
        \/ Matches(p) /\ \E again \in BOOLEAN : AimAt(p, again)
        \/ Matches(p) /\ status = "succeeded" /\ Return(p, answer)
    BY <1>3 DEF GetExisting, GetLatest, Resolve
  <2>3. CASE Return(p, "error")
    BY <1>r, <2>1, <2>3
  <2>4. CASE Matches(p) /\ \E again \in BOOLEAN : AimAt(p, again)
    BY <1>a, <2>1, <2>4
  <2>5. CASE Matches(p) /\ status = "succeeded" /\ Return(p, answer)
    BY <1>r, <2>1, <2>5 DEF Matches
  <2> QED
    BY <2>2, <2>3, <2>4, <2>5
<1>5. ASSUME NEW p \in Procs, TryReclaim(p) PROVE AnswersParts'
  <2>1. UNCHANGED <<payload, done, id, fingerprint>> /\ pc[p] = "reclaim"
    BY <1>5 DEF TryReclaim, Reclaim
  <2>2. AnswerStored'
    BY <1>5, <2>1 DEF TryReclaim, Reclaim
  <2>3. CASE Goto(p, "execute") /\ local' = [local EXCEPT ![p].rec = local[p].rec] /\ UNCHANGED reply
    BY <1>t, <1>0, <2>1, <2>2, <2>3 DEF Goto, Locals
  <2>4. CASE Return(p, "error")
    BY <1>r, <2>1, <2>2, <2>4
  <2>5. CASE Goto(p, "get_latest") /\ UNCHANGED <<local, reply>>
    BY <1>t, <1>0, <2>1, <2>2, <2>5 DEF Goto, OwnerCalls
  <2> QED
    BY <1>5, <2>3, <2>4, <2>5 DEF TryReclaim, Claim
<1>6. ASSUME NEW p \in Procs, execute(p) PROVE AnswersParts'
  BY <1>t, <1>0, <1>6 DEF execute, Goto, OwnerCalls
<1>7. ASSUME NEW p \in Procs, RecordSuccess(p) PROVE AnswersParts'
  BY <1>t, <1>r, <1>7 DEF RecordSuccess, MarkSucceeded, Exists, OwnerCalls
<1>8. ASSUME NEW p \in Procs, RecordFailure(p) \/ Crash(p) PROVE AnswersParts'
  BY <1>t, <1>r, <1>8 DEF RecordFailure, MarkFailedRetryable, Crash
<1>9. CASE cleanupOnce \/ Tick \/ UNCHANGED vars
  BY <1>9 DEF cleanupOnce, DeleteExpired, Tick, vars
<1> QED
  BY <1>1, <1>2, <1>3, <1>5, <1>6, <1>7, <1>8, <1>9 DEF Next, Step

-------------------------------------------------------------------------------
(* Owners.                                                                  *)

\* A request that reads or claims read the clock less than ProcessingTimeout ago.
InTime(p) == pc[p] \in StoreCalls => local[p].start <= now /\ now < Lock(p)

\* Every step keeps requests in time.
LEMMA InTimeStep ==
  ASSUME TypeOK, \A p \in Procs : InTime(p), [Next]_vars
  PROVE  \A p \in Procs : InTime(p)'
<1>t. /\ now \in Nat /\ pc \in [Procs -> {"idle"} \cup StoreCalls \cup OwnerCalls]
      /\ local \in [Procs -> Locals]
  BY DEF TypeOK, StoreTypeOK
<1>0. ASSUME NEW p \in Procs, UNCHANGED now, NEW call, Goto(p, call),
             call \in StoreCalls => pc[p] \in StoreCalls /\ local'[p].start = local[p].start,
             \A q \in Procs \ {p} : local'[q] = local[q]
      PROVE  \A q \in Procs : InTime(q)'
  BY <1>t, <1>0 DEF InTime, Lock, Goto
<1>r. ASSUME NEW p \in Procs, UNCHANGED now, NEW r, Return(p, r)
      PROVE  \A q \in Procs : InTime(q)'
  BY <1>t, <1>0, <1>r DEF Return, StoreCalls
<1>a. ASSUME NEW p \in Procs, UNCHANGED now, NEW again, AimAt(p, again), pc[p] \in StoreCalls
      PROVE  \A q \in Procs : InTime(q)'
  <2>1. local'[p].start = local[p].start /\ \A q \in Procs \ {p} : local'[q] = local[q]
    BY <1>t, <1>a DEF AimAt, Locals
  <2> QED
    BY <1>0, <1>a, <2>1 DEF AimAt
<1>c. ASSUME NEW p \in Procs, UNCHANGED now, NEW row, Claim(p, row)
      PROVE  \A q \in Procs : InTime(q)'
  <2>1. CASE Goto(p, "execute") /\ local' = [local EXCEPT ![p].rec = row]
    BY <1>t, <1>0, <1>c, <2>1 DEF StoreCalls
  <2> QED
    BY <1>r, <1>c, <2>1 DEF Claim
<1>1. ASSUME NEW p \in Procs, NEW print \in Prints, Request(p, print)
      PROVE  \A q \in Procs : InTime(q)'
  <2>1. \A q \in Procs \ {p} : InTime(q)'
    BY <1>t, <1>1 DEF Request, Goto, InTime, Lock
  <2>2. local'[p].start = now /\ now' = now
    BY <1>t, <1>1 DEF Request, Locals
  <2> QED
    BY <1>t, <2>1, <2>2, TimesAssumption DEF InTime, Lock
<1>2. ASSUME NEW p \in Procs, CreateProcessing(p) PROVE \A q \in Procs : InTime(q)'
  BY <1>0, <1>r, <1>c, <1>2 DEF CreateProcessing, StoreCalls
<1>3. ASSUME NEW p \in Procs, GetExisting(p) \/ GetLatest(p) PROVE \A q \in Procs : InTime(q)'
  BY <1>r, <1>a, <1>3 DEF GetExisting, GetLatest, Resolve, StoreCalls
<1>4. ASSUME NEW p \in Procs, TryReclaim(p) PROVE \A q \in Procs : InTime(q)'
  BY <1>0, <1>r, <1>c, <1>4 DEF TryReclaim, StoreCalls
<1>5. ASSUME NEW p \in Procs, execute(p) PROVE \A q \in Procs : InTime(q)'
  BY <1>0, <1>5 DEF execute, StoreCalls
<1>6. ASSUME NEW p \in Procs, RecordSuccess(p) \/ RecordFailure(p) \/ Crash(p)
      PROVE  \A q \in Procs : InTime(q)'
  BY <1>r, <1>6 DEF RecordSuccess, RecordFailure, Crash
<1>7. CASE Tick
  <2>1. \A p \in Procs : local[p].start \in Nat
    BY <1>t DEF Locals
  <2> QED
    BY <1>t, <1>7, <2>1 DEF Tick, InTime, Lock
<1>8. CASE cleanupOnce \/ UNCHANGED vars
  BY <1>8 DEF cleanupOnce, vars, InTime, Lock
<1> QED
  BY <1>1, <1>2, <1>3, <1>4, <1>5, <1>6, <1>7, <1>8 DEF Next, Step

\* Every owner holds the row, alone.
Held == (\A p \in Owners : HoldsRow(p)) /\ \A p, q \in Owners : p = q

\* The row is not locked, and not about to be, by anyone.
LEMMA NoOwner == ASSUME Owners = {} PROVE Held
BY DEF Held

\* A request that moves on without touching the row, and does not become its owner,
\* leaves the owner alone unless it aims at a row that has one.
LEMMA HeldFrame ==
  ASSUME TypeOK, Held, NEW p \in Procs, NEW call, Goto(p, call), UNCHANGED <<now, rowVars>>,
         \A q \in Procs \ {p} : local'[q] = local[q],
         call \in OwnerCalls => pc[p] \in OwnerCalls /\ local'[p] = local[p],
         call = "reclaim" => \/ local'[p].from # "processing" \/ expiresAt <= now
  PROVE  Held'
<1>t. pc \in [Procs -> {"idle"} \cup StoreCalls \cup OwnerCalls] /\ expiresAt \in Nat /\ now \in Nat
  BY DEF TypeOK, StoreTypeOK
<1>1. Owners' \subseteq Owners /\ \A q \in Owners' : local'[q] = local[q]
  BY <1>t DEF Owners, Goto
<1>2. ASSUME NEW q \in Owners' PROVE HoldsRow(q)'
  <2>1. HoldsRow(q) /\ local'[q] = local[q] /\ q \in Owners
    BY <1>1 DEF Held
  <2>2. ~(expiresAt <= now)
    BY <1>t, <2>1 DEF HoldsRow
  <2>3. \A r \in Procs : pc'[r] = "reclaim" /\ local'[r].rec = id /\ local'[r].from = "processing"
                           => local'[r].start < lockedUntil
    BY <1>t, <2>1, <2>2 DEF HoldsRow, Goto
  <2> QED
    BY <2>1, <2>3 DEF HoldsRow, Deadline
<1> QED
  BY <1>1, <1>2 DEF Held

\* A request that claims a row without an owner holds it, if it is in time.
LEMMA HeldTaken ==
  ASSUME TypeOK, NEW p \in Procs, Owners = {}, \A q \in Procs : InTime(q), pc[p] \in StoreCalls,
         Goto(p, "execute"), local' = [local EXCEPT ![p].rec = id'],
         UNCHANGED now, status' = "processing",
         lockedUntil' = Lock(p), expiresAt' = Deadline(p)
  PROVE  Held'
<1>t. /\ pc \in [Procs -> {"idle"} \cup StoreCalls \cup OwnerCalls] /\ now \in Nat
      /\ local \in [Procs -> Locals] /\ \A q \in Procs : local[q].start \in Nat
  BY DEF TypeOK, StoreTypeOK, Locals
<1>1. Owners' = {p}
  BY <1>t DEF Owners, Goto, OwnerCalls
<1>2. local'[p].rec = id' /\ local'[p].start = local[p].start
  BY <1>t DEF Locals
<1>3. Deadline(p)' = Deadline(p)
  BY <1>2 DEF Deadline
<1>4. Lock(p) <= Deadline(p) /\ now < Lock(p) /\ Lock(p) \in Nat /\ Deadline(p) \in Nat
  BY <1>t, TimesAssumption DEF InTime, Lock, Deadline
<1>5. \A q \in Procs : pc'[q] = "reclaim" => local'[q].start < lockedUntil'
  <2> SUFFICES ASSUME NEW q \in Procs, pc'[q] = "reclaim" PROVE local'[q].start < lockedUntil'
    OBVIOUS
  <2>1. q # p /\ pc[q] = "reclaim" /\ local'[q] = local[q]
    BY <1>t DEF Goto
  <2>2. local[q].start <= now
    BY <2>1 DEF InTime, StoreCalls
  <2> QED
    BY <1>t, <1>4, <2>1, <2>2
<1>6. HoldsRow(p)'
  BY <1>t, <1>2, <1>3, <1>4, <1>5 DEF HoldsRow
<1> QED
  BY <1>1, <1>6 DEF Held

\* Who holds the row keeps everybody from claiming it.
LEMMA Claimable ==
  ASSUME Held, NEW p \in Procs, TypeOK
  PROVE  /\ pc[p] = "reclaim" /\ Reclaimable(local[p].rec, local[p].from, local[p].start)
              => Owners = {}
         /\ status # "processing" => Owners = {}
         /\ expiresAt <= now => Owners = {}
BY DEF Held, HoldsRow, Reclaimable, TypeOK, StoreTypeOK, Locals

\* Every step keeps the row with its owner, until an owner outlives its record.
LEMMA HeldStep ==
  ASSUME TypeOK, AnswersParts, \A p \in Procs : InTime(p), Held, [Next]_vars, ~outlived'
  PROVE  Held'
<1>t. /\ now \in Nat /\ id \in Nat /\ expiresAt \in Nat /\ local \in [Procs -> Locals]
      /\ pc \in [Procs -> {"idle"} \cup StoreCalls \cup OwnerCalls]
      /\ \A p \in Procs : local[p].start \in Nat /\ local[p].rec \in Nat
  BY DEF TypeOK, StoreTypeOK, Locals
<1>r. ASSUME NEW p \in Procs, NEW r, Return(p, r), UNCHANGED <<now, rowVars>> PROVE Held'
  BY <1>t, <1>r, HeldFrame DEF Return, OwnerCalls
\* Without an owner, a request that returns leaves none.
<1>n. ASSUME NEW p \in Procs, NEW r, Return(p, r), Owners \subseteq {p} PROVE Held'
  <2>1. Owners' = {}
    BY <1>t, <1>n DEF Owners, Return, Goto, OwnerCalls
  <2> QED
    BY <2>1 DEF Held
<1>a. ASSUME NEW p \in Procs, NEW again, AimAt(p, again), UNCHANGED <<now, rowVars>>,
             status = "failed_retryable" \/ expiresAt <= now
      PROVE  Held'
  <2>1. local'[p].from = status /\ \A q \in Procs \ {p} : local'[q] = local[q]
    BY <1>t, <1>a DEF AimAt, Locals
  <2> QED
    BY <1>a, <2>1, HeldFrame DEF AimAt, OwnerCalls
<1>1. ASSUME NEW p \in Procs, NEW print \in Prints, Request(p, print) PROVE Held'
  <2>1. \A q \in Procs \ {p} : local'[q] = local[q]
    BY <1>t, <1>1 DEF Request
  <2> QED
    BY <1>1, <2>1, HeldFrame DEF Request, OwnerCalls
<1>2. ASSUME NEW p \in Procs, CreateProcessing(p) PROVE Held'
  <2>1. CASE Insert(payload[p], Lock(p), Deadline(p)) /\ Claim(p, id')
    <3>1. Owners = {} /\ UNCHANGED now /\ pc[p] \in StoreCalls
      BY <1>2, <2>1, Claimable DEF Insert, CreateProcessing, StoreCalls
    <3>2. CASE Return(p, "error")
      BY <1>n, <3>1, <3>2
    <3>3. CASE Goto(p, "execute") /\ local' = [local EXCEPT ![p].rec = id']
      BY <2>1, <3>1, <3>3, HeldTaken DEF Insert
    <3> QED
      BY <2>1, <3>2, <3>3 DEF Claim
  <2>2. CASE Goto(p, "get") /\ UNCHANGED <<now, rowVars, local>>
    BY <2>2, HeldFrame DEF OwnerCalls
  <2>3. CASE Return(p, "error") /\ UNCHANGED <<now, rowVars>>
    BY <1>r, <2>3
  <2> QED
    BY <1>2, <2>1, <2>2, <2>3 DEF CreateProcessing
<1>3. ASSUME NEW p \in Procs, GetExisting(p) \/ GetLatest(p) PROVE Held'
  <2>1. \/ \E r : Return(p, r)
        \/ \E again : AimAt(p, again) /\ (status = "failed_retryable" \/ expiresAt <= now)
    <3>1. local[p].start <= now
      BY <1>3 DEF GetExisting, GetLatest, InTime, StoreCalls
    <3>2. expiresAt <= local[p].start => expiresAt <= now
      BY <1>t, <3>1
    <3> QED
      BY <1>3, <3>2 DEF GetExisting, GetLatest, Resolve, OpenToRetry
  <2> QED
    BY <1>r, <1>a, <1>3, <2>1 DEF GetExisting, GetLatest
<1>4. ASSUME NEW p \in Procs, TryReclaim(p) PROVE Held'
  <2>1. CASE /\ Reclaimable(local[p].rec, local[p].from, local[p].start)
             /\ Reclaim(Lock(p), Deadline(p)) /\ Claim(p, local[p].rec)
    <3>1. Owners = {} /\ UNCHANGED now /\ pc[p] \in StoreCalls
      BY <1>4, <2>1, Claimable DEF TryReclaim, StoreCalls
    <3>2. CASE Return(p, "error")
      BY <1>n, <3>1, <3>2
    <3>3. CASE Goto(p, "execute") /\ local' = [local EXCEPT ![p].rec = local[p].rec]
      <4>1. id' = local[p].rec
        BY <2>1 DEF Reclaimable, Reclaim
      <4> QED
        BY <2>1, <3>1, <3>3, <4>1, HeldTaken DEF Reclaim
    <3> QED
      BY <2>1, <3>2, <3>3 DEF Claim
  <2>2. CASE Goto(p, "get_latest") /\ UNCHANGED <<now, rowVars, local>>
    BY <2>2, HeldFrame DEF OwnerCalls
  <2>3. CASE Return(p, "error") /\ UNCHANGED <<now, rowVars>>
    BY <1>r, <2>3
  <2> QED
    BY <1>4, <2>1, <2>2, <2>3 DEF TryReclaim
<1>5. ASSUME NEW p \in Procs, execute(p) PROVE Held'
  BY <1>5, HeldFrame DEF execute, OwnerCalls
<1>6. ASSUME NEW p \in Procs, RecordSuccess(p) \/ RecordFailure(p) PROVE Held'
  <2>1. p \in Owners
    BY <1>6 DEF RecordSuccess, RecordFailure, Owners, OwnerCalls
  <2>2. Owners \subseteq {p}
    BY <2>1 DEF Held
  <2> QED
    BY <1>n, <1>6, <2>2 DEF RecordSuccess, RecordFailure
<1>7. ASSUME NEW p \in Procs, Crash(p) PROVE Held'
  BY <1>r, <1>7 DEF Crash
<1>8. CASE cleanupOnce
  <2>1. Owners' = Owners /\ expiresAt <= now
    BY <1>8 DEF cleanupOnce, DeleteExpired, Owners
  <2>2. Owners = {}
    BY <1>t, <2>1 DEF Held, HoldsRow
  <2> QED
    BY <2>1, <2>2 DEF Held
<1>9. CASE Tick
  <2>1. Owners' = Owners /\ \A p \in Owners : ~(now' >= Deadline(p))
    BY <1>9 DEF Tick, Owners
  <2>2. ASSUME NEW p \in Owners PROVE HoldsRow(p)'
    <3>1. HoldsRow(p) /\ Deadline(p) \in Nat /\ now' \in Nat
      BY <1>t, <1>9, TimesTyped DEF Held, Owners, Tick
    <3> QED
      BY <1>9, <2>1, <3>1 DEF HoldsRow, Tick, Deadline
  <2> QED
    BY <2>1, <2>2 DEF Held
<1>10. CASE UNCHANGED vars
  BY <1>10 DEF vars, Held, HoldsRow, Owners, Deadline
<1> QED
  BY <1>1, <1>2, <1>3, <1>4, <1>5, <1>6, <1>7, <1>8, <1>9, <1>10 DEF Next, Step

-------------------------------------------------------------------------------
(* The theorems.                                                            *)

\* The two parts of ClaimsInv.
LEMMA ClaimsSplit == ClaimsInv <=> ClaimsBound /\ RetriesFailures
BY DEF ClaimsInv, ClaimsBound, Kept, RetriesFailures

\* Before the first request nothing was claimed, executed or answered.
LEMMA InvInit == Init => IdemInv
<1> SUFFICES ASSUME Init PROVE IdemInv
  OBVIOUS
<1>1. Granted = {}
  BY DEF Init, Granted
<1>2. ClaimsInv
  BY <1>1, FS_EmptySet DEF Init, StoreInit, ClaimsInv
<1>3. AnswersInv /\ AnswersMatch
  BY DEF Init, StoreInit, AnswersInv, AnswersMatch, OwnerCalls
<1>4. OwnerInv
  BY DEF Init, OwnerInv, OneOwner, Owners, StoreCalls, OwnerCalls
<1> QED
  BY <1>2, <1>3, <1>4, TypeInit DEF IdemInv

\* Types, claims and answers of IdempotencyCoordinator.Execute are kept by every
\* step of every request, of the cleanup and of the clock.
THEOREM Invariant == Spec => []IdemInv
<1>1. IdemInv /\ [Next]_vars => IdemInv'
  <2> SUFFICES ASSUME IdemInv, [Next]_vars PROVE IdemInv'
    OBVIOUS
  <2>1. TypeOK /\ TypeOK'
    BY TypeStep DEF IdemInv
  <2>2. ClaimsInv'
    BY <2>1, RetriesStep, ClaimsStep, ClaimsSplit DEF IdemInv, ClaimsInv, ClaimsBound, Kept, RetriesFailures
  <2>3. (AnswersInv /\ AnswersMatch)'
    <3>1. AnswersParts'
      BY <2>1, AnswersStep, AnswersSplit DEF IdemInv
    <3> QED
      BY <3>1 DEF AnswersInv, AnswersMatch, AnswersParts, AnswerStored, OwnsItsRow, HasExecuted,
                  ToldTheTruth
  <2>4. OwnerInv'
    <3>1. AnswersParts /\ \A p \in Procs : InTime(p)
      BY AnswersSplit DEF IdemInv, OwnerInv, InTime
    <3>2. \A p \in Procs : InTime(p)'
      BY <2>1, <3>1, InTimeStep
    <3>3. outlived => outlived'
      BY DEF Next, Step, Request, CreateProcessing, GetExisting, GetLatest, TryReclaim, execute,
             RecordSuccess, RecordFailure, Crash, cleanupOnce, Tick, vars
    <3>4. ~outlived' => Held'
      <4>1. ~outlived => Held
        BY DEF IdemInv, OwnerInv, OneOwner, Held
      <4> QED
        BY <2>1, <3>1, <3>3, <4>1, HeldStep
    <3>5. outlived' \/ ((\A p \in Owners : HoldsRow(p)) /\ OneOwner)'
      BY <3>4 DEF Held, OneOwner
    <3>6. (\A p \in Procs : pc[p] \in StoreCalls => local[p].start <= now /\ now < Lock(p))'
      BY <3>2 DEF InTime
    <3> QED
      BY <3>5, <3>6 DEF OwnerInv
  <2> QED
    BY <2>1, <2>2, <2>3, <2>4 DEF IdemInv
<1> QED
  BY <1>1, InvInit, PTL DEF Spec

\* The operation takes effect at most once per claim of a new or expired key, even
\* if owners outlive their record, marks get lost and retries race.
THEOREM OneEffectPerClaim == Spec => []EffectsBounded
<1>1. IdemInv => EffectsBounded
  BY GrantedFinite DEF IdemInv, TypeOK, ClaimsInv, EffectsBounded
<1> QED
  BY <1>1, Invariant, PTL

\* No request is ever answered with the result of another payload, or with a
\* success that did not happen.
THEOREM AnswersAreTrue == Spec => []AnswersMatch
<1>1. IdemInv => AnswersMatch
  BY DEF IdemInv
<1> QED
  BY <1>1, Invariant, PTL

\* Requests with the same key never run the operation at the same time, as long as
\* no operation outlasts its record, whatever fails and whoever retries.
THEOREM OwnersExclude == Spec => []OneOwner
<1>1. IdemInv => OneOwner
  BY DEF IdemInv, OwnerInv, OneOwner
<1> QED
  BY <1>1, Invariant, PTL

\* When every operation ends before its record expires, the executions with one key
\* exclude each other without exception.
THEOREM OwnersAlwaysExclude ==
  ASSUME ~Fails("slow")
  PROVE  Spec => [](\A p, q \in Owners : p = q)
<1>1. Init => ~outlived
  BY DEF Init
<1>2. TypeOK /\ ~outlived /\ [Next]_vars => ~outlived'
  <2> SUFFICES ASSUME TypeOK, ~outlived, [Next]_vars PROVE ~outlived'
    OBVIOUS
  <2>1. CASE Tick
    BY <2>1 DEF Tick
  <2>2. CASE ~Tick
    BY <2>2 DEF Next, Step, Request, CreateProcessing, GetExisting, GetLatest, TryReclaim,
                execute, RecordSuccess, RecordFailure, Crash, cleanupOnce, ghostVars, vars
  <2> QED
    BY <2>1, <2>2
<1>3. IdemInv => TypeOK
  BY DEF IdemInv
<1>4. OneOwner /\ ~outlived => \A p, q \in Owners : p = q
  BY DEF OneOwner
<1> QED
  BY <1>1, <1>2, <1>3, <1>4, Invariant, OwnersExclude, PTL DEF Spec
===============================================================================
