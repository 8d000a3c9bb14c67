--------------------------- MODULE IdempotencyStore ---------------------------
(***************************************************************************)
(* The idempotency_records row of one (scope, key hash), with the          *)
(* statements of repository/idempotency_repo.go that read and change it.   *)
(* Each statement is atomic; its times are the ones its caller computed.   *)
(* Clients of the store: Idempotency and SystemOperationLock.              *)
(***************************************************************************)
EXTENDS Naturals

CONSTANTS
  Prints,             \* request fingerprints
  ProcessingTimeout,  \* IdempotencyConfig.ProcessingTimeout
  TTL,                \* DefaultTTL, SystemOperationTTL or the caller's own
  MaxTime,            \* bound on the clock
  MaxRows             \* bound on the rows the key ever has

ASSUME TimesAssumption ==
  /\ ProcessingTimeout \in Nat \ {0}
  /\ TTL \in Nat /\ MaxTime \in Nat
  /\ ProcessingTimeout <= TTL

VARIABLES
  now,          \* the clock
  id,           \* the last id the sequence gave to a row of this key
  status,       \* the row's status; "absent" without a row
  fingerprint,  \* request_fingerprint
  answer,       \* response_body: the fingerprint whose execution produced it
  lockedUntil,  \* locked_until; NULL is 0, a time that is never in the future
  expiresAt     \* expires_at

rowVars == <<id, status, fingerprint, answer, lockedUntil, expiresAt>>

Statuses == {"processing", "succeeded", "failed_retryable"}

StoreTypeOK ==
  /\ now \in Nat
  /\ id \in Nat
  /\ status \in Statuses \cup {"absent"}
  /\ fingerprint \in Prints
  /\ answer \in Prints
  /\ lockedUntil \in Nat
  /\ expiresAt \in Nat

StoreInit ==
  /\ now = 0 /\ id = 0 /\ status = "absent"
  /\ fingerprint \in Prints /\ answer = fingerprint
  /\ lockedUntil = 0 /\ expiresAt = 0

\* INSERT ... ON CONFLICT DO NOTHING, when there is no row.
Insert(print, locked, expires) ==
  /\ status = "absent"
  /\ id' = id + 1
  /\ status' = "processing"
  /\ fingerprint' = print
  /\ lockedUntil' = locked
  /\ expiresAt' = expires
  /\ UNCHANGED answer

\* Mutant: the update does not look at the status its caller read.
ReclaimableInAnyStatus(rec, from, at) ==
  status # "absent" /\ id = rec /\ lockedUntil <= at

\* The WHERE clause of TryReclaim; neither the fingerprint nor the expiry is in it.
Reclaimable(rec, from, at) == id = rec /\ status = from /\ lockedUntil <= at

\* Mutant: the row is not locked again.
ReclaimUnlocked(locked, expires) ==
  /\ status' = "processing"
  /\ expiresAt' = expires
  /\ UNCHANGED <<id, fingerprint, answer, lockedUntil>>

\* TryReclaim's SET clause: the fingerprint stays that of the row's first owner.
Reclaim(locked, expires) ==
  /\ status' = "processing"
  /\ lockedUntil' = locked
  /\ expiresAt' = expires
  /\ UNCHANGED <<id, fingerprint, answer>>

Extendable(rec, print) == id = rec /\ status = "processing" /\ fingerprint = print

\* Mutant: the renewal is lost.
ExtendNothing(locked, expires) == UNCHANGED rowVars

Extend(locked, expires) ==
  /\ lockedUntil' = locked
  /\ expiresAt' = expires
  /\ UNCHANGED <<id, status, fingerprint, answer>>

Exists(rec) == status # "absent" /\ id = rec

\* The two marks find their row by its id alone, in whatever status it is.
MarkSucceeded(rec, print, expires) ==
  IF Exists(rec)
  THEN /\ status' = "succeeded"
       /\ answer' = print
       /\ lockedUntil' = 0
       /\ expiresAt' = expires
       /\ UNCHANGED <<id, fingerprint>>
  ELSE UNCHANGED rowVars

\* Mutant: the update stores a status that no reader knows.
MarkFailed(rec, locked, expires) ==
  IF Exists(rec)
  THEN /\ status' = "failed"
       /\ lockedUntil' = locked
       /\ expiresAt' = expires
       /\ UNCHANGED <<id, fingerprint, answer>>
  ELSE UNCHANGED rowVars

MarkFailedRetryable(rec, locked, expires) ==
  IF Exists(rec)
  THEN /\ status' = "failed_retryable"
       /\ lockedUntil' = locked
       /\ expiresAt' = expires
       /\ UNCHANGED <<id, fingerprint, answer>>
  ELSE UNCHANGED rowVars

\* One round of the cleanup service.
DeleteExpired ==
  /\ status # "absent"
  /\ expiresAt <= now
  /\ id < MaxRows
  /\ status' = "absent"
  /\ UNCHANGED <<id, fingerprint, answer, lockedUntil, expiresAt>>
===============================================================================
