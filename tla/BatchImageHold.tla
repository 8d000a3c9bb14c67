--------------------------- MODULE BatchImageHold ----------------------------
(***************************************************************************)
(* The money of batch image jobs: one user's balance and frozen balance,   *)
(* and the claims of usage_billing_dedup that make each of the three       *)
(* transactions (reserve, capture, release) of a job happen once.  Every   *)
(* transaction claims a request id of its own, so capture and release do   *)
(* not exclude each other: only the order in which BatchImageJobs calls    *)
(* them does.                                                              *)
(* Source: repository/usage_billing_repo.go,                               *)
(* service/batch_image_billing_hold.go.                                    *)
(***************************************************************************)
EXTENDS Integers, FiniteSets

CONSTANTS
  Jobs,            \* jobs of one user
  Hold,            \* the amount each job freezes
  Balances,        \* what the user may have before the first job
  Elsewhere,       \* what jobs of the user outside Jobs have frozen
  Faults           \* the kinds of failure, a subset of AllFaults

\* "db": a statement fails and changes nothing; "lost": a statement commits and
\* its answer is lost; "queue": Redis refuses a command; "provider": a call of the
\* image provider fails, or its output is unusable; "lock": a worker's job lock
\* expires under it; "crash": a handler or a worker dies.
AllFaults == {"db", "lost", "queue", "provider", "lock", "crash"}

ASSUME JobsAssumption    == IsFiniteSet(Jobs)
ASSUME HoldAssumption    == Hold \in Nat \ {0}
ASSUME BalanceAssumption == Balances \subseteq Nat /\ Elsewhere \in Nat
ASSUME FaultsAssumption  == Faults \subseteq AllFaults

VARIABLES
  balance,   \* users.balance
  frozen,    \* users.frozen_balance
  dedup,     \* usage_billing_dedup: per operation the jobs that claimed it
  returned   \* history: the jobs whose release moved money

moneyVars == <<balance, frozen, dedup, returned>>

Operations == {"hold", "capture", "release"}

Fails(kind) == kind \in Faults

\* What the caller of a statement sees: success, a committed statement whose
\* answer is lost, a refusal by the state found, or an error that changed nothing.
Answers == {"ok", "lost", "refused", "error"}

Committed(r) == r = "ok" \/ (r = "lost" /\ Fails("lost"))
Errs(r)      == r = "error" /\ Fails("db")

Held(j)     == j \in dedup["hold"]
Captured(j) == j \in dedup["capture"]
Released(j) == j \in dedup["release"]
Returned(j) == j \in returned

\* The release of j was claimed before its hold was, and moved nothing.
Burnt(j) == Released(j) /\ ~Returned(j)

\* The hold of j is still in frozen_balance on its account.
Outstanding(j) == Held(j) /\ ~Captured(j) /\ ~Returned(j)

HoldInit ==
  /\ balance \in Balances
  /\ frozen = Elsewhere
  /\ dedup = [op \in Operations |-> {}]
  /\ returned = {}

Claim(op, j) == dedup' = [dedup EXCEPT ![op] = @ \cup {j}]

\* Mutant: the balance is not compared with the hold.
ReserveUnchecked(j, r) ==
  /\ Committed(r)
  /\ ~Held(j)
  /\ Claim("hold", j)
  /\ balance' = balance - Hold
  /\ frozen' = frozen + Hold
  /\ UNCHANGED returned

ReserveBatchImageBalance(j, r) ==
  \/ /\ Committed(r)
     /\ ~Held(j)
     /\ balance >= Hold
     /\ Claim("hold", j)
     /\ balance' = balance - Hold
     /\ frozen' = frozen + Hold
     /\ UNCHANGED returned
  \/ /\ (r = "refused" /\ balance < Hold) \/ Errs(r)
     /\ UNCHANGED moneyVars

\* Mutant: the claim does not stop a second capture.
CaptureAgain(j, actual, r) ==
  /\ Committed(r)
  /\ frozen >= Hold
  /\ Claim("capture", j)
  /\ balance' = balance + (Hold - actual)
  /\ frozen' = frozen - Hold
  /\ UNCHANGED returned

\* The part of the hold that was not used goes back to the balance.
CaptureBatchImageBalance(j, actual, r) ==
  \/ /\ Committed(r)
     /\ ~Captured(j)
     /\ frozen >= Hold
     /\ Claim("capture", j)
     /\ balance' = balance + (Hold - actual)
     /\ frozen' = frozen - Hold
     /\ UNCHANGED returned
  \/ r = "ok" /\ Captured(j) /\ UNCHANGED moneyVars
  \/ /\ (r = "refused" /\ ~Captured(j) /\ frozen < Hold) \/ Errs(r)
     /\ UNCHANGED moneyVars

\* A job that never reserved its hold is released without moving money, and its
\* release is claimed all the same.
ReleaseBatchImageBalance(j, r) ==
  \/ /\ Committed(r)
     /\ ~Released(j)
     /\ Claim("release", j)
     /\ \/ /\ Held(j)
           /\ frozen >= Hold
           /\ balance' = balance + Hold
           /\ frozen' = frozen - Hold
           /\ returned' = returned \cup {j}
        \/ ~Held(j) /\ UNCHANGED <<balance, frozen, returned>>
  \/ r = "ok" /\ Released(j) /\ UNCHANGED moneyVars
  \/ /\ \/ r = "refused" /\ Held(j) /\ ~Released(j) /\ frozen < Hold
        \/ Errs(r)
     /\ UNCHANGED moneyVars
=============================================================================
