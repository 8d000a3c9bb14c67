---------------------------- MODULE MCPaymentRefund ----------------------------
(* Instances of PaymentRefund for TLC. *)
EXTENDS PaymentRefund, TLC

\* Handlers are interchangeable, and no property compares them by name.
ProcSymmetry == Permutations(Procs)
===============================================================================
