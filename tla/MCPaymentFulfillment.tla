------------------------- MODULE MCPaymentFulfillment -------------------------
(* Instances of PaymentFulfillment for TLC. *)
EXTENDS PaymentFulfillment, TLC

\* Handlers are interchangeable, and no property compares them by name.
ProcSymmetry == Permutations(Procs)
===============================================================================
