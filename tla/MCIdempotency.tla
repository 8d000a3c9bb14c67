---------------------------- MODULE MCIdempotency -----------------------------
(* Instances of Idempotency for TLC: requests are interchangeable.           *)
EXTENDS Idempotency, TLC

Symmetry == Permutations(Procs)
===============================================================================
