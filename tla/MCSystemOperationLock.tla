------------------------ MODULE MCSystemOperationLock -------------------------
(* Instances of SystemOperationLock for TLC: handlers are interchangeable.   *)
EXTENDS SystemOperationLock, TLC

Symmetry == Permutations(Procs)
===============================================================================
