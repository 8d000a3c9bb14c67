--------------------------- MODULE MCBatchImageJobs ---------------------------
(* Instances of BatchImageJobs for TLC.  Jobs are interchangeable, and so are  *)
(* workers.                                                                    *)
EXTENDS BatchImageJobs, TLC

Symmetry == Permutations(Jobs) \cup Permutations(Workers)
===============================================================================
