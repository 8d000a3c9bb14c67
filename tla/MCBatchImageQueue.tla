--------------------------- MODULE MCBatchImageQueue --------------------------
(* Instances of BatchImageQueue for TLC.  No symmetry: a liveness property is   *)
(* checked.                                                                     *)
EXTENDS BatchImageQueue, TLC
===============================================================================
