---------------------------- MODULE MCTokenRefresh ----------------------------
(* Instances of TokenRefresh for TLC.  No symmetry: loops and handlers live on  *)
(* instances of different shapes, and a liveness property is checked.           *)
EXTENDS TokenRefresh, TLC
===============================================================================
