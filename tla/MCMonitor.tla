------------------------------- MODULE MCMonitor ------------------------------
(* Instances of Monitor for TLC.                                             *)
EXTENDS Monitor, TLC

Symmetry == Permutations(Reconnector)
===============================================================================
