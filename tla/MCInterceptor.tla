----------------------------- MODULE MCInterceptor ----------------------------
(* Instances of Interceptor for TLC.                                         *)
EXTENDS Interceptor, TLC

MCContent == (1..MaxWrites) \cup {Partial}
Symmetry == Permutations(Entry) \cup Permutations(Worker)
===============================================================================
