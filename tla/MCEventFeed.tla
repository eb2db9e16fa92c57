----------------------------- MODULE MCEventFeed ------------------------------
(* Instances of EventFeed for TLC.                                           *)
EXTENDS EventFeed

\* a program that writes first and connects then, so that a chip hides either half
MCTypeOf == [e \in 1..MaxMessages |-> IF e <= 4 THEN "file_write" ELSE "network_connect"]
===============================================================================
