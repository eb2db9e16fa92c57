------------------------------- MODULE MCTables -------------------------------
(* Instances of Tables for TLC.  The corpus behaves as the hashes do without *)
(* runs that propose.                                                        *)
EXTENDS Tables

MCKind == {"hashes", "quarantine", "users"}
MCKeys == [t \in MCKind |-> IF t = "users" THEN {"ann", "bob"} ELSE {"row"}]
MCVersions == [t \in MCKind |-> IF t = "users" THEN 2 ELSE 3]
MCCalls == [t \in MCKind |-> IF t = "quarantine" THEN 2 ELSE 1]
MCVisits == {<< "audit" >>, << "review", "audit", "review" >>}
===============================================================================
