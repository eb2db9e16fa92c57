------------------------------ MODULE MCAccounts ------------------------------
(* Instances of Accounts for TLC.                                            *)
EXTENDS Accounts, TLC

CONSTANTS alice, bob

\* The bootstrap admin, and one users.json entry.
MCSeeds == << [username |-> alice, role |-> "admin"], [username |-> bob, role |-> "admin"] >>
Symmetry == Permutations(Token) \cup Permutations(Request)
===============================================================================
