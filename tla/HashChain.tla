------------------------------ MODULE HashChain -------------------------------
(***************************************************************************)
(* What the audit log promises its callers: one chain that only ever grows *)
(* at its end, each append a single indivisible step linking to the entry  *)
(* before it.  No locks, no transactions, no concurrent appenders.         *)
(***************************************************************************)
EXTENDS ChainOps

VARIABLE chain

Init == chain = << >>

AppendEntry(p) == chain' = Append(chain, MakeEntry(p, LastHash(chain)))

Next == \E p \in Payload : AppendEntry(p)

Spec == Init /\ [][Next]_chain
===============================================================================
