------------------------------- MODULE ChainOps -------------------------------
(***************************************************************************)
(* The hash chain of verdict-engine/audit_log.py as data: what an entry    *)
(* is, which hash the next entry links to, and what verify_chain_detail    *)
(* reports.  SHA-256 over the JSON of an entry is the constant operator    *)
(* Hash(payload, prev_log_hash); the proofs use only that it yields a      *)
(* digest and, where a lemma says so, that two inputs do not collide.      *)
(*                                                                         *)
(* A row holds the hash it links to twice: inside the JSON of its data     *)
(* column, which is what is hashed and verified, and in a column of its    *)
(* own, which append writes and nothing ever reads.                        *)
(***************************************************************************)
EXTENDS Naturals, Sequences

CONSTANTS
  Payload,      \* what callers record: verdicts, actions, hash decisions
  Digest,       \* the values a hash can take
  Hash(_, _),   \* hash of an entry: its payload and its prev_log_hash
  GenesisHash   \* prev_log_hash of the first entry

ASSUME HashAssumption ==
  /\ GenesisHash \in Digest
  /\ \A p \in Payload, d \in Digest : Hash(p, d) \in Digest

Data == [payload : Payload, prev_log_hash : Digest]

Entry == [data : Data, prev_log_hash : Digest, entry_hash : Digest]

\* The row append() inserts for payload p on top of hash d.
MakeEntry(p, d) ==
  [data          |-> [payload |-> p, prev_log_hash |-> d],
   prev_log_hash |-> d,
   entry_hash    |-> Hash(p, d)]

\* _last_hash: the newest entry's hash, or GENESIS_HASH for an empty log.
LastHash(c) == IF c = << >> THEN GenesisHash ELSE c[Len(c)].entry_hash

\* The hash verify_chain_detail carries into entry i.
CarriedHash(c, i) == IF i = 1 THEN GenesisHash ELSE c[i - 1].entry_hash

\* What verify_chain_detail recomputes: the hash over the data column.
Rehash(x) == Hash(x.payload, x.prev_log_hash)

\* Mutants: the stored hash is never recomputed; the link is never compared.
EntryOk_NoRehash(c, i) == c[i].data.prev_log_hash = CarriedHash(c, i)
EntryOk_NoLink(c, i) == c[i].entry_hash = Rehash(c[i].data)

\* Neither of verify_chain_detail's two early returns fires at entry i; both
\* look at the columns data and entry_hash only.
EntryOk(c, i) ==
  /\ c[i].data.prev_log_hash = CarriedHash(c, i)
  /\ c[i].entry_hash = Rehash(c[i].data)

Intact(c) == \A i \in 1..Len(c) : EntryOk(c, i)

\* The "broken_at" of the answer: 0 stands for None (intact), otherwise the
\* 1-indexed first entry that fails.
BrokenAt(c) ==
  IF Intact(c)
  THEN 0
  ELSE CHOOSE i \in 1..Len(c) :
         ~EntryOk(c, i) /\ \A j \in 1..(i - 1) : EntryOk(c, j)
===============================================================================
