------------------------------ MODULE MCAuditLog ------------------------------
(* Instance of AuditLog for TLC: a digest is the sequence of payloads it     *)
(* was computed from, so that the inputs of up to MCMaxLen appends never     *)
(* collide.                                                                  *)
EXTENDS AuditLog

MCMaxLen == 3
MCDigest == UNION {[1..n -> Payload] : n \in 0..MCMaxLen}
MCHash(p, d) == IF Len(d) < MCMaxLen THEN Append(d, p) ELSE d
MCGenesis == << >>
===============================================================================
