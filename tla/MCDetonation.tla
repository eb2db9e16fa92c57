----------------------------- MODULE MCDetonation -----------------------------
(* Instances of Detonation for TLC: a sample that does no harm, one that    *)
(* does after a harmless start and outlasts the sensor in the first run,    *)
(* and the empty rest of a failed write.                                    *)
EXTENDS Detonation, TLC

CONSTANTS good, bad

Shown(type) == [type |-> type, notable |-> TRUE]
Plain(type) == [type |-> type, notable |-> FALSE]

MCTrace ==
  good :> << Plain("file_write") >>
  @@ bad :> << Plain("file_write"), Shown("process_spawn"), Shown("file_write"), Shown("network_connect") >>
  @@ Partial :> << >>
MCSlow == { << 1, bad >> }
MCAlike == good :> {} @@ bad :> {bad}
MCSubmitted == { << good, "interceptor" >>, << bad, "sample" >>, << bad, "interceptor" >> }
MCProposed == { << "corpus", bad >> }
===============================================================================
