----------------------------- MODULE MCOperator -----------------------------
(***************************************************************************)
(* Values for the constants of Operator.                                   *)
(***************************************************************************)
EXTENDS Operator

CONSTANTS o1, o2, ip1, ip2

spec(image, cpu, rest) == [image |-> image, cpu |-> cpu, memory |-> "4Gi", rest |-> rest]

\* A spec, and the same with another image.
MCTemplates == {spec("i1", "1", "r1"), spec("i2", "1", "r1")}

\* A single spec: the only edits left are start and stop.
MCOne == {spec("i1", "1", "r1")}

\* A cpu the API server rewrites, as resources.rs:19 allows it to be written.
MCFractional == {spec("i1", "0.5", "r1")}

MCQuantities == {"1", "500m", "0.5", "4Gi"}
MCCanon == [q \in MCQuantities |-> IF q = "0.5" THEN "500m" ELSE q]
=============================================================================
