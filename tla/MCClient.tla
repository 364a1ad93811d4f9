------------------------------ MODULE MCClient -------------------------------
(***************************************************************************)
(* Values for the constants of Client.                                     *)
(***************************************************************************)
EXTENDS Client

CONSTANTS r1, r2

AllOps == Lifecycle \cup Reads

MCQuantities == {"1", "4Gi"}
MCTemplates == {[image |-> "i1", cpu |-> "1", memory |-> "4Gi", rest |-> "e1"]}
MCCanon == [q \in MCQuantities |-> q]
=============================================================================
