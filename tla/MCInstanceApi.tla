--------------------------- MODULE MCInstanceApi ----------------------------
(***************************************************************************)
(* Values for the constants of InstanceApi.                                *)
(***************************************************************************)
EXTENDS InstanceApi

CONSTANTS r1, r2, r3

AllOps == Lifecycle

MCQuantities == {"1", "4Gi"}
MCTemplates == {[image |-> "i1", cpu |-> "1", memory |-> "4Gi", rest |-> "e1"]}
MCCanon == [q \in MCQuantities |-> q]
=============================================================================
