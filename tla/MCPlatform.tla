---------------------------- MODULE MCPlatform ------------------------------
(***************************************************************************)
(* Values for the constants of Platform.                                   *)
(***************************************************************************)
EXTENDS Platform

CONSTANTS o1, ip1, r1, r2

MCQuantities == {"1", "4Gi"}
MCTemplates == {[image |-> "i1", cpu |-> "1", memory |-> "4Gi", rest |-> "e1"]}
MCCanon == [q \in MCQuantities |-> q]
=============================================================================
