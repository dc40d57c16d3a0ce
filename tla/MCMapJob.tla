------------------------------ MODULE MCMapJob ------------------------------
(* Instances of MapJob for TLC. *)
EXTENDS MapJob

OwnUuid == [w \in Entry |-> w]
=============================================================================
