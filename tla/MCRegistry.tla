----------------------------- MODULE MCRegistry -----------------------------
(* Instances of Registry for TLC: ports as two workers with two attempts try *)
(* them; the first candidate of one, or all of one, may be taken.            *)
EXTENDS Registry

SomePorts == {{}, {1}, {2, 3}, {1, 3}}
=============================================================================
