----------------------------- MODULE MCMapPhase -----------------------------
(* An instance of MapPhase for TLC. *)
EXTENDS MapPhase

\* A retried registration: the last two entries are the same worker's.
TwiceRegistered == [w \in Entry |-> IF w = NWorkers THEN NWorkers - 1 ELSE w]
=============================================================================
