------------------------------- MODULE MCFlow -------------------------------
(* An instance of Flow for TLC: two flows with parameters and one without. *)
EXTENDS Flow

CONSTANTS a, b, c

ThreeFlows == {a, b, c}
TwoWithParams == {a, b}
SomeReducers == [f \in ThreeFlows |-> IF f = a THEN 2 ELSE 1]
=============================================================================
