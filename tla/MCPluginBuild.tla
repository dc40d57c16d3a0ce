---------------------------- MODULE MCPluginBuild ----------------------------
(* An instance of PluginBuild for TLC: two calls in one process, one in another. *)
EXTENDS PluginBuild

CONSTANTS c1, c2, c3

ThreeCallers == {c1, c2, c3}
TwoProcs == [c \in ThreeCallers |-> IF c = c3 THEN 2 ELSE 1]
=============================================================================
