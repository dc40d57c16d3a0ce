---------------------------- MODULE MCMySQLSink ----------------------------
(* An instance of MySQLSink for TLC: two imports, one of all reduce outputs of *)
(* up to MaxLines lines, the other of three lines of one key.                  *)
EXTENDS MySQLSink, SequencesExt

CONSTANT MaxLines

Keys == {"a", "b"}
TwoImports == {1, 2}

Line(k, v) == [key |-> k, val |-> v]
ThreeLines == <<Line("a", 2), Line("a", 2), Line("a", 2)>>
SmallInputs ==
  {<<ls, ThreeLines>> : ls \in BoundedSeq({Line("a", 1), Line("b", 1), Bad}, MaxLines)}
SmallTargets == {[k \in s |-> 9] : s \in {{}, Keys}}
=============================================================================
