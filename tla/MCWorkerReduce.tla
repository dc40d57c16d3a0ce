--------------------------- MODULE MCWorkerReduce ---------------------------
(* Instances of WorkerReduce for TLC: no slice; one slice with all pairs of    *)
(* texts that the codec may disturb, a no-break space (160) and a carriage     *)
(* return (13) among them; two slices with plain pairs.  Two reducers, one of  *)
(* them with several keys.                                                     *)
EXTENDS WorkerReduce

a == <<97>>
b == <<98>>
Texts == {<<>>, a, <<Tab>>, <<160>>, <<97, 13>>, <<97, NewLine>>}
HashMod2 == [k \in Texts \cup {b} |-> IF k = b THEN 1 ELSE 0]

Plain == [key : {a, b, <<>>}, value : {a}]

SmallEmissions ==
  {<<>>}
  \cup {<<s>> : s \in BoundedSeq([key : Texts, value : Texts], 2)}
  \cup {<<s, t>> : s \in BoundedSeq(Plain, 2), t \in BoundedSeq(Plain, 2)}

SmallOthers == {<<>>, <<[key |-> a, value |-> b], [key |-> a, value |-> a]>>, <<[key |-> b, value |-> a]>>}
=============================================================================
