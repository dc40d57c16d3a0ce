---------------------------- MODULE MCRedisBatch ----------------------------
(* An instance of RedisBatch for TLC: two keys, the second without a business  *)
(* key, with one of two words, without a metric, or no hash.                *)
EXTENDS RedisBatch

X == Str(<<"x">>)
XY == Str(<<"x", "y">>)
M == Str(<<"5">>)

SmallWords == {"0", "5", "7", "k1", "k2", "x", "y", "z"}

SmallSources ==
  {<<"k1">> :> Hash(X, M) @@ <<"k2">> :> h :
     h \in {Hash(Str(<<>>), M), Hash(XY, M), Hash(NilValue, NilValue), NotAHash}}

SmallTargets == {NoKeys, <<"x">> :> "9" @@ <<"z">> :> "9"}
=============================================================================
