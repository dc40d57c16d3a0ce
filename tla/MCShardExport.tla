--------------------------- MODULE MCShardExport ---------------------------
(* Instances of ShardExport for TLC: tables without gaps between keys that *)
(* begin anywhere, short, long enough for uneven shards, or so long that   *)
(* the span overflows the integers.                                        *)
EXTENDS ShardExport

Intervals ==
  {lo..hi : <<lo, hi>> \in {<<l, h>> \in Int64 \X Int64 : h - l \in {0, 1, 3, 6, 8, 15}}}
=============================================================================
