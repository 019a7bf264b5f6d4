-------------------------- MODULE MCShardedBuilders --------------------------
(* A pool of one worker that grows to two; before, the second is configured  *)
(* with an index that gets nothing.                                          *)
EXTENDS ShardedBuilders

CONSTANTS v, w, a, b

MCRank == [i \in Items |-> IF i = a THEN 1 ELSE 2]
MCHash == [i \in Items |-> IF i = a THEN 0 ELSE 1]
MCRoom == [i \in Items |-> IF i = a THEN 2 ELSE 3]
MCOthers == [i \in Items |-> IF i = a THEN 0 ELSE 1]
PoolOf(size) == [x \in Workers |-> [size |-> size, index |-> IF x = v THEN 0 ELSE 1]]
MCDeployments == {[n \in {1, 2} |-> PoolOf(n)]}
=============================================================================
