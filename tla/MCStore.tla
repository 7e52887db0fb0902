------------------------------ MODULE MCStore ------------------------------
(* Instances of Store for TLC. *)
EXTENDS StoreSwarm, TLC

\* Every torrent in the last shard: a sweep passes other shards before it.
LastShard == [h \in Hash |-> SHARD_COUNT - 1]

Symmetry == Permutations(Key) \cup Permutations(Worker)
=============================================================================
