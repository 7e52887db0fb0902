----------------------------- MODULE StoreSwarm -----------------------------
(***************************************************************************)
(* The store implements the swarm: a member is a registered entry of some  *)
(* list, its seed and done marks are the entry's flags, and the time of    *)
(* its last announce is the history variable.  Collecting a torrent, and   *)
(* everything the shards, the clock and the workers do, is invisible.      *)
(***************************************************************************)
EXTENDS Store

MembersBar ==
  [r \in Members |-> [seed |-> "SEEDING" \in EntryOf(r).flags,
                      done |-> "COMPLETED" \in EntryOf(r).flags,
                      at   |-> heard[r]]]

DownloadsBar == [h \in Hash |-> Downloads(h)]

Promise == INSTANCE Swarm WITH
  now       <- wall,
  members   <- MembersBar,
  downloads <- DownloadsBar,
  answer    <- reply

\* Every reply of the store (counters, peers, order) is one the swarm allows,
\* and no peer goes from it except on request or after a long silence.
ImplementsSwarm == Promise!Spec
=============================================================================
