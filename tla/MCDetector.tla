----------------------------- MODULE MCDetector -----------------------------
(* Instances of Detector for TLC. *)
EXTENDS Detector, TLC

CONSTANTS a1, a4, h1, h2, k0, k1, p1, p2

Symmetry == Permutations(Worker)
OneShard == [ip \in Ip |-> 0]

\* Lower weights, the shape of Config::default.
Small ==
  [ weight |-> [s \in Signal |-> IF s = "connid" THEN 2 ELSE 1],
    reannounce_min_interval |-> 2,
    score_ban_threshold     |-> 3,
    max_entries             |-> 2,
    decay_amount            |-> 1,
    decay_interval          |-> 2,
    breadth_threshold       |-> 2,
    empty_swarm_threshold   |-> 1,
    connect_burst           |-> 2,
    max_offenders           |-> 3,
    ban_tiers               |-> 2,
    reban_cooldown          |-> 2,
    fast_announce_gap       |-> 2 ]

Bans == [Small EXCEPT !.max_entries = 1, !.max_offenders = 2]

\* One mismatch is enough to be banned, and the registry fills before the map.
Evict ==
  [Small EXCEPT !.weight = [s \in Signal |-> IF s = "connid" THEN U32_MAX ELSE 0],
                !.max_entries = 4, !.max_offenders = 1]

Announce(h, k, p, marks) ==
  [kind |-> "announce", hash |-> h, key |-> k, peer |-> p, marks |-> marks]

Mismatches == {[kind |-> "mismatch"]}
NoHonest   == <<>>
LastApart  == [ip \in Ip |-> IF ip = a4 THEN 1 ELSE 0]
OneHonest  == (a1 :> Announce(h1, k1, p1, {}))
Anything   ==
  { [kind |-> "mismatch"], [kind |-> "connect"],
    [kind |-> "scrape", bulk |-> TRUE],
    Announce(h1, k0, p1, {"no_transfer", "alone"}),
    Announce(h2, k1, p2, {"declared_ip", "bad_port", "greedy", "unknown_client"}) }
NoBuckets  == [h \in Hash |-> 0]
TwoBuckets == [h \in Hash |-> IF h = h1 THEN 0 ELSE 1]
=============================================================================
