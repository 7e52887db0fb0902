---------------------------- MODULE MCSlowSeeder ----------------------------
(* An instance of SlowSeeder for TLC, with the values of Config::default. *)
EXTENDS SlowSeeder

CONSTANTS h, k, p

Weight ==
  [ interval |-> 20, connid |-> 15, peerid |-> 5, bad_key |-> 40,
    declared_ip |-> 60, bad_port |-> 30, fake_seeder |-> 50, key_churn |-> 35,
    peerid_churn |-> 35, numwant |-> 10, breadth |-> 60, empty_swarm |-> 40,
    scrape_volume |-> 15, connect_spam |-> 25 ]

Default ==
  [ weight                  |-> Weight,
    reannounce_min_interval |-> 60,
    score_ban_threshold     |-> 100,
    max_entries             |-> 1000000,
    decay_amount            |-> 1,
    decay_interval          |-> 60,
    breadth_threshold       |-> 32,
    empty_swarm_threshold   |-> 8,
    connect_burst           |-> 8,
    max_offenders           |-> 5000000,
    ban_tiers               |-> 4,
    reban_cooldown          |-> 3600,
    fast_announce_gap       |-> 300 ]

Seeding ==
  [kind |-> "announce", hash |-> h, key |-> k, peer |-> p,
   marks |-> {"no_transfer", "alone"}]

Requests == {[kind |-> "connect"], Seeding}
FirstOf  == [x \in Ip |-> 0]
Bucket   == [x \in Hash |-> 0]
NoHonest == <<>>
=============================================================================
