------------------------------- MODULE Detector -------------------------------
(***************************************************************************)
(* The abuse detector of crates/bf-l7/src/lib.rs, fed by the UDP workers   *)
(* of crates/bluefrog/src/main.rs.  A worker loads the cached clock when a *)
(* datagram reaches it, scores the source under the lock of its shard and, *)
(* if that crosses into a ban, records the offence under a second lock:    *)
(* between the three steps other workers run.                              *)
(*                                                                         *)
(* Times are seconds.  An announce is reduced to its torrent, the identity *)
(* it shows and the set of its suspicious marks.  Client.last_gap is       *)
(* written by every touch before it is read, so it is a value here and not *)
(* part of the state; the ring is the sequence of what it remembers.       *)
(***************************************************************************)
EXTENDS Integers, FiniteSets, Sequences

CONSTANTS
  Ip, Hash, Key, Peer, Worker,
  TrivialKey,    \* the keys 0 and u32::MAX
  SHARDS,
  ShardOf,       \* Ip -> shard, by its last byte
  BucketOf,      \* Hash -> one of the 64 breadth bits
  RING,
  EVICT_SAMPLE,
  U32_MAX,
  config,        \* the Config handed to Detector::new
  Hostile,       \* the requests of sources nothing is known about
  honest,        \* honest sources -> the announce each of them repeats
  HonestGap,     \* seconds an honest source lets pass before it repeats it
  ClockLag,      \* how far the cached clock may trail the wall
  HandlerLag,    \* how old the time a worker holds may get
  MaxWall,       \* bound: the last second explored
  MaxOffences    \* bound: a source is heard until it was banned this often

Mark == { "declared_ip",     \* an IP field, from a public source
          "bad_port",        \* a port below 1024
          "no_transfer",     \* left, downloaded and uploaded are 0
          "greedy",          \* num_want > numwant_abuse
          "unknown_client",  \* no well-known peer_id prefix
          "alone" }          \* nobody else in the swarm of the reply

Signal == { "interval", "connid", "peerid", "bad_key", "declared_ip",
            "bad_port", "fake_seeder", "key_churn", "peerid_churn", "numwant",
            "breadth", "empty_swarm", "scrape_volume", "connect_spam" }

Announces == [kind : {"announce"}, hash : Hash, key : Key, peer : Peer,
              marks : SUBSET Mark]
Scrapes   == [kind : {"scrape"}, bulk : BOOLEAN]
Others    == [kind : {"mismatch", "connect"}]
Request   == Announces \cup Scrapes \cup Others

ASSUME SetAssumption ==
  /\ IsFiniteSet(Ip) /\ IsFiniteSet(Worker) /\ TrivialKey \subseteq Key
  /\ ShardOf \in [Ip -> 0..(SHARDS - 1)] /\ BucketOf \in [Hash -> 0..63]
  /\ Hostile \subseteq Request

ASSUME SizeAssumption ==
  /\ SHARDS \in Nat \ {0} /\ RING \in Nat \ {0} /\ U32_MAX \in Nat \ {0}
  /\ EVICT_SAMPLE \in Nat /\ EVICT_SAMPLE >= 2

ASSUME ConfigAssumption ==
  config \in [ weight                  : [Signal -> Nat],
               reannounce_min_interval : Nat,
               score_ban_threshold     : Nat \ {0},
               max_entries             : Nat,
               decay_amount            : Nat,
               decay_interval          : Nat,
               breadth_threshold       : Nat,
               empty_swarm_threshold   : Nat,
               connect_burst           : Nat,
               max_offenders           : Nat,
               ban_tiers               : Nat,
               reban_cooldown          : Nat \ {0},
               fast_announce_gap       : 0..U32_MAX ]

\* Nothing below saturates a clock: u32 seconds last until 2106.
ASSUME LagAssumption ==
  /\ ClockLag \in Nat /\ HandlerLag \in Nat /\ ClockLag <= HandlerLag
  /\ MaxWall \in Nat /\ MaxOffences \in Nat
  /\ MaxWall + config.reban_cooldown <= U32_MAX

\* An honest source shows one identity, for one torrent, and nothing
\* suspicious, and it repeats itself no sooner than the floor allows.
ASSUME HonestAssumption ==
  /\ DOMAIN honest \subseteq Ip
  /\ \A ip \in DOMAIN honest :
       /\ honest[ip] \in Announces
       /\ honest[ip].marks = {} /\ honest[ip].key \notin TrivialKey
  /\ HonestGap \in Nat
  /\ HonestGap >= config.reannounce_min_interval + ClockLag
  /\ config.breadth_threshold > 1

VARIABLES
  wall,       \* SystemTime, in seconds
  clock,      \* Shared.clock
  clients,    \* tracked sources -> what is known of each, over all shards
  offenders,  \* the escalation registry
  handling,   \* worker -> its source, time, request, and the ban it decided
  verdict,    \* source -> the tier of its last Verdict::Ban
  sent,       \* honest source -> its last announce, its connects since
  banned,     \* history: tracked source -> the wall when it last crossed
  crossings   \* history: source -> how often it crossed

hidden == <<sent, banned, crossings>>
vars   == <<wall, clock, clients, offenders, handling, verdict, hidden>>

Tracked == DOMAIN clients
Busy    == DOMAIN handling
Honest  == DOMAIN honest

Seen   == [hash : Hash, at : Nat, key : Key, peer : Peer]
Client == [ score : 0..U32_MAX, last_seen : Nat, decay_at : Nat,
            banned_until : Nat, breadth : SUBSET (0..63),
            connects : 0..U32_MAX, empty_swarms : 0..U32_MAX, ring : Seq(Seen) ]
Offender == [offenses : 0..U32_MAX, last : Nat]
Datagram == [ip : Ip, now : Nat, request : Request, ban : BOOLEAN]

TypeOK ==
  /\ wall \in Nat /\ clock \in Nat
  /\ Tracked \subseteq Ip /\ clients \in [Tracked -> Client]
  /\ DOMAIN offenders \subseteq Ip
  /\ offenders \in [DOMAIN offenders -> Offender]
  /\ Busy \subseteq Worker /\ handling \in [Busy -> Datagram]
  /\ DOMAIN verdict \subseteq Ip /\ verdict \in [DOMAIN verdict -> Nat]
  /\ sent \in [Honest -> [at : Int, connects : Nat]]
  /\ DOMAIN banned \subseteq Ip /\ banned \in [DOMAIN banned -> Nat]
  /\ crossings \in [Ip -> Nat]

-----------------------------------------------------------------------------
(* One client *)

Sub(a, b) == IF a > b THEN a - b ELSE 0                    \* saturating_sub
Add(a, b) == IF a + b > U32_MAX THEN U32_MAX ELSE a + b    \* saturating_add
Least(a, b) == IF a < b THEN a ELSE b
AtLeastOne(n) == IF n = 0 THEN 1 ELSE n

NewClient(now) ==
  [ score |-> 0, last_seen |-> now, decay_at |-> now, banned_until |-> 0,
    breadth |-> {}, connects |-> 0, empty_swarms |-> 0, ring |-> <<>> ]

\* Mutant: however long it was silent, a source decays by one step.
DecaySteps_One(c, now) ==
  IF Sub(now, c.decay_at) >= AtLeastOne(config.decay_interval) THEN 1 ELSE 0

DecaySteps(c, now) ==
  Sub(now, c.decay_at) \div AtLeastOne(config.decay_interval)

\* Mutant: the remainder of the interval is lost whenever a step is taken.
AnchorAfter_Now(c, now) == IF DecaySteps(c, now) > 0 THEN now ELSE c.decay_at

\* The anchor advances in whole steps.
AnchorAfter(c, now) ==
  c.decay_at + DecaySteps(c, now) * AtLeastOne(config.decay_interval)

\* Mutant: a subtraction that does not saturate.
Drained_Plain(c, now) == c.score - DecaySteps(c, now) * config.decay_amount

Drained(c, now) == Sub(c.score, DecaySteps(c, now) * config.decay_amount)

Decayed(c, now) ==
  [c EXCEPT !.score = Drained(c, now),
            !.decay_at = AnchorAfter(c, now),
            !.last_seen = now]

\* Seconds since the source was seen; it has to be known to be fast.
Fast(ip, now) ==
  /\ ip \in Tracked
  /\ Sub(now, clients[ip].last_seen) < config.fast_announce_gap

\* What is remembered of the torrent that is announced.
SameTorrent(c, a) ==
  {c.ring[i] : i \in {j \in 1..Len(c.ring) : c.ring[j].hash = a.hash}}

Remembering(ring, a, now) ==
  LET seen   == [hash |-> a.hash, at |-> now, key |-> a.key, peer |-> a.peer]
      longer == Append(ring, seen)
  IN  IF Len(longer) > RING THEN Tail(longer) ELSE longer

EmptySwarms(c, a, fast) ==
  IF fast /\ "alone" \in a.marks THEN Add(c.empty_swarms, 1) ELSE 0

Widened(c, a, fast) == c.breadth \cup IF fast THEN {BucketOf[a.hash]} ELSE {}

TooSoon(seen, now) == Sub(now, seen.at) < config.reannounce_min_interval

\* The signals an announce raises.
Raised(c, a, now, fast) ==
  LET same == SameTorrent(c, a)
  IN  {s \in Signal :
        \/ s = "bad_key"      /\ a.key \in TrivialKey
        \/ s = "declared_ip"  /\ "declared_ip" \in a.marks
        \/ s = "bad_port"     /\ fast /\ "bad_port" \in a.marks
        \/ s = "fake_seeder"  /\ fast /\ "no_transfer" \in a.marks
        \/ s = "numwant"      /\ fast /\ "greedy" \in a.marks
        \/ s = "interval"     /\ \E seen \in same : TooSoon(seen, now)
        \/ s = "key_churn"    /\ \E seen \in same : seen.key # a.key
        \/ s = "peerid_churn" /\ \E seen \in same : seen.peer # a.peer
        \/ s = "peerid"       /\ "unknown_client" \in a.marks
        \/ s = "empty_swarm"  /\ EmptySwarms(c, a, fast) > config.empty_swarm_threshold
        \/ s = "breadth"      /\ fast
             /\ Cardinality(Widened(c, a, fast)) >= config.breadth_threshold}

\* An announce raises no other signal.
Points(S) ==
  LET P(s) == IF s \in S THEN config.weight[s] ELSE 0
  IN  P("bad_key") + P("declared_ip") + P("bad_port") + P("fake_seeder")
      + P("numwant") + P("interval") + P("key_churn") + P("peerid_churn")
      + P("peerid") + P("empty_swarm") + P("breadth")

\* Of all the counting only this sum is plain `+`.  The weights are the source's
\* own, for no directive sets them, and together they fit a u32.
ASSUME WeightAssumption == Points(Signal) <= U32_MAX

-----------------------------------------------------------------------------
(* What each request does to a client that was just touched *)

\* Mutant: announcing does not use up the connects.
Announced_KeepsConnects(c, a, now, fast) ==
  [c EXCEPT !.ring = Remembering(@, a, now),
            !.empty_swarms = EmptySwarms(c, a, fast),
            !.breadth = Widened(c, a, fast),
            !.score = Add(@, Points(Raised(c, a, now, fast)))]

\* on_announce
Announced(c, a, now, fast) ==
  [c EXCEPT !.connects = 0,
            !.ring = Remembering(@, a, now),
            !.empty_swarms = EmptySwarms(c, a, fast),
            !.breadth = Widened(c, a, fast),
            !.score = Add(@, Points(Raised(c, a, now, fast)))]

\* on_connid_mismatch
Mismatched(c) == [c EXCEPT !.score = Add(@, config.weight["connid"])]

\* on_scrape
Scraped(c, r) ==
  [c EXCEPT !.connects = 0,
            !.score = IF r.bulk THEN Add(@, config.weight["scrape_volume"]) ELSE @]

\* on_connect
Connected(c) ==
  LET connects == Add(c.connects, 1)
  IN  [c EXCEPT !.connects = connects,
                !.score = IF connects > config.connect_burst
                          THEN Add(@, config.weight["connect_spam"]) ELSE @]

Fed(c, r, now, fast) ==
  CASE r.kind = "announce" -> Announced(c, r, now, fast)
    [] r.kind = "mismatch" -> Mismatched(c)
    [] r.kind = "scrape"   -> Scraped(c, r)
    [] r.kind = "connect"  -> Connected(c)

\* Mutant: the ban in force is not looked at.
Crosses_Always(c, now) == c.score >= config.score_ban_threshold

\* Mutant: re-armed by the score, a source that stays high is banned once.
Crosses_Once(c, now) ==
  c.score >= config.score_ban_threshold /\ c.banned_until = 0

Crosses(c, now) ==
  c.score >= config.score_ban_threshold /\ now >= c.banned_until

Armed(c, now) ==
  IF Crosses(c, now)
  THEN [c EXCEPT !.banned_until = now + config.reban_cooldown] ELSE c

-----------------------------------------------------------------------------
(* Full maps.  `take(EVICT_SAMPLE)` of a HashMap is any that many entries, *)
(* and the oldest of them goes: so does whatever enough others are not     *)
(* older than.                                                             *)

Evictable(age) ==
  LET sample == Least(EVICT_SAMPLE, Cardinality(DOMAIN age))
  IN  {k \in DOMAIN age :
        Cardinality({j \in DOMAIN age : age[j] >= age[k]}) >= sample}

\* Mutant: the most recent of the sample goes.
Evictions_Newest(ip, age, cap) ==
  IF ip \in DOMAIN age \/ Cardinality(DOMAIN age) < cap \/ DOMAIN age = {}
  THEN {{}}
  ELSE {{k} : k \in Evictable([j \in DOMAIN age |-> -age[j]])}

\* Mutant: one more than the cap.
Evictions_Late(ip, age, cap) ==
  IF ip \in DOMAIN age \/ Cardinality(DOMAIN age) <= cap \/ DOMAIN age = {}
  THEN {{}} ELSE {{k} : k \in Evictable(age)}

\* The sets of entries that may have to go before ip is let in.
Evictions(ip, age, cap) ==
  IF ip \in DOMAIN age \/ Cardinality(DOMAIN age) < cap \/ DOMAIN age = {}
  THEN {{}} ELSE {{k} : k \in Evictable(age)}

PerShardCap == AtLeastOne(config.max_entries \div SHARDS)

InShard(s) == {ip \in Tracked : ShardOf[ip] = s}

With(f, k, v) == [j \in DOMAIN f \cup {k} |-> IF j = k THEN v ELSE f[j]]
Without(f, S) == [j \in DOMAIN f \ S |-> f[j]]

-----------------------------------------------------------------------------
Init ==
  /\ wall = 0 /\ clock = 0
  /\ clients = <<>> /\ offenders = <<>> /\ handling = <<>> /\ verdict = <<>>
  /\ sent = [ip \in Honest |-> [at |-> -HonestGap, connects |-> 0]]
  /\ banned = <<>>
  /\ crossings = [ip \in Ip |-> 0]

Unanswered(ip) == \E w \in Busy : handling[w].ip = ip

\* A conforming client connects, repeats that a few times while it gets no
\* answer, and then announces.
MaySend(ip, r) ==
  IF ip \in Honest
  THEN /\ ~Unanswered(ip)
       /\ \/ r = [kind |-> "connect"] /\ sent[ip].connects < config.connect_burst
          \/ /\ r = honest[ip]
             /\ sent[ip].connects > 0
             /\ wall >= sent[ip].at + HonestGap
  ELSE r \in Hostile

\* A worker takes a datagram off its socket and loads the clock.
Receive(w, ip, r) ==
  /\ w \notin Busy
  /\ crossings[ip] < MaxOffences
  /\ MaySend(ip, r)
  /\ handling' = With(handling, w, [ip |-> ip, now |-> clock, request |-> r,
                                    ban |-> FALSE])
  /\ sent' = IF ip \notin Honest THEN sent
             ELSE IF r.kind = "connect"
             THEN [sent EXCEPT ![ip].connects = @ + 1]
             ELSE [sent EXCEPT ![ip] = [at |-> wall, connects |-> 0]]
  /\ UNCHANGED <<wall, clock, clients, offenders, verdict, banned, crossings>>

\* The client a datagram leaves behind, before it is armed.
Scored(d) ==
  LET known == IF d.ip \in Tracked THEN clients[d.ip] ELSE NewClient(d.now)
  IN  Fed(Decayed(known, d.now), d.request, d.now, Fast(d.ip, d.now))

\* touch, the signals and crosses, under the lock of the shard.
Observe(w) ==
  LET d   == handling[w]
      c   == Scored(d)
      age == [k \in InShard(ShardOf[d.ip]) |-> clients[k].last_seen]
  IN  /\ w \in Busy /\ ~d.ban
      /\ \E out \in Evictions(d.ip, age, PerShardCap) :
           /\ clients' = With(Without(clients, out), d.ip, Armed(c, d.now))
           /\ \/ /\ Crosses(c, d.now)
                 /\ handling' = [handling EXCEPT ![w].ban = TRUE]
                 /\ banned' = With(Without(banned, out), d.ip, wall)
                 /\ crossings' = [crossings EXCEPT ![d.ip] = @ + 1]
              \/ /\ ~Crosses(c, d.now)
                 /\ handling' = Without(handling, {w})
                 /\ banned' = Without(banned, out)
                 /\ UNCHANGED crossings
      /\ UNCHANGED <<wall, clock, offenders, verdict, sent>>

\* Mutant: past the last tier it starts again.
Tier_Cycles(offenses) == (offenses - 1) % AtLeastOne(config.ban_tiers)

Tier(offenses) == Least(offenses - 1, Sub(config.ban_tiers, 1))

\* Mutant: a source that was evicted starts afresh.
Offences_OfTracked(ip) ==
  Add(IF ip \in DOMAIN offenders /\ ip \in Tracked
      THEN offenders[ip].offenses ELSE 0, 1)

\* The offences of ip, with this one.
Offences(ip) ==
  Add(IF ip \in DOMAIN offenders THEN offenders[ip].offenses ELSE 0, 1)

\* decide and record_offence, under the lock of the registry.
Decide(w) ==
  LET d   == handling[w]
      n   == Offences(d.ip)
      age == [k \in DOMAIN offenders |-> offenders[k].last]
  IN  /\ w \in Busy /\ d.ban
      /\ \E out \in Evictions(d.ip, age, config.max_offenders) :
           offenders' = With(Without(offenders, out), d.ip,
                             [offenses |-> n, last |-> d.now])
      /\ verdict' = With(verdict, d.ip, Tier(n))
      /\ handling' = Without(handling, {w})
      /\ UNCHANGED <<wall, clock, clients, hidden>>

ClockTask ==
  clock' = wall /\ UNCHANGED <<wall, clients, offenders, handling, verdict, hidden>>

Tick ==
  /\ wall < MaxWall
  /\ wall < clock + ClockLag
  /\ \A w \in Busy : wall < handling[w].now + HandlerLag
  /\ wall' = wall + 1
  /\ UNCHANGED <<clock, clients, offenders, handling, verdict, hidden>>

Next ==
  \/ \E w \in Worker :
       \/ \E ip \in Ip : \E r \in Hostile \cup {[kind |-> "connect"]}
                                  \cup {honest[i] : i \in Honest} :
            Receive(w, ip, r)
       \/ Observe(w)
       \/ Decide(w)
  \/ ClockTask
  \/ Tick

Spec == Init /\ [][Next]_vars

-----------------------------------------------------------------------------
(* Properties *)

\* Memory is bounded whatever is sent: per shard and in the registry.
Bounded ==
  /\ \A s \in 0..(SHARDS - 1) : Cardinality(InShard(s)) <= PerShardCap
  /\ Cardinality(DOMAIN offenders) <= AtLeastOne(config.max_offenders)

\* A source over the threshold was banned, and by a ban that still held when
\* it was last heard: it is never left alone because its score stays high.
OverThresholdBanned ==
  \A ip \in Tracked :
    clients[ip].score >= config.score_ban_threshold =>
      /\ ip \in DOMAIN banned
      /\ clients[ip].last_seen < banned[ip] + config.reban_cooldown

Deciding(ip) == {w \in Busy : handling[w].ip = ip /\ handling[w].ban}

\* No offence is lost or counted twice between the two locks, nor when the
\* source itself is evicted: as long as the registry is not full, it holds
\* every ban so far that no worker is about to record.
OffencesRemembered ==
  /\ config.max_offenders >= Cardinality(Ip)
  /\ MaxOffences + Cardinality(Worker) <= U32_MAX
  => \A ip \in Ip :
      crossings[ip] = Cardinality(Deciding(ip))
        + IF ip \in DOMAIN offenders THEN offenders[ip].offenses ELSE 0

\* An honest source never scores, whatever the others send, whoever is evicted
\* and whichever workers serve it.
HonestUnflagged ==
  \A ip \in Honest \cap Tracked : clients[ip].score = 0

\* While a source stays tracked, its bans are a cooldown apart, but for how
\* long a worker may take.
BansApart ==
  [][\A ip \in DOMAIN banned :
       crossings'[ip] > crossings[ip] =>
         wall - banned[ip] >= config.reban_cooldown - HandlerLag]_vars

\* A repeat offender never gets a lower tier than before, unless the registry
\* had to forget it.
NeverLenient ==
  [][config.max_offenders >= Cardinality(Ip) =>
       \A ip \in DOMAIN verdict :
         ip \in DOMAIN verdict' /\ verdict'[ip] >= verdict[ip]]_vars

\* Eviction is approximate, but the source seen last is safe.
NewestSpared ==
  [][\A k \in Tracked :
       (\A j \in InShard(ShardOf[k]) \ {k} : clients[j].last_seen < clients[k].last_seen)
       /\ InShard(ShardOf[k]) # {k}
       => k \in DOMAIN clients']_vars

\* The score of a client if it is next looked at at time t.
ScoreAt(c, t) == Decayed(c, t).score

\* Being seen neither hastens nor delays the decay: whatever a source sends
\* and in whatever order it is served, from its last time on its score is what
\* it would have been in silence, or more.
DecayUnhurried ==
  [][\A ip \in Tracked :
       ip \in DOMAIN clients' =>
         \A t \in 0..U32_MAX :
           t >= clients'[ip].last_seen =>
             /\ ScoreAt(clients'[ip], t) >= ScoreAt(clients[ip], t)
             /\ \/ ScoreAt(clients'[ip], t) = ScoreAt(clients[ip], t)
                \/ clients'[ip].score > Decayed(clients[ip], clients'[ip].last_seen).score]_vars
=============================================================================
