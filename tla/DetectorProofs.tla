---------------------------- MODULE DetectorProofs ----------------------------
(* Theorems about Detector, and about LossyClient, its conforming client whose *)
(* datagrams and replies get lost, for every value of their constants.         *)
EXTENDS LossyClient, FiniteSetTheorems, TLAPS

-----------------------------------------------------------------------------
(* One client *)

LEMMA AddType ==
  ASSUME NEW a \in 0..U32_MAX, NEW b \in Nat
  PROVE  Add(a, b) \in 0..U32_MAX
BY SizeAssumption DEF Add

LEMMA SubType ==
  ASSUME NEW a \in Nat, NEW b \in Nat
  PROVE  Sub(a, b) \in 0..a
BY DEF Sub

LEMMA NewClientType ==
  ASSUME NEW now \in Nat
  PROVE  /\ NewClient(now) \in Client
         /\ NewClient(now).banned_until = 0
<1>1. <<>> \in Seq(Seen)
  OBVIOUS
<1>2. QED
  BY <1>1, SizeAssumption DEF NewClient, Client

LEMMA StepsType ==
  ASSUME NEW c \in Client, NEW now \in Nat
  PROVE  /\ DecaySteps(c, now) \in Nat
         /\ AtLeastOne(config.decay_interval) \in Nat \ {0}
<1>1. AtLeastOne(config.decay_interval) \in Nat \ {0}
  BY ConfigAssumption DEF AtLeastOne
<1>2. Sub(now, c.decay_at) \in Nat
  <2>1. c.decay_at \in Nat
    BY DEF Client
  <2>2. QED
    BY <2>1 DEF Sub
<1>3. QED
  BY <1>1, <1>2 DEF DecaySteps

\* Decay keeps the ban, and stamps the client with the time it was handed.
LEMMA DecayedType ==
  ASSUME NEW c \in Client, NEW now \in Nat
  PROVE  /\ Decayed(c, now) \in Client
         /\ Decayed(c, now).last_seen = now
         /\ Decayed(c, now).banned_until = c.banned_until
<1> DEFINE drain == DecaySteps(c, now) * config.decay_amount
<1>1. drain \in Nat
  BY StepsType, ConfigAssumption
<1>2. Drained(c, now) \in 0..U32_MAX
  <2>1. c.score \in 0..U32_MAX
    BY DEF Client
  <2>2. Sub(c.score, drain) \in 0..U32_MAX
    BY <1>1, <2>1, SizeAssumption DEF Sub
  <2>3. QED
    BY <2>2 DEF Drained
<1>3. AnchorAfter(c, now) \in Nat
  <2>1. c.decay_at \in Nat
    BY DEF Client
  <2>2. DecaySteps(c, now) * AtLeastOne(config.decay_interval) \in Nat
    BY StepsType
  <2>3. QED
    BY <2>1, <2>2 DEF AnchorAfter
<1>4. QED
  BY <1>2, <1>3 DEF Decayed, Client

LEMMA PointsType ==
  ASSUME NEW S
  PROVE  Points(S) \in Nat
<1> DEFINE P(s) == IF s \in S THEN config.weight[s] ELSE 0
<1>1. \A s \in Signal : P(s) \in Nat
  BY ConfigAssumption
<1>2. /\ P("bad_key") \in Nat /\ P("declared_ip") \in Nat
      /\ P("bad_port") \in Nat /\ P("fake_seeder") \in Nat
      /\ P("numwant") \in Nat /\ P("interval") \in Nat
      /\ P("key_churn") \in Nat /\ P("peerid_churn") \in Nat
      /\ P("peerid") \in Nat /\ P("empty_swarm") \in Nat
      /\ P("breadth") \in Nat
  BY <1>1 DEF Signal
<1> HIDE DEF P
<1>3. P("bad_key") + P("declared_ip") + P("bad_port") + P("fake_seeder")
      + P("numwant") + P("interval") + P("key_churn") + P("peerid_churn")
      + P("peerid") + P("empty_swarm") + P("breadth") \in Nat
  BY <1>2
<1>4. QED
  BY <1>3 DEF P, Points

LEMMA RememberingType ==
  ASSUME NEW ring \in Seq(Seen), NEW a \in Announces, NEW now \in Nat
  PROVE  Remembering(ring, a, now) \in Seq(Seen)
<1> DEFINE seen == [hash |-> a.hash, at |-> now, key |-> a.key, peer |-> a.peer]
           longer == Append(ring, seen)
<1>1. seen \in Seen
  BY DEF Seen, Announces
<1>2. longer \in Seq(Seen) /\ longer # <<>>
  BY <1>1
<1>3. Tail(longer) \in Seq(Seen)
  BY <1>2
<1>4. QED
  BY <1>2, <1>3 DEF Remembering

LEMMA EmptySwarmsType ==
  ASSUME NEW c \in Client, NEW a, NEW fast \in BOOLEAN
  PROVE  EmptySwarms(c, a, fast) \in 0..U32_MAX
BY AddType, SizeAssumption DEF EmptySwarms, Client

LEMMA WidenedType ==
  ASSUME NEW c \in Client, NEW a \in Announces, NEW fast \in BOOLEAN
  PROVE  Widened(c, a, fast) \in SUBSET (0..63)
BY SetAssumption DEF Widened, Client, Announces

\* A request adds to the score and leaves the ban and the time alone.
LEMMA FedType ==
  ASSUME NEW c \in Client, NEW r \in Request, NEW now \in Nat,
         NEW fast \in BOOLEAN
  PROVE  /\ Fed(c, r, now, fast) \in Client
         /\ Fed(c, r, now, fast).last_seen = c.last_seen
         /\ Fed(c, r, now, fast).banned_until = c.banned_until
<1>1. CASE r \in Announces
  <2>1. Remembering(c.ring, r, now) \in Seq(Seen)
    BY <1>1, RememberingType DEF Client
  <2>2. Widened(c, r, fast) \in SUBSET (0..63)
    BY <1>1, WidenedType
  <2>3. EmptySwarms(c, r, fast) \in 0..U32_MAX
    BY EmptySwarmsType
  <2>4. Add(c.score, Points(Raised(c, r, now, fast))) \in 0..U32_MAX
    BY PointsType, AddType DEF Client
  <2>5. Announced(c, r, now, fast) \in Client
    <3>1. 0 \in 0..U32_MAX
      BY SizeAssumption
    <3>2. QED
      BY <2>1, <2>2, <2>3, <2>4, <3>1 DEF Announced, Client
  <2>6. Fed(c, r, now, fast) = Announced(c, r, now, fast)
    BY <1>1 DEF Fed, Announces
  <2>7. QED
    BY <2>5, <2>6 DEF Announced, Client
<1>2. CASE r \in Scrapes
  <2>1. config.weight["scrape_volume"] \in Nat
    BY ConfigAssumption DEF Signal
  <2>2. Add(c.score, config.weight["scrape_volume"]) \in 0..U32_MAX
    BY <2>1, AddType DEF Client
  <2>3. Fed(c, r, now, fast) = Scraped(c, r)
    BY <1>2 DEF Fed, Scrapes
  <2>4. QED
    <3>1. 0 \in 0..U32_MAX
      BY SizeAssumption
    <3>2. CASE r.bulk
      BY <2>2, <2>3, <3>1, <3>2 DEF Scraped, Client
    <3>3. CASE ~r.bulk
      BY <2>3, <3>1, <3>3 DEF Scraped, Client
    <3>4. QED
      BY <3>2, <3>3
<1>3. CASE r \in Others /\ r.kind = "mismatch"
  <2>1. config.weight["connid"] \in Nat
    BY ConfigAssumption DEF Signal
  <2>2. Add(c.score, config.weight["connid"]) \in 0..U32_MAX
    BY <2>1, AddType DEF Client
  <2>3. Fed(c, r, now, fast) = Mismatched(c)
    BY <1>3 DEF Fed
  <2>4. QED
    BY <2>2, <2>3 DEF Mismatched, Client
<1>4. CASE r \in Others /\ r.kind = "connect"
  <2>1. config.weight["connect_spam"] \in Nat
    BY ConfigAssumption DEF Signal
  <2>2. /\ Add(c.score, config.weight["connect_spam"]) \in 0..U32_MAX
        /\ Add(c.connects, 1) \in 0..U32_MAX
    BY <2>1, AddType DEF Client
  <2>3. Fed(c, r, now, fast) = Connected(c)
    BY <1>4 DEF Fed
  <2>4. QED
    BY <2>2, <2>3 DEF Connected, Client
<1>5. QED
  BY <1>1, <1>2, <1>3, <1>4 DEF Request, Others

LEMMA ArmedType ==
  ASSUME NEW c \in Client, NEW now \in Nat
  PROVE  /\ Armed(c, now) \in Client
         /\ Armed(c, now).score = c.score
         /\ Armed(c, now).last_seen = c.last_seen
         /\ Armed(c, now).banned_until
              = IF Crosses(c, now) THEN now + config.reban_cooldown
                ELSE c.banned_until
<1>1. now + config.reban_cooldown \in Nat
  BY ConfigAssumption
<1>2. CASE Crosses(c, now)
  BY <1>1, <1>2 DEF Armed, Client
<1>3. CASE ~Crosses(c, now)
  BY <1>3 DEF Armed
<1>4. QED
  BY <1>2, <1>3

-----------------------------------------------------------------------------
(* The maps *)

\* What goes is tracked, and not the source that comes.
LEMMA EvictionsType ==
  ASSUME NEW ip, NEW age, NEW cap, NEW out \in Evictions(ip, age, cap)
  PROVE  out \subseteq DOMAIN age /\ ip \notin out
BY DEF Evictions, Evictable

-----------------------------------------------------------------------------
(* Types *)

\* The client an observation leaves behind has the time of the datagram, and
\* the ban it had, if it was known.
LEMMA ScoredType ==
  ASSUME TypeOK, NEW d \in Datagram
  PROVE  /\ Scored(d) \in Client
         /\ Scored(d).last_seen = d.now
         /\ Scored(d).banned_until
              = IF d.ip \in Tracked THEN clients[d.ip].banned_until ELSE 0
<1> DEFINE known == IF d.ip \in Tracked THEN clients[d.ip] ELSE NewClient(d.now)
<1>1. d.now \in Nat /\ d.request \in Request
  BY DEF Datagram
<1>2. /\ known \in Client
      /\ known.banned_until
           = IF d.ip \in Tracked THEN clients[d.ip].banned_until ELSE 0
  BY <1>1, NewClientType DEF TypeOK
<1> HIDE DEF known
<1>3. Fast(d.ip, d.now) \in BOOLEAN
  BY DEF Fast
<1>4. QED
  BY <1>1, <1>2, <1>3, DecayedType, FedType DEF Scored, known

LEMMA InitType == ASSUME Init PROVE TypeOK
BY HonestAssumption DEF Init, TypeOK, Tracked, Busy, Honest

LEMMA ReceiveType ==
  ASSUME TypeOK, NEW w \in Worker, NEW ip \in Ip, NEW r, Receive(w, ip, r)
  PROVE  TypeOK'
<1> DEFINE d == [ip |-> ip, now |-> clock, request |-> r, ban |-> FALSE]
<1>1. r \in Request
  <2>1. [kind |-> "connect"] \in Request
    BY DEF Request, Others
  <2>2. ip \in Honest => honest[ip] \in Request
    BY HonestAssumption DEF Request, Honest
  <2>3. QED
    BY <2>1, <2>2, SetAssumption DEF Receive, MaySend
<1>2. d \in Datagram
  BY <1>1 DEF Datagram, TypeOK
<1>3. Busy' \subseteq Worker /\ handling' \in [Busy' -> Datagram]
  <2>1. handling \in [DOMAIN handling -> Datagram] /\ Busy \subseteq Worker
    BY DEF TypeOK, Busy
  <2>2. handling' = With(handling, w, d)
    BY DEF Receive
  <2>3. QED
    BY <1>2, <2>1, <2>2 DEF Busy, With
<1>4. sent' \in [Honest -> [at : Int, connects : Nat]]
  BY DEF Receive, TypeOK
<1>5. QED
  BY <1>3, <1>4 DEF Receive, TypeOK, Tracked

LEMMA ObserveType ==
  ASSUME TypeOK, NEW w \in Worker, Observe(w)
  PROVE  TypeOK'
<1> DEFINE d == handling[w]
           c == Scored(d)
           age == [k \in InShard(ShardOf[d.ip]) |-> clients[k].last_seen]
<1>1. w \in Busy /\ d \in Datagram /\ d.ip \in Ip /\ d.now \in Nat
  BY DEF Observe, TypeOK, Datagram
<1>2. c \in Client
  BY <1>1, ScoredType
<1>3. Armed(c, d.now) \in Client
  BY <1>1, <1>2, ArmedType
<1> HIDE DEF c
<1>4. PICK out \in Evictions(d.ip, age, PerShardCap) :
        /\ clients' = With(Without(clients, out), d.ip, Armed(c, d.now))
        /\ \/ /\ handling' = [handling EXCEPT ![w].ban = TRUE]
              /\ banned' = With(Without(banned, out), d.ip, wall)
              /\ crossings' = [crossings EXCEPT ![d.ip] = @ + 1]
           \/ /\ handling' = Without(handling, {w})
              /\ banned' = Without(banned, out)
              /\ UNCHANGED crossings
  BY DEF Observe, c
<1>5. Tracked' \subseteq Ip /\ clients' \in [Tracked' -> Client]
  <2>1. clients \in [DOMAIN clients -> Client] /\ Tracked \subseteq Ip
    BY DEF TypeOK, Tracked
  <2>2. /\ Without(clients, out) \in [DOMAIN Without(clients, out) -> Client]
        /\ DOMAIN Without(clients, out) \subseteq Ip
    BY <2>1 DEF Tracked, Without
  <2>3. QED
    BY <1>1, <1>3, <1>4, <2>2 DEF Tracked, With
<1>6. Busy' \subseteq Worker /\ handling' \in [Busy' -> Datagram]
  <2>1. handling \in [DOMAIN handling -> Datagram] /\ Busy \subseteq Worker
    BY DEF TypeOK, Busy
  <2>2. CASE handling' = [handling EXCEPT ![w].ban = TRUE]
    <3>1. [d EXCEPT !.ban = TRUE] \in Datagram
      BY <1>1 DEF Datagram
    <3>2. QED
      BY <2>1, <2>2, <3>1, <1>1 DEF Busy
  <2>3. CASE handling' = Without(handling, {w})
    BY <2>1, <2>3 DEF Busy, Without
  <2>4. QED
    BY <1>4, <2>2, <2>3
<1>7. DOMAIN banned' \subseteq Ip /\ banned' \in [DOMAIN banned' -> Nat]
  <2>1. banned \in [DOMAIN banned -> Nat] /\ DOMAIN banned \subseteq Ip
        /\ wall \in Nat
    BY DEF TypeOK
  <2>2. /\ Without(banned, out) \in [DOMAIN Without(banned, out) -> Nat]
        /\ DOMAIN Without(banned, out) \subseteq Ip
    BY <2>1 DEF Without
  <2>3. QED
    BY <1>1, <1>4, <2>1, <2>2 DEF With
<1>8. crossings' \in [Ip -> Nat]
  BY <1>1, <1>4 DEF TypeOK
<1>9. QED
  BY <1>5, <1>6, <1>7, <1>8 DEF Observe, TypeOK

LEMMA DecideType ==
  ASSUME TypeOK, NEW w \in Worker, Decide(w)
  PROVE  TypeOK'
<1> DEFINE d == handling[w]
           n == Offences(d.ip)
           age == [k \in DOMAIN offenders |-> offenders[k].last]
<1>1. w \in Busy /\ d \in Datagram /\ d.ip \in Ip /\ d.now \in Nat
  BY DEF Decide, TypeOK, Datagram
<1>2. n \in 1..U32_MAX
  BY SizeAssumption DEF Offences, Add, TypeOK, Offender
<1>3. Tier(n) \in Nat
  BY <1>2, ConfigAssumption DEF Tier, Least, Sub
<1>4. [offenses |-> n, last |-> d.now] \in Offender
  BY <1>1, <1>2 DEF Offender
<1> HIDE DEF n
<1>5. PICK out \in Evictions(d.ip, age, config.max_offenders) :
        offenders' = With(Without(offenders, out), d.ip,
                          [offenses |-> n, last |-> d.now])
  BY DEF Decide, n
<1>6. DOMAIN offenders' \subseteq Ip /\ offenders' \in [DOMAIN offenders' -> Offender]
  <2>1. /\ Without(offenders, out) \in [DOMAIN Without(offenders, out) -> Offender]
        /\ DOMAIN Without(offenders, out) \subseteq Ip
    BY DEF TypeOK, Without
  <2>2. QED
    BY <1>1, <1>4, <1>5, <2>1 DEF With
<1>7. DOMAIN verdict' \subseteq Ip /\ verdict' \in [DOMAIN verdict' -> Nat]
  <2>1. verdict' = With(verdict, d.ip, Tier(n))
    BY DEF Decide, n
  <2>2. QED
    BY <1>1, <1>3, <2>1 DEF TypeOK, With
<1>8. Busy' \subseteq Worker /\ handling' \in [Busy' -> Datagram]
  BY DEF Decide, TypeOK, Busy, Without
<1>9. QED
  BY <1>6, <1>7, <1>8 DEF Decide, hidden, TypeOK, Tracked

LEMMA NextType == ASSUME TypeOK, [Next]_vars PROVE TypeOK'
<1>1. ASSUME NEW w \in Worker, NEW ip \in Ip, NEW r, Receive(w, ip, r)
      PROVE  TypeOK'
  BY <1>1, ReceiveType
<1>2. ASSUME NEW w \in Worker, Observe(w) PROVE TypeOK'
  BY <1>2, ObserveType
<1>3. ASSUME NEW w \in Worker, Decide(w) PROVE TypeOK'
  BY <1>3, DecideType
<1>4. CASE ClockTask
  BY <1>4 DEF ClockTask, hidden, TypeOK, Tracked, Busy
<1>5. CASE Tick
  BY <1>5 DEF Tick, hidden, TypeOK, Tracked, Busy
<1>6. CASE UNCHANGED vars
  BY <1>6 DEF vars, hidden, TypeOK, Tracked, Busy
<1>7. QED
  BY <1>1, <1>2, <1>3, <1>4, <1>5, <1>6 DEF Next

\* No variable leaves its type: no score, counter or tier goes below zero or
\* past a u32, whatever is sent and however many sources and workers there are.
THEOREM DetectorTypes == Spec => []TypeOK
<1>1. Init => TypeOK
  BY InitType
<1>2. TypeOK /\ [Next]_vars => TypeOK'
  BY NextType
<1>3. QED
  BY <1>1, <1>2, PTL DEF Spec

-----------------------------------------------------------------------------
(* Bans *)

\* No worker works with a time that is too old, or still to come.
LagInv ==
  /\ clock <= wall /\ wall <= clock + ClockLag
  /\ \A w \in Busy : /\ handling[w].now <= wall
                     /\ wall <= handling[w].now + HandlerLag

\* The ban a client remembers is the last one there was, and it holds when the
\* score is still high.
ClientBan(ip) ==
  LET until == clients[ip].banned_until
  IN  /\ ip \notin DOMAIN banned => until = 0
      /\ ip \in DOMAIN banned =>
           /\ until <= banned[ip] + config.reban_cooldown
           /\ banned[ip] + config.reban_cooldown - HandlerLag <= until
      /\ clients[ip].score >= config.score_ban_threshold =>
           clients[ip].last_seen < until

\* The inductive invariant.
BanInv ==
  /\ TypeOK /\ LagInv
  /\ DOMAIN banned \subseteq Tracked
  /\ \A ip \in Tracked : ClientBan(ip)

LEMMA NextLag == ASSUME TypeOK, LagInv, [Next]_vars PROVE LagInv'
<1>1. \A w \in Busy : handling[w].now \in Nat
  BY DEF TypeOK, Datagram
<1>2. ASSUME NEW w \in Worker, NEW ip \in Ip, NEW r, Receive(w, ip, r)
      PROVE  LagInv'
  BY <1>2, LagAssumption DEF LagInv, Receive, Busy, With, TypeOK
<1>3. ASSUME NEW w \in Worker, Observe(w) PROVE LagInv'
  <2>1. \A v \in Busy' : v \in Busy /\ handling'[v].now = handling[v].now
    BY <1>3 DEF Observe, Without, Busy, TypeOK, Datagram
  <2>2. QED
    BY <1>3, <2>1 DEF LagInv, Observe
<1>4. ASSUME NEW w \in Worker, Decide(w) PROVE LagInv'
  BY <1>4 DEF LagInv, Decide, Without, Busy
<1>5. CASE ClockTask
  BY <1>5, LagAssumption DEF LagInv, ClockTask, Busy, TypeOK
<1>6. CASE Tick
  BY <1>1, <1>6, LagAssumption DEF LagInv, Tick, Busy, TypeOK
<1>7. CASE UNCHANGED vars
  BY <1>7 DEF LagInv, vars, Busy
<1>8. QED
  BY <1>2, <1>3, <1>4, <1>5, <1>6, <1>7 DEF Next

LEMMA InitBan == ASSUME Init PROVE BanInv
<1>1. TypeOK
  BY InitType
<1>2. QED
  BY <1>1, LagAssumption DEF Init, BanInv, LagInv, Tracked, Busy

LEMMA ObserveBan ==
  ASSUME BanInv, NEW w \in Worker, Observe(w)
  PROVE  BanInv'
<1> DEFINE d == handling[w]
           c == Scored(d)
           age == [k \in InShard(ShardOf[d.ip]) |-> clients[k].last_seen]
<1>1. TypeOK /\ TypeOK'
  BY ObserveType DEF BanInv
<1>2. w \in Busy /\ d \in Datagram /\ d.ip \in Ip /\ d.now \in Nat
  BY <1>1 DEF Observe, TypeOK, Datagram
<1>3. /\ c \in Client
      /\ c.last_seen = d.now
      /\ c.banned_until
           = IF d.ip \in Tracked THEN clients[d.ip].banned_until ELSE 0
  BY <1>1, <1>2, ScoredType
<1>4. /\ Armed(c, d.now) \in Client
      /\ Armed(c, d.now).score = c.score
      /\ Armed(c, d.now).last_seen = d.now
      /\ Armed(c, d.now).banned_until
           = IF Crosses(c, d.now) THEN d.now + config.reban_cooldown
             ELSE c.banned_until
  BY <1>2, <1>3, ArmedType
<1>5. d.now <= wall /\ wall <= d.now + HandlerLag
  BY <1>2 DEF BanInv, LagInv
<1> HIDE DEF c
<1>6. PICK out \in Evictions(d.ip, age, PerShardCap) :
        /\ clients' = With(Without(clients, out), d.ip, Armed(c, d.now))
        /\ \/ /\ Crosses(c, d.now)
              /\ handling' = [handling EXCEPT ![w].ban = TRUE]
              /\ banned' = With(Without(banned, out), d.ip, wall)
           \/ /\ ~Crosses(c, d.now)
              /\ handling' = Without(handling, {w})
              /\ banned' = Without(banned, out)
  BY DEF Observe, c
<1>7. d.ip \notin out
  BY EvictionsType
<1>8. LagInv'
  BY <1>1, NextLag DEF BanInv, Next
<1>9. DOMAIN banned' \subseteq Tracked'
  BY <1>6 DEF BanInv, With, Without, Tracked
<1>10. ASSUME NEW ip \in Tracked' PROVE ClientBan(ip)'
  <2>1. CASE ip # d.ip
    <3>1. /\ ip \in Tracked /\ clients'[ip] = clients[ip]
          /\ ip \in DOMAIN banned' <=> ip \in DOMAIN banned
          /\ ip \in DOMAIN banned => banned'[ip] = banned[ip]
      BY <1>6, <2>1 DEF With, Without, Tracked
    <3>2. QED
      BY <3>1 DEF BanInv, ClientBan
  <2>2. CASE ip = d.ip
    <3>1. clients'[ip] = Armed(c, d.now)
      BY <1>6, <2>2 DEF With
    <3>2. CASE Crosses(c, d.now)
      <4>1. ip \in DOMAIN banned' /\ banned'[ip] = wall
        BY <1>6, <2>2, <3>2 DEF With
      <4>2. clients'[ip].banned_until = d.now + config.reban_cooldown
        BY <1>4, <3>1, <3>2
      <4>3. QED
        BY <1>1, <1>2, <1>4, <1>5, <3>1, <4>1, <4>2, LagAssumption,
           ConfigAssumption DEF ClientBan, TypeOK
    <3>3. CASE ~Crosses(c, d.now)
      <4>1. /\ ip \in DOMAIN banned' <=> ip \in DOMAIN banned
            /\ ip \in DOMAIN banned => banned'[ip] = banned[ip]
        BY <1>6, <1>7, <2>2, <3>3 DEF Without
      <4>2. clients'[ip].banned_until = c.banned_until
        BY <1>4, <3>1, <3>3
      <4>3. c.score >= config.score_ban_threshold => d.now < c.banned_until
        BY <1>2, <1>3, <3>3, ConfigAssumption DEF Crosses, Client
      <4>4. ip \in DOMAIN banned => ip \in Tracked
        BY DEF BanInv
      <4>5. QED
        BY <1>3, <1>4, <2>2, <3>1, <4>1, <4>2, <4>3, <4>4
           DEF BanInv, ClientBan
    <3>4. QED
      BY <3>2, <3>3
  <2>3. QED
    BY <2>1, <2>2
<1>11. QED
  BY <1>1, <1>8, <1>9, <1>10 DEF BanInv

LEMMA NextBan == ASSUME BanInv, [Next]_vars PROVE BanInv'
<1>1. TypeOK' /\ LagInv'
  BY NextType, NextLag DEF BanInv
<1>2. ASSUME UNCHANGED <<clients, banned>> PROVE BanInv'
  BY <1>1, <1>2 DEF BanInv, ClientBan, Tracked
<1>3. ASSUME NEW w \in Worker, Observe(w) PROVE BanInv'
  BY <1>3, ObserveBan
<1>4. QED
  BY <1>2, <1>3 DEF Next, vars, hidden, Receive, Decide, ClockTask, Tick

\* Every client knows the last ban of its source, and has a high score only
\* while that ban holds.
THEOREM BanInvariant == Spec => []BanInv
<1>1. Init => BanInv
  BY InitBan
<1>2. BanInv /\ [Next]_vars => BanInv'
  BY NextBan
<1>3. QED
  BY <1>1, <1>2, PTL DEF Spec

\* A source whose score is at the threshold is under a ban that was still in
\* force when it was last heard: Detector::crosses never leaves one alone.
THEOREM HighScoresAreBanned == Spec => []OverThresholdBanned
<1>1. BanInv => OverThresholdBanned
  <2>1. SUFFICES ASSUME BanInv, NEW ip \in Tracked,
                        clients[ip].score >= config.score_ban_threshold
                 PROVE  /\ ip \in DOMAIN banned
                        /\ clients[ip].last_seen < banned[ip] + config.reban_cooldown
    BY DEF OverThresholdBanned
  <2>2. /\ clients[ip].last_seen \in Nat /\ clients[ip].banned_until \in Nat
        /\ clients[ip].last_seen < clients[ip].banned_until
    BY <2>1 DEF BanInv, ClientBan, TypeOK, Client
  <2>3. ip \in DOMAIN banned
    BY <2>1, <2>2 DEF BanInv, ClientBan
  <2>4. /\ clients[ip].banned_until <= banned[ip] + config.reban_cooldown
        /\ banned[ip] + config.reban_cooldown \in Nat
    BY <2>1, <2>3, ConfigAssumption DEF BanInv, ClientBan, TypeOK
  <2>5. QED
    BY <2>2, <2>3, <2>4
<1>2. QED
  BY <1>1, BanInvariant, PTL

\* While a source stays tracked its bans are a cooldown apart, but for the age
\* of the time a worker may hold: `now < client.banned_until` suppresses.
THEOREM BansAreApart == Spec => BansApart
<1> DEFINE Apart ==
      \A ip \in DOMAIN banned :
        crossings'[ip] > crossings[ip] =>
          wall - banned[ip] >= config.reban_cooldown - HandlerLag
<1>1. ASSUME BanInv, [Next]_vars PROVE [Apart]_vars
  <2>1. SUFFICES ASSUME NEW ip \in DOMAIN banned,
                        crossings'[ip] > crossings[ip]
                 PROVE  wall - banned[ip] >= config.reban_cooldown - HandlerLag
    OBVIOUS
  <2>2. ip \in Ip /\ crossings[ip] \in Nat /\ ip \in Tracked /\ banned[ip] \in Nat
        /\ wall \in Nat
    BY <1>1 DEF BanInv, TypeOK
  <2>3. PICK w \in Worker : Observe(w)
    <3>1. crossings' # crossings
      BY <2>1, <2>2
    <3>2. QED
      BY <1>1, <3>1
         DEF Next, vars, hidden, Receive, Decide, ClockTask, Tick
  <2> DEFINE d == handling[w]
             c == Scored(d)
  <2>4. d \in Datagram /\ d.now \in Nat /\ d.now <= wall
    BY <1>1, <2>3 DEF Observe, BanInv, LagInv, TypeOK, Datagram
  <2>5. c.banned_until = IF d.ip \in Tracked THEN clients[d.ip].banned_until ELSE 0
    BY <1>1, <2>4, ScoredType DEF BanInv
  <2> HIDE DEF c
  <2>6. Crosses(c, d.now) /\ crossings' = [crossings EXCEPT ![d.ip] = @ + 1]
    BY <2>1, <2>2, <2>3 DEF Observe, c
  <2>7. ip = d.ip
    BY <1>1, <2>1, <2>2, <2>6 DEF BanInv, TypeOK
  <2>8. d.now >= clients[ip].banned_until
    BY <2>2, <2>5, <2>6, <2>7 DEF Crosses
  <2>9. banned[ip] + config.reban_cooldown - HandlerLag <= clients[ip].banned_until
    BY <1>1, <2>2 DEF BanInv, ClientBan
  <2>10. clients[ip].banned_until \in Nat
    BY <1>1, <2>2 DEF BanInv, TypeOK, Client
  <2>11. QED
    BY <2>2, <2>4, <2>8, <2>9, <2>10, ConfigAssumption, LagAssumption
<1>2. QED
  BY <1>1, BanInvariant, PTL DEF Spec, BansApart

-----------------------------------------------------------------------------
(* Full maps *)

LEMMA PairCardinality ==
  ASSUME NEW a, NEW b, a # b
  PROVE  IsFiniteSet({a, b}) /\ Cardinality({a, b}) = 2
<1>1. IsFiniteSet({a}) /\ Cardinality({a}) = 1
  BY FS_Singleton
<1>2. IsFiniteSet({a} \cup {b}) /\ Cardinality({a} \cup {b}) = Cardinality({a}) + 1
  BY <1>1, FS_AddElement
<1>3. Cardinality({a} \cup {b}) = 2
  BY <1>1, <1>2
<1>4. {a} \cup {b} = {a, b}
  OBVIOUS
<1>5. QED
  BY <1>2, <1>3, <1>4, Zenon

\* Whoever comes, there is room for it.
LEMMA EvictionsRoom ==
  ASSUME NEW ip, NEW age, NEW cap \in Nat, IsFiniteSet(DOMAIN age),
         Cardinality(DOMAIN age) <= AtLeastOne(cap),
         NEW out \in Evictions(ip, age, cap)
  PROVE  Cardinality((DOMAIN age \ out) \cup {ip}) <= AtLeastOne(cap)
<1> DEFINE there == DOMAIN age
           n == Cardinality(there)
<1>1. n \in Nat /\ AtLeastOne(cap) \in Nat /\ AtLeastOne(cap) >= 1
      /\ cap <= AtLeastOne(cap)
  BY FS_CardinalityType DEF AtLeastOne
<1>2. CASE ip \in there
  BY <1>2 DEF Evictions
<1>3. CASE ip \notin there /\ n < cap
  <2>1. out = {}
    BY <1>3 DEF Evictions
  <2>2. Cardinality(there \cup {ip}) = n + 1
    BY <1>3, FS_AddElement
  <2>3. QED
    BY <1>1, <1>3, <2>1, <2>2
<1>4. CASE there = {}
  <2>1. (there \ out) \cup {ip} = {ip}
    BY <1>4
  <2>2. Cardinality({ip}) = 1
    BY FS_Singleton
  <2>3. QED
    BY <1>1, <2>1, <2>2
<1>5. CASE ip \notin there /\ ~(n < cap) /\ there # {}
  <2>1. PICK k \in there : out = {k}
    BY <1>5 DEF Evictions, Evictable
  <2>2. IsFiniteSet(there \ {k}) /\ Cardinality(there \ {k}) = n - 1
    BY FS_RemoveElement
  <2>3. ip \notin there \ {k}
    BY <1>5
  <2>4. Cardinality((there \ {k}) \cup {ip}) = n
    <3> DEFINE rest == there \ {k}
    <3>1. IsFiniteSet(rest) /\ Cardinality(rest) = n - 1 /\ ip \notin rest
      BY <2>2, <2>3
    <3> HIDE DEF rest
    <3>2. Cardinality(rest \cup {ip}) = Cardinality(rest) + 1
      BY <3>1, FS_AddElement
    <3>3. QED
      BY <1>1, <3>1, <3>2 DEF rest
  <2>5. QED
    BY <2>1, <2>4
<1>6. QED
  BY <1>2, <1>3, <1>4, <1>5

LEMMA ObserveBounded ==
  ASSUME TypeOK, Bounded, NEW w \in Worker, Observe(w)
  PROVE  Bounded'
<1> DEFINE d == handling[w]
           age == [k \in InShard(ShardOf[d.ip]) |-> clients[k].last_seen]
<1>1. PICK out \in Evictions(d.ip, age, PerShardCap) :
        Tracked' = (Tracked \ out) \cup {d.ip}
  BY DEF Observe, With, Without, Tracked
<1>2. d.ip \in Ip /\ out \subseteq InShard(ShardOf[d.ip])
  BY EvictionsType DEF Observe, TypeOK, Datagram
<1>3. PerShardCap \in Nat /\ AtLeastOne(PerShardCap) = PerShardCap
  <2>1. config.max_entries \div SHARDS \in Nat
    BY ConfigAssumption, SizeAssumption
  <2>2. QED
    BY <2>1 DEF PerShardCap, AtLeastOne
<1>4. ASSUME NEW s \in 0..(SHARDS - 1)
      PROVE  Cardinality(InShard(s)') <= PerShardCap
  <2>1. CASE s = ShardOf[d.ip]
    <3>1. InShard(s)' = (InShard(s) \ out) \cup {d.ip}
      BY <1>1, <1>2, <2>1 DEF InShard
    <3>2. IsFiniteSet(InShard(s))
      BY SetAssumption, FS_Subset DEF InShard, TypeOK
    <3>3. DOMAIN age = InShard(s) /\ Cardinality(InShard(s)) <= PerShardCap
      BY <2>1 DEF Bounded
    <3>4. Cardinality((DOMAIN age \ out) \cup {d.ip}) <= AtLeastOne(PerShardCap)
      BY <1>3, <3>2, <3>3, EvictionsRoom
    <3>5. QED
      BY <1>3, <3>1, <3>3, <3>4
  <2>2. CASE s # ShardOf[d.ip]
    <3>1. InShard(s)' = InShard(s)
      BY <1>1, <1>2, <2>2 DEF InShard
    <3>2. QED
      BY <3>1 DEF Bounded
  <2>3. QED
    BY <2>1, <2>2
<1>5. QED
  BY <1>4 DEF Bounded, Observe, PerShardCap

LEMMA DecideBounded ==
  ASSUME TypeOK, Bounded, NEW w \in Worker, Decide(w)
  PROVE  Bounded'
<1> DEFINE d == handling[w]
           age == [k \in DOMAIN offenders |-> offenders[k].last]
<1>1. PICK out \in Evictions(d.ip, age, config.max_offenders) :
        DOMAIN offenders' = (DOMAIN offenders \ out) \cup {d.ip}
  BY DEF Decide, With, Without
<1>2. IsFiniteSet(DOMAIN age)
  BY SetAssumption, FS_Subset DEF TypeOK
<1>3. Cardinality((DOMAIN age \ out) \cup {d.ip}) <= AtLeastOne(config.max_offenders)
  BY <1>2, ConfigAssumption, EvictionsRoom DEF Bounded
<1>4. QED
  BY <1>1, <1>3 DEF Bounded, Decide, InShard, Tracked

\* Neither map outgrows its cap, whatever is sent: touch and record_offence
\* make room before they insert.
THEOREM MapsAreBounded == Spec => []Bounded
<1>1. Init => TypeOK /\ Bounded
  <2>1. SUFFICES ASSUME Init PROVE Bounded
    BY InitType
  <2>2. DOMAIN offenders = {} /\ \A s : InShard(s) = {}
    BY <2>1 DEF Init, InShard, Tracked
  <2>3. PerShardCap \in Nat /\ AtLeastOne(config.max_offenders) \in Nat
    <3>1. config.max_entries \div SHARDS \in Nat
      BY ConfigAssumption, SizeAssumption
    <3>2. QED
      BY <3>1, ConfigAssumption DEF PerShardCap, AtLeastOne
  <2>4. QED
    BY <2>2, <2>3, FS_EmptySet DEF Bounded
<1>2. TypeOK /\ Bounded /\ [Next]_vars => (TypeOK /\ Bounded)'
  <2>1. SUFFICES ASSUME TypeOK, Bounded, [Next]_vars PROVE Bounded'
    BY NextType
  <2>2. ASSUME UNCHANGED <<clients, offenders>> PROVE Bounded'
    BY <2>1, <2>2 DEF Bounded, InShard, Tracked
  <2>3. ASSUME NEW w \in Worker, Observe(w) PROVE Bounded'
    BY <2>1, <2>3, ObserveBounded
  <2>4. ASSUME NEW w \in Worker, Decide(w) PROVE Bounded'
    BY <2>1, <2>4, DecideBounded
  <2>5. QED
    BY <2>1, <2>2, <2>3, <2>4 DEF Next, vars, Receive, ClockTask, Tick
<1>3. QED
  BY <1>1, <1>2, PTL DEF Spec

\* The eviction takes the oldest of a sample, so the source seen last is never
\* the one that goes: nobody can push out a source it does not outpace.
THEOREM NewestIsSpared == Spec => NewestSpared
<1> DEFINE Spared ==
      \A k \in Tracked :
        (\A j \in InShard(ShardOf[k]) \ {k} :
           clients[j].last_seen < clients[k].last_seen)
        /\ InShard(ShardOf[k]) # {k}
        => k \in DOMAIN clients'
<1>1. ASSUME TypeOK, [Next]_vars PROVE [Spared]_vars
  <2>1. SUFFICES ASSUME NEW k \in Tracked, k \notin DOMAIN clients',
                        \A j \in InShard(ShardOf[k]) \ {k} :
                          clients[j].last_seen < clients[k].last_seen,
                        InShard(ShardOf[k]) # {k}
                 PROVE  FALSE
    OBVIOUS
  <2>2. PICK w \in Worker : Observe(w)
    BY <1>1, <2>1
       DEF Next, vars, Receive, Decide, ClockTask, Tick, Tracked
  <2> DEFINE d == handling[w]
             there == InShard(ShardOf[d.ip])
             age == [j \in there |-> clients[j].last_seen]
  <2>3. PICK out \in Evictions(d.ip, age, PerShardCap) :
          DOMAIN clients' = (Tracked \ out) \cup {d.ip}
    BY <2>2 DEF Observe, With, Without, Tracked
  <2>4. k \in out
    BY <2>1, <2>3
  <2>5. k \in Evictable(age) /\ k \in there
    BY <2>4 DEF Evictions, Evictable
  <2>6. ShardOf[k] = ShardOf[d.ip]
    BY <2>5 DEF InShard
  <2>7. {j \in DOMAIN age : age[j] >= age[k]} = {k}
    <3>1. \A j \in there : clients[j].last_seen \in Nat
      BY <1>1 DEF InShard, TypeOK, Client
    <3>2. QED
      BY <2>1, <2>5, <2>6, <3>1
  <2>8. Cardinality({j \in DOMAIN age : age[j] >= age[k]}) = 1
    BY <2>7, FS_Singleton
  <2>9. IsFiniteSet(there) /\ Cardinality(there) \in Nat
    BY <1>1, SetAssumption, FS_Subset, FS_CardinalityType DEF InShard, TypeOK
  <2>10. Cardinality(there) >= 2
    <3>1. PICK j \in there : j # k
      BY <2>1, <2>5, <2>6
    <3>2. IsFiniteSet({j, k}) /\ Cardinality({j, k}) = 2
      BY <3>1, PairCardinality
    <3>3. {j, k} \subseteq there
      BY <2>5, <3>1
    <3>4. Cardinality({j, k}) <= Cardinality(there)
      BY <2>9, <3>3, FS_Subset
    <3>5. QED
      BY <2>9, <3>2, <3>4
  <2>11. Least(EVICT_SAMPLE, Cardinality(there)) >= 2
    BY <2>9, <2>10, SizeAssumption DEF Least
  <2>12. Least(EVICT_SAMPLE, Cardinality(DOMAIN age)) <= 1
    BY <2>5, <2>8 DEF Evictable
  <2>13. Least(EVICT_SAMPLE, Cardinality(there)) \in Nat
    BY <2>9, SizeAssumption DEF Least
  <2>14. QED
    BY <2>11, <2>12, <2>13
<1>2. QED
  BY <1>1, DetectorTypes, PTL DEF Spec, NewestSpared

-----------------------------------------------------------------------------
(* Sources that show one identity, for one torrent *)

\* Nothing remembered is after t.
SeenBy(c, t) == \A i \in 1..Len(c.ring) : c.ring[i].at <= t

\* Everything known of a client is of the torrent and the identity of a.
OnlyOf(c, a) ==
  /\ c.breadth \subseteq {BucketOf[a.hash]}
  /\ \A i \in 1..Len(c.ring) :
       c.ring[i].key = a.key /\ c.ring[i].peer = a.peer

\* An announce with nothing suspicious in it.
Unmarked(a) == a \in Announces /\ a.marks = {} /\ a.key \notin TrivialKey

LEMMA RingType ==
  ASSUME NEW c \in Client, NEW i \in 1..Len(c.ring)
  PROVE  c.ring[i] \in Seen /\ c.ring[i].at \in Nat
<1>1. c.ring \in Seq(Seen)
  BY DEF Client
<1>2. c.ring[i] \in Seen
  BY <1>1
<1>3. QED
  BY <1>2 DEF Seen

\* All that repeating it can raise is the signal for coming too soon.
LEMMA RepeatingRaises ==
  ASSUME NEW a, Unmarked(a), NEW c \in Client, OnlyOf(c, a), NEW now \in Nat,
         NEW fast \in BOOLEAN
  PROVE  /\ Raised(c, a, now, fast) \subseteq {"interval"}
         /\ SeenBy(c, now - config.reannounce_min_interval)
              => Raised(c, a, now, fast) = {}
<1>1. a.marks = {} /\ a.key \notin TrivialKey
  BY DEF Unmarked
<1>2. EmptySwarms(c, a, fast) = 0
  BY <1>1 DEF EmptySwarms
<1>3. ~(EmptySwarms(c, a, fast) > config.empty_swarm_threshold)
  BY <1>2, ConfigAssumption
<1>4. ~(Cardinality(Widened(c, a, fast)) >= config.breadth_threshold)
  <2> DEFINE b == BucketOf[a.hash]
             W == Widened(c, a, fast)
  <2>1. W \subseteq {b}
    BY DEF Widened, OnlyOf
  <2>2. IsFiniteSet({b}) /\ Cardinality({b}) = 1
    BY FS_Singleton
  <2> HIDE DEF W, b
  <2>3. Cardinality(W) <= 1 /\ Cardinality(W) \in Nat
    BY <2>1, <2>2, FS_Subset, FS_CardinalityType
  <2>4. QED
    BY <2>3, HonestAssumption, ConfigAssumption DEF W
<1>5. \A seen \in SameTorrent(c, a) : seen.key = a.key /\ seen.peer = a.peer
  BY DEF SameTorrent, OnlyOf
<1>6. Raised(c, a, now, fast) \subseteq {"interval"}
  BY <1>1, <1>3, <1>4, <1>5 DEF Raised
<1>7. ASSUME SeenBy(c, now - config.reannounce_min_interval),
             NEW seen \in SameTorrent(c, a)
      PROVE  ~TooSoon(seen, now)
  <2>1. PICK i \in 1..Len(c.ring) : seen = c.ring[i]
    BY DEF SameTorrent
  <2>2. seen.at <= now - config.reannounce_min_interval /\ seen.at \in Nat
    BY <1>7, <2>1, RingType DEF SeenBy
  <2>3. QED
    BY <2>2, ConfigAssumption DEF TooSoon, Sub
<1>8. ASSUME SeenBy(c, now - config.reannounce_min_interval)
      PROVE  "interval" \notin Raised(c, a, now, fast)
  BY <1>7, <1>8 DEF Raised
<1>9. QED
  BY <1>6, <1>8

\* It is remembered as what it is, and as of now.
LEMMA RepeatingRemembered ==
  ASSUME NEW a, Unmarked(a), NEW c \in Client, OnlyOf(c, a), NEW now \in Nat,
         NEW fast \in BOOLEAN, NEW t \in Int, now <= t, SeenBy(c, t)
  PROVE  /\ OnlyOf(Announced(c, a, now, fast), a)
         /\ SeenBy(Announced(c, a, now, fast), t)
<1> DEFINE e == Announced(c, a, now, fast)
<1>1. /\ e.ring = Remembering(c.ring, a, now)
      /\ e.breadth = Widened(c, a, fast)
  BY DEF Announced, Client
<1>2. e.breadth \subseteq {BucketOf[a.hash]}
  BY <1>1 DEF OnlyOf, Widened
<1>3. \A i \in 1..Len(e.ring) : /\ e.ring[i].key = a.key /\ e.ring[i].peer = a.peer
                                /\ e.ring[i].at <= t
  <2> DEFINE seen == [hash |-> a.hash, at |-> now, key |-> a.key, peer |-> a.peer]
             longer == Append(c.ring, seen)
  <2>1. c.ring \in Seq(Seen) /\ seen \in Seen
    BY DEF Client, Seen, Unmarked, Announces
  <2>2. \A i \in 1..Len(c.ring) :
          /\ c.ring[i].key = a.key /\ c.ring[i].peer = a.peer
          /\ c.ring[i].at <= t
    BY DEF OnlyOf, SeenBy
  <2>3. \A i \in 1..Len(longer) :
          longer[i].key = a.key /\ longer[i].peer = a.peer /\ longer[i].at <= t
    BY <2>1, <2>2
  <2>4. longer \in Seq(Seen) /\ longer # <<>>
    BY <2>1
  <2>5. e.ring = longer \/ e.ring = Tail(longer)
    BY <1>1 DEF Remembering
  <2> HIDE DEF longer
  <2>6. \A i \in 1..Len(Tail(longer)) :
          i + 1 \in 1..Len(longer) /\ Tail(longer)[i] = longer[i + 1]
    BY <2>4
  <2>7. QED
    BY <2>3, <2>5, <2>6
<1>4. QED
  BY <1>2, <1>3 DEF OnlyOf, SeenBy

-----------------------------------------------------------------------------
(* Honest sources *)

\* A client that holds nothing against ip.
Clean(c, ip) ==
  /\ c.score = 0
  /\ c.breadth \subseteq {BucketOf[honest[ip].hash]}
  /\ \A i \in 1..Len(c.ring) :
       c.ring[i].key = honest[ip].key /\ c.ring[i].peer = honest[ip].peer

Announcing(ip) ==
  \E w \in Busy : handling[w].ip = ip /\ handling[w].request.kind = "announce"

HonestClient(ip) ==
  ip \in Tracked =>
    /\ Clean(clients[ip], ip)
    /\ SeenBy(clients[ip], sent[ip].at)
    /\ ~Announcing(ip) => clients[ip].connects <= sent[ip].connects

\* One request at a time: a connect the client has not been charged for, or an
\* announce that comes late enough after everything remembered.
HonestRequest(ip) ==
  \A w \in Busy : handling[w].ip = ip =>
    LET d == handling[w]
    IN  /\ ~d.ban
        /\ \A v \in Busy : handling[v].ip = ip => v = w
        /\ \/ /\ d.request = [kind |-> "connect"]
              /\ sent[ip].connects > 0
              /\ ip \in Tracked => clients[ip].connects < sent[ip].connects
           \/ /\ d.request = honest[ip]
              /\ d.now <= sent[ip].at
              /\ ip \in Tracked =>
                   SeenBy(clients[ip], d.now - config.reannounce_min_interval)

HonestOk(ip) ==
  /\ sent[ip].connects <= config.connect_burst
  /\ HonestClient(ip)
  /\ HonestRequest(ip)

\* The inductive invariant.
HonestInv == TypeOK /\ LagInv /\ \A ip \in Honest : HonestOk(ip)

LEMMA HonestType ==
  ASSUME NEW ip \in Honest
  PROVE  /\ ip \in Ip /\ honest[ip] \in Announces /\ honest[ip] \in Request
         /\ honest[ip].kind = "announce" /\ honest[ip].marks = {}
         /\ honest[ip].key \notin TrivialKey
BY HonestAssumption DEF Honest, Announces, Request

LEMMA NewClientClean ==
  ASSUME NEW ip \in Honest, NEW now \in Nat, NEW t
  PROVE  /\ Clean(NewClient(now), ip)
         /\ SeenBy(NewClient(now), t)
         /\ NewClient(now).connects = 0
BY DEF Clean, SeenBy, NewClient

LEMMA DecayedClean ==
  ASSUME NEW ip \in Honest, NEW c \in Client, NEW now \in Nat, Clean(c, ip)
  PROVE  /\ Clean(Decayed(c, now), ip)
         /\ Decayed(c, now).ring = c.ring
         /\ Decayed(c, now).connects = c.connects
<1> DEFINE drain == DecaySteps(c, now) * config.decay_amount
<1>1. drain \in Nat
  BY StepsType, ConfigAssumption
<1>2. Drained(c, now) = 0
  <2>1. c.score = 0
    BY DEF Clean
  <2>2. Sub(c.score, drain) = 0
    BY <1>1, <2>1 DEF Sub
  <2>3. QED
    BY <2>2 DEF Drained
<1>3. QED
  BY <1>2 DEF Decayed, Clean, Client

\* Nothing in the announce of an honest source raises a signal.
LEMMA HonestAnnounced ==
  ASSUME NEW ip \in Honest, NEW c \in Client, Clean(c, ip), NEW now \in Nat,
         NEW fast \in BOOLEAN, NEW t \in Int, now <= t,
         SeenBy(c, now - config.reannounce_min_interval)
  PROVE  /\ Clean(Announced(c, honest[ip], now, fast), ip)
         /\ SeenBy(Announced(c, honest[ip], now, fast), t)
         /\ Announced(c, honest[ip], now, fast).connects = 0
<1> DEFINE a == honest[ip]
           e == Announced(c, a, now, fast)
<1>1. /\ e.score = Add(c.score, Points(Raised(c, a, now, fast)))
      /\ e.connects = 0
  BY DEF Announced, Client
<1>2. Unmarked(a) /\ OnlyOf(c, a)
  BY HonestAssumption DEF Honest, Unmarked, OnlyOf, Clean
<1>3. SeenBy(c, t)
  <2>1. config.reannounce_min_interval \in Nat
    BY ConfigAssumption
  <2>2. \A i \in 1..Len(c.ring) : c.ring[i].at \in Nat
    BY RingType
  <2>3. QED
    BY <2>1, <2>2 DEF SeenBy
<1> HIDE DEF a
<1>4. e.score = 0
  <2>1. Raised(c, a, now, fast) = {}
    BY <1>2, RepeatingRaises
  <2>2. Points({}) = 0
    BY DEF Points
  <2>3. QED
    BY <1>1, <2>1, <2>2, SizeAssumption DEF Clean, Add
<1>5. OnlyOf(e, a) /\ SeenBy(e, t)
  BY <1>2, <1>3, RepeatingRemembered
<1>6. QED
  BY <1>1, <1>4, <1>5 DEF Clean, OnlyOf, a

LEMMA HonestConnected ==
  ASSUME NEW ip \in Honest, NEW c \in Client, Clean(c, ip),
         c.connects < config.connect_burst
  PROVE  /\ Clean(Connected(c), ip)
         /\ Connected(c).ring = c.ring
         /\ Connected(c).connects <= c.connects + 1
<1>1. c.connects \in Nat /\ Add(c.connects, 1) <= c.connects + 1
      /\ Add(c.connects, 1) \in Nat
  BY SizeAssumption DEF Client, Add
<1>2. ~(Add(c.connects, 1) > config.connect_burst)
  BY <1>1, ConfigAssumption
<1>3. Connected(c) = [c EXCEPT !.connects = Add(c.connects, 1), !.score = c.score]
  BY <1>2 DEF Connected, Client
<1>4. QED
  BY <1>1, <1>3 DEF Clean, Client

LEMMA HonestScored ==
  ASSUME HonestInv, NEW ip \in Honest, NEW w \in Busy, handling[w].ip = ip
  PROVE  /\ Clean(Scored(handling[w]), ip)
         /\ SeenBy(Scored(handling[w]), sent[ip].at)
         /\ Scored(handling[w]).connects <= sent[ip].connects
<1> DEFINE d == handling[w]
           known == IF ip \in Tracked THEN clients[ip] ELSE NewClient(d.now)
           c == Decayed(known, d.now)
           fast == Fast(ip, d.now)
<1>1. d \in Datagram /\ d.now \in Nat /\ fast \in BOOLEAN
  BY DEF HonestInv, TypeOK, Datagram, Fast
<1>2. /\ sent[ip].at \in Int /\ sent[ip].connects \in Nat
      /\ sent[ip].connects <= config.connect_burst
  BY DEF HonestInv, HonestOk, TypeOK
<1>3. known \in Client /\ Clean(known, ip) /\ SeenBy(known, sent[ip].at)
  BY <1>1, NewClientType, NewClientClean
     DEF HonestInv, HonestOk, HonestClient, TypeOK
<1>4. /\ c \in Client /\ Clean(c, ip)
      /\ c.ring = known.ring /\ c.connects = known.connects
  BY <1>1, <1>3, DecayedType, DecayedClean
<1>5. Scored(d) = Fed(c, d.request, d.now, fast)
  BY DEF Scored
<1>6. known.connects \in Nat /\ c.connects \in Nat
  BY <1>3, <1>4 DEF Client
<1>7. CASE /\ d.request = [kind |-> "connect"]
           /\ sent[ip].connects > 0
           /\ ip \in Tracked => clients[ip].connects < sent[ip].connects
  <2>1. known.connects < sent[ip].connects
    BY <1>1, <1>2, <1>7, NewClientClean
  <2>2. c.connects < config.connect_burst
    BY <1>2, <1>4, <1>6, <2>1, ConfigAssumption
  <2>3. Scored(d) = Connected(c)
    BY <1>5, <1>7 DEF Fed
  <2>4. /\ Clean(Connected(c), ip) /\ Connected(c).ring = c.ring
        /\ Connected(c).connects <= c.connects + 1
    BY <1>4, <2>2, HonestConnected
  <2>5. Connected(c).connects \in Nat
    BY <1>6, SizeAssumption DEF Connected, Client, Add
  <2>6. QED
    BY <1>2, <1>3, <1>4, <1>6, <2>1, <2>3, <2>4, <2>5 DEF SeenBy
<1>8. CASE /\ d.request = honest[ip]
           /\ d.now <= sent[ip].at
           /\ ip \in Tracked =>
                SeenBy(clients[ip], d.now - config.reannounce_min_interval)
  <2>1. SeenBy(known, d.now - config.reannounce_min_interval)
    BY <1>1, <1>8, NewClientClean
  <2>2. SeenBy(c, d.now - config.reannounce_min_interval)
    BY <1>4, <2>1 DEF SeenBy
  <2>3. Scored(d) = Announced(c, honest[ip], d.now, fast)
    BY <1>5, <1>8, HonestType DEF Fed
  <2>4. QED
    BY <1>1, <1>2, <1>4, <1>8, <2>2, <2>3, HonestAnnounced
<1>9. QED
  BY <1>7, <1>8 DEF HonestInv, HonestOk, HonestRequest

\* What an honest source has in flight, and the client kept of it, are its own:
\* steps that touch neither leave it honest.
LEMMA HonestFrame ==
  ASSUME NEW ip \in Honest, HonestOk(ip), sent'[ip] = sent[ip],
         ip \in Tracked' => ip \in Tracked /\ clients'[ip] = clients[ip],
         \A w : w \in Busy' /\ handling'[w].ip = ip
                <=> w \in Busy /\ handling[w].ip = ip,
         \A w \in Busy : handling[w].ip = ip => handling'[w] = handling[w]
  PROVE  HonestOk(ip)'
<1>1. Announcing(ip)' <=> Announcing(ip)
  BY DEF Announcing
<1>2. HonestClient(ip)'
  BY <1>1 DEF HonestOk, HonestClient, Clean, SeenBy
<1>3. HonestRequest(ip)'
  BY DEF HonestOk, HonestRequest, SeenBy
<1>4. QED
  BY <1>2, <1>3 DEF HonestOk

LEMMA ObserveHonest ==
  ASSUME HonestInv, NEW w \in Worker, Observe(w), NEW ip \in Honest
  PROVE  HonestOk(ip)'
<1> DEFINE d == handling[w]
           c == Scored(d)
           age == [k \in InShard(ShardOf[d.ip]) |-> clients[k].last_seen]
<1>1. w \in Busy /\ d \in Datagram /\ d.now \in Nat
  BY DEF Observe, HonestInv, TypeOK, Datagram
<1>2. PICK out \in Evictions(d.ip, age, PerShardCap) :
        /\ clients' = With(Without(clients, out), d.ip, Armed(c, d.now))
        /\ \/ /\ Crosses(c, d.now)
              /\ handling' = [handling EXCEPT ![w].ban = TRUE]
           \/ /\ ~Crosses(c, d.now)
              /\ handling' = Without(handling, {w})
  BY DEF Observe
<1>3. sent' = sent
  BY DEF Observe
<1>4. CASE ip # d.ip
  <2>1. ip \in Tracked' => ip \in Tracked /\ clients'[ip] = clients[ip]
    BY <1>2, <1>4 DEF With, Without, Tracked
  <2>2. \A v : v \in Busy' /\ handling'[v].ip = ip
               <=> v \in Busy /\ handling[v].ip = ip
    BY <1>1, <1>2, <1>4 DEF Without, Busy, HonestInv, TypeOK, Datagram
  <2>3. \A v \in Busy : handling[v].ip = ip => handling'[v] = handling[v]
    BY <1>1, <1>2, <1>4 DEF Without, Busy, HonestInv, TypeOK
  <2>4. QED
    BY <1>3, <2>1, <2>2, <2>3, HonestFrame DEF HonestInv
<1>5. CASE ip = d.ip
  <2>1. Clean(c, ip) /\ SeenBy(c, sent[ip].at) /\ c.connects <= sent[ip].connects
    BY <1>1, <1>5, HonestScored
  <2>2. ~Crosses(c, d.now)
    BY <2>1, ConfigAssumption DEF Clean, Crosses
  <2>3. clients'[ip] = c
    BY <1>2, <1>5, <2>2 DEF With, Armed
  <2>4. \A v \in Busy' : handling'[v].ip # ip
    <3>1. \A v \in Busy : handling[v].ip = ip => v = w
      BY <1>1, <1>5 DEF HonestInv, HonestOk, HonestRequest
    <3>2. QED
      BY <1>2, <2>2, <3>1 DEF Without, Busy
  <2>5. HonestClient(ip)'
    BY <1>3, <2>1, <2>3 DEF HonestClient, Clean, SeenBy
  <2>6. HonestRequest(ip)'
    BY <2>4 DEF HonestRequest
  <2>7. QED
    BY <1>3, <2>5, <2>6 DEF HonestOk, HonestInv
<1>6. QED
  BY <1>4, <1>5

LEMMA ReceiveHonest ==
  ASSUME HonestInv, NEW w \in Worker, NEW source \in Ip, NEW r,
         Receive(w, source, r), NEW ip \in Honest
  PROVE  HonestOk(ip)'
<1> DEFINE d == [ip |-> source, now |-> clock, request |-> r, ban |-> FALSE]
<1>1. /\ w \notin Busy
      /\ handling' = With(handling, w, d)
      /\ clients' = clients /\ wall' = wall
  BY DEF Receive
<1>2. Busy' = Busy \cup {w} /\ handling'[w] = d
      /\ \A v \in Busy : handling'[v] = handling[v]
  BY <1>1 DEF With, Busy
<1>3. wall \in Nat /\ clock \in Nat /\ clock <= wall /\ wall <= clock + ClockLag
      /\ sent \in [Honest -> [at : Int, connects : Nat]]
  BY DEF HonestInv, LagInv, TypeOK
<1>4. CASE ip # source
  <2>1. sent'[ip] = sent[ip]
    BY <1>3, <1>4 DEF Receive
  <2>2. \A v : v \in Busy' /\ handling'[v].ip = ip
               <=> v \in Busy /\ handling[v].ip = ip
    BY <1>2, <1>4
  <2>3. QED
    BY <1>1, <1>2, <2>1, <2>2, HonestFrame DEF HonestInv, Tracked
<1>5. CASE ip = source
  <2>1. /\ ~Unanswered(ip)
        /\ \/ r = [kind |-> "connect"] /\ sent[ip].connects < config.connect_burst
           \/ /\ r = honest[ip]
              /\ sent[ip].connects > 0
              /\ wall >= sent[ip].at + HonestGap
    BY <1>5 DEF Receive, MaySend
  <2>2. \A v \in Busy' : handling'[v].ip = ip => v = w
    BY <1>2, <2>1 DEF Unanswered
  <2>3. ~Announcing(ip)
    BY <2>1 DEF Announcing, Unanswered
  <2>4. ip \in Tracked =>
          /\ Clean(clients[ip], ip) /\ SeenBy(clients[ip], sent[ip].at)
          /\ clients[ip].connects <= sent[ip].connects
          /\ clients[ip] \in Client /\ clients[ip].connects \in Nat
    BY <2>3 DEF HonestInv, HonestOk, HonestClient, TypeOK, Client
  <2>5. CASE r = [kind |-> "connect"] /\ sent[ip].connects < config.connect_burst
    <3>1. sent'[ip].at = sent[ip].at /\ sent'[ip].connects = sent[ip].connects + 1
      BY <1>3, <1>5, <2>5 DEF Receive
    <3>2. sent'[ip].connects <= config.connect_burst
      BY <1>3, <2>5, <3>1, ConfigAssumption
    <3>3. HonestClient(ip)'
      BY <1>1, <1>3, <2>4, <3>1 DEF HonestClient, Clean, SeenBy, Tracked
    <3>4. HonestRequest(ip)'
      <4>1. /\ sent'[ip].connects > 0
            /\ ip \in Tracked' => clients'[ip].connects < sent'[ip].connects
        BY <1>1, <1>3, <2>4, <3>1 DEF Tracked
      <4>2. handling'[w].request = [kind |-> "connect"] /\ ~handling'[w].ban
        BY <1>2, <2>5
      <4>3. ASSUME NEW v \in Busy', handling'[v].ip = ip
            PROVE  /\ v = w /\ ~handling'[v].ban
                   /\ handling'[v].request = [kind |-> "connect"]
        BY <2>2, <4>2, <4>3
      <4>4. QED
        BY <2>2, <4>1, <4>3 DEF HonestRequest
    <3>5. QED
      BY <3>2, <3>3, <3>4 DEF HonestOk
  <2>6. CASE /\ r = honest[ip]
             /\ sent[ip].connects > 0
             /\ wall >= sent[ip].at + HonestGap
    <3>1. r.kind = "announce"
      BY <2>6, HonestType
    <3>2. sent'[ip].at = wall /\ sent'[ip].connects = 0
      BY <1>3, <1>5, <3>1 DEF Receive
    <3>3. Announcing(ip)'
      BY <1>2, <1>5, <3>1 DEF Announcing
    <3>4. ip \in Tracked => \A i \in 1..Len(clients[ip].ring) :
            /\ clients[ip].ring[i].at <= wall
            /\ clients[ip].ring[i].at <= clock - config.reannounce_min_interval
      <4>1. SUFFICES ASSUME ip \in Tracked, NEW i \in 1..Len(clients[ip].ring)
                     PROVE  /\ clients[ip].ring[i].at <= wall
                            /\ clients[ip].ring[i].at
                                 <= clock - config.reannounce_min_interval
        OBVIOUS
      <4>2. clients[ip].ring[i].at \in Nat
        BY <2>4, <4>1, RingType
      <4>3. clients[ip].ring[i].at <= sent[ip].at
        BY <2>4, <4>1 DEF SeenBy
      <4>4. /\ sent[ip].at \in Int /\ config.reannounce_min_interval \in Nat
            /\ ClockLag \in Nat /\ HonestGap \in Nat
            /\ HonestGap >= config.reannounce_min_interval + ClockLag
        BY <1>3, ConfigAssumption, LagAssumption, HonestAssumption
      <4>5. wall \in Nat /\ clock \in Nat /\ wall <= clock + ClockLag
            /\ wall >= sent[ip].at + HonestGap
        BY <1>3, <2>6
      <4>6. sent[ip].at <= wall /\ sent[ip].at <= clock - config.reannounce_min_interval
        BY <4>4, <4>5
      <4>7. clock - config.reannounce_min_interval \in Int
        BY <4>4, <4>5
      <4>8. clients[ip].ring[i].at <= wall
        BY <4>2, <4>3, <4>4, <4>5, <4>6
      <4>9. clients[ip].ring[i].at <= clock - config.reannounce_min_interval
        BY <4>2, <4>3, <4>4, <4>6, <4>7
      <4>10. QED
        BY <4>8, <4>9
    <3>5. HonestClient(ip)'
      BY <1>1, <2>4, <3>2, <3>3, <3>4 DEF HonestClient, Clean, SeenBy, Tracked
    <3>6. HonestRequest(ip)'
      <4>1. ip \in Tracked' =>
              SeenBy(clients'[ip], clock - config.reannounce_min_interval)
        BY <1>1, <3>4 DEF SeenBy, Tracked
      <4>2. handling'[w].request = honest[ip] /\ ~handling'[w].ban
            /\ handling'[w].now = clock /\ clock <= sent'[ip].at
        BY <1>2, <1>3, <2>6, <3>2
      <4>3. QED
        BY <2>2, <4>1, <4>2 DEF HonestRequest, SeenBy
    <3>7. QED
      BY <3>2, <3>5, <3>6, ConfigAssumption DEF HonestOk
  <2>7. QED
    BY <2>1, <2>5, <2>6
<1>6. QED
  BY <1>4, <1>5

LEMMA DecideHonest ==
  ASSUME HonestInv, NEW w \in Worker, Decide(w), NEW ip \in Honest
  PROVE  HonestOk(ip)'
<1>1. /\ w \in Busy /\ handling[w].ban
      /\ handling' = Without(handling, {w})
      /\ clients' = clients /\ sent' = sent
  BY DEF Decide, hidden
<1>2. handling[w].ip # ip
  BY <1>1 DEF HonestInv, HonestOk, HonestRequest
<1>3. \A v : v \in Busy' /\ handling'[v].ip = ip
             <=> v \in Busy /\ handling[v].ip = ip
  BY <1>1, <1>2 DEF Without, Busy
<1>4. \A v \in Busy : handling[v].ip = ip => handling'[v] = handling[v]
  BY <1>1, <1>2 DEF Without, Busy
<1>5. QED
  BY <1>1, <1>3, <1>4, HonestFrame DEF HonestInv, Tracked

LEMMA InitHonest == ASSUME Init PROVE HonestInv
<1>1. TypeOK /\ LagInv
  BY InitType, LagAssumption DEF Init, LagInv, Busy
<1>2. Tracked = {} /\ Busy = {}
  BY DEF Init, Tracked, Busy
<1>3. ASSUME NEW ip \in Honest PROVE HonestOk(ip)
  BY <1>2, ConfigAssumption
     DEF Init, HonestOk, HonestClient, HonestRequest
<1>4. QED
  BY <1>1, <1>3 DEF HonestInv

LEMMA NextHonest == ASSUME HonestInv, [Next]_vars PROVE HonestInv'
<1>1. TypeOK' /\ LagInv'
  BY NextType, NextLag DEF HonestInv
<1>2. ASSUME NEW ip \in Honest, UNCHANGED <<clients, handling, sent>>
      PROVE  HonestOk(ip)'
  BY <1>2, HonestFrame DEF HonestInv, Tracked, Busy
<1>3. ASSUME NEW ip \in Honest PROVE HonestOk(ip)'
  BY <1>2, <1>3, ReceiveHonest, ObserveHonest, DecideHonest
     DEF Next, vars, hidden, ClockTask, Tick
<1>4. QED
  BY <1>1, <1>3 DEF HonestInv

\* A source that keeps its identity, waits for its answers and repeats its
\* announce no sooner than the floor never scores, whatever the others send,
\* whoever is evicted, and however stale the times of the workers are.
THEOREM HonestAreUnflagged == Spec => []HonestUnflagged
<1>1. Init => HonestInv
  BY InitHonest
<1>2. HonestInv /\ [Next]_vars => HonestInv'
  BY NextHonest
<1>3. HonestInv => HonestUnflagged
  BY DEF HonestInv, HonestOk, HonestClient, HonestUnflagged, Clean
<1>4. QED
  BY <1>1, <1>2, <1>3, PTL DEF Spec
-----------------------------------------------------------------------------
(***************************************************************************)
(* Offences.  A ban is decided under the lock of a shard and recorded      *)
(* under that of the registry: what the registry holds meanwhile, as long  *)
(* as it has room for every source.                                        *)
(***************************************************************************)
\* Room for everybody: the registry has to forget nobody.
Ample == config.max_offenders >= Cardinality(Ip)

Recorded(ip) == IF ip \in DOMAIN offenders THEN offenders[ip].offenses ELSE 0

LEMMA AmpleKeeps ==
  ASSUME TypeOK, Ample, NEW ip \in Ip,
         NEW out \in Evictions(ip, [k \in DOMAIN offenders |-> offenders[k].last],
                               config.max_offenders)
  PROVE  out = {}
<1> DEFINE age == [k \in DOMAIN offenders |-> offenders[k].last]
<1>1. DOMAIN age = DOMAIN offenders /\ DOMAIN offenders \subseteq Ip  BY DEF TypeOK
<1>2. CASE ip \in DOMAIN offenders  BY <1>2 DEF Evictions
<1>3. CASE ip \notin DOMAIN offenders
  <2>1. IsFiniteSet(Ip) /\ Cardinality(Ip) \in Nat
    BY SetAssumption, FS_CardinalityType
  <2>2. IsFiniteSet(Ip \ {ip}) /\ Cardinality(Ip \ {ip}) = Cardinality(Ip) - 1
    BY <2>1, FS_RemoveElement
  <2>3. DOMAIN offenders \subseteq Ip \ {ip}  BY <1>1, <1>3
  <2>4. /\ IsFiniteSet(DOMAIN offenders)
        /\ Cardinality(DOMAIN offenders) <= Cardinality(Ip \ {ip})
    BY <2>2, <2>3, FS_Subset
  <2>5. Cardinality(DOMAIN offenders) \in Nat  BY <2>4, FS_CardinalityType
  <2>6. Cardinality(DOMAIN age) < config.max_offenders
    BY <1>1, <2>1, <2>2, <2>4, <2>5, ConfigAssumption DEF Ample
  <2> QED  BY <2>6 DEF Evictions
<1> QED  BY <1>2, <1>3

\* Recording an offence changes the one entry and drops none.
LEMMA DecideRecords ==
  ASSUME TypeOK, Ample, NEW w \in Worker, Decide(w)
  PROVE  LET ip == handling[w].ip
         IN  /\ ip \in Ip /\ w \in Busy /\ handling[w].ban
             /\ DOMAIN offenders' = DOMAIN offenders \cup {ip}
             /\ offenders'[ip].offenses = Offences(ip)
             /\ \A j \in DOMAIN offenders \ {ip} : offenders'[j] = offenders[j]
             /\ verdict' = With(verdict, ip, Tier(Offences(ip)))
             /\ handling' = Without(handling, {w})
             /\ UNCHANGED crossings
<1> DEFINE ip == handling[w].ip
           new == [offenses |-> Offences(ip), last |-> handling[w].now]
<1>1. ip \in Ip /\ w \in Busy /\ handling[w].ban
  BY DEF Decide, TypeOK, Datagram
<1>2. PICK out \in Evictions(ip, [k \in DOMAIN offenders |-> offenders[k].last],
                             config.max_offenders) :
        offenders' = With(Without(offenders, out), ip, new)
  BY DEF Decide
<1>3. out = {}  BY <1>1, <1>2, AmpleKeeps
<1>4. new.offenses = Offences(ip)  OBVIOUS
<1> HIDE DEF new
<1>5. /\ DOMAIN offenders' = DOMAIN offenders \cup {ip}
      /\ offenders'[ip] = new
      /\ \A j \in DOMAIN offenders \ {ip} : offenders'[j] = offenders[j]
  BY <1>2, <1>3 DEF With, Without
<1> QED  BY <1>1, <1>4, <1>5 DEF Decide, hidden

-----------------------------------------------------------------------------
(* Tiers *)

\* The last verdict on a source is the tier of the offences it has on record.
VerdictInv ==
  \A ip \in DOMAIN verdict :
    /\ ip \in DOMAIN offenders
    /\ offenders[ip].offenses >= 1
    /\ verdict[ip] = Tier(offenders[ip].offenses)

LEMMA NextOffence ==
  ASSUME TypeOK, NEW ip \in Ip
  PROVE  /\ Offences(ip) \in 1..U32_MAX
         /\ ip \in DOMAIN offenders => Offences(ip) >= offenders[ip].offenses
BY SizeAssumption DEF Offences, Add, TypeOK, Offender

LEMMA TierMonotone ==
  ASSUME NEW m \in Nat, NEW n \in Nat, m <= n
  PROVE  Tier(m) <= Tier(n)
BY ConfigAssumption DEF Tier, Least, Sub

LEMMA NextVerdict ==
  ASSUME TypeOK, Ample, VerdictInv, [Next]_vars
  PROVE  /\ VerdictInv'
         /\ \A ip \in DOMAIN verdict :
              ip \in DOMAIN verdict' /\ verdict'[ip] >= verdict[ip]
<1>1. \A ip \in DOMAIN verdict : verdict[ip] \in Nat  BY DEF TypeOK
<1>2. CASE UNCHANGED <<offenders, verdict>>  BY <1>1, <1>2 DEF VerdictInv
<1>3. ASSUME NEW w \in Worker, Decide(w)
      PROVE  /\ VerdictInv'
             /\ \A ip \in DOMAIN verdict :
                  ip \in DOMAIN verdict' /\ verdict'[ip] >= verdict[ip]
  <2> DEFINE ip == handling[w].ip
             n  == Offences(ip)
  <2>1. /\ ip \in Ip
        /\ DOMAIN offenders' = DOMAIN offenders \cup {ip}
        /\ offenders'[ip].offenses = n
        /\ \A j \in DOMAIN offenders \ {ip} : offenders'[j] = offenders[j]
        /\ verdict' = With(verdict, ip, Tier(n))
    BY <1>3, DecideRecords
  <2>2. n \in 1..U32_MAX /\ (ip \in DOMAIN offenders => n >= offenders[ip].offenses)
    BY <2>1, NextOffence
  <2> HIDE DEF n, ip
  <2>3. /\ DOMAIN verdict' = DOMAIN verdict \cup {ip}
        /\ verdict'[ip] = Tier(n)
        /\ \A j \in DOMAIN verdict \ {ip} : verdict'[j] = verdict[j]
    BY <2>1 DEF With
  <2>4. VerdictInv'  BY <2>1, <2>2, <2>3 DEF VerdictInv
  <2>5. ASSUME ip \in DOMAIN verdict PROVE verdict'[ip] >= verdict[ip]
    <3>1. verdict[ip] = Tier(offenders[ip].offenses) /\ ip \in DOMAIN offenders
      BY <2>5 DEF VerdictInv
    <3>2. offenders[ip].offenses \in Nat /\ n \in Nat /\ offenders[ip].offenses <= n
      BY <2>2, <3>1 DEF TypeOK, Offender
    <3>3. Tier(offenders[ip].offenses) <= Tier(n)  BY <3>2, TierMonotone
    <3>4. verdict[ip] \in Nat  BY <1>1, <2>5
    <3>5. Tier(n) \in Int  BY <3>2, ConfigAssumption DEF Tier, Least, Sub
    <3> QED  BY <2>3, <3>1, <3>3, <3>4, <3>5
  <2> QED  BY <1>1, <2>3, <2>4, <2>5
<1> QED
  BY <1>2, <1>3 DEF Next, vars, Receive, Observe, ClockTask, Tick

\* A repeat offender never gets a shorter ban than before: no tier is lower
\* than an earlier one, whatever is evicted from the map of clients and in
\* whichever order the workers reach the registry.
THEOREM NeverMoreLenient == Spec => NeverLenient
<1> DEFINE Kept ==
      Ample => \A ip \in DOMAIN verdict :
                 ip \in DOMAIN verdict' /\ verdict'[ip] >= verdict[ip]
           Inv == Ample => VerdictInv
<1>1. Init => Inv  BY DEF Init, VerdictInv
<1>2. TypeOK /\ Inv /\ [Next]_vars => Inv' /\ Kept
  BY NextVerdict DEF Ample
<1>3. Spec => [][Kept]_vars
  <2> HIDE DEF Inv, Kept
  <2>1. Inv /\ TypeOK /\ [Next]_vars => Inv' /\ [Kept]_vars  BY <1>2
  <2> QED  BY <1>1, <2>1, DetectorTypes, PTL DEF Spec
<1> QED  BY <1>3 DEF NeverLenient, Ample

-----------------------------------------------------------------------------
(* The count of offences *)

\* Workers about to look at a datagram of ip.
Pending(ip) == {w \in Busy : handling[w].ip = ip /\ ~handling[w].ban}

\* Every ban is on record or about to be, and there are too few of them, the
\* ones that datagrams in flight may still bring included, for a u32 to fill.
CountInv ==
  \A ip \in Ip :
    /\ crossings[ip] = Cardinality(Deciding(ip)) + Recorded(ip)
    /\ crossings[ip] + Cardinality(Pending(ip)) <= MaxOffences + Cardinality(Worker)

LEMMA WorkerSets ==
  ASSUME TypeOK, NEW ip
  PROVE  /\ IsFiniteSet(Worker) /\ Cardinality(Worker) \in Nat
         /\ IsFiniteSet(Pending(ip)) /\ Cardinality(Pending(ip)) \in Nat
         /\ Cardinality(Pending(ip)) <= Cardinality(Worker)
         /\ IsFiniteSet(Deciding(ip)) /\ Cardinality(Deciding(ip)) \in Nat
<1>1. Pending(ip) \subseteq Worker /\ Deciding(ip) \subseteq Worker
  BY DEF TypeOK, Pending, Deciding
<1> QED  BY <1>1, SetAssumption, FS_Subset, FS_CardinalityType

LEMMA RecordedType ==
  ASSUME TypeOK, NEW ip \in Ip
  PROVE  Recorded(ip) \in 0..U32_MAX /\ crossings[ip] \in Nat
BY SizeAssumption DEF TypeOK, Offender, Recorded

LEMMA ReceiveCount ==
  ASSUME TypeOK, TypeOK', CountInv,
         NEW w \in Worker, NEW ip \in Ip, NEW r, Receive(w, ip, r)
  PROVE  CountInv'
<1> DEFINE d == [ip |-> ip, now |-> clock, request |-> r, ban |-> FALSE]
<1>1. /\ w \notin Busy
      /\ Busy' = Busy \cup {w} /\ handling'[w] = d
      /\ \A v \in Busy : handling'[v] = handling[v]
      /\ crossings' = crossings /\ offenders' = offenders
      /\ crossings[ip] < MaxOffences
  BY DEF Receive, With, Busy
<1>2. d.ip = ip /\ d.ban = FALSE  OBVIOUS
<1> HIDE DEF d
<1>3. ASSUME NEW j \in Ip PROVE Deciding(j)' = Deciding(j)
  BY <1>1, <1>2 DEF Deciding
<1>4. ASSUME NEW j \in Ip, j # ip PROVE Pending(j)' = Pending(j)
  BY <1>1, <1>2, <1>4 DEF Pending
<1>5. crossings'[ip] + Cardinality(Pending(ip)') <= MaxOffences + Cardinality(Worker)
  <2>1. Cardinality(Pending(ip)') \in Nat
        /\ Cardinality(Pending(ip)') <= Cardinality(Worker)
        /\ Cardinality(Worker) \in Nat
    <3>1. Pending(ip)' \subseteq Worker  BY DEF TypeOK, Pending
    <3> QED  BY <3>1, SetAssumption, FS_Subset, FS_CardinalityType
  <2>2. crossings[ip] \in Nat  BY DEF TypeOK
  <2> QED  BY <1>1, <2>1, <2>2, LagAssumption
<1> QED  BY <1>1, <1>3, <1>4, <1>5 DEF CountInv, Recorded

\* The worker stops being pending; if the source crosses, it is deciding.
LEMMA ObserveCount ==
  ASSUME TypeOK, CountInv, NEW w \in Worker, Observe(w)
  PROVE  CountInv'
<1>0. PICK ip \in Ip : ip = handling[w].ip
  BY DEF Observe, TypeOK, Datagram
<1>1. w \in Busy /\ ~handling[w].ban /\ handling[w].ip = ip /\ offenders' = offenders
  BY <1>0 DEF Observe
<1>2. /\ w \in Pending(ip) /\ w \notin Deciding(ip)
      /\ crossings[ip] \in Nat /\ Recorded(ip) \in Nat
  BY <1>1, RecordedType DEF Pending, Deciding
<1>3. /\ IsFiniteSet(Pending(ip)) /\ Cardinality(Pending(ip)) \in Nat
      /\ IsFiniteSet(Deciding(ip)) /\ Cardinality(Deciding(ip)) \in Nat
      /\ Cardinality(Worker) \in Nat /\ MaxOffences \in Nat
  BY WorkerSets, LagAssumption
<1>4. Cardinality(Pending(ip) \ {w}) = Cardinality(Pending(ip)) - 1
  BY <1>2, <1>3, FS_RemoveElement
<1>5. Cardinality(Deciding(ip) \cup {w}) = Cardinality(Deciding(ip)) + 1
  BY <1>2, <1>3, FS_AddElement
<1>6. CASE /\ handling' = [handling EXCEPT ![w].ban = TRUE]
           /\ crossings' = [crossings EXCEPT ![ip] = @ + 1]
  <2>1. /\ Busy' = Busy
        /\ \A v \in Busy : /\ handling'[v].ip = handling[v].ip
                           /\ handling'[v].ban = (v = w \/ handling[v].ban)
    BY <1>1, <1>6 DEF Busy, TypeOK, Datagram
  <2>2. Pending(ip)' = Pending(ip) \ {w} /\ Deciding(ip)' = Deciding(ip) \cup {w}
    BY <1>1, <2>1 DEF Pending, Deciding
  <2>3. ASSUME NEW j \in Ip, j # ip
        PROVE  Pending(j)' = Pending(j) /\ Deciding(j)' = Deciding(j)
    BY <1>1, <2>1, <2>3 DEF Pending, Deciding
  <2>4. /\ crossings'[ip] = crossings[ip] + 1
        /\ \A j \in Ip \ {ip} : crossings'[j] = crossings[j]
    BY <1>1, <1>6 DEF TypeOK
  <2>5. /\ crossings'[ip] = Cardinality(Deciding(ip)') + Recorded(ip)
        /\ crossings'[ip] + Cardinality(Pending(ip)')
             <= MaxOffences + Cardinality(Worker)
    BY <1>1, <1>2, <1>3, <1>4, <1>5, <2>2, <2>4 DEF CountInv
  <2> QED  BY <1>1, <2>3, <2>4, <2>5 DEF CountInv, Recorded
<1>7. CASE handling' = Without(handling, {w}) /\ crossings' = crossings
  <2>1. /\ Busy' = Busy \ {w}
        /\ \A v \in Busy \ {w} : handling'[v] = handling[v]
    BY <1>7 DEF Busy, Without
  <2>2. Pending(ip)' = Pending(ip) \ {w} /\ Deciding(ip)' = Deciding(ip)
    BY <1>1, <2>1 DEF Pending, Deciding
  <2>3. ASSUME NEW j \in Ip, j # ip
        PROVE  Pending(j)' = Pending(j) /\ Deciding(j)' = Deciding(j)
    BY <1>1, <2>1, <2>3 DEF Pending, Deciding
  <2>4. crossings[ip] + Cardinality(Pending(ip)') <= MaxOffences + Cardinality(Worker)
    BY <1>1, <1>2, <1>3, <1>4, <2>2 DEF CountInv
  <2> QED  BY <1>1, <1>7, <2>2, <2>3, <2>4 DEF CountInv, Recorded
<1> QED  BY <1>0, <1>6, <1>7 DEF Observe

\* The worker was deciding, and what it decided is on record.
LEMMA DecideCount ==
  ASSUME TypeOK, Ample, MaxOffences + Cardinality(Worker) <= U32_MAX,
         CountInv, NEW w \in Worker, Decide(w)
  PROVE  CountInv'
<1>0. PICK ip \in Ip : ip = handling[w].ip
  BY DecideRecords
<1>1. /\ handling[w].ip = ip /\ w \in Busy /\ handling[w].ban
      /\ DOMAIN offenders' = DOMAIN offenders \cup {ip}
      /\ offenders'[ip].offenses = Offences(ip)
      /\ \A j \in DOMAIN offenders \ {ip} : offenders'[j] = offenders[j]
      /\ handling' = Without(handling, {w})
      /\ crossings' = crossings
  BY <1>0, DecideRecords
<1>2. /\ Busy' = Busy \ {w}
      /\ \A v \in Busy \ {w} : handling'[v] = handling[v]
  BY <1>1 DEF Busy, Without
<1>3. \A j \in Ip : Pending(j)' = Pending(j)
  BY <1>1, <1>2 DEF Pending
<1>4. \A j \in Ip \ {ip} : Deciding(j)' = Deciding(j) /\ Recorded(j)' = Recorded(j)
  BY <1>1, <1>2 DEF Deciding, Recorded
<1>5. w \in Deciding(ip) /\ Deciding(ip)' = Deciding(ip) \ {w}
  BY <1>1, <1>2 DEF Deciding
<1>6. /\ IsFiniteSet(Deciding(ip)) /\ Cardinality(Deciding(ip)) \in Nat
      /\ Cardinality(Pending(ip)) \in Nat
      /\ Cardinality(Worker) \in Nat /\ MaxOffences \in Nat
  BY WorkerSets, LagAssumption
<1>7. Cardinality(Deciding(ip)') = Cardinality(Deciding(ip)) - 1
      /\ Cardinality(Deciding(ip)') \in Nat
  <2>1. IsFiniteSet(Deciding(ip) \ {w})
        /\ Cardinality(Deciding(ip) \ {w}) = Cardinality(Deciding(ip)) - 1
    BY <1>5, <1>6, FS_RemoveElement
  <2> QED  BY <1>5, <2>1, FS_CardinalityType
<1>8. Recorded(ip) \in 0..U32_MAX /\ crossings[ip] \in Nat  BY <1>1, RecordedType
<1>9. Recorded(ip) + 1 <= U32_MAX
  BY <1>1, <1>6, <1>7, <1>8, SizeAssumption DEF CountInv
<1>10. Recorded(ip)' = Recorded(ip) + 1
  <2>1. Recorded(ip)' = Offences(ip)  BY <1>1 DEF Recorded
  <2>2. Offences(ip) = Add(Recorded(ip), 1)  BY DEF Offences, Recorded
  <2>3. Add(Recorded(ip), 1) = Recorded(ip) + 1  BY <1>8, <1>9, SizeAssumption DEF Add
  <2> QED  BY <2>1, <2>2, <2>3
<1>11. crossings[ip] = Cardinality(Deciding(ip)') + Recorded(ip)'
  BY <1>1, <1>6, <1>7, <1>8, <1>10 DEF CountInv
<1> QED  BY <1>1, <1>3, <1>4, <1>11 DEF CountInv

LEMMA InitCount == ASSUME Init PROVE CountInv
<1>1. ASSUME NEW ip \in Ip
      PROVE  Deciding(ip) = {} /\ Pending(ip) = {} /\ Recorded(ip) = 0 /\ crossings[ip] = 0
  BY DEF Init, Deciding, Pending, Recorded, Busy
<1>2. Cardinality({}) = 0  BY FS_EmptySet
<1>3. Cardinality(Worker) \in Nat  BY SetAssumption, FS_CardinalityType
<1>4. MaxOffences \in Nat  BY LagAssumption
<1>5. ASSUME NEW ip \in Ip
      PROVE  /\ crossings[ip] = Cardinality(Deciding(ip)) + Recorded(ip)
             /\ crossings[ip] + Cardinality(Pending(ip)) <= MaxOffences + Cardinality(Worker)
  <2>1. Cardinality(Deciding(ip)) = 0 /\ Cardinality(Pending(ip)) = 0
    BY <1>1, <1>2
  <2> QED  BY <1>1, <1>3, <1>4, <2>1
<1> QED  BY <1>5 DEF CountInv

\* No offence is lost or counted twice: with room for every source, the
\* registry holds every ban of each of them that no worker is about to record.
THEOREM OffencesAreRemembered == Spec => []OffencesRemembered
<1> DEFINE Room == Ample /\ MaxOffences + Cardinality(Worker) <= U32_MAX
           Inv  == Room => CountInv
<1>1. Init => Inv  BY InitCount
<1>2. ASSUME TypeOK, TypeOK', Room, CountInv, [Next]_vars PROVE CountInv'
  <2>1. CASE UNCHANGED <<offenders, handling, crossings>>
    BY <1>2, <2>1 DEF CountInv, Recorded, Pending, Deciding, Busy
  <2> QED
    BY <1>2, <2>1, ReceiveCount, ObserveCount, DecideCount
       DEF Next, vars, hidden, ClockTask, Tick
<1>3. Inv => OffencesRemembered
  <2>1. SUFFICES ASSUME Room, CountInv, NEW ip \in Ip
                 PROVE  crossings[ip] = Cardinality(Deciding(ip))
                          + IF ip \in DOMAIN offenders THEN offenders[ip].offenses ELSE 0
    BY DEF OffencesRemembered, Ample
  <2> QED  BY <2>1 DEF CountInv, Recorded
<1>4. Inv /\ TypeOK /\ TypeOK' /\ [Next]_vars => Inv'  BY <1>2
<1> QED
  <2> HIDE DEF Inv
  <2> QED  BY <1>1, <1>3, <1>4, DetectorTypes, PTL DEF Spec

-----------------------------------------------------------------------------
(* Decay *)

\* A quotient is known by the interval it lies in.
LEMMA QuotientIs ==
  ASSUME NEW x \in Nat, NEW n \in Nat \ {0}, NEW q \in Nat,
         q * n <= x, x < q * n + n
  PROVE  x \div n = q
<1> DEFINE d == x \div n
           r == x % n
<1>1. d \in Nat /\ r \in 0..(n - 1) /\ x = n * d + r
  OBVIOUS
<1> HIDE DEF d, r
<1>2. ASSUME d < q PROVE FALSE
  <2>1. n * (d + 1) <= n * q  BY <1>1, <1>2
  <2> QED  BY <1>1, <2>1
<1>3. ASSUME q < d PROVE FALSE
  <2>1. n * (q + 1) <= n * d  BY <1>1, <1>3
  <2> QED  BY <1>1, <2>1
<1>4. d = q  BY <1>1, <1>2, <1>3
<1> QED  BY <1>4 DEF d

LEMMA QuotientBounds ==
  ASSUME NEW x \in Nat, NEW n \in Nat \ {0}
  PROVE  /\ x \div n \in Nat
         /\ (x \div n) * n <= x
         /\ x < (x \div n) * n + n
<1> DEFINE d == x \div n
           r == x % n
<1>1. d \in Nat /\ r \in 0..(n - 1) /\ x = n * d + r
  OBVIOUS
<1> HIDE DEF d, r
<1>2. d * n <= x /\ x < d * n + n  BY <1>1
<1> QED  BY <1>1, <1>2 DEF d

\* Whole intervals taken off first are whole intervals less to come.
LEMMA QuotientLess ==
  ASSUME NEW x \in Nat, NEW n \in Nat \ {0}, NEW k \in Nat, k * n <= x
  PROVE  x \div n = k + (x - k * n) \div n
<1> DEFINE kn == k * n
           y == x - kn
           m == y \div n
<1>1. kn \in Nat  OBVIOUS
<1> HIDE DEF kn
<1>2. y \in Nat  BY <1>1 DEF kn
<1> HIDE DEF y
<1>3. m \in Nat /\ m * n <= y /\ y < m * n + n  BY <1>2, QuotientBounds DEF m
<1> HIDE DEF m
<1>4. (k + m) * n = kn + m * n  BY <1>3 DEF kn
<1>5. (k + m) * n <= x /\ x < (k + m) * n + n
  BY <1>1, <1>2, <1>3, <1>4 DEF y
<1>6. k + m \in Nat  BY <1>3
<1>7. x \div n = k + m  BY <1>5, <1>6, QuotientIs
<1> QED  BY <1>7 DEF m, y, kn

\* The intervals that have passed by t are those that had passed when the
\* client was looked at, and those since the anchor it was left with.
LEMMA StepsAddUp ==
  ASSUME NEW c \in Client, NEW now \in Nat, NEW t \in Nat, now <= t
  PROVE  DecaySteps(c, t) = DecaySteps(c, now) + DecaySteps(Decayed(c, now), t)
<1> DEFINE n == AtLeastOne(config.decay_interval)
           da == c.decay_at
           k == DecaySteps(c, now)
           kn == k * n
<1>1. n \in Nat \ {0} /\ k \in Nat /\ da \in Nat  BY StepsType DEF Client
<1>2. Decayed(c, now).decay_at = da + kn
  BY DEF Decayed, AnchorAfter, Client
<1>3. kn \in Nat  BY <1>1
<1>4. k = Sub(now, da) \div n  BY DEF DecaySteps
<1>5. DecaySteps(c, t) = Sub(t, da) \div n  BY DEF DecaySteps
<1>6. DecaySteps(Decayed(c, now), t) = Sub(t, da + kn) \div n
  BY <1>2 DEF DecaySteps
<1> HIDE DEF n, da, k
<1>7. Sub(now, da) \in Nat /\ Sub(t, da) \in Nat /\ Sub(now, da) <= Sub(t, da)
  BY <1>1 DEF Sub
<1>8. kn <= Sub(now, da)  BY <1>1, <1>4, <1>7, QuotientBounds
<1>9. kn <= Sub(t, da)  BY <1>3, <1>7, <1>8
<1>10. Sub(t, da) \div n = k + (Sub(t, da) - kn) \div n
  BY <1>1, <1>7, <1>9, QuotientLess
<1> HIDE DEF kn
<1>11. Sub(t, da + kn) = Sub(t, da) - kn
  <2>1. t >= da \/ kn = 0  BY <1>1, <1>3, <1>9 DEF Sub
  <2> QED  BY <1>1, <1>3, <1>9, <2>1 DEF Sub
<1>12. DecaySteps(Decayed(c, now), t) = (Sub(t, da) - kn) \div n
  BY <1>6, <1>11
<1> QED  BY <1>5, <1>10, <1>12 DEF k

\* Draining in two parts drains as much.
LEMMA SubTwice ==
  ASSUME NEW s \in Nat, NEW a \in Nat, NEW b \in Nat
  PROVE  Sub(Sub(s, a), b) = Sub(s, a + b)
BY DEF Sub

LEMMA SubMonotone ==
  ASSUME NEW r \in Nat, NEW s \in Nat, NEW a \in Nat, r <= s
  PROVE  Sub(r, a) <= Sub(s, a)
BY DEF Sub

LEMMA ScoreAtIs ==
  ASSUME NEW c \in Client, NEW t
  PROVE  ScoreAt(c, t) = Sub(c.score, DecaySteps(c, t) * config.decay_amount)
BY DEF ScoreAt, Decayed, Drained, Client

\* A look at a client changes nothing of what it decays to later.
LEMMA DecayTwice ==
  ASSUME NEW c \in Client, NEW now \in Nat, NEW t \in Nat, now <= t
  PROVE  ScoreAt(Decayed(c, now), t) = ScoreAt(c, t)
<1> DEFINE d == Decayed(c, now)
           k == DecaySteps(c, now)
           m == DecaySteps(d, t)
           a == config.decay_amount
<1>1. d \in Client  BY DecayedType
<1>2. d.score \in Nat /\ c.score \in Nat
  BY <1>1, SizeAssumption DEF Client
<1>3. k \in Nat /\ m \in Nat /\ a \in Nat
  BY <1>1, StepsType, ConfigAssumption
<1>4. ScoreAt(c, t) = Sub(c.score, DecaySteps(c, t) * a)
  BY ScoreAtIs
<1>5. ScoreAt(d, t) = Sub(d.score, m * a)
  <2> HIDE DEF d
  <2> QED  BY <1>1, ScoreAtIs
<1>6. d.score = Sub(c.score, k * a)
  BY ScoreAtIs DEF ScoreAt
<1>7. DecaySteps(c, t) = k + m  BY StepsAddUp
<1> HIDE DEF d, k, m, a
<1>8. /\ k * a \in Nat /\ m * a \in Nat
      /\ (k + m) * a = k * a + m * a
  BY <1>3
<1>9. Sub(Sub(c.score, k * a), m * a) = Sub(c.score, k * a + m * a)
  BY <1>2, <1>8, SubTwice
<1> QED  BY <1>4, <1>5, <1>7, <1>8, <1>9, <1>6 DEF d

\* A request leaves the anchor alone, and takes nothing off the score.
LEMMA FedAnchor ==
  ASSUME NEW c \in Client, NEW r \in Request, NEW now \in Nat,
         NEW fast \in BOOLEAN
  PROVE  /\ Fed(c, r, now, fast).decay_at = c.decay_at
         /\ Fed(c, r, now, fast).score >= c.score
<1>1. c.score \in 0..U32_MAX  BY DEF Client
<1>2. \A p \in Nat : Add(c.score, p) >= c.score
  BY <1>1, SizeAssumption DEF Add
<1>3. \A s \in Signal : Add(c.score, config.weight[s]) >= c.score
  BY <1>2, ConfigAssumption
<1>4. c.score >= c.score  BY <1>1
<1>5. CASE r.kind = "announce"
  <2>1. Fed(c, r, now, fast) = Announced(c, r, now, fast)  BY <1>5 DEF Fed
  <2>2. /\ Announced(c, r, now, fast).decay_at = c.decay_at
        /\ Announced(c, r, now, fast).score
             = Add(c.score, Points(Raised(c, r, now, fast)))
    BY DEF Announced, Client
  <2> QED  BY <1>2, <2>1, <2>2, PointsType
<1>6. CASE r.kind = "mismatch"
  <2>1. Fed(c, r, now, fast) = Mismatched(c)  BY <1>6 DEF Fed
  <2> QED  BY <1>3, <2>1 DEF Mismatched, Client, Signal
<1>7. CASE r.kind = "scrape"
  <2>1. Fed(c, r, now, fast) = Scraped(c, r)  BY <1>7 DEF Fed
  <2> QED  BY <1>3, <1>4, <2>1 DEF Scraped, Client, Signal
<1>8. CASE r.kind = "connect"
  <2>1. Fed(c, r, now, fast) = Connected(c)  BY <1>8 DEF Fed
  <2> QED  BY <1>3, <1>4, <2>1 DEF Connected, Client, Signal
<1> QED  BY <1>5, <1>6, <1>7, <1>8 DEF Request, Announces, Scrapes, Others

LEMMA ArmedAnchor ==
  ASSUME NEW c \in Client, NEW now
  PROVE  Armed(c, now).decay_at = c.decay_at
BY DEF Armed, Client

\* The higher of two scores with one anchor stays the higher.
LEMMA ScoreAtMonotone ==
  ASSUME NEW c \in Client, NEW d \in Client, NEW t \in Nat,
         c.decay_at = d.decay_at, c.score <= d.score
  PROVE  /\ ScoreAt(c, t) <= ScoreAt(d, t)
         /\ c.score = d.score => ScoreAt(c, t) = ScoreAt(d, t)
<1> DEFINE drain == DecaySteps(c, t) * config.decay_amount
<1>1. c.score \in Nat /\ d.score \in Nat  BY SizeAssumption DEF Client
<1>2. drain \in Nat  BY StepsType, ConfigAssumption
<1>3. DecaySteps(d, t) = DecaySteps(c, t)  BY DEF DecaySteps
<1>4. ScoreAt(c, t) = Sub(c.score, drain)  BY ScoreAtIs
<1>5. ScoreAt(d, t) = Sub(d.score, drain)  BY <1>3, ScoreAtIs
<1> HIDE DEF drain
<1> QED  BY <1>1, <1>2, <1>4, <1>5, SubMonotone

\* What DecayUnhurried says of one source.
Unhurried(c, e) ==
  \A t \in 0..U32_MAX :
    t >= e.last_seen =>
      /\ ScoreAt(e, t) >= ScoreAt(c, t)
      /\ \/ ScoreAt(e, t) = ScoreAt(c, t)
         \/ e.score > Decayed(c, e.last_seen).score

LEMMA ScoreAtType ==
  ASSUME NEW c \in Client, NEW t \in Nat
  PROVE  ScoreAt(c, t) \in 0..U32_MAX
BY DecayedType DEF ScoreAt, Client

LEMMA StillUnhurried ==
  ASSUME NEW c \in Client
  PROVE  Unhurried(c, c)
<1> SUFFICES ASSUME NEW t \in 0..U32_MAX
             PROVE  ScoreAt(c, t) >= ScoreAt(c, t)
  BY DEF Unhurried
<1>1. ScoreAt(c, t) \in 0..U32_MAX  BY ScoreAtType
<1> QED  BY <1>1

LEMMA ServedUnhurried ==
  ASSUME NEW c \in Client, NEW r \in Request, NEW now \in Nat,
         NEW fast \in BOOLEAN
  PROVE  Unhurried(c, Armed(Fed(Decayed(c, now), r, now, fast), now))
<1> DEFINE d == Decayed(c, now)
           f == Fed(d, r, now, fast)
           e == Armed(f, now)
<1>1. d \in Client /\ d.last_seen = now  BY DecayedType
<1>2. /\ f \in Client /\ f.last_seen = now
      /\ f.decay_at = d.decay_at /\ f.score >= d.score
  <2> HIDE DEF d
  <2> QED  BY <1>1, FedType, FedAnchor
<1>3. /\ e \in Client /\ e.last_seen = now
      /\ e.decay_at = d.decay_at /\ e.score >= d.score
  <2> HIDE DEF f
  <2> QED  BY <1>2, ArmedType, ArmedAnchor
<1> SUFFICES ASSUME NEW t \in 0..U32_MAX, t >= now
             PROVE  /\ ScoreAt(e, t) >= ScoreAt(c, t)
                    /\ \/ ScoreAt(e, t) = ScoreAt(c, t)
                       \/ e.score > d.score
  BY <1>3 DEF Unhurried
<1>4. ScoreAt(d, t) = ScoreAt(c, t)  BY DecayTwice
<1> HIDE DEF e, d
<1>5. d.score \in Nat /\ e.score \in Nat  BY <1>1, <1>3, SizeAssumption DEF Client
<1>6. /\ ScoreAt(d, t) <= ScoreAt(e, t)
      /\ d.score = e.score => ScoreAt(d, t) = ScoreAt(e, t)
  BY <1>1, <1>3, <1>5, ScoreAtMonotone
<1>7. ScoreAt(d, t) \in Nat /\ ScoreAt(e, t) \in Nat
  BY <1>1, <1>3, ScoreAtType, SizeAssumption
<1>8. CASE e.score = d.score  BY <1>4, <1>6, <1>7, <1>8
<1>9. CASE e.score > d.score  BY <1>4, <1>6, <1>7, <1>9
<1> QED  BY <1>3, <1>5, <1>8, <1>9

LEMMA ObserveUnhurried ==
  ASSUME TypeOK, NEW w \in Worker, Observe(w), NEW ip \in Tracked,
         ip \in DOMAIN clients'
  PROVE  Unhurried(clients[ip], clients'[ip])
<1> DEFINE d == handling[w]
           c == Scored(d)
           age == [k \in InShard(ShardOf[d.ip]) |-> clients[k].last_seen]
<1>1. w \in Busy /\ d \in Datagram /\ d.now \in Nat /\ d.request \in Request
  BY DEF Observe, TypeOK, Datagram
<1>2. clients[ip] \in Client  BY DEF TypeOK
<1> HIDE DEF c
<1>3. PICK out \in Evictions(d.ip, age, PerShardCap) :
        clients' = With(Without(clients, out), d.ip, Armed(c, d.now))
  BY DEF Observe, c
<1>4. CASE ip # d.ip
  <2>1. clients'[ip] = clients[ip]  BY <1>3, <1>4 DEF With, Without
  <2> QED  BY <1>2, <2>1, StillUnhurried
<1>5. CASE ip = d.ip
  <2>1. clients'[ip] = Armed(c, d.now)  BY <1>3, <1>5 DEF With
  <2>2. c = Fed(Decayed(clients[ip], d.now), d.request, d.now, Fast(d.ip, d.now))
    BY <1>5 DEF c, Scored
  <2>3. Fast(d.ip, d.now) \in BOOLEAN  BY DEF Fast
  <2> QED  BY <1>1, <1>2, <2>1, <2>2, <2>3, ServedUnhurried
<1> QED  BY <1>4, <1>5

\* Being seen neither hastens nor delays the decay of a score, whatever the
\* interval and amount, whatever a source sends and whichever worker, with
\* however old a time, serves it.
THEOREM DecayIsUnhurried == Spec => DecayUnhurried
<1> DEFINE Served ==
      \A ip \in Tracked :
        ip \in DOMAIN clients' =>
          \A t \in 0..U32_MAX :
            t >= clients'[ip].last_seen =>
              /\ ScoreAt(clients'[ip], t) >= ScoreAt(clients[ip], t)
              /\ \/ ScoreAt(clients'[ip], t) = ScoreAt(clients[ip], t)
                 \/ clients'[ip].score
                      > Decayed(clients[ip], clients'[ip].last_seen).score
<1>1. ASSUME TypeOK, [Next]_vars PROVE [Served]_vars
  <2>1. SUFFICES ASSUME NEW ip \in Tracked, ip \in DOMAIN clients'
                 PROVE  Unhurried(clients[ip], clients'[ip])
    BY DEF Unhurried
  <2>2. CASE UNCHANGED clients
    <3>1. clients[ip] \in Client  BY <1>1 DEF TypeOK
    <3> QED  BY <2>2, <3>1, StillUnhurried
  <2>3. CASE \E w \in Worker : Observe(w)
    BY <1>1, <2>1, <2>3, ObserveUnhurried
  <2> QED
    BY <1>1, <2>2, <2>3
       DEF Next, vars, hidden, Receive, Decide, ClockTask, Tick
<1>2. QED
  BY <1>1, DetectorTypes, PTL DEF Spec, DecayUnhurried

-----------------------------------------------------------------------------
(* The passing of time *)

LEMMA QuotientMonotone ==
  ASSUME NEW x \in Nat, NEW y \in Nat, NEW n \in Nat \ {0}, x <= y
  PROVE  x \div n <= y \div n
<1> DEFINE p == x \div n
           q == y \div n
<1>1. p \in Nat /\ p * n <= x  BY QuotientBounds
<1>2. q \in Nat /\ y < q * n + n  BY QuotientBounds
<1> HIDE DEF p, q
<1>3. ASSUME q < p PROVE FALSE
  <2>1. (q + 1) * n <= p * n  BY <1>1, <1>2, <1>3
  <2>2. (q + 1) * n = q * n + n  BY <1>2
  <2>3. p * n \in Nat /\ q * n \in Nat  BY <1>1, <1>2
  <2> QED  BY <1>1, <1>2, <2>1, <2>2, <2>3
<1>4. p <= q  BY <1>1, <1>2, <1>3
<1> QED  BY <1>4 DEF p, q

LEMMA TimesMonotone ==
  ASSUME NEW x \in Nat, NEW y \in Nat, NEW n \in Nat, x <= y
  PROVE  /\ x * n \in Nat /\ y * n \in Nat
         /\ x * n <= y * n
OBVIOUS

LEMMA SubAntitone ==
  ASSUME NEW s \in Nat, NEW a \in Nat, NEW b \in Nat, a <= b
  PROVE  Sub(s, b) <= Sub(s, a)
BY DEF Sub

\* The anchor of a client that was just looked at is not later than that.
LEMMA AnchorNotLater ==
  ASSUME NEW c \in Client, NEW now \in Nat, c.decay_at <= now
  PROVE  Decayed(c, now).decay_at \in Nat /\ Decayed(c, now).decay_at <= now
<1> DEFINE n == AtLeastOne(config.decay_interval)
           k == DecaySteps(c, now)
           da == c.decay_at
<1>1. n \in Nat \ {0} /\ k \in Nat /\ da \in Nat  BY StepsType DEF Client
<1>2. Decayed(c, now).decay_at = da + k * n
  BY DEF Decayed, AnchorAfter, Client
<1>3. k = Sub(now, da) \div n  BY DEF DecaySteps
<1> HIDE DEF n, k
<1>4. Sub(now, da) \in Nat /\ Sub(now, da) + da = now  BY <1>1 DEF Sub
<1>5. k * n \in Nat /\ k * n <= Sub(now, da)  BY <1>1, <1>3, <1>4, QuotientBounds
<1> QED  BY <1>1, <1>2, <1>4, <1>5

\* What some seconds drain of the score, at the least.
Drain(secs) ==
  (secs \div AtLeastOne(config.decay_interval)) * config.decay_amount

LEMMA ScoreLater ==
  ASSUME NEW c \in Client, NEW now \in Nat, NEW secs \in Nat,
         c.decay_at <= now
  PROVE  /\ Drain(secs) \in Nat
         /\ ScoreAt(c, now + secs) <= Sub(ScoreAt(c, now), Drain(secs))
<1> DEFINE n == AtLeastOne(config.decay_interval)
           d == Decayed(c, now)
           t == now + secs
           a == config.decay_amount
           m == DecaySteps(d, t)
           q == secs \div n
<1>1. n \in Nat \ {0} /\ a \in Nat  BY StepsType, ConfigAssumption
<1>2. d \in Client /\ d.score \in Nat /\ d.score = ScoreAt(c, now)
  <2>1. d \in Client  BY DecayedType
  <2>2. d.score = ScoreAt(c, now)  BY DEF ScoreAt
  <2> HIDE DEF d
  <2>3. d.score \in Nat  BY <2>1, SizeAssumption DEF Client
  <2> QED  BY <2>1, <2>2, <2>3
<1>3. d.decay_at \in Nat /\ d.decay_at <= now  BY AnchorNotLater
<1>4. t \in Nat /\ now <= t  OBVIOUS
<1>5. ScoreAt(c, t) = ScoreAt(d, t)  BY <1>4, DecayTwice
<1> HIDE DEF d
<1>6. ScoreAt(d, t) = Sub(d.score, m * a)  BY <1>2, ScoreAtIs
<1>7. m = Sub(t, d.decay_at) \div n  BY DEF DecaySteps
<1>8. Sub(t, d.decay_at) \in Nat /\ secs <= Sub(t, d.decay_at)
  BY <1>3 DEF Sub
<1> HIDE DEF n
<1>9. q \in Nat  BY <1>1, QuotientBounds
<1>10. q <= m /\ m \in Nat
  <2> DEFINE y == Sub(t, d.decay_at)
  <2>1. m = y \div n /\ y \in Nat /\ secs <= y  BY <1>7, <1>8
  <2> HIDE DEF m, t, y
  <2>2. y \div n \in Nat  BY <1>1, <2>1, QuotientBounds
  <2>3. q <= y \div n  BY <1>1, <2>1, QuotientMonotone
  <2> QED  BY <2>1, <2>2, <2>3
<1>11. Drain(secs) = q * a  BY DEF Drain, n
<1> HIDE DEF m, q, a
<1>12. q * a \in Nat /\ m * a \in Nat /\ q * a <= m * a
  BY <1>1, <1>9, <1>10, TimesMonotone
<1>13. Sub(d.score, m * a) <= Sub(d.score, q * a)
  BY <1>2, <1>12, SubAntitone
<1> QED  BY <1>2, <1>5, <1>6, <1>11, <1>12, <1>13

-----------------------------------------------------------------------------
(* A client that loses replies: what one request does to it *)

\* At time t nothing is known of the client but its announce, the last of them
\* gap seconds ago, and it weighs no more than these connects and this score.
Within(c, t, connects, gap, score) ==
  /\ c.decay_at <= t
  /\ OnlyOf(c, announce)
  /\ SeenBy(c, t - gap)
  /\ c.connects <= connects
  /\ ScoreAt(c, t) <= score

LEMMA AnnounceUnmarked ==
  Unmarked(announce) /\ announce \in Request /\ announce.kind = "announce"
BY ClientAssumption DEF Unmarked, Request, Announces

LEMMA WithinMore ==
  ASSUME NEW c \in Client, NEW t \in Nat, NEW k \in Nat, NEW g \in Nat,
         NEW s \in Nat, Within(c, t, k, g, s),
         NEW l \in Nat, NEW h \in Nat, NEW r \in Nat, k <= l, h <= g, s <= r
  PROVE  Within(c, t, l, h, r)
<1>1. SeenBy(c, t - h)
  <2>1. \A i \in 1..Len(c.ring) : c.ring[i].at \in Nat  BY RingType
  <2> QED  BY <2>1 DEF Within, SeenBy
<1>2. c.connects \in Nat  BY SizeAssumption DEF Client
<1>3. ScoreAt(c, t) \in Nat  BY ScoreAtType, SizeAssumption
<1> QED  BY <1>1, <1>2, <1>3 DEF Within

\* Time widens the gap and drains the score.
LEMMA WithinLater ==
  ASSUME NEW c \in Client, NEW t \in Nat, NEW k \in Nat, NEW g \in Nat,
         NEW s \in Nat, Within(c, t, k, g, s), NEW secs \in Nat
  PROVE  /\ Drain(secs) \in Nat
         /\ Within(c, t + secs, k, g + secs, Sub(s, Drain(secs)))
<1> DEFINE x == ScoreAt(c, t)
           y == ScoreAt(c, t + secs)
           z == Drain(secs)
<1>1. c.decay_at \in Nat /\ c.decay_at <= t  BY DEF Within, Client
<1>2. z \in Nat /\ y <= Sub(x, z)  BY <1>1, ScoreLater
<1>3. x \in Nat /\ y \in Nat /\ x <= s
  <2>1. t + secs \in Nat  OBVIOUS
  <2> QED  BY <2>1, ScoreAtType, SizeAssumption DEF Within
<1> HIDE DEF x, y, z
<1>4. y <= Sub(s, z)  BY <1>2, <1>3 DEF Sub
<1>5. SeenBy(c, t + secs - (g + secs))
  <2>1. t + secs - (g + secs) = t - g  OBVIOUS
  <2> QED  BY <2>1 DEF Within
<1>6. c.decay_at <= t + secs  BY <1>1
<1> QED  BY <1>2, <1>4, <1>5, <1>6 DEF Within, y, z

LEMMA WithinNew ==
  ASSUME NEW t \in Nat, NEW k \in Nat, NEW g, NEW s \in Nat
  PROVE  Within(NewClient(t), t, k, g, s)
<1> DEFINE c == NewClient(t)
<1>1. c \in Client  BY NewClientType
<1>2. c.score = 0 /\ c.decay_at = t /\ c.connects = 0 /\ c.ring = <<>> /\ c.breadth = {}
  BY DEF NewClient
<1> HIDE DEF c
<1>3. ScoreAt(c, t) = 0
  <2>1. DecaySteps(c, t) * config.decay_amount \in Nat
    BY <1>1, StepsType, ConfigAssumption
  <2>2. ScoreAt(c, t) = Sub(c.score, DecaySteps(c, t) * config.decay_amount)
    BY <1>1, ScoreAtIs
  <2> QED  BY <1>2, <2>1, <2>2 DEF Sub
<1>4. OnlyOf(c, announce) /\ SeenBy(c, t - g)  BY <1>2 DEF OnlyOf, SeenBy
<1> QED  BY <1>2, <1>3, <1>4 DEF Within, c

\* A look at the client stores the score it has decayed to.
LEMMA WithinDecayed ==
  ASSUME NEW c \in Client, NEW t \in Nat, NEW k \in Nat, NEW g \in Nat,
         NEW s \in Nat, Within(c, t, k, g, s)
  PROVE  LET d == Decayed(c, t)
         IN  /\ d \in Client /\ d.score <= s /\ d.connects <= k
             /\ d.decay_at <= t /\ OnlyOf(d, announce) /\ SeenBy(d, t - g)
<1> DEFINE d == Decayed(c, t)
<1>1. d \in Client  BY DecayedType
<1>2. d.score = ScoreAt(c, t)  BY DEF ScoreAt
<1>3. d.ring = c.ring /\ d.breadth = c.breadth /\ d.connects = c.connects
  BY DEF Decayed, Client
<1>4. c.decay_at <= t  BY DEF Within
<1>5. d.decay_at <= t  BY <1>4, AnchorNotLater
<1> HIDE DEF d
<1>6. OnlyOf(d, announce) /\ SeenBy(d, t - g)  BY <1>3 DEF Within, OnlyOf, SeenBy
<1>7. d.score <= s /\ d.connects <= k  BY <1>2, <1>3 DEF Within
<1> QED  BY <1>1, <1>5, <1>6, <1>7 DEF d

\* The score a client is left with only decays.
LEMMA WithinStored ==
  ASSUME NEW f \in Client, NEW t \in Nat, NEW k \in Nat, NEW g \in Nat,
         NEW s \in Nat, f.score <= s, f.connects <= k,
         f.decay_at <= t, OnlyOf(f, announce), SeenBy(f, t - g)
  PROVE  Within(f, t, k, g, s)
<1>1. DecaySteps(f, t) * config.decay_amount \in Nat
  BY StepsType, ConfigAssumption
<1>2. ScoreAt(f, t) = Sub(f.score, DecaySteps(f, t) * config.decay_amount)
  BY ScoreAtIs
<1>3. f.score \in Nat  BY SizeAssumption DEF Client
<1>4. ScoreAt(f, t) <= s  BY <1>1, <1>2, <1>3 DEF Sub
<1> QED  BY <1>4 DEF Within
\* An announce uses up the connects, and scores only if it came too soon.
LEMMA AnnounceServed ==
  ASSUME NEW c \in Client, NEW t \in Nat, NEW k \in Nat, NEW g \in Nat,
         NEW s \in Nat, Within(c, t, k, g, s), NEW fast \in BOOLEAN
  PROVE  LET f == Fed(Decayed(c, t), announce, t, fast)
         IN  /\ f \in Client
             /\ f.score <= s + config.weight["interval"]
             /\ g >= config.reannounce_min_interval => f.score <= s
             /\ Within(f, t, 0, 0, f.score)
<1> DEFINE d == Decayed(c, t)
           f == Fed(d, announce, t, fast)
           R == Raised(d, announce, t, fast)
<1>1. /\ d \in Client /\ d.score <= s /\ d.decay_at <= t
      /\ OnlyOf(d, announce) /\ SeenBy(d, t - g)
  BY WithinDecayed
<1> HIDE DEF d
<1>2. f \in Client /\ f.decay_at = d.decay_at
  BY <1>1, FedType, FedAnchor, AnnounceUnmarked
<1>3. f = Announced(d, announce, t, fast)  BY AnnounceUnmarked DEF Fed
<1>4. f.score = Add(d.score, Points(R)) /\ f.connects = 0
  BY <1>1, <1>3 DEF Announced, Client
<1>5. \A i \in 1..Len(d.ring) : d.ring[i].at \in Nat  BY <1>1, RingType
<1>6. SeenBy(d, t)  BY <1>1, <1>5 DEF SeenBy
<1>7. OnlyOf(f, announce) /\ SeenBy(f, t)
  BY <1>1, <1>3, <1>6, RepeatingRemembered, AnnounceUnmarked
<1>8. /\ R \subseteq {"interval"}
      /\ SeenBy(d, t - config.reannounce_min_interval) => R = {}
  BY <1>1, RepeatingRaises, AnnounceUnmarked
<1> HIDE DEF f, R
<1>9. Points({}) = 0  BY DEF Points
<1>10. config.weight["interval"] \in Nat /\ config.reannounce_min_interval \in Nat
  BY ConfigAssumption DEF Signal
<1>11. Points({"interval"}) = config.weight["interval"]  BY <1>10 DEF Points
<1>12. R = {} \/ R = {"interval"}  BY <1>8
<1>13. d.score \in Nat /\ f.score \in Nat  BY <1>1, <1>2, SizeAssumption DEF Client
<1>14. f.score <= s + config.weight["interval"]
  BY <1>1, <1>4, <1>9, <1>10, <1>11, <1>12, <1>13, SizeAssumption DEF Add
<1>15. ASSUME g >= config.reannounce_min_interval PROVE f.score <= s
  <2>1. SeenBy(d, t - config.reannounce_min_interval)
    BY <1>1, <1>5, <1>10, <1>15 DEF SeenBy
  <2>2. f.score = Add(d.score, 0)  BY <1>4, <1>8, <1>9, <2>1
  <2> QED  BY <1>1, <1>13, <2>2, SizeAssumption DEF Add
<1>16. Within(f, t, 0, 0, f.score)
  <2>1. t - 0 = t  OBVIOUS
  <2>2. f.decay_at <= t /\ f.connects <= 0 /\ f.score <= f.score
    BY <1>1, <1>2, <1>4, <1>13
  <2> QED  BY <1>2, <1>7, <1>13, <2>1, <2>2, WithinStored
<1> QED  BY <1>2, <1>14, <1>15, <1>16 DEF f, d

\* A connect scores nothing within the burst.
LEMMA ConnectServed ==
  ASSUME NEW c \in Client, NEW t \in Nat, NEW k \in Nat, NEW g \in Nat,
         NEW s \in Nat, Within(c, t, k, g, s), NEW fast \in BOOLEAN,
         k < config.connect_burst
  PROVE  LET f == Fed(Decayed(c, t), [kind |-> "connect"], t, fast)
         IN  f \in Client /\ f.score <= s /\ Within(f, t, k + 1, g, s)
<1> DEFINE d == Decayed(c, t)
           r == [kind |-> "connect"]
           f == Fed(d, r, t, fast)
<1>1. /\ d \in Client /\ d.score <= s /\ d.connects <= k
      /\ d.decay_at <= t /\ OnlyOf(d, announce) /\ SeenBy(d, t - g)
  BY WithinDecayed
<1> HIDE DEF d
<1>2. r \in Request  BY DEF Request, Others
<1>3. f \in Client /\ f.decay_at = d.decay_at
  BY <1>1, <1>2, FedType, FedAnchor
<1>4. f = Connected(d)  BY DEF Fed
<1>5. /\ d.connects \in Nat /\ Add(d.connects, 1) \in Nat
      /\ Add(d.connects, 1) <= d.connects + 1
  <2>1. d.connects \in 0..U32_MAX /\ U32_MAX \in Nat
    BY <1>1, SizeAssumption DEF Client
  <2> QED  BY <2>1 DEF Add
<1>6. ~(Add(d.connects, 1) > config.connect_burst)
  BY <1>1, <1>5, ConfigAssumption
<1>7. f = [d EXCEPT !.connects = Add(d.connects, 1), !.score = d.score]
  BY <1>1, <1>4, <1>6 DEF Connected, Client
<1>8. /\ f.score = d.score /\ f.connects = Add(d.connects, 1)
      /\ f.ring = d.ring /\ f.breadth = d.breadth
  BY <1>1, <1>7 DEF Client
<1> HIDE DEF f
<1>9. OnlyOf(f, announce) /\ SeenBy(f, t - g)
  BY <1>1, <1>8 DEF OnlyOf, SeenBy
<1>10. f.score <= s /\ f.connects <= k + 1 /\ f.decay_at <= t /\ k + 1 \in Nat
  BY <1>1, <1>3, <1>5, <1>8
<1>11. Within(f, t, k + 1, g, s)  BY <1>3, <1>9, <1>10, WithinStored
<1> QED  BY <1>3, <1>10, <1>11 DEF f, d

\* A refused id scores its weight.
LEMMA MismatchServed ==
  ASSUME NEW c \in Client, NEW t \in Nat, NEW k \in Nat, NEW g \in Nat,
         NEW s \in Nat, Within(c, t, k, g, s), NEW fast \in BOOLEAN
  PROVE  LET f == Fed(Decayed(c, t), [kind |-> "mismatch"], t, fast)
             r == s + config.weight["connid"]
         IN  f \in Client /\ f.score <= r /\ Within(f, t, k, g, r)
<1> DEFINE d == Decayed(c, t)
           m == [kind |-> "mismatch"]
           f == Fed(d, m, t, fast)
           r == s + config.weight["connid"]
<1>1. /\ d \in Client /\ d.score <= s /\ d.connects <= k
      /\ d.decay_at <= t /\ OnlyOf(d, announce) /\ SeenBy(d, t - g)
  BY WithinDecayed
<1> HIDE DEF d
<1>2. m \in Request  BY DEF Request, Others
<1>3. f \in Client /\ f.decay_at = d.decay_at
  BY <1>1, <1>2, FedType, FedAnchor
<1>4. f = Mismatched(d)  BY DEF Fed
<1>5. /\ f.score = Add(d.score, config.weight["connid"])
      /\ f.connects = d.connects /\ f.ring = d.ring /\ f.breadth = d.breadth
  BY <1>1, <1>4 DEF Mismatched, Client
<1> HIDE DEF f
<1>6. config.weight["connid"] \in Nat  BY ConfigAssumption DEF Signal
<1>7. d.score \in Nat  BY <1>1, SizeAssumption DEF Client
<1>8. r \in Nat /\ f.score <= r
  BY <1>1, <1>5, <1>6, <1>7, SizeAssumption DEF Add
<1>9. OnlyOf(f, announce) /\ SeenBy(f, t - g)
  BY <1>1, <1>5 DEF OnlyOf, SeenBy
<1>10. f.connects <= k /\ f.decay_at <= t  BY <1>1, <1>3, <1>5
<1>11. Within(f, t, k, g, r)
  <2> HIDE DEF r
  <2> QED  BY <1>3, <1>8, <1>9, <1>10, WithinStored
<1> QED  BY <1>3, <1>8, <1>11 DEF f, d

-----------------------------------------------------------------------------
(* A client that loses replies: what weighs on it *)

\* The score of that many refused ids and of that many announces too soon.
Worth(refusals, repeats) ==
  refusals * config.weight["connid"] + repeats * config.weight["interval"]

LEMMA WorthMonotone ==
  ASSUME NEW a \in Nat, NEW b \in Nat, NEW c \in Nat, NEW d \in Nat,
         a <= c, b <= d
  PROVE  Worth(a, b) \in Nat /\ Worth(c, d) \in Nat /\ Worth(a, b) <= Worth(c, d)
<1> DEFINE x == config.weight["connid"]
           y == config.weight["interval"]
<1>1. x \in Nat /\ y \in Nat  BY ConfigAssumption DEF Signal
<1> HIDE DEF x, y
<1>2. a * x \in Nat /\ c * x \in Nat /\ a * x <= c * x  BY <1>1, TimesMonotone
<1>3. b * y \in Nat /\ d * y \in Nat /\ b * y <= d * y  BY <1>1, TimesMonotone
<1>4. Worth(a, b) = a * x + b * y /\ Worth(c, d) = c * x + d * y
  BY DEF Worth, x, y
<1> QED  BY <1>2, <1>3, <1>4

LEMMA WorthOneMore ==
  ASSUME NEW a \in Nat, NEW b \in Nat
  PROVE  /\ Worth(a + 1, b) = Worth(a, b) + config.weight["connid"]
         /\ Worth(a, b + 1) = Worth(a, b) + config.weight["interval"]
<1> DEFINE x == config.weight["connid"]
           y == config.weight["interval"]
<1>1. x \in Nat /\ y \in Nat  BY ConfigAssumption DEF Signal
<1> HIDE DEF x, y
<1>2. (a + 1) * x = a * x + x /\ (b + 1) * y = b * y + y  BY <1>1
<1>3. a * x \in Nat /\ b * y \in Nat  BY <1>1
<1>4. /\ Worth(a, b) = a * x + b * y /\ Worth(a + 1, b) = (a + 1) * x + b * y
      /\ Worth(a, b + 1) = a * x + (b + 1) * y
  BY DEF Worth, x, y
<1>5. /\ Worth(a + 1, b) = Worth(a, b) + x /\ Worth(a, b + 1) = Worth(a, b) + y
  BY <1>1, <1>2, <1>3, <1>4
<1> QED  BY <1>5 DEF x, y

\* All that may weigh on the client at once is no ban.
LEMMA WorthTolerated ==
  ASSUME NEW a \in 0..REFUSALS, NEW b \in 0..MaxLost
  PROVE  Worth(a, b) \in Nat /\ Worth(a, b) < config.score_ban_threshold
<1>1. MaxLost \in Nat /\ REFUSALS \in Nat  BY ClientAssumption DEF REFUSALS
<1>2. Worth(REFUSALS, MaxLost) < config.score_ban_threshold
  BY ToleranceAssumption DEF Worth
<1>3. /\ Worth(a, b) \in Nat /\ Worth(REFUSALS, MaxLost) \in Nat
      /\ Worth(a, b) <= Worth(REFUSALS, MaxLost)
  BY <1>1, WorthMonotone
<1>4. config.score_ban_threshold \in Nat  BY ConfigAssumption
<1> QED  BY <1>2, <1>3, <1>4

\* An interval drains what the announces too soon scored.
LEMMA WorthDrained ==
  ASSUME NEW interval \in Intervals, Drain(interval) \in Nat
  PROVE  Sub(Worth(REFUSALS, MaxLost), Drain(interval)) <= Worth(REFUSALS, 0)
<1> DEFINE x == REFUSALS * config.weight["connid"]
           y == MaxLost * config.weight["interval"]
           z == Drain(interval)
<1>1. config.weight["connid"] \in Nat /\ config.weight["interval"] \in Nat
  BY ConfigAssumption DEF Signal
<1>2. x \in Nat /\ y \in Nat  BY <1>1, ClientAssumption DEF REFUSALS
<1>3. y <= z  BY ToleranceAssumption DEF Drain
<1>4. 0 * config.weight["interval"] = 0  BY <1>1
<1>5. Worth(REFUSALS, MaxLost) = x + y /\ Worth(REFUSALS, 0) = x
  BY <1>2, <1>4 DEF Worth
<1> HIDE DEF x, y, z
<1> QED  BY <1>2, <1>3, <1>5 DEF Sub, z

\* The client's last request was served, and it was one of that turn.
Served(t) == turn = t /\ Busy = {}

\* The turns of a request that an id goes with.
UsingId == turn \in {"announce", "announce_sent", "refused"}

\* How often a stale id was refused before the client waits t for an answer.
RefusedBefore(t) ==
  IF t = FIRST_TIMEOUT THEN 0 ELSE IF t = 2 * FIRST_TIMEOUT THEN 1 ELSE 2

\* The refusals of one id that may still weigh on the client.
Refusals ==
  IF stale /\ UsingId
  THEN RefusedBefore(timeout) + (IF Served("refused") THEN 1 ELSE 0)
  ELSE REFUSALS

\* The announces too soon that may: those of the last interval, until the wait
\* is over, and those of this one, the first of which was in time.
Repeats ==
  IF turn = "wait" THEN MaxLost
  ELSE IF Served("announce_sent") THEN lost ELSE Sub(lost, 1)

\* The connects since its last announce.
Connects ==
  IF turn = "wait" \/ Served("announce_sent") THEN 0
  ELSE IF Served("connect_sent") \/ turn = "announce_sent" \/ (turn = "announce" /\ ~stale)
  THEN lost + 1 ELSE lost

\* An announce before any was lost is the first since the wait.
Gap ==
  IF lost = 0 /\ turn # "wait" /\ ~Served("announce_sent")
  THEN config.reannounce_min_interval ELSE 0

\* It gives an id up before it was refused too often.
LossTurn ==
  /\ turn \in {"connect", "connect_sent", "announce", "announce_sent", "refused", "wait"}
  /\ idAt \in Nat /\ stale \in BOOLEAN /\ timeout \in Nat /\ lost \in 0..MaxLost
  /\ turn = "announce_sent" => ~stale
  /\ turn = "refused" => stale
  /\ turn = "wait" => lost = 0
  /\ UsingId => /\ timeout \in {FIRST_TIMEOUT, 2 * FIRST_TIMEOUT, 4 * FIRST_TIMEOUT}
                /\ wall - idAt >= timeout - FIRST_TIMEOUT

\* What it sends in that turn.
Asks(r) ==
  \/ turn = "connect_sent"  /\ r = [kind |-> "connect"]
  \/ turn = "announce_sent" /\ r = announce
  \/ turn = "refused"       /\ r = [kind |-> "mismatch"]

\* One datagram at a time, and of this second.
LossSent ==
  /\ clock = wall
  /\ \A w \in Busy :
       /\ handling[w].ip = client /\ handling[w].now = wall /\ ~handling[w].ban
       /\ Asks(handling[w].request)
       /\ \A v \in Busy : v = w

LossKnown ==
  client \in Tracked =>
    Within(clients[client], wall, Connects, Gap, Worth(Refusals, Repeats))

\* The inductive invariant.
LossInv == TypeOK /\ LossTurn /\ LossSent /\ LossKnown /\ crossings[client] = 0

LEMMA LossNumbers ==
  ASSUME LossTurn
  PROVE  /\ Refusals \in 0..REFUSALS /\ Repeats \in 0..MaxLost
         /\ Connects \in 0..(MaxLost + 1) /\ Gap \in Nat
<1>1. MaxLost \in Nat /\ config.reannounce_min_interval \in Nat
  BY ClientAssumption, ConfigAssumption
<1>2. lost \in 0..MaxLost  BY DEF LossTurn
<1>3. Refusals \in 0..REFUSALS  BY DEF Refusals, RefusedBefore, REFUSALS
<1>4. Repeats \in 0..MaxLost  BY <1>1, <1>2 DEF Repeats, Sub
<1>5. Connects \in 0..(MaxLost + 1)  BY <1>1, <1>2 DEF Connects
<1>6. Gap \in Nat  BY <1>1 DEF Gap
<1> QED  BY <1>3, <1>4, <1>5, <1>6

LEMMA StartLoss == ASSUME Start PROVE LossInv
<1>1. TypeOK  BY InitType DEF Start
<1>2. LossTurn
  <2>1. /\ turn = "connect" /\ idAt = 0 /\ stale = FALSE
        /\ timeout = 15 /\ lost = 0
    BY DEF Start, FIRST_TIMEOUT
  <2>2. lost \in 0..MaxLost  BY <2>1, ClientAssumption
  <2> QED  BY <2>1, <2>2 DEF LossTurn, UsingId
<1>3. LossSent  BY DEF Start, Init, LossSent, Busy
<1>4. LossKnown  BY DEF Start, Init, LossKnown, Tracked
<1>5. crossings[client] = 0  BY ClientAssumption DEF Start, Init
<1> QED  BY <1>1, <1>2, <1>3, <1>4, <1>5 DEF LossInv

\* Steps that leave the client's record alone, after some seconds or none.
LEMMA LossFrame ==
  ASSUME LossInv, NEW secs \in Nat, wall' = wall + secs, clients' = clients,
         Connects' \in Nat, Connects <= Connects',
         Gap' \in Nat, Gap' <= Gap + secs,
         Refusals' \in Nat, Refusals <= Refusals',
         Repeats' \in Nat, Repeats <= Repeats'
  PROVE  LossKnown'
<1> DEFINE c == clients[client]
           k == Connects'
           g == Gap'
           s == Worth(Refusals, Repeats)
           r == Worth(Refusals', Repeats')
<1>1. SUFFICES ASSUME client \in Tracked
               PROVE  Within(c, wall + secs, k, g, r)
  BY DEF LossKnown, Tracked
<1>2. c \in Client /\ wall \in Nat  BY <1>1 DEF LossInv, TypeOK
<1>3. Refusals \in Nat /\ Repeats \in Nat /\ Connects \in Nat /\ Gap \in Nat
  BY LossNumbers, ClientAssumption DEF LossInv
<1>4. s \in Nat /\ r \in Nat /\ s <= r  BY <1>3, WorthMonotone
<1>5. Within(c, wall, Connects, Gap, s)  BY <1>1 DEF LossInv, LossKnown
<1> HIDE DEF c, k, g, s, r
<1>6. /\ Drain(secs) \in Nat
      /\ Within(c, wall + secs, Connects, Gap + secs, Sub(s, Drain(secs)))
  BY <1>2, <1>3, <1>4, <1>5, WithinLater
<1>7. Sub(s, Drain(secs)) \in Nat /\ Sub(s, Drain(secs)) <= r
  BY <1>4, <1>6 DEF Sub
<1>8. k \in Nat /\ Connects <= k /\ g \in Nat /\ g <= Gap + secs
  BY DEF k, g
<1>9. wall + secs \in Nat /\ Gap + secs \in Nat  BY <1>2, <1>3
<1> DEFINE t == wall + secs
           h == Gap + secs
           v == Sub(s, Drain(secs))
           n == Connects
<1>10. /\ Within(c, t, n, h, v) /\ c \in Client
       /\ t \in Nat /\ n \in Nat /\ h \in Nat /\ v \in Nat
       /\ k \in Nat /\ g \in Nat /\ r \in Nat /\ n <= k /\ g <= h /\ v <= r
  BY <1>2, <1>3, <1>4, <1>6, <1>7, <1>8, <1>9
<1> HIDE DEF t, h, v, n
<1>11. Within(c, t, k, g, r)  BY <1>10, WithinMore
<1> QED  BY <1>11 DEF t

\* Where LossFrame's numbers are those of a step that takes no time.
LEMMA LossSame ==
  ASSUME LossInv, wall' = wall, clients' = clients,
         Connects' = Connects, Gap' <= Gap, Gap' \in Nat,
         Refusals' \in Nat, Refusals <= Refusals',
         Repeats' \in Nat, Repeats <= Repeats'
  PROVE  LossKnown'
<1>1. wall \in Nat  BY DEF LossInv, TypeOK
<1>2. Connects \in Nat /\ Gap \in Nat
  BY LossNumbers, ClientAssumption DEF LossInv
<1>3. wall' = wall + 0 /\ Connects' \in Nat /\ Connects <= Connects' /\ Gap' <= Gap + 0
  BY <1>1, <1>2
<1> QED  BY <1>3, LossFrame

LEMMA ConnectLoss ==
  ASSUME LossInv, NEW w \in Worker, Connect(w)
  PROVE  LossInv'
<1>1. /\ turn = "connect" /\ turn' = "connect_sent" /\ Busy = {}
      /\ UNCHANGED <<idAt, stale, timeout, lost, restarts>>
      /\ UNCHANGED <<wall, clock, clients, crossings>>
      /\ Receive(w, client, [kind |-> "connect"])
  BY DEF Connect, Receive
<1>2. TypeOK'  BY <1>1, ReceiveType, ClientAssumption DEF LossInv
<1>3. LossTurn'  BY <1>1 DEF LossInv, LossTurn, UsingId
<1>4. /\ Busy' = {w}
      /\ handling'[w] = [ip |-> client, now |-> clock,
                         request |-> [kind |-> "connect"], ban |-> FALSE]
  BY <1>1 DEF Receive, With, Busy
<1>5. LossSent'  BY <1>1, <1>4 DEF LossInv, LossSent, Asks
<1>6. LossKnown'
  <2>1. /\ Refusals \in Nat /\ Repeats \in Nat /\ Connects \in Nat /\ Gap \in Nat
    BY LossNumbers, ClientAssumption DEF LossInv, REFUSALS
  <2>2. Refusals' = Refusals  BY <1>1 DEF Refusals, UsingId
  <2>3. Repeats' = Repeats  BY <1>1 DEF Repeats, Served
  <2>4. Connects' = Connects  BY <1>1, <1>4 DEF Connects, Served
  <2>5. Gap' = Gap  BY <1>1 DEF Gap, Served
  <2> QED  BY <1>1, <2>1, <2>2, <2>3, <2>4, <2>5, LossSame
<1> QED  BY <1>1, <1>2, <1>3, <1>5, <1>6 DEF LossInv

LEMMA AnnounceLoss ==
  ASSUME LossInv, NEW w \in Worker, Announce(w)
  PROVE  LossInv'
<1> DEFINE r == IF stale THEN [kind |-> "mismatch"] ELSE announce
<1>1. /\ turn = "announce" /\ Busy = {}
      /\ turn' = IF stale THEN "refused" ELSE "announce_sent"
      /\ UNCHANGED <<idAt, stale, timeout, lost, restarts>>
      /\ UNCHANGED <<wall, clock, clients, crossings>>
      /\ Receive(w, client, r)
  BY DEF Announce, Receive
<1>2. TypeOK'  BY <1>1, ReceiveType, ClientAssumption DEF LossInv
<1>3. LossTurn'  BY <1>1 DEF LossInv, LossTurn, UsingId
<1>4. /\ Busy' = {w}
      /\ handling'[w] = [ip |-> client, now |-> clock, request |-> r, ban |-> FALSE]
  BY <1>1 DEF Receive, With, Busy
<1>5. LossSent'
  <2>1. clock' = wall'  BY <1>1 DEF LossInv, LossSent
  <2>2. /\ handling'[w].ip = client /\ handling'[w].now = wall'
        /\ ~handling'[w].ban /\ handling'[w].request = r
    BY <1>1, <1>4, <2>1
  <2>3. CASE stale
    <3>1. handling'[w].request = [kind |-> "mismatch"] /\ turn' = "refused"
      BY <1>1, <2>2, <2>3
    <3> QED  BY <1>4, <2>1, <2>2, <3>1 DEF LossSent, Asks
  <2>4. CASE ~stale
    <3>1. handling'[w].request = announce /\ turn' = "announce_sent"
      BY <1>1, <2>2, <2>4
    <3> QED  BY <1>4, <2>1, <2>2, <3>1 DEF LossSent, Asks
  <2> QED  BY <2>3, <2>4
<1>6. LossKnown'
  <2>1. /\ Refusals \in Nat /\ Repeats \in Nat /\ Connects \in Nat /\ Gap \in Nat
    BY LossNumbers, ClientAssumption DEF LossInv, REFUSALS
  <2>2. Refusals' = Refusals  BY <1>1, <1>4 DEF Refusals, UsingId, Served, RefusedBefore
  <2>3. Repeats' = Repeats  BY <1>1, <1>4 DEF Repeats, Served
  <2>4. Connects' = Connects  BY <1>1, <1>4 DEF Connects, Served, LossInv, LossTurn
  <2>5. Gap' = Gap  BY <1>1, <1>4 DEF Gap, Served
  <2> QED  BY <1>1, <2>1, <2>2, <2>3, <2>4, <2>5, LossSame
<1> QED  BY <1>1, <1>2, <1>3, <1>5, <1>6 DEF LossInv

\* The datagram of the client finds what is known of it, or a new client.
LEMMA LossScored ==
  ASSUME LossInv, NEW w \in Busy
  PROVE  \E c \in Client, fast \in BOOLEAN :
           /\ Within(c, wall, Connects, Gap, Worth(Refusals, Repeats))
           /\ Scored(handling[w]) = Fed(Decayed(c, wall), handling[w].request, wall, fast)
<1> DEFINE c == IF client \in Tracked THEN clients[client] ELSE NewClient(wall)
           fast == Fast(client, wall)
<1>1. wall \in Nat /\ fast \in BOOLEAN  BY DEF LossInv, TypeOK, Fast
<1>2. c \in Client  BY <1>1, NewClientType DEF LossInv, TypeOK
<1>3. Connects \in Nat /\ Gap \in Nat /\ Refusals \in Nat /\ Repeats \in Nat
  BY LossNumbers, ClientAssumption DEF LossInv, REFUSALS
<1>4. Worth(Refusals, Repeats) \in Nat  BY <1>3, WorthMonotone
<1>5. Within(c, wall, Connects, Gap, Worth(Refusals, Repeats))
  BY <1>1, <1>3, <1>4, WithinNew DEF LossInv, LossKnown
<1>6. handling[w].ip = client /\ handling[w].now = wall
  BY DEF LossInv, LossSent
<1>7. Scored(handling[w]) = Fed(Decayed(c, wall), handling[w].request, wall, fast)
  BY <1>6 DEF Scored
<1> HIDE DEF c, fast
<1> QED  BY <1>1, <1>2, <1>5, <1>7

\* What a request does to the client, as numbers of the state it leaves.
LEMMA LossFed ==
  ASSUME LossInv, NEW w \in Busy, turn' = turn,
         UNCHANGED <<wall, stale, timeout, lost>>
  PROVE  LET f == Scored(handling[w])
         IN  /\ f.score < config.score_ban_threshold
             /\ Busy' = {} =>
                  Within(f, wall, Connects', Gap', Worth(Refusals', Repeats'))
<1> DEFINE r == handling[w].request
           f == Scored(handling[w])
           k == Connects
           g == Gap
           s == Worth(Refusals, Repeats)
<1>1. wall \in Nat /\ lost \in 0..MaxLost /\ MaxLost \in Nat
  BY ClientAssumption DEF LossInv, TypeOK, LossTurn
<1>2. /\ k \in Nat /\ g \in Nat /\ Refusals \in 0..REFUSALS
      /\ Repeats \in 0..MaxLost /\ Refusals \in Nat /\ Repeats \in Nat
  BY LossNumbers, <1>1 DEF LossInv, REFUSALS
<1>3. s \in Nat /\ s < config.score_ban_threshold  BY <1>2, WorthTolerated
<1>4. PICK c \in Client, fast \in BOOLEAN :
        /\ Within(c, wall, k, g, s)
        /\ f = Fed(Decayed(c, wall), r, wall, fast)
  BY LossScored
<1>5. config.score_ban_threshold \in Nat /\ config.connect_burst \in Nat
  BY ConfigAssumption
<1>6. Busy # {}  OBVIOUS
<1>7. CASE turn = "connect_sent" /\ r = [kind |-> "connect"]
  <2>1. k = lost  BY <1>6, <1>7 DEF Connects, Served
  <2>2. Busy' = {} => Connects' = k + 1  BY <1>7, <2>1 DEF Connects, Served
  <2>3. Gap' = g  BY <1>7 DEF Gap, Served
  <2>4. Refusals' = Refusals  BY <1>7 DEF Refusals, UsingId
  <2>5. Repeats' = Repeats  BY <1>7 DEF Repeats, Served
  <2>6. k < config.connect_burst
    BY <1>1, <1>5, <2>1, ToleranceAssumption
  <2> HIDE DEF f, k, g, s
  <2>7. f \in Client /\ f.score <= s /\ Within(f, wall, k + 1, g, s)
    BY <1>1, <1>2, <1>3, <1>4, <1>7, <2>6, ConnectServed
  <2>8. f.score \in Nat  BY <2>7, SizeAssumption DEF Client
  <2>9. f.score < config.score_ban_threshold  BY <1>3, <1>5, <2>7, <2>8
  <2> QED  BY <2>2, <2>3, <2>4, <2>5, <2>7, <2>9 DEF f, s
<1>8. CASE turn = "announce_sent" /\ r = announce
  <2>1. Busy' = {} => Connects' = 0 /\ Gap' = 0
    BY <1>8 DEF Connects, Gap, Served
  <2>2. Refusals' = Refusals
    BY <1>8 DEF Refusals, UsingId, LossInv, LossTurn
  <2>3. Busy' = {} => Repeats' = lost  BY <1>8 DEF Repeats, Served
  <2>4. Repeats = Sub(lost, 1)  BY <1>6, <1>8 DEF Repeats, Served
  <2>5. Worth(Refusals, lost) \in Nat
        /\ Worth(Refusals, lost) < config.score_ban_threshold
    BY <1>1, <1>2, WorthTolerated
  <2> DEFINE u == Worth(Refusals, lost)
  <2>6. f \in Client /\ f.score <= u /\ Within(f, wall, 0, 0, f.score)
    <3>1. CASE lost = 0
      <4>1. g >= config.reannounce_min_interval
        <5>1. g = config.reannounce_min_interval
          BY <1>6, <1>8, <3>1 DEF Gap, Served
        <5> QED  BY <5>1, ConfigAssumption
      <4>2. s = u  BY <2>4, <3>1 DEF Sub
      <4> HIDE DEF f, k, g, s, u
      <4> QED  BY <1>1, <1>2, <1>3, <1>4, <1>8, <4>1, <4>2, AnnounceServed
    <3>2. CASE lost # 0
      <4>1. Repeats + 1 = lost  BY <1>1, <2>4, <3>2 DEF Sub
      <4>2. u = s + config.weight["interval"]
        BY <1>2, <4>1, WorthOneMore
      <4> HIDE DEF f, k, g, s, u
      <4> QED  BY <1>1, <1>2, <1>3, <1>4, <1>8, <4>2, AnnounceServed
    <3> QED  BY <3>1, <3>2
  <2>7. u \in Nat /\ u < config.score_ban_threshold  BY <2>5
  <2> HIDE DEF f, u
  <2>8. f.score \in Nat  BY <2>6, SizeAssumption DEF Client
  <2>9. f.score < config.score_ban_threshold
    BY <1>5, <2>6, <2>7, <2>8
  <2>10. Within(f, wall, 0, 0, u)  BY <1>1, <2>6, <2>7, <2>8, WithinMore
  <2> QED  BY <2>1, <2>2, <2>3, <2>9, <2>10 DEF f, u
<1>9. CASE turn = "refused" /\ r = [kind |-> "mismatch"]
  <2>1. stale  BY <1>9 DEF LossInv, LossTurn
  <2>2. Connects' = k  BY <1>9 DEF Connects, Served
  <2>3. Gap' = g  BY <1>9 DEF Gap, Served
  <2>4. Busy' = {} => Refusals' = Refusals + 1
    BY <1>6, <1>9, <2>1 DEF Refusals, RefusedBefore, UsingId, Served
  <2>5. Refusals + 1 \in 0..REFUSALS
    BY <1>6, <1>9, <2>1 DEF Refusals, RefusedBefore, UsingId, Served, REFUSALS
  <2>6. Repeats' = Repeats  BY <1>9 DEF Repeats, Served
  <2> DEFINE u == Worth(Refusals + 1, Repeats)
  <2>7. u \in Nat /\ u < config.score_ban_threshold
    BY <1>2, <2>5, WorthTolerated
  <2>8. u = s + config.weight["connid"]  BY <1>2, WorthOneMore
  <2> HIDE DEF f, k, g, s, u
  <2>9. f \in Client /\ f.score <= u /\ Within(f, wall, k, g, u)
    BY <1>1, <1>2, <1>3, <1>4, <1>9, <2>8, MismatchServed
  <2>10. f.score \in Nat  BY <2>9, SizeAssumption DEF Client
  <2>11. f.score < config.score_ban_threshold  BY <1>5, <2>7, <2>9, <2>10
  <2> QED  BY <2>2, <2>3, <2>4, <2>6, <2>9, <2>11 DEF f, u
<1> QED  BY <1>7, <1>8, <1>9 DEF LossInv, LossSent, Asks

LEMMA ServeLoss ==
  ASSUME LossInv, NEW w \in Worker, Serve(w)
  PROVE  LossInv'
<1> DEFINE d == handling[w]
           f == Scored(d)
           age == [k \in InShard(ShardOf[d.ip]) |-> clients[k].last_seen]
<1>1. UNCHANGED <<turn, idAt, stale, timeout, lost>>
  BY DEF Serve, client_vars
<1>2. Observe(w) /\ w \in Busy
  <2>1. Observe(w) \/ Decide(w)  BY DEF Serve
  <2> QED  BY <2>1 DEF Decide, Observe, LossInv, LossSent
<1>3. d.ip = client /\ d.now = wall /\ Busy = {w} /\ clock = wall
  BY <1>2 DEF LossInv, LossSent
<1>4. TypeOK'  BY <1>2, ObserveType DEF LossInv
<1> HIDE DEF f
<1>5. PICK out \in Evictions(d.ip, age, PerShardCap) :
        /\ clients' = With(Without(clients, out), d.ip, Armed(f, d.now))
        /\ \/ /\ Crosses(f, d.now)
              /\ handling' = [handling EXCEPT ![w].ban = TRUE]
           \/ /\ ~Crosses(f, d.now)
              /\ handling' = Without(handling, {w})
              /\ UNCHANGED crossings
  BY <1>2 DEF Observe, f
<1>6. wall' = wall /\ clock' = clock  BY <1>2 DEF Observe
<1>7. f.score \in Nat /\ config.score_ban_threshold \in Nat
  <2>1. d \in Datagram  BY <1>2 DEF LossInv, TypeOK
  <2>2. f \in Client  BY <2>1, ScoredType DEF f, LossInv
  <2> QED  BY <2>2, SizeAssumption, ConfigAssumption DEF Client
<1>8. /\ f.score < config.score_ban_threshold
      /\ Busy' = {} =>
           Within(f, wall, Connects', Gap', Worth(Refusals', Repeats'))
  BY <1>1, <1>2, <1>6, LossFed DEF f
<1>9. ~Crosses(f, d.now)  BY <1>7, <1>8 DEF Crosses
<1>10. /\ clients' = With(Without(clients, out), client, f)
       /\ handling' = Without(handling, {w}) /\ crossings' = crossings
  BY <1>3, <1>5, <1>9 DEF Armed
<1>11. Busy' = {}  BY <1>3, <1>10 DEF Without, Busy
<1>12. clients'[client] = f  BY <1>10 DEF With
<1>13. LossTurn'  BY <1>1, <1>6 DEF LossInv, LossTurn, UsingId
<1>14. LossSent'  BY <1>3, <1>6, <1>11 DEF LossSent
<1>15. LossKnown'  BY <1>6, <1>8, <1>11, <1>12 DEF LossKnown
<1> QED  BY <1>4, <1>10, <1>13, <1>14, <1>15 DEF LossInv

LEMMA ConnectedLoss ==
  ASSUME LossInv, Connected_
  PROVE  LossInv'
<1>1. /\ turn = "connect_sent" /\ Busy = {} /\ turn' = "announce"
      /\ timeout' = FIRST_TIMEOUT /\ idAt' = wall /\ stale' = FALSE /\ lost' = lost
      /\ UNCHANGED <<wall, clock, clients, offenders, handling, verdict, sent,
                     banned, crossings>>
  BY DEF Connected_, vars, hidden
<1>2. TypeOK'  BY <1>1 DEF LossInv, TypeOK, Tracked, Busy
<1>3. Busy' = {}  BY <1>1 DEF Busy
<1>4. LossTurn'
  <2>1. wall \in Nat /\ lost \in 0..MaxLost  BY DEF LossInv, TypeOK, LossTurn
  <2>2. /\ timeout' = 15 /\ timeout' \in Nat /\ wall' - idAt' >= timeout' - 15
        /\ idAt' \in Nat
    BY <1>1, <2>1 DEF FIRST_TIMEOUT
  <2> QED  BY <1>1, <2>1, <2>2 DEF LossTurn, FIRST_TIMEOUT
<1>5. LossSent'  BY <1>1, <1>3 DEF LossInv, LossSent
<1>6. LossKnown'
  <2>1. /\ Refusals \in 0..REFUSALS /\ Repeats \in Nat /\ Connects \in Nat /\ Gap \in Nat
    BY LossNumbers, ClientAssumption DEF LossInv
  <2>2. Refusals' = REFUSALS  BY <1>1 DEF Refusals
  <2>3. REFUSALS \in Nat  BY DEF REFUSALS
  <2>4. Repeats' = Repeats  BY <1>1, <1>3 DEF Repeats, Served
  <2>5. Connects' = Connects  BY <1>1, <1>3 DEF Connects, Served
  <2>6. Gap' = Gap  BY <1>1, <1>3 DEF Gap, Served
  <2> QED  BY <1>1, <2>1, <2>2, <2>3, <2>4, <2>5, <2>6, LossSame
<1> QED  BY <1>1, <1>2, <1>4, <1>5, <1>6 DEF LossInv

LEMMA AnnouncedLoss ==
  ASSUME LossInv, Announced_
  PROVE  LossInv'
<1>1. /\ turn = "announce_sent" /\ Busy = {} /\ turn' = "wait"
      /\ timeout' = FIRST_TIMEOUT /\ lost' = 0 /\ idAt' = idAt /\ stale' = stale
      /\ UNCHANGED <<wall, clock, clients, offenders, handling, verdict, sent,
                     banned, crossings>>
  BY DEF Announced_, vars, hidden
<1>2. TypeOK'  BY <1>1 DEF LossInv, TypeOK, Tracked, Busy
<1>3. Busy' = {}  BY <1>1 DEF Busy
<1>4. LossTurn'
  BY <1>1, ClientAssumption DEF LossInv, LossTurn, UsingId, FIRST_TIMEOUT
<1>5. LossSent'  BY <1>1, <1>3 DEF LossInv, LossSent
<1>6. LossKnown'
  <2>1. /\ Refusals \in 0..REFUSALS /\ Repeats \in 0..MaxLost /\ Gap \in Nat
        /\ MaxLost \in Nat
    BY LossNumbers, ClientAssumption DEF LossInv
  <2>2. Refusals' = REFUSALS  BY <1>1 DEF Refusals, UsingId
  <2>3. REFUSALS \in Nat  BY DEF REFUSALS
  <2>4. Repeats' = MaxLost  BY <1>1, <1>3 DEF Repeats, Served
  <2>5. Connects' = Connects  BY <1>1, <1>3 DEF Connects, Served
  <2>6. Gap' = 0  BY <1>1, <1>3 DEF Gap, Served
  <2> QED  BY <1>1, <2>1, <2>2, <2>3, <2>4, <2>5, <2>6, LossSame
<1> QED  BY <1>1, <1>2, <1>4, <1>5, <1>6 DEF LossInv

\* The time until the next repetition doubles, so the third refusal of an id
\* comes when it is more than a minute old.
LEMMA TimeOutLoss ==
  ASSUME LossInv, TimeOut
  PROVE  LossInv'
<1>1. /\ turn \in {"connect_sent", "announce_sent", "refused"} /\ Busy = {}
      /\ turn # "refused" => lost < MaxLost
      /\ lost' = IF turn = "refused" THEN lost ELSE lost + 1
      /\ timeout' = 2 * timeout /\ wall' = wall + timeout /\ clock' = wall'
      /\ turn' = IF turn = "connect_sent" \/ wall' - idAt >= ID_LIFETIME
                 THEN "connect" ELSE "announce"
      /\ UNCHANGED <<clients, offenders, handling, verdict, sent, banned,
                     crossings, idAt, stale>>
  BY DEF TimeOut, Later, hidden
<1>2. /\ wall \in Nat /\ timeout \in Nat /\ idAt \in Nat /\ lost \in 0..MaxLost
      /\ MaxLost \in Nat /\ stale \in BOOLEAN
  BY ClientAssumption DEF LossInv, TypeOK, LossTurn
<1>3. wall' \in Nat /\ timeout' \in Nat /\ lost' \in 0..MaxLost
  BY <1>1, <1>2
<1>4. TypeOK'  BY <1>1, <1>3 DEF LossInv, TypeOK, Tracked, Busy
<1>5. Busy' = {}  BY <1>1 DEF Busy
<1>6. ASSUME turn' = "announce"
      PROVE  /\ UsingId
             /\ \/ timeout = FIRST_TIMEOUT /\ timeout' = 2 * FIRST_TIMEOUT
                \/ timeout = 2 * FIRST_TIMEOUT /\ timeout' = 4 * FIRST_TIMEOUT
             /\ wall' - idAt >= timeout' - FIRST_TIMEOUT
  <2>1. UsingId /\ wall' - idAt < ID_LIFETIME
    BY <1>1, <1>2, <1>3, <1>6 DEF UsingId, ID_LIFETIME
  <2>2. /\ timeout \in {FIRST_TIMEOUT, 2 * FIRST_TIMEOUT, 4 * FIRST_TIMEOUT}
        /\ wall - idAt >= timeout - FIRST_TIMEOUT
    BY <2>1 DEF LossInv, LossTurn
  <2> QED  BY <1>1, <1>2, <2>1, <2>2 DEF FIRST_TIMEOUT, ID_LIFETIME
<1>7. LossTurn'
  BY <1>1, <1>2, <1>3, <1>6 DEF LossTurn, UsingId
<1>8. LossSent'  BY <1>1, <1>5 DEF LossSent
<1>9. LossKnown'
  <2>1. /\ Refusals \in 0..REFUSALS /\ Repeats \in 0..MaxLost
        /\ Connects \in Nat /\ Gap \in Nat
    BY LossNumbers, <1>2 DEF LossInv
  <2>2. Refusals' \in Nat /\ Refusals <= Refusals'
    <3>1. CASE turn' = "announce" /\ stale
      <4>1. turn = "refused"  BY <1>1, <1>6, <3>1 DEF UsingId, LossInv, LossTurn
      <4>2. Refusals = RefusedBefore(timeout) + 1
        BY <1>1, <3>1, <4>1 DEF Refusals, UsingId, Served
      <4>3. Refusals' = RefusedBefore(timeout')
        <5>1. stale' /\ UsingId' /\ ~Served("refused")'
          BY <1>1, <3>1 DEF UsingId, Served
        <5>2. Refusals' = RefusedBefore(timeout') + 0  BY <5>1 DEF Refusals
        <5>3. RefusedBefore(timeout') \in Nat  BY DEF RefusedBefore
        <5> QED  BY <5>2, <5>3
      <4> QED  BY <1>6, <3>1, <4>2, <4>3 DEF RefusedBefore, FIRST_TIMEOUT
    <3>2. CASE ~(turn' = "announce" /\ stale)
      <4>1. Refusals' = REFUSALS  BY <1>1, <3>2 DEF Refusals, UsingId
      <4> QED  BY <2>1, <4>1 DEF REFUSALS
    <3> QED  BY <3>1, <3>2
  <2>3. Repeats' = Sub(lost', 1)  BY <1>1 DEF Repeats, Served
  <2>4. Repeats' \in Nat /\ Repeats <= Repeats'
    BY <1>1, <1>2, <1>3, <2>3 DEF Repeats, Served, Sub
  <2>5. Connects' \in Nat /\ Connects <= Connects'
    BY <1>1, <1>2, <1>3, <1>5 DEF Connects, Served, LossInv, LossTurn
  <2>6. Gap' \in Nat /\ Gap' <= Gap + timeout
    BY <1>1, <1>2, <2>1, ConfigAssumption DEF Gap, Served
  <2> QED  BY <1>1, <1>2, <2>2, <2>4, <2>5, <2>6, LossFrame
<1> QED  BY <1>1, <1>4, <1>7, <1>8, <1>9 DEF LossInv

\* While the client waits, its score drains by what its lost replies cost it.
LEMMA WaitLoss ==
  ASSUME LossInv, NEW interval \in Intervals, Wait(interval)
  PROVE  LossInv'
<1>1. /\ turn = "wait" /\ Busy = {} /\ turn' = "connect"
      /\ wall' = wall + interval /\ clock' = wall'
      /\ UNCHANGED <<clients, offenders, handling, verdict, sent, banned,
                     crossings, idAt, stale, timeout, lost>>
  BY DEF Wait, Later, hidden
<1>2. wall \in Nat /\ interval \in Nat /\ wall' \in Nat /\ MaxLost \in Nat
  BY <1>1, ClientAssumption DEF LossInv, TypeOK
<1>3. TypeOK'  BY <1>1, <1>2 DEF LossInv, TypeOK, Tracked, Busy
<1>4. Busy' = {}  BY <1>1 DEF Busy
<1>5. LossTurn'  BY <1>1 DEF LossInv, LossTurn, UsingId
<1>6. LossSent'  BY <1>1, <1>4 DEF LossSent
<1>7. LossKnown'
  <2> DEFINE c == clients[client]
             s == Worth(REFUSALS, MaxLost)
             r == Worth(REFUSALS, 0)
             v == Sub(s, Drain(interval))
             t == wall + interval
             m == config.reannounce_min_interval
  <2>1. lost = 0  BY <1>1 DEF LossInv, LossTurn
  <2>2. Connects = 0 /\ Gap = 0 /\ Refusals = REFUSALS /\ Repeats = MaxLost
    BY <1>1 DEF Connects, Gap, Refusals, Repeats, UsingId
  <2>3. Connects' = 0 /\ Gap' = m /\ Refusals' = REFUSALS /\ Repeats' = 0
    BY <1>1, <2>1 DEF Connects, Gap, Refusals, Repeats, UsingId, Served, Sub
  <2>4. SUFFICES ASSUME client \in Tracked
                 PROVE  Within(c, t, 0, m, r)
    BY <1>1, <2>3 DEF LossKnown, Tracked
  <2>5. c \in Client  BY <2>4 DEF LossInv, TypeOK
  <2>6. Within(c, wall, 0, 0, s)  BY <2>2, <2>4 DEF LossInv, LossKnown
  <2>7. s \in Nat /\ r \in Nat
    <3>1. REFUSALS \in Nat /\ REFUSALS <= REFUSALS  BY DEF REFUSALS
    <3>2. 0 \in Nat /\ 0 <= MaxLost  BY <1>2
    <3>3. Worth(REFUSALS, 0) \in Nat /\ Worth(REFUSALS, MaxLost) \in Nat
      <4> HIDE DEF s, r
      <4> QED  BY <1>2, <3>1, <3>2, WorthMonotone
    <3> QED  BY <3>3
  <2> HIDE DEF c, s, r, t
  <2>8. Drain(interval) \in Nat /\ Within(c, wall + interval, 0, 0 + interval, v)
    BY <1>2, <2>5, <2>6, <2>7, WithinLater
  <2>9. v \in Nat /\ v <= r
    <3>1. v <= r  BY <2>8, WorthDrained DEF s, r
    <3>2. v \in Nat  BY <2>7, <2>8 DEF Sub
    <3> QED  BY <3>1, <3>2
  <2>10. m \in Nat /\ m <= interval /\ t \in Nat /\ 0 + interval = interval
    BY <1>2, ConfigAssumption, ToleranceAssumption DEF t
  <2>11. Within(c, t, 0, interval, v)  BY <2>8, <2>10 DEF t
  <2> HIDE DEF v, m
  <2> QED  BY <1>2, <2>5, <2>7, <2>9, <2>10, <2>11, WithinMore
<1> QED  BY <1>1, <1>3, <1>5, <1>6, <1>7 DEF LossInv

\* A restart makes the id stale and forgets the client.
LEMMA RestartLoss ==
  ASSUME LossInv, Restart
  PROVE  LossInv'
<1>1. /\ Busy = {} /\ clients' = <<>> /\ offenders' = <<>> /\ banned' = <<>>
      /\ stale' = TRUE
      /\ turn' = IF turn = "announce_sent" THEN "refused" ELSE turn
      /\ UNCHANGED <<wall, clock, handling, verdict, sent, crossings, idAt,
                     timeout, lost>>
  BY DEF Restart
<1>2. TypeOK'  BY <1>1 DEF LossInv, TypeOK, Tracked, Busy
<1>3. Busy' = {}  BY <1>1 DEF Busy
<1>4. LossTurn'  BY <1>1 DEF LossInv, LossTurn, UsingId
<1>5. LossSent'  BY <1>1, <1>3 DEF LossInv, LossSent
<1>6. LossKnown'  BY <1>1 DEF LossKnown, Tracked
<1> QED  BY <1>1, <1>2, <1>4, <1>5, <1>6 DEF LossInv

LEMMA ActLoss ==
  ASSUME LossInv, [Act]_<<vars, client_vars>>
  PROVE  LossInv'
<1>1. ASSUME NEW w \in Worker, Connect(w) \/ Announce(w) \/ Serve(w)
      PROVE  LossInv'
  BY <1>1, ConnectLoss, AnnounceLoss, ServeLoss
<1>2. CASE Connected_ \/ Announced_ \/ TimeOut \/ Restart
  BY <1>2, ConnectedLoss, AnnouncedLoss, TimeOutLoss, RestartLoss
<1>3. ASSUME NEW interval \in Intervals, Wait(interval) PROVE LossInv'
  BY <1>3, WaitLoss
<1>4. CASE UNCHANGED <<vars, client_vars>>
  <2>1. UNCHANGED <<wall, clock, clients, offenders, handling, verdict, sent,
                    banned, crossings, turn, idAt, stale, timeout, lost>>
    BY <1>4 DEF vars, hidden, client_vars
  <2>2. Busy' = Busy /\ Tracked' = Tracked  BY <2>1 DEF Busy, Tracked
  <2>3. TypeOK'  BY <2>1 DEF LossInv, TypeOK, Tracked, Busy
  <2>4. LossTurn'  BY <2>1 DEF LossInv, LossTurn, UsingId
  <2>5. LossSent'  BY <2>1, <2>2 DEF LossInv, LossSent, Asks
  <2>6. LossKnown'
    BY <2>1, <2>2 DEF LossInv, LossKnown, Connects, Gap, Refusals, Repeats, UsingId, Served
  <2> QED  BY <2>1, <2>3, <2>4, <2>5, <2>6 DEF LossInv
<1> QED  BY <1>1, <1>2, <1>3, <1>4 DEF Act

\* A conforming client is never banned for its network, nor for the tracker's
\* restarts: whatever the intervals and the number of restarts, as long as the
\* replies lost in each interval, with the refusals of one id, score less than
\* the threshold and an interval drains what they score.
THEOREM LossyClientIsUnbanned == Loses => []LossyClientUnbanned
<1>1. Start => LossInv  BY StartLoss
<1>2. LossInv /\ [Act]_<<vars, client_vars>> => LossInv'  BY ActLoss
<1>3. LossInv => LossyClientUnbanned  BY DEF LossInv, LossyClientUnbanned
<1> QED  BY <1>1, <1>2, <1>3, PTL DEF Loses
=============================================================================
