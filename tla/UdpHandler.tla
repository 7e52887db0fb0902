------------------------------- MODULE UdpHandler -------------------------------
(***************************************************************************)
(* One UDP worker of crates/bluefrog/src/main.rs with what it calls for a  *)
(* datagram: the codec of crates/bf-proto/src/udp.rs, the handler of       *)
(* crates/bf-udp/src/lib.rs, the counters of crates/bf-metrics/src/lib.rs  *)
(* and the feed of the detector.                                           *)
(*                                                                         *)
(* Lengths are those of the wire.  What the store, the id check and the    *)
(* detector answer is any answer they may give (Store, ConnId and Detector *)
(* have those).  The buffer `out` belongs to the worker and outlives the   *)
(* datagram: what an earlier reply left in it is still there.              *)
(***************************************************************************)
EXTENDS Integers, FiniteSets

CONSTANTS
  Datagrams,   \* what may arrive, see Datagram
  Swarms,      \* what the store may find, see Swarm
  U32_MAX,
  l7_enable,
  MaxServed    \* bound: datagrams explored

MIN_PACKET        == 16
ANNOUNCE_MIN      == 98
HASH_LEN          == 20
PEER4_LEN         == 6
PEER6_LEN         == 18
MAX_SCRAPE_HASHES == 75
NUMWANT_MAX_V4    == 200
NUMWANT_MAX_V6    == 66
UDP_BUF           == 2048

\* The fields of a datagram that anything below depends on.  `magic` and
\* `valid` are two readings of the first eight bytes: the protocol id, and an
\* id that this process gave to this source.
Datagram == [ len : Nat, action : Nat, magic : BOOLEAN, valid : BOOLEAN,
              v4 : BOOLEAN, stopped : BOOLEAN, num_want : Int ]

\* A swarm as the request leaves it: its counts over both families, and the
\* peers of the source's family, the source included unless it stopped.
Swarm == [ complete : 0..U32_MAX, incomplete : 0..U32_MAX, downloaded : 0..U32_MAX,
           peers : Nat ]

ASSUME InputAssumption == Datagrams \subseteq Datagram /\ Swarms \subseteq Swarm

ASSUME SettingAssumption ==
  /\ U32_MAX \in Nat /\ U32_MAX >= MAX_SCRAPE_HASHES /\ MaxServed \in Nat
  /\ l7_enable \in BOOLEAN

VARIABLES
  stage,    \* idle -> received -> handled -> counted -> idle
  datagram, \* the one being served
  swarm,    \* what the store found for it
  action,   \* what handle returned for it
  out,      \* the reply buffer: its length and the words at offsets 12 and 16
  told,     \* what the detector was told of it
  verdict,  \* and what it made of the last datagram
  answered, \* whether the last datagram got a reply
  metrics,  \* the counters a worker increments
  served    \* bound: datagrams served so far

vars == <<stage, datagram, swarm, action, out, told, verdict, answered,
          metrics, served>>

Least(a, b) == IF a < b THEN a ELSE b

-----------------------------------------------------------------------------
(* The codec *)

\* recv_from keeps what fits the buffer.
Received(d) == Least(d.len, UDP_BUF)

\* The kind of request, or "error".
parse(d) ==
  CASE Received(d) < MIN_PACKET -> "error"
    [] Received(d) >= MIN_PACKET /\ d.action = 0 -> IF d.magic THEN "connect" ELSE "error"
    [] Received(d) >= MIN_PACKET /\ d.action = 1 ->
         IF Received(d) < ANNOUNCE_MIN THEN "error" ELSE "announce"
    [] Received(d) >= MIN_PACKET /\ d.action = 2 -> "scrape"
    [] OTHER -> "error"

\* The hashes of a scrape that are honoured.
Hashes(d) == Least((Received(d) - MIN_PACKET) \div HASH_LEN, MAX_SCRAPE_HASHES)

\* write_connect fills 16 bytes, in which no count can be read.
write_connect == [len |-> 16, at12 |-> 0, at16 |-> 0]

\* The header, then the peers the store appended behind it.
write_announce(s, bytes) ==
  [len |-> 20 + bytes, at12 |-> s.incomplete, at16 |-> s.complete]

\* Rows of seeders, downloads and leechers from offset 8 on.
write_scrape(s, rows) ==
  [ len  |-> 8 + 12 * rows,
    at12 |-> IF rows > 0 THEN s.downloaded ELSE 0,
    at16 |-> IF rows > 0 THEN s.incomplete ELSE 0 ]

-----------------------------------------------------------------------------
(* The handler *)

\* Mutant: one cap for both families.
numwant_OneCap(d) ==
  IF d.num_want < 0 THEN NUMWANT_MAX_V4 ELSE Least(d.num_want, NUMWANT_MAX_V4)

\* A negative number asks for as many as there may be.
numwant(d) ==
  LET max == IF d.v4 THEN NUMWANT_MAX_V4 ELSE NUMWANT_MAX_V6
  IN  IF d.num_want < 0 THEN max ELSE Least(d.num_want, max)

\* The bytes the store appends: as many peers as wanted, the source among them,
\* and none to one who stops.
PeerBytes(d, s) ==
  IF d.stopped THEN 0
  ELSE Least(numwant(d), s.peers) * IF d.v4 THEN PEER4_LEN ELSE PEER6_LEN

Drop           == [kind |-> "drop", len |-> 0]
ConnidMismatch == [kind |-> "mismatch", len |-> 0]
Reply(len)     == [kind |-> "reply", len |-> len]

\* Mutant: announces are served whatever their id.
Refused_ScrapesOnly(d) == parse(d) = "scrape" /\ ~d.valid

\* Announces and scrapes need a valid id.
Refused(d) == parse(d) \in {"announce", "scrape"} /\ ~d.valid

\* What the reply buffer holds after handle, when there is a reply.
Written(d, s) ==
  CASE parse(d) = "connect"  -> write_connect
    [] parse(d) = "announce" -> write_announce(s, PeerBytes(d, s))
    [] parse(d) = "scrape"   -> write_scrape(s, Hashes(d))

-----------------------------------------------------------------------------
(* The worker *)

Counter == { "UdpAnnounce", "UdpScrape", "UdpConnect", "UdpConnidMismatch",
             "UdpDropped", "L7Flagged", "L7Ban", "L7BanEscalated" }

inc(m, counter) == [m EXCEPT ![counter] = @ + 1]

\* Mutant: no return after a drop or a mismatch was counted.
record_udp_metric_Falls(m, d, act) ==
  LET kind == parse(d)
      n    == IF act.kind = "drop" THEN inc(m, "UdpDropped")
              ELSE IF act.kind = "mismatch" THEN inc(m, "UdpConnidMismatch") ELSE m
  IN  CASE kind = "connect"  -> inc(n, "UdpConnect")
        [] kind = "announce" -> inc(n, "UdpAnnounce")
        [] kind = "scrape"   -> inc(n, "UdpScrape")
        [] kind = "error"    -> inc(n, "UdpDropped")

record_udp_metric(m, d, act) ==
  LET kind == parse(d)
  IN  CASE act.kind = "drop"     -> inc(m, "UdpDropped")
        [] act.kind = "mismatch" -> inc(m, "UdpConnidMismatch")
        [] act.kind = "reply" /\ kind = "connect"  -> inc(m, "UdpConnect")
        [] act.kind = "reply" /\ kind = "announce" -> inc(m, "UdpAnnounce")
        [] act.kind = "reply" /\ kind = "scrape"   -> inc(m, "UdpScrape")
        [] act.kind = "reply" /\ kind = "error"    -> inc(m, "UdpDropped")

\* Mutant: a sum that does not saturate.
SwarmPeers_Plain == IF out.len >= 20 THEN out.at12 + out.at16 ELSE 0

\* The counts of the reply that is in the buffer, added up with saturation.
SwarmPeers == IF out.len >= 20 THEN Least(out.at12 + out.at16, U32_MAX) ELSE 0

\* What a worker has in hand between datagrams.
NoDatagram == [ len |-> 0, action |-> 0, magic |-> FALSE, valid |-> FALSE,
                v4 |-> TRUE, stopped |-> FALSE, num_want |-> 0 ]
NoSwarm    == [complete |-> 0, incomplete |-> 0, downloaded |-> 0, peers |-> 0]

Nothing == [kind |-> "nothing", count |-> 0]

\* Mutant: a refused announce is fed like one that was served.
feed_l7_Refused(d, act) ==
  CASE parse(d) = "announce" -> [kind |-> "announce", count |-> SwarmPeers]
    [] parse(d) = "scrape"   -> [kind |-> "scrape", count |-> Hashes(d)]
    [] parse(d) = "connect"  -> [kind |-> "connect", count |-> 0]
    [] OTHER                 -> Nothing

\* What the detector is told of a datagram.
feed_l7(d, act) ==
  CASE act.kind = "mismatch" -> [kind |-> "mismatch", count |-> 0]
    [] act.kind # "mismatch" /\ parse(d) = "announce" ->
         [kind |-> "announce", count |-> SwarmPeers]
    [] act.kind # "mismatch" /\ parse(d) = "scrape" ->
         [kind |-> "scrape", count |-> Hashes(d)]
    [] act.kind # "mismatch" /\ parse(d) = "connect" ->
         [kind |-> "connect", count |-> 0]
    [] OTHER -> Nothing

Init ==
  /\ stage = "idle"
  /\ datagram = NoDatagram /\ swarm = NoSwarm
  /\ action = Drop
  /\ out = [len |-> 0, at12 |-> 0, at16 |-> 0]
  /\ told = Nothing /\ verdict = "allow" /\ answered = FALSE
  /\ metrics = [c \in Counter |-> 0]
  /\ served = 0

Receive(d) ==
  /\ stage = "idle" /\ served < MaxServed
  /\ stage' = "received"
  /\ datagram' = d /\ verdict' = "allow" /\ answered' = FALSE
  /\ UNCHANGED <<swarm, action, out, told, metrics, served>>

\* The counts are taken after the request was applied: they include a source
\* that announced, and not one that stopped.
Possible(d, s) ==
  parse(d) = "announce" /\ ~Refused(d) =>
    /\ s.complete + s.incomplete >= s.peers
    /\ d.stopped \/ s.peers > 0

\* handle: nothing is written unless there is a reply.
Handle(s) ==
  /\ stage = "received"
  /\ stage' = "handled"
  /\ Possible(datagram, s)
  /\ swarm' = s
  /\ \/ /\ parse(datagram) = "error"
        /\ action' = Drop
        /\ UNCHANGED out
     \/ /\ Refused(datagram)
        /\ action' = ConnidMismatch
        /\ UNCHANGED out
     \/ /\ parse(datagram) # "error" /\ ~Refused(datagram)
        /\ out' = Written(datagram, s)
        /\ action' = Reply(Written(datagram, s).len)
  /\ UNCHANGED <<datagram, told, verdict, answered, metrics, served>>

\* record_udp_metric, feed_l7 and the verdict.
Count(v) ==
  LET m == record_udp_metric(metrics, datagram, action)
  IN  /\ stage = "handled"
      /\ stage' = "counted"
      /\ told' = IF l7_enable THEN feed_l7(datagram, action) ELSE told
      /\ v # "allow" => told' # Nothing
      /\ verdict' = v
      /\ metrics' = CASE v = "allow"     -> m
                      [] v = "ban"       -> inc(m, "L7Ban")
                      [] v = "escalated" -> inc(inc(m, "L7Ban"), "L7BanEscalated")
      /\ UNCHANGED <<datagram, swarm, action, out, answered, served>>

\* The reply, if there is one, goes out; only the buffer outlives the turn.
Answer ==
  /\ stage = "counted"
  /\ stage' = "idle"
  /\ served' = served + 1
  /\ answered' = (action.kind = "reply")
  /\ datagram' = NoDatagram /\ swarm' = NoSwarm /\ action' = Drop
  /\ told' = Nothing
  /\ UNCHANGED <<out, verdict, metrics>>

Next ==
  \/ \E d \in Datagrams : Receive(d)
  \/ \E s \in Swarms : Handle(s)
  \/ \E v \in {"allow", "ban", "escalated"} : Count(v)
  \/ Answer

Spec == Init /\ [][Next]_vars

-----------------------------------------------------------------------------
(* Properties *)

TypeOK ==
  /\ stage \in {"idle", "received", "handled", "counted"}
  /\ datagram \in Datagram /\ swarm \in Swarm
  /\ action \in [kind : {"drop", "mismatch", "reply"}, len : Nat]
  /\ out \in [len : Nat, at12 : 0..U32_MAX, at16 : 0..U32_MAX]
  /\ told \in [kind : {"nothing", "mismatch", "announce", "scrape", "connect"},
               count : 0..U32_MAX]
  /\ verdict \in {"allow", "ban", "escalated"} /\ answered \in BOOLEAN
  /\ metrics \in [Counter -> Nat]
  /\ served \in Nat

Replied == stage \in {"handled", "counted"} /\ action.kind = "reply"

\* No source gets back more bytes than it sent until it has proved its
\* address: a reply longer than its datagram answers an announce with a valid
\* id (connection ids are there against reflection, see ConnidMismatch).
NoAmplification ==
  Replied /\ action.len > datagram.len => datagram.valid /\ parse(datagram) = "announce"

\* What a datagram may carry without being fragmented: 1500 bytes less the
\* headers over IPv4, the guaranteed 1280 less the headers over IPv6.
Room(d) == IF d.v4 THEN 1500 - 28 ELSE 1280 - 48

\* No reply needs fragments: that is what the caps on peers by family and on
\* hashes per scrape are for.
ReplyFits == Replied => action.len <= Room(datagram)

\* The detector judges a swarm by the reply to this very announce, never by
\* what an earlier datagram left in the worker's buffer.
FreshCounts ==
  stage = "counted" /\ told.kind = "announce" =>
    /\ action.kind = "reply"
    /\ told.count = Least(swarm.complete + swarm.incomplete, U32_MAX)

Counted == metrics["UdpAnnounce"] + metrics["UdpScrape"] + metrics["UdpConnect"]
           + metrics["UdpConnidMismatch"] + metrics["UdpDropped"]

\* The UDP counters partition the datagrams: each is counted once.
CountedOnce == Counted = served + (IF stage = "counted" THEN 1 ELSE 0)
=============================================================================
