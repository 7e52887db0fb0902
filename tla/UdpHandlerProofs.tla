---------------------------- MODULE UdpHandlerProofs ----------------------------
(***************************************************************************)
(* The worker's properties for every datagram, every swarm and any number  *)
(* of turns.                                                               *)
(***************************************************************************)
EXTENDS UdpHandler, TLAPS

\* What handle leaves for the rest of the turn: nothing of this datagram unless
\* there is a reply, and then the whole of it.
HandledAs(d, s) ==
  \/ parse(d) = "error" /\ action = Drop
  \/ Refused(d) /\ action = ConnidMismatch
  \/ /\ parse(d) # "error" /\ ~Refused(d)
     /\ out = Written(d, s) /\ action = Reply(Written(d, s).len)

Told(d, s) ==
  \/ told.kind # "announce"
  \/ /\ action.kind = "reply"
     /\ told.count = Least(s.complete + s.incomplete, U32_MAX)

WorkerInvariant ==
  /\ TypeOK
  /\ stage \in {"handled", "counted"} => HandledAs(datagram, swarm)
  /\ IF stage = "counted" THEN Told(datagram, swarm) ELSE told = Nothing
  /\ CountedOnce

-----------------------------------------------------------------------------
LEMMA ParseKinds ==
  ASSUME NEW d \in Datagram
  PROVE  /\ parse(d) \in {"connect", "announce", "scrape", "error"}
         /\ parse(d) # "error" => d.len >= MIN_PACKET
         /\ parse(d) = "announce" => d.len >= ANNOUNCE_MIN
  BY DEF Datagram, parse, Received, Least, MIN_PACKET, ANNOUNCE_MIN, UDP_BUF

\* A scrape answers no more hashes than it carries, nor than the cap.
LEMMA HashesBounded ==
  ASSUME NEW d \in Datagram, parse(d) = "scrape"
  PROVE  /\ Hashes(d) \in 0..MAX_SCRAPE_HASHES
         /\ MIN_PACKET + HASH_LEN * Hashes(d) <= d.len
<1> DEFINE n == Received(d) - MIN_PACKET
<1>1. d.len \in Nat /\ d.len >= MIN_PACKET
  BY ParseKinds DEF Datagram
<1>2. n \in Nat /\ n <= d.len - MIN_PACKET
  BY <1>1 DEF Received, Least, UDP_BUF, MIN_PACKET
<1> HIDE DEF n
<1>3. n \div 20 \in Nat /\ 20 * (n \div 20) <= n
  BY <1>2
<1>4. Hashes(d) = Least(n \div 20, 75)
  BY DEF Hashes, n, HASH_LEN, MAX_SCRAPE_HASHES
<1>5. Hashes(d) \in 0..75 /\ Hashes(d) <= n \div 20
  BY <1>3, <1>4 DEF Least
<1> QED
  BY <1>1, <1>2, <1>3, <1>5 DEF HASH_LEN, MAX_SCRAPE_HASHES, MIN_PACKET

\* No announce gets more peers than its family's cap.
LEMMA PeersBounded ==
  ASSUME NEW d \in Datagram, NEW s \in Swarm
  PROVE  PeerBytes(d, s) \in 0..(IF d.v4 THEN 1200 ELSE 1188)
<1>1. numwant(d) \in 0..(IF d.v4 THEN 200 ELSE 66)
  BY DEF Datagram, numwant, Least, NUMWANT_MAX_V4, NUMWANT_MAX_V6
<1>2. Least(numwant(d), s.peers) \in 0..(IF d.v4 THEN 200 ELSE 66)
  BY <1>1 DEF Swarm, Least
<1> QED
  BY <1>2 DEF PeerBytes, PEER4_LEN, PEER6_LEN, Datagram

LEMMA WrittenShape ==
  ASSUME NEW d \in Datagram, NEW s \in Swarm, parse(d) # "error"
  PROVE  /\ Written(d, s) \in [len : Nat, at12 : 0..U32_MAX, at16 : 0..U32_MAX]
         /\ Written(d, s).len <= Room(d)
         /\ parse(d) # "announce" => Written(d, s).len <= d.len
         /\ parse(d) = "announce" =>
              /\ Written(d, s).len >= 20
              /\ Written(d, s).at12 = s.incomplete /\ Written(d, s).at16 = s.complete
<1>1. CASE parse(d) = "connect"
  BY <1>1, ParseKinds, SettingAssumption
  DEF Written, write_connect, Room, Datagram, MIN_PACKET
<1>2. CASE parse(d) = "announce"
  BY <1>2, PeersBounded DEF Written, write_announce, Room, Swarm
<1>3. CASE parse(d) = "scrape"
  <2>1. d.len \in Nat /\ Hashes(d) \in 0..75 /\ 16 + 20 * Hashes(d) <= d.len
    BY <1>3, HashesBounded DEF MAX_SCRAPE_HASHES, MIN_PACKET, HASH_LEN, Datagram
  <2> QED
    BY <1>3, <2>1, SettingAssumption DEF Written, write_scrape, Room, Swarm
<1> QED
  BY <1>1, <1>2, <1>3, ParseKinds

-----------------------------------------------------------------------------
LEMMA IdleValues ==
  /\ NoDatagram \in Datagram /\ NoSwarm \in Swarm
  /\ Drop \in [kind : {"drop", "mismatch", "reply"}, len : Nat]
  /\ Nothing \in [kind : {"nothing", "mismatch", "announce", "scrape", "connect"},
                  count : 0..U32_MAX]
  BY SettingAssumption DEF NoDatagram, Datagram, NoSwarm, Swarm, Drop, Nothing

LEMMA InitInvariant == Init => WorkerInvariant
<1> SUFFICES ASSUME Init PROVE WorkerInvariant
  OBVIOUS
<1>1. out \in [len : Nat, at12 : 0..U32_MAX, at16 : 0..U32_MAX]
  BY SettingAssumption DEF Init
<1>2. metrics \in [Counter -> Nat]
  BY DEF Init
<1>3. TypeOK
  BY <1>1, <1>2, IdleValues DEF Init, TypeOK
<1>4. CountedOnce
  BY DEF Init, CountedOnce, Counted, Counter
<1> QED
  BY <1>3, <1>4 DEF Init, WorkerInvariant

LEMMA ReceiveStep ==
  ASSUME WorkerInvariant, NEW d \in Datagrams, Receive(d)
  PROVE  WorkerInvariant'
  BY InputAssumption
  DEF WorkerInvariant, Receive, TypeOK, CountedOnce, Counted

LEMMA HandleStep ==
  ASSUME WorkerInvariant, NEW s \in Swarms, Handle(s)
  PROVE  WorkerInvariant'
<1>1. /\ TypeOK /\ CountedOnce /\ s \in Swarm /\ datagram \in Datagram
      /\ stage = "received" /\ stage' = "handled" /\ swarm' = s
      /\ UNCHANGED <<datagram, told, verdict, answered, metrics, served>>
  BY InputAssumption DEF WorkerInvariant, TypeOK, Handle
<1>2. HandledAs(datagram, s)'
  BY <1>1 DEF Handle, HandledAs, Written, PeerBytes, numwant
<1>3. /\ action' \in [kind : {"drop", "mismatch", "reply"}, len : Nat]
      /\ out' \in [len : Nat, at12 : 0..U32_MAX, at16 : 0..U32_MAX]
  BY <1>1, WrittenShape DEF Handle, TypeOK, Drop, ConnidMismatch, Reply
<1>4. TypeOK'
  BY <1>1, <1>3 DEF TypeOK
<1>5. CountedOnce'
  BY <1>1 DEF CountedOnce, Counted
<1> QED
  BY <1>1, <1>2, <1>4, <1>5 DEF WorkerInvariant

\* One turn adds one to the counters of the datagrams and to no other of them.
LEMMA MetricCounted ==
  ASSUME WorkerInvariant, stage = "handled",
         NEW m, m = record_udp_metric(metrics, datagram, action)
  PROVE  /\ m \in [Counter -> Nat]
         /\ m["UdpAnnounce"] + m["UdpScrape"] + m["UdpConnect"]
            + m["UdpConnidMismatch"] + m["UdpDropped"] = Counted + 1
<1>1. TypeOK /\ HandledAs(datagram, swarm)
  BY DEF WorkerInvariant
<1>2. PICK c \in {"UdpAnnounce", "UdpScrape", "UdpConnect", "UdpConnidMismatch", "UdpDropped"} :
        m = inc(metrics, c)
  <2>1. parse(datagram) \in {"connect", "announce", "scrape", "error"}
    BY <1>1, ParseKinds DEF TypeOK
  <2>2. action.kind \in {"drop", "mismatch", "reply"}
    BY <1>1 DEF TypeOK
  <2> QED
    BY <2>1, <2>2 DEF record_udp_metric
<1> QED
  BY <1>1, <1>2 DEF TypeOK, inc, Counter, Counted

LEMMA CountStep ==
  ASSUME WorkerInvariant, NEW v \in {"allow", "ban", "escalated"}, Count(v)
  PROVE  WorkerInvariant'
<1>1. PICK m : m = record_udp_metric(metrics, datagram, action)
  OBVIOUS
<1>2. /\ stage = "handled" /\ stage' = "counted"
      /\ UNCHANGED <<datagram, swarm, action, out, answered, served>>
      /\ verdict' = v
      /\ told' = IF l7_enable THEN feed_l7(datagram, action) ELSE told
      /\ metrics' \in {m, inc(m, "L7Ban"), inc(inc(m, "L7Ban"), "L7BanEscalated")}
  BY <1>1 DEF Count
<1>3. TypeOK /\ HandledAs(datagram, swarm) /\ CountedOnce
      /\ datagram \in Datagram /\ swarm \in Swarm
  BY <1>2 DEF WorkerInvariant, TypeOK
<1>4. /\ m \in [Counter -> Nat]
      /\ m["UdpAnnounce"] + m["UdpScrape"] + m["UdpConnect"]
         + m["UdpConnidMismatch"] + m["UdpDropped"] = Counted + 1
  BY <1>1, <1>2, MetricCounted
<1>5. metrics' \in [Counter -> Nat] /\ Counted' = Counted + 1
  BY <1>2, <1>4 DEF inc, Counter, Counted
<1>6. CountedOnce'
  <2>1. Counted = served /\ served \in Nat
    BY <1>2, <1>3 DEF CountedOnce, TypeOK
  <2>2. Counted' = served' + 1
    BY <1>2, <1>5, <2>1
  <2> QED
    BY <1>2, <2>2 DEF CountedOnce
<1>7. SwarmPeers \in 0..U32_MAX
  BY <1>3, SettingAssumption DEF TypeOK, SwarmPeers, Least
<1>8. parse(datagram) = "scrape" => Hashes(datagram) \in 0..U32_MAX
  BY <1>3, HashesBounded, SettingAssumption DEF MAX_SCRAPE_HASHES
<1>9. feed_l7(datagram, action) \in
        [kind : {"nothing", "mismatch", "announce", "scrape", "connect"}, count : 0..U32_MAX]
  BY <1>7, <1>8, SettingAssumption DEF feed_l7, Nothing
<1>10. TypeOK'
  BY <1>2, <1>3, <1>5, <1>9 DEF TypeOK
<1>11. Told(datagram, swarm)'
  <2>1. CASE ~l7_enable
    BY <1>2, <2>1 DEF WorkerInvariant, Told, Nothing
  <2>2. CASE l7_enable /\ told'.kind # "announce"
    BY <2>2 DEF Told
  <2>3. CASE l7_enable /\ told'.kind = "announce"
    <3>1. /\ action.kind # "mismatch" /\ parse(datagram) = "announce"
          /\ told'.count = SwarmPeers
      BY <1>2, <2>3 DEF feed_l7, Nothing
    <3>2. out = Written(datagram, swarm) /\ action.kind = "reply"
      BY <1>3, <3>1 DEF HandledAs, ConnidMismatch, Reply
    <3>3. /\ out.len \in Nat /\ out.len >= 20
          /\ out.at12 = swarm.incomplete /\ out.at16 = swarm.complete
      BY <1>3, <3>1, <3>2, WrittenShape
    <3>4. SwarmPeers = Least(swarm.incomplete + swarm.complete, U32_MAX)
      BY <3>3 DEF SwarmPeers
    <3>5. swarm.incomplete + swarm.complete = swarm.complete + swarm.incomplete
      BY <1>3 DEF Swarm
    <3> QED
      BY <1>2, <3>1, <3>2, <3>4, <3>5 DEF Told
  <2> QED
    BY <2>1, <2>2, <2>3
<1>12. HandledAs(datagram, swarm)'
  BY <1>2, <1>3 DEF HandledAs
<1> QED
  BY <1>2, <1>6, <1>10, <1>11, <1>12 DEF WorkerInvariant

LEMMA AnswerStep ==
  ASSUME WorkerInvariant, Answer
  PROVE  WorkerInvariant'
  BY IdleValues DEF WorkerInvariant, Answer, TypeOK, CountedOnce, Counted

LEMMA StutterStep ==
  ASSUME WorkerInvariant, UNCHANGED vars
  PROVE  WorkerInvariant'
<1>1. UNCHANGED <<stage, datagram, swarm, action, out, told, verdict, answered,
                metrics, served>>
  BY DEF vars
<1> QED
  BY <1>1 DEF WorkerInvariant, TypeOK, HandledAs, Told, CountedOnce, Counted

LEMMA StepInvariant == WorkerInvariant /\ [Next]_vars => WorkerInvariant'
  BY ReceiveStep, HandleStep, CountStep, AnswerStep, StutterStep DEF Next

LEMMA InvariantHolds == Spec => []WorkerInvariant
  BY InitInvariant, StepInvariant, PTL DEF Spec

\* Counters, words of the buffer and what the detector is told keep their type.
THEOREM WorkerTypes == Spec => []TypeOK
<1>1. WorkerInvariant => TypeOK
  BY DEF WorkerInvariant
<1> QED
  BY <1>1, InvariantHolds, PTL

\* What is known of a reply while it is in the buffer.
LEMMA ReplyKnown ==
  ASSUME WorkerInvariant, Replied
  PROVE  /\ datagram \in Datagram /\ swarm \in Swarm
         /\ parse(datagram) # "error" /\ ~Refused(datagram)
         /\ action.len = Written(datagram, swarm).len
<1>1. HandledAs(datagram, swarm) /\ TypeOK /\ action.kind = "reply"
  BY DEF WorkerInvariant, Replied
<1> QED
  BY <1>1 DEF HandledAs, TypeOK, Drop, ConnidMismatch, Reply

\* Only a source that proved its address gets more bytes than it sent.
THEOREM NoneAmplified == Spec => []NoAmplification
<1>1. ASSUME WorkerInvariant, Replied, action.len > datagram.len
      PROVE  datagram.valid /\ parse(datagram) = "announce"
  <2>1. /\ datagram \in Datagram /\ parse(datagram) # "error" /\ ~Refused(datagram)
        /\ action.len = Written(datagram, swarm).len
        /\ action.len \in Nat /\ datagram.len \in Nat
        /\ parse(datagram) # "announce" => Written(datagram, swarm).len <= datagram.len
    BY <1>1, ReplyKnown, WrittenShape DEF Datagram
  <2>2. parse(datagram) = "announce"
    BY <1>1, <2>1
  <2> QED
    BY <2>1, <2>2 DEF Refused, Datagram
<1>2. WorkerInvariant => NoAmplification
  BY <1>1 DEF NoAmplification
<1> QED
  BY <1>2, InvariantHolds, PTL

\* No reply of either family has to be fragmented.
THEOREM RepliesFit == Spec => []ReplyFits
<1>1. WorkerInvariant => ReplyFits
  BY ReplyKnown, WrittenShape DEF ReplyFits
<1> QED
  BY <1>1, InvariantHolds, PTL

\* The detector never reads an earlier datagram's counts.
THEOREM CountsAreFresh == Spec => []FreshCounts
<1>1. WorkerInvariant => FreshCounts
  BY DEF WorkerInvariant, Told, FreshCounts
<1> QED
  BY <1>1, InvariantHolds, PTL

\* Every datagram is counted, and only once.
THEOREM CountersPartition == Spec => []CountedOnce
<1>1. WorkerInvariant => CountedOnce
  BY DEF WorkerInvariant
<1> QED
  BY <1>1, InvariantHolds, PTL
=============================================================================
