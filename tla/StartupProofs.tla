----------------------------- MODULE StartupProofs -----------------------------
(***************************************************************************)
(* Theorems of Startup, for every set of configuration files of any length *)
(* and whatever other programs hold: what has been read is what is         *)
(* written, and what is bound, socket by socket, is what was read.         *)
(***************************************************************************)
EXTENDS Startup, FiniteSetTheorems, TLAPS

-----------------------------------------------------------------------------
(* The configuration *)

Udp == {"listen.udp", "listen.tcp_udp"}
Tcp == {"listen.tcp", "listen.tcp_udp"}

\* What TypeOK says of a configuration, and that it has the shape of one.
ConfigInv(c) ==
  /\ c = [udp_listen |-> c.udp_listen, tcp_listen |-> c.tcp_listen,
          unknown |-> c.unknown, set |-> c.set]
  /\ c.udp_listen \in Seq(Address) /\ c.tcp_listen \in Seq(Address)
  /\ c.unknown \in Seq(STRING)
  /\ c.set = [k \in Settings |-> c.set[k]]
  /\ \A k \in Numbers : c.set[k] \in 0..U32_MAX
  /\ \A k \in Given : c.set[k] \in 0..USIZE_MAX
  /\ \A k \in Booleans : c.set[k] \in BOOLEAN
  /\ c.set["listen.udp.workers"] \in Nat
  /\ c.set[Socket] \in Seq(Address) /\ Len(c.set[Socket]) \in {0, 1}

LEMMA KeysApart ==
  /\ Numbers \subseteq Settings /\ Booleans \subseteq Settings
  /\ Sizes \subseteq Settings /\ Given \subseteq Sizes /\ Socket \in Settings
  /\ Numbers \cap Booleans = {} /\ Numbers \cap Sizes = {}
  /\ Booleans \cap Sizes = {}
  /\ Socket \notin Numbers \cup Booleans \cup Sizes
  /\ "listen.udp.workers" \in Given
  /\ Listens \cap Settings = {}
BY DEF Given, Numbers, Booleans, Sizes, Texts, SetLists, Socket, Listens, Settings

LEMMA BlankApart == "" \notin Settings \cup Listens
BY DEF Numbers, Booleans, Sizes, Texts, SetLists, Socket, Listens, Settings

LEMMA DefaultInv == ConfigInv(Default)
<1> DEFINE K == Settings
<1>0. /\ Numbers \subseteq K /\ Booleans \subseteq K
      /\ "listen.udp.workers" \in K /\ Socket \in K
  BY KeysApart
<1> HIDE DEF K
<1>1. \A k \in Numbers : Default.set[k] \in 0..U32_MAX
  <2>1. \A k \in Numbers : Default.set[k] \in Nat
    <3>1. Default.set["udp.connid_window"] \in Nat
      BY <1>0, SMT DEF Default, Booleans, Numbers, K
    <3>2. Default.set["l7.reannounce_min_interval"] \in Nat
      BY <1>0, SMT DEF Default, Booleans, Numbers, K
    <3>3. Default.set["l7.score_ban_threshold"] \in Nat
      BY <1>0, SMT DEF Default, Booleans, Numbers, K
    <3>4. Default.set["l7.ban_duration"] \in Nat
      BY <1>0, SMT DEF Default, Booleans, Numbers, K
    <3>5. Default.set["l7.reban_cooldown"] \in Nat
      BY <1>0, SMT DEF Default, Booleans, Numbers, K
    <3>6. Default.set["l7.fast_announce_gap"] \in Nat
      BY <1>0, SMT DEF Default, Booleans, Numbers, K
    <3> QED  BY <3>1, <3>2, <3>3, <3>4, <3>5, <3>6 DEF Numbers
  <2> QED  BY <2>1, WidthAssumption
<1>2. \A k \in Booleans : Default.set[k] \in BOOLEAN
  <2>1. Default.set["l7.enable"] \in BOOLEAN
    BY <1>0, SMT DEF Default, Booleans, K
  <2>2. Default.set["nft.enable"] \in BOOLEAN
    BY <1>0, SMT DEF Default, Booleans, K
  <2> QED  BY <2>1, <2>2 DEF Booleans
<1>3. Default.set["listen.udp.workers"] \in Nat
  BY <1>0, SMT DEF Default, Booleans, K
<1>7. \A k \in Given : Default.set[k] \in 0..USIZE_MAX
  <2>1. Given = {"listen.udp.workers", "l7.max_entries", "l7.max_offenders"}
    BY DEF Given, Sizes
  <2>2. Given \subseteq K  BY KeysApart DEF K
  <2>3. Default.set["l7.max_entries"] \in Nat
    BY <2>1, <2>2, SMT DEF Default, Booleans, K
  <2>4. Default.set["l7.max_offenders"] \in Nat
    BY <2>1, <2>2, SMT DEF Default, Booleans, K
  <2>5. \A k \in Given : Default.set[k] \in Nat  BY <1>3, <2>1, <2>3, <2>4
  <2> QED  BY <2>5, WidthAssumption
<1>4. Default.set[Socket] = <<>>
  BY <1>0, SMT DEF Default, Socket, Booleans, K
<1>5. /\ Default = [udp_listen |-> Default.udp_listen, tcp_listen |-> Default.tcp_listen,
                    unknown |-> Default.unknown, set |-> Default.set]
      /\ Default.udp_listen = <<>> /\ Default.tcp_listen = <<>>
      /\ Default.unknown = <<>>
      /\ Default.set = [k \in Settings |-> Default.set[k]]
  BY DEF Default
<1>6. <<>> \in Seq(Address) /\ <<>> \in Seq(STRING) /\ Len(<<>>) = 0
  OBVIOUS
<1> QED  BY <1>1, <1>2, <1>3, <1>4, <1>5, <1>6, <1>7 DEF ConfigInv

LEMMA ValueTypes ==
  ASSUME NEW v \in Value
  PROVE  /\ v.is = "number" => v.it \in Nat
         /\ v.is = "address" => v.it \in Address
         /\ v.is = "ip" => v.it \in STRING
BY DEF Value

\* A listener's value that is not malformed is an address.
LEMMA ListenAddrType ==
  ASSUME NEW l \in Line, ~Bad(l), l.key \in Listens
  PROVE  listen_addr(l.val) \in Address
<1>1. l.val \in Value /\ l.val.is \in {"address", "ip"}
  BY DEF Bad, Malformed, Line
<1>2. CASE l.val.is = "address"
  BY <1>1, <1>2, ValueTypes DEF listen_addr
<1>3. CASE l.val.is = "ip"
  BY <1>1, <1>3, ValueTypes, WidthAssumption DEF listen_addr, Address
<1> QED  BY <1>1, <1>2, <1>3

LEMMA WorthTypes ==
  ASSUME NEW l \in Line, ~Bad(l)
  PROVE  /\ l.key \in Numbers => Worth(l.key, l.val) \in 0..U32_MAX
         /\ l.key \in Booleans => Worth(l.key, l.val) \in BOOLEAN
         /\ l.key \in Given => Worth(l.key, l.val) \in 0..USIZE_MAX
         /\ l.key = Socket => /\ Worth(l.key, l.val) \in Seq(Address)
                              /\ Len(Worth(l.key, l.val)) = 1
<1>1. l.val \in Value  BY DEF Line
<1>2. CASE l.key \in Numbers
  <2>1. l.val.is = "number" /\ ~(l.val.it > U32_MAX)
    BY <1>2 DEF Bad, Malformed
  <2>2. l.val.it \in 0..U32_MAX  BY <1>1, <2>1, ValueTypes, WidthAssumption
  <2>3. Worth(l.key, l.val) = l.val.it
    BY <1>2, KeysApart DEF Worth, Texts, SetLists, Numbers
  <2> QED  BY <1>2, <2>2, <2>3, KeysApart
<1>3. CASE l.key \in Booleans
  <2>1. Worth(l.key, l.val) = IsTrue(l.val)
    BY <1>3, KeysApart DEF Worth, Texts, SetLists, Booleans
  <2>2. IsTrue(l.val) \in BOOLEAN  BY DEF IsTrue
  <2> QED  BY <1>3, <2>1, <2>2, KeysApart
<1>4. CASE l.key \in Given
  <2>1. l.val.is = "number" /\ ~(l.val.it > USIZE_MAX)
    BY <1>4, KeysApart DEF Bad, Malformed
  <2>2. l.val.it \in 0..USIZE_MAX  BY <1>1, <2>1, ValueTypes, WidthAssumption
  <2>3. l.key \notin Numbers  BY <1>4, KeysApart
  <2>4. Worth(l.key, l.val) = l.val.it
    BY <1>4, KeysApart DEF Worth, Texts, SetLists, Given, Sizes
  <2> QED  BY <1>4, <2>2, <2>4, KeysApart
<1>5. CASE l.key = Socket
  <2>1. l.val.is = "address"  BY <1>5 DEF Bad, Malformed
  <2>2. l.val.it \in Address  BY <1>1, <2>1, ValueTypes
  <2>3. Worth(l.key, l.val) = <<l.val.it>>
    BY <1>5, KeysApart DEF Worth, Texts, SetLists, Socket
  <2> QED  BY <1>5, <2>2, <2>3, KeysApart
<1> QED  BY <1>2, <1>3, <1>4, <1>5

\* A line adds to the listeners it names, to the unknown directives if it is
\* one, and replaces the setting it is about.
LEMMA AppliedIs ==
  ASSUME NEW c, ConfigInv(c), NEW l \in Line
  PROVE  LET d == Applied(c, l)
         IN  /\ d = [udp_listen |-> d.udp_listen, tcp_listen |-> d.tcp_listen,
                     unknown |-> d.unknown, set |-> d.set]
             /\ d.udp_listen = IF l.key \in Udp
                               THEN Append(c.udp_listen, listen_addr(l.val))
                               ELSE c.udp_listen
             /\ d.tcp_listen = IF l.key \in Tcp
                               THEN Append(c.tcp_listen, listen_addr(l.val))
                               ELSE c.tcp_listen
             /\ d.unknown = IF l.key \in Named THEN c.unknown
                            ELSE Append(c.unknown, l.key)
             /\ d.set = IF l.key \in Settings
                        THEN [c.set EXCEPT ![l.key] = Worth(l.key, l.val)]
                        ELSE c.set
<1>1. c = [udp_listen |-> c.udp_listen, tcp_listen |-> c.tcp_listen,
           unknown |-> c.unknown, set |-> c.set]
  BY DEF ConfigInv
<1>2. l.key \in Listens => l.key \notin Settings
  BY KeysApart
<1>3. CASE l.key = ""
  <2>1. Applied(c, l) = c  BY <1>3, BlankApart DEF Applied
  <2> QED  BY <1>1, <1>3, <2>1, BlankApart DEF Udp, Tcp, Named
<1>4. CASE l.key = "listen.udp"
  <2>1. Applied(c, l) = [c EXCEPT !.udp_listen = Append(@, listen_addr(l.val))]
    BY <1>4, <1>2 DEF Applied, Listens
  <2> QED  BY <1>1, <1>2, <1>4, <2>1 DEF Udp, Tcp, Named, Listens
<1>5. CASE l.key = "listen.tcp"
  <2>1. Applied(c, l) = [c EXCEPT !.tcp_listen = Append(@, listen_addr(l.val))]
    BY <1>5, <1>2 DEF Applied, Listens
  <2> QED  BY <1>1, <1>2, <1>5, <2>1 DEF Udp, Tcp, Named, Listens
<1>6. CASE l.key = "listen.tcp_udp"
  <2>1. Applied(c, l) = [c EXCEPT !.udp_listen = Append(@, listen_addr(l.val)),
                                  !.tcp_listen = Append(@, listen_addr(l.val))]
    BY <1>6, <1>2 DEF Applied, Listens
  <2> QED  BY <1>1, <1>2, <1>6, <2>1 DEF Udp, Tcp, Named, Listens
<1>7. CASE l.key \in Settings
  <2>1. l.key \notin Listens \cup {""}  BY <1>7, KeysApart, BlankApart
  <2>2. Applied(c, l) = [c EXCEPT !.set[l.key] = Worth(l.key, l.val)]
    BY <1>7, <2>1 DEF Applied, Listens
  <2> QED  BY <1>1, <1>7, <2>1, <2>2 DEF Udp, Tcp, Named, Listens
<1>8. CASE l.key \notin Named
  <2>1. l.key \notin Settings /\ l.key \notin Listens /\ l.key # ""
    BY <1>8 DEF Named
  <2>2. Applied(c, l) = [c EXCEPT !.unknown = Append(@, l.key)]
    BY <2>1 DEF Applied, Listens
  <2> QED  BY <1>1, <1>8, <2>1, <2>2 DEF Udp, Tcp, Listens
<1> QED  BY <1>3, <1>4, <1>5, <1>6, <1>7, <1>8 DEF Named, Listens

LEMMA AppendType ==
  ASSUME NEW V, NEW list \in Seq(V), NEW x \in V
  PROVE  Append(list, x) \in Seq(V)
OBVIOUS

LEMMA AppliedInv ==
  ASSUME NEW c, ConfigInv(c), NEW l \in Line, ~Bad(l)
  PROVE  ConfigInv(Applied(c, l))
<1> DEFINE d == Applied(c, l)
<1>1. /\ d = [udp_listen |-> d.udp_listen, tcp_listen |-> d.tcp_listen,
              unknown |-> d.unknown, set |-> d.set]
      /\ d.udp_listen = IF l.key \in Udp
                        THEN Append(c.udp_listen, listen_addr(l.val))
                        ELSE c.udp_listen
      /\ d.tcp_listen = IF l.key \in Tcp
                        THEN Append(c.tcp_listen, listen_addr(l.val))
                        ELSE c.tcp_listen
      /\ d.unknown = IF l.key \in Named THEN c.unknown
                     ELSE Append(c.unknown, l.key)
      /\ d.set = IF l.key \in Settings
                 THEN [c.set EXCEPT ![l.key] = Worth(l.key, l.val)]
                 ELSE c.set
  BY AppliedIs
<1> HIDE DEF d
<1>2. l.key \in Udp \cup Tcp => listen_addr(l.val) \in Address
  BY ListenAddrType DEF Udp, Tcp, Listens
<1>3. l.key \in STRING  BY DEF Line
<1>4. d.udp_listen \in Seq(Address) /\ d.tcp_listen \in Seq(Address)
  BY <1>1, <1>2 DEF ConfigInv
<1>5. d.unknown \in Seq(STRING)
  <2>1. c.unknown \in Seq(STRING)  BY DEF ConfigInv
  <2>2. Append(c.unknown, l.key) \in Seq(STRING)  BY <1>3, <2>1, AppendType
  <2>3. d.unknown = c.unknown \/ d.unknown = Append(c.unknown, l.key)  BY <1>1
  <2> QED  BY <2>1, <2>2, <2>3
<1>6. /\ d.set = [k \in Settings |-> d.set[k]]
      /\ \A k \in Settings :
           d.set[k] = IF k = l.key THEN Worth(l.key, l.val) ELSE c.set[k]
  <2>1. c.set = [k \in Settings |-> c.set[k]]  BY DEF ConfigInv
  <2> QED  BY <1>1, <2>1
<1>8. \A k \in Given : d.set[k] \in 0..USIZE_MAX
  <2>1. \A k \in Given : c.set[k] \in 0..USIZE_MAX  BY DEF ConfigInv
  <2> QED  BY <1>6, <2>1, WorthTypes, KeysApart
<1>7. /\ \A k \in Numbers : d.set[k] \in 0..U32_MAX
      /\ \A k \in Booleans : d.set[k] \in BOOLEAN
      /\ d.set["listen.udp.workers"] \in Nat
      /\ d.set[Socket] \in Seq(Address) /\ Len(d.set[Socket]) \in {0, 1}
  <2>1. "listen.udp.workers" \in Given  BY KeysApart
  <2>2. d.set["listen.udp.workers"] \in Nat  BY <1>8, <2>1
  <2> QED  BY <1>6, <2>2, WorthTypes, KeysApart DEF ConfigInv
<1> QED  BY <1>1, <1>4, <1>5, <1>6, <1>7, <1>8 DEF ConfigInv, d

-----------------------------------------------------------------------------
(* The stages *)

Ended == {"refused", "failed", "stopped"}

Total == Udps + Tcps + Metrics

ControlInv ==
  /\ file \in Seq(Line)
  /\ stage \in {"reading", "starting", "running"} \cup Ended
  /\ line \in 1..(Len(file) + 1)
  /\ ConfigInv(config)
  /\ next \in 1..(Total + 1)
  /\ stage = "reading" => next = 1
  /\ stage = "running" => next = Total + 1
  /\ stage \notin {"starting", "running"} => udp = <<>> /\ tcp = {}
  /\ \A a \in DOMAIN udp : udp[a] \in Nat \ {0}
  /\ taken \subseteq Contested

\* The numbers of sockets, of any configuration.
LEMMA CountsOf ==
  ASSUME NEW c, ConfigInv(c),
         NEW w, w = IF c.set["listen.udp.workers"] = 0 THEN 1
                    ELSE c.set["listen.udp.workers"]
  PROVE  /\ w \in Nat \ {0} /\ w >= c.set["listen.udp.workers"]
         /\ Len(c.udp_listen) * w \in Nat
         /\ Len(c.tcp_listen) \in Nat /\ Len(c.set[Socket]) \in {0, 1}
<1>1. w \in Nat \ {0} /\ w >= c.set["listen.udp.workers"]
  BY DEF ConfigInv
<1>2. Len(c.udp_listen) \in Nat /\ Len(c.tcp_listen) \in Nat
  BY DEF ConfigInv
<1>3. Len(c.udp_listen) * w \in Nat  BY <1>1, <1>2
<1>4. Len(c.set[Socket]) \in {0, 1}  BY DEF ConfigInv
<1> QED  BY <1>1, <1>2, <1>3, <1>4

LEMMA SocketCounts ==
  ASSUME ConfigInv(config)
  PROVE  /\ Workers \in Nat \ {0} /\ Workers >= config.set["listen.udp.workers"]
         /\ Udps = Len(config.udp_listen) * Workers
         /\ Udps \in Nat /\ Tcps \in Nat /\ Metrics \in {0, 1}
         /\ Total = Udps + Tcps + Metrics /\ Total \in Nat
<1>1. /\ Workers \in Nat \ {0} /\ Workers >= config.set["listen.udp.workers"]
      /\ Udps = Len(config.udp_listen) * Workers
      /\ Udps \in Nat /\ Tcps \in Nat /\ Metrics \in {0, 1}
  BY CountsOf DEF Workers, Udps, Tcps, Metrics
<1> QED  BY <1>1 DEF Total

LEMMA TotalNext == ConfigInv(config') => Total' \in Nat
<1> DEFINE c == config'
           w == Workers'
           u == Udps'
           s == Tcps'
           m == Metrics'
<1>1. w = IF c.set["listen.udp.workers"] = 0 THEN 1 ELSE c.set["listen.udp.workers"]
  BY DEF Workers
<1>2. /\ u = Len(c.udp_listen) * w
      /\ s = Len(c.tcp_listen) /\ m = Len(c.set[Socket])
  BY DEF Udps, Tcps, Metrics
<1>3. Total' = u + s + m  BY DEF Total
<1> SUFFICES ASSUME ConfigInv(c) PROVE Total' \in Nat  OBVIOUS
<1> HIDE DEF c, w, u, s, m
<1>4. u \in Nat /\ s \in Nat /\ m \in {0, 1}
  BY <1>1, <1>2, CountsOf
<1> QED  BY <1>3, <1>4

LEMMA InitControl == Init => ControlInv
<1> SUFFICES ASSUME Init PROVE ControlInv  OBVIOUS
<1>1. file \in Seq(Line) /\ Len(file) \in Nat  BY FileAssumption DEF Init
<1>2. ConfigInv(config)  BY DefaultInv DEF Init
<1>3. Total \in Nat  BY <1>2, SocketCounts
<1> QED  BY <1>1, <1>2, <1>3 DEF Init, ControlInv

\* Everything keeps the numbers of sockets that keeps the configuration.
LEMMA SameCounts ==
  config' = config =>
    /\ Workers' = Workers /\ Udps' = Udps /\ Tcps' = Tcps
    /\ Metrics' = Metrics /\ Total' = Total
BY DEF Workers, Udps, Tcps, Metrics, Total

LEMMA ControlStep == ControlInv /\ [Next]_vars => ControlInv'
<1> SUFFICES ASSUME ControlInv, [Next]_vars PROVE ControlInv'
  OBVIOUS
<1> DEFINE T == Total'
<1>1. Total \in Nat  BY SocketCounts DEF ControlInv
<1>2. T = Total'  OBVIOUS
<1>3. Len(file) \in Nat  BY DEF ControlInv
<1> HIDE DEF T
<1>4. CASE ReadLine
  <2>1. CASE Bad(file[line])
    <3>1. config' = config /\ T = Total  BY <1>2, <1>4, <2>1, SameCounts DEF ReadLine
    <3> QED  BY <1>1, <1>2, <1>4, <2>1, <3>1 DEF ReadLine, ControlInv, Ended
  <2>2. CASE ~Bad(file[line])
    <3>1. file[line] \in Line  BY <1>3, <1>4 DEF ReadLine, ControlInv
    <3>2. ConfigInv(config')
      <4>1. ConfigInv(Applied(config, file[line]))
        BY <2>2, <3>1, AppliedInv DEF ControlInv
      <4> QED  BY <1>4, <2>2, <4>1 DEF ReadLine
    <3>3. T \in Nat  BY <1>2, <3>2, TotalNext
    <3>4. next' = 1 /\ 1 \in 1..(T + 1)  BY <1>4, <3>3 DEF ReadLine, ControlInv
    <3>5. next' \in 1..(Total' + 1)  BY <1>2, <3>4
    <3> QED  BY <1>3, <1>4, <2>2, <3>2, <3>4, <3>5 DEF ReadLine, ControlInv
  <2> QED  BY <2>1, <2>2
<1>5. CASE Run
  <2>1. config' = config /\ T = Total  BY <1>2, <1>5, SameCounts DEF Run
  <2> QED  BY <1>1, <1>2, <1>5, <2>1 DEF Run, ControlInv
<1>6. CASE Bind
  <2>1. config' = config /\ T = Total  BY <1>2, <1>6, SameCounts DEF Bind
  <2>2. CASE ~Free(ToBind(next))
    <3>1. /\ stage' = "failed" /\ udp' = <<>> /\ tcp' = {} /\ next' = next
          /\ file' = file /\ line' = line /\ taken' = taken
      BY <1>6, <2>2 DEF Bind, NoSockets
    <3> QED  BY <1>1, <1>2, <2>1, <3>1 DEF ControlInv, Ended
  <2>3. CASE Free(ToBind(next))
    <3>1. /\ stage' = "starting" /\ stage = "starting"
          /\ next' = next + 1 /\ next <= Total
          /\ file' = file /\ line' = line /\ taken' = taken
      BY <1>6, <2>3 DEF Bind, Total
    <3>2. \A a \in DOMAIN udp' : udp'[a] \in Nat \ {0}
      <4> DEFINE s == ToBind(next)
      <4>1. udp' = IF s.proto = "tcp" THEN udp
                   ELSE [a \in DOMAIN udp \cup {s.addr} |->
                           (IF a \in DOMAIN udp THEN udp[a] ELSE 0)
                           + (IF a = s.addr THEN 1 ELSE 0)]
        BY <1>6, <2>3 DEF Bind
      <4> HIDE DEF s
      <4> QED  BY <4>1 DEF ControlInv
    <3> QED  BY <1>1, <1>2, <2>1, <3>1, <3>2 DEF ControlInv
  <2> QED  BY <2>2, <2>3
<1>7. CASE Wait
  <2>1. config' = config /\ T = Total  BY <1>2, <1>7, SameCounts DEF Wait
  <2>2. next > Total  BY <1>7 DEF Wait, Total
  <2> QED  BY <1>1, <1>2, <1>7, <2>1, <2>2 DEF Wait, ControlInv
<1>8. CASE Shutdown
  <2>1. config' = config /\ T = Total  BY <1>2, <1>8, SameCounts DEF Shutdown
  <2> QED  BY <1>1, <1>2, <1>8, <2>1 DEF Shutdown, NoSockets, ControlInv, Ended
<1>9. CASE Restart
  <2>1. ConfigInv(config')  BY <1>9, DefaultInv DEF Restart
  <2>2. T \in Nat  BY <1>2, <2>1, TotalNext
  <2>3. next' = 1 /\ 1 \in 1..(T + 1)  BY <1>9, <2>2 DEF Restart, ControlInv
  <2>4. next' \in 1..(Total' + 1)  BY <1>2, <2>3
  <2> QED  BY <1>3, <1>9, <2>1, <2>3, <2>4 DEF Restart, NoSockets, ControlInv
<1>10. CASE \E s \in Contested : Occupy(s) \/ Release(s)
  <2>1. config' = config /\ T = Total
    BY <1>2, <1>10, SameCounts DEF Occupy, Release
  <2> QED  BY <1>1, <1>2, <1>10, <2>1 DEF Occupy, Release, ControlInv
<1>11. CASE UNCHANGED vars
  <2>1. config' = config /\ T = Total  BY <1>2, <1>11, SameCounts DEF vars
  <2> QED  BY <1>1, <1>2, <1>11, <2>1 DEF vars, ControlInv
<1> QED
  BY <1>4, <1>5, <1>6, <1>7, <1>8, <1>9, <1>10, <1>11 DEF Next

LEMMA ControlAlways == Spec => []ControlInv
BY InitControl, ControlStep, PTL DEF Spec

LEMMA ControlIsTyped == ControlInv => TypeOK
<1> SUFFICES ASSUME ControlInv PROVE TypeOK  OBVIOUS
<1>1. Total = Udps + Tcps + Metrics  BY DEF Total
<1> QED  BY <1>1 DEF ControlInv, ConfigInv, TypeOK, Ended

\* A configuration that was read has the types and widths of its directives,
\* and no more sockets are bound than it asks for.
THEOREM StartupTypes == Spec => []TypeOK
BY ControlAlways, ControlIsTyped, PTL

-----------------------------------------------------------------------------
(* The sockets *)

Serving == stage \in {"starting", "running"}

\* The UDP and the TCP sockets bound when all before `next` are.
UdpDone == IF next <= Udps THEN next - 1 ELSE Udps
TcpDone == IF next - 1 > Udps THEN next - 1 - Udps ELSE 0

\* Where an address is among the first q of a list, and how many sockets it has.
Places(list, a, q) == {i \in 1..q : list[i] = a}
Listed(list, a, q) == Cardinality(Places(list, a, q))
Bound(a)           == IF a \in DOMAIN udp THEN udp[a] ELSE 0

\* With q addresses done and r workers of the one behind them.
BoundUpTo(q, r) ==
  /\ q * Workers + r = UdpDone
  /\ \A a : Bound(a) = Listed(config.udp_listen, a, q) * Workers
              + (IF q < Len(config.udp_listen) /\ config.udp_listen[q + 1] = a
                 THEN r ELSE 0)

UdpInv ==
  Serving => \E q \in 0..Len(config.udp_listen), r \in 0..(Workers - 1) : BoundUpTo(q, r)

TcpAddr(j) == IF j <= Tcps THEN config.tcp_listen[j] ELSE config.set[Socket][1]

TcpInv ==
  Serving => /\ IsFiniteSet(tcp)
             /\ tcp = {TcpAddr(j) : j \in 1..TcpDone}
             /\ Cardinality(tcp) = TcpDone

SocketsInv == UdpInv /\ TcpInv

LEMMA ListedFirst == \A list, a : Listed(list, a, 0) = 0
<1>1. \A list, a : Places(list, a, 0) = {}  BY DEF Places
<1> QED  BY <1>1, FS_EmptySet DEF Listed

LEMMA ListedType ==
  ASSUME NEW list, NEW a, NEW q \in Nat
  PROVE  IsFiniteSet(Places(list, a, q)) /\ Listed(list, a, q) \in Nat
<1>1. IsFiniteSet(1..q)  BY FS_Interval
<1>2. Places(list, a, q) \subseteq 1..q  BY DEF Places
<1>3. IsFiniteSet(Places(list, a, q))  BY <1>1, <1>2, FS_Subset
<1> QED  BY <1>3, FS_CardinalityType DEF Listed

LEMMA ListedNext ==
  ASSUME NEW list, NEW a, NEW q \in Nat
  PROVE  Listed(list, a, q + 1) =
           Listed(list, a, q) + (IF list[q + 1] = a THEN 1 ELSE 0)
<1> DEFINE S == Places(list, a, q)
           T == Places(list, a, q + 1)
<1>1. IsFiniteSet(S) /\ Cardinality(S) \in Nat
  BY ListedType DEF Listed
<1>2. q + 1 \notin S  BY DEF Places
<1>3. CASE list[q + 1] = a
  <2>1. T = S \cup {q + 1}  BY <1>3 DEF Places
  <2> HIDE DEF S, T
  <2>2. Cardinality(T) = Cardinality(S) + 1  BY <1>1, <1>2, <2>1, FS_AddElement
  <2> QED  BY <1>3, <2>2 DEF S, T, Listed
<1>4. CASE list[q + 1] # a
  <2>1. T = S  BY <1>4 DEF Places
  <2>2. Listed(list, a, q + 1) = Listed(list, a, q)  BY <2>1 DEF Listed
  <2> QED  BY <1>4, <2>2, ListedType
<1> QED  BY <1>3, <1>4

LEMMA TimesGrows ==
  ASSUME NEW m \in Nat, NEW n \in Nat, NEW w \in Nat \ {0}, m <= n
  PROVE  m * w <= n * w
OBVIOUS

\* The address of the n-th worker, and how many workers it has with it.
LEMMA PlaceOfWorker ==
  ASSUME NEW k \in Nat, NEW w \in Nat \ {0}, NEW n \in Nat \ {0}, n <= k * w,
         NEW q \in 0..k, NEW r \in 0..(w - 1), q * w + r = n - 1
  PROVE  q < k /\ (n - 1) \div w = q
<1>1. q * w \in Nat  OBVIOUS
<1>2. ASSUME q >= k PROVE FALSE
  <2>1. k * w <= q * w  BY <1>2, TimesGrows
  <2>2. k * w \in Nat  OBVIOUS
  <2> QED  BY <1>1, <2>1, <2>2
<1> DEFINE x == n - 1
<1>3. x \in Nat /\ q * w <= x /\ x < q * w + w /\ q \in Nat
  BY <1>1
<1> HIDE DEF x
<1>4. x \div w = q
  <2> DEFINE d == x \div w
             e == x % w
  <2>1. d \in Nat /\ e \in 0..(w - 1) /\ x = w * d + e  BY <1>3
  <2> HIDE DEF d, e
  <2>2. ASSUME d < q PROVE FALSE
    <3>1. w * (d + 1) <= w * q  BY <1>3, <2>1, <2>2
    <3> QED  BY <1>3, <2>1, <3>1
  <2>3. ASSUME q < d PROVE FALSE
    <3>1. w * (q + 1) <= w * d  BY <1>3, <2>1, <2>3
    <3> QED  BY <1>3, <2>1, <3>1
  <2>4. d = q  BY <1>3, <2>1, <2>2, <2>3
  <2> QED  BY <2>4 DEF d
<1> QED  BY <1>2, <1>4 DEF x

LEMMA WorkerMore ==
  ASSUME NEW list, NEW w \in Nat \ {0}, NEW q \in Nat, NEW r \in 0..(w - 1),
         NEW a
  PROVE  Listed(list, a, q) * w + (IF list[q + 1] = a THEN r ELSE 0)
           + (IF a = list[q + 1] THEN 1 ELSE 0) =
           IF r + 1 < w
           THEN Listed(list, a, q) * w + (IF list[q + 1] = a THEN r + 1 ELSE 0)
           ELSE Listed(list, a, q + 1) * w
<1> DEFINE l == Listed(list, a, q)
           m == Listed(list, a, q + 1)
           b == l * w + (IF list[q + 1] = a THEN r ELSE 0)
<1>1. l \in Nat  BY ListedType
<1>2. m = l + (IF list[q + 1] = a THEN 1 ELSE 0)  BY ListedNext
<1>3. b = l * w + (IF list[q + 1] = a THEN r ELSE 0)  OBVIOUS
<1> HIDE DEF l, m, b
<1>4. l * w \in Nat /\ (l + 1) * w = l * w + w  BY <1>1
<1>5. m * w = IF list[q + 1] = a THEN l * w + w ELSE l * w
  BY <1>1, <1>2, <1>4
<1> DEFINE p == l * w
<1>6. p \in Nat  BY <1>4
<1>7. b + (IF a = list[q + 1] THEN 1 ELSE 0) =
        IF r + 1 < w THEN p + (IF list[q + 1] = a THEN r + 1 ELSE 0) ELSE m * w
  <2> HIDE DEF p
  <2>1. b = p + (IF list[q + 1] = a THEN r ELSE 0)  BY <1>3 DEF p
  <2>2. m * w = IF list[q + 1] = a THEN p + w ELSE p  BY <1>5 DEF p
  <2> QED  BY <1>6, <2>1, <2>2
<1> QED  BY <1>7 DEF l, m, b

LEMMA ControlCounts ==
  ASSUME ControlInv
  PROVE  /\ Workers \in Nat \ {0} /\ Workers >= config.set["listen.udp.workers"]
         /\ Udps = Len(config.udp_listen) * Workers
         /\ Len(config.udp_listen) \in Nat
         /\ Udps \in Nat /\ Tcps \in Nat /\ Metrics \in {0, 1}
         /\ Total = Udps + Tcps + Metrics /\ Total \in Nat
         /\ next \in Nat \ {0}
<1>1. ConfigInv(config) /\ next \in 1..(Total + 1)  BY DEF ControlInv
<1>2. Len(config.udp_listen) \in Nat  BY <1>1 DEF ConfigInv
<1> QED  BY <1>1, <1>2, SocketCounts

\* The socket that is to be bound next, if it is a worker's ...
LEMMA NextWorker ==
  ASSUME ControlInv, next <= Udps,
         NEW q \in 0..Len(config.udp_listen), NEW r \in 0..(Workers - 1),
         BoundUpTo(q, r)
  PROVE  /\ q < Len(config.udp_listen)
         /\ ToBind(next) = [proto |-> "udp", addr |-> config.udp_listen[q + 1]]
<1> DEFINE k == Len(config.udp_listen)
           w == Workers
           n == next
<1>1. k \in Nat /\ w \in Nat \ {0} /\ n \in Nat \ {0} /\ n <= k * w
  BY ControlCounts
<1>2. q * w + r = n - 1  BY DEF BoundUpTo, UdpDone
<1>3. q \in 0..k /\ r \in 0..(w - 1)  OBVIOUS
<1> HIDE DEF k, w, n
<1>4. q < k /\ (n - 1) \div w = q  BY <1>1, <1>2, <1>3, PlaceOfWorker
<1>5. ToBind(n) = [proto |-> "udp", addr |-> config.udp_listen[1 + ((n - 1) \div w)]]
  <2>1. n \in Nat /\ Udps \in Nat /\ Tcps \in Nat /\ n <= Udps
    BY ControlCounts DEF n
  <2>2. ~(n > Udps) /\ ~(n > Udps + Tcps)  BY <2>1
  <2> QED  BY <2>1, <2>2 DEF ToBind, w
<1>6. 1 + q = q + 1  BY <1>3, <1>1
<1>7. ToBind(n) = [proto |-> "udp", addr |-> config.udp_listen[q + 1]]
  BY <1>4, <1>5, <1>6
<1> QED  BY <1>4, <1>7 DEF k, n

\* ... and if it is not.
LEMMA NextTcp ==
  ASSUME ControlInv, next > Udps, next <= Total
  PROVE  /\ TcpDone \in Nat /\ TcpDone = next - 1 - Udps
         /\ ToBind(next) = [proto |-> "tcp", addr |-> TcpAddr(TcpDone + 1)]
<1> DEFINE n == next
           u == Udps
           s == Tcps
           d == TcpDone
<1>1. u \in Nat /\ s \in Nat /\ n \in Nat /\ n > u
  BY ControlCounts
<1>2. d = IF n - 1 > u THEN n - 1 - u ELSE 0  BY DEF TcpDone
<1>3. /\ n <= u + s => ToBind(n) = [proto |-> "tcp", addr |-> config.tcp_listen[n - u]]
      /\ n > u + s => ToBind(n) = [proto |-> "tcp", addr |-> config.set[Socket][1]]
  <2>1. ~(n <= u)  BY <1>1
  <2>2. CASE n <= u + s
    <3>1. ~(n > u + s)  BY <1>1, <2>2
    <3> QED  BY <1>1, <2>1, <2>2, <3>1 DEF ToBind
  <2>3. CASE n > u + s
    <3>1. ~(n <= u + s)  BY <1>1, <2>3
    <3> QED  BY <1>1, <2>1, <2>3, <3>1 DEF ToBind
  <2> QED  BY <2>2, <2>3
<1>4. \A j : TcpAddr(j) = IF j <= s THEN config.tcp_listen[j] ELSE config.set[Socket][1]
  BY DEF TcpAddr
<1> HIDE DEF n, u, s, d
<1>5. d \in Nat /\ d = n - 1 - u /\ d + 1 = n - u  BY <1>1, <1>2
<1>6. ToBind(n) = [proto |-> "tcp", addr |-> TcpAddr(d + 1)]
  BY <1>1, <1>3, <1>4, <1>5
<1> QED  BY <1>5, <1>6 DEF n, u, d

LEMMA RunSockets == ControlInv /\ Run => SocketsInv'
<1> SUFFICES ASSUME ControlInv, Run PROVE SocketsInv'
  OBVIOUS
<1>1. /\ config' = config /\ next' = 1 /\ udp' = <<>> /\ tcp' = {}
      /\ Workers' = Workers /\ Udps' = Udps /\ Tcps' = Tcps
  BY SameCounts DEF Run, ControlInv
<1>2. Workers \in Nat \ {0} /\ Udps \in Nat /\ Len(config.udp_listen) \in Nat
  BY ControlCounts
<1>3. UdpDone' = 0 /\ TcpDone' = 0
  BY <1>1, <1>2 DEF UdpDone, TcpDone
<1>4. BoundUpTo(0, 0)'
  <2>1. 0 * Workers + 0 = 0  BY <1>2
  <2>2. \A a : Bound(a)' = 0  BY <1>1 DEF Bound
  <2>3. \A a : Listed(config.udp_listen, a, 0) = 0  BY ListedFirst
  <2>4. \A a : Listed(config'.udp_listen, a, 0) * Workers' = 0
    BY <1>1, <1>2, <2>3
  <2>5. 0 * Workers' + 0 = UdpDone'  BY <1>1, <1>3, <2>1
  <2> QED  BY <2>2, <2>4, <2>5 DEF BoundUpTo
<1>5. 0 \in 0..Len(config.udp_listen)' /\ 0 \in 0..(Workers - 1)'
  BY <1>1, <1>2
<1>6. UdpInv'  BY <1>4, <1>5 DEF UdpInv
<1>7. TcpInv'
  <2>1. {TcpAddr(j)' : j \in 1..0} = {}  OBVIOUS
  <2> QED  BY <1>1, <1>3, <2>1, FS_EmptySet DEF TcpInv
<1> QED  BY <1>6, <1>7 DEF SocketsInv

\* One more worker of an address.
LEMMA BindWorker ==
  ControlInv /\ SocketsInv /\ Bind /\ Free(ToBind(next)) /\ next <= Udps => SocketsInv'
<1> SUFFICES ASSUME ControlInv, SocketsInv, Bind, Free(ToBind(next)), next <= Udps
             PROVE  SocketsInv'
  OBVIOUS
<1> DEFINE L == config.udp_listen
           w == Workers
<1>1. /\ w \in Nat \ {0} /\ Len(L) \in Nat /\ next \in Nat \ {0}
      /\ Udps \in Nat /\ next <= Udps
  BY ControlCounts
<1>2. Serving  BY DEF Bind, Serving
<1>3. PICK q \in 0..Len(L), r \in 0..(w - 1) : BoundUpTo(q, r)
  BY <1>2 DEF SocketsInv, UdpInv
<1>4. q < Len(L) /\ ToBind(next) = [proto |-> "udp", addr |-> L[q + 1]]
  BY <1>3, NextWorker
<1>5. /\ config' = config /\ next' = next + 1 /\ stage' = stage /\ tcp' = tcp
      /\ Workers' = w /\ Udps' = Udps /\ Tcps' = Tcps
  BY <1>4, SameCounts DEF Bind
<1>6. udp' = [x \in DOMAIN udp \cup {L[q + 1]} |->
               (IF x \in DOMAIN udp THEN udp[x] ELSE 0) + (IF x = L[q + 1] THEN 1 ELSE 0)]
  BY <1>4 DEF Bind
<1>7. \A x : Bound(x) \in Nat /\ Bound(x)' = Bound(x) + (IF x = L[q + 1] THEN 1 ELSE 0)
  <2>1. \A x : Bound(x) \in Nat  BY DEF Bound, ControlInv
  <2>2. \A x : Bound(x)' = IF x \in DOMAIN udp'
                           THEN udp'[x] ELSE 0
    BY DEF Bound
  <2> QED  BY <1>6, <2>1, <2>2 DEF Bound
<1>8. q * w + r = next - 1 /\ UdpDone' = next
  BY <1>1, <1>3, <1>5 DEF BoundUpTo, UdpDone
<1>9. \A x : Bound(x) = Listed(L, x, q) * w + (IF L[q + 1] = x THEN r ELSE 0)
  BY <1>3, <1>4 DEF BoundUpTo
<1> HIDE DEF L, w
<1>10. q \in Nat /\ r \in 0..(w - 1) /\ q \in 0..Len(L)  BY <1>1, <1>3
<1>11. \A x : Bound(x)' = IF r + 1 < w
                          THEN Listed(L, x, q) * w + (IF L[q + 1] = x THEN r + 1 ELSE 0)
                          ELSE Listed(L, x, q + 1) * w
  <2> TAKE x
  <2> DEFINE l == Listed(L, x, q) * w
             m == Listed(L, x, q + 1) * w
  <2>1. l + (IF L[q + 1] = x THEN r ELSE 0) + (IF x = L[q + 1] THEN 1 ELSE 0) =
          IF r + 1 < w THEN l + (IF L[q + 1] = x THEN r + 1 ELSE 0) ELSE m
    <3>1. w \in Nat \ {0} /\ q \in Nat /\ r \in 0..(w - 1)  BY <1>1, <1>10
    <3>2. \A list, a :
            Listed(list, a, q) * w + (IF list[q + 1] = a THEN r ELSE 0)
              + (IF a = list[q + 1] THEN 1 ELSE 0) =
            IF r + 1 < w
            THEN Listed(list, a, q) * w + (IF list[q + 1] = a THEN r + 1 ELSE 0)
            ELSE Listed(list, a, q + 1) * w
      BY <3>1, WorkerMore
    <3> QED  BY <3>2
  <2>2. Bound(x)' = l + (IF L[q + 1] = x THEN r ELSE 0)
                      + (IF x = L[q + 1] THEN 1 ELSE 0)
    BY <1>7, <1>9
  <2> QED  BY <2>1, <2>2
<1>12. UdpInv'
  <2>1. CASE r + 1 < w
    <3>1. q * w + (r + 1) = next  BY <1>1, <1>8, <1>10
    <3>2. r + 1 \in 0..(w - 1)  BY <1>1, <1>10, <2>1
    <3>3. BoundUpTo(q, r + 1)'
      BY <1>4, <1>5, <1>8, <1>11, <2>1, <3>1 DEF BoundUpTo, L, w
    <3> QED  BY <1>5, <1>10, <3>2, <3>3 DEF UdpInv, L, w
  <2>2. CASE ~(r + 1 < w)
    <3>1. r + 1 = w  BY <1>1, <1>10, <2>2
    <3>2. (q + 1) * w + 0 = next
      <4>1. (q + 1) * w = q * w + w /\ q * w \in Nat  BY <1>1, <1>10
      <4> QED  BY <1>1, <1>8, <1>10, <3>1, <4>1
    <3>3. q + 1 \in 0..Len(L) /\ 0 \in 0..(w - 1)  BY <1>1, <1>4, <1>10
    <3>4. \A x : Bound(x)' = Listed(L, x, q + 1) * w + 0
      <4>1. \A x : Listed(L, x, q + 1) * w \in Nat
        <5>1. q + 1 \in Nat  BY <1>10
        <5>2. \A x : Listed(L, x, q + 1) \in Nat  BY <5>1, ListedType
        <5> QED  BY <1>1, <5>2
      <4> QED  BY <1>11, <2>2, <4>1
    <3>5. BoundUpTo(q + 1, 0)'
      BY <1>5, <1>8, <3>2, <3>4 DEF BoundUpTo, L, w
    <3> QED  BY <1>5, <3>3, <3>5 DEF UdpInv, L, w
  <2> QED  BY <2>1, <2>2
<1>13. TcpInv'
  <2>1. TcpDone = 0 /\ TcpDone' = 0  BY <1>1, <1>5 DEF TcpDone
  <2>2. \A j : TcpAddr(j)' = TcpAddr(j)  BY <1>5 DEF TcpAddr
  <2> QED  BY <1>2, <1>5, <2>1, <2>2 DEF SocketsInv, TcpInv
<1> QED  BY <1>12, <1>13 DEF SocketsInv

\* One more TCP address, which nothing else of the process has.
LEMMA BindTcp ==
  ControlInv /\ SocketsInv /\ Bind /\ Free(ToBind(next)) /\ next > Udps => SocketsInv'
<1> SUFFICES ASSUME ControlInv, SocketsInv, Bind, Free(ToBind(next)), next > Udps
             PROVE  SocketsInv'
  OBVIOUS
<1> DEFINE d == TcpDone
           n == next
<1>1. n \in Nat /\ Udps \in Nat /\ n > Udps /\ n <= Total
  BY ControlCounts DEF Bind
<1>2. Serving  BY DEF Bind, Serving
<1>3. /\ d \in Nat /\ d = n - 1 - Udps
      /\ ToBind(n) = [proto |-> "tcp", addr |-> TcpAddr(d + 1)]
  BY <1>1, NextTcp
<1>4. /\ config' = config /\ next' = n + 1 /\ stage' = stage /\ udp' = udp
      /\ tcp' = tcp \cup {TcpAddr(d + 1)}
      /\ Workers' = Workers /\ Udps' = Udps /\ Tcps' = Tcps
  BY <1>3, SameCounts DEF Bind
<1>5. TcpAddr(d + 1) \notin tcp
  <2> DEFINE a == TcpAddr(d + 1)
  <2>1. ToBind(n).addr = a /\ ToBind(n).proto = "tcp"  BY <1>3
  <2> HIDE DEF a
  <2>2. Reach[a.ip] # {} /\ \A b \in tcp : ~Overlap(b, a)
    BY <2>1 DEF Free, Bindable
  <2> QED  BY <2>2 DEF Overlap, a
<1>6. UdpInv'
  <2>1. UdpDone' = UdpDone  BY <1>1, <1>4 DEF UdpDone
  <2>2. \A x : Bound(x)' = Bound(x)  BY <1>4 DEF Bound
  <2>3. \A q, r : BoundUpTo(q, r)' = BoundUpTo(q, r)
    BY <1>4, <2>1, <2>2 DEF BoundUpTo
  <2> QED  BY <1>2, <1>4, <2>3 DEF SocketsInv, UdpInv
<1>7. TcpDone' = d + 1  BY <1>1, <1>3, <1>4 DEF TcpDone
<1>8. \A j : TcpAddr(j)' = TcpAddr(j)  BY <1>4 DEF TcpAddr
<1>9. IsFiniteSet(tcp) /\ tcp = {TcpAddr(j) : j \in 1..d} /\ Cardinality(tcp) = d
  BY <1>2 DEF SocketsInv, TcpInv
<1> HIDE DEF d, n
<1>10. tcp' = {TcpAddr(j) : j \in 1..(d + 1)}
  <2>1. 1..(d + 1) = (1..d) \cup {d + 1}  BY <1>3
  <2> QED  BY <1>4, <1>9, <2>1
<1>11. IsFiniteSet(tcp') /\ Cardinality(tcp') = d + 1
  BY <1>4, <1>5, <1>9, FS_AddElement
<1>12. TcpInv'  BY <1>7, <1>8, <1>10, <1>11 DEF TcpInv
<1> QED  BY <1>6, <1>12 DEF SocketsInv

\* What keeps the configuration and the sockets keeps the invariant.
LEMMA SameSockets ==
  SocketsInv /\ (Serving' => Serving) /\ UNCHANGED <<config, next, udp, tcp>> => SocketsInv'
<1> SUFFICES ASSUME SocketsInv, Serving' => Serving, UNCHANGED <<config, next, udp, tcp>>
             PROVE  SocketsInv'
  OBVIOUS
<1>1. /\ Workers' = Workers /\ Udps' = Udps /\ Tcps' = Tcps
      /\ config' = config /\ next' = next /\ udp' = udp /\ tcp' = tcp
  BY SameCounts
<1>2. UdpDone' = UdpDone /\ TcpDone' = TcpDone  BY <1>1 DEF UdpDone, TcpDone
<1>3. \A x : Bound(x)' = Bound(x)  BY <1>1 DEF Bound
<1>4. \A q, r : BoundUpTo(q, r)' = BoundUpTo(q, r)
  BY <1>1, <1>2, <1>3 DEF BoundUpTo
<1>5. \A j : TcpAddr(j)' = TcpAddr(j)  BY <1>1 DEF TcpAddr
<1>6. UdpInv'  BY <1>1, <1>4 DEF SocketsInv, UdpInv
<1>7. TcpInv'  BY <1>1, <1>2, <1>5 DEF SocketsInv, TcpInv
<1> QED  BY <1>6, <1>7 DEF SocketsInv

LEMMA SocketsStep == ControlInv /\ SocketsInv /\ [Next]_vars => SocketsInv'
<1> SUFFICES ASSUME ControlInv, SocketsInv, [Next]_vars PROVE SocketsInv'
  OBVIOUS
<1>1. ~Serving' => SocketsInv'  BY DEF SocketsInv, UdpInv, TcpInv
<1>2. CASE ReadLine
  <2>1. ~Serving'  BY <1>2 DEF ReadLine, Serving
  <2> QED  BY <1>1, <2>1
<1>3. CASE Run
  BY <1>3, RunSockets
<1>4. CASE Bind
  <2>1. CASE ~Free(ToBind(next))
    <3>1. ~Serving'  BY <1>4, <2>1 DEF Bind, Serving
    <3> QED  BY <1>1, <3>1
  <2>2. CASE Free(ToBind(next)) /\ next <= Udps
    BY <1>4, <2>2, BindWorker
  <2>3. CASE Free(ToBind(next)) /\ next > Udps
    BY <1>4, <2>3, BindTcp
  <2>4. next \in Nat /\ Udps \in Nat  BY ControlCounts
  <2> QED  BY <2>1, <2>2, <2>3, <2>4
<1>5. CASE Wait
  <2>1. Serving /\ UNCHANGED <<config, next, udp, tcp>>  BY <1>5 DEF Wait, Serving
  <2> QED  BY <2>1, SameSockets
<1>6. CASE Shutdown \/ Restart
  <2>1. ~Serving'  BY <1>6 DEF Shutdown, Restart, Serving
  <2> QED  BY <1>1, <2>1
<1>7. CASE \E s \in Contested : Occupy(s) \/ Release(s)
  <2>1. Serving' => Serving  BY <1>7 DEF Occupy, Release, Serving
  <2>2. UNCHANGED <<config, next, udp, tcp>>  BY <1>7 DEF Occupy, Release
  <2> QED  BY <2>1, <2>2, SameSockets
<1>8. CASE UNCHANGED vars
  <2>1. (Serving' => Serving) /\ UNCHANGED <<config, next, udp, tcp>>
    BY <1>8 DEF vars, Serving
  <2> QED  BY <2>1, SameSockets
<1> QED
  BY <1>2, <1>3, <1>4, <1>5, <1>6, <1>7, <1>8 DEF Next

LEMMA SocketsAlways == Spec => []SocketsInv
<1>1. Init => SocketsInv
  BY DEF Init, SocketsInv, UdpInv, TcpInv, Serving
<1> QED  BY <1>1, SocketsStep, ControlAlways, PTL DEF Spec

LEMMA AllWorkers ==
  ASSUME ControlInv, SocketsInv, stage = "running"
  PROVE  \A a : Bound(a) = Listings(a) * Workers
<1> DEFINE L == config.udp_listen
           k == Len(L)
           w == Workers
<1>1. /\ w \in Nat \ {0} /\ k \in Nat /\ Udps = k * w /\ Udps \in Nat
      /\ Total = Udps + Tcps + Metrics /\ Tcps \in Nat /\ Metrics \in {0, 1}
      /\ next = Total + 1
  BY ControlCounts DEF ControlInv
<1>2. UdpDone = k * w  BY <1>1 DEF UdpDone
<1>3. PICK q \in 0..k, r \in 0..(w - 1) : BoundUpTo(q, r)
  BY DEF SocketsInv, UdpInv, Serving
<1>4. q * w + r = k * w  BY <1>2, <1>3 DEF BoundUpTo
<1>5. \A a : Bound(a) = Listed(L, a, q) * w + (IF q < k /\ L[q + 1] = a THEN r ELSE 0)
  BY <1>3 DEF BoundUpTo
<1>6. \A a : Listings(a) = Listed(L, a, k)  BY DEF Listings, Listed, Places
<1> HIDE DEF w, k, L
<1>7. q = k
  <2>1. q \in Nat /\ r \in 0..(w - 1)  BY <1>1
  <2>2. ASSUME q < k PROVE FALSE
    <3>1. (q + 1) * w <= k * w  BY <1>1, <2>1, <2>2, TimesGrows
    <3>2. (q + 1) * w = q * w + w /\ q * w \in Nat  BY <1>1, <2>1
    <3> QED  BY <1>1, <1>4, <2>1, <3>1, <3>2
  <2> QED  BY <1>1, <2>2
<1>8. \A a : Listed(L, a, k) * w \in Nat
  <2>1. \A a : Listed(L, a, k) \in Nat  BY <1>1, ListedType
  <2> QED  BY <1>1, <2>1
<1>9. \A a : Bound(a) = Listed(L, a, k) * w  BY <1>1, <1>5, <1>7, <1>8
<1> QED  BY <1>6, <1>9 DEF w

LEMMA AllTcp ==
  ASSUME ControlInv, SocketsInv, stage = "running"
  PROVE  /\ \A i \in 1..Tcps : config.tcp_listen[i] \in tcp
         /\ \A i \in 1..Metrics : config.set[Socket][i] \in tcp
         /\ Cardinality(tcp) = Tcps + Metrics
<1> DEFINE s == Tcps
           m == Metrics
<1>1. /\ s \in Nat /\ m \in {0, 1} /\ Udps \in Nat
      /\ next = Udps + s + m + 1
  BY ControlCounts DEF ControlInv
<1>2. TcpDone = s + m  BY <1>1 DEF TcpDone
<1>3. tcp = {TcpAddr(j) : j \in 1..(s + m)} /\ Cardinality(tcp) = s + m
  BY <1>2 DEF SocketsInv, TcpInv, Serving
<1>4. \A j : TcpAddr(j) = IF j <= s THEN config.tcp_listen[j] ELSE config.set[Socket][1]
  BY DEF TcpAddr
<1> HIDE DEF s, m
<1>5. \A i \in 1..s : config.tcp_listen[i] \in tcp
  <2> TAKE i \in 1..s
  <2>1. i \in 1..(s + m) /\ i <= s  BY <1>1
  <2> QED  BY <1>3, <1>4, <2>1
<1>6. \A i \in 1..m : config.set[Socket][i] \in tcp
  <2> TAKE i \in 1..m
  <2>1. i = 1 /\ s + 1 \in 1..(s + m) /\ ~(s + 1 <= s)  BY <1>1
  <2> QED  BY <1>3, <1>4, <2>1
<1> QED  BY <1>3, <1>5, <1>6 DEF s, m

LEMMA RunningServes == ControlInv /\ SocketsInv => ServesAsConfigured
<1> SUFFICES ASSUME ControlInv, SocketsInv PROVE ServesAsConfigured
  OBVIOUS
<1>1. ASSUME stage = "running", NEW i \in 1..Len(config.udp_listen)
      PROVE  LET a == config.udp_listen[i]
                 w == config.set["listen.udp.workers"]
             IN  a \in DOMAIN udp /\ udp[a] >= Listings(a) /\ udp[a] >= Listings(a) * w
  <2> DEFINE a == config.udp_listen[i]
             w == config.set["listen.udp.workers"]
             k == Len(config.udp_listen)
             n == Listings(a)
             W == Workers
  <2>1. W \in Nat \ {0} /\ w \in Nat /\ W >= w /\ k \in Nat
    BY ControlCounts DEF ControlInv, ConfigInv
  <2>2. Bound(a) = n * W  BY <1>1, AllWorkers
  <2>3. n \in Nat \ {0}
    <3>1. n = Listed(config.udp_listen, a, k)  BY DEF Listings, Listed, Places
    <3>2. i \in Places(config.udp_listen, a, k)  BY <1>1 DEF Places
    <3>3. /\ IsFiniteSet(Places(config.udp_listen, a, k))
          /\ Listed(config.udp_listen, a, k) \in Nat
      BY <2>1, ListedType
    <3>4. Cardinality(Places(config.udp_listen, a, k)) # 0
      BY <3>2, <3>3, FS_EmptySet
    <3> QED  BY <3>1, <3>3, <3>4 DEF Listed
  <2> HIDE DEF a, w, k, n, W
  <2>4. n * W \in Nat /\ n * W >= n /\ n * W >= n * w
    <3>1. w * n <= W * n /\ 1 * n <= W * n  BY <2>1, <2>3
    <3>2. w * n = n * w /\ W * n = n * W /\ 1 * n = n  BY <2>1, <2>3
    <3>3. n * W \in Nat /\ n * w \in Nat  BY <2>1, <2>3
    <3> QED  BY <2>3, <3>1, <3>2, <3>3
  <2>5. n * W # 0  BY <2>3, <2>4
  <2>6. a \in DOMAIN udp /\ udp[a] = n * W  BY <2>2, <2>5 DEF Bound
  <2>7. a \in DOMAIN udp /\ udp[a] >= n /\ udp[a] >= n * w  BY <2>4, <2>6
  <2> QED  BY <2>7 DEF a, w, n
<1> QED  BY <1>1, AllTcp DEF ServesAsConfigured

\* A tracker that runs has every socket its file asks for, and each UDP address
\* as many workers as the file gives it, the times it is listed counted.
THEOREM RunsAsConfigured == Spec => []ServesAsConfigured
BY ControlAlways, SocketsAlways, RunningServes, PTL

-----------------------------------------------------------------------------
(* The lines *)

UpTo(i, S) == {j \in S : j <= i}

\* A list that has at each line's rank what the line is worth.
Ordered(list, S, w) ==
  /\ Len(list) = Cardinality(S)
  /\ \A i \in S : list[Rank(i, S)] = w[i]

AddrOf == [i \in 1..Len(file) |-> listen_addr(file[i].val)]
KeyOf  == [i \in 1..Len(file) |-> file[i].key]

Others(n) == {i \in 1..n : file[i].key \notin Named}

\* The last of the first n lines that have the directive is what it is set to.
LastCounts(c, k, n) ==
  LET S == LinesOf({k}, n)
  IN  IF S = {} THEN c.set[k] = Default.set[k]
      ELSE \E i \in S : /\ \A j \in S : j <= i
                        /\ c.set[k] = Worth(k, file[i].val)

Written(c, n) ==
  /\ Ordered(c.udp_listen, LinesOf(Udp, n), AddrOf)
  /\ Ordered(c.tcp_listen, LinesOf(Tcp, n), AddrOf)
  /\ Ordered(c.unknown, Others(n), KeyOf)
  /\ \A k \in Settings : LastCounts(c, k, n)

WrittenInv == Written(config, line - 1)

LEMMA Ranks ==
  ASSUME NEW n \in Nat, NEW S \in SUBSET (1..n)
  PROVE  /\ IsFiniteSet(S) /\ Cardinality(S) \in Nat
         /\ \A i \in S : Rank(i, S) \in 1..Cardinality(S)
         /\ \A i \in S : Rank(i, S \cup {n + 1}) = Rank(i, S)
         /\ Rank(n + 1, S \cup {n + 1}) = Cardinality(S) + 1
         /\ Cardinality(S \cup {n + 1}) = Cardinality(S) + 1
<1>1. IsFiniteSet(S)
  <2>1. IsFiniteSet(1..n)  BY FS_Interval
  <2> QED  BY <2>1, FS_Subset
<1>2. Cardinality(S) \in Nat  BY <1>1, FS_CardinalityType
<1>3. \A i, X : Rank(i, X) = Cardinality(UpTo(i, X))  BY DEF Rank, UpTo
<1>4. \A i \in S : Rank(i, S) \in 1..Cardinality(S)
  <2> TAKE i \in S
  <2>1. UpTo(i, S) \subseteq S /\ i \in UpTo(i, S)  BY DEF UpTo
  <2>2. /\ IsFiniteSet(UpTo(i, S)) /\ Cardinality(UpTo(i, S)) \in Nat
        /\ Cardinality(UpTo(i, S)) <= Cardinality(S)
    BY <1>1, <2>1, FS_Subset, FS_CardinalityType
  <2>3. Cardinality(UpTo(i, S)) # 0  BY <2>1, <2>2, FS_EmptySet
  <2> QED  BY <1>2, <1>3, <2>2, <2>3
<1>5. \A i \in S : Rank(i, S \cup {n + 1}) = Rank(i, S)
  <2> TAKE i \in S
  <2>1. UpTo(i, S \cup {n + 1}) = UpTo(i, S)  BY DEF UpTo
  <2> QED  BY <1>3, <2>1
<1>6. Rank(n + 1, S \cup {n + 1}) = Cardinality(S \cup {n + 1})
  <2>1. \A j \in S \cup {n + 1} : j <= n + 1  OBVIOUS
  <2>2. UpTo(n + 1, S \cup {n + 1}) = S \cup {n + 1}  BY <2>1 DEF UpTo
  <2> QED  BY <1>3, <2>2
<1>7. Cardinality(S \cup {n + 1}) = Cardinality(S) + 1
  <2>1. n + 1 \notin S  OBVIOUS
  <2> QED  BY <1>1, <2>1, FS_AddElement
<1> QED  BY <1>1, <1>2, <1>4, <1>5, <1>6, <1>7

\* One more line appends what it is worth.
LEMMA OrderedMore ==
  ASSUME NEW n \in Nat, NEW S \in SUBSET (1..n), NEW V, NEW list \in Seq(V),
         NEW w, NEW x \in V, Ordered(list, S, w), w[n + 1] = x
  PROVE  Ordered(Append(list, x), S \cup {n + 1}, w)
<1> DEFINE T == S \cup {n + 1}
           k == Cardinality(S)
           d == Append(list, x)
<1>1. /\ k \in Nat
      /\ \A i \in S : Rank(i, S) \in 1..k
      /\ \A i \in S : Rank(i, T) = Rank(i, S)
      /\ Rank(n + 1, T) = k + 1 /\ Cardinality(T) = k + 1
  BY Ranks
<1>2. Len(list) = k /\ \A i \in S : list[Rank(i, S)] = w[i]  BY DEF Ordered
<1> HIDE DEF k
<1>3. /\ Len(d) = k + 1 /\ d[k + 1] = x
      /\ \A i \in 1..k : d[i] = list[i]
  BY <1>1, <1>2
<1> HIDE DEF d
<1>4. \A i \in T : d[Rank(i, T)] = w[i]
  <2> TAKE i \in T
  <2>1. CASE i = n + 1  BY <1>1, <1>3, <2>1
  <2>2. CASE i \in S    BY <1>1, <1>2, <1>3, <2>2
  <2> QED  BY <2>1, <2>2
<1>5. Len(d) = Cardinality(T)  BY <1>1, <1>3
<1> QED  BY <1>4, <1>5 DEF Ordered, d

LEMMA NothingWritten == Written(Default, 0)
<1>1. \A keys : LinesOf(keys, 0) = {}  BY DEF LinesOf
<1>2. Others(0) = {}  BY DEF Others
<1>3. /\ Default.udp_listen = <<>> /\ Default.tcp_listen = <<>>
      /\ Default.unknown = <<>>
  BY DEF Default
<1>4. \A w : Ordered(<<>>, {}, w)
  <2>1. Cardinality({}) = 0 /\ Len(<<>>) = 0  BY FS_EmptySet
  <2> QED  BY <2>1 DEF Ordered
<1>5. \A k \in Settings : LastCounts(Default, k, 0)  BY <1>1 DEF LastCounts
<1> QED  BY <1>1, <1>2, <1>3, <1>4, <1>5 DEF Written

LEMMA LineMore ==
  ASSUME NEW n \in Nat
  PROVE  /\ \A keys : LinesOf(keys, n + 1) =
                        IF file[n + 1].key \in keys
                        THEN LinesOf(keys, n) \cup {n + 1} ELSE LinesOf(keys, n)
         /\ Others(n + 1) = IF file[n + 1].key \in Named THEN Others(n)
                            ELSE Others(n) \cup {n + 1}
         /\ \A keys : LinesOf(keys, n) \in SUBSET (1..n)
         /\ Others(n) \in SUBSET (1..n)
<1>1. 1..(n + 1) = (1..n) \cup {n + 1} /\ n + 1 \notin 1..n  OBVIOUS
<1> QED  BY <1>1 DEF LinesOf, Others

\* One more line is written into the configuration as it stands in the file.
LEMMA WrittenMore ==
  ASSUME file \in Seq(Line), NEW n \in Nat, n < Len(file),
         NEW c, ConfigInv(c), Written(c, n), ~Bad(file[n + 1])
  PROVE  Written(Applied(c, file[n + 1]), n + 1)
<1> DEFINE l == file[n + 1]
           d == Applied(c, l)
           a == listen_addr(l.val)
<1>1. l \in Line /\ n + 1 \in 1..Len(file)
  OBVIOUS
<1>2. /\ d.udp_listen = IF l.key \in Udp THEN Append(c.udp_listen, a) ELSE c.udp_listen
      /\ d.tcp_listen = IF l.key \in Tcp THEN Append(c.tcp_listen, a) ELSE c.tcp_listen
      /\ d.unknown = IF l.key \in Named THEN c.unknown ELSE Append(c.unknown, l.key)
      /\ d.set = IF l.key \in Settings THEN [c.set EXCEPT ![l.key] = Worth(l.key, l.val)]
                 ELSE c.set
  BY <1>1, AppliedIs
<1>3. AddrOf[n + 1] = a /\ KeyOf[n + 1] = l.key  BY <1>1 DEF AddrOf, KeyOf
<1>4. /\ \A keys : LinesOf(keys, n + 1) =
                     IF l.key \in keys THEN LinesOf(keys, n) \cup {n + 1}
                     ELSE LinesOf(keys, n)
      /\ Others(n + 1) = IF l.key \in Named THEN Others(n) ELSE Others(n) \cup {n + 1}
      /\ \A keys : LinesOf(keys, n) \in SUBSET (1..n)
      /\ Others(n) \in SUBSET (1..n)
  BY LineMore
<1>5. l.key \in Listens => a \in Address  BY <1>1, ListenAddrType
<1>6. l.key \in STRING  BY <1>1 DEF Line
<1>7. /\ c.udp_listen \in Seq(Address) /\ c.tcp_listen \in Seq(Address)
      /\ c.unknown \in Seq(STRING)
  BY DEF ConfigInv
<1>8. c.set = [k \in Settings |-> c.set[k]]  BY DEF ConfigInv
<1> HIDE DEF d, a
<1>9. Ordered(d.udp_listen, LinesOf(Udp, n + 1), AddrOf)
  <2>1. Ordered(c.udp_listen, LinesOf(Udp, n), AddrOf)  BY DEF Written
  <2>2. CASE l.key \in Udp
    <3>1. a \in Address  BY <1>5, <2>2 DEF Udp, Listens
    <3>2. Ordered(Append(c.udp_listen, a), LinesOf(Udp, n) \cup {n + 1}, AddrOf)
      BY <1>3, <1>4, <1>7, <2>1, <3>1, OrderedMore
    <3> QED  BY <1>2, <1>4, <2>2, <3>2
  <2> QED  BY <1>2, <1>4, <2>1, <2>2
<1>10. Ordered(d.tcp_listen, LinesOf(Tcp, n + 1), AddrOf)
  <2>1. Ordered(c.tcp_listen, LinesOf(Tcp, n), AddrOf)  BY DEF Written
  <2>2. CASE l.key \in Tcp
    <3>1. a \in Address  BY <1>5, <2>2 DEF Tcp, Listens
    <3>2. Ordered(Append(c.tcp_listen, a), LinesOf(Tcp, n) \cup {n + 1}, AddrOf)
      BY <1>3, <1>4, <1>7, <2>1, <3>1, OrderedMore
    <3> QED  BY <1>2, <1>4, <2>2, <3>2
  <2> QED  BY <1>2, <1>4, <2>1, <2>2
<1>11. Ordered(d.unknown, Others(n + 1), KeyOf)
  <2>1. Ordered(c.unknown, Others(n), KeyOf)  BY DEF Written
  <2>2. CASE l.key \notin Named
    <3>1. Ordered(Append(c.unknown, l.key), Others(n) \cup {n + 1}, KeyOf)
      BY <1>3, <1>4, <1>6, <1>7, <2>1, OrderedMore
    <3> QED  BY <1>2, <1>4, <2>2, <3>1
  <2> QED  BY <1>2, <1>4, <2>1, <2>2
<1>12. \A k \in Settings : LastCounts(d, k, n + 1)
  <2> TAKE k \in Settings
  <2> DEFINE S == LinesOf({k}, n)
             T == LinesOf({k}, n + 1)
  <2>1. LastCounts(c, k, n)  BY DEF Written
  <2>2. S \in SUBSET (1..n) /\ T = IF l.key = k THEN S \cup {n + 1} ELSE S
    BY <1>4
  <2>3. CASE l.key = k
    <3>1. d.set[k] = Worth(k, l.val)  BY <1>2, <1>8, <2>3
    <3> HIDE DEF S, T
    <3>2. n + 1 \in T /\ \A j \in T : j <= n + 1  BY <2>2, <2>3
    <3>3. T # {} /\ d.set[k] = Worth(k, file[n + 1].val)  BY <3>1, <3>2
    <3> QED  BY <3>2, <3>3 DEF LastCounts, T
  <2>4. CASE l.key # k
    <3>1. d.set[k] = c.set[k]  BY <1>2, <1>8, <2>4
    <3>2. T = S  BY <2>2, <2>4
    <3> QED  BY <2>1, <3>1, <3>2 DEF LastCounts
  <2> QED  BY <2>3, <2>4
<1> QED  BY <1>9, <1>10, <1>11, <1>12 DEF Written, d

LEMMA WrittenStep == ControlInv /\ WrittenInv /\ [Next]_vars => WrittenInv'
<1> SUFFICES ASSUME ControlInv, WrittenInv, [Next]_vars PROVE WrittenInv'
  OBVIOUS
<1>1. file' = file
  BY DEF Next, ReadLine, Run, Bind, Wait, Shutdown, Restart, Occupy, Release, vars
<1>2. \A c, n : Written(c, n)' = Written(c, n)
  <2>1. AddrOf' = AddrOf /\ KeyOf' = KeyOf  BY <1>1 DEF AddrOf, KeyOf
  <2>2. \A keys, n : LinesOf(keys, n)' = LinesOf(keys, n)  BY <1>1 DEF LinesOf
  <2>3. \A n : Others(n)' = Others(n)  BY <1>1 DEF Others
  <2>4. \A c, k, n : LastCounts(c, k, n)' = LastCounts(c, k, n)
    BY <1>1, <2>2 DEF LastCounts
  <2> QED  BY <2>1, <2>2, <2>3, <2>4 DEF Written
<1>3. ASSUME UNCHANGED <<line, config>> PROVE WrittenInv'
  BY <1>2, <1>3 DEF WrittenInv
<1>4. CASE ReadLine
  <2>1. CASE Bad(file[line])
    <3>1. UNCHANGED <<line, config>>  BY <1>4, <2>1 DEF ReadLine
    <3> QED  BY <1>3, <3>1
  <2>2. CASE ~Bad(file[line])
    <3> DEFINE n == line - 1
    <3>1. /\ config' = Applied(config, file[line]) /\ line' = line + 1
          /\ line <= Len(file)
      BY <1>4, <2>2 DEF ReadLine
    <3>2. /\ file \in Seq(Line) /\ Len(file) \in Nat /\ ConfigInv(config)
          /\ line \in 1..(Len(file) + 1)
      BY DEF ControlInv
    <3>3. n \in Nat /\ n < Len(file) /\ n + 1 = line /\ line' - 1 = n + 1
      BY <3>1, <3>2
    <3>4. Written(config, n)  BY DEF WrittenInv
    <3> HIDE DEF n
    <3>5. Written(Applied(config, file[n + 1]), n + 1)
      BY <2>2, <3>2, <3>3, <3>4, WrittenMore
    <3>6. Written(config', line' - 1)  BY <3>1, <3>3, <3>5
    <3> QED  BY <1>2, <3>6 DEF WrittenInv
  <2> QED  BY <2>1, <2>2
<1>5. CASE Restart
  <2>1. config' = Default /\ line' - 1 = 0  BY <1>5 DEF Restart
  <2>2. Written(config', line' - 1)  BY <2>1, NothingWritten
  <2> QED  BY <1>2, <2>2 DEF WrittenInv
<1>6. CASE Run \/ Bind \/ Wait \/ Shutdown
  <2>1. UNCHANGED <<line, config>>  BY <1>6 DEF Run, Bind, Wait, Shutdown
  <2> QED  BY <1>3, <2>1
<1>7. CASE \/ \E s \in Contested : Occupy(s) \/ Release(s)
           \/ UNCHANGED vars
  <2>1. UNCHANGED <<line, config>>  BY <1>7 DEF Occupy, Release, vars
  <2> QED  BY <1>3, <2>1
<1> QED  BY <1>4, <1>5, <1>6, <1>7 DEF Next

LEMMA WrittenAlways == Spec => []WrittenInv
<1>1. Init => WrittenInv
  <2> SUFFICES ASSUME Init PROVE WrittenInv  OBVIOUS
  <2>1. config = Default /\ line - 1 = 0  BY DEF Init
  <2> QED  BY <2>1, NothingWritten DEF WrittenInv
<1> QED  BY <1>1, WrittenStep, ControlAlways, PTL DEF Spec

LEMMA WrittenIsAsWritten == ControlInv /\ WrittenInv => AsWritten
<1> SUFFICES ASSUME ControlInv, WrittenInv PROVE AsWritten
  OBVIOUS
<1> DEFINE n == line - 1
           addr(i) == IF file[i].val.is = "ip"
                        THEN [ip |-> file[i].val.it, port |-> DEFAULT_PORT]
                        ELSE file[i].val.it
           key(i)  == file[i].key
           Rest    == {file[i].key : i \in 1..n} \ Named
<1>1. n \in Nat /\ n <= Len(file) /\ Len(file) \in Nat  BY DEF ControlInv
<1>2. Written(config, n)  BY DEF WrittenInv
<1>3. \A i \in 1..n : AddrOf[i] = addr(i) /\ KeyOf[i] = key(i)
  <2>1. \A i \in 1..n : i \in 1..Len(file)  BY <1>1
  <2> QED  BY <2>1 DEF AddrOf, KeyOf, listen_addr
<1>4. Others(n) = LinesOf(Rest, n)
  <2> HIDE DEF n
  <2> QED  BY DEF Others, LinesOf
<1>5. \A keys : LinesOf(keys, n) \in SUBSET (1..n)  BY <1>1, LineMore
<1> HIDE DEF n, Rest
<1>6. InOrder(config.udp_listen, Udp, n, addr)
  BY <1>2, <1>3, <1>5 DEF InOrder, Written, Ordered
<1>7. InOrder(config.tcp_listen, Tcp, n, addr)
  BY <1>2, <1>3, <1>5 DEF InOrder, Written, Ordered
<1>8. InOrder(config.unknown, Rest, n, key)
  BY <1>2, <1>3, <1>4, <1>5 DEF InOrder, Written, Ordered
<1>9. \A k \in Settings :
        LET S == LinesOf({k}, n)
        IN  IF S = {} THEN config.set[k] = Default.set[k]
            ELSE \E i \in S : /\ \A j \in S : j <= i
                              /\ config.set[k] = Worth(k, file[i].val)
  BY <1>2 DEF Written, LastCounts
<1> QED  BY <1>6, <1>7, <1>8, <1>9 DEF AsWritten, InOrder, Udp, Tcp, n, Rest

\* What has been read is what is written: listeners and unknown directives in
\* the order of their lines, of every setting the last line, else the default.
THEOREM ReadsWhatIsWritten == Spec => []AsWritten
BY ControlAlways, WrittenAlways, WrittenIsAsWritten, PTL
=============================================================================
