---------------------------- MODULE ConnIdProofs ----------------------------
(***************************************************************************)
(* How long a connection id is good for, for every window length and every *)
(* lag of the clock and the workers.                                       *)
(***************************************************************************)
EXTENDS ConnId, TLAPS

\* When the worker that issued a grant had read the clock.
IssuedFrom(g, t) ==
  /\ g.id.window = t \div window_secs
  /\ t <= g.at
  /\ g.at <= t + HandlerLag

\* A grant as it may be at wall time `now`, the cached clock being at `c`.
GrantInv(g, now, c) ==
  /\ g \in Grant
  /\ g.at <= now
  /\ \E t \in Nat : t <= c /\ IssuedFrom(g, t)

UseInv(d) ==
  /\ d \in Uses
  /\ d.grant.at <= d.received
  /\ d.now <= d.received
  /\ d.received <= d.now + ClockLag
  /\ \E t \in Nat : t <= d.now /\ IssuedFrom(d.grant, t)

LagInv ==
  /\ clock <= wall
  /\ wall <= clock + ClockLag
  /\ \A w \in Busy : /\ handling[w].now <= clock
                     /\ wall <= handling[w].now + HandlerLag

IdInv ==
  /\ TypeOK
  /\ LagInv
  /\ \A ip \in Holders : GrantInv(grants[ip], wall, clock)
  /\ \A w \in Busy : handling[w].kind = "use" => UseInv(handling[w])

-----------------------------------------------------------------------------
(* Windows *)

LEMMA WindowBounds ==
  ASSUME NEW t \in Nat
  PROVE  /\ t \div window_secs \in Nat
         /\ (t \div window_secs) * window_secs <= t
         /\ t < (t \div window_secs) * window_secs + window_secs
BY WindowAssumption

\* Within one window length time crosses at most one window boundary.
LEMMA NextWindow ==
  ASSUME NEW t \in Nat, NEW n \in Nat, t <= n, n <= t + window_secs
  PROVE  \/ n \div window_secs = t \div window_secs
         \/ n \div window_secs = (t \div window_secs) + 1
<1> DEFINE a == t \div window_secs
           b == n \div window_secs
<1>1. /\ a \in Nat /\ a * window_secs <= t /\ t < a * window_secs + window_secs
      /\ b \in Nat /\ b * window_secs <= n /\ n < b * window_secs + window_secs
  BY WindowBounds
<1> HIDE DEF a, b
<1>2. b >= a
  <2> SUFFICES ASSUME b + 1 <= a PROVE FALSE  BY <1>1
  <2>1. (b + 1) * window_secs <= a * window_secs  BY <1>1, WindowAssumption
  <2>2. (b + 1) * window_secs = b * window_secs + window_secs
    BY <1>1, WindowAssumption
  <2>3. a * window_secs \in Int /\ b * window_secs \in Int  BY <1>1, WindowAssumption
  <2> QED  BY <1>1, <2>1, <2>2, <2>3, WindowAssumption
<1>3. b <= a + 1
  <2> SUFFICES ASSUME a + 2 <= b PROVE FALSE  BY <1>1
  <2>1. (a + 2) * window_secs <= b * window_secs  BY <1>1, WindowAssumption
  <2>2. (a + 2) * window_secs = a * window_secs + window_secs + window_secs
    BY <1>1, WindowAssumption
  <2>3. a * window_secs \in Int /\ b * window_secs \in Int  BY <1>1, WindowAssumption
  <2> QED  BY <1>1, <2>1, <2>2, <2>3, WindowAssumption
<1> QED  BY <1>1, <1>2, <1>3 DEF a, b

\* Two window lengths always cross two boundaries.
LEMMA TwoWindowsOn ==
  ASSUME NEW t \in Nat, NEW n \in Nat, t + 2 * window_secs <= n
  PROVE  (t \div window_secs) + 2 <= n \div window_secs
<1> DEFINE a == t \div window_secs
           b == n \div window_secs
<1>1. /\ a \in Nat /\ a * window_secs <= t
      /\ b \in Nat /\ n < b * window_secs + window_secs
  BY WindowBounds
<1> HIDE DEF a, b
<1> SUFFICES ASSUME b <= a + 1 PROVE FALSE  BY <1>1 DEF a, b
<1>2. b * window_secs <= (a + 1) * window_secs  BY <1>1, WindowAssumption
<1>3. (a + 1) * window_secs = a * window_secs + window_secs  BY <1>1, WindowAssumption
<1>4. a * window_secs \in Int /\ b * window_secs \in Int  BY <1>1, WindowAssumption
<1> QED  BY <1>1, <1>2, <1>3, <1>4, WindowAssumption

-----------------------------------------------------------------------------
(* The invariant *)

LEMMA InitIdInv == Init => IdInv
BY LagAssumption DEF Init, IdInv, TypeOK, LagInv, Holders, Busy

\* A step that gives no new grant and reads no new datagram keeps the rest.
LEMMA GrantsKept ==
  ASSUME IdInv, UNCHANGED grants, wall' \in Nat, wall <= wall', clock' \in Nat,
         clock <= clock'
  PROVE  \A ip \in Holders' : GrantInv(grants'[ip], wall', clock')
<1> SUFFICES ASSUME NEW ip \in Holders PROVE GrantInv(grants[ip], wall', clock')
  BY DEF Holders
<1>1. GrantInv(grants[ip], wall, clock) /\ wall \in Nat /\ clock \in Nat
  BY DEF IdInv, TypeOK
<1>2. PICK t \in Nat : t <= clock /\ IssuedFrom(grants[ip], t)  BY <1>1 DEF GrantInv
<1>3. t <= clock'  BY <1>1, <1>2
<1>4. grants[ip] \in Grant /\ grants[ip].at <= wall'  BY <1>1 DEF GrantInv, Grant
<1> QED  BY <1>2, <1>3, <1>4 DEF GrantInv

LEMMA NextIdInv ==
  ASSUME IdInv, [Next]_vars
  PROVE  IdInv'
<1>1. TypeOK /\ LagInv  BY DEF IdInv
<1> USE LagAssumption, WindowAssumption
<1>2. ASSUME NEW w \in Worker, NEW ip \in Ip, ReceiveConnect(w, ip) PROVE IdInv'
  <2> DEFINE d == [kind |-> "connect", ip |-> ip, now |-> clock]
  <2>1. /\ handling' = [v \in Busy \cup {w} |-> IF v = w THEN d ELSE handling[v]]
        /\ UNCHANGED <<wall, clock, secret, grants>>
    BY <1>2 DEF ReceiveConnect, Taken
  <2>2. d \in Connects /\ d.now = clock /\ d.kind = "connect"
    BY <1>1 DEF TypeOK, Connects
  <2> HIDE DEF d
  <2>3. Busy' = Busy \cup {w}  BY <2>1 DEF Busy
  <2>4. TypeOK'  BY <1>1, <2>1, <2>2, <2>3 DEF TypeOK, Holders, Busy
  <2>5. LagInv'  BY <1>1, <2>1, <2>2, <2>3 DEF TypeOK, LagInv
  <2>6. \A x \in Holders' : GrantInv(grants'[x], wall', clock')
    BY <1>1, <2>1, GrantsKept DEF TypeOK
  <2>7. \A v \in Busy' : handling'[v].kind = "use" => UseInv(handling'[v])
    BY <2>1, <2>2, <2>3 DEF IdInv
  <2> QED  BY <2>4, <2>5, <2>6, <2>7 DEF IdInv
<1>3. ASSUME NEW w \in Worker, NEW ip \in Ip, NEW owner \in Ip,
             ReceiveUse(w, ip, owner)
      PROVE  IdInv'
  <2> DEFINE g == grants[owner]
             d == [kind |-> "use", ip |-> ip, now |-> clock,
                   grant |-> g, received |-> wall]
  <2>1. /\ handling' = [v \in Busy \cup {w} |-> IF v = w THEN d ELSE handling[v]]
        /\ owner \in Holders
        /\ UNCHANGED <<wall, clock, secret, grants>>
    BY <1>3 DEF ReceiveUse, Taken
  <2>2. GrantInv(g, wall, clock)  BY <2>1 DEF IdInv
  <2>3. d \in Uses  BY <1>1, <2>2 DEF TypeOK, Uses, GrantInv
  <2>4. UseInv(d)  BY <1>1, <2>2, <2>3 DEF UseInv, GrantInv, LagInv
  <2>5. d.now = clock  OBVIOUS
  <2> HIDE DEF d
  <2>6. Busy' = Busy \cup {w}  BY <2>1 DEF Busy
  <2>7. TypeOK'  BY <1>1, <2>1, <2>3, <2>6 DEF TypeOK, Holders, Busy
  <2>8. LagInv'  BY <1>1, <2>1, <2>5, <2>6 DEF TypeOK, LagInv
  <2>9. \A x \in Holders' : GrantInv(grants'[x], wall', clock')
    BY <1>1, <2>1, GrantsKept DEF TypeOK
  <2>10. \A v \in Busy' : handling'[v].kind = "use" => UseInv(handling'[v])
    BY <2>1, <2>4, <2>6 DEF IdInv
  <2> QED  BY <2>7, <2>8, <2>9, <2>10 DEF IdInv
<1>4. ASSUME NEW w \in Worker, HandleConnect(w) PROVE IdInv'
  <2> DEFINE d == handling[w]
             g == [id |-> generate(d.ip, d.now), at |-> wall]
  <2>1. /\ w \in Busy /\ d.kind = "connect"
        /\ handling' = [v \in Busy \ {w} |-> handling[v]]
        /\ UNCHANGED <<wall, clock, secret>>
    BY <1>4 DEF HandleConnect, Done
  <2>2. Busy' = Busy \ {w}  BY <2>1 DEF Busy
  <2>3. d \in Connects  BY <1>1, <2>1 DEF TypeOK, Uses
  <2>4. GrantInv(g, wall, clock)
    <3>1. d.now \in Nat /\ d.ip \in Ip /\ wall \in Nat /\ secret \in Nat
      BY <1>1, <2>3 DEF TypeOK, Connects
    <3>2. d.now \div window_secs \in Nat  BY <3>1, WindowBounds
    <3>3. g \in Grant  BY <3>1, <3>2 DEF Grant, Id, generate, for_window
    <3>4. d.now <= clock /\ clock <= wall /\ wall <= d.now + HandlerLag
      BY <1>1, <2>1 DEF LagInv
    <3>5. d.now <= wall  BY <1>1, <3>1, <3>4 DEF TypeOK
    <3>6. IssuedFrom(g, d.now)
      BY <3>4, <3>5 DEF IssuedFrom, generate, for_window
    <3> QED  BY <3>1, <3>3, <3>4, <3>6 DEF GrantInv
  <2>5. TypeOK' /\ \A x \in Holders' : GrantInv(grants'[x], wall, clock)
    <3>1. CASE grants' = [x \in Holders \cup {d.ip} |-> IF x = d.ip THEN g ELSE grants[x]]
      <4>1. Holders' = Holders \cup {d.ip}  BY <3>1 DEF Holders
      <4>2. g \in Grant /\ d.ip \in Ip  BY <2>3, <2>4 DEF GrantInv, Connects
      <4> HIDE DEF g, d
      <4> QED  BY <1>1, <2>1, <2>2, <2>4, <3>1, <4>1, <4>2 DEF TypeOK, IdInv, Busy
    <3>2. CASE UNCHANGED grants
      BY <1>1, <2>1, <2>2, <3>2 DEF TypeOK, IdInv, Busy, Holders
    <3> QED  BY <1>4, <3>1, <3>2 DEF HandleConnect
  <2>6. LagInv'  BY <1>1, <2>1, <2>2 DEF LagInv
  <2>7. \A v \in Busy' : handling'[v].kind = "use" => UseInv(handling'[v])
    BY <2>1, <2>2 DEF IdInv
  <2> QED  BY <2>1, <2>5, <2>6, <2>7 DEF IdInv
<1>5. ASSUME NEW w \in Worker, Accept(w) \/ Mismatch(w) PROVE IdInv'
  <2>1. /\ handling' = [v \in Busy \ {w} |-> handling[v]]
        /\ UNCHANGED <<wall, clock, secret, grants>>
    BY <1>5 DEF Accept, Mismatch, Done
  <2>2. Busy' = Busy \ {w}  BY <2>1 DEF Busy
  <2>3. TypeOK'  BY <1>1, <2>1, <2>2 DEF TypeOK, Holders, Busy
  <2>4. LagInv'  BY <1>1, <2>1, <2>2 DEF LagInv
  <2>5. \A x \in Holders' : GrantInv(grants'[x], wall', clock')
    BY <1>1, <2>1, GrantsKept DEF TypeOK
  <2>6. \A v \in Busy' : handling'[v].kind = "use" => UseInv(handling'[v])
    BY <2>1, <2>2 DEF IdInv
  <2> QED  BY <2>3, <2>4, <2>5, <2>6 DEF IdInv
<1>6. CASE Restart
  <2>1. Busy' = {} /\ UNCHANGED <<wall, grants>> /\ clock' = wall
    BY <1>6 DEF Restart, Busy
  <2>2. TypeOK'  BY <1>1, <1>6, <2>1 DEF Restart, TypeOK, Holders, Busy
  <2>3. LagInv'  BY <1>1, <2>1 DEF TypeOK, LagInv
  <2>4. \A x \in Holders' : GrantInv(grants'[x], wall', clock')
    BY <1>1, <2>1, GrantsKept DEF TypeOK, LagInv
  <2> QED  BY <2>1, <2>2, <2>3, <2>4 DEF IdInv
<1>7. CASE ClockTask
  <2>1. UNCHANGED <<wall, secret, grants, handling>> /\ clock' = wall
    BY <1>7 DEF ClockTask
  <2>2. TypeOK'  BY <1>1, <2>1 DEF TypeOK, Holders, Busy
  <2>3. \A w \in Busy : handling[w].now \in Nat  BY <1>1 DEF TypeOK, Connects, Uses
  <2>4. LagInv'  BY <1>1, <2>1, <2>3 DEF TypeOK, LagInv, Busy
  <2>5. \A x \in Holders' : GrantInv(grants'[x], wall', clock')
    BY <1>1, <2>1, GrantsKept DEF TypeOK, LagInv
  <2>6. \A v \in Busy' : handling'[v].kind = "use" => UseInv(handling'[v])
    BY <2>1 DEF IdInv, Busy
  <2> QED  BY <2>2, <2>4, <2>5, <2>6 DEF IdInv
<1>8. CASE Tick
  <2>1. /\ UNCHANGED <<clock, secret, grants, handling>> /\ wall' = wall + 1
        /\ wall < clock + ClockLag
        /\ \A w \in Busy : wall < handling[w].now + HandlerLag
    BY <1>8 DEF Tick
  <2>2. TypeOK'  BY <1>1, <2>1 DEF TypeOK, Holders, Busy
  <2>3. \A w \in Busy : handling[w].now \in Nat  BY <1>1 DEF TypeOK, Connects, Uses
  <2>4. LagInv'  BY <1>1, <2>1, <2>3 DEF TypeOK, LagInv, Busy
  <2>5. \A x \in Holders' : GrantInv(grants'[x], wall', clock')
    BY <1>1, <2>1, GrantsKept DEF TypeOK
  <2>6. \A v \in Busy' : handling'[v].kind = "use" => UseInv(handling'[v])
    BY <2>1 DEF IdInv, Busy
  <2> QED  BY <2>2, <2>4, <2>5, <2>6 DEF IdInv
<1>9. CASE UNCHANGED vars
  BY <1>9 DEF vars, IdInv, TypeOK, LagInv, Holders, Busy
<1> QED
  BY <1>2, <1>3, <1>4, <1>5, <1>6, <1>7, <1>8, <1>9 DEF Next

\* Ids and the times workers hold are as old as the lags allow, never older.
THEOREM IdInvariant == Spec => []IdInv
<1>1. Init => IdInv  BY InitIdInv
<1>2. IdInv /\ [Next]_vars => IdInv'  BY NextIdInv
<1> QED  BY <1>1, <1>2, PTL DEF Spec

-----------------------------------------------------------------------------
(* What follows *)

\* Ids, and the times workers and clients have of them, never leave their types:
\* window 0 has no predecessor below it, and a process only ever gets its own key.
THEOREM ConnIdTypes == Spec => []TypeOK
<1>1. IdInv => TypeOK  BY DEF IdInv
<1> QED  BY <1>1, IdInvariant, PTL

LEMMA PresentedUse ==
  ASSUME IdInv, NEW d \in Presented
  PROVE  UseInv(d)
BY DEF Presented, IdInv

\* A client is let in for window_secs - HandlerLag seconds after it was given
\* its id by this process, whichever window boundary falls in between.
THEOREM HonestAreAccepted == Spec => []HonestAccepted
<1>1. IdInv => HonestAccepted
  <2> SUFFICES ASSUME IdInv, NEW d \in Presented,
                      d.grant.id.ip = d.ip, d.grant.id.secret = secret,
                      d.received - d.grant.at <= window_secs - HandlerLag
               PROVE  Valid(d)
    BY DEF HonestAccepted
  <2>1. UseInv(d)  BY PresentedUse
  <2>2. PICK t \in Nat : t <= d.now /\ IssuedFrom(d.grant, t)  BY <2>1 DEF UseInv
  <2>3. /\ d.now \in Nat /\ d.received \in Nat /\ d.grant.at \in Nat
        /\ d.grant.id \in Id
    BY <2>1 DEF UseInv, Uses, Grant
  <2>4. d.now <= t + window_secs
    BY <2>1, <2>2, <2>3, LagAssumption, WindowAssumption DEF UseInv, IssuedFrom
  <2>5. \/ d.now \div window_secs = d.grant.id.window
        \/ d.now \div window_secs = d.grant.id.window + 1
    BY <2>2, <2>3, <2>4, NextWindow DEF IssuedFrom
  <2>6. d.grant.id = for_window(d.ip, d.grant.id.window)
    BY <2>3 DEF Id, for_window
  <2>7. d.grant.id.window \in Nat  BY <2>3 DEF Id
  <2> QED  BY <2>5, <2>6, <2>7 DEF Valid, validate
<1> QED  BY <1>1, IdInvariant, PTL

\* Nobody is let in by an id that is 2 * window_secs + ClockLag seconds old.
THEOREM StaleAreRefused == Spec => []StaleRefused
<1>1. IdInv => StaleRefused
  <2> SUFFICES ASSUME IdInv, NEW d \in Presented, Valid(d),
                      d.received - d.grant.at >= 2 * window_secs + ClockLag
               PROVE  FALSE
    BY DEF StaleRefused
  <2>1. UseInv(d)  BY PresentedUse
  <2>2. PICK t \in Nat : t <= d.now /\ IssuedFrom(d.grant, t)  BY <2>1 DEF UseInv
  <2>3. d.now \in Nat /\ d.received \in Nat /\ d.grant.at \in Nat
    BY <2>1 DEF UseInv, Uses, Grant
  <2>4. t + 2 * window_secs <= d.now
    BY <2>1, <2>2, <2>3, LagAssumption, WindowAssumption DEF UseInv, IssuedFrom
  <2>5. d.grant.id.window + 2 <= d.now \div window_secs
    BY <2>2, <2>3, <2>4, TwoWindowsOn DEF IssuedFrom
  <2>6. /\ d.now \div window_secs \in Nat
        /\ d.grant.id.window \in Nat
    BY <2>2, <2>3, WindowBounds DEF IssuedFrom
  <2>7. \/ d.grant.id.window = d.now \div window_secs
        \/ d.grant.id.window = (d.now \div window_secs) - 1
    BY DEF Valid, validate, for_window
  <2> QED  BY <2>5, <2>6, <2>7
<1> QED  BY <1>1, IdInvariant, PTL

-----------------------------------------------------------------------------
(* Whom an id was sent to *)

\* An id is held by the address it was computed for.
OwnInv ==
  \A ip \in Holders : grants[ip].id.ip = ip /\ grants[ip].id.secret <= secret

\* The id of a datagram was sent to its address, which may hold a later one.
SentInv(d) ==
  LET owner == d.grant.id.ip
  IN  /\ owner \in Holders
      /\ d.grant.at <= grants[owner].at
      /\ d.grant.id.secret <= grants[owner].id.secret

SourceInv ==
  /\ IdInv
  /\ OwnInv
  /\ \A w \in Busy : handling[w].kind = "use" => SentInv(handling[w])

LEMMA GrantType ==
  ASSUME TypeOK, NEW ip \in Holders
  PROVE  /\ grants[ip].at \in Nat /\ grants[ip].id.secret \in Nat
         /\ grants[ip] \in Grant /\ ip \in Ip
BY DEF TypeOK, Grant, Id

LEMMA UseType ==
  ASSUME TypeOK, NEW w \in Busy, handling[w].kind = "use"
  PROVE  /\ handling[w].grant.at \in Nat
         /\ handling[w].grant.id.secret \in Nat
         /\ handling[w].received \in Nat
BY DEF TypeOK, Connects, Uses, Grant, Id

LEMMA NextSourceInv ==
  ASSUME SourceInv, [Next]_vars
  PROVE  SourceInv'
<1>1. TypeOK /\ LagInv /\ IdInv  BY DEF SourceInv, IdInv
<1>2. IdInv'  BY <1>1, NextIdInv
<1>3. ASSUME NEW w \in Worker, NEW ip \in Ip, ReceiveConnect(w, ip)
      PROVE  SourceInv'
  <2>1. /\ \A v \in Busy' : handling'[v].kind = "use" =>
             v \in Busy /\ handling'[v] = handling[v]
        /\ UNCHANGED <<secret, grants>>
    BY <1>3 DEF ReceiveConnect, Taken, Busy
  <2> QED  BY <1>2, <2>1 DEF SourceInv, OwnInv, SentInv, Holders
<1>4. ASSUME NEW w \in Worker, NEW ip \in Ip, NEW owner \in Ip,
             ReceiveUse(w, ip, owner)
      PROVE  SourceInv'
  <2>1. /\ owner \in Holders
        /\ \A v \in Busy' : \/ v \in Busy /\ handling'[v] = handling[v]
                            \/ handling'[v].grant = grants[owner]
        /\ UNCHANGED <<secret, grants>>
    BY <1>4 DEF ReceiveUse, Taken, Busy
  <2>2. /\ grants[owner].id.ip = owner
        /\ grants[owner].at \in Nat /\ grants[owner].id.secret \in Nat
    BY <1>1, <2>1, GrantType DEF SourceInv, OwnInv
  <2> QED  BY <1>2, <2>1, <2>2 DEF SourceInv, OwnInv, SentInv, Holders
<1>5. ASSUME NEW w \in Worker, HandleConnect(w) PROVE SourceInv'
  <2> DEFINE d == handling[w]
             g == [id |-> generate(d.ip, d.now), at |-> wall]
  <2>1. /\ \A v \in Busy' : v \in Busy /\ handling'[v] = handling[v]
        /\ UNCHANGED secret
    BY <1>5 DEF HandleConnect, Done, Busy
  <2>2. CASE UNCHANGED grants
    BY <1>2, <2>1, <2>2 DEF SourceInv, OwnInv, SentInv, Holders
  <2>3. CASE grants' = [x \in Holders \cup {d.ip} |-> IF x = d.ip THEN g ELSE grants[x]]
    <3>1. g.id.ip = d.ip /\ g.id.secret = secret /\ g.at = wall
      BY DEF generate, for_window
    <3> HIDE DEF g
    <3>2. Holders' = Holders \cup {d.ip}  BY <2>3 DEF Holders
    <3>3. secret \in Nat  BY <1>1 DEF TypeOK
    <3>4. OwnInv'  BY <2>1, <2>3, <3>1, <3>2, <3>3 DEF SourceInv, OwnInv
    <3>5. ASSUME NEW v \in Busy', handling'[v].kind = "use"
          PROVE  SentInv(handling[v])'
      <4> DEFINE u == handling[v]
      <4>1. v \in Busy /\ handling'[v] = u /\ u.kind = "use"  BY <2>1, <3>5
      <4>2. SentInv(u)  BY <4>1 DEF SourceInv
      <4>3. CASE u.grant.id.ip # d.ip
        BY <2>3, <3>2, <4>2, <4>3, <4>1 DEF SentInv
      <4>4. CASE u.grant.id.ip = d.ip
        <5>1. d.ip \in Holders /\ OwnInv  BY <4>2, <4>4 DEF SentInv, SourceInv
        <5>2. grants[d.ip].id.secret <= secret  BY <5>1 DEF OwnInv
        <5>3. grants[d.ip].at <= wall  BY <1>1, <5>1 DEF IdInv, GrantInv
        <5>4. u.grant.at <= grants[d.ip].at /\ u.grant.id.secret <= grants[d.ip].id.secret
          BY <4>2, <4>4 DEF SentInv
        <5>5. u.grant.at <= wall /\ u.grant.id.secret <= secret
          BY <1>1, <3>3, <4>1, <5>1, <5>2, <5>3, <5>4, GrantType, UseType DEF TypeOK
        <5>6. grants'[d.ip] = g /\ d.ip \in Holders'  BY <2>3, <3>2
        <5> QED  BY <3>1, <4>4, <4>1, <5>5, <5>6 DEF SentInv
      <4> QED  BY <4>3, <4>4
    <3> QED  BY <1>2, <2>1, <3>4, <3>5 DEF SourceInv
  <2> QED  BY <1>5, <2>2, <2>3 DEF HandleConnect
<1>6. ASSUME NEW w \in Worker, Accept(w) \/ Mismatch(w) PROVE SourceInv'
  <2>1. /\ \A v \in Busy' : v \in Busy /\ handling'[v] = handling[v]
        /\ UNCHANGED <<secret, grants>>
    BY <1>6 DEF Accept, Mismatch, Done, Busy
  <2> QED  BY <1>2, <2>1 DEF SourceInv, OwnInv, SentInv, Holders
<1>7. CASE Restart
  <2>1. Busy' = {} /\ UNCHANGED grants /\ secret' = secret + 1
    BY <1>7 DEF Restart, Busy
  <2>2. \A ip \in Holders : grants[ip].id.secret \in Nat /\ secret \in Nat
    BY <1>1, GrantType DEF TypeOK
  <2> QED  BY <1>2, <2>1, <2>2 DEF SourceInv, OwnInv, Holders
<1>8. CASE ClockTask \/ Tick
  <2>1. UNCHANGED <<secret, grants, handling>>  BY <1>8 DEF ClockTask, Tick
  <2> QED  BY <1>2, <2>1 DEF SourceInv, OwnInv, SentInv, Holders, Busy
<1>9. CASE UNCHANGED vars
  BY <1>2, <1>9 DEF vars, SourceInv, OwnInv, SentInv, Holders, Busy
<1> QED
  BY <1>3, <1>4, <1>5, <1>6, <1>7, <1>8, <1>9 DEF Next

\* No address is let in that this process did not lately reply to: neither a
\* source that is made up, nor one that presents what another was sent, nor one
\* that kept its id from before a restart.
THEOREM OnlyReachedAreAdmitted == Spec => []OnlyReachedAdmitted
<1>1. Init => SourceInv
  BY InitIdInv DEF Init, SourceInv, OwnInv, Holders, Busy
<1>2. SourceInv /\ [Next]_vars => SourceInv'  BY NextSourceInv
<1>3. SourceInv /\ StaleRefused => OnlyReachedAdmitted
  <2> SUFFICES ASSUME SourceInv, StaleRefused, NEW w \in Busy,
                      handling[w].kind = "use", Valid(handling[w])
               PROVE  /\ handling[w].ip \in Holders
                      /\ grants[handling[w].ip].id.secret = secret
                      /\ handling[w].received - grants[handling[w].ip].at
                           < 2 * window_secs + ClockLag
    BY DEF OnlyReachedAdmitted, Presented
  <2> DEFINE d == handling[w]
  <2>1. d.grant.id.ip = d.ip /\ d.grant.id.secret = secret
    BY DEF Valid, validate, for_window
  <2>2. d \in Presented  BY DEF Presented
  <2>3. ~(d.received - d.grant.at >= 2 * window_secs + ClockLag)
    BY <2>2 DEF StaleRefused
  <2>4. SentInv(d) /\ OwnInv /\ TypeOK  BY DEF SourceInv, IdInv
  <2>5. /\ d.ip \in Holders /\ d.grant.at <= grants[d.ip].at
        /\ secret <= grants[d.ip].id.secret /\ grants[d.ip].id.secret <= secret
    BY <2>1, <2>4 DEF SentInv, OwnInv
  <2>6. /\ grants[d.ip].at \in Nat /\ grants[d.ip].id.secret \in Nat
        /\ d.grant.at \in Nat /\ d.received \in Nat /\ secret \in Nat
    BY <2>4, <2>5, GrantType, UseType DEF TypeOK
  <2> QED  BY <2>3, <2>5, <2>6, LagAssumption, WindowAssumption
<1> QED  BY <1>1, <1>2, <1>3, StaleAreRefused, PTL DEF Spec

=============================================================================
