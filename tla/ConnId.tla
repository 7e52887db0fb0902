------------------------------- MODULE ConnId -------------------------------
(***************************************************************************)
(* The UDP connection ids of crates/bf-core/src/connid.rs in use: workers  *)
(* hand them out and check them against the cached clock, clients keep the *)
(* last one that reached them, and the tracker may be restarted, which     *)
(* draws a new secret.                                                     *)
(*                                                                         *)
(* The keyed MAC is taken to be ideal: an id is the triple it was computed *)
(* from, so two ids are equal only if secret, address and window are.      *)
(***************************************************************************)
EXTENDS Integers

CONSTANTS
  Ip,            \* source addresses
  Worker,
  window_secs,
  ClockLag,      \* how far the cached clock may trail the wall
  HandlerLag,    \* how old the time a worker holds may get
  MaxWall,       \* bound: the last second explored
  MaxRestarts    \* bound: restarts explored

ASSUME WindowAssumption == window_secs \in Nat \ {0}

ASSUME LagAssumption ==
  ClockLag \in Nat /\ HandlerLag \in Nat /\ ClockLag <= HandlerLag

ASSUME BoundAssumption == MaxWall \in Nat /\ MaxRestarts \in Nat

VARIABLES
  wall,       \* SystemTime, in seconds
  clock,      \* Shared.clock
  secret,     \* the key drawn by this process: one per start
  grants,     \* client -> the id it holds, and when the tracker issued it
  handling    \* worker -> its datagram and the time it loaded on receipt

vars == <<wall, clock, secret, grants, handling>>

\* An id exists once it was issued.
Id    == [secret : Nat, ip : Ip, window : Nat]
Grant == [id : Id, at : Nat]

Holders == DOMAIN grants
Busy    == DOMAIN handling

\* A connect carries no id.
Connects == [kind : {"connect"}, ip : Ip, now : Nat]
Uses     == [kind : {"use"}, ip : Ip, now : Nat, grant : Grant, received : Nat]

TypeOK ==
  /\ wall \in Nat /\ clock \in Nat /\ secret \in Nat
  /\ Holders \subseteq Ip /\ grants \in [Holders -> Grant]
  /\ Busy \subseteq Worker /\ handling \in [Busy -> Connects \cup Uses]

-----------------------------------------------------------------------------
(* generate and validate *)

for_window(ip, window) == [secret |-> secret, ip |-> ip, window |-> window]

\* Mutant: the id of the previous window is handed out.
generate_Previous(ip, now) == for_window(ip, now \div window_secs - 1)

\* The id of the current window.
generate(ip, now) == for_window(ip, now \div window_secs)

\* Mutant: the current window only.
validate_Current(id, ip, now) == id = for_window(ip, now \div window_secs)

\* Mutant: two windows back.
validate_TwoBack(id, ip, now) ==
  LET window == now \div window_secs
  IN  \E back \in 0..2 : back <= window /\ id = for_window(ip, window - back)

\* Mutant: for whichever address it was issued.
validate_AnyIp(id, ip, now) ==
  LET window == now \div window_secs
  IN  \E back \in 0..1 : back <= window /\ id = for_window(id.ip, window - back)

\* The id of the current window or, once there was one, of the previous one.
validate(id, ip, now) ==
  LET window == now \div window_secs
  IN  \/ id = for_window(ip, window)
      \/ window > 0 /\ id = for_window(ip, window - 1)

-----------------------------------------------------------------------------
Init ==
  /\ wall = 0 /\ clock = 0 /\ secret = 0
  /\ grants = <<>>
  /\ handling = <<>>

Taken(w, datagram) ==
  [v \in Busy \cup {w} |-> IF v = w THEN datagram ELSE handling[v]]

Done(w) == [v \in Busy \ {w} |-> handling[v]]

\* A worker takes a datagram off its socket, then loads the clock.
ReceiveConnect(w, ip) ==
  /\ w \notin Busy
  /\ handling' = Taken(w, [kind |-> "connect", ip |-> ip, now |-> clock])
  /\ UNCHANGED <<wall, clock, secret, grants>>

\* Any address may present any id that was handed out.
ReceiveUse(w, ip, owner) ==
  /\ w \notin Busy
  /\ owner \in Holders
  /\ handling' = Taken(w, [kind |-> "use", ip |-> ip, now |-> clock,
                           grant |-> grants[owner], received |-> wall])
  /\ UNCHANGED <<wall, clock, secret, grants>>

\* The reply reaches the client, or is lost.
HandleConnect(w) ==
  LET d == handling[w]
      grant == [id |-> generate(d.ip, d.now), at |-> wall]
  IN  /\ w \in Busy /\ d.kind = "connect"
      /\ \/ grants' = [ip \in Holders \cup {d.ip} |->
                         IF ip = d.ip THEN grant ELSE grants[ip]]
         \/ UNCHANGED grants
      /\ handling' = Done(w)
      /\ UNCHANGED <<wall, clock, secret>>

\* What the handler decides about a datagram that carries an id.
Valid(d) == validate(d.grant.id, d.ip, d.now)

\* An announce or a scrape goes on to the store.
Accept(w) ==
  /\ w \in Busy /\ handling[w].kind = "use"
  /\ Valid(handling[w])
  /\ handling' = Done(w)
  /\ UNCHANGED <<wall, clock, secret, grants>>

\* Action::ConnidMismatch: no reply, and nothing reaches the store.
Mismatch(w) ==
  /\ w \in Busy /\ handling[w].kind = "use"
  /\ ~Valid(handling[w])
  /\ handling' = Done(w)
  /\ UNCHANGED <<wall, clock, secret, grants>>

\* The process dies with everything it held; clients keep their ids.
Restart ==
  /\ secret < MaxRestarts
  /\ secret' = secret + 1
  /\ clock' = wall
  /\ handling' = <<>>
  /\ UNCHANGED <<wall, grants>>

ClockTask == clock' = wall /\ UNCHANGED <<wall, secret, grants, handling>>

Tick ==
  /\ wall < MaxWall
  /\ wall < clock + ClockLag
  /\ \A w \in Busy : wall < handling[w].now + HandlerLag
  /\ wall' = wall + 1
  /\ UNCHANGED <<clock, secret, grants, handling>>

Next ==
  \/ \E w \in Worker :
       \/ \E ip \in Ip : ReceiveConnect(w, ip)
       \/ \E ip, owner \in Ip : ReceiveUse(w, ip, owner)
       \/ HandleConnect(w)
       \/ Accept(w) \/ Mismatch(w)
  \/ Restart \/ ClockTask \/ Tick

Spec == Init /\ [][Next]_vars

-----------------------------------------------------------------------------
(* Properties *)

Presented == {handling[w] : w \in {v \in Busy : handling[v].kind = "use"}}

\* A client that uses its own id within the window is let in, whenever in the
\* window it got it, whichever workers serve it, and however late the clock.
HonestAccepted ==
  \A d \in Presented :
    /\ d.grant.id.ip = d.ip
    /\ d.grant.id.secret = secret
    /\ d.received - d.grant.at <= window_secs - HandlerLag
    => Valid(d)

\* A captured id is of no use for long: past two windows it is refused.
StaleRefused ==
  \A d \in Presented :
    d.received - d.grant.at >= 2 * window_secs + ClockLag => ~Valid(d)

\* What the ids are for: whoever is let in under an address was sent a reply at
\* that address, by this process, and less than two windows ago.
OnlyReachedAdmitted ==
  \A d \in Presented :
    Valid(d) =>
      /\ d.ip \in Holders
      /\ grants[d.ip].id.secret = secret
      /\ d.received - grants[d.ip].at < 2 * window_secs + ClockLag
=============================================================================
