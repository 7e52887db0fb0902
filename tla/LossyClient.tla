------------------------------ MODULE LossyClient ------------------------------
(***************************************************************************)
(* A conforming client with one torrent, whose datagrams and replies get   *)
(* lost, against the detector, and a tracker that restarts under it.       *)
(* BEP-15 has it repeat an unanswered request after 15 seconds, then 30,   *)
(* 60 and so on, and ask for a new connection id once its own is a minute  *)
(* old.  The tracker sees every repetition whose first copy was not lost   *)
(* on the way in; a refused id gets no answer at all.                      *)
(***************************************************************************)
EXTENDS Detector

CONSTANTS
  client,      \* its address
  announce,    \* the announce it repeats
  Intervals,   \* the announce intervals a reply may advertise
  MaxLost,     \* replies lost from one interval to the next
  MaxRestarts  \* bound: restarts explored

FIRST_TIMEOUT == 15   \* external: BEP-15
ID_LIFETIME   == 60

\* How often an id is refused: it is sent after 0, 15 and 45 seconds, and the
\* third refusal is given up after 105.
REFUSALS == 3

ASSUME ClientAssumption ==
  /\ client \in Ip /\ announce \in Announces
  /\ announce.marks = {} /\ announce.key \notin TrivialKey
  /\ Intervals \subseteq Nat /\ MaxLost \in Nat

\* What the configuration leaves to the network, as Config::default does: the
\* refusals of one id and the losses of one interval together are no ban, and
\* an interval drains what its losses score.
ASSUME ToleranceAssumption ==
  /\ MaxLost < config.connect_burst
  /\ REFUSALS * config.weight["connid"] + MaxLost * config.weight["interval"]
       < config.score_ban_threshold
  /\ \A interval \in Intervals :
       /\ interval >= config.reannounce_min_interval
       /\ (interval \div AtLeastOne(config.decay_interval)) * config.decay_amount
            >= MaxLost * config.weight["interval"]

VARIABLES
  turn,     \* what it does next: connect, announce or wait, or sent after it
  idAt,     \* when it got its id
  stale,    \* the process that gave it is gone
  timeout,  \* the seconds it waits for its next reply, doubled by each
  lost,     \* replies lost since the last one to an announce
  restarts  \* bound: restarts so far

client_vars == <<turn, idAt, stale, timeout, lost, restarts>>

Start ==
  /\ Init
  /\ turn = "connect" /\ idAt = 0 /\ stale = FALSE
  /\ timeout = FIRST_TIMEOUT /\ lost = 0 /\ restarts = 0

Connect(w) ==
  /\ turn = "connect" /\ Busy = {}
  /\ Receive(w, client, [kind |-> "connect"])
  /\ turn' = "connect_sent"
  /\ UNCHANGED <<idAt, stale, timeout, lost, restarts>>

Announce(w) ==
  /\ turn = "announce" /\ Busy = {}
  /\ Receive(w, client, IF stale THEN [kind |-> "mismatch"] ELSE announce)
  /\ turn' = IF stale THEN "refused" ELSE "announce_sent"
  /\ UNCHANGED <<idAt, stale, timeout, lost, restarts>>

Serve(w) == (Observe(w) \/ Decide(w)) /\ UNCHANGED client_vars

Connected_ ==
  /\ turn = "connect_sent" /\ Busy = {}
  /\ turn' = "announce" /\ timeout' = FIRST_TIMEOUT
  /\ idAt' = wall /\ stale' = FALSE
  /\ UNCHANGED <<vars, lost, restarts>>

Announced_ ==
  /\ turn = "announce_sent" /\ Busy = {}
  /\ turn' = "wait" /\ timeout' = FIRST_TIMEOUT /\ lost' = 0
  /\ UNCHANGED <<vars, idAt, stale, restarts>>

\* Some seconds at once: clock_task runs meanwhile.
Later(secs) ==
  /\ wall + secs <= MaxWall
  /\ wall' = wall + secs /\ clock' = wall'
  /\ UNCHANGED <<clients, offenders, handling, verdict, hidden>>

\* No reply, because it was lost or because there is none to a refused id.
TimeOut ==
  /\ turn \in {"connect_sent", "announce_sent", "refused"} /\ Busy = {}
  /\ turn # "refused" => lost < MaxLost
  /\ lost' = IF turn = "refused" THEN lost ELSE lost + 1
  /\ Later(timeout)
  /\ timeout' = 2 * timeout
  /\ turn' = IF turn = "connect_sent" \/ wall' - idAt >= ID_LIFETIME
               THEN "connect" ELSE "announce"
  /\ UNCHANGED <<idAt, stale, restarts>>

Wait(interval) ==
  /\ turn = "wait" /\ Busy = {}
  /\ Later(interval)
  /\ turn' = "connect"
  /\ UNCHANGED <<idAt, stale, timeout, lost, restarts>>

\* build_shared: a new key for the ids, and an empty detector.
Restart ==
  /\ restarts < MaxRestarts /\ Busy = {}
  /\ restarts' = restarts + 1
  /\ clients' = <<>> /\ offenders' = <<>> /\ banned' = <<>>
  /\ stale' = TRUE
  /\ turn' = IF turn = "announce_sent" THEN "refused" ELSE turn
  /\ UNCHANGED <<wall, clock, handling, verdict, sent, crossings, idAt, timeout, lost>>

Act ==
  \/ \E w \in Worker : Connect(w) \/ Announce(w) \/ Serve(w)
  \/ Connected_ \/ Announced_ \/ TimeOut \/ Restart
  \/ \E interval \in Intervals : Wait(interval)

Loses == Start /\ [][Act]_<<vars, client_vars>>

\* A client is not banned for its network or for the tracker's restarts: what
\* a repeated announce and refused ids score decays before the next interval
\* is over, as long as no more than MaxLost replies are lost in each.
LossyClientUnbanned == crossings[client] = 0
=============================================================================
