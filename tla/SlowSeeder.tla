----------------------------- MODULE SlowSeeder -----------------------------
(***************************************************************************)
(* A client that seeds files it already had, alone in its swarm, against   *)
(* the detector as it is configured by default.  It does what BEP-15 and   *)
(* the tracker tell it to: a connect, an announce with the id it got, and  *)
(* then nothing for the interval of the reply.                             *)
(***************************************************************************)
EXTENDS Detector

CONSTANTS
  seeder,    \* its address
  seeding,   \* the announce it repeats
  Intervals  \* the announce intervals a reply may advertise

VARIABLE turn   \* what it does next

Start == Init /\ turn = "connect"

Connect(w) ==
  /\ turn = "connect" /\ Busy = {}
  /\ Receive(w, seeder, [kind |-> "connect"])
  /\ turn' = "announce"

Announce(w) ==
  /\ turn = "announce" /\ Busy = {}
  /\ Receive(w, seeder, seeding)
  /\ turn' = "wait"

Serve(w) == (Observe(w) \/ Decide(w)) /\ UNCHANGED turn

\* The seconds of the interval at once: clock_task runs meanwhile.
Wait(interval) ==
  /\ turn = "wait" /\ Busy = {}
  /\ wall + interval <= MaxWall
  /\ wall' = wall + interval
  /\ clock' = wall'
  /\ turn' = "connect"
  /\ UNCHANGED <<clients, offenders, handling, verdict, hidden>>

Act ==
  \/ \E w \in Worker : Connect(w) \/ Announce(w) \/ Serve(w)
  \/ \E interval \in Intervals : Wait(interval)

Seeds == Start /\ [][Act]_<<vars, turn>>

\* "an honest low-activity seeder shows the same shapes as a flood (empty
\* swarms, seeding without transfer, many torrents) but does so slowly, so rate
\* is the only thing that actually separates them" (Config::fast_announce_gap).
SlowSeederUnbanned == crossings[seeder] = 0
=============================================================================
