-------------------------------- MODULE Store --------------------------------
(***************************************************************************)
(* The sharded torrent store of crates/bf-core/src/store.rs, together with *)
(* what decides when its operations run and what time they are told: the   *)
(* cached clock, the workers that read it before they reach the store, and *)
(* the collector that sweeps the shards one lock at a time                 *)
(* (crates/bluefrog/src/main.rs).                                          *)
(*                                                                         *)
(* `wall` counts seconds.  The store counts minutes and knows only the     *)
(* time it is handed.                                                      *)
(***************************************************************************)
EXTENDS PeerList

CONSTANTS
  Hash,                    \* info-hashes
  Listening,               \* the address families of the bound sockets
  Worker,                  \* UDP workers and HTTP connections
  SHARD_COUNT,
  ShardOf,                 \* Hash -> shard, the top bits of the hash
  PEER_TIMEOUT_MINUTES,
  TORRENT_TIMEOUT_MINUTES,
  GC_INTERVAL_SECS,
  SecsPerMinute,
  ClockLag,                \* how far the cached clock may trail the wall
  HandlerLag,              \* how old the time a worker holds may get
  GcLag,                   \* how late a sweep may end after it was due
  MaxWall,                 \* bound: the last second explored
  MaxDownloaded,           \* bound: completions counted per list
  MaxNumwant               \* bound: peers asked for

Family == {"v4", "v6"}

ASSUME ListeningAssumption == Listening \subseteq Family

ASSUME ShardAssumption ==
  SHARD_COUNT \in Nat \ {0} /\ ShardOf \in [Hash -> 0..(SHARD_COUNT - 1)]

ASSUME TimeoutAssumption ==
  /\ PEER_TIMEOUT_MINUTES \in Nat \ {0}
  /\ TORRENT_TIMEOUT_MINUTES \in Nat \ {0}
  /\ GC_INTERVAL_SECS \in Nat \ {0}
  /\ SecsPerMinute \in Nat \ {0}

\* A worker loads the cached clock, so what it holds is at least as old.
\* No request takes as long as a torrent lasts.
ASSUME LagAssumption ==
  /\ ClockLag \in Nat /\ HandlerLag \in Nat /\ GcLag \in Nat
  /\ ClockLag <= HandlerLag
  /\ HandlerLag <= (TORRENT_TIMEOUT_MINUTES - 1) * SecsPerMinute

ASSUME BoundAssumption ==
  MaxWall \in Nat /\ MaxDownloaded \in Nat /\ MaxNumwant \in Nat

VARIABLES
  torrents,   \* known info-hashes -> their peer lists and `base`
  reply,      \* what the last operation answered
  wall,       \* SystemTime, in seconds
  clock,      \* Shared.clock, the cached seconds
  held,       \* workers inside a request -> the seconds they loaded
  sweepNow,   \* the minute handed to the running gc
  sweepNext,  \* the next shard gc locks; SHARD_COUNT while gc_task sleeps
  sweepDue,   \* when gc_task's sleep ends
  heard       \* history: wall time of a peer's last applied announce

store == <<torrents, reply, heard>>
sweep == <<sweepNow, sweepNext, sweepDue>>
vars  == <<store, wall, clock, held, sweep>>

Known == DOMAIN torrents
Busy  == DOMAIN held

IsTorrent(t) ==
  /\ t = [lists |-> [f \in Family |-> t.lists[f]], base |-> t.base]
  /\ \A f \in Family : IsList(t.lists[f]) /\ leechers(t.lists[f]) \in Nat
  /\ t.base \in Nat

Counts == [complete : 0..U32_MAX, incomplete : 0..U32_MAX, downloaded : 0..U32_MAX]
Peer   == Hash \X Family \X Key

TypeOK ==
  /\ Known \subseteq Hash
  /\ torrents = [h \in Known |-> torrents[h]]
  /\ \A h \in Known : IsTorrent(torrents[h])
  /\ reply \in [counts : Counts, peers : SUBSET Key]
  /\ wall \in Nat
  /\ clock \in Nat
  /\ Busy \subseteq Worker
  /\ held \in [Busy -> Nat]
  /\ sweepNow \in Nat
  /\ sweepNext \in 0..SHARD_COUNT
  /\ sweepDue \in Nat
  /\ heard \in [Peer -> Nat]

-----------------------------------------------------------------------------
(* Torrents *)

NewTorrent == [lists |-> [f \in Family |-> NewList], base |-> 0]

\* shard.entry(hash).or_insert_with(Torrent::new)
TorrentOf(h) == IF h \in Known THEN torrents[h] ELSE NewTorrent

NoCounts == [complete |-> 0, incomplete |-> 0, downloaded |-> 0]

\* The downloads a torrent remembers; each list counts its own in a u64.
Completions(t) == t.lists["v4"].downloaded + t.lists["v6"].downloaded

counts(t) ==
  LET v4 == t.lists["v4"]
      v6 == t.lists["v6"]
  IN  [ complete   |-> AsU32(v4.seeders + v6.seeders),
        incomplete |-> AsU32(leechers(v4) + leechers(v6)),
        downloaded |-> AsU32(Completions(t)) ]

\* Mutant: the download history does not count.
is_empty_PeersOnly(t) == \A f \in Family : Registered(t.lists[f]) = {}

is_empty(t) ==
  \A f \in Family : Registered(t.lists[f]) = {} /\ t.lists[f].downloaded = 0

WithList(t, f, l, now) == [lists |-> [t.lists EXCEPT ![f] = l], base |-> now]

Minutes(secs) == secs \div SecsPerMinute

-----------------------------------------------------------------------------
(* Initial state *)

Init ==
  /\ torrents = <<>>
  /\ reply = [counts |-> NoCounts, peers |-> {}]
  /\ wall = 0 /\ clock = 0
  /\ held = <<>>
  /\ sweepNow = 0
  /\ sweepNext = SHARD_COUNT
  /\ sweepDue = GC_INTERVAL_SECS
  /\ heard = [r \in Peer |-> 0]

-----------------------------------------------------------------------------
(* Requests.  A worker loads the clock when a datagram or a connection     *)
(* reaches it; the store operation comes later, under its shard's lock.    *)

Load(w) ==
  /\ w \notin Busy
  /\ held' = [v \in Busy \cup {w} |-> IF v = w THEN clock ELSE held[v]]
  /\ UNCHANGED <<store, wall, clock, sweep>>

Released(w) == [v \in Busy \ {w} |-> held[v]]

\* announce_v4, announce_v6
Announce(w, h, f, k, flags, numwant) ==
  LET now == Minutes(held[w])
      l   == announce(TorrentOf(h).lists[f], k, flags, now)
      t   == WithList(TorrentOf(h), f, l, now)
  IN  /\ w \in Busy
      /\ l.downloaded <= MaxDownloaded
      /\ torrents' = [x \in Known \cup {h} |-> IF x = h THEN t ELSE torrents[x]]
      /\ \E S \in write_compact(l, numwant) :
           reply' = [counts |-> counts(t), peers |-> S]
      /\ heard' = [heard EXCEPT ![<<h, f, k>>] = wall]
      /\ held' = Released(w)
      /\ UNCHANGED <<wall, clock, sweep>>

\* remove_v4, remove_v6: an unknown torrent is answered with zeros
Remove(w, h, f, k) ==
  LET now == Minutes(held[w])
      t   == WithList(torrents[h], f, remove(torrents[h].lists[f], k), now)
  IN  /\ w \in Busy
      /\ \/ /\ h \in Known
            /\ torrents' = [torrents EXCEPT ![h] = t]
            /\ reply' = [counts |-> counts(t), peers |-> {}]
         \/ /\ h \notin Known
            /\ reply' = [counts |-> NoCounts, peers |-> {}]
            /\ UNCHANGED torrents
      /\ held' = Released(w)
      /\ UNCHANGED <<heard, wall, clock, sweep>>

\* One look-up; a request scrapes any number of hashes, a lock at a time.
Scrape(w, h) ==
  /\ w \in Busy
  /\ reply' = [counts |-> IF h \in Known THEN counts(torrents[h]) ELSE NoCounts,
               peers  |-> {}]
  /\ UNCHANGED <<torrents, heard, wall, clock, held, sweep>>

\* The end of a scrape, or of a request that never reaches the store.
Finish(w) ==
  /\ w \in Busy
  /\ held' = Released(w)
  /\ UNCHANGED <<store, wall, clock, sweep>>

-----------------------------------------------------------------------------
(* gc_task: sleep, read the time once, sweep the shards in order.          *)

Sweeping == sweepNext < SHARD_COUNT

GcWake ==
  /\ ~Sweeping
  /\ wall >= sweepDue
  /\ sweepNow' = Minutes(wall)
  /\ sweepNext' = 0
  /\ UNCHANGED <<store, wall, clock, held, sweepDue>>

Expired(t) ==
  [t EXCEPT !.lists = [f \in Family |->
     expire(t.lists[f], sweepNow, PEER_TIMEOUT_MINUTES)]]

\* Mutant: a torrent is collected a minute later.
Collectable_Later(t) ==
  /\ is_empty(Expired(t))
  /\ Idle(sweepNow, t.base) > TORRENT_TIMEOUT_MINUTES

Collectable(t) ==
  /\ is_empty(Expired(t))
  /\ Idle(sweepNow, t.base) >= TORRENT_TIMEOUT_MINUTES

\* The torrents of the shard whose write lock gc holds next.
InSweep(h) == ShardOf[h] = sweepNext

Retained == {h \in Known : ~(InSweep(h) /\ Collectable(torrents[h]))}

GcShard ==
  /\ Sweeping
  /\ torrents' = [h \in Retained |->
       IF InSweep(h) THEN Expired(torrents[h]) ELSE torrents[h]]
  /\ sweepNext' = sweepNext + 1
  /\ sweepDue' = IF sweepNext' = SHARD_COUNT
                   THEN wall + GC_INTERVAL_SECS ELSE sweepDue
  /\ UNCHANGED <<reply, heard, wall, clock, held, sweepNow>>

-----------------------------------------------------------------------------
(* Time.  The wall moves only while every task keeps to its lag.           *)

ClockTask ==
  /\ clock' = wall
  /\ UNCHANGED <<store, wall, held, sweep>>

Tick ==
  /\ wall < MaxWall
  /\ wall < clock + ClockLag
  /\ \A w \in Busy : wall < held[w] + HandlerLag
  /\ wall < sweepDue + GcLag
  /\ wall' = wall + 1
  /\ UNCHANGED <<store, clock, held, sweep>>

-----------------------------------------------------------------------------
Request(w) ==
  \/ Finish(w)
  \/ \E h \in Hash :
       \/ Scrape(w, h)
       \/ \E f \in Listening, k \in Key :
            \/ Remove(w, h, f, k)
            \/ \E flags \in SUBSET Flag, numwant \in 0..MaxNumwant :
                 Announce(w, h, f, k, flags, numwant)

Next ==
  \/ \E w \in Worker : Load(w) \/ Request(w)
  \/ GcWake \/ GcShard
  \/ ClockTask \/ Tick

Spec == Init /\ [][Next]_vars

-----------------------------------------------------------------------------
(* Properties *)

Lists == {torrents[h].lists[f] : h \in Known, f \in Family}

Members ==
  {r \in Peer : r[1] \in Known /\ r[3] \in Registered(torrents[r[1]].lists[r[2]])}

EntryOf(r) == torrents[r[1]].lists[r[2]].peers[r[3]]

\* The counter that announce and remove adjust by one and the sweep recounts
\* is the number of seeders in the list; `peers.len() - seeders` rests on it.
SeedersExact == \A l \in Lists : l.seeders = Cardinality(Having(l, "SEEDING"))

\* Every peer that is marked completed was counted: the sticky flag that stops
\* a second count is never set without the first one.
CompletedCounted ==
  \A l \in Lists : Cardinality(Having(l, "COMPLETED")) <= l.downloaded

\* Seconds a peer is certain to stay after an announce.  The store rounds to
\* minutes and works with times read earlier, hence less than the 45 minutes.
FreshFor == (PEER_TIMEOUT_MINUTES - 1) * SecsPerMinute - HandlerLag

\* Only its own request or a long silence takes a peer out of its swarm: the
\* sweep never drops one that announced less than FreshFor seconds ago.
FreshPeerKept ==
  [][\A r \in Members :
       r \notin Members' /\ held' = held => wall - heard[r] > FreshFor]_vars

\* A peer that went silent is out of every swarm after the timeout, one more
\* sleep of gc_task, and the lateness of two sweeps.
StaleAfter ==
  PEER_TIMEOUT_MINUTES * SecsPerMinute + GC_INTERVAL_SECS + 2 * GcLag

StalePeerGone == \A r \in Members : wall - heard[r] < StaleAfter

Downloads(h) == Completions(TorrentOf(h))

\* The downloads a torrent's two lists have counted never fall, whatever lapses,
\* leaves or is collected: a torrent with a history outlives its last peer.
\* A reply shows the lower 32 bits of them, which do start again from 0.
DownloadsKept == [][\A h \in Hash : Downloads(h)' >= Downloads(h)]_vars

\* A torrent left without peers and without downloads does not stay in memory:
\* it goes within a torrent timeout and a sweep of the last request for it.
EmptyTorrentGone ==
  \A h \in Known :
    is_empty(torrents[h]) =>
      wall < (torrents[h].base + TORRENT_TIMEOUT_MINUTES) * SecsPerMinute
               + GC_INTERVAL_SECS + 2 * GcLag
=============================================================================
