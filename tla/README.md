# Verification of bluefrog

bluefrog is an in-memory BitTorrent tracker: UDP (BEP-15) and HTTP front ends
over a sharded peer store, with a behavioural detector that bans abusive
sources through nftables sets. This directory holds TLA+ models of its core,
the TLC runs that check them on small instances, and theorems about them
proved with TLAPS. Paths below are relative to `src/crates/`.

## The system

| component | state | operations | used by |
|---|---|---|---|
| torrent store (`bf-core/src/store.rs`) | 1024 shards, each a map under a `RwLock` from info-hash to a torrent: a peer list per address family, each with a maintained seeder counter and a download counter, and the minute of its last use | `announce_v4/v6`, `remove_v4/v6`, `scrape`, `gc`, `totals` | both handlers, `gc_task`, the metrics endpoint |
| connection ids (`bf-core/src/connid.rs`) | a key drawn at start | `generate`, `validate` | UDP handler |
| abuse detector (`bf-l7/src/lib.rs`) | 16 shards of scored clients and a registry of offenders, both bounded, under mutexes | `on_announce`, `on_connid_mismatch`, `on_scrape`, `on_connect` | UDP workers |
| UDP handler (`bf-udp/src/lib.rs`) | none | `handle`: parse, check the id, apply to the store, write the reply | UDP workers |
| HTTP handler (`bf-http/src/lib.rs`) | none | `handle`: announce, scrape, redirect | HTTP connections |
| runtime (`bluefrog/src/main.rs`) | a cached clock (an atomic), sockets | `udp_worker`, `serve_http`, `serve_metrics`, `clock_task`, `gc_task`, `ban` on the blocking pool | - |
| ban sink (`bf-nft/src/sink.rs`) | the kernel's nft sets, one per tier and family | `ban` | runtime |
| codec, bencode (`bf-proto/src`) | none | parse and write fixed layouts | handlers |
| configuration (`bf-config/src`) | none after start | `parse` | runtime |
| metrics (`bf-metrics/src`) | relaxed counters | `inc`, `render` | runtime |

A datagram takes this path. A worker takes it off its socket, loads the cached
clock, parses it, and lets the UDP handler act: a connect is answered with an id
computed from the key, the source and the time window; an announce or scrape is
checked against the id of this or the previous window and applied to the store
under one shard's lock. The detector then scores the source with what the
datagram and the reply show, under the lock of its own shard; a source that
crosses the threshold gets a tier from the registry, under a second lock, and
its ban goes to the blocking pool. The reply is sent. Meanwhile `clock_task`
refreshes the clock every half second and `gc_task` sweeps the store every two
minutes, one shard lock at a time. HTTP requests reach the store in the same way,
without ids and without the detector.

No lock is ever taken while another one is held. What is hard is the time and
the order of things: each worker uses a time that was read before the lock was
taken and may be older than the one its neighbour used; the sweep works with one
time for all shards, in whole minutes; a ban is decided in one critical section
and recorded in another; both maps of the detector evict by sampling a hash map
in arbitrary order; clients lose replies, repeat requests and outlive restarts.

What makes each component correct:

* **store** - counters agree with entries; a download is counted once and never
  forgotten; a peer stays while it announces and goes when it is silent; replies
  are those of a plain set of peers;
* **connection ids** - an honest client is let in for a window, a captured id is
  dead after two, an id is of no use to another address or after a restart;
* **detector** - bounded memory; scores within a u32 that decay at their rate;
  each crossing is an offence exactly once, a cooldown apart, with a tier that
  never falls; conforming clients are left alone;
* **UDP handler** - nothing longer than the question is sent before an id was
  checked; no reply needs fragments; the detector is told of this datagram and not
  of an earlier one; every datagram is counted once;
* **HTTP handler** - the order of different parameters does not matter; what is malformed
  changes nothing and makes nobody a seeder; both front ends mean the same by a
  request;
* **ban sink** - a source stays out for as long as its best written ban was worth,
  in whatever order bans are written, and one that keeps at it is locked out again;
* **configuration, startup** - a file means what it says; a tracker that runs
  serves all of it, and comes up in the end.

## Modules

| module | models | with |
|---|---|---|
| `PeerList` | `PeerList<N>`: values and the operators on them | - |
| `Store` | `Torrent`, `Store`, and the workers, clock and collector that use it | extends `PeerList` |
| `Swarm` | the abstract specification: members, downloads, answers | - |
| `StoreSwarm` | the refinement mapping from `Store` to `Swarm` | extends `Store`, instantiates `Swarm` |
| `ConnId` | ids, their holders, the workers that check them, restarts | - |
| `Detector` | clients, offenders, and the workers that feed them | - |
| `SlowSeeder` | one conforming seeder against the default configuration | extends `Detector` |
| `LossyClient` | one conforming client that loses replies and outlives a restart | extends `Detector` |
| `UdpHandler` | one worker's datagrams: codec, handler, counters, what the detector is told | - |
| `Bans` | the jobs that write bans, the kernel's sets, restarts | - |
| `Http` | the HTTP front end, and UDP announces on the same store | extends `PeerList` |
| `ConfigFile` | the directives and their values | - |
| `Startup` | from the command line to a tracker that serves, and back | extends `ConfigFile` |
| `MC*` | instances for TLC | extend the module they are named after |
| `PeerListProofs` | lemmas about lists | extends `PeerList` |
| `StoreProofs` | theorems of `Store`, and that it implements `Swarm` | extends `StoreSwarm` |
| `HttpProofs`, `StartupProofs`, `ConnIdProofs`, `DetectorProofs`, `BansProofs`, `UdpHandlerProofs` | theorems | extend the module they are named after |

Definitions named `X_Something` and commented "Mutant" are what `X` would be with
a plausible bug. No specification uses them; putting one in the place of `X`
makes the property listed with it in `PROJECT.json` fail, which is how each
property is known to depend on the code.

### Time

`Store`, `ConnId` and `Detector` share a discipline. `wall` is the second
of `SystemTime`; `clock` is `Shared.clock`. A worker loads `clock` when a
datagram reaches it (`main.rs:211`, `:253`) and uses that value until it is done.
`Tick` advances `wall` only while the clock is at most `ClockLag` behind, each
worker's value at most `HandlerLag`, and the sweep at most `GcLag` late. These
three constants say how well the host schedules the tasks; the properties are
stated in terms of them, so they hold of a slow host with larger ones. The wall
is taken not to step back.

### Store

A list is a record with a *maintained* `seeders` field: `announce` and `remove`
adjust it, `expire` recounts it, exactly where the code does. The order in which
a hash map yields entries is unknown, so `write_compact` is the set of replies
possible over all orders. Each store operation is one action, because it is one
critical section; `Load` and the operation are two actions, because the clock is
read long before the lock. A scrape of several hashes is several `Scrape` steps
and a `Finish`. `gc` is `GcWake` (read the time) and a `GcShard` step for each
shard. `heard` is a history variable: when a peer last announced, by the wall.
`MaxDownloaded` and `MaxWall` bound the exploration; the theorems hold for every
value of them. A reply is the counts and peers, not their bytes. `Torrent::counts` casts
what the lists keep (`usize` and `u64`) with `as u32`: `AsU32` is that cast, in the replies
of `Store` and of `Swarm` alike, and `U32_MAX` is a constant, so that counts wrap in the
runs. `DownloadsKept` is about what the lists keep, `Completions`; the downloads that a
reply shows fall to 0 at 2^32.

`Swarm` says what a client may rely on without any of this: a peer is a member
since its announce; it leaves by its own request, or after `FreshFor` seconds of
silence; replies are computed from the members, with seeders offered last.
`FreshFor` is (timeout - 1 minute) - `HandlerLag`: the code compares whole minutes,
so 45 minutes may be a little over 44.

### Connection ids

The keyed BLAKE3 MAC is ideal: an id *is* the triple of key, address and window.
`HandleConnect` may lose its reply. `ReceiveUse(w, ip, owner)` lets any address
present any id handed out to any other. `Restart` draws a new key and drops
everything in flight, while clients keep their ids.

### Detector

A worker's datagram goes through `Receive` (clock), `Observe` (the critical
section of the source's shard: eviction, decay, signals, score, `crosses`) and,
if it crossed, `Decide` (the critical section of the registry). An announce is its
torrent, its identity (`key`, `peer_id`) and a set of marks for the tests the
code makes on its other fields; the swarm size of the reply is one of the marks.
`last_gap` is written before every read, so `Fast` computes it. The ring is the
sequence of remembered announces, oldest first. `take(EVICT_SAMPLE)` may be any
entries, so `Evictable` is every entry that is the oldest of some sample. 64
breadth buckets and the shards are chosen by functions that are constants. A
source is either *honest*, doing what BEP-15 says of a client, or it sends any
request of `Hostile`. `banned` and `crossings` are history variables.

`SlowSeeder` runs the detector with `Config::default` and real seconds, the
waiting between two announces being one step. `LossyClient` does the same with a
client that follows BEP-15: it waits 15, 30, 60 ... seconds for a reply and asks
again, reconnects when its id is a minute old, and presents ids of a tracker that
was restarted meanwhile. At most `MaxLost` replies are lost in an interval.
`ToleranceAssumption` says for which configurations that much is tolerable.

### UDP handler

A worker goes through `Receive`, `Handle`, `Count` (counters, detector, verdict) and
`Answer`. Whether the id is valid, what the swarm is, and what the detector decides
are any of the values these components may give; the modules above say which. A
datagram is its length, its action and the fields that decide about the reply;
`parse`, `write_*` and `numwant` are lengths. The buffer `out` persists from one
datagram to the next, as `udp_worker`'s does, because `feed_l7` reads the counts of an
announce back from it.

### Bans

From the moment a source crosses the threshold. `Ban` arms it, records the offence
and spawns a job; `Write` and `WriteFails` end one, in any order. Time is counted
down (`rearm`, `elements`) rather than up, which keeps the model finite. A host may
come through a dual-stack socket or an IPv4 one: `canonical_ip` decides what it is
banned as. The kernel is external: an element stays for its set's timeout, adding it
again does not refresh it, and a host is dropped while any set of its family has it.
`promised` is a history variable: how long the bans written so far are meant to keep
the host out. `Restart` loses the jobs and the registry and leaves the sets.

### HTTP

A query is a sequence of parameters, each well-formed or not. Percent-decoding is
only whether it yields 20 bytes. `Looped` is the loop of `announce` over it, turn by turn:
its locals (`Unread`), what a parameter overwrites (`Read`) and what returns from the
middle (`Returns`). What a query *means* is said without the loop (`Meaning`: the last
`left`, any malformed hash, ...), and `OrderFree` compares the two for each of its
`Rearrangements`; keys that come twice are among them and keep their order, since the last
one counts. `HttpAnnounce` and `UdpAnnounce` are the two
translations of a request into operations on one set of peer lists; a scrape is a
step per info-hash. Time is left to `Store`.

### Configuration and startup

A value is what its words spell (a number, an address, a list of words ...) and
whether more words follow (`note`), since `field` and `listen_addr` parse the whole
rest of a line. `Applied` is one directive: some override, some accumulate, and
`listen.tcp_udp` feeds two lists. `Startup` reads a file line by line, binds UDP
workers, HTTP and metrics sockets one after the other, and ends with an error at the
first that fails; the service starts it again (`Restart=on-failure`). `Occupy` and
`Release` are other programs.

Whether a bind succeeds is the kernel's to say. `Reach` gives for an ip the addresses of
the host at which a socket bound to it answers: none for an ip that is not the host's, all
of them, IPv4 included, for `[::]`. Two listeners on one port must not have one in common
(`Overlap`), so `[::]:80` excludes `127.0.0.1:80`; UDP workers share theirs by
`SO_REUSEPORT`. `Ports` are those the service has the right to bind. Left out
are: a socket that cannot be created at all, for want of descriptors or of IPv6; a host on
which `[::]` does not take IPv4 (`bindv6only`); and port 0, for which the kernel picks one.

## Runs

| run | bounds | result |
|---|---|---|
| `store_swarm` | 2 IPv6 peers, 1 worker, 2 minutes, 2 downloads, counts of one bit | `SeedersExact`, `CompletedCounted` hold; `Store` implements `Swarm` |
| `store_expiry` | 1 peer, 2 workers, 2 shards, 15 s in minutes of 2 s | `TypeOK`, `StalePeerGone`, `EmptyTorrentGone`, `FreshPeerKept`, `DownloadsKept` hold |
| `connid` | 2 addresses, 2 workers, windows of 3 s, 9 s, a restart | `TypeOK`, `HonestAccepted`, `StaleRefused`, `OnlyReachedAdmitted` hold |
| `detector_bans` | a hostile and an honest source that evict each other, 2 workers, 3 offences | `OverThresholdBanned`, `OffencesRemembered`, `BansApart`, `NeverLenient`, `HonestUnflagged` hold |
| `detector_evict` | 4 sources in 2 shards of 2 and 2 places, registry of 1 | `Bounded`, `NewestSpared` hold |
| `detector_signals` | 1 source, 2 workers, every signal | `TypeOK`, `DecayUnhurried` hold |
| `slow_seeder` | one source, default configuration | `SlowSeederUnbanned` is violated, see below |
| `lossy_client` | one source, default configuration, about 3 hours, a reply lost per interval, 2 restarts | `LossyClientUnbanned` holds |
| `bans` | an IPv4 host in two forms and an IPv6 host, 2 jobs, sets of 2 s and 3 s, a restart, fairness | `TypeOK`, `PromiseKept`, `EverLockedOut` hold |
| `udp_handler` | 2 datagrams in a row, lengths on both sides of every limit | `TypeOK`, `NoAmplification`, `ReplyFits`, `FreshCounts`, `CountedOnce` hold |
| `http` | a peer of each family, queries of up to four parameters, scrapes of up to 3 hashes, counts of one bit | `TypeOK`, `OrderFree`, `FamiliesApart`, `RowsOfThisScrape`, `NoFalseSeeder` hold |
| `startup` | every file of up to two of 25 lines, and longer ones; overlapping addresses, one that is not the host's, a port that is not allowed | `TypeOK`, `AsWritten`, `ServesAsConfigured`, `ComesUp` hold |

Why the bounds suffice. *Store:* torrents do not interact, and lists only in the sums of
`counts`, so one torrent with two peers of one family shows every case of the list code, and
`http` the sums; with counts of one bit, two peers or two downloads are enough for a reply
to wrap. One worker shows all that `Swarm` is about, as each request is one critical section
and the sweep still comes between any two; two workers are needed only for times applied out
of order, and shards only for the sweep to be in the middle. `store_expiry` runs long enough
for a peer and then its torrent to time out with two sweeps in between (3 and 4 minutes of 2
seconds), with minutes short enough that rounding decides. *Connection ids:* three windows,
all lags across their edges. *Detector:* the caps are small enough that eviction happens in
the runs about it; thresholds are a few points so that crossing, decaying below and crossing
again all happen within the time explored; `U32_MAX` is small in `detector_signals` and
`detector_evict` so that scores saturate, and as large as the sum of all weights
(`WeightAssumption`): `on_announce` adds the points of one announce up with a plain `+`,
which may overflow unless they fit a u32 together. The weights in the source do, and no
directive sets others. `MaxOffences` stops the traffic of a source already banned so often.
*Lossy client:* a reply lost in each interval is what the default configuration tolerates
(`ToleranceAssumption`): 27 points drain in an interval of 27 minutes, and a lost reply
scores 20. With `MaxLost` = 2 the assumption fails, and TLC, without it, finds the same
client banned after a few intervals, also without a restart. *Bans:* two jobs overtake each
other; two tiers differ; `U32_MAX` = 2 lets offences saturate. *UDP handler:* two datagrams,
because what an earlier one leaves behind is read by the next at the latest. *HTTP:* every
parameter alone and beside a hash and a port, pairs of those that decide about a peer, and
keys that come twice, equal or not (`left=7&left=0` and its reverse); one order of different
keys is enough, for `OrderFree` looks at all of them. The constraint `Beside` limits what
happens to the lists while a scrape is under way to announces of two peers, one through each
front end. *Startup:* two lines show every override and accumulation; the longer files bind
several sockets and collide, on equal addresses and on overlapping ones. `U32_MAX` and
`USIZE_MAX` are two different numbers with a file value on either side of each. *Lossy
client* is also a client of one torrent: one of many, which presents a stale id for all of
them at once, is not covered.

`CHECK_DEADLOCK FALSE` stands where the model comes to rest at its bounds
(`detector_*`, `slow_seeder`, `lossy_client`, `udp_handler`); the other runs are
checked for deadlock.

`EVICT_SAMPLE` is 2 in the runs and at least 2 in the theorems (8 in the code).
With a sample of 1 the newest entry could go.

### Fairness

`bans`: a hostile source sends again whenever it is let through (also while a job slot
is free) and some of its datagrams bring it over the threshold; every job ends, the
blocking pool being a queue; the writes for a host are accepted again and again; time
passes. Strong fairness of `Arrive` and `Ban` makes up for the bound on jobs, which the
pool does not have; that of `Write` is the assumption that the kernel does not refuse
for ever. The property is that what the code does in between (the cooldown, evictions,
forgetting at a restart, escalation, an element that is not refreshed) never shuts the
ban out for good.

`startup`: the process goes on (`ReadLine`, `Run`, `Bind`, `Wait`), and the service
starts it again. What other programs do is not fair at all: `ComesUp` is about those
runs in which they let go for good, and about files that the host can serve (`Good`): every
address bindable, no two listeners that overlap.

## Finding

**An honest slow seeder is banned** (`slow_seeder`). `on_connect` touches the
client (`bf-l7/src/lib.rs:533`), which sets `last_seen`; the announce that
follows has a gap of a moment and is *fast*, though the source was silent for
half an hour. The gate of `fast_announce_gap` therefore never closes for a
conforming UDP client, which connects before it announces once its id has
expired. Seeding with nothing transferred scores 50 at each announce, decay
takes about 30 in an interval, and the fourth announce is banned (score 116).
The documentation of the field (lines 146-149) and the test
`an_honest_slow_seeder_is_never_flagged` (line 922), which feeds announces
without connects, say the contrary. For the same reason a client of 32 or more
torrents scores breadth at the interval the tracker advertises.

### Further disagreements

Met while modelling and plain to see in the code; no run is spent on them.

* **The sample configuration is refused.** A comment behind a value is part of the
  value (`bf-config/src/lib.rs:87`, `:113`), so `listen.udp.workers 16  # ...`, line 8 of
  `bluefrog.conf.sample`, is an invalid number; line 1 says that comments are ignored.
  `Malformed` in `ConfigFile` models it.
* **`tracker.user` and `tracker.rootdir` do nothing.** They are parsed and never read
  again; `bf-config/src/lib.rs:29-31` documents them as chroot and setuid targets.
* **A ban is not a denial.** `Verdict::Ban` is documented as "Deny in-app and ban"
  (`bf-l7/src/lib.rs:194`), but `udp_worker` sends the reply whatever the verdict is
  (`bluefrog/src/main.rs:236-238`; `Answer` in `UdpHandler`), and goes on serving until
  the firewall has the address.
* **Leaving a swarm of two looks like enumeration.** The counts of the reply to
  `event=stopped` no longer include the source, so `swarm_peers <= 1`
  (`bf-l7/src/lib.rs:477`) holds while somebody else is in the swarm.
* **`max_entries` is not a total.** Each shard has room for `max(1, max_entries / 16)`
  sources, so up to 16 are tracked however small it is; line 87 calls it the "total cap
  on tracked sources".
* **Two counters.** Nothing increments `L7Flagged`; an announce answered with a failure
  reason counts as an announce, though `errors` is documented as "Requests answered with
  an error/failure" (`bf-metrics/src/lib.rs:27-29`).

## Theorems

Proved for every value of the constants that meets the named assumptions of the
modules.

*PeerListProofs* holds the lemmas about lists: `ListInv` says that a list is
well formed, finite and that its counters are exact; `NewListInv`, `AnnounceInv`,
`RemoveInv` and `ExpireInv` say that each method yields such a list from one.

*StoreProofs.* `TypeCorrect`, `SeedersAreExact`, `CompletedAreCounted`. The type
invariant alone is not inductive: `seeders - 1` and `leechers` stay in `Nat` only
because the counters agree with the entries. The inductive invariant `StoreInv`
is the types and `ListInv` of every list. `DownloadsAreKept` follows from it: the
collector takes only torrents without a download, and no other step lowers one. It is
about the u64 of the lists, for any number of downloads, and claims nothing of the u32
that a reply shows of them.

`StalePeersAreGone`, `FreshPeersAreKept`, `EmptyTorrentsGo` need the times. The inductive
invariant `TimeInv` adds how far each kind of time may trail the wall (clock,
held, the sweep's), ties each entry's `seen` to its `heard`, and says how old an
entry may be in a shard the running sweep has passed, and in one it has not.
`EmptyInv` adds the same for the last use of a torrent without peers and downloads.

`StoreImplementsSwarm` is the refinement: initial states map to initial states, and
every step of `Store` is, under the mapping of `StoreSwarm`, a step of `Swarm` or none.
Each operation under a shard's lock is shown to be the operation of the same name on
the set of members; a sweep is a lapse of members whose silence `TimeInv` vouches for;
everything else is a stutter. The replies need `ListInv`: the counts of a reply are
maintained counters there and cardinalities here.

*HttpProofs.* `HttpTypes`, `FamiliesAreApart`, `RowsAreOfTheScrape` from `HttpInv`, which is
inductive: every list satisfies `ListInv` and holds addresses of its family only; an
announce was answered with what its torrent's lists still say, cut to 32 bits; no downloads
were taken back since a scrape began. A row shows a number between those of the beginning
and those of now, modulo 2^32: that it is at least the former would be false.
`NoSeederIsFalse` says that the only seeder a request can add is its own source, and that
its last `left` was then a legible 0; it follows from what an applied request does to a
list.

`OrderIsFree` is about queries of any length. `Reached` is the loop's invariant: after i
turns without a return, each local is what the first i parameters say of it, that is the
last of them with its key, or its initial value. That the turns exist and reach `Reached` is
an induction on i, done by taking the least i for which it fails, since the indices are
well-founded (`TurnsExist`, `TurnsReach`, from `LessWellFounded`). At the end it is
`Meaning` (`UnderstandsMeaning`). A rearrangement moves the last parameter of a key to the
last of that key (`LastMoves`), so what is said last is the same (`SameMeaning`), and
whether any parameter is malformed does not depend on places.

*StartupProofs.* `StartupTypes`, `ReadsWhatIsWritten`, `RunsAsConfigured`, for files of any
number of lines. `ControlInv` describes the stages; `ConfigInv` says that a line that is not
malformed keeps the configuration well typed. `WrittenInv` is `AsWritten` with the functions
`AddrOf` and `KeyOf` of the line number: one more line appends at a rank that is the number
of lines so far, and leaves the ranks of the earlier ones. What is bound is counted by
`SocketsInv`: with q addresses done and r workers of the next (q * workers + r sockets), an
address has as many sockets as it is listed among the first q, times the workers, plus r if
it is the next; the TCP addresses bound are all different because each was free, and an
address that can be bound at all overlaps itself. At the end r = 0 and q is all of them.

*ConnIdProofs.* `ConnIdTypes`; `HonestAreAccepted`, `StaleAreRefused`, from `IdInv`: the
lags; that every id ever granted is of the window of a time at most `HandlerLag` before it
was issued, and which the clock has reached; and the same of the ids that workers are
looking at. `OnlyReachedAreAdmitted` adds `SourceInv`: each address holds its own last id,
of this key or an earlier one, and what anyone presents was issued to its owner no later
than that. So an id that passes was sent to the very address it comes from, by this process,
less than two windows and a lag ago.

*DetectorProofs.* `DetectorTypes`; `HighScoresAreBanned` and `BansAreApart` from
`BanInv` (a client over the threshold was banned, and its `banned_until` is a
cooldown after a time a lag or less before its ban); `MapsAreBounded` and
`NewestIsSpared` from cardinality facts about what an eviction may remove;
`HonestAreUnflagged` from `HonestInv` (an honest client has no points, its
connects are those it has sent since it last announced, and its remembered
announces are of its one identity and at least a floor old).

The two locks a ban goes through are looked at together, as long as the
registry has room for every source (`Ample`; beyond that it forgets, by design).
`NeverMoreLenient` from `VerdictInv`: the last tier given to a source is that of
the offences on record, and tiers grow with offences. `OffencesAreRemembered` from
`CountInv`: crossings are the offences on record and the workers that are about to
record one. That alone is not inductive, because `saturating_add` would lose
an offence at `u32::MAX`; the second half of `CountInv` bounds the crossings, the
datagrams in flight included, by `MaxOffences` and the number of workers.

`DecayIsUnhurried` compares the two futures of a score, if its source is served and if
it is not. It rests on what whole intervals add up to: the steps from an anchor to
a time are those to a moment in between and those from there on, if the moment's
remainder is left in the anchor, which is what `AnchorAfter` does, also when a worker's
time is older than the anchor. Whole points taken in two parts are those taken at once,
because a score that reaches zero stays there.

`LossyClientIsUnbanned` is about `LossyClient`, whose proofs are in the same module because
they use its lemmas on decay and on clients with one identity. The inductive invariant
`LossInv` bounds what is known of the client by its turn (`Within`): its score, if it were
looked at now, by the weight of so many refused ids and so many announces that came too
soon; its connects; and how long ago it last announced. Four facts carry it. An id is
refused at most three times (`REFUSALS`), since the wait doubles and its age at a repetition
is at least the wait less 15 seconds. After a restart the refusals start from no score, the
detector being empty. Before a reply is lost the last announce is an interval ago, so the
announces too soon are as many as the lost replies. And seconds that pass before the next
look drain at least the points of their own whole intervals (`ScoreLater`, from the same
sums as `DecayIsUnhurried`), so the wait takes off what the losses put on. The assumption is
on the constants only, holds of `Config::default` with one lost reply per interval of 27
minutes, the least the tracker advertises, and is what an operator who changes weights,
decay or interval has to keep to.

*BansProofs.* `BanTypes`, and `PromisesAreKept` from an invariant that ties each
promise to an element: a host that is promised n more seconds is in one of its
family's sets for at least that long, and so is everything a job in flight may
still add to it, whatever tier it was given.

*UdpHandlerProofs.* `WorkerTypes`, `NoneAmplified`, `RepliesFit`, `CountsAreFresh`,
`CountersPartition`, from an invariant that describes the worker stage by stage:
what is in the buffer, what the action says of it, and what was counted so far.

The assumptions are about constants only: sets are finite where the code's are, lags and
intervals are natural numbers, `ClockLag` is at most `HandlerLag`, the time a run ends at
and a cooldown fit a u32, nft sets are listed shortest-lived first as the sample asks, the
defaults of `ConfigFile` fit the width of their directive, and a configuration file is a
sequence of lines (`FileAssumption`). `WeightAssumption` says that all weights together fit
a u32. `ToleranceAssumption` relates the weights, the decay and the interval; only
`LossyClientIsUnbanned` uses it. TLC evaluates each of them in the runs.

Only model-checked: liveness (`EverLockedOut`, `ComesUp`), which is out of the prover's
reach. Every other property of a passing run is a theorem.

## Not modelled, and the plan

Left out for good: the text of bencode, metrics and log lines, and the byte order of fields;
percent-decoding beyond whether it yields a hash; hyper's connections, the accept loops and
signal handling beyond its end; `write_error` and `torrent_count`, which nothing calls; the
gauges and `nft_errors`; the arithmetic of BLAKE3 and of the two hash mixes of the detector;
a wall clock that steps back; locks, which are never nested and held for straight-line code
only, so that no request can wait for another one's end. `totals` reads the shards one lock
at a time and changes nothing: what its gauges may say while a sweep is between two shards
was beyond TLC's reach at sizes where it is of interest.
