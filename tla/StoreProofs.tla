----------------------------- MODULE StoreProofs -----------------------------
(***************************************************************************)
(* Theorems of Store, for every set of hashes, keys and workers, every     *)
(* shard layout and every timeout.  The counters of the lists are settled  *)
(* in PeerListProofs; here each action of the store is shown to apply      *)
(* those methods to whole lists only.                                      *)
(***************************************************************************)
EXTENDS StoreSwarm, PeerListProofs

TorrentInv(t) ==
  /\ t = [lists |-> [f \in Family |-> t.lists[f]], base |-> t.base]
  /\ \A f \in Family : ListInv(t.lists[f])
  /\ t.base \in Nat

\* The inductive invariant: the types, and lists that are exact.
StoreInv ==
  /\ TypeOK
  /\ \A h \in Known : TorrentInv(torrents[h])

-----------------------------------------------------------------------------
(* Torrents *)

LEMMA MinutesNat ==
  ASSUME NEW secs \in Nat
  PROVE  Minutes(secs) \in Nat
BY TimeoutAssumption DEF Minutes

LEMMA TorrentInvType ==
  ASSUME NEW t, TorrentInv(t)
  PROVE  IsTorrent(t)
BY LeechersNat DEF TorrentInv, IsTorrent, ListInv

LEMMA NewTorrentInv == TorrentInv(NewTorrent)
<1>1. \A f \in Family : NewTorrent.lists[f] = NewList  BY DEF NewTorrent
<1>2. NewTorrent = [lists |-> [f \in Family |-> NewTorrent.lists[f]],
                    base |-> NewTorrent.base]
  BY DEF NewTorrent
<1> QED  BY <1>1, <1>2, NewListInv DEF TorrentInv, NewTorrent

LEMMA TorrentOfInv ==
  ASSUME StoreInv, NEW h \in Hash
  PROVE  TorrentInv(TorrentOf(h))
BY NewTorrentInv DEF TorrentOf, StoreInv

LEMMA WithListInv ==
  ASSUME NEW t, TorrentInv(t), NEW f \in Family, NEW l, ListInv(l), NEW now \in Nat
  PROVE  TorrentInv(WithList(t, f, l, now))
<1> DEFINE u == WithList(t, f, l, now)
<1>1. u.base = now  BY DEF WithList
<1>2. \A g \in Family : u.lists[g] = IF g = f THEN l ELSE t.lists[g]
  BY DEF WithList, TorrentInv
<1>3. u = [lists |-> [g \in Family |-> u.lists[g]], base |-> u.base]
  BY DEF WithList, TorrentInv
<1> QED  BY <1>1, <1>2, <1>3 DEF TorrentInv

LEMMA ExpiredInv ==
  ASSUME NEW t, TorrentInv(t)
  PROVE  TorrentInv(Expired(t))
<1> DEFINE u == Expired(t)
<1>1. u.base = t.base  BY DEF Expired, TorrentInv
<1>2. u.lists = [f \in Family |->
                   expire(t.lists[f], sweepNow, PEER_TIMEOUT_MINUTES)]
  BY DEF Expired, TorrentInv
<1>3. u = [lists |-> u.lists, base |-> u.base]  BY DEF Expired, TorrentInv
<1>4. \A f \in Family : ListInv(u.lists[f])  BY <1>2, ExpireInv DEF TorrentInv
<1> QED  BY <1>1, <1>2, <1>3, <1>4 DEF TorrentInv

\* The sums of a reply are naturals: no family's count is below zero.
LEMMA CountsType ==
  ASSUME NEW t, TorrentInv(t)
  PROVE  counts(t) \in Counts
<1>1. "v4" \in Family /\ "v6" \in Family  BY DEF Family
<1>2. \A f \in Family : /\ t.lists[f].seeders \in Nat
                        /\ t.lists[f].downloaded \in Nat
                        /\ leechers(t.lists[f]) \in Nat
  BY LeechersNat DEF TorrentInv, ListInv, IsList
<1> DEFINE v4 == t.lists["v4"]
           v6 == t.lists["v6"]
<1>3. /\ v4.seeders + v6.seeders \in Nat
      /\ leechers(v4) + leechers(v6) \in Nat
      /\ Completions(t) \in Nat
  BY <1>1, <1>2 DEF Completions
<1>4. counts(t) = [complete   |-> AsU32(v4.seeders + v6.seeders),
                   incomplete |-> AsU32(leechers(v4) + leechers(v6)),
                   downloaded |-> AsU32(Completions(t))]
  BY DEF counts
<1> HIDE DEF v4, v6
<1> QED  BY <1>3, <1>4, AsU32Type DEF Counts

LEMMA NoCountsType == NoCounts \in Counts
BY WidthOfCounts DEF NoCounts, Counts

-----------------------------------------------------------------------------
(* The invariant *)

LEMMA InitStoreInv == Init => StoreInv
<1> SUFFICES ASSUME Init PROVE StoreInv  OBVIOUS
<1>1. Known = {} /\ Busy = {}  BY DEF Init, Known, Busy
<1>2. reply \in [counts : Counts, peers : SUBSET Key]  BY NoCountsType DEF Init
<1>3. torrents = [h \in Known |-> torrents[h]] /\ held \in [Busy -> Nat]
  BY DEF Init, Known, Busy
<1>4. TypeOK
  BY <1>1, <1>2, <1>3, TimeoutAssumption, ShardAssumption DEF Init, TypeOK
<1> QED  BY <1>1, <1>4 DEF StoreInv

LEMMA NextStoreInv ==
  ASSUME StoreInv, [Next]_vars
  PROVE  StoreInv'
<1> USE DEF StoreInv
<1>1. ASSUME NEW w \in Worker, Load(w) PROVE StoreInv'
  <2>1. UNCHANGED <<torrents, reply, heard, wall, clock, sweepNow, sweepNext, sweepDue>>
    BY <1>1 DEF Load, store, sweep
  <2>2. Busy' \subseteq Worker /\ held' \in [Busy' -> Nat]
    BY <1>1 DEF Load, TypeOK, Busy
  <2> QED  BY <2>1, <2>2 DEF TypeOK, Known, Busy
<1>2. ASSUME NEW w \in Worker, Finish(w) PROVE StoreInv'
  <2>1. UNCHANGED <<torrents, reply, heard, wall, clock, sweepNow, sweepNext, sweepDue>>
    BY <1>2 DEF Finish, store, sweep
  <2>2. Busy' \subseteq Worker /\ held' \in [Busy' -> Nat]
    BY <1>2 DEF Finish, Released, TypeOK, Busy
  <2> QED  BY <2>1, <2>2 DEF TypeOK, Known, Busy
<1>3. ASSUME NEW w \in Worker, NEW h \in Hash, Scrape(w, h) PROVE StoreInv'
  <2>1. UNCHANGED <<torrents, heard, wall, clock, held, sweepNow, sweepNext, sweepDue>>
    BY <1>3 DEF Scrape, sweep
  <2>2. h \in Known => counts(torrents[h]) \in Counts  BY CountsType
  <2>3. reply' \in [counts : Counts, peers : SUBSET Key]
    BY <1>3, <2>2, NoCountsType DEF Scrape
  <2> QED  BY <2>1, <2>3 DEF TypeOK, Known, Busy
<1>4. ASSUME NEW w \in Worker, NEW h \in Hash, NEW f \in Listening, NEW k \in Key,
             Remove(w, h, f, k)
      PROVE  StoreInv'
  <2> DEFINE now == Minutes(held[w])
             t   == WithList(torrents[h], f, remove(torrents[h].lists[f], k), now)
  <2>1. UNCHANGED <<heard, wall, clock, sweepNow, sweepNext, sweepDue>>
    BY <1>4 DEF Remove, sweep
  <2>2. Busy' \subseteq Worker /\ held' \in [Busy' -> Nat]
    BY <1>4 DEF Remove, Released, TypeOK, Busy
  <2>3. CASE h \in Known /\ torrents' = [torrents EXCEPT ![h] = t]
                         /\ reply' = [counts |-> counts(t), peers |-> {}]
    <3>1. now \in Nat  BY <1>4, MinutesNat DEF Remove, TypeOK
    <3>2. f \in Family  BY ListeningAssumption
    <3>3. TorrentInv(torrents[h]) /\ ListInv(torrents[h].lists[f])
      BY <2>3, <3>2 DEF TorrentInv
    <3>4. TorrentInv(t)  BY <3>1, <3>2, <3>3, RemoveInv, WithListInv
    <3>5. Known' = Known /\ torrents' = [x \in Known |-> IF x = h THEN t ELSE torrents[x]]
      BY <2>3 DEF TypeOK, Known
    <3> HIDE DEF t
    <3>6. \A x \in Known' : TorrentInv(torrents'[x])  BY <3>4, <3>5
    <3>7. reply' \in [counts : Counts, peers : SUBSET Key]  BY <2>3, <3>4, CountsType
    <3> QED  BY <2>1, <2>2, <3>5, <3>6, <3>7, TorrentInvType DEF TypeOK
  <2>4. CASE reply' = [counts |-> NoCounts, peers |-> {}] /\ UNCHANGED torrents
    <3>1. reply' \in [counts : Counts, peers : SUBSET Key]
      BY <2>4, NoCountsType
    <3> QED  BY <2>1, <2>2, <2>4, <3>1 DEF TypeOK, Known
  <2> QED  BY <1>4, <2>3, <2>4 DEF Remove
<1>5. ASSUME NEW w \in Worker, NEW h \in Hash, NEW f \in Listening, NEW k \in Key,
             NEW flags \in SUBSET Flag, NEW numwant \in 0..MaxNumwant,
             Announce(w, h, f, k, flags, numwant)
      PROVE  StoreInv'
  <2> DEFINE now == Minutes(held[w])
             l   == announce(TorrentOf(h).lists[f], k, flags, now)
             t   == WithList(TorrentOf(h), f, l, now)
  <2>1. UNCHANGED <<wall, clock, sweepNow, sweepNext, sweepDue>>
    BY <1>5 DEF Announce, sweep
  <2>2. Busy' \subseteq Worker /\ held' \in [Busy' -> Nat]
    BY <1>5 DEF Announce, Released, TypeOK, Busy
  <2>3. now \in Nat  BY <1>5, MinutesNat DEF Announce, TypeOK
  <2>4. f \in Family  BY ListeningAssumption
  <2>5. TorrentInv(TorrentOf(h)) /\ ListInv(TorrentOf(h).lists[f])
    BY <2>4, TorrentOfInv DEF TorrentInv
  <2>6. ListInv(l)  BY <2>3, <2>5, AnnounceInv
  <2>7. TorrentInv(t)  BY <2>3, <2>4, <2>5, <2>6, WithListInv
  <2>8. torrents' = [x \in Known \cup {h} |-> IF x = h THEN t ELSE torrents[x]]
    BY <1>5 DEF Announce
  <2>9. \E S \in write_compact(l, numwant) :
          reply' = [counts |-> counts(t), peers |-> S]
    BY <1>5 DEF Announce
  <2>10. heard' = [heard EXCEPT ![<<h, f, k>>] = wall]  BY <1>5 DEF Announce
  <2>11. write_compact(l, numwant) \subseteq SUBSET Key
    BY <2>6 DEF ListInv, IsList, write_compact, Registered
  <2> HIDE DEF t, l
  <2>12. Known' = Known \cup {h}  BY <2>8 DEF Known
  <2>13. \A x \in Known' : TorrentInv(torrents'[x])  BY <2>7, <2>8, <2>12
  <2>14. reply' \in [counts : Counts, peers : SUBSET Key]
    BY <2>7, <2>9, <2>11, CountsType
  <2>15. heard' \in [Peer -> Nat]  BY <2>4, <2>10 DEF TypeOK
  <2>16. torrents' = [x \in Known' |-> torrents'[x]] /\ Known' \subseteq Hash
    BY <2>8, <2>12 DEF TypeOK
  <2> QED
    BY <2>1, <2>2, <2>13, <2>14, <2>15, <2>16, TorrentInvType DEF TypeOK
<1>6. CASE GcWake
  <2>1. UNCHANGED <<torrents, reply, heard, wall, clock, held, sweepDue>>
    BY <1>6 DEF GcWake, store
  <2>2. sweepNow' \in Nat /\ sweepNext' \in 0..SHARD_COUNT
    BY <1>6, MinutesNat, ShardAssumption DEF GcWake, TypeOK
  <2> QED  BY <2>1, <2>2 DEF TypeOK, Known, Busy
<1>7. CASE GcShard
  <2>1. UNCHANGED <<reply, heard, wall, clock, held, sweepNow>>  BY <1>7 DEF GcShard
  <2>2. sweepNext' \in 0..SHARD_COUNT /\ sweepDue' \in Nat
    BY <1>7, ShardAssumption, TimeoutAssumption DEF GcShard, Sweeping, TypeOK
  <2>3. torrents' = [h \in Retained |->
          IF InSweep(h) THEN Expired(torrents[h]) ELSE torrents[h]]
    BY <1>7 DEF GcShard
  <2>4. Known' = Retained /\ Retained \subseteq Known  BY <2>3 DEF Known, Retained
  <2>5. \A h \in Known' : TorrentInv(torrents'[h])  BY <2>3, <2>4, ExpiredInv
  <2>6. torrents' = [h \in Known' |-> torrents'[h]]  BY <2>3, <2>4
  <2> QED
    BY <2>1, <2>2, <2>4, <2>5, <2>6, TorrentInvType DEF TypeOK, Busy
<1>8. CASE ClockTask
  BY <1>8 DEF ClockTask, store, sweep, TypeOK, Known, Busy
<1>9. CASE Tick
  BY <1>9 DEF Tick, store, sweep, TypeOK, Known, Busy
<1>10. CASE UNCHANGED vars
  BY <1>10 DEF vars, store, sweep, TypeOK, Known, Busy
<1> QED
  BY <1>1, <1>2, <1>3, <1>4, <1>5, <1>6, <1>7, <1>8, <1>9, <1>10 DEF Next, Request

\* Whatever is requested, in whatever order, and whenever the sweep runs, every
\* list the store holds is one whose counters are exact.
THEOREM StoreInvariant == Spec => []StoreInv
<1>1. Init => StoreInv  BY InitStoreInv
<1>2. StoreInv /\ [Next]_vars => StoreInv'  BY NextStoreInv
<1> QED  BY <1>1, <1>2, PTL DEF Spec

\* Every variable keeps its type; in particular no counter of the code that
\* is decremented (`seeders -= 1`, `peers.len() - seeders`) goes below zero.
THEOREM TypeCorrect == Spec => []TypeOK
<1>1. StoreInv => TypeOK  BY DEF StoreInv
<1> QED  BY <1>1, StoreInvariant, PTL

LEMMA StoreInvLists ==
  ASSUME StoreInv, NEW l \in Lists
  PROVE  ListInv(l)
<1>1. PICK h \in Known, f \in Family : l = torrents[h].lists[f]  BY DEF Lists
<1> QED  BY <1>1 DEF StoreInv, TorrentInv

\* The seeder counter of every list is the number of its seeders.
THEOREM SeedersAreExact == Spec => []SeedersExact
<1>1. StoreInv => SeedersExact  BY StoreInvLists DEF SeedersExact, ListInv
<1> QED  BY <1>1, StoreInvariant, PTL

\* No peer carries the completed mark without having been counted.
THEOREM CompletedAreCounted == Spec => []CompletedCounted
<1>1. StoreInv => CompletedCounted  BY StoreInvLists DEF CompletedCounted, ListInv
<1> QED  BY <1>1, StoreInvariant, PTL

-----------------------------------------------------------------------------
(* Downloads *)

LEMMA DownloadsNat ==
  ASSUME NEW t, TorrentInv(t)
  PROVE  \A f \in Family : t.lists[f].downloaded \in Nat
BY DEF TorrentInv, ListInv, IsList

\* A list with more downloads in one family, and no other change, has more.
LEMMA WithListDownloads ==
  ASSUME NEW t, TorrentInv(t), NEW f \in Family, NEW l, NEW now,
         l.downloaded \in Nat, l.downloaded >= t.lists[f].downloaded
  PROVE  Completions(WithList(t, f, l, now)) >= Completions(t)
<1> DEFINE u == WithList(t, f, l, now)
<1>1. \A g \in Family : u.lists[g] = IF g = f THEN l ELSE t.lists[g]
  BY DEF WithList, TorrentInv
<1>2. \A g \in Family : u.lists[g].downloaded >= t.lists[g].downloaded
                         /\ u.lists[g].downloaded \in Nat
                         /\ t.lists[g].downloaded \in Nat
  BY <1>1, DownloadsNat
<1> HIDE DEF u
<1>3. Completions(u) >= Completions(t)  BY <1>2 DEF Completions, Family
<1> QED  BY <1>3 DEF u

LEMMA AnnounceDownloads ==
  ASSUME NEW l, IsList(l), NEW k, NEW raw, NEW now
  PROVE  /\ announce(l, k, raw, now).downloaded \in Nat
         /\ announce(l, k, raw, now).downloaded >= l.downloaded
BY AnnounceCounters DEF DownloadedAfter, IsList

\* What is collected has no downloads, and expiring peers leaves them alone.
LEMMA ExpiredDownloads ==
  ASSUME NEW t, TorrentInv(t)
  PROVE  /\ Completions(Expired(t)) = Completions(t)
         /\ Collectable(t) => Completions(t) = 0
<1>1. \A f \in Family : Expired(t).lists[f].downloaded = t.lists[f].downloaded
  BY DEF Expired, expire, TorrentInv
<1>2. is_empty(Expired(t)) => \A f \in Family : t.lists[f].downloaded = 0
  BY <1>1 DEF is_empty
<1>3. \A f \in Family : t.lists[f].downloaded \in Nat  BY DownloadsNat
<1> QED  BY <1>1, <1>2, <1>3 DEF Completions, Collectable, Family

LEMMA UnchangedDownloads ==
  ASSUME StoreInv, UNCHANGED torrents, NEW h \in Hash
  PROVE  Downloads(h)' >= Downloads(h)
<1>1. TorrentInv(TorrentOf(h))  BY TorrentOfInv
<1>2. Completions(TorrentOf(h)) \in Nat
  BY <1>1, DownloadsNat DEF Completions, Family
<1>3. TorrentOf(h)' = TorrentOf(h)  BY DEF TorrentOf, Known
<1> QED  BY <1>2, <1>3 DEF Downloads

\* The downloads of a torrent never fall: not when its peers lapse or leave,
\* and not when it is collected, for then it has none.
THEOREM DownloadsAreKept == Spec => DownloadsKept
<1>1. ASSUME StoreInv, StoreInv', [Next]_vars, NEW h \in Hash
      PROVE  Downloads(h)' >= Downloads(h)
  <2>1. TorrentInv(TorrentOf(h))  BY <1>1, TorrentOfInv
  <2>2. Completions(TorrentOf(h)) \in Nat
    BY <2>1, DownloadsNat DEF Completions, Family
  <2>3. ASSUME NEW w \in Worker, NEW g \in Hash, NEW f \in Listening,
               NEW k \in Key, Remove(w, g, f, k), ~UNCHANGED torrents
        PROVE  Downloads(h)' >= Downloads(h)
    <3> DEFINE l == remove(torrents[g].lists[f], k)
               t == WithList(torrents[g], f, l, Minutes(held[w]))
    <3>1. g \in Known /\ torrents' = [torrents EXCEPT ![g] = t]
      BY <2>3 DEF Remove
    <3>2. f \in Family  BY ListeningAssumption
    <3>3. TorrentInv(torrents[g])  BY <1>1, <3>1 DEF StoreInv
    <3>4. l.downloaded = torrents[g].lists[f].downloaded  BY DEF remove
    <3>5. l.downloaded \in Nat  BY <3>2, <3>3, <3>4, DownloadsNat
    <3> HIDE DEF l
    <3>6. Completions(t) >= Completions(torrents[g])
      BY <3>2, <3>3, <3>4, <3>5, WithListDownloads
    <3> HIDE DEF t
    <3>7. torrents' = [x \in Known |-> IF x = g THEN t ELSE torrents[x]]
      BY <1>1, <3>1 DEF StoreInv, TypeOK, Known
    <3>8. TorrentOf(h)' = IF h = g THEN t ELSE TorrentOf(h)
      BY <3>1, <3>7 DEF TorrentOf, Known
    <3> QED  BY <2>2, <3>1, <3>6, <3>8 DEF Downloads, TorrentOf
  <2>4. ASSUME NEW w \in Worker, NEW g \in Hash, NEW f \in Listening,
               NEW k \in Key, NEW flags, NEW numwant,
               Announce(w, g, f, k, flags, numwant)
        PROVE  Downloads(h)' >= Downloads(h)
    <3> DEFINE l == announce(TorrentOf(g).lists[f], k, flags, Minutes(held[w]))
               t == WithList(TorrentOf(g), f, l, Minutes(held[w]))
    <3>1. torrents' = [x \in Known \cup {g} |-> IF x = g THEN t ELSE torrents[x]]
      BY <2>4 DEF Announce
    <3>2. f \in Family  BY ListeningAssumption
    <3>3. TorrentInv(TorrentOf(g)) /\ IsList(TorrentOf(g).lists[f])
      BY <1>1, <3>2, TorrentOfInv DEF TorrentInv, ListInv
    <3>4. l.downloaded \in Nat /\ l.downloaded >= TorrentOf(g).lists[f].downloaded
      BY <3>3, AnnounceDownloads
    <3> HIDE DEF l
    <3>5. Completions(t) >= Completions(TorrentOf(g))
      BY <3>2, <3>3, <3>4, WithListDownloads
    <3> HIDE DEF t
    <3>6. TorrentOf(h)' = IF h = g THEN t ELSE TorrentOf(h)
      BY <3>1 DEF TorrentOf, Known
    <3> QED  BY <2>2, <3>5, <3>6 DEF Downloads
  <2>5. CASE GcShard
    <3>1. torrents' = [g \in Retained |->
            IF InSweep(g) THEN Expired(torrents[g]) ELSE torrents[g]]
      BY <2>5 DEF GcShard
    <3>2. Known' = Retained /\ Retained \subseteq Known
      BY <3>1 DEF Known, Retained
    <3>3. CASE h \in Retained
      <4>1. TorrentInv(torrents[h])  BY <1>1, <3>2, <3>3 DEF StoreInv
      <4>2. TorrentOf(h)' = IF InSweep(h) THEN Expired(torrents[h]) ELSE torrents[h]
        BY <3>1, <3>2, <3>3 DEF TorrentOf
      <4>3. TorrentOf(h) = torrents[h]  BY <3>2, <3>3 DEF TorrentOf
      <4> QED  BY <2>2, <4>1, <4>2, <4>3, ExpiredDownloads DEF Downloads
    <3>4. CASE h \in Known \ Retained
      <4>1. TorrentInv(torrents[h]) /\ Collectable(torrents[h])
        BY <1>1, <3>4 DEF StoreInv, Retained
      <4>2. Downloads(h) = 0
        BY <3>4, <4>1, ExpiredDownloads DEF Downloads, TorrentOf
      <4>3. TorrentInv(TorrentOf(h))'  BY <1>1, <3>2, <3>4, NewTorrentInv DEF TorrentOf
      <4>4. Downloads(h)' \in Nat
        BY <4>3, DownloadsNat DEF Downloads, Completions, Family
      <4> QED  BY <4>2, <4>4
    <3>5. CASE h \notin Known
      <4>1. TorrentOf(h)' = TorrentOf(h)  BY <3>2, <3>5 DEF TorrentOf
      <4> QED  BY <2>2, <4>1 DEF Downloads
    <3> QED  BY <3>3, <3>4, <3>5
  <2>6. CASE UNCHANGED torrents  BY <1>1, <2>6, UnchangedDownloads
  <2>7. CASE \E w \in Worker : Load(w) \/ Finish(w) \/ \E g \in Hash : Scrape(w, g)
    BY <2>6, <2>7 DEF Load, Finish, Scrape, store
  <2>8. CASE GcWake \/ ClockTask \/ Tick \/ UNCHANGED vars
    BY <2>6, <2>8 DEF GcWake, ClockTask, Tick, vars, store
  <2> QED
    BY <1>1, <2>3, <2>4, <2>5, <2>6, <2>7, <2>8 DEF Next, Request
<1>2. StoreInv /\ StoreInv' /\ [Next]_vars
        => [\A h \in Hash : Downloads(h)' >= Downloads(h)]_vars
  BY <1>1
<1> QED  BY <1>2, StoreInvariant, PTL DEF Spec, DownloadsKept

-----------------------------------------------------------------------------
(***************************************************************************)
(* How long a peer stays: the times the store works with are rounded to    *)
(* minutes, read from a cached clock, held by workers and, in a sweep,     *)
(* older than the announces the sweep meets.                               *)
(***************************************************************************)
-----------------------------------------------------------------------------
(* Minutes and seconds *)

LEMMA MinutesBounds ==
  ASSUME NEW secs \in Nat
  PROVE  /\ Minutes(secs) * SecsPerMinute <= secs
         /\ secs < (Minutes(secs) + 1) * SecsPerMinute
BY TimeoutAssumption DEF Minutes

LEMMA TimesMonotone ==
  ASSUME NEW a \in Int, NEW b \in Int, a <= b
  PROVE  a * SecsPerMinute <= b * SecsPerMinute
BY TimeoutAssumption

LEMMA TimesSum ==
  ASSUME NEW a \in Int, NEW b \in Int
  PROVE  /\ (a + b) * SecsPerMinute = a * SecsPerMinute + b * SecsPerMinute
         /\ a * SecsPerMinute \in Int
BY TimeoutAssumption

-----------------------------------------------------------------------------
(* Who is registered after a step, and with which entry *)

LEMMA MembersDef ==
  ASSUME NEW h \in Hash, NEW f \in Family, NEW k \in Key
  PROVE  <<h, f, k>> \in Members
           <=> h \in Known /\ k \in Registered(torrents[h].lists[f])
BY DEF Members, Peer

LEMMA AnnounceMembers ==
  ASSUME StoreInv, NEW w \in Worker, NEW h \in Hash, NEW f \in Family, NEW k \in Key,
         NEW flags, NEW numwant, Announce(w, h, f, k, flags, numwant)
  PROVE  /\ Members' = Members \cup {<<h, f, k>>}
         /\ EntryOf(<<h, f, k>>)'.seen = Minutes(held[w])
         /\ \A r \in Members' \ {<<h, f, k>>} : EntryOf(r)' = EntryOf(r)
<1> DEFINE now == Minutes(held[w])
           l   == announce(TorrentOf(h).lists[f], k, flags, now)
           t   == WithList(TorrentOf(h), f, l, now)
<1>1. torrents' = [x \in Known \cup {h} |-> IF x = h THEN t ELSE torrents[x]]
  BY DEF Announce
<1>2. \A g \in Family : t.lists[g] = IF g = f THEN l ELSE TorrentOf(h).lists[g]
  BY TorrentOfInv DEF WithList, TorrentInv
<1>3. /\ Registered(l) = Registered(TorrentOf(h).lists[f]) \cup {k}
      /\ l.peers[k].seen = now
      /\ \A x \in Registered(l) \ {k} : l.peers[x] = TorrentOf(h).lists[f].peers[x]
  BY AnnounceEntries
<1>4. h \notin Known => \A g \in Family : Registered(TorrentOf(h).lists[g]) = {}
  BY DEF TorrentOf, NewTorrent, NewList, Registered
<1>5. h \in Known => TorrentOf(h) = torrents[h]  BY DEF TorrentOf
<1> HIDE DEF t, l, now
<1>6. Known' = Known \cup {h}  BY <1>1 DEF Known
<1>7. ASSUME NEW x \in Hash, NEW g \in Family, NEW y \in Key,
             <<x, g, y>> # <<h, f, k>>
      PROVE  /\ <<x, g, y>> \in Members' <=> <<x, g, y>> \in Members
             /\ <<x, g, y>> \in Members' => EntryOf(<<x, g, y>>)' = EntryOf(<<x, g, y>>)
  <2>1. <<x, g, y>> \in Members'
          <=> x \in Known' /\ y \in Registered(torrents'[x].lists[g])
    BY DEF Members, Peer
  <2>2. CASE x # h
    BY <1>1, <1>6, <2>1, <2>2, MembersDef DEF EntryOf
  <2>3. CASE x = h
    <3>1. torrents'[x] = t  BY <1>1, <2>3
    <3>2. CASE g = f
      BY <1>2, <1>3, <1>4, <1>5, <1>6, <1>7, <2>1, <2>3, <3>1, <3>2, MembersDef
      DEF EntryOf
    <3>3. CASE g # f
      BY <1>2, <1>4, <1>5, <1>6, <2>1, <2>3, <3>1, <3>3, MembersDef DEF EntryOf
    <3> QED  BY <3>2, <3>3
  <2> QED  BY <2>2, <2>3
<1>8. <<h, f, k>> \in Members' /\ EntryOf(<<h, f, k>>)'.seen = now
  <2>1. torrents'[h].lists[f] = l  BY <1>1, <1>2
  <2>2. <<h, f, k>> \in Members'
    BY <1>3, <1>6, <2>1 DEF Members, Peer
  <2> QED  BY <1>3, <2>1, <2>2 DEF EntryOf
<1>9. Members \subseteq Peer /\ Members' \subseteq Peer  BY DEF Members
<1>10. \A r \in Peer : \E x \in Hash, g \in Family, y \in Key : r = <<x, g, y>>
  BY DEF Peer
<1> QED  BY <1>7, <1>8, <1>9, <1>10 DEF now

LEMMA RemoveMembers ==
  ASSUME StoreInv, NEW w \in Worker, NEW h \in Hash, NEW f \in Family, NEW k \in Key,
         Remove(w, h, f, k)
  PROVE  /\ Members' = Members \ {<<h, f, k>>}
         /\ \A r \in Members' : EntryOf(r)' = EntryOf(r)
<1> DEFINE m == remove(torrents[h].lists[f], k)
           t == WithList(torrents[h], f, m, Minutes(held[w]))
<1>1. CASE h \in Known /\ torrents' = [torrents EXCEPT ![h] = t]
  <2>1. torrents' = [x \in Known |-> IF x = h THEN t ELSE torrents[x]]
    BY <1>1 DEF StoreInv, TypeOK, Known
  <2>2. \A g \in Family : t.lists[g] = IF g = f THEN m ELSE torrents[h].lists[g]
    <3>1. TorrentInv(torrents[h])  BY <1>1 DEF StoreInv
    <3> QED  BY <3>1 DEF WithList, TorrentInv
  <2>3. /\ Registered(m) = Registered(torrents[h].lists[f]) \ {k}
        /\ \A x \in Registered(m) : m.peers[x] = torrents[h].lists[f].peers[x]
    BY RemoveHaving
  <2> HIDE DEF t, m
  <2>4. Known' = Known  BY <2>1 DEF Known
  <2>5. ASSUME NEW x \in Hash, NEW g \in Family, NEW y \in Key
        PROVE  /\ <<x, g, y>> \in Members'
                    <=> <<x, g, y>> \in Members /\ <<x, g, y>> # <<h, f, k>>
               /\ <<x, g, y>> \in Members' => EntryOf(<<x, g, y>>)' = EntryOf(<<x, g, y>>)
    <3>1. <<x, g, y>> \in Members'
            <=> x \in Known' /\ y \in Registered(torrents'[x].lists[g])
      BY DEF Members, Peer
    <3>2. CASE x # h
      BY <2>1, <2>4, <3>1, <3>2, MembersDef DEF EntryOf
    <3>3. CASE x = h
      BY <1>1, <2>1, <2>2, <2>3, <2>4, <3>1, <3>3, MembersDef DEF EntryOf
    <3> QED  BY <3>2, <3>3
  <2>6. Members \subseteq Peer /\ Members' \subseteq Peer  BY DEF Members
  <2>7. \A r \in Peer : \E x \in Hash, g \in Family, y \in Key : r = <<x, g, y>>
    BY DEF Peer
  <2> QED  BY <2>5, <2>6, <2>7
<1>2. CASE h \notin Known /\ UNCHANGED torrents
  <2>1. Members' = Members  BY <1>2 DEF Members, Known
  <2>2. <<h, f, k>> \notin Members  BY <1>2, MembersDef
  <2> QED  BY <1>2, <2>1, <2>2 DEF EntryOf
<1> QED  BY <1>1, <1>2 DEF Remove

\* The sweep drops exactly the entries of its shard that are old enough, and
\* a torrent it collects has none left.
LEMMA GcShardMembers ==
  ASSUME StoreInv, GcShard
  PROVE  /\ Members' =
              {r \in Members :
                 InSweep(r[1]) =>
                   Idle(sweepNow, EntryOf(r).seen) < PEER_TIMEOUT_MINUTES}
         /\ \A r \in Members' : EntryOf(r)' = EntryOf(r)
<1>1. torrents' = [h \in Retained |->
        IF InSweep(h) THEN Expired(torrents[h]) ELSE torrents[h]]
  BY DEF GcShard
<1>2. Known' = Retained /\ Retained \subseteq Known  BY <1>1 DEF Known, Retained
<1>3. ASSUME NEW x \in Hash, NEW g \in Family, NEW y \in Key
      PROVE  /\ <<x, g, y>> \in Members'
                  <=> /\ <<x, g, y>> \in Members
                      /\ InSweep(x) =>
                           Idle(sweepNow, EntryOf(<<x, g, y>>).seen)
                             < PEER_TIMEOUT_MINUTES
             /\ <<x, g, y>> \in Members' => EntryOf(<<x, g, y>>)' = EntryOf(<<x, g, y>>)
  <2> DEFINE old == torrents[x].lists[g]
             m   == expire(old, sweepNow, PEER_TIMEOUT_MINUTES)
  <2>1. <<x, g, y>> \in Members'
          <=> x \in Known' /\ y \in Registered(torrents'[x].lists[g])
    BY DEF Members, Peer
  <2>2. CASE ~InSweep(x)
    <3>1. x \in Known' <=> x \in Known  BY <1>2, <2>2 DEF Retained
    <3>2. x \in Known' => torrents'[x] = torrents[x]  BY <1>1, <1>2, <2>2
    <3> QED  BY <2>1, <2>2, <3>1, <3>2, MembersDef DEF EntryOf
  <2>3. CASE InSweep(x)
    <3>1. x \in Known => Expired(torrents[x]).lists[g] = m
      BY DEF Expired, StoreInv, TorrentInv
    <3>2. /\ Registered(m) = Kept(old, sweepNow, PEER_TIMEOUT_MINUTES)
          /\ \A z \in Registered(m) : m.peers[z] = old.peers[z]
      BY ExpireHaving
    <3>3. x \in Known /\ y \in Registered(m) => x \in Retained
      BY <3>1 DEF Retained, Collectable, is_empty
    <3>4. x \in Known' => torrents'[x].lists[g] = m  BY <1>1, <1>2, <2>3, <3>1
    <3>5. y \in Registered(m)
            <=> /\ y \in Registered(old)
                /\ Idle(sweepNow, old.peers[y].seen) < PEER_TIMEOUT_MINUTES
      BY <3>2 DEF Kept
    <3> HIDE DEF m
    <3> QED
      BY <1>2, <2>1, <2>3, <3>2, <3>3, <3>4, <3>5, MembersDef DEF EntryOf
  <2> QED  BY <2>2, <2>3
<1>4. Members \subseteq Peer /\ Members' \subseteq Peer  BY DEF Members
<1>5. \A r \in Peer : \E x \in Hash, g \in Family, y \in Key : r = <<x, g, y>>
  BY DEF Peer
<1> QED  BY <1>3, <1>4, <1>5

-----------------------------------------------------------------------------
(* The inductive invariant *)

\* The cached clock and what workers hold are old, but not too old.
ClocksInv ==
  /\ clock <= wall /\ wall <= clock + ClockLag
  /\ \A w \in Busy : held[w] <= wall /\ wall <= held[w] + HandlerLag

\* A running sweep was due before it read its minute, and ends in time.
SweepInv ==
  /\ sweepNow * SecsPerMinute <= wall
  /\ sweepDue <= wall + GC_INTERVAL_SECS
  /\ wall <= sweepDue + GcLag
  /\ Sweeping => /\ sweepDue <= wall
                 /\ sweepDue < (sweepNow + 1) * SecsPerMinute

\* An entry's minute and the time of the announce that wrote it.
SeenInv(r) ==
  /\ EntryOf(r).seen \in Nat
  /\ EntryOf(r).seen * SecsPerMinute <= heard[r]
  /\ heard[r] < (EntryOf(r).seen + 1) * SecsPerMinute + HandlerLag

\* What the sweeps behind a peer say of its age: the next sweep that meets it
\* is not due too late, and a running one that passed it found it fresh.
DueInv(r) ==
  sweepDue < heard[r] + PEER_TIMEOUT_MINUTES * SecsPerMinute
               + IF Sweeping /\ ShardOf[r[1]] < sweepNext
                   THEN 0 ELSE GC_INTERVAL_SECS + GcLag

TimeInv ==
  /\ StoreInv
  /\ ClocksInv
  /\ SweepInv
  /\ \A r \in Members : SeenInv(r) /\ DueInv(r)

LEMMA InitTimeInv == Init => TimeInv
<1> SUFFICES ASSUME Init PROVE TimeInv  OBVIOUS
<1>1. Members = {} /\ Busy = {}  BY DEF Init, Members, Known, Busy
<1>2. ClocksInv  BY <1>1, LagAssumption DEF Init, ClocksInv
<1>3. SweepInv
  BY ShardAssumption, TimeoutAssumption, LagAssumption DEF Init, SweepInv, Sweeping
<1> QED  BY <1>1, <1>2, <1>3, InitStoreInv DEF TimeInv

\* Steps that leave the entries, their times and the sweep alone.
LEMMA EntriesUnchanged ==
  ASSUME TimeInv, UNCHANGED <<torrents, heard, sweepDue, sweepNext>>
  PROVE  \A r \in Members' : SeenInv(r)' /\ DueInv(r)'
<1>1. Members' = Members  BY DEF Members, Known
<1>2. \A r : EntryOf(r)' = EntryOf(r)  BY DEF EntryOf
<1> QED  BY <1>1, <1>2 DEF TimeInv, SeenInv, DueInv, Sweeping

LEMMA NextTimeInv ==
  ASSUME TimeInv, [Next]_vars
  PROVE  TimeInv'
<1>1. StoreInv'  BY NextStoreInv DEF TimeInv
<1>2. TypeOK /\ TypeOK'  BY <1>1 DEF TimeInv, StoreInv
<1>3. ClocksInv /\ SweepInv /\ StoreInv  BY DEF TimeInv
<1> USE TimeoutAssumption, LagAssumption, ShardAssumption
<1>4. ASSUME NEW w \in Worker, Load(w) PROVE TimeInv'
  <2>1. ClocksInv'
    BY <1>2, <1>3, <1>4 DEF Load, ClocksInv, Busy, TypeOK
  <2>2. SweepInv'  BY <1>3, <1>4 DEF Load, SweepInv, sweep, Sweeping
  <2> QED
    BY <1>1, <1>4, <2>1, <2>2, EntriesUnchanged DEF Load, store, sweep, TimeInv
<1>5. ASSUME NEW w \in Worker, Finish(w) PROVE TimeInv'
  <2>1. ClocksInv'
    BY <1>2, <1>3, <1>5 DEF Finish, Released, ClocksInv, Busy, TypeOK
  <2>2. SweepInv'  BY <1>3, <1>5 DEF Finish, SweepInv, sweep, Sweeping
  <2> QED
    BY <1>1, <1>5, <2>1, <2>2, EntriesUnchanged DEF Finish, store, sweep, TimeInv
<1>6. ASSUME NEW w \in Worker, NEW h \in Hash, Scrape(w, h) PROVE TimeInv'
  <2>1. ClocksInv'  BY <1>3, <1>6 DEF Scrape, ClocksInv, Busy
  <2>2. SweepInv'  BY <1>3, <1>6 DEF Scrape, SweepInv, sweep, Sweeping
  <2> QED
    BY <1>1, <1>6, <2>1, <2>2, EntriesUnchanged DEF Scrape, sweep, TimeInv
<1>7. ASSUME NEW w \in Worker, NEW h \in Hash, NEW f \in Listening, NEW k \in Key,
             Remove(w, h, f, k)
      PROVE  TimeInv'
  <2>1. ClocksInv'
    BY <1>2, <1>3, <1>7 DEF Remove, Released, ClocksInv, Busy, TypeOK
  <2>2. SweepInv'  BY <1>3, <1>7 DEF Remove, SweepInv, sweep, Sweeping
  <2>3. f \in Family  BY ListeningAssumption
  <2>4. /\ Members' \subseteq Members
        /\ \A r \in Members' : EntryOf(r)' = EntryOf(r)
    BY <1>3, <1>7, <2>3, RemoveMembers
  <2>5. UNCHANGED <<heard, sweepDue, sweepNext>>  BY <1>7 DEF Remove, sweep
  <2>6. \A r \in Members' : SeenInv(r)' /\ DueInv(r)'
    BY <2>4, <2>5 DEF TimeInv, SeenInv, DueInv, Sweeping
  <2> QED  BY <1>1, <2>1, <2>2, <2>6 DEF TimeInv
<1>8. ASSUME NEW w \in Worker, NEW h \in Hash, NEW f \in Listening, NEW k \in Key,
             NEW flags \in SUBSET Flag, NEW numwant \in 0..MaxNumwant,
             Announce(w, h, f, k, flags, numwant)
      PROVE  TimeInv'
  <2> DEFINE p == <<h, f, k>>
             now == Minutes(held[w])
  <2>1. ClocksInv'
    BY <1>2, <1>3, <1>8 DEF Announce, Released, ClocksInv, Busy, TypeOK
  <2>2. SweepInv'  BY <1>3, <1>8 DEF Announce, SweepInv, sweep, Sweeping
  <2>3. f \in Family  BY ListeningAssumption
  <2>4. /\ Members' = Members \cup {p}
        /\ EntryOf(p)'.seen = now
        /\ \A r \in Members' \ {p} : EntryOf(r)' = EntryOf(r)
    BY <1>3, <1>8, <2>3, AnnounceMembers
  <2>5. /\ heard' = [heard EXCEPT ![p] = wall]
        /\ UNCHANGED <<sweepDue, sweepNext, wall>>
    BY <1>8 DEF Announce, sweep
  <2>6. \A r \in Members' \ {p} : SeenInv(r)' /\ DueInv(r)'
    <3>1. \A r \in Peer \ {p} : heard'[r] = heard[r]  BY <1>2, <2>5 DEF TypeOK
    <3>2. Members' \subseteq Peer  BY DEF Members
    <3> QED  BY <2>4, <2>5, <3>1, <3>2 DEF TimeInv, SeenInv, DueInv, Sweeping
  <2>7. heard'[p] = wall  BY <1>2, <2>3, <2>5 DEF TypeOK, Peer
  <2>8. SeenInv(p)'
    <3>1. held[w] \in Nat /\ held[w] <= wall /\ wall <= held[w] + HandlerLag
      BY <1>2, <1>3, <1>8 DEF Announce, ClocksInv, TypeOK
    <3>2. /\ now \in Nat
          /\ now * SecsPerMinute <= held[w]
          /\ held[w] < (now + 1) * SecsPerMinute
      BY <3>1, MinutesBounds, MinutesNat
    <3>3. now * SecsPerMinute \in Int /\ (now + 1) * SecsPerMinute \in Int
      BY <3>2, TimesSum
    <3>4. /\ now * SecsPerMinute <= wall
          /\ wall < (now + 1) * SecsPerMinute + HandlerLag
      BY <1>2, <3>1, <3>2, <3>3 DEF TypeOK
    <3> QED  BY <2>4, <2>7, <3>2, <3>4 DEF SeenInv
  <2>9. DueInv(p)'
    <3>1. PEER_TIMEOUT_MINUTES * SecsPerMinute \in Nat \ {0}  OBVIOUS
    <3>2. Sweeping => sweepDue <= wall  BY <1>3 DEF SweepInv
    <3>3. sweepDue <= wall + GC_INTERVAL_SECS  BY <1>3 DEF SweepInv
    <3>4. wall \in Nat /\ sweepDue \in Nat  BY <1>2 DEF TypeOK
    <3> QED
      BY <2>5, <2>7, <3>1, <3>2, <3>3, <3>4 DEF DueInv, Sweeping
  <2> QED  BY <1>1, <2>1, <2>2, <2>6, <2>8, <2>9 DEF TimeInv
<1>9. CASE GcWake
  <2>1. ClocksInv'  BY <1>3, <1>9 DEF GcWake, ClocksInv, Busy
  <2>2. SweepInv'
    <3>1. wall \in Nat /\ sweepDue \in Nat  BY <1>2 DEF TypeOK
    <3>2. /\ sweepNow' * SecsPerMinute <= wall
          /\ wall < (sweepNow' + 1) * SecsPerMinute
      BY <1>9, <3>1, MinutesBounds DEF GcWake
    <3>3. (sweepNow' + 1) * SecsPerMinute \in Int  BY <1>2, TimesSum DEF TypeOK
    <3> QED  BY <1>3, <1>9, <3>1, <3>2, <3>3 DEF GcWake, SweepInv, Sweeping
  <2>3. Members' = Members  BY <1>9 DEF GcWake, store, Members, Known
  <2>4. \A r : EntryOf(r)' = EntryOf(r)  BY <1>9 DEF GcWake, store, EntryOf
  <2>5. \A r \in Members : r[1] \in Hash  BY DEF Members, Peer
  <2>6. \A r \in Members' : SeenInv(r)' /\ DueInv(r)'
    BY <1>9, <2>3, <2>4, <2>5 DEF GcWake, store, TimeInv, SeenInv, DueInv, Sweeping
  <2> QED  BY <1>1, <2>1, <2>2, <2>6 DEF TimeInv
<1>10. CASE GcShard
  <2>1. ClocksInv'  BY <1>3, <1>10 DEF GcShard, ClocksInv, Busy
  <2>2. SweepInv'
    BY <1>2, <1>3, <1>10 DEF GcShard, SweepInv, Sweeping, TypeOK
  <2>3. /\ Members' \subseteq Members
        /\ \A r \in Members' :
             /\ EntryOf(r)' = EntryOf(r)
             /\ InSweep(r[1]) =>
                  Idle(sweepNow, EntryOf(r).seen) < PEER_TIMEOUT_MINUTES
    BY <1>3, <1>10, GcShardMembers
  <2>4. \A r \in Members' : SeenInv(r)'
    BY <1>10, <2>3 DEF GcShard, TimeInv, SeenInv
  <2>5. ASSUME NEW r \in Members'
        PROVE  DueInv(r)'
    <3> DEFINE seen == EntryOf(r).seen
               P    == PEER_TIMEOUT_MINUTES * SecsPerMinute
    <3>1. /\ r \in Members /\ r \in Peer /\ ShardOf[r[1]] \in Int
          /\ heard[r] \in Nat /\ sweepDue \in Nat /\ sweepNow \in Nat
          /\ wall \in Nat /\ sweepNext \in Nat
      BY <1>2, <2>3 DEF Members, Peer, TypeOK
    <3>2. seen \in Nat /\ seen * SecsPerMinute <= heard[r] /\ DueInv(r)
      BY <2>3, <3>1 DEF TimeInv, SeenInv
    <3>3. Sweeping /\ sweepDue < (sweepNow + 1) * SecsPerMinute
                   /\ wall <= sweepDue + GcLag
      BY <1>3, <1>10 DEF GcShard, SweepInv
    <3>4. P \in Nat \ {0}  OBVIOUS
    <3>5. UNCHANGED <<heard, wall>>  BY <1>10 DEF GcShard
    <3>6. ShardOf[r[1]] <= sweepNext => sweepDue < heard[r] + P
      <4>1. CASE InSweep(r[1])
        <5>1. sweepNow + 1 <= seen + PEER_TIMEOUT_MINUTES
          BY <2>3, <3>1, <3>2, <4>1 DEF Idle
        <5>2. (sweepNow + 1) * SecsPerMinute
                <= (seen + PEER_TIMEOUT_MINUTES) * SecsPerMinute
          BY <3>1, <3>2, <5>1, TimesMonotone
        <5>3. (seen + PEER_TIMEOUT_MINUTES) * SecsPerMinute
                = seen * SecsPerMinute + P
          BY <3>2, TimesSum
        <5>4. /\ (sweepNow + 1) * SecsPerMinute \in Int
              /\ seen * SecsPerMinute \in Int
          BY <3>1, <3>2, TimesSum
        <5> QED  BY <3>1, <3>2, <3>3, <3>4, <5>2, <5>3, <5>4
      <4>2. CASE ShardOf[r[1]] < sweepNext
        BY <3>1, <3>2, <3>3, <3>4, <4>2 DEF DueInv
      <4> QED  BY <3>1, <4>1, <4>2 DEF InSweep
    <3>7. sweepDue < heard[r] + P + (GC_INTERVAL_SECS + GcLag)
      BY <3>1, <3>2, <3>4 DEF DueInv
    <3>8. sweepNext' = sweepNext + 1  BY <1>10 DEF GcShard
    <3>9. CASE sweepNext' = SHARD_COUNT
      <4>1. sweepDue' = wall + GC_INTERVAL_SECS  BY <1>10, <3>9 DEF GcShard
      <4>2. ShardOf[r[1]] <= sweepNext
        BY <3>1, <3>8, <3>9 DEF Peer
      <4>3. sweepDue' < heard[r] + P + (GC_INTERVAL_SECS + GcLag)
        BY <3>1, <3>3, <3>4, <3>6, <4>1, <4>2
      <4> QED  BY <3>1, <3>5, <3>9, <4>3 DEF DueInv, Sweeping
    <3>10. CASE sweepNext' # SHARD_COUNT
      <4>1. sweepDue' = sweepDue  BY <1>10, <3>10 DEF GcShard
      <4>2. ShardOf[r[1]] < sweepNext' => sweepDue' < heard[r] + P
        BY <3>1, <3>6, <3>8, <4>1
      <4> QED  BY <3>1, <3>4, <3>5, <3>7, <4>1, <4>2 DEF DueInv
    <3> QED  BY <3>9, <3>10
  <2> QED  BY <1>1, <2>1, <2>2, <2>4, <2>5 DEF TimeInv
<1>11. CASE ClockTask
  <2>1. ClocksInv'  BY <1>2, <1>3, <1>11 DEF ClockTask, ClocksInv, Busy, TypeOK
  <2>2. SweepInv'  BY <1>3, <1>11 DEF ClockTask, SweepInv, sweep, Sweeping
  <2> QED
    BY <1>1, <1>11, <2>1, <2>2, EntriesUnchanged DEF ClockTask, store, sweep, TimeInv
<1>12. CASE Tick
  <2>1. ClocksInv'  BY <1>2, <1>3, <1>12 DEF Tick, ClocksInv, Busy, TypeOK
  <2>2. SweepInv'
    <3>1. sweepNow * SecsPerMinute \in Int /\ (sweepNow + 1) * SecsPerMinute \in Int
      BY <1>2, TimesSum DEF TypeOK
    <3> QED  BY <1>2, <1>3, <1>12, <3>1 DEF Tick, SweepInv, sweep, Sweeping, TypeOK
  <2> QED
    BY <1>1, <1>12, <2>1, <2>2, EntriesUnchanged DEF Tick, store, sweep, TimeInv
<1>13. CASE UNCHANGED vars
  <2>1. ClocksInv'  BY <1>3, <1>13 DEF vars, ClocksInv, Busy
  <2>2. SweepInv'  BY <1>3, <1>13 DEF vars, SweepInv, sweep, Sweeping
  <2> QED
    BY <1>1, <1>13, <2>1, <2>2, EntriesUnchanged DEF vars, store, sweep, TimeInv
<1> QED
  BY <1>4, <1>5, <1>6, <1>7, <1>8, <1>9, <1>10, <1>11, <1>12, <1>13
  DEF Next, Request

\* The times the store works with stay within the lags of the tasks, and every
\* entry is younger than the sweep that would have dropped it.
THEOREM TimeInvariant == Spec => []TimeInv
<1>1. Init => TimeInv  BY InitTimeInv
<1>2. TimeInv /\ [Next]_vars => TimeInv'  BY NextTimeInv
<1> QED  BY <1>1, <1>2, PTL DEF Spec

-----------------------------------------------------------------------------
(* What follows *)

\* A peer that went silent is out of its swarm StaleAfter seconds later, the
\* sweeps being at most GcLag late.
THEOREM StalePeersAreGone == Spec => []StalePeerGone
<1>1. TimeInv => StalePeerGone
  <2> SUFFICES ASSUME TimeInv, NEW r \in Members
               PROVE  wall - heard[r] < StaleAfter
    BY DEF StalePeerGone
  <2>1. /\ r \in Peer /\ heard[r] \in Nat /\ wall \in Nat /\ sweepDue \in Nat
        /\ DueInv(r) /\ wall <= sweepDue + GcLag
    BY DEF TimeInv, StoreInv, TypeOK, SweepInv, Members
  <2>2. PEER_TIMEOUT_MINUTES * SecsPerMinute \in Nat  BY TimeoutAssumption
  <2>3. sweepDue < heard[r] + PEER_TIMEOUT_MINUTES * SecsPerMinute
                     + GC_INTERVAL_SECS + GcLag
    BY <2>1, <2>2, TimeoutAssumption, LagAssumption DEF DueInv
  <2> QED  BY <2>1, <2>2, <2>3, TimeoutAssumption, LagAssumption DEF StaleAfter
<1> QED  BY <1>1, TimeInvariant, PTL

\* What makes a step of the store a sweep's: a request releases its worker.
LEMMA OnlySweepsDrop ==
  ASSUME TimeInv, [Next]_vars, NEW r \in Members, r \notin Members', held' = held
  PROVE  GcShard
<1>1. ASSUME NEW w \in Worker, NEW h \in Hash, NEW f \in Listening, NEW k \in Key
      PROVE  /\ ~Remove(w, h, f, k)
             /\ \A flags, numwant : ~Announce(w, h, f, k, flags, numwant)
  BY DEF Remove, Announce, Released, Busy
<1>2. ASSUME UNCHANGED torrents PROVE FALSE  BY <1>2 DEF Members, Known
<1> QED
  BY <1>1, <1>2
  DEF Next, Request, Load, Finish, Scrape, GcWake, ClockTask, Tick, store, vars

\* What a sweep drops was silent for longer than FreshFor.
LEMMA DroppedIsStale ==
  ASSUME TimeInv, GcShard, NEW r \in Members, r \notin Members'
  PROVE  wall - heard[r] > FreshFor
<1> DEFINE seen == EntryOf(r).seen
           P    == PEER_TIMEOUT_MINUTES * SecsPerMinute
<1>1. Idle(sweepNow, seen) >= PEER_TIMEOUT_MINUTES
  <2>1. ~(Idle(sweepNow, seen) < PEER_TIMEOUT_MINUTES)
    BY GcShardMembers DEF TimeInv
  <2>2. sweepNow \in Nat /\ seen \in Nat  BY DEF TimeInv, StoreInv, TypeOK, SeenInv
  <2> QED  BY <2>1, <2>2, TimeoutAssumption DEF Idle
<1>2. /\ r \in Peer /\ heard[r] \in Nat /\ wall \in Nat /\ sweepNow \in Nat
      /\ seen \in Nat /\ heard[r] < (seen + 1) * SecsPerMinute + HandlerLag
      /\ sweepNow * SecsPerMinute <= wall
  BY DEF TimeInv, StoreInv, TypeOK, SweepInv, SeenInv, Members
<1>3. seen + PEER_TIMEOUT_MINUTES <= sweepNow
  BY <1>1, <1>2, TimeoutAssumption DEF Idle
<1>4. /\ (seen + PEER_TIMEOUT_MINUTES) * SecsPerMinute <= sweepNow * SecsPerMinute
      /\ (seen + PEER_TIMEOUT_MINUTES) * SecsPerMinute = seen * SecsPerMinute + P
      /\ (seen + 1) * SecsPerMinute = seen * SecsPerMinute + 1 * SecsPerMinute
      /\ seen * SecsPerMinute \in Int /\ sweepNow * SecsPerMinute \in Int
  BY <1>2, <1>3, TimesMonotone, TimesSum, TimeoutAssumption
<1>5. FreshFor = P - SecsPerMinute - HandlerLag /\ P \in Nat
  BY TimeoutAssumption, LagAssumption DEF FreshFor
<1> HIDE DEF P, seen
<1> QED  BY <1>2, <1>4, <1>5, TimeoutAssumption, LagAssumption

\* No peer that announced less than FreshFor seconds ago leaves its swarm
\* otherwise than by a request.
THEOREM FreshPeersAreKept == Spec => FreshPeerKept
<1>1. ASSUME TimeInv, [Next]_vars, NEW r \in Members, r \notin Members', held' = held
      PROVE  wall - heard[r] > FreshFor
  BY <1>1, OnlySweepsDrop, DroppedIsStale
<1>2. TimeInv /\ [Next]_vars
        => [\A r \in Members :
              r \notin Members' /\ held' = held => wall - heard[r] > FreshFor]_vars
  BY <1>1
<1> QED  BY <1>2, TimeInvariant, PTL DEF Spec, FreshPeerKept

-----------------------------------------------------------------------------
(* Empty torrents *)

LastMoment(h) == (torrents[h].base + TORRENT_TIMEOUT_MINUTES) * SecsPerMinute

\* What the sweeps say of an empty torrent's age, as DueInv does of a peer's.
EmptyDue(h) ==
  is_empty(torrents[h]) =>
    sweepDue < LastMoment(h) + IF Sweeping /\ ShardOf[h] < sweepNext
                                 THEN 0 ELSE GC_INTERVAL_SECS + GcLag

EmptyInv == TimeInv /\ \A h \in Known : EmptyDue(h)

\* Requests and sweeps leave the other torrents as they were.
LEMMA EmptyUntouched ==
  ASSUME NEW h, torrents'[h] = torrents[h], EmptyDue(h),
         UNCHANGED <<sweepDue, sweepNext>>
  PROVE  EmptyDue(h)'
BY DEF EmptyDue, LastMoment, Sweeping

\* A torrent that announce has just written has a peer.
LEMMA AnnouncedNotEmpty ==
  ASSUME StoreInv, NEW w \in Worker, NEW h \in Hash, NEW f \in Family, NEW k \in Key,
         NEW flags, NEW numwant, Announce(w, h, f, k, flags, numwant)
  PROVE  ~is_empty(torrents'[h])
<1>1. <<h, f, k>> \in Members'  BY AnnounceMembers
<1>2. k \in Registered(torrents'[h].lists[f])  BY <1>1 DEF Members
<1> QED  BY <1>2 DEF is_empty

\* A request works with a minute that is not yet a torrent's lifetime old.
LEMMA RemovedIsYoung ==
  ASSUME TimeInv, NEW w \in Busy
  PROVE  wall < (Minutes(held[w]) + TORRENT_TIMEOUT_MINUTES) * SecsPerMinute
<1> USE TimeoutAssumption, LagAssumption
<1> DEFINE now == Minutes(held[w])
           T   == TORRENT_TIMEOUT_MINUTES
<1>1. held[w] \in Nat /\ wall \in Nat /\ wall <= held[w] + HandlerLag
  BY DEF TimeInv, StoreInv, TypeOK, ClocksInv
<1>2. now \in Nat /\ held[w] < (now + 1) * SecsPerMinute
  BY <1>1, MinutesBounds, MinutesNat
<1>3. /\ (now + T) * SecsPerMinute = (now + 1) * SecsPerMinute + (T - 1) * SecsPerMinute
      /\ (now + 1) * SecsPerMinute \in Int /\ (T - 1) * SecsPerMinute \in Int
  <2>1. now + T = (now + 1) + (T - 1)  BY <1>2
  <2> HIDE DEF now
  <2>2. ((now + 1) + (T - 1)) * SecsPerMinute
          = (now + 1) * SecsPerMinute + (T - 1) * SecsPerMinute
    BY <1>2, TimesSum
  <2> QED  BY <1>2, <2>1, <2>2, TimesSum
<1> QED  BY <1>1, <1>2, <1>3

LEMMA NextEmptyInv ==
  ASSUME EmptyInv, [Next]_vars
  PROVE  EmptyInv'
<1>1. TimeInv /\ TimeInv'  BY NextTimeInv DEF EmptyInv
<1>2. TypeOK /\ TypeOK' /\ StoreInv /\ SweepInv /\ ClocksInv
  BY <1>1 DEF TimeInv, StoreInv
<1>3. \A h \in Known : EmptyDue(h)  BY DEF EmptyInv
<1> USE TimeoutAssumption, LagAssumption, ShardAssumption
<1>4. ASSUME NEW w \in Worker, NEW h \in Hash, NEW f \in Listening, NEW k \in Key,
             Remove(w, h, f, k)
      PROVE  \A x \in Known' : EmptyDue(x)'
  <2>1. UNCHANGED <<sweepDue, sweepNext, wall>>  BY <1>4 DEF Remove, sweep
  <2>2. Known' = Known  BY <1>4 DEF Remove, Known
  <2>3. \A x \in Known \ {h} : torrents'[x] = torrents[x]
    BY <1>2, <1>4 DEF Remove, TypeOK, Known
  <2>4. ASSUME h \in Known PROVE EmptyDue(h)'
    <3>1. w \in Busy /\ torrents'[h].base = Minutes(held[w])
      BY <1>2, <1>4, <2>4 DEF Remove, WithList, TypeOK, Known
    <3>2. wall < LastMoment(h)'
      BY <1>1, <3>1, RemovedIsYoung DEF LastMoment
    <3>3. /\ Sweeping => sweepDue <= wall
          /\ sweepDue <= wall + GC_INTERVAL_SECS
      BY <1>2 DEF SweepInv
    <3>4. /\ wall \in Nat /\ sweepDue \in Nat
          /\ LastMoment(h)' \in Int
      <4>1. Minutes(held[w]) \in Nat  BY <1>2, <3>1, MinutesNat DEF TypeOK
      <4> QED  BY <1>2, <3>1, <4>1, TimesSum DEF TypeOK, LastMoment
    <3> QED  BY <2>1, <3>2, <3>3, <3>4 DEF EmptyDue, Sweeping
  <2> QED  BY <1>3, <2>1, <2>2, <2>3, <2>4, EmptyUntouched
<1>5. ASSUME NEW w \in Worker, NEW h \in Hash, NEW f \in Listening, NEW k \in Key,
             NEW flags \in SUBSET Flag, NEW numwant \in 0..MaxNumwant,
             Announce(w, h, f, k, flags, numwant)
      PROVE  \A x \in Known' : EmptyDue(x)'
  <2>1. UNCHANGED <<sweepDue, sweepNext>>  BY <1>5 DEF Announce, sweep
  <2>2. Known' = Known \cup {h}  BY <1>5 DEF Announce, Known
  <2>3. \A x \in Known \ {h} : torrents'[x] = torrents[x]
    BY <1>5 DEF Announce, Known
  <2>4. ~is_empty(torrents'[h])
    <3>1. f \in Family  BY ListeningAssumption
    <3> QED  BY <1>2, <1>5, <3>1, AnnouncedNotEmpty
  <2>5. EmptyDue(h)'  BY <2>4 DEF EmptyDue
  <2> QED  BY <1>3, <2>1, <2>2, <2>3, <2>5, EmptyUntouched
<1>6. ASSUME GcShard PROVE \A x \in Known' : EmptyDue(x)'
  <2>1. /\ torrents' = [h \in Retained |->
              IF InSweep(h) THEN Expired(torrents[h]) ELSE torrents[h]]
        /\ UNCHANGED <<wall, sweepNow>> /\ sweepNext' = sweepNext + 1
        /\ sweepDue' = IF sweepNext' = SHARD_COUNT
                         THEN wall + GC_INTERVAL_SECS ELSE sweepDue
    BY <1>6 DEF GcShard
  <2>2. Known' = Retained /\ Retained \subseteq Known  BY <2>1 DEF Known, Retained
  <2>3. SUFFICES ASSUME NEW h \in Retained, is_empty(torrents'[h])
                 PROVE  EmptyDue(h)'
    BY <2>2 DEF EmptyDue
  <2> DEFINE E == LastMoment(h)
  <2>4. /\ h \in Known /\ h \in Hash /\ ShardOf[h] \in Int
        /\ ShardOf[h] < SHARD_COUNT
        /\ torrents[h].base \in Nat /\ TorrentInv(torrents[h])
        /\ sweepDue \in Nat /\ sweepNow \in Nat /\ wall \in Nat /\ sweepNext \in Nat
    <3>1. h \in Known /\ h \in Hash  BY <1>2, <2>2 DEF TypeOK
    <3>2. torrents[h].base \in Nat  BY <1>2, <3>1 DEF TypeOK, IsTorrent
    <3> QED  BY <1>2, <3>1, <3>2 DEF TypeOK, StoreInv
  <2>5. torrents'[h].base = torrents[h].base /\ LastMoment(h)' = E
    <3>1. Expired(torrents[h]).base = torrents[h].base
      BY <2>4 DEF Expired, TorrentInv
    <3> QED  BY <2>1, <3>1 DEF LastMoment
  <2>6. E \in Int  BY <2>4, TimesSum DEF LastMoment
  <2>7. Sweeping /\ sweepDue < (sweepNow + 1) * SecsPerMinute
                 /\ wall <= sweepDue + GcLag
    BY <1>2, <1>6 DEF GcShard, SweepInv
  <2>8. ShardOf[h] <= sweepNext => sweepDue < E
    <3>1. CASE InSweep(h)
      <4>1. torrents'[h] = Expired(torrents[h])  BY <2>1, <3>1
      <4>2. ~(Idle(sweepNow, torrents[h].base) >= TORRENT_TIMEOUT_MINUTES)
        BY <2>3, <3>1, <4>1 DEF Retained, Collectable
      <4>3. sweepNow + 1 <= torrents[h].base + TORRENT_TIMEOUT_MINUTES
        BY <2>4, <4>2 DEF Idle
      <4>4. (sweepNow + 1) * SecsPerMinute <= E
        BY <2>4, <4>3, TimesMonotone DEF LastMoment
      <4>5. (sweepNow + 1) * SecsPerMinute \in Int  BY <2>4, TimesSum
      <4> HIDE DEF E
      <4> QED  BY <2>4, <2>6, <2>7, <4>4, <4>5
    <3>2. CASE ShardOf[h] < sweepNext
      <4>1. torrents'[h] = torrents[h]  BY <2>1, <2>4, <3>2 DEF InSweep
      <4> QED  BY <1>3, <2>3, <2>4, <2>6, <2>7, <3>2, <4>1 DEF EmptyDue
    <3> QED  BY <2>4, <3>1, <3>2 DEF InSweep
  <2>9. sweepDue < E + (GC_INTERVAL_SECS + GcLag)
    <3>1. CASE ShardOf[h] <= sweepNext
      <4> HIDE DEF E
      <4> QED  BY <2>4, <2>6, <2>8, <3>1
    <3>2. CASE ~(ShardOf[h] <= sweepNext)
      <4>1. torrents'[h] = torrents[h]  BY <2>1, <2>4, <3>2 DEF InSweep
      <4> QED  BY <1>3, <2>3, <2>4, <3>2, <4>1 DEF EmptyDue
    <3> QED  BY <3>1, <3>2
  <2> HIDE DEF E
  <2>10. CASE sweepNext' = SHARD_COUNT
    <3>1. sweepDue < E  BY <2>1, <2>4, <2>8, <2>10
    <3>2. sweepDue' < E + (GC_INTERVAL_SECS + GcLag)
      BY <2>1, <2>4, <2>6, <2>7, <2>10, <3>1
    <3> QED  BY <2>5, <2>10, <3>2 DEF EmptyDue, Sweeping
  <2>11. CASE sweepNext' # SHARD_COUNT
    <3>1. sweepDue' = sweepDue  BY <2>1, <2>11
    <3>2. ShardOf[h] < sweepNext' => sweepDue' < E
      BY <2>1, <2>4, <2>8, <3>1
    <3> QED  BY <2>1, <2>4, <2>5, <2>6, <2>9, <3>1, <3>2 DEF EmptyDue
  <2> QED  BY <2>10, <2>11
<1>7. ASSUME GcWake PROVE \A x \in Known' : EmptyDue(x)'
  <2>1. /\ UNCHANGED <<torrents, sweepDue>> /\ ~Sweeping /\ sweepNext' = 0
    BY <1>7 DEF GcWake, store
  <2>2. Known' = Known /\ Known \subseteq Hash  BY <1>2, <2>1 DEF Known, TypeOK
  <2>3. \A h \in Hash : ~(ShardOf[h] < 0)  OBVIOUS
  <2> QED  BY <1>3, <2>1, <2>2, <2>3 DEF EmptyDue, LastMoment
<1>8. ASSUME UNCHANGED <<torrents, sweepDue, sweepNext>>
      PROVE  \A x \in Known' : EmptyDue(x)'
  BY <1>3, <1>8, EmptyUntouched DEF Known
<1>9. \A x \in Known' : EmptyDue(x)'
  BY <1>4, <1>5, <1>6, <1>7, <1>8
  DEF Next, Request, Load, Finish, Scrape, ClockTask, Tick, store, sweep, vars
<1> QED  BY <1>1, <1>9 DEF EmptyInv

\* A torrent without peers and without downloads is collected within its timeout,
\* one sleep of gc_task and the lateness of two sweeps of its last request.
THEOREM EmptyTorrentsGo == Spec => []EmptyTorrentGone
<1>1. Init => EmptyInv
  BY InitTimeInv DEF Init, EmptyInv, Known
<1>2. EmptyInv /\ [Next]_vars => EmptyInv'  BY NextEmptyInv
<1>3. EmptyInv => EmptyTorrentGone
  <2> SUFFICES ASSUME EmptyInv, NEW h \in Known, is_empty(torrents[h])
               PROVE  wall < LastMoment(h) + GC_INTERVAL_SECS + 2 * GcLag
    BY DEF EmptyTorrentGone, LastMoment
  <2>1. /\ torrents[h].base \in Nat /\ wall \in Nat /\ sweepDue \in Nat
        /\ wall <= sweepDue + GcLag
    BY DEF EmptyInv, TimeInv, StoreInv, TypeOK, IsTorrent, SweepInv
  <2>2. LastMoment(h) \in Int  BY <2>1, TimesSum, TimeoutAssumption DEF LastMoment
  <2>3. sweepDue < LastMoment(h) + GC_INTERVAL_SECS + GcLag
    BY <2>1, <2>2, TimeoutAssumption, LagAssumption DEF EmptyInv, EmptyDue
  <2> QED  BY <2>1, <2>2, <2>3, TimeoutAssumption, LagAssumption
<1> QED  BY <1>1, <1>2, <1>3, PTL DEF Spec

-----------------------------------------------------------------------------
(***************************************************************************)
(* The store implements the swarm, step by step: every operation under a   *)
(* shard's lock is the operation of the same name on the set of members,   *)
(* a sweep is a lapse of silent ones, and everything else is invisible.    *)
(***************************************************************************)
-----------------------------------------------------------------------------
(* One torrent and the members that stand for its entries *)

Stands(m, p, entry) ==
  /\ m[p].seed = ("SEEDING" \in entry.flags)
  /\ m[p].done = ("COMPLETED" \in entry.flags)

\* The members of h in m are the entries of t.
Reflects(h, t, m) ==
  /\ DOMAIN m \subseteq Peer
  /\ \A f \in Family, k \in Key :
       <<h, f, k>> \in DOMAIN m <=> k \in Registered(t.lists[f])
  /\ \A f \in Family : \A k \in Registered(t.lists[f]) \cap Key :
       Stands(m, <<h, f, k>>, t.lists[f].peers[k])

\* The swarm counts its peers as the store does.
LEMMA SameCardinality ==
  ASSUME NEW S
  PROVE  Promise!Cardinality(S) = Cardinality(S)
BY DEF Promise!Cardinality, Cardinality

\* The peers that keys make in one family of torrent h.
PeersOf(h, f, K) == {<<h, f, k>> : k \in K}

LEMMA KeysAreCounted ==
  ASSUME NEW h, NEW f, NEW K, IsFiniteSet(K)
  PROVE  IsFiniteSet(PeersOf(h, f, K)) /\ Cardinality(PeersOf(h, f, K)) = Cardinality(K)
<1> DEFINE g == [k \in K |-> <<h, f, k>>]
<1>1. g \in Bijection(K, PeersOf(h, f, K))
  BY DEF Bijection, Injection, Surjection, IsInjective, PeersOf
<1>2. ExistsBijection(K, PeersOf(h, f, K))  BY <1>1 DEF ExistsBijection
<1> QED  BY <1>2, FS_Bijection

\* Peers of both families are counted by adding up the two counts.
LEMMA FamiliesAreCounted ==
  ASSUME NEW h, NEW K4, NEW K6, IsFiniteSet(K4), IsFiniteSet(K6)
  PROVE  LET P == PeersOf(h, "v4", K4) \cup PeersOf(h, "v6", K6)
         IN  IsFiniteSet(P) /\ Cardinality(P) = Cardinality(K4) + Cardinality(K6)
<1> DEFINE P4 == PeersOf(h, "v4", K4)
           P6 == PeersOf(h, "v6", K6)
<1>1. /\ IsFiniteSet(P4) /\ Cardinality(P4) = Cardinality(K4)
      /\ IsFiniteSet(P6) /\ Cardinality(P6) = Cardinality(K6)
  BY KeysAreCounted
<1>2. P4 \cap P6 = {}  BY DEF PeersOf
<1>3. Cardinality(P4) \in Nat /\ Cardinality(P6) \in Nat  BY <1>1, FS_CardinalityType
<1>4. /\ IsFiniteSet(P4 \cup P6)
      /\ Cardinality(P4 \cup P6)
           = Cardinality(P4) + Cardinality(P6) - Cardinality(P4 \cap P6)
  BY <1>1, FS_Union
<1>5. Cardinality(P4 \cap P6) = 0  BY <1>2, FS_EmptySet
<1> QED  BY <1>1, <1>3, <1>4, <1>5

LEMMA ReflectedMembers ==
  ASSUME NEW h \in Hash, NEW t, TorrentInv(t), NEW m, Reflects(h, t, m)
  PROVE  LET v4 == t.lists["v4"]
             v6 == t.lists["v6"]
         IN  /\ Promise!In(h, m)
                  = PeersOf(h, "v4", Registered(v4)) \cup PeersOf(h, "v6", Registered(v6))
             /\ Promise!Seeders(h, m)
                  = PeersOf(h, "v4", Having(v4, "SEEDING"))
                      \cup PeersOf(h, "v6", Having(v6, "SEEDING"))
<1> DEFINE v4 == t.lists["v4"]
           v6 == t.lists["v6"]
<1>1. Registered(v4) \subseteq Key /\ Registered(v6) \subseteq Key
  BY DEF TorrentInv, ListInv, IsList, Registered, Family
<1>2. \A p \in DOMAIN m : p[1] = h =>
        \E k \in Key : p = <<h, "v4", k>> \/ p = <<h, "v6", k>>
  BY DEF Reflects, Peer, Family
<1>3. \A k \in Key : /\ <<h, "v4", k>> \in DOMAIN m <=> k \in Registered(v4)
                     /\ <<h, "v6", k>> \in DOMAIN m <=> k \in Registered(v6)
  <2>1. "v4" \in Family /\ "v6" \in Family  BY DEF Family
  <2> QED  BY <2>1 DEF Reflects
<1>4. /\ \A k \in Registered(v4) : m[<<h, "v4", k>>].seed <=> k \in Having(v4, "SEEDING")
      /\ \A k \in Registered(v6) : m[<<h, "v6", k>>].seed <=> k \in Having(v6, "SEEDING")
  BY <1>1 DEF Reflects, Stands, Having, Family
<1>5. /\ Having(v4, "SEEDING") \subseteq Registered(v4)
      /\ Having(v6, "SEEDING") \subseteq Registered(v6)
  BY DEF Having
<1> HIDE DEF v4, v6
<1>6. Promise!In(h, m)
        = PeersOf(h, "v4", Registered(v4)) \cup PeersOf(h, "v6", Registered(v6))
  <2>1. ASSUME NEW p \in Promise!In(h, m)
        PROVE  p \in PeersOf(h, "v4", Registered(v4)) \cup PeersOf(h, "v6", Registered(v6))
    BY <1>2, <1>3 DEF Promise!In, PeersOf
  <2>2. ASSUME NEW K, K \subseteq Key, NEW f, \A k \in K : <<h, f, k>> \in DOMAIN m
        PROVE  PeersOf(h, f, K) \subseteq Promise!In(h, m)
    BY <2>2 DEF Promise!In, PeersOf
  <2>3. /\ PeersOf(h, "v4", Registered(v4)) \subseteq Promise!In(h, m)
        /\ PeersOf(h, "v6", Registered(v6)) \subseteq Promise!In(h, m)
    BY <1>1, <1>3, <2>2
  <2> QED  BY <2>1, <2>3
<1>7. Promise!Seeders(h, m)
        = PeersOf(h, "v4", Having(v4, "SEEDING")) \cup PeersOf(h, "v6", Having(v6, "SEEDING"))
  BY <1>4, <1>5, <1>6 DEF Promise!Seeders, PeersOf
<1> QED  BY <1>6, <1>7 DEF v4, v6

\* The counters of a torrent are the counts of the members it stands for.
LEMMA ReflectedCounts ==
  ASSUME NEW h \in Hash, NEW t, TorrentInv(t), NEW m, Reflects(h, t, m)
  PROVE  Promise!CountsOf(h, m, Completions(t)) = counts(t)
<1> DEFINE v4 == t.lists["v4"]
           v6 == t.lists["v6"]
           I  == Promise!In(h, m)
           S  == Promise!Seeders(h, m)
<1>1. ListInv(v4) /\ ListInv(v6)  BY DEF TorrentInv, Family
<1>2. /\ IsFiniteSet(Registered(v4)) /\ IsFiniteSet(Registered(v6))
      /\ IsFiniteSet(Having(v4, "SEEDING")) /\ IsFiniteSet(Having(v6, "SEEDING"))
      /\ Cardinality(Registered(v4)) \in Nat /\ Cardinality(Registered(v6)) \in Nat
      /\ Cardinality(Having(v4, "SEEDING")) \in Nat
      /\ Cardinality(Having(v6, "SEEDING")) \in Nat
  BY <1>1, HavingFinite DEF ListInv
<1>3. /\ IsFiniteSet(I)
      /\ Cardinality(I) = Cardinality(Registered(v4)) + Cardinality(Registered(v6))
  BY <1>2, ReflectedMembers, FamiliesAreCounted
<1>4. /\ IsFiniteSet(S)
      /\ Cardinality(S) = Cardinality(Having(v4, "SEEDING"))
                            + Cardinality(Having(v6, "SEEDING"))
  BY <1>2, ReflectedMembers, FamiliesAreCounted
<1>5. S \subseteq I  BY DEF Promise!Seeders
<1>6. Cardinality(I \ S) = Cardinality(I) - Cardinality(S)
  <2>1. Cardinality(I \ S) = Cardinality(I) - Cardinality(I \cap S)  BY <1>3, FS_Difference
  <2>2. I \cap S = S  BY <1>5
  <2> QED  BY <2>1, <2>2
<1>7. /\ v4.seeders = Cardinality(Having(v4, "SEEDING"))
      /\ v6.seeders = Cardinality(Having(v6, "SEEDING"))
  BY <1>1 DEF ListInv
<1>8. Promise!CountsOf(h, m, Completions(t))
        = [complete |-> AsU32(Cardinality(S)), incomplete |-> AsU32(Cardinality(I \ S)),
           downloaded |-> AsU32(Completions(t))]
  BY SameCardinality DEF Promise!CountsOf, Promise!Shown, AsU32
<1>9. counts(t) = [complete |-> AsU32(v4.seeders + v6.seeders),
                   incomplete |-> AsU32(leechers(v4) + leechers(v6)),
                   downloaded |-> AsU32(Completions(t))]
  BY DEF counts
<1> HIDE DEF v4, v6, I, S
<1>10. /\ Cardinality(S) = v4.seeders + v6.seeders
       /\ Cardinality(I \ S) = leechers(v4) + leechers(v6)
  BY <1>2, <1>3, <1>4, <1>6, <1>7 DEF leechers
<1> QED  BY <1>8, <1>9, <1>10

\* Every set of peers that write_compact may return is one the swarm may offer.
LEMMA ReflectedOffers ==
  ASSUME NEW h \in Hash, NEW t, TorrentInv(t), NEW m, Reflects(h, t, m),
         NEW f \in Family, NEW numwant \in Nat, NEW S \in write_compact(t.lists[f], numwant)
  PROVE  S \in Promise!Offers(h, f, m, numwant)
<1> DEFINE l     == t.lists[f]
           there == {p[3] : p \in {q \in Promise!In(h, m) : q[2] = f}}
           seeds == {p[3] : p \in {q \in Promise!Seeders(h, m) : q[2] = f}}
<1>1. ListInv(l) /\ IsFiniteSet(Registered(l)) /\ Cardinality(Registered(l)) \in Nat
  BY HavingFinite DEF TorrentInv, ListInv
<1>2. \A k : /\ k \in Registered(l) <=> \E p \in Promise!In(h, m) : p[2] = f /\ p[3] = k
             /\ k \in Having(l, "SEEDING")
                  <=> \E p \in Promise!Seeders(h, m) : p[2] = f /\ p[3] = k
  <2>1. ASSUME NEW K, NEW g
        PROVE  /\ \A k \in K : <<h, g, k>> \in PeersOf(h, g, K)
               /\ \A p \in PeersOf(h, g, K) : p[2] = g /\ p[3] \in K
    BY DEF PeersOf
  <2>2. \A k : <<h, f, k>>[2] = f /\ <<h, f, k>>[3] = k  OBVIOUS
  <2>3. ASSUME NEW K4, NEW K6, NEW k
        PROVE  (\E p \in PeersOf(h, "v4", K4) \cup PeersOf(h, "v6", K6) : p[2] = f /\ p[3] = k)
                 <=> (f = "v4" /\ k \in K4) \/ (f = "v6" /\ k \in K6)
    <3>1. /\ \A p \in PeersOf(h, "v4", K4) : p[2] = "v4" /\ p[3] \in K4
          /\ \A p \in PeersOf(h, "v6", K6) : p[2] = "v6" /\ p[3] \in K6
      BY <2>1
    <3>2. /\ k \in K4 => <<h, "v4", k>> \in PeersOf(h, "v4", K4)
          /\ k \in K6 => <<h, "v6", k>> \in PeersOf(h, "v6", K6)
      BY <2>1
    <3>3. CASE f = "v4"  BY <2>2, <3>1, <3>2, <3>3
    <3>4. CASE f = "v6"  BY <2>2, <3>1, <3>2, <3>4
    <3> QED  BY <3>3, <3>4 DEF Family
  <2>4. CASE f = "v4"  BY <2>3, <2>4, ReflectedMembers
  <2>5. CASE f = "v6"  BY <2>3, <2>5, ReflectedMembers
  <2> QED  BY <2>4, <2>5 DEF Family
<1>3. there = Registered(l) /\ seeds = Having(l, "SEEDING")  BY <1>2
<1>4. /\ S \subseteq Registered(l)
      /\ Cardinality(S) = IF numwant < Cardinality(Registered(l))
                          THEN numwant ELSE Cardinality(Registered(l))
      /\ \/ S \cap Having(l, "SEEDING") = {}
         \/ Registered(l) \ Having(l, "SEEDING") \subseteq S
  BY DEF write_compact
<1>5. Cardinality(S) <= numwant  BY <1>1, <1>4
<1>6. S = Registered(l) \/ Cardinality(S) = numwant
  <2>1. CASE numwant < Cardinality(Registered(l))  BY <1>4, <2>1
  <2>2. CASE ~(numwant < Cardinality(Registered(l)))
    <3>1. Cardinality(S) = Cardinality(Registered(l))  BY <1>4, <2>2
    <3> QED  BY <1>1, <1>4, <3>1, FS_Subset
  <2> QED  BY <2>1, <2>2
<1> HIDE DEF there, seeds, l
<1>7. S \in {T \in SUBSET there : /\ Cardinality(T) <= numwant
                                  /\ T = there \/ Cardinality(T) = numwant
                                  /\ T \cap seeds # {} => there \ seeds \subseteq T}
  BY <1>3, <1>4, <1>5, <1>6
<1> QED  BY <1>7, SameCardinality DEF Promise!Offers, there, seeds

-----------------------------------------------------------------------------
(* The refinement mapping *)

Mirrored == \A h \in Hash : Reflects(h, TorrentOf(h), MembersBar)

LEMMA BarReflects == Mirrored
<1> SUFFICES ASSUME NEW h \in Hash PROVE Reflects(h, TorrentOf(h), MembersBar)
  BY DEF Mirrored
<1>1. DOMAIN MembersBar = Members /\ Members \subseteq Peer  BY DEF MembersBar, Members
<1>2. ASSUME NEW f \in Family, NEW k \in Key
      PROVE  /\ <<h, f, k>> \in Members <=> k \in Registered(TorrentOf(h).lists[f])
             /\ <<h, f, k>> \in Members => h \in Known
  <2>1. h \notin Known => Registered(TorrentOf(h).lists[f]) = {}
    BY DEF TorrentOf, NewTorrent, NewList, Registered
  <2> QED  BY <2>1, MembersDef DEF TorrentOf
<1>3. ASSUME NEW f \in Family, NEW k \in Registered(TorrentOf(h).lists[f]) \cap Key
      PROVE  Stands(MembersBar, <<h, f, k>>, TorrentOf(h).lists[f].peers[k])
  <2>1. <<h, f, k>> \in Members /\ h \in Known  BY <1>2, <1>3
  <2>2. EntryOf(<<h, f, k>>) = TorrentOf(h).lists[f].peers[k]
    BY <2>1 DEF EntryOf, TorrentOf
  <2> QED  BY <2>1, <2>2 DEF Stands, MembersBar
<1> QED  BY <1>1, <1>2, <1>3 DEF Reflects

\* What the mapping makes of a member depends on its entry and its last announce.
LEMMA BarOfMember ==
  ASSUME NEW r \in Members
  PROVE  /\ r \in DOMAIN MembersBar
         /\ MembersBar[r] = [seed |-> "SEEDING" \in EntryOf(r).flags,
                             done |-> "COMPLETED" \in EntryOf(r).flags,
                             at   |-> heard[r]]
BY DEF MembersBar

\* Nothing is seen of a step that leaves the torrents and the history alone.
LEMMA BarUnchanged ==
  ASSUME UNCHANGED <<torrents, heard>>
  PROVE  MembersBar' = MembersBar /\ DownloadsBar' = DownloadsBar
<1>1. Known' = Known  BY DEF Known
<1>2. Members' = Members  BY <1>1 DEF Members
<1>3. \A r : EntryOf(r)' = EntryOf(r)  BY DEF EntryOf
<1>4. \A h : TorrentOf(h)' = TorrentOf(h)  BY <1>1 DEF TorrentOf
<1>5. \A h : Downloads(h)' = Downloads(h)  BY <1>4 DEF Downloads
<1> QED  BY <1>2, <1>3, <1>5 DEF MembersBar, DownloadsBar

\* Members that stay as they are are mapped as they were.
LEMMA BarRestricted ==
  ASSUME NEW P, Members' = Members \ P, UNCHANGED heard,
         \A r \in Members' : EntryOf(r)' = EntryOf(r)
  PROVE  MembersBar' = Promise!Without(MembersBar, P)
<1>1. DOMAIN MembersBar = Members  BY DEF MembersBar
<1>2. MembersBar' = [r \in Members \ P |->
        [seed |-> "SEEDING" \in EntryOf(r).flags,
         done |-> "COMPLETED" \in EntryOf(r).flags, at |-> heard[r]]]
  BY DEF MembersBar
<1>3. \A r \in Members \ P : MembersBar[r] =
        [seed |-> "SEEDING" \in EntryOf(r).flags,
         done |-> "COMPLETED" \in EntryOf(r).flags, at |-> heard[r]]
  BY BarOfMember
<1> QED  BY <1>1, <1>2, <1>3 DEF Promise!Without

-----------------------------------------------------------------------------
(* Replies *)

\* The counts a torrent gives, before a step and after it, are those of its members.
LEMMA CountsBefore ==
  ASSUME StoreInv, NEW h \in Hash
  PROVE  Promise!CountsOf(h, MembersBar, DownloadsBar[h]) = counts(TorrentOf(h))
<1>1. TorrentInv(TorrentOf(h))  BY TorrentOfInv
<1>2. DownloadsBar[h] = Completions(TorrentOf(h))  BY DEF DownloadsBar, Downloads
<1> QED  BY <1>1, <1>2, BarReflects, ReflectedCounts DEF Mirrored

LEMMA CountsAfter ==
  ASSUME StoreInv', NEW h \in Hash
  PROVE  /\ Promise!CountsOf(h, MembersBar', DownloadsBar'[h]) = counts(TorrentOf(h)')
         /\ \A f \in Family, numwant \in Nat :
              write_compact(TorrentOf(h)'.lists[f], numwant)
                \subseteq Promise!Offers(h, f, MembersBar', numwant)
<1>1. TorrentInv(TorrentOf(h)')
  BY NewTorrentInv DEF TorrentOf, StoreInv
<1>2. DownloadsBar'[h] = Completions(TorrentOf(h)')  BY DEF DownloadsBar, Downloads
<1>3. Mirrored'  BY BarReflects, PTL
<1>4. Reflects(h, TorrentOf(h)', MembersBar')  BY <1>3 DEF Mirrored
<1> QED  BY <1>1, <1>2, <1>4, ReflectedCounts, ReflectedOffers

-----------------------------------------------------------------------------
(* The steps *)

LEMMA ScrapeAsks ==
  ASSUME StoreInv, NEW w \in Worker, NEW h \in Hash, Scrape(w, h)
  PROVE  Promise!Ask(h)
<1>1. UNCHANGED <<wall, torrents, heard>>  BY DEF Scrape
<1>2. MembersBar' = MembersBar /\ DownloadsBar' = DownloadsBar  BY <1>1, BarUnchanged
<1>3. counts(NewTorrent) = NoCounts
  BY FS_EmptySet, AsU32Zero
  DEF counts, Completions, NewTorrent, NewList, leechers, Registered, NoCounts, Family
<1>4. reply' = [counts |-> counts(TorrentOf(h)), peers |-> {}]
  BY <1>3 DEF Scrape, TorrentOf
<1>5. reply' = [counts |-> Promise!CountsOf(h, MembersBar, DownloadsBar[h]), peers |-> {}]
  BY <1>4, CountsBefore
<1> QED  BY <1>1, <1>2, <1>5 DEF Promise!Ask

LEMMA RemoveLeaves ==
  ASSUME StoreInv, StoreInv', NEW w \in Worker, NEW h \in Hash, NEW f \in Family,
         NEW k \in Key, Remove(w, h, f, k)
  PROVE  Promise!Leave(<<h, f, k>>)
<1> DEFINE p == <<h, f, k>>
           m == remove(torrents[h].lists[f], k)
           t == WithList(torrents[h], f, m, Minutes(held[w]))
<1>1. /\ Members' = Members \ {p}
      /\ \A r \in Members' : EntryOf(r)' = EntryOf(r)
  BY RemoveMembers
<1>2. UNCHANGED <<heard, wall>>  BY DEF Remove
<1>3. MembersBar' = Promise!Without(MembersBar, {p})  BY <1>1, <1>2, BarRestricted
<1>4. /\ \A x \in Hash : Downloads(x)' = Downloads(x)
      /\ reply' = [counts |-> counts(TorrentOf(h)'), peers |-> {}]
  <2>1. CASE /\ h \in Known /\ torrents' = [torrents EXCEPT ![h] = t]
             /\ reply' = [counts |-> counts(t), peers |-> {}]
    <3>1. TorrentInv(torrents[h])  BY <2>1 DEF StoreInv
    <3>2. \A g \in Family : t.lists[g] = IF g = f THEN m ELSE torrents[h].lists[g]
      BY <3>1 DEF WithList, TorrentInv
    <3>3. m.downloaded = torrents[h].lists[f].downloaded  BY DEF remove
    <3> HIDE DEF m
    <3>4. Completions(t) = Completions(torrents[h])
      BY <3>2, <3>3 DEF Completions, Family
    <3> HIDE DEF t
    <3>5. torrents' = [x \in Known |-> IF x = h THEN t ELSE torrents[x]]
      BY <2>1 DEF StoreInv, TypeOK, Known
    <3>6. \A x : TorrentOf(x)' = IF x = h THEN t ELSE TorrentOf(x)
      BY <2>1, <3>5 DEF TorrentOf, Known
    <3> QED  BY <2>1, <3>4, <3>6 DEF Downloads, TorrentOf
  <2>2. CASE /\ h \notin Known /\ UNCHANGED torrents
             /\ reply' = [counts |-> NoCounts, peers |-> {}]
    <3>1. \A x : TorrentOf(x)' = TorrentOf(x)  BY <2>2 DEF TorrentOf, Known
    <3>2. counts(NewTorrent) = NoCounts
      BY FS_EmptySet, AsU32Zero
      DEF counts, Completions, NewTorrent, NewList, leechers, Registered, NoCounts, Family
    <3> QED  BY <2>2, <3>1, <3>2 DEF Downloads, TorrentOf
  <2> QED  BY <2>1, <2>2 DEF Remove
<1>5. DownloadsBar' = DownloadsBar  BY <1>4 DEF DownloadsBar
<1>6. Promise!CountsOf(h, MembersBar', DownloadsBar'[h]) = counts(TorrentOf(h)')
  BY CountsAfter
<1>7. reply' = [counts |-> Promise!CountsOf(h, MembersBar', DownloadsBar[h]), peers |-> {}]
  BY <1>4, <1>5, <1>6
<1>8. p[1] = h  OBVIOUS
<1> HIDE DEF p
<1>9. Promise!Leave(p)  BY <1>2, <1>3, <1>5, <1>7, <1>8 DEF Promise!Leave
<1> QED  BY <1>9 DEF p

\* Collecting a torrent is not seen, dropping stale entries is a lapse.
LEMMA GcShardLapses ==
  ASSUME TimeInv, GcShard
  PROVE  Promise!Lapse
<1> DEFINE P == Members \ Members'
<1>1. StoreInv  BY DEF TimeInv
<1>2. /\ Members' \subseteq Members
      /\ \A r \in Members' : EntryOf(r)' = EntryOf(r)
  BY <1>1, GcShardMembers
<1>3. UNCHANGED <<reply, heard, wall, held>>  BY DEF GcShard
<1>4. Members' = Members \ P  BY <1>2
<1>5. MembersBar' = Promise!Without(MembersBar, P)
  <2> HIDE DEF P
  <2> QED  BY <1>2, <1>3, <1>4, BarRestricted
<1>6. \A r \in P : wall - heard[r] > FreshFor
  BY DroppedIsStale
<1>7. ASSUME NEW h \in Hash PROVE Downloads(h)' = Downloads(h)
  <2>1. torrents' = [g \in Retained |->
          IF InSweep(g) THEN Expired(torrents[g]) ELSE torrents[g]]
    BY DEF GcShard
  <2>2. Known' = Retained /\ Retained \subseteq Known  BY <2>1 DEF Known, Retained
  <2>3. CASE h \in Retained
    <3>1. TorrentInv(torrents[h])  BY <1>1, <2>2, <2>3 DEF StoreInv
    <3>2. TorrentOf(h)' = IF InSweep(h) THEN Expired(torrents[h]) ELSE torrents[h]
      BY <2>1, <2>2, <2>3 DEF TorrentOf
    <3>3. TorrentOf(h) = torrents[h]  BY <2>2, <2>3 DEF TorrentOf
    <3> QED  BY <3>1, <3>2, <3>3, ExpiredDownloads DEF Downloads
  <2>4. CASE h \in Known \ Retained
    <3>1. TorrentInv(torrents[h]) /\ Collectable(torrents[h])
      BY <1>1, <2>4 DEF StoreInv, Retained
    <3>2. Downloads(h) = 0  BY <2>4, <3>1, ExpiredDownloads DEF Downloads, TorrentOf
    <3>3. TorrentOf(h)' = NewTorrent  BY <2>2, <2>4 DEF TorrentOf
    <3>4. Completions(NewTorrent) = 0  BY DEF Completions, NewTorrent, NewList, Family
    <3> QED  BY <3>2, <3>3, <3>4 DEF Downloads
  <2>5. CASE h \notin Known
    BY <2>2, <2>5 DEF TorrentOf, Downloads
  <2> QED  BY <2>3, <2>4, <2>5
<1>8. DownloadsBar' = DownloadsBar  BY <1>7 DEF DownloadsBar
<1>9. P \in SUBSET {r \in DOMAIN MembersBar : wall - MembersBar[r].at > FreshFor}
  <2>1. DOMAIN MembersBar = Members  BY DEF MembersBar
  <2>2. \A r \in Members : MembersBar[r].at = heard[r]  BY DEF MembersBar
  <2> QED  BY <1>6, <2>1, <2>2
<1> HIDE DEF P
<1> QED  BY <1>3, <1>5, <1>8, <1>9 DEF Promise!Lapse

\* The entry an announce writes: the mark it says, and a download that is
\* remembered or is counted now.
LEMMA AnnouncedEntry ==
  ASSUME StoreInv, NEW w \in Worker, NEW h \in Hash, NEW f \in Family, NEW k \in Key,
         NEW flags \in SUBSET Flag, NEW numwant,
         Announce(w, h, f, k, flags, numwant)
  PROVE  LET p     == <<h, f, k>>
             was   == p \in Members /\ "COMPLETED" \in EntryOf(p).flags
             newly == "SEEDING" \in flags /\ "COMPLETED" \in flags /\ ~was
             t     == TorrentOf(h)'
         IN  /\ "SEEDING" \in EntryOf(p)'.flags <=> "SEEDING" \in flags
             /\ "COMPLETED" \in EntryOf(p)'.flags <=> was \/ newly
             /\ Completions(t) = Downloads(h) + (IF newly THEN 1 ELSE 0)
             /\ \A x \in Hash \ {h} : Downloads(x)' = Downloads(x)
             /\ \E S \in write_compact(t.lists[f], numwant) :
                  reply' = [counts |-> counts(t), peers |-> S]
<1> DEFINE p     == <<h, f, k>>
           was   == p \in Members /\ "COMPLETED" \in EntryOf(p).flags
           newly == "SEEDING" \in flags /\ "COMPLETED" \in flags /\ ~was
           before == TorrentOf(h)
           old   == OldFlags(before.lists[f], k)
           l     == announce(before.lists[f], k, flags, Minutes(held[w]))
           t     == WithList(before, f, l, Minutes(held[w]))
<1>1. TorrentInv(before)  BY TorrentOfInv
<1>2. \A g \in Family : t.lists[g] = IF g = f THEN l ELSE before.lists[g]
  BY <1>1 DEF WithList, TorrentInv
<1>3. torrents' = [x \in Known \cup {h} |-> IF x = h THEN t ELSE torrents[x]]
  BY DEF Announce
<1>4. \E S \in write_compact(l, numwant) : reply' = [counts |-> counts(t), peers |-> S]
  BY DEF Announce
<1>5. \A g \in Flag : g \in old <=> p \in Members /\ g \in EntryOf(p).flags
  <2>1. p \in Members <=> h \in Known /\ k \in Registered(torrents[h].lists[f])
    BY MembersDef
  <2>2. h \notin Known => Registered(before.lists[f]) = {}
    BY DEF TorrentOf, NewTorrent, NewList, Registered
  <2> QED  BY <2>1, <2>2 DEF OldFlags, EntryOf, TorrentOf
<1>6. l.peers[k].flags = Sanitised(flags) \cup (old \cap {"COMPLETED"})
  BY AnnounceEntries
<1>7. l.downloaded = DownloadedAfter(before.lists[f], old, Sanitised(flags))
  BY AnnounceCounters
<1>8. /\ "SEEDING" \in Sanitised(flags) <=> "SEEDING" \in flags
      /\ "COMPLETED" \in Sanitised(flags) <=> "SEEDING" \in flags /\ "COMPLETED" \in flags
  BY DEF Sanitised
<1>9. \A g \in Family : before.lists[g].downloaded \in Nat  BY <1>1, DownloadsNat
<1> HIDE DEF t, l, before
<1>10. /\ TorrentOf(h)' = t
       /\ \A x : x # h => TorrentOf(x)' = TorrentOf(x)
       /\ EntryOf(p)' = l.peers[k]
  BY <1>2, <1>3 DEF TorrentOf, Known, EntryOf
<1>11. was <=> "COMPLETED" \in old  BY <1>5 DEF Flag
<1> HIDE DEF was, old, p
<1>12. /\ "SEEDING" \in EntryOf(p)'.flags <=> "SEEDING" \in flags
       /\ "COMPLETED" \in EntryOf(p)'.flags <=> was \/ newly
  BY <1>6, <1>8, <1>10, <1>11
<1>13. Completions(t) = Completions(before) + (IF newly THEN 1 ELSE 0)
  <2>1. l.downloaded = before.lists[f].downloaded + (IF newly THEN 1 ELSE 0)
    BY <1>7, <1>8, <1>9, <1>11 DEF DownloadedAfter
  <2> HIDE DEF newly
  <2> QED  BY <1>2, <1>9, <2>1 DEF Completions, Family
<1>14. \A x \in Hash \ {h} : Downloads(x)' = Downloads(x)  BY <1>10 DEF Downloads
<1>15. \E S \in write_compact(TorrentOf(h)'.lists[f], numwant) :
         reply' = [counts |-> counts(TorrentOf(h)'), peers |-> S]
  BY <1>2, <1>4, <1>10
<1> QED  BY <1>10, <1>12, <1>13, <1>14, <1>15 DEF p, was, before, Downloads

LEMMA AnnounceAnnounces ==
  ASSUME StoreInv, StoreInv', NEW w \in Worker, NEW h \in Hash, NEW f \in Family,
         NEW k \in Key, NEW flags \in SUBSET Flag, NEW numwant \in 0..MaxNumwant,
         Announce(w, h, f, k, flags, numwant)
  PROVE  Promise!Announce(<<h, f, k>>, "SEEDING" \in flags, "COMPLETED" \in flags, numwant)
<1> DEFINE p     == <<h, f, k>>
           seed  == "SEEDING" \in flags
           completed == "COMPLETED" \in flags
           m     == MembersBar
           was   == p \in DOMAIN m /\ m[p].done
           newly == seed /\ completed /\ ~was
           entry == [seed |-> seed, done |-> was \/ newly, at |-> wall]
           after == [q \in DOMAIN m \cup {p} |-> IF q = p THEN entry ELSE m[q]]
           n     == DownloadsBar[h] + (IF newly THEN 1 ELSE 0)
<1>1. was <=> p \in Members /\ "COMPLETED" \in EntryOf(p).flags  BY DEF MembersBar
<1>2. /\ "SEEDING" \in EntryOf(p)'.flags <=> seed
      /\ "COMPLETED" \in EntryOf(p)'.flags <=> was \/ newly
      /\ Completions(TorrentOf(h)') = Downloads(h) + (IF newly THEN 1 ELSE 0)
      /\ \A x \in Hash \ {h} : Downloads(x)' = Downloads(x)
      /\ \E S \in write_compact(TorrentOf(h)'.lists[f], numwant) :
           reply' = [counts |-> counts(TorrentOf(h)'), peers |-> S]
  <2> HIDE DEF was
  <2> QED  BY <1>1, AnnouncedEntry
<1>3. /\ Members' = Members \cup {p}
      /\ \A r \in Members' \ {p} : EntryOf(r)' = EntryOf(r)
  BY AnnounceMembers
<1>4. heard' = [heard EXCEPT ![p] = wall] /\ UNCHANGED wall  BY DEF Announce
<1>5. /\ heard'[p] = wall
      /\ \A r \in Members' \ {p} : heard'[r] = heard[r]
  BY <1>4 DEF StoreInv, TypeOK, Peer, Members
<1>6. MembersBar' = after
  <2>1. DOMAIN MembersBar = Members  BY DEF MembersBar
  <2>2. MembersBar' = [r \in Members \cup {p} |->
          [seed |-> "SEEDING" \in EntryOf(r)'.flags,
           done |-> "COMPLETED" \in EntryOf(r)'.flags, at |-> heard'[r]]]
    BY <1>3 DEF MembersBar
  <2>3. [seed |-> "SEEDING" \in EntryOf(p)'.flags,
         done |-> "COMPLETED" \in EntryOf(p)'.flags, at |-> heard'[p]] = entry
    BY <1>2, <1>5
  <2>4. \A r \in Members \ {p} :
          MembersBar[r] = [seed |-> "SEEDING" \in EntryOf(r)'.flags,
                           done |-> "COMPLETED" \in EntryOf(r)'.flags, at |-> heard'[r]]
    BY <1>3, <1>5, BarOfMember
  <2> HIDE DEF entry
  <2> QED  BY <2>1, <2>2, <2>3, <2>4
<1>7. DownloadsBar' = [DownloadsBar EXCEPT ![h] = n]
  <2>1. Downloads(h)' = n  BY <1>2 DEF Downloads, DownloadsBar
  <2> HIDE DEF n
  <2>2. DownloadsBar' = [x \in Hash |-> IF x = h THEN n ELSE DownloadsBar[x]]
    BY <1>2, <2>1 DEF DownloadsBar
  <2> QED  BY <2>2 DEF DownloadsBar
<1>8. DownloadsBar'[h] = n  BY <1>7 DEF DownloadsBar
<1>9. \E S \in Promise!Offers(h, f, after, numwant) :
        reply' = [counts |-> Promise!CountsOf(h, after, n), peers |-> S]
  <2>1. Promise!CountsOf(h, MembersBar', DownloadsBar'[h]) = counts(TorrentOf(h)')
    BY CountsAfter
  <2>2. write_compact(TorrentOf(h)'.lists[f], numwant)
          \subseteq Promise!Offers(h, f, MembersBar', numwant)
    BY BoundAssumption, CountsAfter
  <2> HIDE DEF after, n
  <2> QED  BY <1>2, <1>6, <1>8, <2>1, <2>2
<1>10. p[1] = h /\ p[2] = f  OBVIOUS
<1> HIDE DEF p
<1>11. Promise!Announce(p, seed, completed, numwant)
  BY <1>4, <1>6, <1>7, <1>9, <1>10 DEF Promise!Announce
<1> QED  BY <1>11 DEF p

-----------------------------------------------------------------------------
LEMMA InitPromises == Init => Promise!Init
<1> SUFFICES ASSUME Init PROVE Promise!Init  OBVIOUS
<1>1. Known = {} /\ Members = {}  BY DEF Init, Known, Members
<1>2. MembersBar = <<>>  BY <1>1 DEF MembersBar
<1>3. \A h \in Hash : Downloads(h) = 0
  BY <1>1 DEF Downloads, TorrentOf, NewTorrent, NewList, Completions, Family
<1>4. DownloadsBar = [h \in Hash |-> 0]  BY <1>3 DEF DownloadsBar
<1> QED
  BY <1>2, <1>4 DEF Init, Promise!Init, Promise!NoAnswer, NoCounts

LEMMA NextPromises ==
  ASSUME TimeInv, TimeInv', [Next]_vars
  PROVE  [Promise!Next]_(Promise!swarm)
<1>1. StoreInv /\ StoreInv'  BY DEF TimeInv
<1>2. \A h \in Hash, f \in Family, k \in Key : <<h, f, k>> \in Promise!Peer
  BY DEF Promise!Peer
<1>3. ASSUME NEW w \in Worker, NEW h \in Hash, Scrape(w, h) PROVE Promise!Next
  BY <1>1, <1>3, ScrapeAsks DEF Promise!Next
<1>4. ASSUME NEW w \in Worker, NEW h \in Hash, NEW f \in Listening, NEW k \in Key,
             Remove(w, h, f, k)
      PROVE  Promise!Next
  <2>1. f \in Family  BY ListeningAssumption
  <2> QED  BY <1>1, <1>2, <1>4, <2>1, RemoveLeaves DEF Promise!Next
<1>5. ASSUME NEW w \in Worker, NEW h \in Hash, NEW f \in Listening, NEW k \in Key,
             NEW flags \in SUBSET Flag, NEW numwant \in 0..MaxNumwant,
             Announce(w, h, f, k, flags, numwant)
      PROVE  Promise!Next
  <2>1. f \in Family  BY ListeningAssumption
  <2>2. Promise!Announce(<<h, f, k>>, "SEEDING" \in flags, "COMPLETED" \in flags, numwant)
    BY <1>1, <1>5, <2>1, AnnounceAnnounces
  <2>3. ("SEEDING" \in flags) \in BOOLEAN /\ ("COMPLETED" \in flags) \in BOOLEAN  OBVIOUS
  <2> QED  BY <1>2, <2>1, <2>2, <2>3 DEF Promise!Next
<1>6. ASSUME GcShard PROVE Promise!Next
  BY <1>6, GcShardLapses DEF Promise!Next
<1>7. ASSUME Tick PROVE Promise!Next
  <2>1. UNCHANGED <<torrents, reply, heard>> /\ wall' = wall + 1
    BY <1>7 DEF Tick, store
  <2>2. Promise!Tick  BY <2>1, BarUnchanged DEF Promise!Tick
  <2> QED  BY <2>2 DEF Promise!Next
<1>8. ASSUME UNCHANGED <<torrents, reply, heard, wall>> PROVE UNCHANGED Promise!swarm
  BY <1>8, BarUnchanged DEF Promise!swarm
<1>9. ASSUME \/ \E w \in Worker : Load(w) \/ Finish(w)
             \/ GcWake \/ ClockTask \/ UNCHANGED vars
      PROVE  UNCHANGED <<torrents, reply, heard, wall>>
  BY <1>9 DEF Load, Finish, GcWake, ClockTask, vars, store
<1> QED
  BY <1>3, <1>4, <1>5, <1>6, <1>7, <1>8, <1>9 DEF Next, Request

\* Whatever is asked of the store, by however many workers, and whenever the
\* sweep runs, each reply and each change of its lists is one that a plain set
\* of peers, from which only silent ones lapse, could have given.
THEOREM StoreImplementsSwarm == Spec => ImplementsSwarm
<1>1. Init => Promise!Init  BY InitPromises
<1>2. TimeInv /\ TimeInv' /\ [Next]_vars => [Promise!Next]_(Promise!swarm)
  BY NextPromises
<1> QED  BY <1>1, <1>2, TimeInvariant, PTL DEF Spec, ImplementsSwarm, Promise!Spec
=============================================================================
