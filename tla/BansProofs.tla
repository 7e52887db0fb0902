------------------------------- MODULE BansProofs -------------------------------
(***************************************************************************)
(* Type correctness of Bans, and that a written ban keeps its source out   *)
(* for as long as it is worth, for any number of sources, tiers and pool   *)
(* threads.                                                                *)
(***************************************************************************)
EXTENDS Bans, TLAPS

\* The address under which the kernel sees a host's packets.
Plain(host) == [host |-> host, form |-> IF host \in Host4 THEN "v4" ELSE "v6"]

\* A job carries such an address, and the tier its offences have earned.
JobsRanked ==
  \A t \in Busy :
    /\ jobs[t].addr = Plain(jobs[t].addr.host)
    /\ jobs[t].tier = Tier(jobs[t].offenses)

\* Some element of the host outlasts what the host was promised.
Outlasted ==
  \A h \in Host : promised[h] > 0 =>
    \E set \in Range(SetsFor(h)) : elements[set][Plain(h)] >= promised[h]

BanInvariant == TypeOK /\ JobsRanked /\ Outlasted

-----------------------------------------------------------------------------
\* Small facts of the operators.
LEMMA PeersCanonical ==
  ASSUME NEW peer \in Peer
  PROVE  /\ canonical_ip(peer) \in Addr
         /\ canonical_ip(peer) = Plain(canonical_ip(peer).host)
  BY HostAssumption DEF Peer, Addr, Host, canonical_ip, Plain

LEMMA TierIsNat ==
  ASSUME NEW n \in 1..U32_MAX
  PROVE  Tier(n) \in Nat
  BY TierAssumption DEF Tier, Least, Sub

LEMMA OffencesCounted ==
  ASSUME TypeOK, NEW a \in Addr
  PROVE  Offences(a) \in 1..U32_MAX
  BY TierAssumption DEF TypeOK, Offences, Least

LEMMA SetsAreStrings ==
  ASSUME NEW h \in Host
  PROVE  /\ SetsFor(h) \in Seq(STRING)
         /\ Range(SetsFor(h)) \subseteq AllSets
         /\ Range(SetsFor(h)) = IF h \in Host4 THEN Sets4 ELSE Sets6
  BY SetsAssumption DEF SetsFor, AllSets, Sets4, Sets6

LEMMA TargetOfHost ==
  ASSUME NEW h \in Host, NEW tier \in Nat
  PROVE  Target(Plain(h), tier) = tier_set(SetsFor(h), tier)
  BY DEF Target, Plain, SetsFor

\* The sink writes to one of the family's sets.
LEMMA TargetListed ==
  ASSUME NEW h \in Host, NEW tier \in Nat, NEW set \in tier_set(SetsFor(h), tier)
  PROVE  /\ set \in Range(SetsFor(h))
         /\ Len(SetsFor(h)) \in Nat \ {0}
         /\ set = SetsFor(h)[Least(tier, Len(SetsFor(h)) - 1) + 1]
<1> DEFINE sets == SetsFor(h)
<1>1. sets \in Seq(STRING)
  BY SetsAreStrings
<1>2. sets # <<>> /\ set = sets[Least(tier, Len(sets) - 1) + 1]
  BY DEF tier_set
<1>3. Len(sets) \in Nat \ {0}
  BY <1>1, <1>2
<1>4. Least(tier, Len(sets) - 1) + 1 \in 1..Len(sets)
  BY <1>3 DEF Least
<1>5. DOMAIN sets = 1..Len(sets)
  BY <1>1
<1> QED
  BY <1>2, <1>3, <1>4, <1>5 DEF Range

\* No ban is worth more than its set's timeout: this is where the sets have to
\* be listed shortest-lived first.
LEMMA WorthIsHeld ==
  ASSUME NEW h \in Host, NEW n \in 1..U32_MAX,
         NEW set \in tier_set(SetsFor(h), Tier(n)), set \in DOMAIN Timeout,
         NEW k \in Worth(h, n)
  PROVE  k <= Timeout[set]
<1> DEFINE sets == SetsFor(h)
           last == Least(Tier(n), Len(sets) - 1) + 1
<1>1. PICK i \in 1..Len(sets) : /\ i <= n /\ i <= ban_tiers
                                /\ sets[i] \in DOMAIN Timeout
                                /\ k = Timeout[sets[i]]
  BY DEF Worth
<1>2. Tier(n) \in Nat
  BY TierIsNat
<1>3. Len(sets) \in Nat \ {0} /\ set = sets[last]
  BY <1>2, TargetListed
<1>4. last \in 1..Len(sets) /\ i <= last
  BY <1>1, <1>2, <1>3, TierAssumption DEF Least, Tier, Sub
<1>5. sets \in {nft_set4, nft_set6}
  BY DEF SetsFor
<1> QED
  BY <1>1, <1>3, <1>4, <1>5, OrderAssumption

LEMMA WorthIsNat ==
  ASSUME NEW h \in Host, NEW n \in Nat
  PROVE  Worth(h, n) \subseteq Nat
  BY SetsAssumption DEF Worth

-----------------------------------------------------------------------------
LEMMA InitInvariant == Init => BanInvariant
  BY TierAssumption
  DEF Init, BanInvariant, TypeOK, JobsRanked, Outlasted, Busy, Job, Peer

\* An element does not leave before its time, and none is shortened.
LEMMA AddingKeeps ==
  ASSUME TypeOK, NEW set \in AllSets, set \in DOMAIN Timeout, NEW addr \in Addr
  PROVE  /\ Added(set, addr) \in [AllSets -> [Addr -> Nat]]
         /\ \A s \in AllSets, a \in Addr : Added(set, addr)[s][a] >= elements[s][a]
         /\ elements[set][addr] = 0 => Added(set, addr)[set][addr] = Timeout[set]
  BY SetsAssumption DEF TypeOK, Added

LEMMA BanStep ==
  ASSUME BanInvariant, NEW peer \in Peer, NEW t \in Thread, Ban(peer, t)
  PROVE  BanInvariant'
<1> DEFINE addr == canonical_ip(peer)
           job  == [addr |-> addr, tier |-> Tier(Offences(addr)), offenses |-> Offences(addr)]
<1>1. addr \in Addr /\ addr = Plain(addr.host)
  BY PeersCanonical
<1>2. TypeOK /\ JobsRanked /\ Outlasted
  BY DEF BanInvariant
<1>3. Offences(addr) \in 1..U32_MAX
  BY <1>1, <1>2, OffencesCounted
<1>4. job \in Job
  BY <1>1, <1>3, TierIsNat DEF Job
<1>5. /\ arrived' = arrived \ {peer}
      /\ rearm' = [rearm EXCEPT ![addr] = reban_cooldown]
      /\ offenders' = [offenders EXCEPT ![addr] = Offences(addr)]
      /\ \/ jobs' = [u \in Busy \cup {t} |-> IF u = t THEN job ELSE jobs[u]]
         \/ jobs' = jobs
      /\ UNCHANGED <<elements, restarts, promised>>
  BY DEF Ban
<1> HIDE DEF addr, job
<1>6. Busy' \subseteq Thread /\ jobs' \in [Busy' -> Job]
  BY <1>2, <1>4, <1>5 DEF TypeOK, Busy
<1>7. TypeOK'
  BY <1>1, <1>2, <1>3, <1>5, <1>6, TierAssumption DEF TypeOK
<1>8. job.addr = Plain(job.addr.host) /\ job.tier = Tier(job.offenses)
  BY <1>1 DEF job
<1>9. JobsRanked'
  BY <1>2, <1>5, <1>8 DEF JobsRanked, Busy, Tier
<1>10. Outlasted'
  BY <1>2, <1>5 DEF Outlasted
<1> QED
  BY <1>7, <1>9, <1>10 DEF BanInvariant

\* What ends a job without adding to the others.
LEMMA EndedKeeps ==
  ASSUME TypeOK, JobsRanked, NEW t \in Thread, jobs' = Ended(t)
  PROVE  /\ Busy' \subseteq Thread /\ jobs' \in [Busy' -> Job]
         /\ JobsRanked'
  BY DEF TypeOK, JobsRanked, Busy, Ended, Tier

LEMMA WriteStep ==
  ASSUME BanInvariant, NEW t \in Thread, Write(t)
  PROVE  BanInvariant'
<1>1. TypeOK /\ JobsRanked /\ Outlasted
  BY DEF BanInvariant
<1>2. t \in Busy /\ jobs[t] \in Job
  BY <1>1 DEF Write, TypeOK
<1>3. PICK h : h = jobs[t].addr.host
  OBVIOUS
<1>4. PICK n : n = jobs[t].offenses
  OBVIOUS
<1>5. /\ h \in Host /\ n \in 1..U32_MAX
      /\ jobs[t].addr = Plain(h) /\ Plain(h) \in Addr
      /\ jobs[t].tier = Tier(n) /\ Tier(n) \in Nat
  BY <1>1, <1>2, <1>3, <1>4, TierIsNat DEF Job, Addr, JobsRanked
<1>6. PICK set \in tier_set(SetsFor(h), Tier(n)) :
        /\ set \in DOMAIN Timeout
        /\ elements' = Added(set, Plain(h))
        /\ \/ /\ elements[set][Plain(h)] = 0
              /\ \E m \in {promised[h]} \cup Worth(h, n) :
                   /\ Largest(m, {promised[h]} \cup Worth(h, n))
                   /\ promised' = [promised EXCEPT ![h] = m]
           \/ UNCHANGED promised
  BY <1>3, <1>4, <1>5, TargetOfHost DEF Write, Writable
<1>7. set \in Range(SetsFor(h)) /\ set \in AllSets
  BY <1>5, <1>6, TargetListed, SetsAreStrings
<1>8. /\ elements' \in [AllSets -> [Addr -> Nat]]
      /\ \A s \in AllSets, a \in Addr : elements'[s][a] >= elements[s][a]
      /\ elements[set][Plain(h)] = 0 => elements'[set][Plain(h)] = Timeout[set]
  BY <1>1, <1>5, <1>6, <1>7, AddingKeeps
<1>9. promised' \in [Host -> Nat]
  BY <1>1, <1>5, <1>6, WorthIsNat DEF TypeOK
<1>10. jobs' = Ended(t) /\ UNCHANGED <<arrived, detector, restarts>>
  BY DEF Write
<1>11. TypeOK' /\ JobsRanked'
  BY <1>1, <1>8, <1>9, <1>10, EndedKeeps DEF TypeOK, detector
<1>12. ASSUME NEW g \in Host, promised'[g] > 0
       PROVE  \E s \in Range(SetsFor(g)) : elements'[s][Plain(g)] >= promised'[g]
  <2>1. Plain(g) \in Addr /\ Range(SetsFor(g)) \subseteq AllSets
    BY SetsAreStrings DEF Plain, Addr
  <2>2. CASE promised'[g] = promised[g]
    <3>1. PICK s \in Range(SetsFor(g)) : elements[s][Plain(g)] >= promised[g]
      BY <1>1, <1>12, <2>2 DEF Outlasted
    <3>2. /\ elements[s][Plain(g)] \in Nat /\ elements'[s][Plain(g)] \in Nat
          /\ promised[g] \in Nat
          /\ elements'[s][Plain(g)] >= elements[s][Plain(g)]
      BY <1>1, <1>8, <2>1, <3>1 DEF TypeOK
    <3> QED
      BY <2>2, <3>1, <3>2
  <2>3. CASE promised'[g] # promised[g]
    <3>1. /\ g = h /\ elements[set][Plain(h)] = 0
          /\ promised'[h] \in Worth(h, n)
      BY <1>1, <1>5, <1>6, <2>3 DEF TypeOK
    <3>2. promised'[h] <= Timeout[set]
      BY <1>5, <1>6, <3>1, WorthIsHeld
    <3>3. elements'[set][Plain(h)] = Timeout[set] /\ Timeout[set] \in Nat
      BY <1>6, <1>8, <3>1, SetsAssumption
    <3>4. promised'[h] \in Nat
      BY <1>5, <1>9
    <3> QED
      BY <1>7, <3>1, <3>2, <3>3, <3>4
  <2> QED
    BY <2>2, <2>3
<1>13. Outlasted'
  BY <1>12 DEF Outlasted, SetsFor, Plain
<1> QED
  BY <1>11, <1>13 DEF BanInvariant

LEMMA TickStep ==
  ASSUME BanInvariant, Tick
  PROVE  BanInvariant'
<1>1. TypeOK /\ JobsRanked /\ Outlasted
  BY DEF BanInvariant
<1>2. TypeOK'
  BY <1>1 DEF TypeOK, Tick, Sub, Busy
<1>3. JobsRanked'
  BY <1>1 DEF Tick, JobsRanked, Busy, Tier
<1>4. ASSUME NEW h \in Host, promised'[h] > 0
      PROVE  \E s \in Range(SetsFor(h)) : elements'[s][Plain(h)] >= promised'[h]
  <2>1. promised[h] \in Nat /\ promised'[h] = Sub(promised[h], 1)
    BY <1>1 DEF TypeOK, Tick
  <2>2. promised[h] > 0 /\ promised'[h] = promised[h] - 1
    BY <1>4, <2>1 DEF Sub
  <2>3. PICK s \in Range(SetsFor(h)) : elements[s][Plain(h)] >= promised[h]
    BY <1>1, <2>2 DEF Outlasted
  <2>4. s \in AllSets /\ Plain(h) \in Addr
    BY <2>3, SetsAreStrings DEF Plain, Addr
  <2>5. elements[s][Plain(h)] \in Nat /\ elements'[s][Plain(h)] = Sub(elements[s][Plain(h)], 1)
    BY <1>1, <2>4 DEF TypeOK, Tick
  <2>6. elements'[s][Plain(h)] >= promised'[h]
    BY <2>1, <2>2, <2>3, <2>5 DEF Sub
  <2> QED
    BY <2>3, <2>6
<1>5. Outlasted'
  BY <1>4 DEF Outlasted, SetsFor, Plain
<1> QED
  BY <1>2, <1>3, <1>5 DEF BanInvariant

\* The steps that touch neither the kernel's sets nor what was promised.
LEMMA QuietStep ==
  ASSUME BanInvariant,
         \/ \E peer \in Peer : Arrive(peer) \/ Serve(peer)
         \/ \E t \in Thread : WriteFails(t)
         \/ \E addr \in Addr : Evict(addr)
         \/ Restart
         \/ UNCHANGED vars
  PROVE  BanInvariant'
<1>1. TypeOK /\ JobsRanked /\ Outlasted
  BY DEF BanInvariant
<1>2. UNCHANGED <<elements, promised>>
  BY DEF Arrive, Serve, WriteFails, Evict, Restart, vars, detector
<1>3. Outlasted'
  BY <1>1, <1>2 DEF Outlasted
<1>4. TypeOK' /\ JobsRanked'
  <2>1. CASE \E peer \in Peer : Arrive(peer) \/ Serve(peer)
    BY <1>1, <2>1 DEF Arrive, Serve, TypeOK, JobsRanked, Busy, detector, Tier
  <2>2. CASE \E t \in Thread : WriteFails(t)
    BY <1>1, <2>2, EndedKeeps DEF WriteFails, TypeOK, detector
  <2>3. CASE \E addr \in Addr : Evict(addr)
    BY <1>1, <2>3 DEF Evict, TypeOK, JobsRanked, Busy, Tier
  <2>4. CASE Restart
    BY <1>1, <2>4, TierAssumption DEF Restart, TypeOK, JobsRanked, Busy
  <2>5. CASE UNCHANGED vars
    BY <1>1, <2>5 DEF vars, TypeOK, JobsRanked, Busy, detector, Tier
  <2> QED
    BY <2>1, <2>2, <2>3, <2>4, <2>5
<1> QED
  BY <1>3, <1>4 DEF BanInvariant

LEMMA StepInvariant == BanInvariant /\ [Next]_vars => BanInvariant'
<1> SUFFICES ASSUME BanInvariant, [Next]_vars PROVE BanInvariant'
  OBVIOUS
<1>1. CASE \E peer \in Peer, t \in Thread : Ban(peer, t)
  BY <1>1, BanStep
<1>2. CASE \E t \in Thread : Write(t)
  BY <1>2, WriteStep
<1>3. CASE Tick
  BY <1>3, TickStep
<1>4. CASE \/ \E peer \in Peer : Arrive(peer) \/ Serve(peer)
           \/ \E t \in Thread : WriteFails(t)
           \/ \E addr \in Addr : Evict(addr)
           \/ Restart
           \/ UNCHANGED vars
  BY <1>4, QuietStep
<1> QED
  BY <1>1, <1>2, <1>3, <1>4 DEF Next

LEMMA InvariantHolds == Spec => []BanInvariant
  BY InitInvariant, StepInvariant, PTL DEF Spec

\* No variable leaves its type, whatever is banned, fails or restarts.
THEOREM BanTypes == Spec => []TypeOK
<1>1. BanInvariant => TypeOK
  BY DEF BanInvariant
<1> QED
  BY <1>1, InvariantHolds, PTL

\* A source whose ban was written is dropped for as long as the ban is worth.
THEOREM PromisesAreKept == Spec => []PromiseKept
<1>1. ASSUME BanInvariant, NEW h \in Host, promised[h] > 0
      PROVE  Dropped(h)
  <2>1. PICK set \in Range(SetsFor(h)) : elements[set][Plain(h)] >= promised[h]
    BY <1>1 DEF BanInvariant, Outlasted
  <2>2. set \in AllSets /\ Plain(h) \in Addr
    BY SetsAreStrings DEF Plain, Addr
  <2>3. elements[set][Plain(h)] \in Nat /\ promised[h] \in Nat
    BY <1>1, <2>2 DEF BanInvariant, TypeOK
  <2>4. elements[set][Plain(h)] > 0
    BY <1>1, <2>1, <2>3
  <2> QED
    BY <2>1, <2>4, SetsAreStrings DEF Dropped, Plain
<1>2. BanInvariant => PromiseKept
  BY <1>1 DEF PromiseKept
<1> QED
  BY <1>2, InvariantHolds, PTL
=============================================================================
