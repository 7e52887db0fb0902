---------------------------------- MODULE Bans ----------------------------------
(***************************************************************************)
(* From a verdict to the firewall: the ban jobs of crates/bluefrog/src/    *)
(* main.rs, the netlink sink of crates/bf-nft/src/sink.rs and the nft sets *)
(* that bluefrog.conf.sample tells the operator to declare.                *)
(*                                                                         *)
(* Every source here is a hostile one: its datagrams bring it over the     *)
(* threshold again and again.  What the detector keeps of it is its        *)
(* offences and the time left until it may be banned again (Detector has   *)
(* the rest).  Times are counted down, so no run has an end.               *)
(*                                                                         *)
(* A job runs on a thread of the blocking pool, beside the workers and     *)
(* beside other jobs; it may fail, and a restart loses it, while the       *)
(* kernel's sets outlive the process.                                      *)
(***************************************************************************)
EXTENDS Integers, Sequences, FiniteSets, Functions

CONSTANTS
  Host4, Host6,      \* sources by the family of their packets
  Thread,            \* bound: ban jobs that may be waiting or running at once
  nft_enable,
  nft_table,         \* the words of the nft.table directive
  nft_set4, nft_set6,\* the sets by tier, shortest-lived first
  FirewallTable,     \* external: the table the operator declared,
  Timeout,           \* its sets, and the seconds an element stays in each
  ban_tiers, reban_cooldown, U32_MAX,
  MaxRestarts        \* bound: restarts explored

Host == Host4 \cup Host6

Sets4 == Range(nft_set4)
Sets6 == Range(nft_set6)

ASSUME HostAssumption ==
  /\ Host4 \cap Host6 = {}
  /\ nft_enable \in BOOLEAN

ASSUME SetsAssumption ==
  /\ nft_set4 \in Seq(STRING) /\ nft_set6 \in Seq(STRING)
  /\ Sets4 \cap Sets6 = {}
  /\ Timeout \in [DOMAIN Timeout -> Nat \ {0}]

\* The declared sets are listed shortest-lived first (nft.set4, nft.set6).
ASSUME OrderAssumption ==
  \A sets \in {nft_set4, nft_set6} : \A i, j \in 1..Len(sets) :
    /\ i <= j /\ sets[i] \in DOMAIN Timeout /\ sets[j] \in DOMAIN Timeout
    => Timeout[sets[i]] <= Timeout[sets[j]]

ASSUME TierAssumption ==
  /\ ban_tiers \in Nat /\ reban_cooldown \in Nat /\ U32_MAX \in Nat \ {0}
  /\ MaxRestarts \in Nat

VARIABLES
  arrived,   \* the peer addresses of the datagrams that wait in the sockets
  rearm,     \* source -> seconds until Client.banned_until, 0 once it is past
  offenders, \* the escalation registry: source -> offences
  jobs,      \* thread -> the ban it is to write
  elements,  \* kernel: set -> address -> seconds left, 0 when not in the set
  restarts,  \* bound: restarts so far
  promised   \* history: host -> seconds it is to be kept out for

detector == <<rearm, offenders>>
vars     == <<arrived, detector, jobs, elements, restarts, promised>>

-----------------------------------------------------------------------------
(* Addresses *)

\* A dual-stack socket shows an IPv4 peer as an IPv4-mapped IPv6 address.
Peer == [host : Host4, form : {"v4", "mapped"}] \cup [host : Host6, form : {"v6"}]
Addr == [host : Host, form : {"v4", "v6"}]

\* Mutant: mapped addresses are taken for IPv6.
canonical_ip_Mapped(peer) ==
  IF peer.form = "mapped" THEN [peer EXCEPT !.form = "v6"] ELSE peer

\* An IPv4-mapped address is the IPv4 address it stands for.
canonical_ip(peer) ==
  IF peer.form = "mapped" THEN [peer EXCEPT !.form = "v4"] ELSE peer

-----------------------------------------------------------------------------
(* The sink *)

Least(a, b) == IF a < b THEN a ELSE b
Sub(a, b)   == IF a > b THEN a - b ELSE 0

\* The table the directive's words name.
NetlinkSink(words) ==
  [ family |-> IF Len(words) > 0 /\ words[1] \in {"ip", "ip6"} THEN words[1] ELSE "inet",
    name   |-> IF Len(words) > 1 THEN words[2] ELSE "filter" ]

\* The set for a tier, the last one when there are fewer; none of an empty list.
tier_set(sets, tier) ==
  IF sets = <<>> THEN {} ELSE {sets[Least(tier, Len(sets) - 1) + 1]}

\* The sets an address is banned into at a tier: one, or none.
Target(addr, tier) == tier_set(IF addr.form = "v4" THEN nft_set4 ELSE nft_set6, tier)

\* The kernel knows the table and the set.
Writable(sets) ==
  /\ sets # {} /\ sets \subseteq DOMAIN Timeout
  /\ NetlinkSink(nft_table) = FirewallTable

-----------------------------------------------------------------------------
(* The kernel.  An element stays for its set's timeout from when it was    *)
(* added; adding it again while it is there does not refresh it.           *)

AllSets == Sets4 \cup Sets6

Added(set, addr) ==
  IF elements[set][addr] = 0
  THEN [elements EXCEPT ![set][addr] = Timeout[set]] ELSE elements

\* `ip saddr @l7ban4 drop`, `ip6 saddr @l7ban6 drop`, for every set of a family.
Dropped(host) ==
  IF host \in Host4
  THEN \E set \in Sets4 : elements[set][[host |-> host, form |-> "v4"]] > 0
  ELSE \E set \in Sets6 : elements[set][[host |-> host, form |-> "v6"]] > 0

-----------------------------------------------------------------------------
Job  == [addr : Addr, tier : Nat, offenses : 1..U32_MAX]
Busy == DOMAIN jobs

TypeOK ==
  /\ arrived \subseteq Peer
  /\ rearm \in [Addr -> Nat]
  /\ offenders \in [Addr -> 0..U32_MAX]
  /\ Busy \subseteq Thread /\ jobs \in [Busy -> Job]
  /\ elements \in [AllSets -> [Addr -> Nat]]
  /\ restarts \in Nat
  /\ promised \in [Host -> Nat]

Init ==
  /\ arrived = {}
  /\ rearm = [a \in Addr |-> 0]
  /\ offenders = [a \in Addr |-> 0]
  /\ jobs = <<>>
  /\ elements = [s \in AllSets |-> [a \in Addr |-> 0]]
  /\ restarts = 0
  /\ promised = [h \in Host |-> 0]

\* A datagram passes the firewall and waits for a worker.
Arrive(peer) ==
  /\ ~Dropped(peer.host)
  /\ arrived' = arrived \cup {peer}
  /\ UNCHANGED <<detector, jobs, elements, restarts, promised>>

\* Its verdict is to allow: the score is still low, or a ban is in force.
Serve(peer) ==
  /\ peer \in arrived
  /\ arrived' = arrived \ {peer}
  /\ UNCHANGED <<detector, jobs, elements, restarts, promised>>

\* Mutant: re-armed by the score alone, a source is banned once.
MayBan_Once(addr) == rearm[addr] = 0 /\ offenders[addr] = 0

\* now >= banned_until
MayBan(addr) == rearm[addr] = 0

Tier(offenses) == Least(offenses - 1, Sub(ban_tiers, 1))

\* Mutant: wrapping_add.
Offences_Wraps(addr) == (offenders[addr] + 1) % (U32_MAX + 1)

\* The offences of a source, with this one: saturating_add.
Offences(addr) == Least(offenders[addr] + 1, U32_MAX)

\* Verdict::Ban: the ban is armed, the offence recorded and the job spawned.
Ban(peer, t) ==
  LET addr     == canonical_ip(peer)
      offenses == Offences(addr)
      job      == [addr |-> addr, tier |-> Tier(offenses), offenses |-> offenses]
  IN  /\ peer \in arrived
      /\ MayBan(addr)
      /\ t \notin Busy
      /\ arrived' = arrived \ {peer}
      /\ rearm' = [rearm EXCEPT ![addr] = reban_cooldown]
      /\ offenders' = [offenders EXCEPT ![addr] = offenses]
      /\ jobs' = IF nft_enable
                 THEN [u \in Busy \cup {t} |-> IF u = t THEN job ELSE jobs[u]]
                 ELSE jobs
      /\ UNCHANGED <<elements, restarts, promised>>

Ended(t) == [u \in Busy \ {t} |-> jobs[u]]

SetsFor(host) == IF host \in Host4 THEN nft_set4 ELSE nft_set6

\* What the n-th ban is worth: as long as any of the first n sets holds.
Worth(host, n) ==
  {Timeout[SetsFor(host)[i]] :
     i \in {j \in 1..Len(SetsFor(host)) :
              /\ j <= n /\ j <= ban_tiers
              /\ SetsFor(host)[j] \in DOMAIN Timeout}}

Largest(n, S) == n \in S /\ \A k \in S : k <= n

\* The netlink batch is accepted.
Write(t) ==
  LET job    == jobs[t]
      host   == job.addr.host
      target == Target(job.addr, job.tier)
      better == {promised[host]} \cup Worth(host, job.offenses)
  IN  /\ t \in Busy
      /\ Writable(target)
      /\ \E set \in target :
           /\ elements' = Added(set, job.addr)
           /\ \/ /\ elements[set][job.addr] = 0
                 /\ \E n \in better :
                      Largest(n, better) /\ promised' = [promised EXCEPT ![host] = n]
              \/ /\ elements[set][job.addr] > 0
                 /\ UNCHANGED promised
      /\ jobs' = Ended(t)
      /\ UNCHANGED <<arrived, detector, restarts>>

\* No set for the family, no such set, or the socket reports an error.
WriteFails(t) ==
  /\ t \in Busy
  /\ jobs' = Ended(t)
  /\ UNCHANGED <<arrived, detector, elements, restarts, promised>>

\* The shard was full and the client made room for another source.
Evict(addr) ==
  /\ rearm[addr] > 0
  /\ rearm' = [rearm EXCEPT ![addr] = 0]
  /\ UNCHANGED <<arrived, offenders, jobs, elements, restarts, promised>>

\* The process and all it knew is gone; the kernel's sets are not.
Restart ==
  /\ restarts < MaxRestarts
  /\ restarts' = restarts + 1
  /\ arrived' = {} /\ jobs' = <<>>
  /\ rearm' = [a \in Addr |-> 0]
  /\ offenders' = [a \in Addr |-> 0]
  /\ UNCHANGED <<elements, promised>>

\* A second passes.
Tick ==
  /\ rearm' = [a \in Addr |-> Sub(rearm[a], 1)]
  /\ elements' = [s \in AllSets |-> [a \in Addr |-> Sub(elements[s][a], 1)]]
  /\ promised' = [h \in Host |-> Sub(promised[h], 1)]
  /\ UNCHANGED <<arrived, offenders, jobs, restarts>>

Next ==
  \/ \E peer \in Peer :
       \/ Arrive(peer) \/ Serve(peer)
       \/ \E t \in Thread : Ban(peer, t)
  \/ \E t \in Thread : Write(t) \/ WriteFails(t)
  \/ \E addr \in Addr : Evict(addr)
  \/ Restart \/ Tick

Spec == Init /\ [][Next]_vars

\* A hostile source sends again whenever it is let through, some of its
\* datagrams bring it over the threshold, every job ends, and the writes for
\* one source do not fail for ever.  A ban waits for a thread only because of
\* the bound on jobs: hence the strong fairness of Ban, and of Arrive while a
\* thread is free.
Fairness ==
  /\ \A host \in Host :
       LET peers == {peer \in Peer : peer.host = host}
       IN  /\ SF_vars(Busy # Thread /\ \E peer \in peers : Arrive(peer))
           /\ SF_vars(\E peer \in peers, t \in Thread : Ban(peer, t))
           /\ SF_vars(\E t \in Busy : jobs[t].addr.host = host /\ Write(t))
  /\ \A t \in Thread : WF_vars(Write(t) \/ WriteFails(t))
  /\ WF_vars(Tick)

FairSpec == Spec /\ Fairness

-----------------------------------------------------------------------------
(* Properties *)

\* A source whose ban was written is kept out of the tracker for as long as
\* its tier's set keeps an element, and for a further offence no less than for
\* the earlier ones: in whichever order the pool writes its bans, whichever
\* socket it came through, and across a restart.
PromiseKept == \A h \in Host : promised[h] > 0 => Dropped(h)

\* A ban that never reached the firewall, because the write failed or the
\* process stopped, is made good: a source that keeps at it is locked out
\* again and again.
EverLockedOut == \A h \in Host : []<>Dropped(h)
=============================================================================
