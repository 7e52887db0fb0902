------------------------------ MODULE PeerList ------------------------------
(***************************************************************************)
(* One torrent's peers of one address family: `PeerList<N>` of             *)
(* crates/bf-core/src/store.rs.  A list is a value; the operators below    *)
(* are its methods, each returning the list (or the reply) the method      *)
(* leaves behind.  `seeders` is the counter the code maintains step by     *)
(* step, and is deliberately not defined from `peers`.                     *)
(***************************************************************************)
EXTENDS Integers, FiniteSets

CONSTANTS
  Key,       \* the compact wire form of a peer, `ip + port`: [u8; 6] or [u8; 18]
  U32_MAX    \* u32::MAX; a reply has 32 bits for a count

ASSUME KeyFinite == IsFiniteSet(Key)

ASSUME WidthOfCounts == U32_MAX \in Nat

\* n as u32, which drops the upper bits
AsU32(n) == n % (U32_MAX + 1)

Flag == {"SEEDING", "COMPLETED"}

PeerVal == [flags : SUBSET Flag, seen : Nat]

\* The values of the struct, whatever its counters say.
IsList(l) ==
  /\ l = [peers |-> l.peers, seeders |-> l.seeders, downloaded |-> l.downloaded]
  /\ DOMAIN l.peers \subseteq Key
  /\ l.peers \in [DOMAIN l.peers -> PeerVal]
  /\ l.seeders \in Nat
  /\ l.downloaded \in Nat

NewList == [peers |-> <<>>, seeders |-> 0, downloaded |-> 0]

-----------------------------------------------------------------------------
(* What the entries themselves say *)

Registered(l) == DOMAIN l.peers
Having(l, flag) == {k \in Registered(l) : flag \in l.peers[k].flags}

leechers(l) == Cardinality(Registered(l)) - l.seeders

-----------------------------------------------------------------------------
(* announce, remove, expire *)

\* A bare COMPLETED (event=completed with bytes left) is cleared.
Sanitised(flags) ==
  IF "SEEDING" \in flags THEN flags ELSE flags \ {"COMPLETED"}

\* The entry's flags before this announce; a new peer has none.
OldFlags(l, k) == IF k \in Registered(l) THEN l.peers[k].flags ELSE {}

\* Mutant: a download is counted when the peer starts to seed.
DownloadedAfter_OnSeeding(l, old, flags) ==
  IF "SEEDING" \in flags \ old /\ "COMPLETED" \in flags
    THEN l.downloaded + 1 ELSE l.downloaded

\* An announce counts a completion the entry does not carry yet.
DownloadedAfter(l, old, flags) ==
  IF "COMPLETED" \in flags \ old THEN l.downloaded + 1 ELSE l.downloaded

\* Mutant: only a peer that was not a leecher before adds a seeder.
SeedersAfter_NewOnly(l, old, flags) ==
  CASE "SEEDING" \in flags /\ l.peers = <<>> -> l.seeders + 1
    [] "SEEDING" \in old \ flags            -> l.seeders - 1
    [] OTHER                                -> l.seeders

SeedersAfter(l, old, flags) ==
  CASE "SEEDING" \in flags \ old -> l.seeders + 1
    [] "SEEDING" \in old \ flags -> l.seeders - 1
    [] OTHER                     -> l.seeders

announce(l, k, rawFlags, now) ==
  LET flags == Sanitised(rawFlags)
      old   == OldFlags(l, k)
      entry == [flags |-> flags \cup (old \cap {"COMPLETED"}), seen |-> now]
  IN  [ peers      |-> [x \in Registered(l) \cup {k} |->
                          IF x = k THEN entry ELSE l.peers[x]],
        seeders    |-> SeedersAfter(l, old, flags),
        downloaded |-> DownloadedAfter(l, old, flags) ]

\* Mutant: a seeder that stops stays in the count.
remove_KeepsCount(l, k) ==
  [l EXCEPT !.peers = [x \in Registered(l) \ {k} |-> l.peers[x]]]

remove(l, k) ==
  [ peers      |-> [x \in Registered(l) \ {k} |-> l.peers[x]],
    seeders    |-> IF "SEEDING" \in OldFlags(l, k)
                     THEN l.seeders - 1 ELSE l.seeders,
    downloaded |-> l.downloaded ]

\* Mutant: wrapping subtraction.
Idle_Wrapping(now, then) == IF now >= then THEN now - then ELSE 1000000

\* now.saturating_sub(then), in minutes.
Idle(now, then) == IF now >= then THEN now - then ELSE 0

\* Mutant: a peer stays for one minute more.
Kept_Inclusive(l, now, timeout) ==
  {k \in Registered(l) : Idle(now, l.peers[k].seen) <= timeout}

Kept(l, now, timeout) ==
  {k \in Registered(l) : Idle(now, l.peers[k].seen) < timeout}

\* The sweep keeps the recent peers and recounts the seeders among them.
expire(l, now, timeout) ==
  LET kept == Kept(l, now, timeout)
  IN  [ peers      |-> [k \in kept |-> l.peers[k]],
        seeders    |-> Cardinality(kept \cap Having(l, "SEEDING")),
        downloaded |-> l.downloaded ]

-----------------------------------------------------------------------------
(* The peers write_compact may return, for every order in which the hash   *)
(* map yields its entries: as many as asked for and present, and a seeder  *)
(* only once every leecher is in.                                          *)

\* Mutant: seeders before leechers.
write_compact_SeedersFirst(l, numwant) ==
  LET size == Cardinality(Registered(l))
      room == IF numwant < size THEN numwant ELSE size
  IN  {S \in SUBSET Registered(l) :
         /\ Cardinality(S) = room
         /\ \/ S \subseteq Having(l, "SEEDING")
            \/ Having(l, "SEEDING") \subseteq S}

write_compact(l, numwant) ==
  LET size == Cardinality(Registered(l))
      room == IF numwant < size THEN numwant ELSE size
  IN  {S \in SUBSET Registered(l) :
         /\ Cardinality(S) = room
         /\ \/ S \cap Having(l, "SEEDING") = {}
            \/ Registered(l) \ Having(l, "SEEDING") \subseteq S}

=============================================================================
