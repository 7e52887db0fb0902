-------------------------------- MODULE Swarm --------------------------------
(***************************************************************************)
(* What the tracker promises its clients, without shards, locks, counters, *)
(* cached clocks or sweeps: a set of peers per torrent, each there because *)
(* it announced, and answers computed from that set.                       *)
(* This is the specification crates/bf-core/src/store.rs implements.       *)
(***************************************************************************)
EXTENDS Integers, FiniteSets

CONSTANTS
  Hash,
  Family,
  Key,
  U32_MAX,    \* the largest count a reply can show
  MaxNumwant, \* the most peers one reply offers
  FreshFor    \* seconds a peer that announced is certain to stay

VARIABLES
  now,        \* seconds
  members,    \* peers -> what each last said, and when
  downloads,  \* torrent -> completed downloads
  answer      \* the last reply

swarm == <<now, members, downloads, answer>>

Peer == Hash \X Family \X Key

NoAnswer ==
  [ counts |-> [complete |-> 0, incomplete |-> 0, downloaded |-> 0],
    peers  |-> {} ]

Init ==
  /\ now = 0
  /\ members = <<>>
  /\ downloads = [h \in Hash |-> 0]
  /\ answer = NoAnswer

-----------------------------------------------------------------------------
In(h, m)      == {p \in DOMAIN m : p[1] = h}
Seeders(h, m) == {p \in In(h, m) : m[p].seed}

\* What a reply shows of a count.
Shown(n) == n % (U32_MAX + 1)

\* The counts of torrent h when m are its members.
CountsOf(h, m, n) ==
  [ complete   |-> Shown(Cardinality(Seeders(h, m))),
    incomplete |-> Shown(Cardinality(In(h, m) \ Seeders(h, m))),
    downloaded |-> Shown(n) ]

\* Peers of one family, at most numwant of them and none left out for want of
\* room; a seeder is offered only to somebody who was offered every leecher.
Offers(h, f, m, numwant) ==
  LET there == {p[3] : p \in {q \in In(h, m) : q[2] = f}}
      seeds == {p[3] : p \in {q \in Seeders(h, m) : q[2] = f}}
  IN  {S \in SUBSET there :
         /\ Cardinality(S) <= numwant
         /\ S = there \/ Cardinality(S) = numwant
         /\ S \cap seeds # {} => there \ seeds \subseteq S}

\* A download is recorded for a peer that has the whole torrent, and once for
\* as long as the peer stays.
Announce(p, seed, completed, numwant) ==
  LET m     == members
      was   == p \in DOMAIN m /\ m[p].done
      newly == seed /\ completed /\ ~was
      entry == [seed |-> seed, done |-> was \/ newly, at |-> now]
      after == [q \in DOMAIN m \cup {p} |-> IF q = p THEN entry ELSE m[q]]
      n     == downloads[p[1]] + (IF newly THEN 1 ELSE 0)
  IN  /\ UNCHANGED now
      /\ members' = after
      /\ downloads' = [downloads EXCEPT ![p[1]] = n]
      /\ \E S \in Offers(p[1], p[2], after, numwant) :
           answer' = [counts |-> CountsOf(p[1], after, n), peers |-> S]

\* m without the peers in P.
Without(m, P) == [q \in DOMAIN m \ P |-> m[q]]

Leave(p) ==
  LET after == Without(members, {p})
  IN  /\ UNCHANGED <<now, downloads>>
      /\ members' = after
      /\ answer' = [counts |-> CountsOf(p[1], after, downloads[p[1]]), peers |-> {}]

Ask(h) ==
  /\ UNCHANGED <<now, members, downloads>>
  /\ answer' = [counts |-> CountsOf(h, members, downloads[h]), peers |-> {}]

\* Silent peers may go, any number at a time.
Lapse ==
  LET m      == members
      silent == {p \in DOMAIN m : now - m[p].at > FreshFor}
  IN  /\ UNCHANGED <<now, downloads, answer>>
      /\ \E P \in SUBSET silent : members' = Without(m, P)

Tick == now' = now + 1 /\ UNCHANGED <<members, downloads, answer>>

Next ==
  \/ \E p \in Peer :
       \/ Leave(p)
       \/ \E seed, completed \in BOOLEAN, numwant \in 0..MaxNumwant :
            Announce(p, seed, completed, numwant)
  \/ \E h \in Hash : Ask(h)
  \/ Lapse
  \/ Tick

Spec == Init /\ [][Next]_swarm
=============================================================================
