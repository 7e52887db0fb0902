--------------------------- MODULE PeerListProofs ---------------------------
(***************************************************************************)
(* Each method of PeerList keeps the struct well formed, its seeder count  *)
(* exact and every completion counted, for any finite set of keys.         *)
(***************************************************************************)
EXTENDS PeerList, FiniteSetTheorems, TLAPS

ListInv(l) ==
  /\ IsList(l)
  /\ l.seeders = Cardinality(Having(l, "SEEDING"))
  /\ Cardinality(Having(l, "COMPLETED")) <= l.downloaded

\* What is left of a count in 32 bits is a u32, and nothing is left of nothing.
LEMMA AsU32Type == \A n \in Nat : AsU32(n) \in 0..U32_MAX
BY WidthOfCounts DEF AsU32

LEMMA AsU32Zero == AsU32(0) = 0
BY WidthOfCounts DEF AsU32

\* The marked peers of a list are a finite set, no larger than the list.
LEMMA HavingFinite ==
  ASSUME NEW l, IsList(l), NEW flag
  PROVE  /\ IsFiniteSet(Registered(l))
         /\ IsFiniteSet(Having(l, flag))
         /\ Having(l, flag) \subseteq Registered(l)
         /\ Cardinality(Registered(l)) \in Nat
         /\ Cardinality(Having(l, flag)) \in Nat
         /\ Cardinality(Having(l, flag)) <= Cardinality(Registered(l))
<1>1. Registered(l) \in SUBSET Key  BY DEF IsList, Registered
<1>2. IsFiniteSet(Registered(l))  BY <1>1, KeyFinite, FS_Subset
<1>3. Having(l, flag) \in SUBSET Registered(l)  BY DEF Having
<1>4. /\ IsFiniteSet(Having(l, flag))
      /\ Cardinality(Having(l, flag)) <= Cardinality(Registered(l))
  BY <1>2, <1>3, FS_Subset
<1> QED  BY <1>2, <1>3, <1>4, FS_CardinalityType

\* `peers.len() - seeders` does not go below zero.
LEMMA LeechersNat ==
  ASSUME NEW l, ListInv(l)
  PROVE  leechers(l) \in Nat
BY HavingFinite DEF ListInv, leechers

LEMMA NewListInv == ListInv(NewList)
<1> DEFINE l == NewList
<1>1. DOMAIN l.peers = {}  BY DEF NewList
<1>2. /\ Having(l, "SEEDING") = {}
      /\ Having(l, "COMPLETED") = {}
  BY <1>1 DEF Having, Registered
<1>3. IsList(l)  BY <1>1 DEF IsList, NewList
<1> QED  BY <1>2, <1>3, FS_EmptySet DEF ListInv, NewList

-----------------------------------------------------------------------------
(* announce *)

LEMMA AnnounceShape ==
  ASSUME NEW l, IsList(l), NEW k \in Key, NEW raw \in SUBSET Flag, NEW now \in Nat
  PROVE  LET m == announce(l, k, raw, now)
         IN  /\ m = [peers |-> m.peers, seeders |-> m.seeders,
                     downloaded |-> m.downloaded]
             /\ m.peers \in [Registered(l) \cup {k} -> PeerVal]
<1> DEFINE new == Sanitised(raw) \cup (OldFlags(l, k) \cap {"COMPLETED"})
<1>1. Sanitised(raw) \in SUBSET Flag  BY DEF Sanitised
<1>2. OldFlags(l, k) \in SUBSET Flag  BY DEF OldFlags, IsList, Registered, PeerVal
<1>3. [flags |-> new, seen |-> now] \in PeerVal  BY <1>1, <1>2 DEF PeerVal
<1>4. \A x \in Registered(l) : l.peers[x] \in PeerVal  BY DEF IsList, Registered
<1> QED  BY <1>3, <1>4 DEF announce

LEMMA AnnounceEntries ==
  ASSUME NEW l, NEW k, NEW raw, NEW now
  PROVE  LET m   == announce(l, k, raw, now)
             new == Sanitised(raw) \cup (OldFlags(l, k) \cap {"COMPLETED"})
         IN  /\ Registered(m) = Registered(l) \cup {k}
             /\ m.peers[k].flags = new
             /\ m.peers[k].seen = now
             /\ \A x \in Registered(m) \ {k} : m.peers[x] = l.peers[x]
BY DEF announce, Registered

LEMMA AnnounceCounters ==
  ASSUME NEW l, NEW k, NEW raw, NEW now
  PROVE  LET m == announce(l, k, raw, now)
         IN  /\ m.seeders = SeedersAfter(l, OldFlags(l, k), Sanitised(raw))
             /\ m.downloaded = DownloadedAfter(l, OldFlags(l, k), Sanitised(raw))
BY DEF announce

\* Which peers carry a mark after an announce: the announcer is added or
\* taken out, the others keep theirs.
LEMMA AnnounceHaving ==
  ASSUME NEW l, IsList(l), NEW k \in Key, NEW raw \in SUBSET Flag, NEW now \in Nat
  PROVE  LET m   == announce(l, k, raw, now)
             old == OldFlags(l, k)
             new == Sanitised(raw)
         IN  /\ \A g \in Flag : k \in Having(l, g) <=> g \in old
             /\ Having(m, "SEEDING") =
                  IF "SEEDING" \in new THEN Having(l, "SEEDING") \cup {k}
                                       ELSE Having(l, "SEEDING") \ {k}
             /\ Having(m, "COMPLETED") =
                  IF "COMPLETED" \in new \cup old
                    THEN Having(l, "COMPLETED") \cup {k}
                    ELSE Having(l, "COMPLETED") \ {k}
<1> DEFINE m   == announce(l, k, raw, now)
           old == OldFlags(l, k)
           new == Sanitised(raw)
<1>1. \A g \in Flag : k \in Having(l, g) <=> g \in old  BY DEF Having, OldFlags
<1>2. /\ Registered(m) = Registered(l) \cup {k}
      /\ m.peers[k].flags = new \cup (old \cap {"COMPLETED"})
      /\ \A x \in Registered(m) \ {k} : m.peers[x] = l.peers[x]
  BY AnnounceEntries
<1>3. \A x \in Registered(l) \ {k} : \A g : x \in Having(m, g) <=> x \in Having(l, g)
  BY <1>2 DEF Having
<1>4. \A g : k \in Having(m, g) <=> g \in new \cup (old \cap {"COMPLETED"})
  BY <1>2 DEF Having
<1>5. \A g : Having(m, g) \subseteq Registered(l) \cup {k}  BY <1>2 DEF Having
<1>6. \A g : Having(l, g) \subseteq Registered(l)  BY DEF Having
<1>7. Having(m, "SEEDING") =
        IF "SEEDING" \in new THEN Having(l, "SEEDING") \cup {k}
                             ELSE Having(l, "SEEDING") \ {k}
  BY <1>3, <1>4, <1>5, <1>6
<1>8. Having(m, "COMPLETED") =
        IF "COMPLETED" \in new \cup old
          THEN Having(l, "COMPLETED") \cup {k}
          ELSE Having(l, "COMPLETED") \ {k}
  BY <1>3, <1>4, <1>5, <1>6
<1> QED  BY <1>1, <1>7, <1>8

LEMMA AnnounceInv ==
  ASSUME NEW l, ListInv(l), NEW k \in Key, NEW raw \in SUBSET Flag, NEW now \in Nat
  PROVE  ListInv(announce(l, k, raw, now))
<1> DEFINE m   == announce(l, k, raw, now)
           old == OldFlags(l, k)
           new == Sanitised(raw)
           S   == Having(l, "SEEDING")
           C   == Having(l, "COMPLETED")
<1>1. IsList(l) /\ l.seeders = Cardinality(S) /\ Cardinality(C) <= l.downloaded
  BY DEF ListInv
<1>2. /\ IsFiniteSet(S) /\ Cardinality(S) \in Nat
      /\ IsFiniteSet(C) /\ Cardinality(C) \in Nat
      /\ l.downloaded \in Nat
  BY <1>1, HavingFinite DEF IsList
<1>3. /\ k \in S <=> "SEEDING" \in old
      /\ k \in C <=> "COMPLETED" \in old
      /\ Having(m, "SEEDING") = IF "SEEDING" \in new THEN S \cup {k} ELSE S \ {k}
      /\ Having(m, "COMPLETED") =
           IF "COMPLETED" \in new \cup old THEN C \cup {k} ELSE C \ {k}
  BY <1>1, AnnounceHaving DEF Flag
<1>4. m.seeders = SeedersAfter(l, old, new)  BY AnnounceCounters
<1>5. m.downloaded = DownloadedAfter(l, old, new)  BY AnnounceCounters
<1>6. m.seeders = Cardinality(Having(m, "SEEDING")) /\ m.seeders \in Nat
  <2>1. CASE "SEEDING" \in new
    <3>1. Having(m, "SEEDING") = S \cup {k}  BY <1>3, <2>1
    <3>2. Cardinality(S \cup {k}) = IF k \in S THEN Cardinality(S)
                                               ELSE Cardinality(S) + 1
      BY <1>2, FS_AddElement
    <3> QED  BY <1>1, <1>2, <1>3, <1>4, <2>1, <3>1, <3>2 DEF SeedersAfter
  <2>2. CASE "SEEDING" \notin new
    <3>1. Having(m, "SEEDING") = S \ {k}  BY <1>3, <2>2
    <3>2. /\ IsFiniteSet(S \ {k})
          /\ Cardinality(S \ {k}) = IF k \in S THEN Cardinality(S) - 1
                                               ELSE Cardinality(S)
      BY <1>2, FS_RemoveElement
    <3>3. Cardinality(S \ {k}) \in Nat  BY <3>2, FS_CardinalityType
    <3>4. m.seeders = IF k \in S THEN l.seeders - 1 ELSE l.seeders
      BY <1>3, <1>4, <2>2 DEF SeedersAfter
    <3> QED  BY <1>1, <3>1, <3>2, <3>3, <3>4
  <2> QED  BY <2>1, <2>2
<1>7. Cardinality(Having(m, "COMPLETED")) <= m.downloaded /\ m.downloaded \in Nat
  <2>1. CASE "COMPLETED" \in new \cup old
    <3>1. Having(m, "COMPLETED") = C \cup {k}  BY <1>3, <2>1
    <3>2. Cardinality(C \cup {k}) = IF k \in C THEN Cardinality(C)
                                               ELSE Cardinality(C) + 1
      BY <1>2, FS_AddElement
    <3>3. m.downloaded = IF k \in C THEN l.downloaded ELSE l.downloaded + 1
      BY <1>3, <1>5, <2>1 DEF DownloadedAfter
    <3>4. Cardinality(Having(m, "COMPLETED")) =
            IF k \in C THEN Cardinality(C) ELSE Cardinality(C) + 1
      BY <3>1, <3>2
    <3> HIDE DEF m, C
    <3> QED  BY <1>1, <1>2, <3>3, <3>4
  <2>2. CASE "COMPLETED" \notin new \cup old
    <3>1. Having(m, "COMPLETED") = C \ {k}  BY <1>3, <2>2
    <3>2. C \ {k} = C  BY <1>3, <2>2
    <3>3. m.downloaded = l.downloaded  BY <1>5, <2>2 DEF DownloadedAfter
    <3> QED  BY <1>1, <1>2, <3>1, <3>2, <3>3
  <2> QED  BY <2>1, <2>2
<1>8. IsList(m)
  <2>1. /\ m = [peers |-> m.peers, seeders |-> m.seeders,
                downloaded |-> m.downloaded]
        /\ m.peers \in [Registered(l) \cup {k} -> PeerVal]
    BY <1>1, AnnounceShape
  <2>2. DOMAIN m.peers = Registered(l) \cup {k}  BY <2>1
  <2>3. Registered(l) \cup {k} \subseteq Key  BY <1>1 DEF IsList, Registered
  <2> QED  BY <1>6, <1>7, <2>1, <2>2, <2>3 DEF IsList
<1> QED  BY <1>6, <1>7, <1>8 DEF ListInv

-----------------------------------------------------------------------------
(* remove *)

LEMMA RemoveHaving ==
  ASSUME NEW l, NEW k
  PROVE  /\ Registered(remove(l, k)) = Registered(l) \ {k}
         /\ \A x \in Registered(l) \ {k} : remove(l, k).peers[x] = l.peers[x]
         /\ \A g : Having(remove(l, k), g) = Having(l, g) \ {k}
         /\ remove(l, k).downloaded = l.downloaded
<1>. QED  BY DEF remove, Registered, Having

LEMMA RemoveInv ==
  ASSUME NEW l, ListInv(l), NEW k \in Key
  PROVE  ListInv(remove(l, k))
<1> DEFINE m == remove(l, k)
           S == Having(l, "SEEDING")
           C == Having(l, "COMPLETED")
<1>1. IsList(l) /\ l.seeders = Cardinality(S) /\ Cardinality(C) <= l.downloaded
  BY DEF ListInv
<1>2. /\ IsFiniteSet(S) /\ Cardinality(S) \in Nat
      /\ IsFiniteSet(C) /\ Cardinality(C) \in Nat
      /\ l.downloaded \in Nat
  BY <1>1, HavingFinite DEF IsList
<1>3. k \in S <=> "SEEDING" \in OldFlags(l, k)  BY DEF Having, OldFlags
<1>4. m.seeders = IF k \in S THEN l.seeders - 1 ELSE l.seeders
  BY <1>1, <1>3 DEF remove, IsList
<1>5. /\ Having(m, "SEEDING") = S \ {k}
      /\ Having(m, "COMPLETED") = C \ {k}
      /\ m.downloaded = l.downloaded
  BY RemoveHaving
<1>6. m.seeders = Cardinality(Having(m, "SEEDING")) /\ m.seeders \in Nat
  <2>1. /\ IsFiniteSet(S \ {k})
        /\ Cardinality(S \ {k}) = IF k \in S THEN Cardinality(S) - 1
                                             ELSE Cardinality(S)
    BY <1>2, FS_RemoveElement
  <2>2. Cardinality(S \ {k}) \in Nat  BY <2>1, FS_CardinalityType
  <2> QED  BY <1>1, <1>4, <1>5, <2>1, <2>2
<1>7. Cardinality(Having(m, "COMPLETED")) <= m.downloaded
  <2>1. C \ {k} \in SUBSET C  OBVIOUS
  <2>2. Cardinality(C \ {k}) <= Cardinality(C) /\ IsFiniteSet(C \ {k})
    BY <1>2, <2>1, FS_Subset
  <2>3. Cardinality(C \ {k}) \in Nat  BY <2>2, FS_CardinalityType
  <2> QED  BY <1>1, <1>2, <1>5, <2>2, <2>3
<1>8. IsList(m)
  <2>1. m = [peers |-> m.peers, seeders |-> m.seeders, downloaded |-> m.downloaded]
    BY <1>1 DEF remove, IsList
  <2>2. m.peers \in [Registered(l) \ {k} -> PeerVal]
    BY <1>1 DEF remove, IsList, Registered
  <2>3. Registered(l) \ {k} \subseteq Key  BY <1>1 DEF IsList, Registered
  <2>4. DOMAIN m.peers = Registered(l) \ {k}  BY <2>2
  <2> QED  BY <1>2, <1>5, <1>6, <2>1, <2>2, <2>3, <2>4 DEF IsList
<1> QED  BY <1>6, <1>7, <1>8 DEF ListInv

-----------------------------------------------------------------------------
(* expire *)

LEMMA ExpireHaving ==
  ASSUME NEW l, NEW now, NEW timeout
  PROVE  LET m    == expire(l, now, timeout)
             kept == Kept(l, now, timeout)
         IN  /\ kept \subseteq Registered(l)
             /\ Registered(m) = kept
             /\ \A x \in kept : m.peers[x] = l.peers[x]
             /\ \A g : Having(m, g) = kept \cap Having(l, g)
             /\ m.downloaded = l.downloaded
BY DEF expire, Registered, Having, Kept

LEMMA ExpireInv ==
  ASSUME NEW l, ListInv(l), NEW now, NEW timeout
  PROVE  ListInv(expire(l, now, timeout))
<1> DEFINE m    == expire(l, now, timeout)
           kept == Kept(l, now, timeout)
           C    == Having(l, "COMPLETED")
<1>1. IsList(l) /\ Cardinality(C) <= l.downloaded  BY DEF ListInv
<1>2. /\ IsFiniteSet(C) /\ Cardinality(C) \in Nat /\ l.downloaded \in Nat
      /\ IsFiniteSet(Having(l, "SEEDING"))
  BY <1>1, HavingFinite DEF IsList
<1>3. /\ kept \subseteq Registered(l)
      /\ Registered(m) = kept
      /\ \A g : Having(m, g) = kept \cap Having(l, g)
      /\ m.downloaded = l.downloaded
  BY ExpireHaving
<1>4. m.seeders = Cardinality(Having(m, "SEEDING")) /\ m.seeders \in Nat
  <2>1. m.seeders = Cardinality(kept \cap Having(l, "SEEDING"))
    BY <1>1 DEF expire, IsList
  <2>2. IsFiniteSet(kept \cap Having(l, "SEEDING"))  BY <1>2, FS_Subset
  <2>3. Cardinality(kept \cap Having(l, "SEEDING")) \in Nat
    BY <2>2, FS_CardinalityType
  <2> QED  BY <1>3, <2>1, <2>3
<1>5. Cardinality(Having(m, "COMPLETED")) <= m.downloaded
  <2>1. IsFiniteSet(kept \cap C) /\ Cardinality(kept \cap C) <= Cardinality(C)
    BY <1>2, FS_Subset
  <2>2. Cardinality(kept \cap C) \in Nat  BY <2>1, FS_CardinalityType
  <2> QED  BY <1>1, <1>2, <1>3, <2>1, <2>2
<1>6. IsList(m)
  <2>1. m = [peers |-> m.peers, seeders |-> m.seeders, downloaded |-> m.downloaded]
    BY <1>1 DEF expire, IsList
  <2>2. m.peers \in [kept -> PeerVal]
    BY <1>1, <1>3 DEF expire, IsList, Registered
  <2>3. kept \subseteq Key  BY <1>1, <1>3 DEF IsList, Registered
  <2>4. DOMAIN m.peers = kept  BY <2>2
  <2> QED  BY <1>2, <1>3, <1>4, <2>1, <2>2, <2>3, <2>4 DEF IsList
<1> QED  BY <1>4, <1>5, <1>6 DEF ListInv

=============================================================================
