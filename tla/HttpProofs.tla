------------------------------ MODULE HttpProofs ------------------------------
(***************************************************************************)
(* Theorems of Http, for every query, every set of torrents, addresses and *)
(* ports, and any number of scrapes and announces that take turns.  The    *)
(* first part is about what the loop over the parameters makes of a query, *)
(* the second about what the requests do to the lists and to a scrape.     *)
(***************************************************************************)
EXTENDS Http, PeerListProofs

-----------------------------------------------------------------------------
(* The last of some places *)

\* The order of the naturals, as a relation.
Less == {xy \in Nat \X Nat : xy[1] < xy[2]}

LEMMA LessWellFounded == IsWellFoundedOn(Less, Nat)
BY NatLessThanWellFounded, Zenon DEF OpToRel, Less

LEMMA HasFirst ==
  ASSUME NEW S \in SUBSET Nat, S # {}
  PROVE  \E i \in S : \A j \in S : i <= j
<1>1. PICK i \in S : \A j \in S : <<j, i>> \notin Less
  BY LessWellFounded, WFMin
<1>2. \A x, y \in Nat : x < y => <<x, y>> \in Less  BY DEF Less
<1>3. \A j \in S : ~(j < i)  BY <1>1, <1>2
<1> QED  BY <1>3

LEMMA HasLast ==
  ASSUME NEW n \in Nat, NEW S \in SUBSET (1..n), S # {}
  PROVE  /\ Last(S) \in S
         /\ \A j \in S : j <= Last(S)
<1> DEFINE T == {n - i : i \in S}
<1>1. T \in SUBSET Nat /\ T # {}
  <2>1. \A i \in S : n - i \in Nat  OBVIOUS
  <2>2. PICK i \in S : TRUE  OBVIOUS
  <2> QED  BY <2>1, <2>2
<1>2. \E x \in T : \A y \in T : x <= y
  <2> HIDE DEF T
  <2> QED  BY <1>1, HasFirst
<1>3. PICK i \in S : \A j \in S : n - i <= n - j  BY <1>2
<1>4. \A j \in S : j <= i  BY <1>3
<1> QED  BY <1>4 DEF Last

\* The last place of a set with a greater one added is that one.
LEMMA LastAdded ==
  ASSUME NEW n \in Nat, NEW S \in SUBSET (1..n)
  PROVE  Last(S \cup {n + 1}) = n + 1
<1>1. \A i \in S : i \in Nat /\ i <= n  OBVIOUS
<1>2. \A i \in S \cup {n + 1} : i <= n + 1  BY <1>1
<1>3. \A i \in S \cup {n + 1} :
        (\A j \in S \cup {n + 1} : j <= i) => i = n + 1
  BY <1>1
<1> QED  BY <1>2, <1>3 DEF Last

-----------------------------------------------------------------------------
(* What a query says *)

\* A parameter of a sequence of them is one, and its value has its key's type.
LEMMA ParamTypes ==
  ASSUME NEW p \in Param
  PROVE  /\ p.key \in {"info_hash", "port", "left", "numwant", "event",
                       "compact", "other"}
         /\ p.ok \in BOOLEAN
         /\ p.key = "info_hash" => p.val \in Hash
         /\ p.key = "port" => p.val \in Port
         /\ p.key = "left" => p.val \in Nat
         /\ p.key = "numwant" => p.val \in Nat
BY DEF Param

LEMMA PlaceOf ==
  ASSUME NEW q \in Seq(Param), NEW key, Places(q, key) # {}
  PROVE  LET i == Last(Places(q, key))
         IN  /\ i \in Places(q, key) /\ i \in 1..Len(q)
             /\ q[i] \in Param /\ q[i].key = key
<1>1. Len(q) \in Nat /\ Places(q, key) \in SUBSET (1..Len(q))  BY DEF Places
<1>2. Last(Places(q, key)) \in Places(q, key)  BY <1>1, HasLast
<1> QED  BY <1>2 DEF Places

\* A request that is neither malformed nor incomplete names a torrent and a port.
LEMMA SaidTypes ==
  ASSUME NEW q \in Seq(Param), ~Incomplete(q)
  PROVE  /\ Said(q, "info_hash", "") \in Hash
         /\ Said(q, "port", 0) \in Port
<1>1. Places(q, "info_hash") # {} /\ Places(q, "port") # {}  BY DEF Incomplete
<1>2. Said(q, "info_hash", "") = q[Last(Places(q, "info_hash"))].val
  BY <1>1 DEF Said
<1>3. Said(q, "port", 0) = q[Last(Places(q, "port"))].val
  BY <1>1 DEF Said
<1>4. Said(q, "info_hash", "") \in Hash
  <2> DEFINE a == q[Last(Places(q, "info_hash"))]
  <2>1. a \in Param /\ a.key = "info_hash"  BY <1>1, PlaceOf
  <2> HIDE DEF a
  <2>2. a.val \in Hash  BY <2>1, ParamTypes
  <2> QED  BY <1>2, <2>2 DEF a
<1>5. Said(q, "port", 0) \in Port
  <2> DEFINE a == q[Last(Places(q, "port"))]
  <2>1. a \in Param /\ a.key = "port"  BY <1>1, PlaceOf
  <2> HIDE DEF a
  <2>2. a.val \in Port  BY <2>1, ParamTypes
  <2> QED  BY <1>3, <2>2 DEF a
<1> QED  BY <1>4, <1>5

\* Only a last value that is well-formed and zero makes a seeder.
LEMMA LeftZeroIsSaid ==
  ASSUME NEW q \in Seq(Param), Left(q) = 0
  PROVE  \E i \in Places(q, "left") :
           /\ \A j \in Places(q, "left") : j <= i
           /\ q[i].ok /\ q[i].val = 0
<1>1. Places(q, "left") # {} /\ q[Last(Places(q, "left"))].ok
      /\ q[Last(Places(q, "left"))].val = 0
  BY DEF Left
<1>2. Len(q) \in Nat /\ Places(q, "left") \in SUBSET (1..Len(q))  BY DEF Places
<1> QED  BY <1>1, <1>2, HasLast

-----------------------------------------------------------------------------
(* The loop *)

\* The places of a key among the first n parameters.
Upto(q, n, key) == {i \in 1..n : q[i].key = key}

\* Those of them that parse.
Legible(q, n, key) == {i \in 1..n : q[i].key = key /\ q[i].ok}

LEMMA UptoNext ==
  ASSUME NEW q, NEW n \in Nat, NEW key
  PROVE  /\ q[n + 1].key # key => Upto(q, n + 1, key) = Upto(q, n, key)
         /\ q[n + 1].key = key => /\ Upto(q, n + 1, key) # {}
                                  /\ Last(Upto(q, n + 1, key)) = n + 1
<1>1. q[n + 1].key # key => Upto(q, n + 1, key) = Upto(q, n, key)  BY DEF Upto
<1>2. ASSUME q[n + 1].key = key
      PROVE  /\ Upto(q, n + 1, key) # {}
             /\ Last(Upto(q, n + 1, key)) = n + 1
  <2>1. Upto(q, n + 1, key) = Upto(q, n, key) \cup {n + 1}  BY <1>2 DEF Upto
  <2>2. Upto(q, n, key) \in SUBSET (1..n)  BY DEF Upto
  <2> QED  BY <2>1, <2>2, LastAdded
<1> QED  BY <1>1, <1>2

LEMMA LegibleNext ==
  ASSUME NEW q, NEW n \in Nat, NEW key
  PROVE  /\ ~(q[n + 1].key = key /\ q[n + 1].ok) =>
              Legible(q, n + 1, key) = Legible(q, n, key)
         /\ q[n + 1].key = key /\ q[n + 1].ok =>
              /\ Legible(q, n + 1, key) # {}
              /\ Last(Legible(q, n + 1, key)) = n + 1
<1>1. ~(q[n + 1].key = key /\ q[n + 1].ok) =>
        Legible(q, n + 1, key) = Legible(q, n, key)
  BY DEF Legible
<1>2. ASSUME q[n + 1].key = key /\ q[n + 1].ok
      PROVE  /\ Legible(q, n + 1, key) # {}
             /\ Last(Legible(q, n + 1, key)) = n + 1
  <2>1. Legible(q, n + 1, key) = Legible(q, n, key) \cup {n + 1}
    BY <1>2 DEF Legible
  <2>2. Legible(q, n, key) \in SUBSET (1..n)  BY DEF Legible
  <2> QED  BY <2>1, <2>2, LastAdded
<1> QED  BY <1>1, <1>2

IsLocals(s) ==
  /\ s = [ returned |-> s.returned, hash |-> s.hash, port |-> s.port,
           left |-> s.left, event |-> s.event, numwant |-> s.numwant ]
  /\ s.returned \in BOOLEAN

\* The locals after n turns: what the last of each key says, if none returned.
Reached(q, n, s) ==
  LET val(key)  == q[Last(Upto(q, n, key))].val
      none(key) == Upto(q, n, key) = {}
  IN  /\ IsLocals(s)
      /\ s.returned <=> \E i \in 1..n : Returns(q[i])
      /\ ~s.returned =>
           /\ s.hash = IF none("info_hash") THEN <<>> ELSE <<val("info_hash")>>
           /\ s.port = IF none("port") THEN <<>> ELSE <<val("port")>>
           /\ s.left = IF ~none("left") /\ q[Last(Upto(q, n, "left"))].ok
                       THEN val("left") ELSE 1
           /\ s.event = IF none("event") THEN "" ELSE val("event")
           /\ s.numwant = IF Legible(q, n, "numwant") = {} THEN NUMWANT_DEFAULT
                          ELSE Least(q[Last(Legible(q, n, "numwant"))].val, NUMWANT_MAX)

LEMMA ReachedFirst == ASSUME NEW q PROVE Reached(q, 0, Unread)
<1>1. IsLocals(Unread)  BY DEF IsLocals, Unread
<1>2. \A key : Upto(q, 0, key) = {} /\ Legible(q, 0, key) = {}
  BY DEF Upto, Legible
<1>3. /\ ~Unread.returned /\ Unread.hash = <<>> /\ Unread.port = <<>>
      /\ Unread.left = 1 /\ Unread.event = "" /\ Unread.numwant = NUMWANT_DEFAULT
  BY DEF Unread
<1>4. ~\E i \in 1..0 : Returns(q[i])  OBVIOUS
<1> HIDE DEF Unread
<1> QED  BY <1>1, <1>2, <1>3, <1>4 DEF Reached

\* One parameter sets the local of its key.
LEMMA ReadIs ==
  ASSUME NEW s, IsLocals(s), NEW p
  PROVE  LET t == Read(s, p)
         IN  /\ IsLocals(t) /\ t.returned = s.returned
             /\ t.hash  = IF p.key = "info_hash" THEN <<p.val>> ELSE s.hash
             /\ t.port  = IF p.key = "port" THEN <<p.val>> ELSE s.port
             /\ t.left  = IF p.key = "left" THEN IF p.ok THEN p.val ELSE 1 ELSE s.left
             /\ t.event = IF p.key = "event" THEN p.val ELSE s.event
             /\ t.numwant = IF p.key = "numwant" /\ p.ok
                            THEN Least(p.val, NUMWANT_MAX) ELSE s.numwant
<1>1. CASE p.key = "info_hash"  BY <1>1 DEF Read, IsLocals
<1>2. CASE p.key = "port"  BY <1>2 DEF Read, IsLocals
<1>3. CASE p.key = "left"  BY <1>3 DEF Read, IsLocals
<1>4. CASE p.key = "event"  BY <1>4 DEF Read, IsLocals
<1>5. CASE p.key = "numwant" /\ p.ok  BY <1>5 DEF Read, IsLocals
<1>6. CASE /\ p.key \notin {"info_hash", "port", "left", "event"}
           /\ ~(p.key = "numwant" /\ p.ok)
  BY <1>6 DEF Read, IsLocals
<1> QED  BY <1>1, <1>2, <1>3, <1>4, <1>5, <1>6

LEMMA ReachedNext ==
  ASSUME NEW q, NEW n \in Nat, NEW s, Reached(q, n, s)
  PROVE  Reached(q, n + 1, Turn(s, q[n + 1]))
<1> DEFINE p == q[n + 1]
<1>1. IsLocals(s) /\ (s.returned <=> \E i \in 1..n : Returns(q[i]))
      /\ s.returned \in BOOLEAN
  BY DEF Reached, IsLocals
<1>2. (\E i \in 1..(n + 1) : Returns(q[i])) <=>
        (\E i \in 1..n : Returns(q[i])) \/ Returns(q[n + 1])
  <2>1. 1..(n + 1) = (1..n) \cup {n + 1}  OBVIOUS
  <2> QED  BY <2>1
<1>3. CASE s.returned
  BY <1>1, <1>2, <1>3 DEF Turn, Reached
<1>4. CASE ~s.returned /\ Returns(q[n + 1])
  <2> DEFINE yes == TRUE
             t == [s EXCEPT !.returned = yes]
  <2>1. Turn(s, q[n + 1]) = t  BY <1>4 DEF Turn
  <2>2. t.returned = yes
        /\ t = [ returned |-> t.returned, hash |-> t.hash, port |-> t.port,
                 left |-> t.left, event |-> t.event, numwant |-> t.numwant ]
    <3> HIDE DEF yes
    <3> QED  BY <1>1 DEF IsLocals
  <2> HIDE DEF t
  <2>3. IsLocals(t) /\ t.returned  BY <2>2 DEF IsLocals
  <2> QED  BY <1>2, <1>4, <2>1, <2>3 DEF Reached
<1>5. CASE ~s.returned /\ ~Returns(q[n + 1])
  <2> DEFINE t == Read(s, p)
  <2>1. Turn(s, q[n + 1]) = t  BY <1>5 DEF Turn
  <2>2. /\ IsLocals(t) /\ t.returned = s.returned
        /\ t.hash  = IF p.key = "info_hash" THEN <<p.val>> ELSE s.hash
        /\ t.port  = IF p.key = "port" THEN <<p.val>> ELSE s.port
        /\ t.left  = IF p.key = "left" THEN IF p.ok THEN p.val ELSE 1 ELSE s.left
        /\ t.event = IF p.key = "event" THEN p.val ELSE s.event
        /\ t.numwant = IF p.key = "numwant" /\ p.ok
                       THEN Least(p.val, NUMWANT_MAX) ELSE s.numwant
    BY <1>1, ReadIs
  <2> HIDE DEF t
  <2> DEFINE m == n + 1
  <2>3. \A key : /\ p.key # key => Upto(q, m, key) = Upto(q, n, key)
                 /\ p.key = key => Upto(q, m, key) # {} /\ q[Last(Upto(q, m, key))] = p
    BY UptoNext
  <2>4. \A key : /\ ~(p.key = key /\ p.ok) => Legible(q, m, key) = Legible(q, n, key)
                 /\ p.key = key /\ p.ok =>
                      Legible(q, m, key) # {} /\ q[Last(Legible(q, m, key))] = p
    BY LegibleNext
  <2> HIDE DEF p, m
  <2>5. t.hash = IF Upto(q, m, "info_hash") = {} THEN <<>>
                 ELSE <<q[Last(Upto(q, m, "info_hash"))].val>>
    BY <1>5, <2>2, <2>3 DEF Reached
  <2>6. t.port = IF Upto(q, m, "port") = {} THEN <<>>
                 ELSE <<q[Last(Upto(q, m, "port"))].val>>
    BY <1>5, <2>2, <2>3 DEF Reached
  <2>7. t.left = IF Upto(q, m, "left") # {} /\ q[Last(Upto(q, m, "left"))].ok
                 THEN q[Last(Upto(q, m, "left"))].val ELSE 1
    <3>1. CASE p.key = "left"  BY <2>2, <2>3, <3>1
    <3>2. CASE p.key # "left"  BY <1>5, <2>2, <2>3, <3>2 DEF Reached
    <3> QED  BY <3>1, <3>2
  <2>8. t.event = IF Upto(q, m, "event") = {} THEN ""
                  ELSE q[Last(Upto(q, m, "event"))].val
    BY <1>5, <2>2, <2>3 DEF Reached
  <2>9. t.numwant = IF Legible(q, m, "numwant") = {} THEN NUMWANT_DEFAULT
                    ELSE Least(q[Last(Legible(q, m, "numwant"))].val, NUMWANT_MAX)
    <3>1. CASE p.key = "numwant" /\ p.ok  BY <2>2, <2>4, <3>1
    <3>2. CASE ~(p.key = "numwant" /\ p.ok)  BY <1>5, <2>2, <2>4, <3>2 DEF Reached
    <3> QED  BY <3>1, <3>2
  <2>10. t.returned <=> \E i \in 1..m : Returns(q[i])
    BY <1>1, <1>2, <1>5, <2>2 DEF m
  <2> QED
    BY <2>1, <2>2, <2>5, <2>6, <2>7, <2>8, <2>9, <2>10 DEF Reached, m
<1> QED  BY <1>1, <1>3, <1>4, <1>5

\* The locals after every turn of the loop over the first n parameters.
Turns(f, q, n) ==
  f = [i \in 0..n |-> IF i = 0 THEN Unread ELSE Turn(f[i - 1], q[i])]

\* There are such locals, for any number of parameters: a shortest query that
\* had none would have them from the one before it.
LEMMA TurnsExist ==
  ASSUME NEW q, NEW n \in Nat
  PROVE  \E f : Turns(f, q, n)
<1> DEFINE Without == {m \in Nat : ~\E f : Turns(f, q, m)}
<1>1. ASSUME Without # {} PROVE FALSE
  <2>1. PICK m \in Without : \A k \in Without : m <= k
    <3>1. Without \in SUBSET Nat  OBVIOUS
    <3> HIDE DEF Without
    <3> QED  BY <1>1, <3>1, HasFirst
  <2>2. m \in Nat /\ ~\E f : Turns(f, q, m)  OBVIOUS
  <2>3. CASE m = 0
    <3> DEFINE f == [i \in 0..0 |-> Unread]
    <3>1. f = [i \in 0..0 |-> IF i = 0 THEN Unread ELSE Turn(f[i - 1], q[i])]
      OBVIOUS
    <3>2. Turns(f, q, 0)  BY <3>1 DEF Turns
    <3> QED  BY <2>2, <2>3, <3>2
  <2>4. CASE m # 0
    <3>1. m - 1 \in Nat /\ m - 1 \notin Without
      <4>1. m - 1 \in Nat /\ m - 1 < m  BY <2>2, <2>4
      <4> HIDE DEF Without
      <4> QED  BY <2>1, <2>2, <4>1
    <3>2. PICK f : Turns(f, q, m - 1)  BY <3>1
    <3> HIDE DEF Without
    <3> DEFINE g == [i \in 0..m |-> IF i = m THEN Turn(f[m - 1], q[m]) ELSE f[i]]
    <3>3. \A i \in 0..(m - 1) : f[i] = IF i = 0 THEN Unread ELSE Turn(f[i - 1], q[i])
      BY <3>2 DEF Turns
    <3>4. ASSUME NEW i \in 0..m
          PROVE  g[i] = IF i = 0 THEN Unread ELSE Turn(g[i - 1], q[i])
      <4>1. CASE i = m
        <5>1. g[i] = Turn(f[m - 1], q[m])  BY <4>1
        <5>2. g[i - 1] = f[m - 1]  BY <2>2, <2>4, <4>1
        <5> QED  BY <2>4, <4>1, <5>1, <5>2
      <4>2. CASE i # m
        <5>1. i \in 0..(m - 1) /\ g[i] = f[i]  BY <2>2, <4>2
        <5>2. i # 0 => i - 1 \in 0..m /\ i - 1 # m /\ g[i - 1] = f[i - 1]
          BY <2>2, <5>1
        <5> HIDE DEF g
        <5> QED  BY <3>3, <5>1, <5>2
      <4> QED  BY <4>1, <4>2
    <3>5. g = [i \in 0..m |-> g[i]]  OBVIOUS
    <3> HIDE DEF g
    <3>6. Turns(g, q, m)  BY <3>4, <3>5 DEF Turns
    <3> QED  BY <2>2, <3>6
  <2> QED  BY <2>3, <2>4
<1> QED  BY <1>1

LEMMA TurnsReach ==
  ASSUME NEW q, NEW n \in Nat, NEW f, Turns(f, q, n)
  PROVE  Reached(q, n, f[n])
<1> DEFINE Off == {m \in 0..n : ~Reached(q, m, f[m])}
<1>1. \A i \in 0..n : f[i] = IF i = 0 THEN Unread ELSE Turn(f[i - 1], q[i])
  BY DEF Turns
<1>2. ASSUME Off # {} PROVE FALSE
  <2>1. PICK m \in Off : \A k \in Off : m <= k
    <3>1. Off \in SUBSET Nat  OBVIOUS
    <3> HIDE DEF Off
    <3> QED  BY <1>2, <3>1, HasFirst
  <2>2. m \in 0..n /\ ~Reached(q, m, f[m])  OBVIOUS
  <2>3. CASE m = 0
    <3>1. f[0] = Unread  BY <1>1
    <3> QED  BY <2>2, <2>3, <3>1, ReachedFirst
  <2>4. CASE m # 0
    <3>1. m - 1 \in 0..n /\ m - 1 \in Nat /\ m - 1 < m /\ (m - 1) + 1 = m
      BY <2>2, <2>4
    <3>2. Reached(q, m - 1, f[m - 1])
      <4>1. m - 1 \notin Off
        <5> HIDE DEF Off
        <5> QED  BY <2>1, <2>2, <3>1
      <4> QED  BY <3>1, <4>1
    <3>3. f[m] = Turn(f[m - 1], q[m])  BY <1>1, <2>2, <2>4
    <3>4. Reached(q, (m - 1) + 1, Turn(f[m - 1], q[(m - 1) + 1]))
      BY <3>1, <3>2, ReachedNext
    <3> QED  BY <2>2, <3>1, <3>3, <3>4
  <2> QED  BY <2>3, <2>4
<1> QED  BY <1>2

\* The loop reaches the end of the query.
LEMMA LoopReaches ==
  ASSUME NEW q \in Seq(Param)
  PROVE  Reached(q, Len(q), Looped(q))
<1>1. Len(q) \in Nat  OBVIOUS
<1>2. \E f : f = [i \in 0..Len(q) |-> IF i = 0 THEN Unread ELSE Turn(f[i - 1], q[i])]
  BY <1>1, TurnsExist DEF Turns
<1>3. \E f : /\ f = [i \in 0..Len(q) |-> IF i = 0 THEN Unread ELSE Turn(f[i - 1], q[i])]
             /\ Looped(q) = f[Len(q)]
  BY <1>2, Zenon DEF Looped
<1>4. PICK f : Turns(f, q, Len(q)) /\ Looped(q) = f[Len(q)]  BY <1>3 DEF Turns
<1> QED  BY <1>1, <1>4, TurnsReach

\* The loop, with its returns and what it overwrites, against what a query says.
LEMMA LoopedIs ==
  ASSUME NEW q \in Seq(Param)
  PROVE  LET s == Looped(q)
         IN  /\ s.returned <=> Malformed(q)
             /\ ~s.returned =>
                  /\ (s.hash = <<>> \/ s.port = <<>>) <=> Incomplete(q)
                  /\ s.left = Left(q) /\ s.event = Said(q, "event", "")
                  /\ s.numwant = Numwant(q)
                  /\ ~Incomplete(q) =>
                       /\ s.hash[1] = Said(q, "info_hash", "")
                       /\ s.port[1] = Said(q, "port", 0)
<1> DEFINE s == Looped(q)
           n == Len(q)
<1>1. Reached(q, n, s)  BY LoopReaches
<1>2. \A key : Upto(q, n, key) = Places(q, key)  BY DEF Upto, Places
<1>3. Legible(q, n, "numwant") = {i \in Places(q, "numwant") : q[i].ok}
  BY DEF Legible, Places
<1> HIDE DEF s
<1>4. s.returned <=> Malformed(q)  BY <1>1 DEF Reached, Malformed
<1>5. ASSUME ~s.returned
      PROVE  /\ s.left = Left(q) /\ s.event = Said(q, "event", "")
             /\ s.numwant = Numwant(q)
  <2>1. s.left = Left(q)
    <3>1. Upto(q, n, "left") = Places(q, "left")  BY <1>2
    <3> QED  BY <1>1, <1>5, <3>1 DEF Reached, Left
  <2>2. s.event = Said(q, "event", "")
    <3>1. Upto(q, n, "event") = Places(q, "event")  BY <1>2
    <3> QED  BY <1>1, <1>5, <3>1 DEF Reached, Said
  <2>3. s.numwant = Numwant(q)  BY <1>1, <1>3, <1>5 DEF Reached, Numwant
  <2> QED  BY <2>1, <2>2, <2>3
<1>6. ASSUME ~s.returned
      PROVE  /\ (s.hash = <<>> \/ s.port = <<>>) <=> Incomplete(q)
             /\ ~Incomplete(q) => /\ s.hash[1] = Said(q, "info_hash", "")
                                  /\ s.port[1] = Said(q, "port", 0)
  <2>1. /\ s.hash = IF Places(q, "info_hash") = {} THEN <<>>
                    ELSE <<Said(q, "info_hash", "")>>
        /\ s.port = IF Places(q, "port") = {} THEN <<>> ELSE <<Said(q, "port", 0)>>
    BY <1>1, <1>2, <1>6 DEF Reached, Said
  <2>2. \A x : <<x>> # <<>> /\ <<x>>[1] = x  OBVIOUS
  <2> QED  BY <2>1, <2>2 DEF Incomplete
<1> QED  BY <1>4, <1>5, <1>6 DEF s

LEMMA UnderstandsMeaning ==
  ASSUME NEW q \in Seq(Param)
  PROVE  Understood(q) = Meaning(q)
<1> DEFINE s == Looped(q)
<1>1. /\ s.returned <=> Malformed(q)
      /\ ~s.returned =>
           /\ (s.hash = <<>> \/ s.port = <<>>) <=> Incomplete(q)
           /\ s.left = Left(q) /\ s.event = Said(q, "event", "")
           /\ s.numwant = Numwant(q)
           /\ ~Incomplete(q) => /\ s.hash[1] = Said(q, "info_hash", "")
                                /\ s.port[1] = Said(q, "port", 0)
  BY LoopedIs
<1>2. Understood(q) = IF s.returned THEN BadRequest
                      ELSE IF s.hash = <<>> \/ s.port = <<>> THEN Failure
                      ELSE Request(s.hash[1], s.port[1], s.left, s.event, s.numwant)
  BY DEF Understood
<1> HIDE DEF s
<1>3. CASE Malformed(q)  BY <1>1, <1>2, <1>3 DEF Meaning
<1>4. CASE ~Malformed(q) /\ Incomplete(q)  BY <1>1, <1>2, <1>4 DEF Meaning
<1>5. CASE ~Malformed(q) /\ ~Incomplete(q)  BY <1>1, <1>2, <1>5 DEF Meaning
<1> QED  BY <1>3, <1>4, <1>5

-----------------------------------------------------------------------------
(* The order of the parameters *)

\* The query with its parameters rearranged.
Rearranged(q, p) == [i \in 1..Len(q) |-> q[p[i]]]

LEMMA RearrangedIs ==
  ASSUME NEW q \in Seq(Param), NEW p \in Rearrangements(q)
  PROVE  /\ Rearranged(q, p) \in Seq(Param)
         /\ Len(Rearranged(q, p)) = Len(q)
         /\ \A i \in 1..Len(q) : /\ p[i] \in 1..Len(q)
                                 /\ Rearranged(q, p)[i] = q[p[i]]
         /\ \A j \in 1..Len(q) : \E i \in 1..Len(q) : p[i] = j
<1>1. \A i \in 1..Len(q) : p[i] \in 1..Len(q)  BY DEF Rearrangements
<1>2. \A i \in 1..Len(q) : q[p[i]] \in Param  BY <1>1
<1>3. Rearranged(q, p) \in Seq(Param) /\ Len(Rearranged(q, p)) = Len(q)
  BY <1>2 DEF Rearranged
<1>4. \A j \in 1..Len(q) : \E i \in 1..Len(q) : p[i] = j  BY DEF Rearrangements
<1> QED  BY <1>1, <1>3, <1>4 DEF Rearranged

\* The last of some parameters of one key is the last of them elsewhere, too.
LEMMA LastMoves ==
  ASSUME NEW q \in Seq(Param), NEW p \in Rearrangements(q), NEW key,
         NEW A \in SUBSET Places(q, key), NEW B,
         B = {i \in 1..Len(q) : p[i] \in A}
  PROVE  /\ B = {} <=> A = {}
         /\ A # {} => p[Last(B)] = Last(A)
<1> DEFINE n == Len(q)
<1>1. /\ n \in Nat
      /\ \A i \in 1..n : p[i] \in 1..n
      /\ \A j \in 1..n : \E i \in 1..n : p[i] = j
      /\ \A i, j \in 1..n : i < j /\ q[p[i]].key = q[p[j]].key => p[i] < p[j]
  BY DEF Rearrangements
<1>2. A \in SUBSET (1..n) /\ \A a \in A : q[a].key = key  BY DEF Places
<1> HIDE DEF n
<1>3. B = {i \in 1..n : p[i] \in A}  BY DEF n
<1>4. B = {} <=> A = {}  BY <1>1, <1>2, <1>3
<1>5. ASSUME A # {} PROVE p[Last(B)] = Last(A)
  <2>1. Last(A) \in A /\ \A j \in A : j <= Last(A)  BY <1>1, <1>2, <1>5, HasLast
  <2>2. Last(B) \in B /\ \A j \in B : j <= Last(B)
    BY <1>1, <1>3, <1>4, <1>5, HasLast
  <2> DEFINE a == Last(A)
             b == Last(B)
  <2> HIDE DEF a, b
  <2>3. PICK i \in 1..n : p[i] = a  BY <1>1, <1>2, <2>1 DEF a
  <2>4. a \in A /\ b \in B /\ b \in 1..n /\ p[b] \in A /\ p[b] <= a /\ i <= b
    BY <1>3, <2>1, <2>2, <2>3 DEF a, b
  <2>5. i < b => p[i] < p[b]
    <3>1. q[a].key = key /\ q[p[b]].key = key  BY <1>2, <2>4
    <3>2. q[p[i]].key = q[p[b]].key  BY <2>3, <3>1
    <3> QED  BY <1>1, <2>4, <3>2
  <2>6. a \in 1..n /\ p[b] \in 1..n  BY <1>2, <2>4
  <2>7. i = b
    <3>1. /\ i \in Int /\ b \in Int /\ a \in Int /\ p[b] \in Int
          /\ i <= b /\ p[b] <= a /\ p[i] = a
      BY <1>1, <2>3, <2>4, <2>6
    <3>2. ~(i < b)  BY <2>5, <3>1
    <3> QED  BY <3>1, <3>2
  <2> QED  BY <2>3, <2>7 DEF a, b
<1> QED  BY <1>4, <1>5

\* So a key says the same.
LEMMA SameLast ==
  ASSUME NEW q \in Seq(Param), NEW p \in Rearrangements(q), NEW key
  PROVE  LET r == Rearranged(q, p)
         IN  /\ Places(r, key) = {} <=> Places(q, key) = {}
             /\ Places(q, key) # {} =>
                  r[Last(Places(r, key))] = q[Last(Places(q, key))]
<1> DEFINE r == Rearranged(q, p)
<1>1. /\ Len(r) = Len(q) /\ Len(q) \in Nat
      /\ \A i \in 1..Len(q) : p[i] \in 1..Len(q) /\ r[i] = q[p[i]]
  BY RearrangedIs
<1> HIDE DEF r
<1> DEFINE A == Places(q, key)
           B == Places(r, key)
<1>2. B = {i \in 1..Len(q) : p[i] \in A}  BY <1>1 DEF Places
<1>3. A \in SUBSET Places(q, key)  OBVIOUS
<1>4. B \in SUBSET (1..Len(q))  BY <1>1 DEF Places
<1> HIDE DEF A, B
<1>5. (B = {} <=> A = {}) /\ (A # {} => p[Last(B)] = Last(A))
  BY <1>2, <1>3, LastMoves
<1>6. ASSUME A # {} PROVE r[Last(B)] = q[Last(A)]
  <2>1. Last(B) \in 1..Len(q)  BY <1>1, <1>4, <1>5, <1>6, HasLast
  <2> QED  BY <1>1, <1>5, <1>6, <2>1
<1> QED  BY <1>5, <1>6 DEF A, B, r

LEMMA SameNumwant ==
  ASSUME NEW q \in Seq(Param), NEW p \in Rearrangements(q)
  PROVE  Numwant(Rearranged(q, p)) = Numwant(q)
<1> DEFINE r == Rearranged(q, p)
<1>1. /\ Len(r) = Len(q) /\ Len(q) \in Nat
      /\ \A i \in 1..Len(q) : p[i] \in 1..Len(q) /\ r[i] = q[p[i]]
  BY RearrangedIs
<1> HIDE DEF r
<1> DEFINE key == "numwant"
           A == {i \in Places(q, key) : q[i].ok}
           B == {i \in Places(r, key) : r[i].ok}
<1>2. B = {i \in 1..Len(q) : p[i] \in A}  BY <1>1 DEF Places
<1>3. A \in SUBSET Places(q, key)  OBVIOUS
<1>4. B \in SUBSET (1..Len(q))  BY <1>1 DEF Places
<1>5. /\ Numwant(q) = IF A = {} THEN NUMWANT_DEFAULT
                      ELSE Least(q[Last(A)].val, NUMWANT_MAX)
      /\ Numwant(r) = IF B = {} THEN NUMWANT_DEFAULT
                      ELSE Least(r[Last(B)].val, NUMWANT_MAX)
  BY DEF Numwant
<1> HIDE DEF A, B, key
<1>6. (B = {} <=> A = {}) /\ (A # {} => p[Last(B)] = Last(A))
  BY <1>2, <1>3, LastMoves
<1>7. ASSUME A # {} PROVE r[Last(B)] = q[Last(A)]
  <2>1. Last(B) \in 1..Len(q)  BY <1>1, <1>4, <1>6, <1>7, HasLast
  <2> QED  BY <1>1, <1>6, <1>7, <2>1
<1>8. Numwant(r) = Numwant(q)  BY <1>5, <1>6, <1>7
<1> QED  BY <1>8 DEF r

LEMMA SameMalformed ==
  ASSUME NEW q \in Seq(Param), NEW p \in Rearrangements(q)
  PROVE  Malformed(Rearranged(q, p)) <=> Malformed(q)
<1> DEFINE r == Rearranged(q, p)
<1>1. /\ Len(r) = Len(q) /\ Len(q) \in Nat
      /\ \A i \in 1..Len(q) : p[i] \in 1..Len(q) /\ r[i] = q[p[i]]
      /\ \A j \in 1..Len(q) : \E i \in 1..Len(q) : p[i] = j
  BY RearrangedIs
<1> HIDE DEF r
<1>2. Malformed(r) => Malformed(q)  BY <1>1 DEF Malformed
<1>3. ASSUME Malformed(q) PROVE Malformed(r)
  <2>1. PICK j \in 1..Len(q) : Returns(q[j])  BY <1>3 DEF Malformed
  <2>2. PICK i \in 1..Len(q) : p[i] = j  BY <1>1
  <2>3. r[i] = q[j]  BY <1>1, <2>2
  <2> QED  BY <1>1, <2>1, <2>3 DEF Malformed
<1> QED  BY <1>2, <1>3 DEF r

LEMMA SameMeaning ==
  ASSUME NEW q \in Seq(Param), NEW p \in Rearrangements(q)
  PROVE  Meaning(Rearranged(q, p)) = Meaning(q)
<1> DEFINE r == Rearranged(q, p)
<1>1. \A key : /\ Places(r, key) = {} <=> Places(q, key) = {}
               /\ Places(q, key) # {} =>
                    r[Last(Places(r, key))] = q[Last(Places(q, key))]
  BY SameLast
<1>2. (Malformed(r) <=> Malformed(q)) /\ Numwant(r) = Numwant(q)
  BY SameMalformed, SameNumwant
<1> HIDE DEF r
<1>3. \A key, default : Said(r, key, default) = Said(q, key, default)
  BY <1>1 DEF Said
<1>4. Left(r) = Left(q)  BY <1>1 DEF Left
<1>5. Incomplete(r) <=> Incomplete(q)  BY <1>1 DEF Incomplete
<1> QED  BY <1>2, <1>3, <1>4, <1>5 DEF Meaning, r

\* Every announce that is asked is one of the queries.
Asked == request.via = "announce" => request.query \in AnnounceQueries

LEMMA QueryIsParams ==
  /\ AnnounceQueries \subseteq Seq(Param)
  /\ ScrapeQueries \subseteq Seq(Param)
BY QueryAssumption

\* The loop, which returns from its middle and overwrites what it has read,
\* understands a query by the last of each key and whatever order its keys come
\* in, for queries of any length in which any key may come again.
THEOREM OrderIsFree == Spec => []OrderFree
<1>1. Init => Asked  BY DEF Init, Asked
<1>2. ASSUME Asked, [Next]_vars PROVE Asked'
  <2>1. ASSUME NEW ip \in Ip, NEW q \in AnnounceQueries, HttpAnnounce(ip, q)
        PROVE  Asked'
    BY <2>1 DEF HttpAnnounce, Asked
  <2>2. ASSUME NEW q \in ScrapeQueries, HttpScrape(q) PROVE Asked'
    BY <2>2 DEF HttpScrape, Asked
  <2>3. CASE HttpOther  BY <2>3 DEF HttpOther, Asked
  <2>4. CASE ScrapeHash  BY <1>2, <2>4 DEF ScrapeHash, Asked
  <2>5. CASE ScrapeEnd  BY <1>2, <2>5 DEF ScrapeEnd, Asked
  <2>6. ASSUME NEW ip, NEW h, NEW port, NEW left, NEW event, NEW numwant,
               UdpAnnounce(ip, h, port, left, event, numwant)
        PROVE  Asked'
    BY <2>6 DEF UdpAnnounce, Asked
  <2>7. CASE UNCHANGED vars  BY <1>2, <2>7 DEF vars, Asked
  <2> QED
    BY <1>2, <2>1, <2>2, <2>3, <2>4, <2>5, <2>6, <2>7 DEF Next
<1>3. ASSUME Asked PROVE OrderFree
  <2> SUFFICES ASSUME request.via = "announce",
                      NEW p \in Rearrangements(request.query)
               PROVE  Understood(Rearranged(request.query, p))
                        = Meaning(request.query)
    BY DEF OrderFree, Rearranged
  <2> DEFINE r == Rearranged(request.query, p)
  <2>1. request.query \in Seq(Param)  BY <1>3, QueryIsParams DEF Asked
  <2>2. r \in Seq(Param)  BY <2>1, RearrangedIs
  <2>3. Meaning(r) = Meaning(request.query)  BY <2>1, SameMeaning
  <2> HIDE DEF r
  <2>4. Understood(r) = Meaning(r)  BY <2>2, UnderstandsMeaning
  <2> QED  BY <2>3, <2>4 DEF r
<1>4. QED
  BY <1>1, <1>2, <1>3, PTL DEF Spec

-----------------------------------------------------------------------------
(* The lists *)

\* Every list is exact, and holds addresses of its family only.
ListsInv(ls) ==
  /\ ls = [h \in Hash |-> [f \in Family |-> ls[h][f]]]
  /\ \A h \in Hash, f \in Family :
       /\ ListInv(ls[h][f])
       /\ \A k \in Registered(ls[h][f]) : FamilyOf(k[1]) = f

\* What a request makes of the list it is about.
Served(l, k, flags, stopped) ==
  IF stopped THEN remove(l, k) ELSE announce(l, k, flags, 0)

LEMMA ServedList ==
  ASSUME NEW l, ListInv(l), NEW k \in Key, NEW flags \in SUBSET Flag,
         NEW stopped \in BOOLEAN
  PROVE  LET m == Served(l, k, flags, stopped)
         IN  /\ ListInv(m)
             /\ Registered(m) \subseteq Registered(l) \cup {k}
             /\ m.downloaded >= l.downloaded
             /\ Having(m, "SEEDING") \subseteq Having(l, "SEEDING") \cup {k}
             /\ "SEEDING" \notin flags =>
                  Having(m, "SEEDING") \subseteq Having(l, "SEEDING")
<1>1. IsList(l) /\ l.downloaded \in Nat  BY DEF ListInv, IsList
<1>2. CASE stopped
  <2>1. Served(l, k, flags, stopped) = remove(l, k)  BY <1>2 DEF Served
  <2>2. l.downloaded >= l.downloaded  BY <1>1
  <2> QED  BY <2>1, <2>2, RemoveInv, RemoveHaving
<1>3. CASE ~stopped
  <2> DEFINE m == announce(l, k, flags, 0)
  <2>1. Served(l, k, flags, stopped) = m  BY <1>3 DEF Served
  <2>2. ListInv(m)  BY AnnounceInv
  <2>3. Registered(m) = Registered(l) \cup {k}  BY AnnounceEntries
  <2>4. m.downloaded >= l.downloaded
    <3>1. m.downloaded = DownloadedAfter(l, OldFlags(l, k), Sanitised(flags))
      BY AnnounceCounters
    <3> QED  BY <1>1, <3>1 DEF DownloadedAfter
  <2>5. /\ Having(m, "SEEDING") \subseteq Having(l, "SEEDING") \cup {k}
        /\ "SEEDING" \notin flags =>
             Having(m, "SEEDING") \subseteq Having(l, "SEEDING")
    <3>1. "SEEDING" \in Sanitised(flags) => "SEEDING" \in flags  BY DEF Sanitised
    <3>2. Having(m, "SEEDING") =
            IF "SEEDING" \in Sanitised(flags) THEN Having(l, "SEEDING") \cup {k}
                                              ELSE Having(l, "SEEDING") \ {k}
      BY <1>1, AnnounceHaving
    <3> HIDE DEF m
    <3> QED  BY <3>1, <3>2
  <2> HIDE DEF m
  <2> QED  BY <2>1, <2>2, <2>3, <2>4, <2>5
<1> QED  BY <1>2, <1>3

LEMMA FamilyType ==
  ASSUME NEW ip
  PROVE  FamilyOf(ip) \in Family
BY DEF FamilyOf, Family

LEMMA AppliedIs ==
  ASSUME ListsInv(lists), NEW h \in Hash, NEW ip, NEW port, NEW flags, NEW stopped
  PROVE  LET after == Applied(h, ip, port, flags, stopped)
         IN  /\ after = [g \in Hash |-> [f \in Family |-> after[g][f]]]
             /\ \A g \in Hash, f \in Family :
                  after[g][f] =
                    IF g = h /\ f = FamilyOf(ip)
                    THEN Served(lists[g][f], <<ip, port>>, flags, stopped)
                    ELSE lists[g][f]
BY FamilyType DEF Applied, Served, ListsInv

\* A request keeps the lists exact and the families apart, takes back no
\* download, and makes a seeder only of its peer, and only if that says it is one.
LEMMA AppliedInv ==
  ASSUME ListsInv(lists), NEW h \in Hash, NEW ip \in Ip, NEW port \in Port,
         NEW flags \in SUBSET Flag, NEW stopped \in BOOLEAN
  PROVE  LET after == Applied(h, ip, port, flags, stopped)
         IN  /\ ListsInv(after)
             /\ \A g \in Hash, f \in Family :
                  after[g][f].downloaded >= lists[g][f].downloaded
             /\ SeedersIn(after) \subseteq
                  SeedersIn(lists) \cup {<<h, FamilyOf(ip), <<ip, port>>>>}
             /\ "SEEDING" \notin flags => SeedersIn(after) \subseteq SeedersIn(lists)
<1> DEFINE after == Applied(h, ip, port, flags, stopped)
           k == <<ip, port>>
<1>1. /\ after = [g \in Hash |-> [f \in Family |-> after[g][f]]]
      /\ \A g \in Hash, f \in Family :
           after[g][f] = IF g = h /\ f = FamilyOf(ip)
                         THEN Served(lists[g][f], k, flags, stopped)
                         ELSE lists[g][f]
  BY AppliedIs
<1>2. k \in Key /\ k[1] = ip  BY KeyAssumption
<1> HIDE DEF after, k
<1>3. ASSUME NEW g \in Hash, NEW f \in Family
      PROVE  /\ ListInv(after[g][f])
             /\ \A x \in Registered(after[g][f]) : FamilyOf(x[1]) = f
             /\ after[g][f].downloaded >= lists[g][f].downloaded
             /\ \A x \in Having(after[g][f], "SEEDING") :
                  \/ x \in Having(lists[g][f], "SEEDING")
                  \/ g = h /\ f = FamilyOf(ip) /\ x = k
             /\ "SEEDING" \notin flags =>
                  Having(after[g][f], "SEEDING") \subseteq Having(lists[g][f], "SEEDING")
  <2>1. /\ ListInv(lists[g][f]) /\ lists[g][f].downloaded \in Nat
        /\ \A x \in Registered(lists[g][f]) : FamilyOf(x[1]) = f
    BY DEF ListsInv, ListInv, IsList
  <2>2. CASE g = h /\ f = FamilyOf(ip)
    <3>1. after[g][f] = Served(lists[g][f], k, flags, stopped)  BY <1>1, <2>2
    <3>2. /\ ListInv(after[g][f])
          /\ Registered(after[g][f]) \subseteq Registered(lists[g][f]) \cup {k}
          /\ after[g][f].downloaded >= lists[g][f].downloaded
          /\ Having(after[g][f], "SEEDING") \subseteq Having(lists[g][f], "SEEDING") \cup {k}
          /\ "SEEDING" \notin flags =>
               Having(after[g][f], "SEEDING") \subseteq Having(lists[g][f], "SEEDING")
      <4> DEFINE l == lists[g][f]
                 m == Served(l, k, flags, stopped)
      <4>1. ListInv(l)  BY <2>1
      <4> HIDE DEF l
      <4>2. /\ ListInv(m)
            /\ Registered(m) \subseteq Registered(l) \cup {k}
            /\ m.downloaded >= l.downloaded
            /\ Having(m, "SEEDING") \subseteq Having(l, "SEEDING") \cup {k}
            /\ "SEEDING" \notin flags =>
                 Having(m, "SEEDING") \subseteq Having(l, "SEEDING")
        BY <1>2, <4>1, ServedList
      <4>3. after[g][f] = m  BY <3>1 DEF l
      <4> HIDE DEF m
      <4> QED  BY <4>2, <4>3 DEF l
    <3> QED  BY <1>2, <2>1, <2>2, <3>2
  <2>3. CASE ~(g = h /\ f = FamilyOf(ip))
    <3>1. after[g][f] = lists[g][f]  BY <1>1, <2>3
    <3> QED  BY <2>1, <3>1
  <2> QED  BY <2>2, <2>3
<1>4. ListsInv(after)  BY <1>1, <1>3 DEF ListsInv
<1>5. "SEEDING" \notin flags => SeedersIn(after) \subseteq SeedersIn(lists)
  BY <1>3 DEF SeedersIn
<1>6. ASSUME NEW r \in SeedersIn(after)
      PROVE  r \in SeedersIn(lists) \cup {<<h, FamilyOf(ip), k>>}
  <2>1. /\ r \in Hash \X Family \X Key
        /\ r[3] \in Having(after[r[1]][r[2]], "SEEDING")
    BY DEF SeedersIn
  <2>2. PICK g \in Hash, f \in Family, x \in Key : r = <<g, f, x>>  BY <2>1
  <2>3. x \in Having(after[g][f], "SEEDING")  BY <2>1, <2>2
  <2>4. CASE x \in Having(lists[g][f], "SEEDING")
    BY <2>2, <2>4 DEF SeedersIn
  <2>5. CASE g = h /\ f = FamilyOf(ip) /\ x = k  BY <2>2, <2>5
  <2> QED  BY <1>3, <2>3, <2>4, <2>5
<1> QED  BY <1>3, <1>4, <1>5, <1>6 DEF after, k

LEMMA FlagTypes ==
  /\ \A left, event : http_flags(left, event) \in SUBSET Flag
  /\ \A left, event : udp_flags(left, event) \in SUBSET Flag
BY DEF http_flags, udp_flags, Flag

-----------------------------------------------------------------------------
(* Counts and downloads *)

LEMMA CountsType ==
  ASSUME NEW ls, ListsInv(ls), NEW h \in Hash
  PROVE  counts(h, ls) \in CountsOf
<1>1. "v4" \in Family /\ "v6" \in Family  BY DEF Family
<1>2. \A f \in Family : /\ ls[h][f].seeders \in Nat
                        /\ ls[h][f].downloaded \in Nat
                        /\ leechers(ls[h][f]) \in Nat
  BY LeechersNat DEF ListsInv, ListInv, IsList
<1>3. Downloads(ls)[h] = ls[h]["v4"].downloaded + ls[h]["v6"].downloaded
  BY DEF Downloads
<1>4. /\ ls[h]["v4"].seeders + ls[h]["v6"].seeders \in Nat
      /\ leechers(ls[h]["v4"]) + leechers(ls[h]["v6"]) \in Nat
      /\ Downloads(ls)[h] \in Nat
  BY <1>1, <1>2, <1>3
<1> QED  BY <1>4, AsU32Type DEF counts, CountsOf

LEMMA DownloadsType ==
  ASSUME NEW ls, ListsInv(ls)
  PROVE  /\ Downloads(ls) \in [Hash -> Nat]
         /\ \A h \in Hash : counts(h, ls).downloaded = AsU32(Downloads(ls)[h])
<1>1. "v4" \in Family /\ "v6" \in Family  BY DEF Family
<1>2. \A h \in Hash, f \in Family : ls[h][f].downloaded \in Nat
  BY DEF ListsInv, ListInv, IsList
<1> QED  BY <1>1, <1>2 DEF Downloads, counts

LEMMA DownloadsGrow ==
  ASSUME NEW ls, ListsInv(ls), NEW after, ListsInv(after),
         \A g \in Hash, f \in Family : after[g][f].downloaded >= ls[g][f].downloaded,
         NEW h \in Hash
  PROVE  Downloads(ls)[h] <= Downloads(after)[h]
<1>1. "v4" \in Family /\ "v6" \in Family  BY DEF Family
<1>2. \A f \in Family : /\ ls[h][f].downloaded \in Nat
                        /\ after[h][f].downloaded \in Nat
                        /\ after[h][f].downloaded >= ls[h][f].downloaded
  BY DEF ListsInv, ListInv, IsList
<1> QED  BY <1>1, <1>2 DEF Downloads

LEMMA DisjointUnion ==
  ASSUME NEW S, IsFiniteSet(S), NEW T, IsFiniteSet(T), S \cap T = {}
  PROVE  Cardinality(S \cup T) = Cardinality(S) + Cardinality(T)
<1>1. Cardinality(S \cup T) = Cardinality(S) + Cardinality(T) - Cardinality(S \cap T)
  BY FS_Union
<1>2. Cardinality(S \cap T) = 0  BY FS_EmptySet
<1>3. Cardinality(S) \in Nat /\ Cardinality(T) \in Nat  BY FS_CardinalityType
<1> QED  BY <1>1, <1>2, <1>3

\* The counts of a reply are of the peers of both families, none of them twice,
\* as far as 32 bits show them.
LEMMA CountsAreAll ==
  ASSUME NEW ls, ListsInv(ls), NEW h \in Hash
  PROVE  LET all   == UNION {Registered(ls[h][g]) : g \in Family}
             seeds == UNION {Having(ls[h][g], "SEEDING") : g \in Family}
         IN  /\ counts(h, ls).complete = AsU32(Cardinality(seeds))
             /\ counts(h, ls).incomplete = AsU32(Cardinality(all \ seeds))
<1> DEFINE l4 == ls[h]["v4"]
           l6 == ls[h]["v6"]
           R4 == Registered(l4)
           R6 == Registered(l6)
           S4 == Having(l4, "SEEDING")
           S6 == Having(l6, "SEEDING")
<1>1. "v4" \in Family /\ "v6" \in Family /\ "v4" # "v6"  BY DEF Family
<1>2. ListInv(l4) /\ ListInv(l6)  BY <1>1 DEF ListsInv
<1>3. /\ UNION {Registered(ls[h][g]) : g \in Family} = R4 \cup R6
      /\ UNION {Having(ls[h][g], "SEEDING") : g \in Family} = S4 \cup S6
  BY DEF Family
<1>4. /\ counts(h, ls).complete = AsU32(l4.seeders + l6.seeders)
      /\ counts(h, ls).incomplete = AsU32(leechers(l4) + leechers(l6))
  BY DEF counts
<1>5. \A k \in R4 : FamilyOf(k[1]) = "v4"  BY <1>1 DEF ListsInv
<1>6. \A k \in R6 : FamilyOf(k[1]) = "v6"  BY <1>1 DEF ListsInv
<1> HIDE DEF l4, l6
<1>7. /\ IsFiniteSet(R4) /\ IsFiniteSet(S4) /\ S4 \subseteq R4
      /\ IsFiniteSet(R6) /\ IsFiniteSet(S6) /\ S6 \subseteq R6
      /\ Cardinality(R4) \in Nat /\ Cardinality(R6) \in Nat
      /\ Cardinality(S4) \in Nat /\ Cardinality(S6) \in Nat
  BY <1>2, HavingFinite, FS_CardinalityType DEF ListInv
<1>8. l4.seeders = Cardinality(S4) /\ l6.seeders = Cardinality(S6)
  BY <1>2 DEF ListInv
<1>9. /\ leechers(l4) = Cardinality(R4) - Cardinality(S4)
      /\ leechers(l6) = Cardinality(R6) - Cardinality(S6)
  BY <1>8 DEF leechers
<1> HIDE DEF R4, R6, S4, S6
<1>10. R4 \cap R6 = {}  BY <1>1, <1>5, <1>6
<1>11. Cardinality(S4 \cup S6) = Cardinality(S4) + Cardinality(S6)
  BY <1>7, <1>10, DisjointUnion
<1>12. Cardinality((R4 \cup R6) \ (S4 \cup S6))
        = (Cardinality(R4) - Cardinality(S4)) + (Cardinality(R6) - Cardinality(S6))
  <2>1. (R4 \cup R6) \ (S4 \cup S6) = (R4 \ S4) \cup (R6 \ S6)  BY <1>7, <1>10
  <2>2. (R4 \ S4) \cap (R6 \ S6) = {}  BY <1>10
  <2>3. /\ IsFiniteSet(R4 \ S4)
        /\ Cardinality(R4 \ S4) = Cardinality(R4) - Cardinality(R4 \cap S4)
        /\ IsFiniteSet(R6 \ S6)
        /\ Cardinality(R6 \ S6) = Cardinality(R6) - Cardinality(R6 \cap S6)
    BY <1>7, FS_Difference
  <2>4. R4 \cap S4 = S4 /\ R6 \cap S6 = S6  BY <1>7
  <2>5. Cardinality((R4 \ S4) \cup (R6 \ S6))
          = Cardinality(R4 \ S4) + Cardinality(R6 \ S6)
    BY <2>2, <2>3, DisjointUnion
  <2> QED  BY <2>1, <2>3, <2>4, <2>5
<1>13. /\ counts(h, ls).complete = AsU32(Cardinality(S4 \cup S6))
       /\ counts(h, ls).incomplete = AsU32(Cardinality((R4 \cup R6) \ (S4 \cup S6)))
  BY <1>4, <1>8, <1>9, <1>11, <1>12
<1> QED  BY <1>3, <1>13

-----------------------------------------------------------------------------
(* The invariant *)

\* An announce was answered with what its torrent's lists still say.
AnswerInv ==
  response.kind = "announce" =>
    LET h == Torrent(request)
    IN  /\ h \in Hash
        /\ response.counts = counts(h, lists)
        /\ response.peers \subseteq Registered(lists[h][FamilyOf(request.ip)])

Row == [hash : Hash, counts : CountsOf]

ScrapeUnderWay ==
  [query : Seq(Param), at : Nat, rows : Seq(Row), before : [Hash -> Nat]]

\* Since a scrape began no downloads have been taken back, and each of its rows
\* was read meanwhile.
ScrapeInv ==
  scrape # NoScrape =>
    /\ scrape \in ScrapeUnderWay
    /\ \A h \in Hash : scrape.before[h] <= Downloads(lists)[h]
    /\ \A i \in 1..Len(scrape.rows) :
         LET row == scrape.rows[i]
         IN  \E n \in scrape.before[row.hash]..Downloads(lists)[row.hash] :
               row.counts.downloaded = AsU32(n)

MetricsInv == metrics \subseteq {"HttpAnnounce", "HttpScrape", "UdpAnnounce", "Error"}

\* The inductive invariant.
HttpInv == ListsInv(lists) /\ AnswerInv /\ MetricsInv /\ ScrapeInv

LEMMA InitHttp == ASSUME Init PROVE HttpInv
<1>1. \A h \in Hash, f \in Family : lists[h][f] = NewList  BY DEF Init
<1>2. Registered(NewList) = {}  BY DEF NewList, Registered
<1>3. lists = [h \in Hash |-> [f \in Family |-> lists[h][f]]]  BY DEF Init
<1>4. ListsInv(lists)  BY <1>1, <1>2, <1>3, NewListInv DEF ListsInv
<1>5. AnswerInv /\ MetricsInv /\ ScrapeInv
  BY DEF Init, AnswerInv, MetricsInv, ScrapeInv
<1> QED  BY <1>4, <1>5 DEF HttpInv

\* What is under way goes on beside a request that takes no download back.
LEMMA ScrapeBeside ==
  ASSUME HttpInv, ListsInv(lists'), UNCHANGED scrape,
         \A g \in Hash, f \in Family :
           lists'[g][f].downloaded >= lists[g][f].downloaded
  PROVE  ScrapeInv'
<1> SUFFICES ASSUME scrape # NoScrape
             PROVE  /\ scrape \in ScrapeUnderWay
                    /\ \A h \in Hash : scrape.before[h] <= Downloads(lists')[h]
                    /\ \A i \in 1..Len(scrape.rows) :
                         LET row == scrape.rows[i]
                         IN  \E n \in scrape.before[row.hash]..Downloads(lists')[row.hash] :
                               row.counts.downloaded = AsU32(n)
  BY DEF ScrapeInv, Downloads
<1>1. /\ scrape \in ScrapeUnderWay
      /\ \A h \in Hash : scrape.before[h] <= Downloads(lists)[h]
      /\ \A i \in 1..Len(scrape.rows) :
           \E n \in scrape.before[scrape.rows[i].hash]..Downloads(lists)[scrape.rows[i].hash] :
             scrape.rows[i].counts.downloaded = AsU32(n)
  BY DEF HttpInv, ScrapeInv
<1>2. \A h \in Hash : scrape.before[h] \in Nat  BY <1>1 DEF ScrapeUnderWay
<1>3. \A h \in Hash : /\ Downloads(lists)[h] \in Nat
                      /\ Downloads(lists')[h] \in Nat
                      /\ Downloads(lists)[h] <= Downloads(lists')[h]
  BY DownloadsType, DownloadsGrow DEF HttpInv
<1>4. \A i \in 1..Len(scrape.rows) : scrape.rows[i].hash \in Hash
  <2>1. scrape.rows \in Seq(Row)  BY <1>1 DEF ScrapeUnderWay
  <2>2. \A i \in 1..Len(scrape.rows) : scrape.rows[i] \in Row  BY <2>1
  <2> QED  BY <2>2 DEF Row
<1>5. \A h \in Hash : scrape.before[h] <= Downloads(lists')[h]
  BY <1>1, <1>2, <1>3
<1>6. \A h \in Hash : scrape.before[h]..Downloads(lists)[h]
                        \subseteq scrape.before[h]..Downloads(lists')[h]
  BY <1>2, <1>3
<1> QED  BY <1>1, <1>4, <1>5, <1>6

\* An announce that is served, whichever front end it came through.
LEMMA ServedInv ==
  ASSUME HttpInv, NEW h \in Hash, NEW ip \in Ip, NEW port \in Port,
         NEW flags \in SUBSET Flag, NEW stopped \in BOOLEAN, NEW numwant,
         lists' = Applied(h, ip, port, flags, stopped),
         Torrent(request') = h, request'.ip = ip,
         NEW S \in Offers(lists', h, ip, numwant, stopped),
         response' = Announced(counts(h, lists'), S),
         MetricsInv', UNCHANGED scrape
  PROVE  HttpInv'
<1>1. /\ ListsInv(lists')
      /\ \A g \in Hash, f \in Family :
           lists'[g][f].downloaded >= lists[g][f].downloaded
  BY AppliedInv DEF HttpInv
<1>2. S \subseteq Registered(lists'[h][FamilyOf(ip)])
  BY DEF Offers, write_compact
<1>3. response'.counts = counts(h, lists') /\ response'.peers = S
  BY DEF Announced
<1>4. AnswerInv'
  <2>1. response'.peers \subseteq Registered(lists'[h][FamilyOf(request'.ip)])
    BY <1>2, <1>3
  <2> QED  BY <1>3, <2>1 DEF AnswerInv
<1>5. ScrapeInv'  BY <1>1, ScrapeBeside
<1> QED  BY <1>1, <1>4, <1>5 DEF HttpInv

\* A request that leaves the lists alone and gets no announce's answer.
LEMMA RefusedInv ==
  ASSUME HttpInv, UNCHANGED lists, response'.kind # "announce", MetricsInv',
         ScrapeInv'
  PROVE  HttpInv'
BY DEF HttpInv, ListsInv, AnswerInv

LEMMA SameLists ==
  ASSUME HttpInv, UNCHANGED lists
  PROVE  /\ ListsInv(lists')
         /\ \A g \in Hash, f \in Family :
              lists'[g][f].downloaded >= lists[g][f].downloaded
<1>1. \A g \in Hash, f \in Family : lists[g][f].downloaded \in Nat
  BY DEF HttpInv, ListsInv, ListInv, IsList
<1>2. \A g \in Hash, f \in Family : lists[g][f].downloaded >= lists[g][f].downloaded
  BY <1>1
<1> QED  BY <1>2 DEF HttpInv

\* An announce is refused, or serves what the query says.
LEMMA AnnounceServes ==
  ASSUME NEW ip, NEW q \in Seq(Param), HttpAnnounce(ip, q)
  PROVE  LET s     == Looped(q)
             h     == Said(q, "info_hash", "")
             port  == Said(q, "port", 0)
             stopped == s.event = "stopped"
             after == Applied(h, ip, port, http_flags(s.left, s.event), stopped)
         IN  \/ UNCHANGED lists /\ response' \in {BadRequest, Failure}
             \/ /\ ~Incomplete(q) /\ s.left = Left(q)
                /\ lists' = after
                /\ \E S \in Offers(after, h, ip, s.numwant, stopped) :
                     response' = Announced(counts(h, after), S)
<1> DEFINE s == Looped(q)
<1>1. ~s.returned =>
        /\ (s.hash = <<>> \/ s.port = <<>>) <=> Incomplete(q)
        /\ s.left = Left(q)
        /\ ~Incomplete(q) => /\ s.hash[1] = Said(q, "info_hash", "")
                             /\ s.port[1] = Said(q, "port", 0)
  BY LoopedIs
<1> HIDE DEF s
<1>2. CASE UNCHANGED lists /\ response' \in {BadRequest, Failure}
  BY <1>2
<1>3. CASE ~(UNCHANGED lists /\ response' \in {BadRequest, Failure})
  <2> DEFINE stopped == s.event = "stopped"
             after == Applied(s.hash[1], ip, s.port[1], http_flags(s.left, s.event), stopped)
  <2>1. /\ ~s.returned /\ ~(s.hash = <<>> \/ s.port = <<>>)
        /\ lists' = after
        /\ \E S \in Offers(after, s.hash[1], ip, s.numwant, stopped) :
             response' = Announced(counts(s.hash[1], after), S)
    BY <1>3 DEF HttpAnnounce, s
  <2>2. /\ ~Incomplete(q) /\ s.left = Left(q)
        /\ s.hash[1] = Said(q, "info_hash", "") /\ s.port[1] = Said(q, "port", 0)
    BY <1>1, <2>1
  <2> HIDE DEF stopped
  <2> QED  BY <2>1, <2>2 DEF s, stopped
<1> QED  BY <1>2, <1>3

LEMMA HttpAnnounceInv ==
  ASSUME HttpInv, NEW ip \in Ip, NEW q \in AnnounceQueries, HttpAnnounce(ip, q)
  PROVE  HttpInv'
<1> DEFINE s       == Looped(q)
           h       == Said(q, "info_hash", "")
           port    == Said(q, "port", 0)
           stopped == s.event = "stopped"
           flags   == http_flags(s.left, s.event)
           after   == Applied(h, ip, port, flags, stopped)
<1>1. q \in Seq(Param)  BY QueryIsParams
<1>2. request' = [via |-> "announce", ip |-> ip, query |-> q] /\ UNCHANGED scrape
      /\ MetricsInv'
  BY DEF HttpAnnounce, MetricsInv
<1>3. ASSUME UNCHANGED lists, response'.kind # "announce" PROVE HttpInv'
  <2>1. ScrapeInv'  BY <1>2, <1>3, SameLists, ScrapeBeside
  <2> QED  BY <1>2, <1>3, <2>1, RefusedInv
<1>4. ASSUME ~Incomplete(q), lists' = after,
             NEW S \in Offers(after, h, ip, s.numwant, stopped),
             response' = Announced(counts(h, after), S)
      PROVE  HttpInv'
  <2>1. h \in Hash /\ port \in Port  BY <1>1, <1>4, SaidTypes
  <2>2. stopped \in BOOLEAN /\ flags \in SUBSET Flag  BY FlagTypes
  <2>3. Torrent(request') = h /\ request'.ip = ip  BY <1>2 DEF Torrent
  <2> HIDE DEF h, port, stopped, flags, s
  <2> QED  BY <1>2, <1>4, <2>1, <2>2, <2>3, ServedInv
<1>5. \/ UNCHANGED lists /\ response' \in {BadRequest, Failure}
      \/ /\ ~Incomplete(q) /\ lists' = after
         /\ \E S \in Offers(after, h, ip, s.numwant, stopped) :
              response' = Announced(counts(h, after), S)
  BY <1>1, AnnounceServes
<1> HIDE DEF h, stopped, after
<1>6. BadRequest.kind # "announce" /\ Failure.kind # "announce"
  BY DEF BadRequest, Failure
<1> QED  BY <1>3, <1>4, <1>5, <1>6

LEMMA UdpAnnounceInv ==
  ASSUME HttpInv, NEW ip \in Ip, NEW h \in Hash, NEW port \in Port, NEW left,
         NEW event, NEW numwant, UdpAnnounce(ip, h, port, left, event, numwant)
  PROVE  HttpInv'
<1> DEFINE stopped == event = "stopped"
           after   == Applied(h, ip, port, udp_flags(left, event), stopped)
<1>1. /\ request' = [via |-> "udp", ip |-> ip, hash |-> h, port |-> port, left |-> left]
      /\ lists' = after
      /\ \E S \in Offers(after, h, ip, numwant, stopped) :
           response' = Announced(counts(h, after), S)
      /\ metrics' = {"UdpAnnounce"} /\ UNCHANGED scrape
  BY DEF UdpAnnounce
<1>2. stopped \in BOOLEAN /\ udp_flags(left, event) \in SUBSET Flag  BY FlagTypes
<1>3. Torrent(request') = h /\ request'.ip = ip  BY <1>1 DEF Torrent
<1>4. MetricsInv'  BY <1>1 DEF MetricsInv
<1> HIDE DEF stopped
<1> QED  BY <1>1, <1>2, <1>3, <1>4, ServedInv

LEMMA HttpScrapeInv ==
  ASSUME HttpInv, NEW q \in ScrapeQueries, HttpScrape(q)
  PROVE  HttpInv'
<1>1. /\ scrape' = [query |-> q, at |-> 0, rows |-> <<>>, before |-> Downloads(lists)]
      /\ response' = Pending /\ metrics' = {} /\ UNCHANGED lists
  BY DEF HttpScrape
<1>2. q \in Seq(Param) /\ Downloads(lists) \in [Hash -> Nat]
  BY QueryIsParams, DownloadsType DEF HttpInv
<1>3. <<>> \in Seq(Row) /\ Len(<<>>) = 0  OBVIOUS
<1>4. scrape' \in ScrapeUnderWay  BY <1>1, <1>2, <1>3 DEF ScrapeUnderWay
<1>5. Downloads(lists') = Downloads(lists)  BY <1>1
<1>6. \A h \in Hash : scrape'.before[h] <= Downloads(lists')[h]
  <2>1. \A h \in Hash : Downloads(lists)[h] \in Nat  BY <1>2
  <2>2. scrape'.before = Downloads(lists)  BY <1>1
  <2> QED  BY <1>5, <2>1, <2>2
<1>7. scrape'.rows = <<>>  BY <1>1
<1>8. ScrapeInv'  BY <1>3, <1>4, <1>6, <1>7 DEF ScrapeInv, Downloads
<1>9. MetricsInv' /\ response'.kind # "announce"  BY <1>1 DEF MetricsInv, Pending
<1> QED  BY <1>1, <1>8, <1>9, RefusedInv

\* A scrape that ends leaves nothing to be kept.
LEMMA NoScrapeInv == ASSUME scrape' = NoScrape PROVE ScrapeInv'
BY DEF ScrapeInv, NoScrape

LEMMA ScrapeHashInv == ASSUME HttpInv, ScrapeHash PROVE HttpInv'
<1> DEFINE q == scrape.query
<1>1. PICK i \in ToScrape :
        /\ \/ /\ ~q[i].ok
              /\ scrape' = NoScrape
              /\ response' = BadRequest /\ metrics' = {"Error"}
           \/ /\ q[i].ok
              /\ scrape' = [scrape EXCEPT !.at = i,
                   !.rows = Append(@, [hash |-> q[i].val, counts |-> counts(q[i].val, lists)])]
              /\ UNCHANGED <<response, metrics>>
        /\ UNCHANGED <<lists, request>>
  BY DEF ScrapeHash
<1>2. scrape # NoScrape  BY DEF ToScrape
<1>3. /\ scrape \in ScrapeUnderWay
      /\ \A h \in Hash : scrape.before[h] <= Downloads(lists)[h]
      /\ \A j \in 1..Len(scrape.rows) :
           \E n \in scrape.before[scrape.rows[j].hash]..Downloads(lists)[scrape.rows[j].hash] :
             scrape.rows[j].counts.downloaded = AsU32(n)
  BY <1>2 DEF HttpInv, ScrapeInv
<1>4. CASE scrape' = NoScrape /\ response' = BadRequest /\ metrics' = {"Error"}
  <2>1. ScrapeInv'  BY <1>4, NoScrapeInv
  <2>2. MetricsInv' /\ response'.kind # "announce"
    BY <1>4 DEF MetricsInv, BadRequest
  <2> QED  BY <1>1, <2>1, <2>2, RefusedInv
<1>5. CASE /\ scrape' = [scrape EXCEPT !.at = i,
                !.rows = Append(@, [hash |-> q[i].val, counts |-> counts(q[i].val, lists)])]
           /\ UNCHANGED <<response, metrics>>
  <2> DEFINE row == [hash |-> q[i].val, counts |-> counts(q[i].val, lists)]
  <2>1. q \in Seq(Param) /\ i \in 1..Len(q) /\ q[i].key = "info_hash"
    BY <1>2, <1>3 DEF ToScrape, Scraped, Places, ScrapeUnderWay
  <2>2. q[i].val \in Hash
    <3>1. q[i] \in Param  BY <2>1
    <3> QED  BY <2>1, <3>1, ParamTypes
  <2>3. row \in Row /\ row.hash \in Hash
    BY <2>2, CountsType DEF HttpInv, Row
  <2>4. row.counts.downloaded = AsU32(Downloads(lists)[row.hash])
        /\ Downloads(lists)[row.hash] \in Nat
    BY <2>2, DownloadsType DEF HttpInv
  <2> HIDE DEF row
  <2>5. scrape.rows \in Seq(Row) /\ i \in Nat  BY <1>3, <2>1 DEF ScrapeUnderWay
  <2>6. /\ scrape'.rows = Append(scrape.rows, row)
        /\ scrape'.before = scrape.before
        /\ scrape' \in ScrapeUnderWay
    <3>1. Append(scrape.rows, row) \in Seq(Row)  BY <2>3, <2>5
    <3>2. scrape' = [scrape EXCEPT !.at = i, !.rows = Append(@, row)]
      BY <1>5 DEF row
    <3> QED  BY <1>3, <2>5, <3>1, <3>2 DEF ScrapeUnderWay
  <2>7. ASSUME NEW j \in 1..Len(scrape'.rows)
        PROVE  \E n \in scrape.before[scrape'.rows[j].hash]
                           ..Downloads(lists)[scrape'.rows[j].hash] :
                 scrape'.rows[j].counts.downloaded = AsU32(n)
    <3>1. CASE j \in 1..Len(scrape.rows)
      <4>1. scrape'.rows[j] = scrape.rows[j]  BY <2>3, <2>5, <2>6, <3>1
      <4> QED  BY <1>3, <3>1, <4>1
    <3>2. CASE j = Len(scrape.rows) + 1
      <4>1. scrape'.rows[j] = row  BY <2>3, <2>5, <2>6, <3>2
      <4>2. scrape.before[row.hash] <= Downloads(lists)[row.hash]
            /\ scrape.before[row.hash] \in Nat
        BY <1>3, <2>3 DEF ScrapeUnderWay
      <4>3. Downloads(lists)[row.hash]
              \in scrape.before[row.hash]..Downloads(lists)[row.hash]
        BY <2>4, <4>2
      <4> QED  BY <2>4, <4>1, <4>3
    <3>3. Len(scrape'.rows) = Len(scrape.rows) + 1 /\ Len(scrape.rows) \in Nat
      BY <2>3, <2>5, <2>6
    <3> QED  BY <3>1, <3>2, <3>3
  <2>8. Downloads(lists') = Downloads(lists)  BY <1>1
  <2>9. ScrapeInv'
    BY <1>3, <2>6, <2>7, <2>8 DEF ScrapeInv, Downloads
  <2>10. ListsInv(lists') /\ AnswerInv' /\ MetricsInv'
    BY <1>1, <1>5 DEF HttpInv, AnswerInv, MetricsInv
  <2> QED  BY <2>9, <2>10 DEF HttpInv
<1> QED  BY <1>1, <1>4, <1>5

LEMMA NextHttp == ASSUME HttpInv, [Next]_vars PROVE HttpInv'
<1>1. ASSUME NEW ip \in Ip, NEW q \in AnnounceQueries, HttpAnnounce(ip, q)
      PROVE  HttpInv'
  BY <1>1, HttpAnnounceInv
<1>2. ASSUME NEW q \in ScrapeQueries, HttpScrape(q) PROVE HttpInv'
  BY <1>2, HttpScrapeInv
<1>3. CASE ScrapeHash  BY <1>3, ScrapeHashInv
<1>4. CASE ScrapeEnd
  <2>1. /\ UNCHANGED lists /\ ScrapeInv' /\ MetricsInv'
        /\ response'.kind # "announce"
    BY <1>4, NoScrapeInv DEF ScrapeEnd, MetricsInv, Files
  <2> QED  BY <2>1, RefusedInv
<1>5. CASE HttpOther
  <2>1. /\ UNCHANGED <<lists, scrape>> /\ MetricsInv'
        /\ response'.kind # "announce"
    BY <1>5 DEF HttpOther, MetricsInv, Redirect, NotFound
  <2>2. ScrapeInv'  BY <2>1, SameLists, ScrapeBeside
  <2> QED  BY <2>1, <2>2, RefusedInv
<1>6. ASSUME NEW ip \in Ip, NEW h \in Hash, NEW port \in Port, NEW left,
             NEW event, NEW numwant, UdpAnnounce(ip, h, port, left, event, numwant)
      PROVE  HttpInv'
  BY <1>6, UdpAnnounceInv
<1>7. CASE UNCHANGED vars
  <2>1. ScrapeInv'  BY <1>7, SameLists, ScrapeBeside DEF vars
  <2>2. ListsInv(lists') /\ AnswerInv' /\ MetricsInv'
    BY <1>7 DEF vars, HttpInv, AnswerInv, MetricsInv
  <2> QED  BY <2>1, <2>2 DEF HttpInv
<1> QED  BY <1>1, <1>2, <1>3, <1>4, <1>5, <1>6, <1>7 DEF Next

LEMMA HttpInvariant == Spec => []HttpInv
<1>1. Init => HttpInv  BY InitHttp
<1>2. HttpInv /\ [Next]_vars => HttpInv'  BY NextHttp
<1> QED  BY <1>1, <1>2, PTL DEF Spec

-----------------------------------------------------------------------------
(* The properties *)

\* Lists, responses and the scrape under way keep their types, and no list
\* holds an address of the other family.
THEOREM HttpTypes == Spec => []TypeOK
<1>1. ASSUME HttpInv PROVE TypeOK
  <2>1. \A h \in Hash, f \in Family :
          IsList(lists[h][f]) /\ leechers(lists[h][f]) \in Nat
    BY <1>1, LeechersNat DEF HttpInv, ListsInv, ListInv
  <2>2. \A k \in Key, h \in Hash, f \in Family :
          k \in Registered(lists[h][f]) => FamilyOf(k[1]) = f
    BY <1>1 DEF HttpInv, ListsInv
  <2>3. ASSUME response.kind = "announce"
        PROVE  response.counts \in CountsOf /\ response.peers \subseteq Key
    <3> DEFINE h == Torrent(request)
               f == FamilyOf(request.ip)
    <3>1. /\ h \in Hash /\ response.counts = counts(h, lists)
          /\ response.peers \subseteq Registered(lists[h][f])
      BY <1>1, <2>3 DEF HttpInv, AnswerInv
    <3>2. f \in Family  BY FamilyType
    <3> HIDE DEF h, f
    <3>3. response.counts \in CountsOf  BY <1>1, <3>1, CountsType DEF HttpInv
    <3>4. Registered(lists[h][f]) \subseteq Key
      BY <2>1, <3>1, <3>2 DEF IsList, Registered
    <3> QED  BY <3>1, <3>3, <3>4
  <2>4. ASSUME scrape # NoScrape
        PROVE  scrape.rows \in Seq([hash : Hash, counts : CountsOf])
    BY <1>1, <2>4 DEF HttpInv, ScrapeInv, ScrapeUnderWay, Row
  <2> QED  BY <1>1, <2>1, <2>2, <2>3, <2>4 DEF TypeOK, HttpInv, MetricsInv
<1> QED  BY <1>1, HttpInvariant, PTL

\* Whichever front end it came through, an announce is told of the seeders and
\* the leechers of both families, each of them once, and is offered registered
\* peers of its own.
THEOREM FamiliesAreApart == Spec => []FamiliesApart
<1>1. ASSUME HttpInv, response.kind = "announce"
      PROVE  LET h     == Torrent(request)
                 all   == UNION {Registered(lists[h][g]) : g \in Family}
                 seeds == UNION {Having(lists[h][g], "SEEDING") : g \in Family}
             IN  /\ response.counts.complete = AsU32(Cardinality(seeds))
                 /\ response.counts.incomplete = AsU32(Cardinality(all \ seeds))
                 /\ response.peers \subseteq Registered(lists[h][FamilyOf(request.ip)])
  <2> DEFINE h     == Torrent(request)
             all   == UNION {Registered(lists[h][g]) : g \in Family}
             seeds == UNION {Having(lists[h][g], "SEEDING") : g \in Family}
  <2>1. /\ h \in Hash /\ response.counts = counts(h, lists)
        /\ response.peers \subseteq Registered(lists[h][FamilyOf(request.ip)])
    BY <1>1 DEF HttpInv, AnswerInv
  <2> HIDE DEF h
  <2>2. /\ counts(h, lists).complete = AsU32(Cardinality(seeds))
        /\ counts(h, lists).incomplete = AsU32(Cardinality(all \ seeds))
    BY <1>1, <2>1, CountsAreAll DEF HttpInv
  <2> QED  BY <2>1, <2>2 DEF h
<1>2. HttpInv => FamiliesApart  BY <1>1 DEF FamiliesApart
<1> QED  BY <1>2, HttpInvariant, PTL

\* However many announces come between the hashes of a scrape, each of its rows
\* has the downloads of a time within the request, as far as 32 bits show them.
THEOREM RowsAreOfTheScrape == Spec => []RowsOfThisScrape
<1>1. HttpInv => RowsOfThisScrape  BY DEF HttpInv, ScrapeInv, RowsOfThisScrape
<1> QED  BY <1>1, HttpInvariant, PTL

-----------------------------------------------------------------------------
(* Seeders *)

\* The seeder a step makes is its announcer, and has said so.
SaysSo(r) == r = Announcer(request') /\ SaidNoneLeft(request')

LEMMA SeedersSaidSo ==
  ASSUME HttpInv, [Next]_vars
  PROVE  \A r \in SeedersIn(lists') \ SeedersIn(lists) : SaysSo(r)
<1>1. ASSUME NEW h \in Hash, NEW ip \in Ip, NEW port \in Port,
             NEW flags \in SUBSET Flag, NEW stopped \in BOOLEAN,
             lists' = Applied(h, ip, port, flags, stopped),
             Announcer(request') = <<h, FamilyOf(ip), <<ip, port>>>>,
             "SEEDING" \in flags => SaidNoneLeft(request')
      PROVE  \A r \in SeedersIn(lists') \ SeedersIn(lists) : SaysSo(r)
  <2>1. /\ SeedersIn(lists') \subseteq
             SeedersIn(lists) \cup {<<h, FamilyOf(ip), <<ip, port>>>>}
        /\ "SEEDING" \notin flags => SeedersIn(lists') \subseteq SeedersIn(lists)
    BY <1>1, AppliedInv DEF HttpInv
  <2> QED  BY <1>1, <2>1 DEF SaysSo
<1>2. ASSUME NEW ip \in Ip, NEW q \in AnnounceQueries, HttpAnnounce(ip, q)
      PROVE  \A r \in SeedersIn(lists') \ SeedersIn(lists) : SaysSo(r)
  <2> DEFINE s       == Looped(q)
             h       == Said(q, "info_hash", "")
             port    == Said(q, "port", 0)
             stopped == s.event = "stopped"
             flags   == http_flags(s.left, s.event)
  <2>1. q \in Seq(Param)  BY QueryIsParams
  <2>2. CASE UNCHANGED lists  BY <2>2
  <2>3. CASE /\ ~Incomplete(q) /\ s.left = Left(q)
             /\ lists' = Applied(h, ip, port, flags, stopped)
    <3>1. h \in Hash /\ port \in Port  BY <2>1, <2>3, SaidTypes
    <3>2. stopped \in BOOLEAN /\ flags \in SUBSET Flag  BY FlagTypes
    <3>3. request' = [via |-> "announce", ip |-> ip, query |-> q]
      BY <1>2 DEF HttpAnnounce
    <3>4. Announcer(request') = <<h, FamilyOf(ip), <<ip, port>>>>
      BY <3>3 DEF Announcer, Torrent, PortOf
    <3>5. ASSUME "SEEDING" \in flags PROVE SaidNoneLeft(request')
      <4>1. Left(q) = 0  BY <2>3, <3>5 DEF http_flags
      <4>2. \E i \in Places(q, "left") :
              /\ \A j \in Places(q, "left") : j <= i
              /\ q[i].ok /\ q[i].val = 0
        BY <2>1, <4>1, LeftZeroIsSaid
      <4> QED  BY <3>3, <4>2 DEF SaidNoneLeft
    <3> HIDE DEF h, port, stopped, flags
    <3> QED  BY <1>1, <2>3, <3>1, <3>2, <3>4, <3>5
  <2>4. \/ UNCHANGED lists
        \/ /\ ~Incomplete(q) /\ s.left = Left(q)
           /\ lists' = Applied(h, ip, port, flags, stopped)
    BY <1>2, <2>1, AnnounceServes
  <2> QED  BY <2>2, <2>3, <2>4
<1>3. ASSUME NEW ip \in Ip, NEW h \in Hash, NEW port \in Port, NEW left,
             NEW event, NEW numwant, UdpAnnounce(ip, h, port, left, event, numwant)
      PROVE  \A r \in SeedersIn(lists') \ SeedersIn(lists) : SaysSo(r)
  <2> DEFINE flags == udp_flags(left, event)
             stopped == event = "stopped"
  <2>1. /\ lists' = Applied(h, ip, port, flags, stopped)
        /\ request' = [via |-> "udp", ip |-> ip, hash |-> h, port |-> port, left |-> left]
    BY <1>3 DEF UdpAnnounce
  <2>2. Announcer(request') = <<h, FamilyOf(ip), <<ip, port>>>>
    BY <2>1 DEF Announcer, Torrent, PortOf
  <2>3. "SEEDING" \in flags => SaidNoneLeft(request')
    BY <2>1 DEF udp_flags, SaidNoneLeft
  <2>4. flags \in SUBSET Flag /\ stopped \in BOOLEAN  BY FlagTypes
  <2> HIDE DEF flags, stopped
  <2> QED  BY <1>1, <2>1, <2>2, <2>3, <2>4
<1>4. CASE UNCHANGED lists  BY <1>4
<1> QED
  BY <1>2, <1>3, <1>4
     DEF Next, vars, HttpScrape, ScrapeHash, ScrapeEnd, HttpOther

\* Through either front end and whatever the query, a request makes a seeder of
\* nobody but its announcer, and only if the last `left` it gives is a legible 0.
THEOREM NoSeederIsFalse == Spec => NoFalseSeeder
<1>1. HttpInv /\ [Next]_vars =>
        [\A s \in SeedersIn(lists)' \ SeedersIn(lists) :
           s = Announcer(request') /\ SaidNoneLeft(request')]_vars
  BY SeedersSaidSo DEF SeedersIn, SaysSo
<1> QED  BY <1>1, HttpInvariant, PTL DEF Spec, NoFalseSeeder
=============================================================================
