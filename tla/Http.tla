---------------------------------- MODULE Http ----------------------------------
(***************************************************************************)
(* The HTTP front end of crates/bf-http/src/lib.rs, served by handle_http  *)
(* of crates/bluefrog/src/main.rs, next to the UDP announces of crates/    *)
(* bf-udp/src/lib.rs: two translations of a request into operations of one *)
(* store.                                                                  *)
(*                                                                         *)
(* A query is the sequence of its parameters.  A parameter is well-formed  *)
(* or not, and has a value if it is; percent-decoding is what decides that *)
(* for an info-hash.  Bodies are what they say, not their bencoding.  The  *)
(* store is a list of peers per torrent and family (PeerList); its clock   *)
(* stands still, for time is Store's subject.  A list that is empty stands *)
(* for a torrent the store does not know, too: both count as nothing.      *)
(***************************************************************************)
EXTENDS PeerList, Sequences

CONSTANTS
  Hash, Ip4, Ip6, Port,
  AnnounceQueries,   \* the queries that may be asked
  ScrapeQueries,
  NUMWANT_DEFAULT, NUMWANT_MAX, MAX_SCRAPE_HASHES,
  MaxDownloaded      \* bound: downloads explored per list

Ip     == Ip4 \cup Ip6
Family == {"v4", "v6"}

\* Parameters by key, with values of the type each is parsed to.
Param ==
  [key : {"info_hash"}, ok : BOOLEAN, val : Hash] \cup
  [key : {"port"}, ok : BOOLEAN, val : Port] \cup
  [key : {"left", "numwant"}, ok : BOOLEAN, val : Nat] \cup
  [key : {"event"}, ok : {TRUE}, val : {"", "started", "completed", "stopped"}] \cup
  [key : {"compact"}, ok : {TRUE}, val : {"0", "1"}] \cup
  [key : {"other"}, ok : {TRUE}, val : {""}]

ASSUME KeyAssumption   == Key = Ip \X Port /\ Ip4 \cap Ip6 = {}
ASSUME QueryAssumption == AnnounceQueries \cup ScrapeQueries \subseteq Seq(Param)
ASSUME NumwantAssumption ==
  /\ NUMWANT_DEFAULT \in Nat /\ NUMWANT_MAX \in Nat /\ MAX_SCRAPE_HASHES \in Nat
  /\ MaxDownloaded \in Nat

VARIABLES
  lists,     \* torrent -> family -> its peers
  request,   \* the last request
  response,  \* and its response
  metrics,   \* what the last request added to the counters
  scrape     \* the HTTP scrape under way

vars == <<lists, request, response, metrics, scrape>>

FamilyOf(ip) == IF ip \in Ip4 THEN "v4" ELSE "v6"

\* Mutant: the IPv6 list is left out.
counts_V4Only(h, ls) ==
  [ complete   |-> AsU32(ls[h]["v4"].seeders),
    incomplete |-> AsU32(leechers(ls[h]["v4"])),
    downloaded |-> AsU32(ls[h]["v4"].downloaded) ]

\* The downloads of every torrent; each list counts its own in a u64.
Downloads(ls) == [h \in Hash |-> ls[h]["v4"].downloaded + ls[h]["v6"].downloaded]

counts(h, ls) ==
  [ complete   |-> AsU32(ls[h]["v4"].seeders + ls[h]["v6"].seeders),
    incomplete |-> AsU32(leechers(ls[h]["v4"]) + leechers(ls[h]["v6"])),
    downloaded |-> AsU32(Downloads(ls)[h]) ]

-----------------------------------------------------------------------------
(* The query *)

Least(a, b) == IF a < b THEN a ELSE b

\* The locals of announce before its loop; an Option is a sequence of at most one.
Unread ==
  [ returned |-> FALSE, hash |-> <<>>, port |-> <<>>,
    left |-> 1, event |-> "", numwant |-> NUMWANT_DEFAULT ]

\* Whatever came before it, one of these ends the request with a 400.
Returns(p) ==
  \/ p.key \in {"info_hash", "port"} /\ ~p.ok
  \/ p.key = "compact" /\ p.val = "0"

\* Mutant: completed counts only for one that is known to be a seeder by then.
Read_EventByLeft(s, p) ==
  CASE p.key = "info_hash" -> [s EXCEPT !.hash = <<p.val>>]
    [] p.key = "port"      -> [s EXCEPT !.port = <<p.val>>]
    [] p.key = "left"      -> [s EXCEPT !.left = IF p.ok THEN p.val ELSE 1]
    [] p.key = "event"     ->
         [s EXCEPT !.event = IF p.val = "completed" /\ s.left # 0 THEN "" ELSE p.val]
    [] p.key = "numwant" /\ p.ok -> [s EXCEPT !.numwant = Least(p.val, NUMWANT_MAX)]
    [] OTHER -> s

\* Mutant: a malformed `left` leaves the one before it.
Read_LeftStays(s, p) ==
  CASE p.key = "info_hash" -> [s EXCEPT !.hash = <<p.val>>]
    [] p.key = "port"      -> [s EXCEPT !.port = <<p.val>>]
    [] p.key = "left" /\ p.ok -> [s EXCEPT !.left = p.val]
    [] p.key = "event"     -> [s EXCEPT !.event = p.val]
    [] p.key = "numwant" /\ p.ok -> [s EXCEPT !.numwant = Least(p.val, NUMWANT_MAX)]
    [] OTHER -> s

\* One parameter: a malformed `left` is a leecher's, a malformed numwant nothing.
Read(s, p) ==
  CASE p.key = "info_hash" -> [s EXCEPT !.hash = <<p.val>>]
    [] p.key = "port"      -> [s EXCEPT !.port = <<p.val>>]
    [] p.key = "left"      -> [s EXCEPT !.left = IF p.ok THEN p.val ELSE 1]
    [] p.key = "event"     -> [s EXCEPT !.event = p.val]
    [] p.key = "numwant" /\ p.ok -> [s EXCEPT !.numwant = Least(p.val, NUMWANT_MAX)]
    [] OTHER -> s

\* One turn of the loop; after a return there are none.
Turn(s, p) ==
  IF s.returned THEN s
  ELSE IF Returns(p) THEN [s EXCEPT !.returned = TRUE] ELSE Read(s, p)

\* The locals after the loop over the parameters of q.
Looped(q) ==
  LET after[i \in 0..Len(q)] == IF i = 0 THEN Unread ELSE Turn(after[i - 1], q[i])
  IN  after[Len(q)]

Places(q, key) == {i \in 1..Len(q) : q[i].key = key}

\* The places of the info-hashes a scrape gets to: it stops at the cap.
Scraped(q) ==
  {i \in Places(q, "info_hash") :
     Cardinality({j \in Places(q, "info_hash") : j < i}) < MAX_SCRAPE_HASHES}

NoScrape == [at |-> 0]

\* The places it has still to look at.
ToScrape == IF scrape = NoScrape THEN {} ELSE {i \in Scraped(scrape.query) : i > scrape.at}

-----------------------------------------------------------------------------
(* Responses *)

Redirect   == [kind |-> "redirect"]
Pending    == [kind |-> "pending"]
BadRequest == [kind |-> "400"]
NotFound   == [kind |-> "404"]
Failure    == [kind |-> "failure"]
Announced(c, peers) == [kind |-> "announce", counts |-> c, peers |-> peers]
Files(rows)         == [kind |-> "files", rows |-> rows]

-----------------------------------------------------------------------------
(* The two front ends.  Flags are spelt out where each of them does it.    *)

http_flags(left, event) ==
  (IF left = 0 THEN {"SEEDING"} ELSE {}) \cup
  (IF event = "completed" THEN {"COMPLETED"} ELSE {})

udp_flags(left, event) ==
  (IF left = 0 THEN {"SEEDING"} ELSE {}) \cup
  (IF event = "completed" THEN {"COMPLETED"} ELSE {})

\* What a request does to the lists: remove for a stopped peer, else announce.
Applied(h, ip, port, flags, stopped) ==
  LET f == FamilyOf(ip)
      k == <<ip, port>>
  IN  [lists EXCEPT ![h][f] = IF stopped THEN remove(@, k) ELSE announce(@, k, flags, 0)]

\* The peers that may be offered after it.
Offers(ls, h, ip, numwant, stopped) ==
  IF stopped THEN {{}} ELSE write_compact(ls[h][FamilyOf(ip)], numwant)

Init ==
  /\ lists = [h \in Hash |-> [f \in Family |-> NewList]]
  /\ request = [via |-> "none"]
  /\ response = [kind |-> "none"]
  /\ metrics = {}
  /\ scrape = NoScrape

Bounded(ls) == \A h \in Hash, f \in Family : ls[h][f].downloaded <= MaxDownloaded

\* GET /announce
HttpAnnounce(ip, q) ==
  LET s       == Looped(q)
      stopped == s.event = "stopped"
      missing == s.hash = <<>> \/ s.port = <<>>
      h       == s.hash[1]
      after   == Applied(h, ip, s.port[1], http_flags(s.left, s.event), stopped)
  IN  /\ request' = [via |-> "announce", ip |-> ip, query |-> q]
      /\ \/ /\ s.returned
            /\ response' = BadRequest /\ metrics' = {"Error"}
            /\ UNCHANGED lists
         \/ /\ ~s.returned /\ missing
            /\ response' = Failure /\ metrics' = {"HttpAnnounce"}
            /\ UNCHANGED lists
         \/ /\ ~s.returned /\ ~missing
            /\ lists' = after /\ Bounded(after)
            /\ \E S \in Offers(after, h, ip, s.numwant, stopped) :
                 response' = Announced(counts(h, after), S)
            /\ metrics' = {"HttpAnnounce"}
      /\ UNCHANGED scrape

\* GET /scrape
HttpScrape(q) ==
  /\ scrape = NoScrape
  /\ scrape' = [query |-> q, at |-> 0, rows |-> <<>>, before |-> Downloads(lists)]
  /\ request' = [via |-> "scrape", query |-> q] /\ response' = Pending /\ metrics' = {}
  /\ UNCHANGED lists

\* The next info-hash of the query is decoded and looked up.
ScrapeHash ==
  \E i \in ToScrape :
    LET q == scrape.query
    IN  /\ \A j \in ToScrape : i <= j
        /\ \/ /\ ~q[i].ok
              /\ scrape' = NoScrape
              /\ response' = BadRequest /\ metrics' = {"Error"}
           \/ /\ q[i].ok
              /\ scrape' = [scrape EXCEPT !.at = i,
                   !.rows = Append(@, [hash |-> q[i].val, counts |-> counts(q[i].val, lists)])]
              /\ UNCHANGED <<response, metrics>>
        /\ UNCHANGED <<lists, request>>

ScrapeEnd ==
  /\ scrape # NoScrape /\ ToScrape = {}
  /\ scrape' = NoScrape
  /\ response' = Files(scrape.rows) /\ metrics' = {"HttpScrape"}
  /\ UNCHANGED <<lists, request>>

\* GET / and anything else
HttpOther ==
  /\ request' = [via |-> "other"]
  /\ response' \in {Redirect, NotFound}
  /\ metrics' = {}
  /\ UNCHANGED <<lists, scrape>>

\* A UDP announce with a valid id (UdpHandler).
UdpAnnounce(ip, h, port, left, event, numwant) ==
  LET stopped == event = "stopped"
      after   == Applied(h, ip, port, udp_flags(left, event), stopped)
  IN  /\ request' = [via |-> "udp", ip |-> ip, hash |-> h, port |-> port, left |-> left]
      /\ lists' = after /\ Bounded(after)
      /\ \E S \in Offers(after, h, ip, numwant, stopped) :
           response' = Announced(counts(h, after), S)
      /\ metrics' = {"UdpAnnounce"}
      /\ UNCHANGED scrape

Next ==
  \/ \E ip \in Ip, q \in AnnounceQueries : HttpAnnounce(ip, q)
  \/ \E q \in ScrapeQueries : HttpScrape(q)
  \/ ScrapeHash \/ ScrapeEnd
  \/ HttpOther
  \/ \E ip \in Ip, h \in Hash, port \in Port, left \in {0, 1},
        event \in {"", "completed", "stopped"}, numwant \in 0..NUMWANT_MAX :
        UdpAnnounce(ip, h, port, left, event, numwant)

Spec == Init /\ [][Next]_vars

-----------------------------------------------------------------------------
(* Properties *)

CountsOf == [complete : 0..U32_MAX, incomplete : 0..U32_MAX, downloaded : 0..U32_MAX]

TypeOK ==
  /\ \A h \in Hash, f \in Family :
       IsList(lists[h][f]) /\ leechers(lists[h][f]) \in Nat
  /\ \A k \in Key, h \in Hash, f \in Family :
       k \in Registered(lists[h][f]) => FamilyOf(k[1]) = f
  /\ response.kind = "announce" =>
       response.counts \in CountsOf /\ response.peers \subseteq Key
  /\ metrics \subseteq {"HttpAnnounce", "HttpScrape", "UdpAnnounce", "Error"}
  /\ scrape # NoScrape =>
       scrape.rows \in Seq([hash : Hash, counts : CountsOf])

-----------------------------------------------------------------------------
(* What a query says, without the loop *)

Last(S) == CHOOSE i \in S : \A j \in S : j <= i

Said(q, key, default) ==
  IF Places(q, key) = {} THEN default ELSE q[Last(Places(q, key))].val

\* Absent or malformed, a leecher's.
Left(q) ==
  LET at == Places(q, "left")
  IN  IF at # {} /\ q[Last(at)].ok THEN q[Last(at)].val ELSE 1

\* The last well-formed one.
Numwant(q) ==
  LET at == {i \in Places(q, "numwant") : q[i].ok}
  IN  IF at = {} THEN NUMWANT_DEFAULT ELSE Least(q[Last(at)].val, NUMWANT_MAX)

Malformed(q)  == \E i \in 1..Len(q) : Returns(q[i])
Incomplete(q) == Places(q, "info_hash") = {} \/ Places(q, "port") = {}

Request(hash, port, left, event, numwant) ==
  [ kind |-> "request", hash |-> hash, port |-> port,
    left |-> left, event |-> event, numwant |-> numwant ]

\* What announce is to understand by a query.
Meaning(q) ==
  IF Malformed(q) THEN BadRequest
  ELSE IF Incomplete(q) THEN Failure
  ELSE Request(Said(q, "info_hash", ""), Said(q, "port", 0), Left(q),
               Said(q, "event", ""), Numwant(q))

\* What it does understand.
Understood(q) ==
  LET s == Looped(q)
  IN  IF s.returned THEN BadRequest
      ELSE IF s.hash = <<>> \/ s.port = <<>> THEN Failure
      ELSE Request(s.hash[1], s.port[1], s.left, s.event, s.numwant)

\* The ways to write a query anew; what is there twice stays in its order.
Rearrangements(q) ==
  LET n == Len(q)
  IN  {p \in [1..n -> 1..n] :
         /\ \A j \in 1..n : \E i \in 1..n : p[i] = j
         /\ \A i, j \in 1..n : i < j /\ q[p[i]].key = q[p[j]].key => p[i] < p[j]}

\* A client may write its parameters in any order.  The loop over them, which
\* overwrites what it has read and returns from its middle, understands the same
\* by all of them: the last of what is there twice, and a 400 wherever its cause.
OrderFree ==
  request.via = "announce" =>
    LET q       == request.query
        meaning == Meaning(q)
    IN  \A p \in Rearrangements(q) :
          Understood([i \in 1..Len(q) |-> q[p[i]]]) = meaning

-----------------------------------------------------------------------------
(* What requests do *)

\* The torrent and the peer an announce was about.
Torrent(r) == IF r.via = "udp" THEN r.hash ELSE Said(r.query, "info_hash", "")
PortOf(r)  == IF r.via = "udp" THEN r.port ELSE Said(r.query, "port", 0)

Announcer(r) == <<Torrent(r), FamilyOf(r.ip), <<r.ip, PortOf(r)>>>>

\* The seeders of every list, as its entries have them.
SeedersIn(ls) == {r \in Hash \X Family \X Key :
                    r[3] \in Having(ls[r[1]][r[2]], "SEEDING")}

\* What the request says last of what it has left is a legible nothing.
SaidNoneLeft(r) ==
  \/ r.via = "udp" /\ r.left = 0
  \/ /\ r.via = "announce"
     /\ \E i \in Places(r.query, "left") :
          /\ \A j \in Places(r.query, "left") : j <= i
          /\ r.query[i].ok /\ r.query[i].val = 0

\* A request makes a seeder of nobody but the peer it comes from, and of that one
\* only if the last `left` it gives is a legible 0: one that is missing or garbled
\* leaves a leecher ("malformed -> leecher, not seeder"), also behind one that is
\* not, for seeders are kept from leechers.
NoFalseSeeder ==
  [][\A s \in SeedersIn(lists)' \ SeedersIn(lists) :
       s = Announcer(request') /\ SaidNoneLeft(request')]_vars

\* However many announces come between the look-ups of a scrape, a row shows a
\* count of downloads that its torrent had since the request came, as far as 32
\* bits show it.
RowsOfThisScrape ==
  scrape # NoScrape =>
    \A i \in 1..Len(scrape.rows) :
      LET row == scrape.rows[i]
      IN  \E n \in scrape.before[row.hash]..Downloads(lists)[row.hash] :
            row.counts.downloaded = AsU32(n)

\* Whichever front end it came through, an announce is told of the seeders and
\* the leechers of both families, each of them once, and is offered peers of its own.
FamiliesApart ==
  response.kind = "announce" =>
    LET h     == Torrent(request)
        all   == UNION {Registered(lists[h][g]) : g \in Family}
        seeds == UNION {Having(lists[h][g], "SEEDING") : g \in Family}
    IN  /\ response.counts.complete = AsU32(Cardinality(seeds))
        /\ response.counts.incomplete = AsU32(Cardinality(all \ seeds))
        /\ response.peers \subseteq Registered(lists[h][FamilyOf(request.ip)])
=============================================================================
