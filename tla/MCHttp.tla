--------------------------------- MODULE MCHttp ---------------------------------
(* Every parameter alone, and beside an info-hash and a port; every two of    *)
(* those that decide about a peer, and keys that come twice.  One order of    *)
(* different keys is enough: OrderFree looks at all of them.                  *)
EXTENDS Http

CONSTANTS a4, a6, h1

MCPort == {6881}
MCKey  == Ip \X MCPort

P(key, ok, val) == [key |-> key, ok |-> ok, val |-> val]

Hash1   == P("info_hash", TRUE, h1)
BadHash == P("info_hash", FALSE, h1)
Port1   == P("port", TRUE, 6881)
BadPort == P("port", FALSE, 6881)

Lefts    == {P("left", TRUE, 0), P("left", FALSE, 0)}
Events   == {P("event", TRUE, "completed"), P("event", TRUE, "stopped")}
Deciding == Lefts \cup Events

Extra == Deciding \cup
  {P("left", TRUE, 7), P("compact", TRUE, "0"), P("compact", TRUE, "1"),
   P("numwant", TRUE, 0), P("numwant", TRUE, 9), P("numwant", FALSE, 0)}

Alone    == {<<p>> : p \in {Hash1, BadHash, Port1, BadPort, P("other", TRUE, "")}}
Complete == {<<Hash1>> \o s \o <<Port1>> : s \in {<<>>} \cup {<<p>> : p \in Extra}}
Twofold  == {<<p, Port1, Hash1, r>> :
               <<p, r>> \in (Lefts \X Deciding) \cup (Events \X Events)}

Repeated ==
  { <<Hash1, P("left", TRUE, 0), P("left", TRUE, 7), Port1>>,
    <<Port1, Hash1, P("left", TRUE, 7), P("left", TRUE, 0)>>,
    <<Hash1, Hash1, BadHash>>, <<Hash1, BadHash, Port1>>, <<BadPort, Hash1, Port1>>,
    <<Hash1, P("compact", TRUE, "0"), P("compact", TRUE, "1"), Port1>>,
    <<Hash1, P("numwant", TRUE, 0), P("numwant", FALSE, 0), Port1>> }

Queries == {<<>>} \cup Alone \cup Complete \cup Twofold \cup Repeated

\* Bound: what happens to the lists while a scrape is under way.
Beside ==
  scrape # NoScrape =>
    \/ request.via = "scrape"
    \/ request.via = "udp" /\ request.ip = a6 /\ request.left = 0
    \/ request.via = "announce" /\ request.ip = a4 /\ request.query =
          <<P("left", TRUE, 0), Port1, Hash1, P("event", TRUE, "completed")>>

Scrapes == {<<>>, <<Hash1, BadHash>>, <<Hash1, Port1, Hash1, BadHash>>}
=============================================================================
