------------------------------- MODULE ConfigFile -------------------------------
(***************************************************************************)
(* The configuration file of crates/bf-config/src/lib.rs: what one line    *)
(* does to the configuration, and when it is malformed.                    *)
(*                                                                         *)
(* A line is a directive and the value behind it.  A value is what its     *)
(* words spell, and `note` says that a `# ...` follows them on the line,   *)
(* which belongs to the value as far as the parser is concerned.           *)
(***************************************************************************)
EXTENDS Integers, Sequences, FiniteSets

CONSTANTS
  DEFAULT_PORT,
  U32_MAX,
  USIZE_MAX

\* Port 0, which asks for any port, is left out.
Address == [ip : STRING, port : Nat \ {0}]

\* What the words behind a directive may spell.
Value ==
  [is : {"number"}, it : Nat, note : BOOLEAN] \cup
  [is : {"ip", "word", "nothing"}, it : STRING, note : BOOLEAN] \cup
  [is : {"address"}, it : Address, note : BOOLEAN] \cup
  [is : {"list"}, it : Seq(STRING), note : BOOLEAN]

Line == [key : STRING, val : Value]

\* Directives by the type of their value.
Numbers  == { "udp.connid_window", "l7.reannounce_min_interval", "l7.score_ban_threshold",
              "l7.ban_duration", "l7.reban_cooldown", "l7.fast_announce_gap" }
Sizes    == { "listen.udp.workers", "listen.udp.rcvbuf", "l7.max_entries",
              "l7.max_offenders" }
Booleans == {"l7.enable", "nft.enable"}
Given    == Sizes \ {"listen.udp.rcvbuf"}   \* those that always have a value
Texts    == {"tracker.redirect_url", "tracker.rootdir", "tracker.user", "nft.table"}
SetLists == {"nft.set4", "nft.set6"}
Socket   == "metrics.listen"
Listens  == {"listen.udp", "listen.tcp", "listen.tcp_udp"}

Settings == Numbers \cup Sizes \cup Booleans \cup Texts \cup SetLists \cup {Socket}

\* The values the source gives a setting that no line mentions: an Option is a
\* sequence of at most one.
Plain(text) == [is |-> "word", it |-> text, note |-> FALSE]

Default ==
  [ udp_listen |-> <<>>, tcp_listen |-> <<>>, unknown |-> <<>>,
    set |-> [k \in Settings |->
      CASE k = "udp.connid_window"          -> 120
        [] k = "l7.reannounce_min_interval" -> 60
        [] k = "l7.score_ban_threshold"     -> 100
        [] k \in {"l7.ban_duration", "l7.reban_cooldown"} -> 3600
        [] k = "l7.fast_announce_gap"       -> 300
        [] k = "listen.udp.workers"         -> 0
        [] k = "l7.max_entries"             -> 1000000
        [] k = "l7.max_offenders"           -> 5000000
        [] k \in Booleans                   -> FALSE
        [] k = "nft.table"                  -> Plain("inet filter")
        [] k = "nft.set4"                   -> <<Plain("l7ban4")>>
        [] k = "nft.set6"                   -> <<Plain("l7ban6")>>
        [] OTHER                            -> <<>>] ]

\* Every default fits the width its directive is read with.
ASSUME WidthAssumption ==
  /\ U32_MAX \in Nat /\ USIZE_MAX \in Nat /\ DEFAULT_PORT \in Nat \ {0}
  /\ \A k \in Numbers : Default.set[k] <= U32_MAX
  /\ \A k \in Given : Default.set[k] <= USIZE_MAX

-----------------------------------------------------------------------------
(* Values *)

\* boolean
IsTrue(val) ==
  \/ val.is = "number" /\ val.it = 1
  \/ val.is = "word" /\ val.it \in {"true", "yes"}
IsFalse(val) ==
  \/ val.is = "number" /\ val.it = 0
  \/ val.is = "word" /\ val.it \in {"false", "no"}

\* set_list: everything between the commas, the note included in the last one.
set_list(val) ==
  LET names == CASE val.is = "nothing" -> <<>> [] val.is = "list" -> val.it
                 [] OTHER -> <<val.it>>
  IN  [i \in 1..Len(names) |->
         [Plain(names[i]) EXCEPT !.note = val.note /\ i = Len(names)]]

\* listen_addr: a bare address takes the default port.
listen_addr(val) ==
  IF val.is = "ip" THEN [ip |-> val.it, port |-> DEFAULT_PORT] ELSE val.it

\* Mutant: numbers of every width are read alike.
Malformed_NoWidth(key, val) ==
  \/ key \in Numbers \cup Sizes /\ (val.is # "number" \/ val.note)
  \/ key \in Booleans /\ (val.note \/ ~(IsTrue(val) \/ IsFalse(val)))
  \/ key \in Listens /\ (val.note \/ val.is \notin {"address", "ip"})
  \/ key = Socket /\ (val.note \/ val.is # "address")

\* field, boolean and listen_addr take the value whole.
Malformed(key, val) ==
  \/ key \in Numbers \cup Sizes /\ (val.is # "number" \/ val.note)
  \/ key \in Numbers /\ val.is = "number" /\ val.it > U32_MAX
  \/ key \in Sizes /\ val.is = "number" /\ val.it > USIZE_MAX
  \/ key \in Booleans /\ (val.note \/ ~(IsTrue(val) \/ IsFalse(val)))
  \/ key \in Listens /\ (val.note \/ val.is \notin {"address", "ip"})
  \/ key = Socket /\ (val.note \/ val.is # "address")

\* What a well-formed value is worth to its setting.
Worth(key, val) ==
  CASE key \in Numbers                       -> val.it
    [] key \in Given                         -> val.it
    [] key \in Booleans                      -> IsTrue(val)
    [] key = "nft.table"                     -> val
    [] key \in SetLists                      -> set_list(val)
    [] key \in {Socket, "listen.udp.rcvbuf"} -> <<val.it>>
    [] key \in Texts \ {"nft.table"}         -> <<val>>

-----------------------------------------------------------------------------
(* Lines *)

Blank == [key |-> "", val |-> [is |-> "nothing", it |-> "", note |-> FALSE]]

Bad(line) == Malformed(line.key, line.val)

\* Mutant: listen.tcp_udp forgets the second listener.
Applied_OneListener(c, line) ==
  CASE line.key = "" -> c
    [] line.key \in {"listen.udp", "listen.tcp_udp"} ->
         [c EXCEPT !.udp_listen = Append(@, listen_addr(line.val))]
    [] line.key = "listen.tcp" ->
         [c EXCEPT !.tcp_listen = Append(@, listen_addr(line.val))]
    [] line.key \in Settings -> [c EXCEPT !.set[line.key] = Worth(line.key, line.val)]
    [] OTHER -> [c EXCEPT !.unknown = Append(@, line.key)]

\* The configuration after one more well-formed line.
Applied(c, line) ==
  CASE line.key = "" -> c
    [] line.key = "listen.udp" ->
         [c EXCEPT !.udp_listen = Append(@, listen_addr(line.val))]
    [] line.key = "listen.tcp" ->
         [c EXCEPT !.tcp_listen = Append(@, listen_addr(line.val))]
    [] line.key = "listen.tcp_udp" ->
         [c EXCEPT !.udp_listen = Append(@, listen_addr(line.val)),
                   !.tcp_listen = Append(@, listen_addr(line.val))]
    [] line.key \in Settings -> [c EXCEPT !.set[line.key] = Worth(line.key, line.val)]
    [] OTHER -> [c EXCEPT !.unknown = Append(@, line.key)]
=============================================================================
