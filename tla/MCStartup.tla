-------------------------------- MODULE MCStartup --------------------------------
(* MCFiles is every file of up to two of the lines below, and files of three  *)
(* to six that bind several sockets.                                          *)
EXTENDS Startup

V(is, it)     == [is |-> is, it |-> it, note |-> FALSE]
Noted(is, it) == [is |-> is, it |-> it, note |-> TRUE]
L(key, val)   == [key |-> key, val |-> val]

On(ip, port) == [ip |-> ip, port |-> port]
At(port)  == On("::", port)
Udp1      == L("listen.udp", V("address", At(1)))
Bare      == L("listen.tcp_udp", V("ip", "::"))
Http1     == L("listen.tcp", V("address", At(1)))
Metrics1  == L(Socket, V("address", At(1)))
Metrics2  == L(Socket, V("address", At(2)))
Http4     == L("listen.tcp", V("address", On("0.0.0.0", 1)))
Http6     == L("listen.tcp", V("address", On("::1", 1)))
Metrics4  == L(Socket, V("address", On("127.0.0.1", 1)))
Abroad    == L("listen.udp", V("address", On("192.0.2.1", 1)))
Low       == L("listen.tcp", V("address", At(80)))
Threads(n) == L("listen.udp.workers", V("number", n))

SomeLines ==
  { Blank, Udp1, Bare, Http1, Http4, Metrics1, Metrics4, Abroad, L("listen.udp", V("word", "x")),
    L("listen.tcp", V("nothing", "")), L(Socket, V("ip", "::")),
    Threads(2), Threads(USIZE_MAX + 1), L("listen.udp.workers", Noted("number", 2)),
    L("udp.connid_window", V("number", U32_MAX)),
    L("udp.connid_window", V("number", U32_MAX + 1)),
    L("l7.max_entries", V("number", U32_MAX + 1)),
    L("l7.enable", V("number", 1)), L("l7.enable", V("word", "no")),
    L("l7.enable", V("number", 2)), L("nft.enable", Noted("word", "yes")),
    L("nft.set4", V("nothing", "")), L("nft.set4", Noted("list", <<"a", "b">>)),
    L("tracker.user", V("word", "nobody")), L("access.whitelist", V("word", "x")) }

OneOrTwo == {<<>>} \cup {<<a>> : a \in SomeLines} \cup {<<a, b>> : a, b \in SomeLines}

Several ==
  { <<Threads(2), Udp1, Bare, Metrics1>>, <<Udp1, Udp1, Threads(2), Bare, Http1, Metrics2>>,
    <<Bare, Bare, Udp1>>, <<Low>>, <<Http4, Http6, Metrics2>>, <<Http4, Http6, Metrics4>>, <<Http1, Metrics2, Metrics1>>, <<Metrics1, Http1, Metrics2>> }

MCFiles == OneOrTwo \cup Several

MCOthers == { [proto |-> "tcp", addr |-> On("127.0.0.1", 1)],
              [proto |-> "udp", addr |-> At(1)] }

\* A host with its two loopbacks; `[::]` takes IPv4 as well.
MCReach ==
  [ip \in {"::", "::1", "0.0.0.0", "127.0.0.1", "192.0.2.1"} |->
     CASE ip = "::" -> {"::1", "127.0.0.1"}
       [] ip \in {"0.0.0.0", "127.0.0.1"} -> {"127.0.0.1"}
       [] ip = "::1" -> {"::1"}
       [] OTHER -> {}]

MCPorts == {1, 2, DEFAULT_PORT}
=============================================================================
