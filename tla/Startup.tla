--------------------------------- MODULE Startup ---------------------------------
(***************************************************************************)
(* From the command line to a tracker that serves, and back: main and run  *)
(* of crates/bluefrog/src/main.rs over the configuration they read         *)
(* (ConfigFile), under the service of deploy/bluefrog.service, which       *)
(* starts the process again when it ends with an error.                    *)
(*                                                                         *)
(* Sockets are bound one after the other, and each serves from the moment  *)
(* it is bound.  Other programs may hold an address, or take it first.     *)
(* What the kernel makes of a bind is modelled by Reach: `[::]` answers at *)
(* every address of the host, those of IPv4 too unless it is told not to   *)
(* (bindv6only), and two listeners at one port may have no address in      *)
(* common.  Descriptors do not run out.                                    *)
(***************************************************************************)
EXTENDS ConfigFile

CONSTANTS
  Files,      \* the files an operator may have written
  Contested,  \* the sockets, [proto, addr], that other programs may hold
  Reach,      \* ip -> the host's own addresses that a socket bound to it answers at
  Ports       \* the ports the service may bind

ASSUME FileAssumption == Files \subseteq Seq(Line)

VARIABLES
  file,     \* the lines of the configuration file
  stage,    \* reading -> starting -> running, or one of the ends
  line,     \* the line to be read next, or the one that was refused
  config,   \* what has been read so far
  next,     \* the socket to be bound next
  udp,      \* address -> UDP worker sockets bound to it
  tcp,      \* the TCP sockets that listen, for HTTP and for metrics
  taken     \* the sockets other programs hold

vars == <<file, stage, line, config, next, udp, tcp, taken>>

\* Mutant: the number of workers is taken as it is.
Workers_AsGiven == config.set["listen.udp.workers"]

Workers == IF config.set["listen.udp.workers"] = 0 THEN 1
           ELSE config.set["listen.udp.workers"]

Udps    == Len(config.udp_listen) * Workers
Tcps    == Len(config.tcp_listen)
Metrics == Len(config.set[Socket])

\* The n-th socket of the startup: workers by address, HTTP, metrics.
ToBind(n) ==
  CASE n <= Udps -> [proto |-> "udp", addr |-> config.udp_listen[1 + ((n - 1) \div Workers)]]
    [] n > Udps /\ n <= Udps + Tcps -> [proto |-> "tcp", addr |-> config.tcp_listen[n - Udps]]
    [] n > Udps + Tcps -> [proto |-> "tcp", addr |-> config.set[Socket][1]]

\* The port may be bound, and the ip is one of the host's or stands for some.
Bindable(addr) == addr.port \in Ports /\ Reach[addr.ip] # {}

Overlap(a, b) == a.port = b.port /\ Reach[a.ip] \cap Reach[b.ip] # {}

\* UDP workers share what they are given (SO_REUSEPORT); listeners do not, and
\* neither share with other programs.
Free(s) ==
  /\ Bindable(s.addr)
  /\ \A o \in taken : o.proto = s.proto => ~Overlap(o.addr, s.addr)
  /\ s.proto = "tcp" => \A a \in tcp : ~Overlap(a, s.addr)

NoSockets == udp' = <<>> /\ tcp' = {}

Init ==
  /\ file \in Files
  /\ stage = "reading" /\ line = 1 /\ config = Default /\ next = 1
  /\ udp = <<>> /\ tcp = {}
  /\ taken \in SUBSET Contested

\* One line of parse.
ReadLine ==
  /\ stage = "reading" /\ line <= Len(file)
  /\ \/ /\ Bad(file[line])
        /\ stage' = "refused"
        /\ UNCHANGED <<line, config>>
     \/ /\ ~Bad(file[line])
        /\ config' = Applied(config, file[line])
        /\ line' = line + 1
        /\ UNCHANGED stage
  /\ UNCHANGED <<file, next, udp, tcp, taken>>

Run ==
  /\ stage = "reading" /\ line > Len(file)
  /\ stage' = "starting"
  /\ UNCHANGED <<file, line, config, next, udp, tcp, taken>>

\* An address that cannot be bound ends the process and closes what it had.
Bind ==
  /\ stage = "starting" /\ next <= Udps + Tcps + Metrics
  /\ LET s == ToBind(next)
     IN  \/ /\ ~Free(s)
            /\ stage' = "failed"
            /\ NoSockets
            /\ UNCHANGED next
         \/ /\ Free(s)
            /\ tcp' = IF s.proto = "tcp" THEN tcp \cup {s.addr} ELSE tcp
            /\ udp' = IF s.proto = "tcp" THEN udp
                      ELSE [a \in DOMAIN udp \cup {s.addr} |->
                              (IF a \in DOMAIN udp THEN udp[a] ELSE 0)
                              + (IF a = s.addr THEN 1 ELSE 0)]
            /\ next' = next + 1
            /\ UNCHANGED stage
  /\ UNCHANGED <<file, line, config, taken>>

Wait ==
  /\ stage = "starting" /\ next > Udps + Tcps + Metrics
  /\ stage' = "running"
  /\ UNCHANGED <<file, line, config, next, udp, tcp, taken>>

\* SIGTERM or ctrl-c, before or after there is somebody to wait for it.
Shutdown ==
  /\ stage \in {"reading", "starting", "running"}
  /\ stage' = "stopped"
  /\ NoSockets
  /\ UNCHANGED <<file, line, config, next, taken>>

\* Mutant: the service is not started again once it has begun to serve.
Restart_RefusedOnly ==
  /\ stage = "refused"
  /\ stage' = "reading" /\ line' = 1 /\ config' = Default /\ next' = 1
  /\ NoSockets
  /\ UNCHANGED <<file, taken>>

\* Restart=on-failure
Restart ==
  /\ stage \in {"refused", "failed"}
  /\ stage' = "reading" /\ line' = 1 /\ config' = Default /\ next' = 1
  /\ NoSockets
  /\ UNCHANGED <<file, taken>>

\* Other programs take what nobody has, and give it back.
Occupy(s) ==
  /\ s \notin taken
  /\ \A a \in IF s.proto = "tcp" THEN tcp ELSE DOMAIN udp : ~Overlap(a, s.addr)
  /\ taken' = taken \cup {s}
  /\ UNCHANGED <<file, stage, line, config, next, udp, tcp>>

Release(s) ==
  /\ s \in taken
  /\ taken' = taken \ {s}
  /\ UNCHANGED <<file, stage, line, config, next, udp, tcp>>

Next ==
  \/ ReadLine \/ Run \/ Bind \/ Wait \/ Shutdown \/ Restart
  \/ \E s \in Contested : Occupy(s) \/ Release(s)

Spec == Init /\ [][Next]_vars

\* The process and its service manager go on; what others do is up to them.
FairSpec ==
  /\ Spec
  /\ WF_vars(ReadLine) /\ WF_vars(Run) /\ WF_vars(Bind) /\ WF_vars(Wait)
  /\ WF_vars(Restart)

-----------------------------------------------------------------------------
(* Properties *)

TypeOK ==
  /\ stage \in {"reading", "starting", "running", "refused", "failed", "stopped"}
  /\ line \in 1..(Len(file) + 1)
  /\ config.udp_listen \in Seq(Address)
  /\ config.tcp_listen \in Seq(Address)
  /\ \A k \in Numbers : config.set[k] \in 0..U32_MAX
  /\ \A k \in Given : config.set[k] \in 0..USIZE_MAX
  /\ \A k \in Booleans : config.set[k] \in BOOLEAN
  /\ next \in 1..(Udps + Tcps + Metrics + 1)
  /\ \A a \in DOMAIN udp : udp[a] \in Nat \ {0}
  /\ taken \subseteq Contested

\* The lines a directive has among the first n.
LinesOf(keys, n) == {i \in 1..n : file[i].key \in keys}

\* What a line may begin with that is no unknown directive.
Named == Settings \cup Listens \cup {""}

Rank(i, S) == Cardinality({j \in S : j <= i})

\* Listeners and unknown directives accumulate in the order of their lines; of
\* the others the last line counts, whatever stands between, and a setting
\* without a line has its default.
InOrder(list, keys, n, W(_)) ==
  LET S == LinesOf(keys, n)
  IN  /\ Len(list) = Cardinality(S)
      /\ \A i \in S : list[Rank(i, S)] = W(i)

AsWritten ==
  LET n       == line - 1
      addr(i) == IF file[i].val.is = "ip"
                   THEN [ip |-> file[i].val.it, port |-> DEFAULT_PORT] ELSE file[i].val.it
      key(i)  == file[i].key
  IN  /\ InOrder(config.udp_listen, {"listen.udp", "listen.tcp_udp"}, n, addr)
      /\ InOrder(config.tcp_listen, {"listen.tcp", "listen.tcp_udp"}, n, addr)
      /\ InOrder(config.unknown, {file[i].key : i \in 1..n} \ Named, n, key)
      /\ \A k \in Settings :
           LET S == LinesOf({k}, n)
           IN  IF S = {} THEN config.set[k] = Default.set[k]
               ELSE \E i \in S : /\ \A j \in S : j <= i
                                 /\ config.set[k] = Worth(k, file[i].val)

\* A running tracker has every socket its file asks for, and as many workers to
\* an address as its file gives it, the times it is listed counted.
Listings(a) == Cardinality({i \in 1..Len(config.udp_listen) : config.udp_listen[i] = a})

ServesAsConfigured ==
  stage = "running" =>
    /\ \A i \in 1..Len(config.udp_listen) :
         LET a == config.udp_listen[i]
             w == config.set["listen.udp.workers"]
         IN  a \in DOMAIN udp /\ udp[a] >= Listings(a) /\ udp[a] >= Listings(a) * w
    /\ \A i \in 1..Tcps : config.tcp_listen[i] \in tcp
    /\ \A i \in 1..Metrics : config.set[Socket][i] \in tcp
    /\ Cardinality(tcp) = Tcps + Metrics

\* A file nothing is wrong with: every line is well-formed, every address that is
\* asked for may be bound, and no two that are to listen have one in common, that
\* of the metrics included.
Good ==
  LET n        == Len(file)
      addr(i)  == listen_addr(file[i].val)
      metrics  == {i \in LinesOf({Socket}, n) : \A j \in LinesOf({Socket}, n) : j <= i}
      listeners == LinesOf({"listen.tcp", "listen.tcp_udp"}, n) \cup metrics
  IN  /\ \A i \in 1..n : ~Bad(file[i])
      /\ \A i \in LinesOf({"listen.udp"}, n) \cup listeners : Bindable(addr(i))
      /\ \A i, j \in listeners : Overlap(addr(i), addr(j)) => i = j

\* An address that another program holds for a while is no end: with a good
\* file the service comes up once the others have let go for long enough.
ComesUp ==
  Good /\ <>[](taken = {}) => <>(stage \in {"running", "stopped"})
=============================================================================
