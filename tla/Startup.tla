------------------------------- MODULE Startup -------------------------------
(***************************************************************************)
(* From the configuration file to a listening server: main                 *)
(* (src/src/main.rs), ConfigBuilder (src/src/config.rs), Server::new, bind *)
(* and run (src/src/server.rs) and the bind functions of the two listener  *)
(* handlers.                                                               *)
(*                                                                         *)
(* The server binds one socket per await and the first failure ends the    *)
(* program, while other processes bind and release sockets of their own.   *)
(***************************************************************************)
EXTENDS Naturals, FiniteSets, Sequences

CONSTANTS Addrs,             \* addresses of the host
          Overlapping,       \* pairs of distinct ones that share their ports
          Ports,
          Keys,              \* port strings of [tcp-rp-ports]
          PortOf,            \* the port each of them parses to, or Malformed
          Files,             \* configuration files, see Init
          DefaultTlsPorts,   \* tls_rp_listen_port of the default builder
          UsizeMax,
          Absent,            \* a section or a key that is not in the file
          Malformed,         \* a value that does not parse
          NoConfig           \* no configuration has been built

ASSUME StartupAssumption ==
    /\ Overlapping \subseteq Addrs \X Addrs
    /\ \A p \in Overlapping : <<p[2], p[1]>> \in Overlapping
    /\ PortOf \in [Keys -> Ports \cup {Malformed}]
    /\ DefaultTlsPorts \in Seq(Ports)
    /\ UsizeMax \in Nat
    /\ Malformed \notin Ports
    /\ Malformed \notin {Absent, <<>>}

VARIABLES
    file,        \* the configuration file
    config,      \* what ConfigBuilder::build makes of it
    phase,       \* how far main has got
    unbound_tls, \* sockets the TLS/HTTP handler has still to bind, in order
    unbound_tcp, \* keys whose port the plain TCP handler has still to bind
    bound,       \* sockets of the server
    others       \* sockets of other processes

vars == <<file, config, phase, unbound_tls, unbound_tcp, bound, others>>

Over == {"failed", "panicked"}

Phases == {"start", "parsed", "configured", "waiting", "bind_tls", "bind_tcp", "bound",
           "running"} \cup Over

Sockets == Addrs \X Ports

\* What bind(2) refuses: one port at the same address or at addresses that
\* overlap, as a wildcard address and any other of its family do.
Conflict(s, t) ==
    s[2] = t[2] /\ (s[1] = t[1] \/ <<s[1], t[1]>> \in Overlapping)

Free(s) == \A t \in bound \cup others : ~Conflict(s, t)

-----------------------------------------------------------------------------
(* The configuration. *)

\* A file of sections and keys.  Destinations play no part here, and of the
\* logger section only whether the log file, if there is one, can be opened.
FileFields == {"main_section", "log_file", "bind_addresses", "destination_addresses", "tls_names",
               "tls_rp_listen_port", "tcp_keys", "max_connections"}

\* take_multi_value: a missing key is an empty list, not an error.
TakeMultiValue(v) == IF v = Absent THEN <<>> ELSE v

\* get_ini_config returns Err without [rusty-valve], for addresses and for port
\* keys that do not parse, and for nothing else in these sections.
GetIniConfigFails(f) ==
    \/ ~f.main_section
    \/ f.bind_addresses = Malformed
    \/ f.destination_addresses = Malformed
    \/ f.tcp_keys # Absent /\ \E k \in f.tcp_keys : PortOf[k] = Malformed

\* `if let Ok(v)' keeps the default only if the listed ports do not parse.
TlsRpListenPort(f) ==
    IF f.tls_names = Absent \/ f.tls_rp_listen_port = Malformed
    THEN DefaultTlsPorts
    ELSE TakeMultiValue(f.tls_rp_listen_port)

SshTarpitMaxConnections(f) ==
    IF f.max_connections \in {Absent, Malformed} THEN 0 ELSE f.max_connections

\* The handlers and the load balancer get a configuration if theirs is not
\* empty; `!max_connections == 0' complements the integer, bit by bit.
Build(f) ==
    [bind_ip_addrs    |-> TakeMultiValue(f.bind_addresses),
     tls_rp_bind_port |-> TlsRpListenPort(f),
     tls_rp           |-> f.tls_names \notin {Absent, {}},
     tcp_rp           |-> f.tcp_keys \notin {Absent, {}},
     load_balancer    |-> TakeMultiValue(f.destination_addresses) # <<>>,
     ssh_tarpit       |-> UsizeMax - SshTarpitMaxConnections(f) = 0]

\* What a file can hold where the program looks; the rest plays no part.
ASSUME FilesAssumption ==
    \A f \in Files :
        /\ DOMAIN f = FileFields
        /\ f.bind_addresses \in Seq(Addrs) \cup {Absent, Malformed}
        /\ f.tls_rp_listen_port \in Seq(Ports) \cup {Absent, Malformed}
        /\ f.tcp_keys \in (SUBSET Keys) \cup {Absent}
        /\ Build(f) # NoConfig

\* Mutant: the server is refused only if it has neither handler.
ListenerInnerNewEither(cfg) == cfg.tls_rp \/ cfg.tcp_rp

\* ListenerInner::new goes on only with both handlers.
ListenerInnerNew(cfg) == cfg.tls_rp /\ cfg.tcp_rp

\* The TLS/HTTP handler's sockets: every address, for one port after another.
TlsSockets(cfg) ==
    LET n == Len(cfg.bind_ip_addrs)
    IN  [i \in 1..(n * Len(cfg.tls_rp_bind_port)) |->
            <<cfg.bind_ip_addrs[((i - 1) % n) + 1],
              cfg.tls_rp_bind_port[((i - 1) \div n) + 1]>>]

\* The plain TCP handler pops all its ports while it is at its first address.
TcpSocket(cfg, k) == <<Head(cfg.bind_ip_addrs), PortOf[k]>>
-----------------------------------------------------------------------------
Init ==
    /\ file \in Files
    /\ config = NoConfig
    /\ phase = "start"
    /\ unbound_tls = <<>>
    /\ unbound_tcp = {}
    /\ bound = {}
    /\ others = {}

\* main returns an error or panics: every socket is dropped.
Stop(how) ==
    /\ phase' = how
    /\ bound' = {}

GetIniConfig ==
    /\ phase = "start"
    /\ IF GetIniConfigFails(file) THEN Stop("failed")
                                  ELSE phase' = "parsed" /\ UNCHANGED bound
    /\ UNCHANGED <<file, config, unbound_tls, unbound_tcp, others>>

\* Mutant: the builder is never built.
InitLoggerOnly ==
    /\ phase = "parsed"
    /\ IF file.log_file = "refused" THEN Stop("panicked")
                                     ELSE phase' = "configured" /\ UNCHANGED bound
    /\ UNCHANGED <<file, config, unbound_tls, unbound_tcp, others>>

\* init_logger, then build.  The appender of a log file that cannot be opened
\* panics.
InitLogger ==
    /\ phase = "parsed"
    /\ IF file.log_file = "refused"
       THEN Stop("panicked") /\ UNCHANGED config
       ELSE phase' = "configured" /\ config' = Build(file) /\ UNCHANGED bound
    /\ UNCHANGED <<file, unbound_tls, unbound_tcp, others>>

\* Server::new.  The load balancer may be missing; of a handler that is there
\* bind will have the sockets to bind.
ServerNew ==
    /\ phase = "configured"
    /\ IF ListenerInnerNew(config)
       THEN /\ phase' = "bind_tls"
            /\ unbound_tls' = IF config.tls_rp THEN TlsSockets(config) ELSE <<>>
            /\ unbound_tcp' = IF config.tcp_rp THEN file.tcp_keys ELSE {}
       ELSE /\ phase' = "waiting"
            /\ UNCHANGED <<unbound_tls, unbound_tcp>>
    /\ UNCHANGED <<file, config, bound, others>>

WaitThenStop ==
    /\ phase = "waiting"
    /\ Stop("failed")
    /\ UNCHANGED <<file, config, unbound_tls, unbound_tcp, others>>

\* Mutant: a socket that cannot be bound is skipped.
BindOrSkip(s) ==
    /\ bound' = IF Free(s) THEN bound \cup {s} ELSE bound
    /\ UNCHANGED phase

\* One TcpListener::bind(..).await?.
Bind(s) ==
    IF Free(s) THEN bound' = bound \cup {s} /\ UNCHANGED phase
               ELSE Stop("failed")

\* Mutant: a socket that is in use is waited for.
BindTlsWhenFree ==
    /\ phase = "bind_tls"
    /\ unbound_tls # <<>>
    /\ Free(Head(unbound_tls))
    /\ unbound_tls' = Tail(unbound_tls)
    /\ bound' = bound \cup {Head(unbound_tls)}
    /\ UNCHANGED <<file, config, phase, unbound_tcp, others>>

\* Mutant: the socket is bound again on the next turn.
BindTlsAgain ==
    /\ phase = "bind_tls"
    /\ unbound_tls # <<>>
    /\ Bind(Head(unbound_tls))
    /\ UNCHANGED <<file, config, unbound_tls, unbound_tcp, others>>

BindTls ==
    /\ phase = "bind_tls"
    /\ unbound_tls # <<>>
    /\ unbound_tls' = Tail(unbound_tls)
    /\ Bind(Head(unbound_tls))
    /\ UNCHANGED <<file, config, unbound_tcp, others>>

\* A handler without a socket is an error here, but not for plain TCP.
TlsBound ==
    /\ phase = "bind_tls"
    /\ unbound_tls = <<>>
    /\ IF config.tls_rp /\ bound = {} THEN Stop("failed") ELSE phase' = "bind_tcp" /\ UNCHANGED bound
    /\ UNCHANGED <<file, config, unbound_tls, unbound_tcp, others>>

\* The provider's vector has the order of a hash map.
BindTcp ==
    /\ phase = "bind_tcp"
    /\ \E k \in unbound_tcp :
          /\ unbound_tcp' = unbound_tcp \ {k}
          /\ Bind(TcpSocket(config, k))
    /\ UNCHANGED <<file, config, unbound_tls, others>>

TcpBound ==
    /\ phase = "bind_tcp"
    /\ unbound_tcp = {}
    /\ phase' = "bound"
    /\ UNCHANGED <<file, config, unbound_tls, unbound_tcp, bound, others>>

\* ListenerInner::listen panics at the first poll if a handler is missing.
ListenPanics(cfg) == ~cfg.tls_rp \/ ~cfg.tcp_rp

\* Server::run unwraps the load balancer and polls listen; then the listen
\* loops run for good.
Run ==
    /\ phase = "bound"
    /\ IF ~config.load_balancer \/ ListenPanics(config)
       THEN Stop("panicked")
       ELSE phase' = "running" /\ UNCHANGED bound
    /\ UNCHANGED <<file, config, unbound_tls, unbound_tcp, others>>

(* Other processes. *)

OtherBinds(s) ==
    /\ Free(s)
    /\ others' = others \cup {s}
    /\ UNCHANGED <<file, config, phase, unbound_tls, unbound_tcp, bound>>

OtherReleases(s) ==
    /\ s \in others
    /\ others' = others \ {s}
    /\ UNCHANGED <<file, config, phase, unbound_tls, unbound_tcp, bound>>

Main ==
    \/ GetIniConfig
    \/ InitLogger
    \/ ServerNew
    \/ WaitThenStop
    \/ BindTls
    \/ TlsBound
    \/ BindTcp
    \/ TcpBound
    \/ Run

Next ==
    \/ Main
    \/ \E s \in Sockets : OtherBinds(s) \/ OtherReleases(s)

Spec == Init /\ [][Next]_vars /\ WF_vars(Main)
-----------------------------------------------------------------------------
(* Properties. *)

TypeOK ==
    /\ file \in Files
    /\ DOMAIN file = FileFields
    /\ phase \in Phases
    /\ phase \notin {"start", "parsed"} \cup Over => config # NoConfig
    /\ unbound_tls \in Seq(Sockets)
    /\ unbound_tcp \subseteq Keys
    /\ bound \subseteq Sockets
    /\ others \subseteq Sockets

\* The sockets a file asks for, by the handler that listens on them.
WantedTls(f) ==
    {TlsSockets(Build(f))[i] : i \in DOMAIN TlsSockets(Build(f))}

WantedTcp(f) == {TcpSocket(Build(f), k) : k \in f.tcp_keys}

\* A running server listens on exactly the TLS sockets of its file and on its
\* TCP ports at the first address, no two of which are the same or overlap;
\* none was lost to another process or to the server itself on the way.
ListensAsConfigured ==
    phase = "running" =>
        /\ bound = WantedTls(file) \cup WantedTcp(file)
        /\ WantedTls(file) \cap WantedTcp(file) = {}
        /\ \A j, k \in file.tcp_keys : PortOf[j] = PortOf[k] => j = k
        /\ \A s, t \in bound : Conflict(s, t) => s = t
        /\ \A s \in bound, t \in others : ~Conflict(s, t)

\* The check for listeners in ListenerInner::new keeps the panics of
\* ListenerInner::listen, much later, out of reach: what panics is the log
\* file, before anything is bound, or the missing load balancer, with every
\* socket already taken.
PanicsOnlyFirstOrLast ==
    [][phase' = "panicked" /\ phase # "panicked" =>
          \/ file.log_file = "refused" /\ bound = {}
          \/ /\ file.destination_addresses \in {Absent, <<>>}
             /\ config.tls_rp /\ config.tcp_rp
             /\ bound = WantedTls(file) \cup WantedTcp(file)]_vars

\* A file that is complete, does not contradict itself and asks for sockets no
\* other process ever holds leads to a running server.
Startable(f) ==
    /\ ~GetIniConfigFails(f) /\ f.log_file # "refused"
    /\ Build(f).tls_rp /\ Build(f).tcp_rp /\ Build(f).load_balancer
    /\ TlsSockets(Build(f)) # <<>>
    /\ \A i, j \in DOMAIN TlsSockets(Build(f)) :
         Conflict(TlsSockets(Build(f))[i], TlsSockets(Build(f))[j]) => i = j
    /\ \A s \in WantedTls(f), t \in WantedTcp(f) : ~Conflict(s, t)
    /\ \A j, k \in f.tcp_keys : PortOf[j] = PortOf[k] => j = k

Uncontended ==
    Startable(file) =>
        \A s \in WantedTls(file) \cup WantedTcp(file), t \in others : ~Conflict(s, t)

StartsUnlessContended ==
    Startable(file) /\ []Uncontended => <>(phase = "running")

\* Start-up comes to an end, even against other processes.
StartsOrStops == <>(phase \in {"running"} \cup Over)

(* What the comments say and the code does not do. *)

\* `bind-addresses': every TCP port of the file is open at every address of it.
EveryTcpPortOnEveryAddress ==
    phase = "running" =>
        \A i \in DOMAIN config.bind_ip_addrs, k \in file.tcp_keys :
            <<config.bind_ip_addrs[i], PortOf[k]>> \in bound

\* The file with what it leaves out put in: addresses, for which config.ini has
\* defaults, and the ports that ConfigBuilder::default has.
WithDefaults(f, addr) ==
    LET Or(v, default) == IF v = Absent THEN default ELSE v
    IN  [f EXCEPT !.bind_addresses        = Or(@, <<addr>>),
                  !.destination_addresses = Or(@, <<addr>>),
                  !.tls_rp_listen_port    = Or(@, DefaultTlsPorts)]

\* `Optional ... (default)': a file that leaves out what has a default, and is
\* sound with it, leads to a running server where no other process interferes.
OptionalKeysHaveDefaults ==
    \A addr \in Addrs :
        Startable(WithDefaults(file, addr)) /\ [](others = {}) => <>(phase = "running")
=============================================================================
