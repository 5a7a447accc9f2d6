------------------------------ MODULE MCStartup ------------------------------
(***************************************************************************)
(* Configuration files for TLC: each key absent, malformed, empty or set,  *)
(* a port string that does not parse, two strings that are the same port,  *)
(* and a wildcard address that overlaps another one.                       *)
(***************************************************************************)
EXTENDS Startup, TLC

CONSTANTS any4, any6, loopback, key25, key025, key80, bad_key

MCOverlapping == {<<any4, any6>>, <<any6, any4>>}

MCPortOf == key25 :> 25 @@ key025 :> 25 @@ key80 :> 80 @@ bad_key :> Malformed

MCDefaultTlsPorts == <<80>>

\* Files with every section in place.  Some ask for one port twice, or for
\* two addresses that overlap.
CompleteFiles ==
    [main_section : {TRUE}, log_file : {Absent},
     bind_addresses : {<<any4>>, <<any4, loopback>>, <<any4, any6>>},
     destination_addresses : {<<any4>>},
     tls_names : {{"name"}},
     tls_rp_listen_port : {<<443>>, <<80, 443>>},
     tcp_keys : {{key25}, {key25, key025}, {key25, key80}},
     max_connections : {0}]

SoundFile ==
    [main_section |-> TRUE, log_file |-> "opens",
     bind_addresses |-> <<any4, loopback>>, destination_addresses |-> <<any4>>,
     tls_names |-> {"name"}, tls_rp_listen_port |-> <<443>>,
     tcp_keys |-> {key25}, max_connections |-> 0]

\* A file with one thing missing, empty or malformed.
DeficientFiles ==
    {[SoundFile EXCEPT !.main_section = FALSE], [SoundFile EXCEPT !.log_file = "refused"]}
      \cup {[SoundFile EXCEPT !.bind_addresses = v] : v \in {Absent, Malformed, <<>>}}
      \cup {[SoundFile EXCEPT !.destination_addresses = v] : v \in {Absent, Malformed, <<>>}}
      \cup {[SoundFile EXCEPT !.tls_names = v] : v \in {Absent, {}}}
      \cup {[SoundFile EXCEPT !.tls_rp_listen_port = v] : v \in {Absent, Malformed, <<>>}}
      \cup {[SoundFile EXCEPT !.tcp_keys = v] : v \in {Absent, {}, {key25, bad_key}}}
      \cup {[SoundFile EXCEPT !.max_connections = v] : v \in {Absent, 1, UsizeMax}}

MCFiles == CompleteFiles \cup DeficientFiles
=============================================================================
