---------------------------- MODULE Startup_proofs ----------------------------
(***************************************************************************)
(* What a server that starts has bound, proved for any files, addresses    *)
(* and ports and whatever other processes do meanwhile.                    *)
(***************************************************************************)
EXTENDS Startup, SequenceFacts

(* The inductive invariant. *)

Binding == {"bind_tls", "bind_tcp", "bound", "running"}

\* The configuration is that of the file, which get_ini_config has read.
FromFile ==
    /\ phase \in {"parsed", "configured", "waiting"} \cup Binding => ~GetIniConfigFails(file)
    /\ phase \in {"configured", "waiting"} \cup Binding => config = Build(file)
    /\ phase \in Binding => config.tls_rp /\ config.tcp_rp

\* The sockets of the TLS/HTTP handler and those of the given keys are bound,
\* each for itself.
Listening(keys) ==
    /\ WantedTls(file) # {}
    /\ bound = WantedTls(file) \cup {TcpSocket(Build(file), k) : k \in keys}
    /\ WantedTls(file) \cap {TcpSocket(Build(file), k) : k \in keys} = {}
    /\ \A j, k \in keys : PortOf[j] = PortOf[k] => j = k

\* What is bound and what is still to be bound are what the file asks for.
BoundSoFar ==
    /\ phase \notin Binding => bound = {}
    /\ phase = "bind_tls" =>
         /\ bound \cup Range(unbound_tls) = WantedTls(file)
         /\ unbound_tcp = file.tcp_keys
    /\ phase = "bind_tcp" =>
         /\ unbound_tcp \subseteq file.tcp_keys
         /\ Listening(file.tcp_keys \ unbound_tcp)
    /\ phase \in {"bound", "running"} => Listening(file.tcp_keys)
    /\ phase = "running" => config.load_balancer

\* bind(2) has let nothing through that conflicts.
Exclusive ==
    /\ \A s, t \in bound : Conflict(s, t) => s = t
    /\ \A s \in bound, t \in others : ~Conflict(s, t)

IInv == TypeOK /\ FromFile /\ BoundSoFar /\ Exclusive

-----------------------------------------------------------------------------
(* Facts about files and sockets. *)

\* What a readable file gives to the builder has its type.
LEMMA ReadableFile ==
    ASSUME NEW f \in Files, ~GetIniConfigFails(f)
    PROVE  /\ Build(f).bind_ip_addrs \in Seq(Addrs)
           /\ Build(f).tls_rp_bind_port \in Seq(Ports)
           /\ Build(f).tcp_rp =>
                f.tcp_keys \subseteq Keys /\ \A k \in f.tcp_keys : PortOf[k] \in Ports
<1>1. TakeMultiValue(f.bind_addresses) \in Seq(Addrs)
  BY FilesAssumption DEF TakeMultiValue, GetIniConfigFails
<1>2. TlsRpListenPort(f) \in Seq(Ports)
  BY FilesAssumption, StartupAssumption DEF TlsRpListenPort, TakeMultiValue
<1>3. ASSUME f.tcp_keys # Absent
      PROVE  f.tcp_keys \subseteq Keys /\ \A k \in f.tcp_keys : PortOf[k] \in Ports
  BY <1>3, FilesAssumption, StartupAssumption DEF GetIniConfigFails
<1>. QED BY <1>1, <1>2, <1>3 DEF Build

\* A turn of the inner loop and one of the outer loop: every number up to n * m
\* is one of each.
LEMMA Turns ==
    ASSUME NEW n \in Nat, NEW m \in Nat, NEW i \in 1..(n * m)
    PROVE  /\ ((i - 1) % n) + 1 \in 1..n
           /\ ((i - 1) \div n) + 1 \in 1..m
<1>1. n > 0 /\ i - 1 \in Nat /\ i - 1 < n * m
  BY SMT
<1>. DEFINE q == (i - 1) \div n
            r == (i - 1) % n
<1>2. q \in Int /\ r \in 0..(n - 1) /\ i - 1 = n * q + r
  BY <1>1, SMT
<1>3. q >= 0
  <2>1. ASSUME q < 0 PROVE FALSE
    <3>1. n * q <= n * (-1)
      BY <1>1, <1>2, <2>1, SMT
    <3>. QED BY <1>1, <1>2, <3>1, SMT
  <2>. QED BY <1>2, <2>1
<1>4. q < m
  <2>1. ASSUME q >= m PROVE FALSE
    <3>1. n * q >= n * m
      BY <1>1, <1>2, <2>1, SMT
    <3>. QED BY <1>1, <1>2, <3>1, SMT
  <2>. QED BY <1>2, <2>1
<1>. QED BY <1>2, <1>3, <1>4

\* The TLS/HTTP handler binds sockets of the host, and only if it has an
\* address and a port.
LEMMA TlsSocketsFacts ==
    ASSUME NEW f \in Files, ~GetIniConfigFails(f)
    PROVE  /\ TlsSockets(Build(f)) \in Seq(Sockets)
           /\ Range(TlsSockets(Build(f))) = WantedTls(f)
           /\ WantedTls(f) # {} =>
                Build(f).bind_ip_addrs # <<>> /\ Build(f).tls_rp_bind_port # <<>>
<1>. DEFINE a == Build(f).bind_ip_addrs
            p == Build(f).tls_rp_bind_port
            s == TlsSockets(Build(f))
<1>1. a \in Seq(Addrs) /\ p \in Seq(Ports)
  BY ReadableFile
<1>2. Len(a) \in Nat /\ Len(p) \in Nat /\ Len(a) * Len(p) \in Nat
  <2>1. Len(a) \in Nat /\ Len(p) \in Nat
    BY <1>1, LenProperties
  <2>2. \A x, y \in Nat : x * y \in Nat
    BY SMT
  <2>. QED BY <2>1, <2>2
<1>3. s = [i \in 1..(Len(a) * Len(p)) |->
             <<a[((i - 1) % Len(a)) + 1], p[((i - 1) \div Len(a)) + 1]>>]
  BY DEF TlsSockets
<1>. HIDE DEF a, p, s
<1>4. \A i \in 1..(Len(a) * Len(p)) :
         <<a[((i - 1) % Len(a)) + 1], p[((i - 1) \div Len(a)) + 1]>> \in Sockets
  <2>. TAKE i \in 1..(Len(a) * Len(p))
  <2>1. ((i - 1) % Len(a)) + 1 \in 1..Len(a) /\ ((i - 1) \div Len(a)) + 1 \in 1..Len(p)
    BY <1>2, Turns
  <2>2. \A j \in 1..Len(a) : a[j] \in Addrs
    BY <1>1, ElementOfSeq
  <2>3. \A j \in 1..Len(p) : p[j] \in Ports
    BY <1>1, ElementOfSeq
  <2>. QED BY <2>1, <2>2, <2>3 DEF Sockets
<1>5. s \in Seq(Sockets)
  BY <1>2, <1>3, <1>4
<1>6. Range(s) = WantedTls(f)
  BY DEF WantedTls, Range, s
<1>7. ASSUME Range(s) # {} PROVE a # <<>> /\ p # <<>>
  <2>1. PICK i : i \in 1..(Len(a) * Len(p))
    BY <1>3, <1>7 DEF Range
  <2>2. Len(a) # 0 /\ Len(p) # 0
    BY <1>2, <2>1, SMT
  <2>. QED BY <1>1, <2>2, EmptySeq
<1>. QED BY <1>5, <1>6, <1>7 DEF s, a, p

\* The plain TCP handler binds sockets of the host, different ones for
\* different ports.
LEMMA TcpSocketFacts ==
    ASSUME NEW f \in Files, ~GetIniConfigFails(f), Build(f).tcp_rp, WantedTls(f) # {},
           NEW k \in f.tcp_keys
    PROVE  /\ TcpSocket(Build(f), k) \in Sockets
           /\ TcpSocket(Build(f), k)[2] = PortOf[k]
<1>1. Build(f).bind_ip_addrs \in Seq(Addrs) /\ Build(f).bind_ip_addrs # <<>>
  BY ReadableFile, TlsSocketsFacts
<1>2. Head(Build(f).bind_ip_addrs) \in Addrs
  BY <1>1, HeadTailProperties
<1>3. PortOf[k] \in Ports
  BY ReadableFile
<1>. QED BY <1>2, <1>3 DEF TcpSocket, Sockets

\* Conflict goes both ways and a socket conflicts with itself.
LEMMA ConflictFacts ==
    ASSUME NEW s \in Sockets, NEW t \in Sockets
    PROVE  Conflict(s, s) /\ (Conflict(s, t) => Conflict(t, s))
<1>1. ASSUME <<s[1], t[1]>> \in Overlapping PROVE <<t[1], s[1]>> \in Overlapping
  BY <1>1, StartupAssumption
<1>. QED BY <1>1 DEF Conflict, Sockets

-----------------------------------------------------------------------------
(* The invariant holds initially and every step keeps it. *)

LEMMA InitIInv == Init => IInv
<1>. SUFFICES ASSUME Init PROVE IInv
  OBVIOUS
<1>. USE DEF Init, Binding, Over
<1>1. TypeOK
  <2>1. unbound_tls \in Seq(Sockets)
    BY EmptySeq
  <2>. QED BY <2>1, FilesAssumption DEF TypeOK, Phases
<1>. QED BY <1>1 DEF IInv, FromFile, BoundSoFar, Exclusive

\* A failure leaves nothing bound and nothing to show.
LEMMA StopIInv ==
    ASSUME IInv, NEW how \in Over, Stop(how), file' = file, others' = others,
           config' # NoConfig \/ phase \in {"start", "parsed"} \/ config' = config,
           unbound_tls' \in Seq(Sockets), unbound_tcp' \subseteq Keys
    PROVE  IInv'
BY DEF IInv, Stop, Over, TypeOK, Phases, FromFile, BoundSoFar, Exclusive, Binding, Listening

LEMMA GetIniConfigIInv ==
    ASSUME IInv, GetIniConfig
    PROVE  IInv'
<1>1. CASE GetIniConfigFails(file)
  BY <1>1, StopIInv DEF GetIniConfig, IInv, TypeOK, Over
<1>2. CASE ~GetIniConfigFails(file)
  BY <1>2 DEF GetIniConfig, IInv, TypeOK, Phases, Over, FromFile, BoundSoFar, Exclusive,
              Binding, Conflict
<1>. QED BY <1>1, <1>2

LEMMA InitLoggerIInv ==
    ASSUME IInv, InitLogger
    PROVE  IInv'
<1>1. CASE file.log_file = "refused"
  BY <1>1, StopIInv DEF InitLogger, IInv, TypeOK, Over
<1>2. CASE file.log_file # "refused"
  BY <1>2, FilesAssumption
  DEF InitLogger, IInv, TypeOK, Phases, Over, FromFile, BoundSoFar, Exclusive, Binding, Conflict
<1>. QED BY <1>1, <1>2

LEMMA ServerNewIInv ==
    ASSUME IInv, ServerNew
    PROVE  IInv'
<1>. USE DEF IInv, ServerNew
<1>1. /\ phase = "configured" /\ file' = file /\ config' = config
      /\ bound' = bound /\ others' = others /\ bound = {}
      /\ file \in Files /\ ~GetIniConfigFails(file) /\ config = Build(file)
  BY DEF TypeOK, FromFile, BoundSoFar, Binding
<1>2. CASE ~ListenerInnerNew(config)
  BY <1>1, <1>2 DEF TypeOK, Phases, Over, FromFile, BoundSoFar, Exclusive, Binding
<1>3. CASE ListenerInnerNew(config)
  <2>1. phase' = "bind_tls" /\ unbound_tls' = TlsSockets(config) /\ unbound_tcp' = file.tcp_keys
    BY <1>3 DEF ListenerInnerNew
  <2>2. unbound_tls' \in Seq(Sockets) /\ Range(unbound_tls') = WantedTls(file)
    BY <1>1, <2>1, TlsSocketsFacts
  <2>3. unbound_tcp' \subseteq Keys
    BY <1>1, <1>3, <2>1, ReadableFile DEF ListenerInnerNew
  <2>4. TypeOK'
    BY <1>1, <2>1, <2>2, <2>3, FilesAssumption DEF TypeOK, Phases, Over
  <2>5. FromFile'
    BY <1>1, <1>3, <2>1 DEF FromFile, Binding, ListenerInnerNew
  <2>6. WantedTls(file)' = WantedTls(file)
    BY <1>1 DEF WantedTls
  <2>7. BoundSoFar'
    BY <1>1, <2>1, <2>2, <2>6 DEF BoundSoFar, Binding
  <2>. QED BY <1>1, <2>4, <2>5, <2>7 DEF Exclusive
<1>. QED BY <1>2, <1>3

LEMMA WaitThenStopIInv ==
    ASSUME IInv, WaitThenStop
    PROVE  IInv'
BY StopIInv DEF WaitThenStop, IInv, TypeOK, Over

\* A socket that is bound conflicts with no other.
LEMMA BindFacts ==
    ASSUME IInv, NEW s \in Sockets, Free(s), bound' = bound \cup {s}, others' = others
    PROVE  Exclusive' /\ \A t \in bound : ~Conflict(s, t)
<1>1. \A t \in bound \cup others : t \in Sockets /\ ~Conflict(s, t) /\ ~Conflict(t, s)
  BY ConflictFacts DEF IInv, TypeOK, Free
<1>. QED BY <1>1 DEF IInv, Exclusive

LEMMA BindTlsIInv ==
    ASSUME IInv, BindTls
    PROVE  IInv'
<1>. USE DEF IInv, BindTls
<1>. DEFINE s == Head(unbound_tls)
<1>1. /\ phase = "bind_tls" /\ unbound_tls \in Seq(Sockets) /\ unbound_tls # <<>>
      /\ file' = file /\ config' = config /\ unbound_tcp' = unbound_tcp /\ others' = others
  BY DEF TypeOK
<1>2. s \in Sockets /\ unbound_tls' \in Seq(Sockets)
  BY <1>1, HeadTailProperties
<1>3. Range(unbound_tls) = {s} \cup Range(unbound_tls')
  BY <1>1, HeadAndTail
<1>4. CASE ~Free(s)
  BY <1>1, <1>2, <1>4, StopIInv DEF Bind, TypeOK, Over
<1>5. CASE Free(s)
  <2>1. bound' = bound \cup {s} /\ phase' = phase
    BY <1>5 DEF Bind
  <2>2. TypeOK'
    BY <1>1, <1>2, <2>1 DEF TypeOK
  <2>3. FromFile'
    BY <1>1, <2>1 DEF FromFile
  <2>4. BoundSoFar'
    BY <1>1, <1>3, <2>1 DEF BoundSoFar, Binding, WantedTls
  <2>5. Exclusive'
    BY <1>1, <1>2, <1>5, <2>1, BindFacts
  <2>. QED BY <2>2, <2>3, <2>4, <2>5
<1>. QED BY <1>4, <1>5

LEMMA TlsBoundIInv ==
    ASSUME IInv, TlsBound
    PROVE  IInv'
<1>. USE DEF IInv, TlsBound
<1>1. /\ phase = "bind_tls" /\ unbound_tls = <<>> /\ bound \cup Range(unbound_tls) = WantedTls(file)
      /\ unbound_tcp = file.tcp_keys
      /\ UNCHANGED <<file, config, unbound_tls, unbound_tcp, others>>
  BY DEF BoundSoFar
<1>2. bound = WantedTls(file)
  <2>1. Range(unbound_tls) = {}
    BY <1>1 DEF Range
  <2>. QED BY <1>1, <2>1
<1>3. CASE config.tls_rp /\ bound = {}
  BY <1>1, <1>3, StopIInv DEF TypeOK, Over
<1>4. CASE ~(config.tls_rp /\ bound = {})
  <2>0. bound # {}
    BY <1>1, <1>4 DEF FromFile, Binding
  <2>1. phase' = "bind_tcp" /\ bound' = bound
    BY <1>4
  <2>2. TypeOK'
    BY <1>1, <2>1 DEF TypeOK, Phases, Over
  <2>3. FromFile'
    BY <1>1, <2>1 DEF FromFile, Binding
  <2>4. BoundSoFar'
    BY <1>1, <1>2, <2>0, <2>1 DEF BoundSoFar, Binding, Listening, WantedTls
  <2>. QED BY <1>1, <2>1, <2>2, <2>3, <2>4 DEF Exclusive
<1>. QED BY <1>3, <1>4

LEMMA BindTcpIInv ==
    ASSUME IInv, BindTcp
    PROVE  IInv'
<1>. USE DEF IInv
<1>1. PICK k \in unbound_tcp : unbound_tcp' = unbound_tcp \ {k} /\ Bind(TcpSocket(config, k))
  BY DEF BindTcp
<1>. DEFINE s == TcpSocket(Build(file), k)
            keys == file.tcp_keys \ unbound_tcp
<1>2. /\ phase = "bind_tcp" /\ UNCHANGED <<file, config, unbound_tls, others>>
      /\ file \in Files /\ ~GetIniConfigFails(file) /\ config = Build(file)
      /\ Build(file).tcp_rp
      /\ unbound_tcp \subseteq file.tcp_keys /\ Listening(keys)
      /\ unbound_tls \in Seq(Sockets) /\ unbound_tcp \subseteq Keys
  BY DEF BindTcp, TypeOK, FromFile, BoundSoFar, Binding
<1>3. \A j \in file.tcp_keys : /\ TcpSocket(Build(file), j) \in Sockets
                               /\ TcpSocket(Build(file), j)[2] = PortOf[j]
                               /\ TcpSocket(Build(file), j)[1] = s[1]
  BY <1>2, TcpSocketFacts DEF Listening, TcpSocket
<1>4. CASE ~Free(s)
  BY <1>1, <1>2, <1>4, StopIInv DEF Bind, Over
<1>5. CASE Free(s)
  <2>1. bound' = bound \cup {s} /\ phase' = phase
    BY <1>1, <1>2, <1>5 DEF Bind
  <2>2. TypeOK'
    BY <1>1, <1>2, <1>3, <2>1 DEF TypeOK
  <2>3. FromFile'
    BY <1>2, <2>1 DEF FromFile
  <2>4. Exclusive' /\ \A t \in bound : ~Conflict(s, t)
    BY <1>1, <1>2, <1>3, <1>5, <2>1, BindFacts
  <2>5. s \notin WantedTls(file)
    BY <1>1, <1>2, <1>3, <2>4, ConflictFacts DEF Listening
  <2>6. \A j \in keys : PortOf[j] # PortOf[k]
    <3>. TAKE j \in keys
    <3>1. TcpSocket(Build(file), j) \in bound
      BY <1>2 DEF Listening
    <3>. QED BY <1>1, <1>2, <1>3, <2>4, <3>1 DEF Conflict
  <2>7. file'.tcp_keys \ unbound_tcp' = keys \cup {k}
    BY <1>1, <1>2
  <2>8. Listening(file.tcp_keys \ unbound_tcp)'
    <3>1. WantedTls(file)' = WantedTls(file)
      BY <1>2 DEF WantedTls
    <3>2. bound' = WantedTls(file) \cup {TcpSocket(Build(file), j) : j \in keys \cup {k}}
      BY <1>2, <2>1 DEF Listening
    <3>3. WantedTls(file) \cap {TcpSocket(Build(file), j) : j \in keys \cup {k}} = {}
      BY <1>2, <2>5 DEF Listening
    <3>4. \A i, j \in keys \cup {k} : PortOf[i] = PortOf[j] => i = j
      BY <1>2, <2>6 DEF Listening
    <3>. QED BY <1>2, <2>7, <3>1, <3>2, <3>3, <3>4 DEF Listening
  <2>9. BoundSoFar'
    BY <1>1, <1>2, <2>1, <2>8 DEF BoundSoFar, Binding
  <2>. QED BY <2>2, <2>3, <2>4, <2>9
<1>. QED BY <1>4, <1>5

LEMMA TcpBoundIInv ==
    ASSUME IInv, TcpBound
    PROVE  IInv'
<1>. USE DEF IInv, TcpBound
<1>1. file.tcp_keys \ unbound_tcp = file.tcp_keys
  OBVIOUS
<1>. QED BY <1>1 DEF TypeOK, Phases, Over, FromFile, BoundSoFar, Binding, Listening, Exclusive,
                     WantedTls

LEMMA RunIInv ==
    ASSUME IInv, Run
    PROVE  IInv'
<1>. USE DEF IInv, Run
<1>. DEFINE panics == ~config.load_balancer \/ ListenPanics(config)
<1>1. CASE panics
  BY <1>1, StopIInv DEF TypeOK, Over
<1>2. CASE ~panics
  BY <1>2 DEF TypeOK, Phases, Over, FromFile, BoundSoFar, Binding, Listening, Exclusive, WantedTls
<1>. QED BY <1>1, <1>2

\* Other processes get nothing that conflicts either.
LEMMA OtherBindsIInv ==
    ASSUME IInv, NEW s \in Sockets, OtherBinds(s)
    PROVE  IInv'
<1>. USE DEF IInv, OtherBinds
<1>1. TypeOK' /\ FromFile'
  BY DEF TypeOK, FromFile
<1>2. BoundSoFar'
  BY DEF BoundSoFar, Listening, WantedTls
<1>3. \A t \in bound : ~Conflict(t, s)
  BY ConflictFacts DEF Free, TypeOK
<1>. QED BY <1>1, <1>2, <1>3 DEF Exclusive

LEMMA OtherReleasesIInv ==
    ASSUME IInv, NEW s \in Sockets, OtherReleases(s)
    PROVE  IInv'
<1>. USE DEF IInv, OtherReleases
<1>1. TypeOK' /\ FromFile'
  BY DEF TypeOK, FromFile
<1>2. BoundSoFar'
  BY DEF BoundSoFar, Listening, WantedTls
<1>. QED BY <1>1, <1>2 DEF Exclusive

LEMMA NextIInv == IInv /\ [Next]_vars => IInv'
<1>. SUFFICES ASSUME IInv, [Next]_vars PROVE IInv'
  OBVIOUS
<1>1. CASE Main
  BY <1>1, GetIniConfigIInv, InitLoggerIInv, ServerNewIInv, WaitThenStopIInv, BindTlsIInv,
     TlsBoundIInv, BindTcpIInv, TcpBoundIInv, RunIInv DEF Main
<1>2. ASSUME NEW s \in Sockets, OtherBinds(s) \/ OtherReleases(s) PROVE IInv'
  BY <1>2, OtherBindsIInv, OtherReleasesIInv
<1>3. CASE UNCHANGED vars
  <2>. USE <1>3 DEF vars, IInv
  <2>1. TypeOK' /\ FromFile'
    BY DEF TypeOK, FromFile
  <2>2. BoundSoFar'
    BY DEF BoundSoFar, Listening, WantedTls
  <2>. QED BY <2>1, <2>2 DEF Exclusive
<1>. QED BY <1>1, <1>2, <1>3 DEF Next

-----------------------------------------------------------------------------
(* The theorems. *)

\* The inductive invariant holds in every reachable state.
THEOREM Invariance == Spec => []IInv
BY InitIInv, NextIInv, PTL DEF Spec

\* What the program holds at each phase is always of its type.
THEOREM TypeCorrect == Spec => []TypeOK
<1>1. IInv => TypeOK
  BY DEF IInv
<1>. QED BY <1>1, Invariance, PTL

\* A running server has bound all that its file asks for, each socket once and
\* none against another process.
THEOREM RunsAsConfigured == Spec => []ListensAsConfigured
<1>1. IInv => ListensAsConfigured
  BY DEF IInv, BoundSoFar, Listening, Exclusive, ListensAsConfigured, WantedTcp
<1>. QED BY <1>1, Invariance, PTL

\* ListenerInner::new lets no file through with which ListenerInner::listen would
\* panic, so that a panic comes from the log file, before the first socket is
\* bound, or from the load balancer, after the last.
THEOREM PanicsAtTheEnds == Spec => PanicsOnlyFirstOrLast
<1>1. ASSUME IInv, [Next]_vars, phase' = "panicked", phase # "panicked"
      PROVE  \/ file.log_file = "refused" /\ bound = {}
             \/ /\ file.destination_addresses \in {Absent, <<>>}
                /\ config.tls_rp /\ config.tcp_rp
                /\ bound = WantedTls(file) \cup WantedTcp(file)
  <2>1. InitLogger \/ Run
    BY <1>1 DEF Next, Main, vars, GetIniConfig, ServerNew, WaitThenStop, BindTls, TlsBound,
                BindTcp, TcpBound, OtherBinds, OtherReleases, Bind, Stop
  <2>2. CASE InitLogger
    BY <1>1, <2>2 DEF InitLogger, IInv, BoundSoFar, Binding
  <2>3. CASE Run
    <3>1. phase = "bound"
      BY <2>3 DEF Run
    <3>2. config = Build(file) /\ config.tls_rp /\ config.tcp_rp
      BY <1>1, <3>1 DEF IInv, FromFile, Binding
    <3>. ~config.load_balancer
      BY <1>1, <2>3, <3>2 DEF Run, ListenPanics
    <3>3. bound = WantedTls(file) \cup WantedTcp(file)
      BY <1>1, <3>1 DEF IInv, BoundSoFar, Listening, WantedTcp
    <3>4. file.destination_addresses \in {Absent, <<>>}
      BY <3>2 DEF Build, TakeMultiValue
    <3>. QED BY <3>2, <3>3, <3>4
  <2>. QED BY <2>1, <2>2, <2>3
<1>. QED BY <1>1, Invariance, PTL DEF Spec, PanicsOnlyFirstOrLast

-----------------------------------------------------------------------------
(* What StartsUnlessContended says without its <>: a sound file whose       *)
(* sockets nobody else holds is never refused, whatever others do besides.  *)

NeverRefused == Startable(file) => phase \notin Over

\* The strengthening: what is still to be bound conflicts neither with what is
\* bound nor with itself.
GoesWell ==
    /\ phase \notin Over \cup {"waiting"}
    /\ phase = "bind_tls" =>
         /\ \A s \in bound, i \in 1..Len(unbound_tls) : ~Conflict(s, unbound_tls[i])
         /\ \A i, j \in 1..Len(unbound_tls) : Conflict(unbound_tls[i], unbound_tls[j]) => i = j

\* The sockets of a sound file: those of the TLS/HTTP handler and those of the
\* plain TCP handler, none of which is in another's way.
LEMMA StartableFacts ==
    ASSUME NEW f \in Files, Startable(f)
    PROVE  /\ WantedTls(f) # {}
           /\ TlsSockets(Build(f)) \in Seq(Sockets)
           /\ \A i, j \in 1..Len(TlsSockets(Build(f))) :
                 Conflict(TlsSockets(Build(f))[i], TlsSockets(Build(f))[j]) => i = j
           /\ \A k \in f.tcp_keys :
                 /\ TcpSocket(Build(f), k) \in Sockets
                 /\ \A s \in WantedTls(f) : ~Conflict(TcpSocket(Build(f), k), s)
                 /\ \A j \in f.tcp_keys :
                       j # k => ~Conflict(TcpSocket(Build(f), k), TcpSocket(Build(f), j))
<1>. DEFINE u == TlsSockets(Build(f))
<1>1. ~GetIniConfigFails(f) /\ Build(f).tcp_rp /\ u # <<>>
  BY DEF Startable
<1>2. u \in Seq(Sockets) /\ Range(u) = WantedTls(f)
  BY <1>1, TlsSocketsFacts
<1>3. DOMAIN u = 1..Len(u)
  BY <1>2
<1>4. WantedTls(f) # {}
  <2>. HIDE DEF u
  <2>1. 1 \in DOMAIN u
    BY <1>1, <1>2, EmptySeq
  <2>. QED BY <1>2, <2>1 DEF Range
<1>5. \A i, j \in 1..Len(u) : Conflict(u[i], u[j]) => i = j
  BY <1>3 DEF Startable
<1>6. ASSUME NEW k \in f.tcp_keys
      PROVE  /\ TcpSocket(Build(f), k) \in Sockets
             /\ TcpSocket(Build(f), k)[2] = PortOf[k]
  BY <1>1, <1>4, TcpSocketFacts
<1>7. ASSUME NEW k \in f.tcp_keys, NEW s \in WantedTls(f)
      PROVE  ~Conflict(TcpSocket(Build(f), k), s)
  <2>1. ~Conflict(s, TcpSocket(Build(f), k))
    BY DEF Startable, WantedTcp
  <2>2. s \in Sockets
    BY <1>2, <1>3 DEF Range
  <2>. QED BY <1>6, <2>1, <2>2, ConflictFacts
<1>8. ASSUME NEW k \in f.tcp_keys, NEW j \in f.tcp_keys, j # k
      PROVE  ~Conflict(TcpSocket(Build(f), k), TcpSocket(Build(f), j))
  <2>1. PortOf[j] # PortOf[k]
    BY <1>8 DEF Startable
  <2>. QED BY <1>6, <2>1 DEF Conflict
<1>. QED BY <1>2, <1>4, <1>5, <1>6, <1>7, <1>8

\* No step of the program or of another process ends it.
LEMMA NextGoesWell ==
    ASSUME IInv, Startable(file), GoesWell, Uncontended, [Next]_vars
    PROVE  GoesWell'
<1>. USE DEF Over
<1>1. /\ file' = file /\ file \in Files /\ phase \notin Over \cup {"waiting"}
      /\ ~GetIniConfigFails(file) /\ file.log_file # "refused"
      /\ Build(file).tls_rp /\ Build(file).tcp_rp /\ Build(file).load_balancer
  BY DEF Next, Main, vars, GetIniConfig, InitLogger, ServerNew, WaitThenStop, BindTls, TlsBound,
         BindTcp, TcpBound, Run, OtherBinds, OtherReleases, IInv, TypeOK, Startable, GoesWell
<1>2. phase \in Binding \cup {"configured"} => config = Build(file)
  BY DEF IInv, FromFile, Binding
<1>3. ASSUME NEW s \in WantedTls(file) \cup WantedTcp(file), NEW t \in others
      PROVE  ~Conflict(s, t)
  BY DEF Uncontended
<1>4. CASE GetIniConfig \/ InitLogger
  BY <1>1, <1>4 DEF GetIniConfig, InitLogger, GoesWell
<1>5. CASE ServerNew
  <2>1. phase' = "bind_tls" /\ unbound_tls' = TlsSockets(Build(file)) /\ bound' = bound
    BY <1>1, <1>2, <1>5 DEF ServerNew, ListenerInnerNew
  <2>2. bound = {}
    BY <1>5 DEF IInv, BoundSoFar, Binding, ServerNew
  <2>. QED BY <1>1, <2>1, <2>2, StartableFacts DEF GoesWell
<1>6. CASE WaitThenStop
  BY <1>1, <1>6 DEF WaitThenStop
<1>7. CASE BindTls
  <2>. DEFINE s == Head(unbound_tls)
  <2>1. /\ phase = "bind_tls" /\ unbound_tls \in Seq(Sockets) /\ unbound_tls # <<>>
        /\ unbound_tls' = Tail(unbound_tls) /\ Bind(s) /\ others' = others
        /\ bound \subseteq Sockets
    BY <1>7 DEF BindTls, IInv, TypeOK
  <2>2. /\ s \in Sockets /\ s = unbound_tls[1] /\ 1 \in 1..Len(unbound_tls)
        /\ Len(unbound_tls') = Len(unbound_tls) - 1
        /\ \A i \in 1..Len(unbound_tls') :
              i + 1 \in 1..Len(unbound_tls) /\ unbound_tls'[i] = unbound_tls[i + 1]
    <3>1. Len(unbound_tls) \in Nat \ {0}
      BY <2>1, EmptySeq, LenProperties
    <3>. QED BY <2>1, <3>1, HeadTailProperties
  <2>3. \A i \in 1..Len(unbound_tls) : unbound_tls[i] \in Sockets
    BY <2>1, ElementOfSeq
  <2>4. Free(s)
    <3>1. s \in WantedTls(file)
      BY <2>1, HeadAndTail DEF IInv, BoundSoFar
    <3>2. \A t \in bound : ~Conflict(s, t)
      BY <2>1, <2>2, ConflictFacts DEF GoesWell
    <3>. QED BY <1>3, <3>1, <3>2 DEF Free
  <2>5. phase' = phase /\ bound' = bound \cup {s}
    BY <2>1, <2>4 DEF Bind
  <2>6. ASSUME NEW i \in 1..Len(unbound_tls')
        PROVE  /\ \A t \in bound : ~Conflict(t, unbound_tls'[i])
               /\ ~Conflict(s, unbound_tls'[i])
    <3>1. i + 1 \in 1..Len(unbound_tls) /\ unbound_tls'[i] = unbound_tls[i + 1] /\ i + 1 # 1
      BY <2>2
    <3>. QED BY <2>1, <2>2, <3>1 DEF GoesWell
  <2>7. ASSUME NEW i \in 1..Len(unbound_tls'), NEW j \in 1..Len(unbound_tls'),
               Conflict(unbound_tls'[i], unbound_tls'[j])
        PROVE  i = j
    <3>1. i + 1 = j + 1
      BY <2>1, <2>2, <2>7 DEF GoesWell
    <3>. QED BY <3>1
  <2>. QED BY <2>1, <2>5, <2>6, <2>7 DEF GoesWell, Conflict
<1>8. CASE TlsBound
  <2>1. phase = "bind_tls" /\ unbound_tls = <<>> /\ bound \cup Range(unbound_tls) = WantedTls(file)
    BY <1>8 DEF TlsBound, IInv, BoundSoFar
  <2>2. Range(unbound_tls) = {}
    BY <2>1 DEF Range
  <2>3. bound # {}
    BY <1>1, <2>1, <2>2, StartableFacts
  <2>. QED BY <1>8, <2>3 DEF TlsBound, GoesWell
<1>9. CASE BindTcp
  <2>1. PICK k \in unbound_tcp : Bind(TcpSocket(config, k))
    BY <1>9 DEF BindTcp
  <2>2. /\ phase = "bind_tcp" /\ config = Build(file) /\ others' = others
        /\ unbound_tcp \subseteq file.tcp_keys /\ Listening(file.tcp_keys \ unbound_tcp)
    BY <1>2, <1>9 DEF BindTcp, IInv, BoundSoFar, Binding
  <2>. DEFINE s == TcpSocket(Build(file), k)
  <2>3. s \in WantedTcp(file)
    BY <2>2 DEF WantedTcp
  <2>4. ASSUME NEW t \in bound PROVE ~Conflict(s, t)
    <3>1. t \in WantedTls(file) \/ \E j \in file.tcp_keys \ unbound_tcp : t = TcpSocket(Build(file), j)
      BY <2>2 DEF Listening
    <3>. QED BY <1>1, <2>2, <3>1, StartableFacts
  <2>5. Free(TcpSocket(config, k))
    BY <1>3, <2>2, <2>3, <2>4 DEF Free
  <2>. QED BY <2>1, <2>2, <2>5 DEF Bind, GoesWell
<1>10. CASE TcpBound
  BY <1>10 DEF TcpBound, GoesWell
<1>11. CASE Run
  <2>1. config.load_balancer /\ ~ListenPanics(config)
    BY <1>1, <1>2, <1>11 DEF Run, Binding, ListenPanics
  <2>. QED BY <1>11, <2>1 DEF Run, GoesWell
<1>12. ASSUME NEW s \in Sockets, OtherBinds(s) \/ OtherReleases(s) PROVE GoesWell'
  BY <1>1, <1>12 DEF OtherBinds, OtherReleases, GoesWell
<1>13. CASE UNCHANGED vars
  BY <1>1, <1>13 DEF vars, GoesWell
<1>. QED BY <1>4, <1>5, <1>6, <1>7, <1>8, <1>9, <1>10, <1>11, <1>12, <1>13 DEF Next, Main

\* No order of the binds, no keys of the file and no other process's sockets
\* stop a server whose file is sound, as long as its own sockets are left alone.
THEOREM SoundFilesAreNotRefused == Spec /\ []Uncontended => []NeverRefused
<1>. DEFINE Inv == Startable(file) => GoesWell
<1>1. Init => Inv
  BY DEF Init, GoesWell, Over
<1>2. IInv /\ Inv /\ Uncontended /\ [Next]_vars => Inv'
  <2>1. ASSUME [Next]_vars PROVE file' = file
    BY <2>1 DEF Next, Main, vars, GetIniConfig, InitLogger, ServerNew, WaitThenStop, BindTls,
                TlsBound, BindTcp, TcpBound, Run, OtherBinds, OtherReleases
  <2>2. ASSUME file' = file PROVE Startable(file)' <=> Startable(file)
    BY <2>2 DEF Startable, WantedTls, WantedTcp
  <2>. QED BY <2>1, <2>2, NextGoesWell
<1>3. Inv => NeverRefused
  BY DEF GoesWell, NeverRefused
<1>. HIDE DEF Inv
<1>. QED BY <1>1, <1>2, <1>3, Invariance, PTL DEF Spec
=============================================================================
