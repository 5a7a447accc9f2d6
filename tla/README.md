# A TLA+ model of rusty-valve

rusty-valve is a transparent reverse proxy: it binds TCP sockets, decides from
the port or from the host name of an unterminated TLS or HTTP request where a
connection belongs, and copies bytes between the client and one of several
backend machines. This directory holds TLA+ modules translated from its source,
TLC configurations that check them on small instances, and theorems that TLAPS
proves for instances of every size. Paths below are relative to the repository.

1. [The system](#1-the-system)
2. [Modules](#2-modules)
3. [What is checked](#3-what-is-checked)
4. [Fairness](#4-fairness)
5. [What is proved](#5-what-is-proved)
6. [Where the code and its comments disagree](#6-where-the-code-and-its-comments-disagree)
7. [What is not modelled](#7-what-is-not-modelled)
8. [Running the checks](#8-running-the-checks)


## 1. The system

### Parts, state and operations

| part | source | state | operations |
|---|---|---|---|
| start-up | `src/main.rs`, `src/server.rs` | the built `Config`, the listeners (unbound, then bound), the load balancer, the forward table | `main`, `Server::new`, `bind`, `run` |
| configuration | `src/config.rs`, `src/config/ini_file.rs` | `ConfigBuilder` with its defaults | `get_opts`, `get_ini_config`, `build`; `take_multi_value`, `take_opt_value`, `try_from_config` |
| destinations | `src/connection.rs` | `Destination`, `PossibleDestinations` | `from_str`, `try_get_inner`, `get_only_destination` |
| plain TCP listener | `src/listeners/tcp_rp.rs` | one bound socket and one accept loop per port | `bind`, `listen`, `listen_tcp` |
| TLS/HTTP listener | `src/listeners/tls_http_rp.rs` | one bound socket and one accept loop per address and port; one task per connection | `bind`, `listen`, `listen_tls`, `get_backend_port`, two peeks under a timer |
| forwarding channel | `src/services.rs` | a bounded channel (50), the table of its senders | `forward_conn`, `has_service`, the builder |
| load balancer | `src/services/load_balancer.rs` | the machine table; per machine a task tracker and a `reachable` flag; one task per connection | `run`, `handle_connection`, `attempt_connections`, `connect`, `pick_best_ip` |
| SSH tarpit | `src/services/ssh_tarpit.rs` | settings, its channel, one task per connection | `run`, `tarpit` |
| connection tracker | `src/utils/conn_tracker.rs` | a `TaskTracker`, a cancellation token nobody cancels | `spawn`, `child` |
| logging | `src/utils/logging.rs` | writer guards | `init_logger` |
| gatekeeper, certbot, QUIC | `src/services/gatekeeper_auth.rs`, `src/services/embedded_certbot.rs`, `src/listeners/quic_rp.rs` | stubs or empty | none that run |

### How they interact

`main` reads the file, starts the logger, builds the configuration and calls
`Server::new`, which makes the channel, gives its receiver to the load balancer
and a table with its only sender to both listener handlers. `bind` awaits one
`TcpListener::bind` after another and gives up at the first failure. `run` joins
the listen loops and the load balancer's receive loop. Each handler's `listen`
holds its loops in a `JoinSet`: the TCP handler passes over a loop that has
ended, the TLS handler returns with the first one.

A plain TCP loop knows the destination of its port. It wraps each stream it
accepts into a `ForwardedConnection` and awaits `send` *inside* the loop: while
the channel is full the port accepts nothing. A TLS loop spawns a task for each
connection. That task peeks at the record header, then at the hello (or at an
HTTP header), extracts a name, looks the name up and sends. Both peeks have a
five second timer.

The load balancer spawns a task per received connection, which collects the
machines the destination allows, sorts them by load, and connects to them one
after the other, each under a timer, until one accepts. The client's stream
travels with the attempt: `connect` owns it and gives it back when it fails. The
winner's task tracker gets the copy task and the connection's own task ends.

### What is hard about it

* **Ownership across awaits.** A stream moves from the kernel to a listener, the
  channel, a task, an attempt, back to the task, to a copy. Any of these can be
  cut off by a timer that fires as the awaited event happens.
* **Partial failure.** One machine of several fails, one bind of several fails,
  one half of a configuration value does not parse, the task of one listener of
  several dies.
* **Peeking at a moving stream.** A peek returns what has arrived, cut anywhere,
  and the rest of the buffer is zero.
* **Descriptors.** A connection needs one for its client and later one for its
  machine; without the first `accept` fails and is called again at once, without
  the second a machine fails.
* **Back-pressure.** A full channel suspends a port. Nothing may be lost, sent
  twice or delayed for ever.
* **Endings.** The receive loop must drain its channel, tasks that never end
  must not hold up one that should, and start-up must end in a running server or
  an exit.

`PROJECT.json` lists these as hazards, each at its line, with the properties
that would catch it.

### What makes each part correct

| part | correct if |
|---|---|
| start-up and configuration | a running server listens on exactly what its file asks for, a sound file leads to a running server, nothing is left half started |
| destinations | a value means all it says or its fallback; the right colon ends an address list |
| listeners | each connection is dropped or handed over, once, and with the destination of its port or of the name its client asks for, however its request is cut; a silent client, a dead listener or a lack of descriptors stops nobody else for ever |
| channel | nothing is lost, duplicated or left behind at the end |
| load balancer | a stream has one owner, machines are tried once each, a client is given up only after all of them, sockets are not leaked, tasks end |
| tarpit | each connection gets one task, a reader is served without end, nobody waits for anybody |


## 2. Modules

```
   Connections            abstract: one client connection
        ^
        | implements (Valve!KeepsPromise, proved in ValveRefinement_proofs)
        |
      Valve  <----- Listeners <----- HostName <----- TokenStrings -----> Destinations
        ^
        +---------- LoadBalancer                       Startup           Tarpit

   ValveRefinement_proofs --> Valve_proofs --> LoadBalancer_proofs --> SequenceFacts
                                    |                                       ^
                                    +--------> HostName_proofs -------------+
                       Destinations_proofs    Startup_proofs    Tarpit_proofs
```

`MCLoadBalancer`, `MCValve`, `MCStartup` and `MCDestinations` give the constants
that a `.cfg` cannot express. Definitions whose comment begins with `Mutant:`
are no part of any specification: each is a mapped definition with a plausible
bug, and a property counts only if some mutant breaks it.

### LoadBalancer: `services/load_balancer.rs` behind `services.rs`

One action is what a task does between two awaits.

| variable | code |
|---|---|
| `queue`, `senders_alive` | the `mpsc` channel; whether a `Sender` clone exists |
| `destination` | `ForwardedConnection.destination` |
| `lb_run` | whether `LoadBalancer::run` is still in its loop |
| `conn_tracker` | connections whose `handle_connection` task is alive |
| `target`, `backend_list` | the machine that task connects to; the vector it pops from |
| `tried` | history: machines whose `connect` returned the stream |
| `sockets` | kernel: connections with an open TCP connection at a machine |
| `task_tracker` | copy tasks of each machine |

`Send` is `forward_conn`; `Recv` and `RecvNone` are the two outcomes of
`recv().await` in `run`. `HandleConnection` is a task's first poll, in which
machines are chosen, sorted and the first one popped. `ConnectSucceeds`,
`Refused` and `TimedOut` are the outcomes of `connect`, the last two including
the next turn of the attempt loop (`TryNext`). `Established` is the kernel
completing a handshake the task has not seen yet: because it is a step of its
own, the timer can fire right after it. `CopyEnds` is the end of
`copy_bidirectional`.

Abstracted: a port never decides which machine is tried and is left out; the
address vector is only searched and is a set; an unstable sort is any bijection
that is ordered by load (`PickBestIp`).

### HostName: what a peek makes of a request

A request is a sequence of tokens (a record header's fields, pieces of a host
name, colons, spaces, line ends), and so is what a peek returns of it, followed
by the zeros that are left in the buffer. `HeaderAccepted` is the check of the
record header, `NamesInClientHello` stands for rustls's acceptor, which finds
the server name of a hello it has in full and may or may not find it earlier,
and `HostNameIn` is `extract_host_from_http_header` line by line: the first line
with a `Host` field, its value, the port cut off where there is one. `AskedFor`
is the reference: the `Host` field of the header, trimmed and without its port.
`AsksInBuffer` says for which requests it is meant: the `Host` line ends within
the buffer and its value has one colon at most. An IPv6 literal has more.

### Listeners: `listeners/*.rs`

`stage` follows a connection: `backlog`, then `tcp_send` for plain TCP or
`peek_header`, `peek_hello`, `tls_send` for TLS, then `forwarded` or `dropped`.
What a client will send is chosen when it connects (`request`, in segments) and
arrives segment by segment (`sent`), at any time or never. `PeekHeader` and
`PeekHello` work on what has arrived, `PeekFails` may fire at any time.
`AcceptTcp` waits until the previous connection of its port has been sent, as
the loop does; `AcceptFails` is a client that is gone when it is accepted.

Listeners can end. Nothing in today's loops returns, but both `listen` functions
have an arm for a task that has, by a panic or an abort, and the two arms
differ. `TcpListenerDies` and `TlsListenerDies` are such an end for the
listeners in `Mortal`; `listening` holds the others. The TCP handler goes on.
The TLS handler returns (`TlsListenReturns`), which drops its `JoinSet`, and the
runtime then aborts the other TLS loops and the tasks of their connections one
by one, each at its await (`TlsListenerAborted`, `TaskAborted`).

### Valve: `Server::run`

`Valve` joins `Listeners` and `LoadBalancer`: a listener's `Forward` and the
channel's `Send` are one step, `ForwardConn`, which waits for room.

Both also compete for the descriptors of the process. `limit` is what it may
have for connections, `files` the connections whose backend socket has one. At
the limit `accept` fails and both loops call it again, so `Accept` waits; a
`connect` without a descriptor fails like a refused one (`ConnectNext`).

`run` is what `Server::run` waits for. When both listen functions have returned
(`ListenReturns`) it waits for the load balancer. A clone of the forward table is
in `self` until `Server::run` returns, in a handler and its loops until they end,
and in the task of a connection until it has forwarded: that is
`ForwardTableHeld`, and when none is left `LetGo` closes the channel. Since
`Server::run` returns only after the load balancer (`RunReturned`), neither
`LetGo` nor the load balancer's `RecvNone` ever gets its turn: `RunEnds` in
section 6.

### Connections: the promise

The abstract specification knows a connection's `status`, the machines
`allowed` to serve it, those that `failed` it and its `backend`. A connection is
turned away before it is routed, alone or with others of its listener, or
offered to allowed machines, each at most once, until one serves it or the last
has failed it. `Valve` maps its state to this (`Status`, `Allowed`, `Promise`),
and `KeepsPromise` is `Promise!Spec`.

### Startup: `main.rs`, `server.rs`, `config.rs`, the `bind` functions

One action is one step of `main` between awaits; sockets are bound one per
action while other processes bind and release sockets in between. A file is a
record of its keys, each absent, malformed, empty or set. `GetIniConfig`,
`InitLogger` (which also builds), `ServerNew`, `BindTls`, `TlsBound`, `BindTcp`,
`TcpBound` and `Run` are the steps; a failure drops all sockets (`Stop`), as the
end of the process does. `Run` panics without a load balancer, which
`Server::run` unwraps, and without a handler, where `ListenerInner::listen` does
(`ListenPanics`). What `bind(2)` refuses is `Conflict`: the same port at
the same or at overlapping addresses.

### Tarpit: `services/ssh_tarpit.rs`

A task waits at `writable`, `write` or `sleep`. Readiness is tokio's cached
belief, which a short write clears and a reading client restores; `Write` writes
what fits and the rest of the line is lost; `WriteFails` is a write to a client
that has left, which the code traces without leaving its loop, so that its task
goes on until the runtime stops. `Server::new`
does not start this service, so the module stands alone.

### Destinations: the values of the two port sections

`FromStr`, `TryFromConfig` and `TakeAddresses` are the parsers as operators on
token sequences: the separators, one digit, one IPv4 address, one service name.
IPv6 addresses are spelled out, because the colon that ends an address list also
occurs in them. The state machine is one turn of the loop over a section.

`TokenStrings` has the functions of Rust's strings that these parsers and
`HostName` use. `Split` and `Without` go through a string token by token, as
recursive functions, which is the form the proofs need.


## 3. What is checked

### Passing runs

| run | instance | what it shows |
|---|---|---|
| `load_balancer` | 2 connections, 3 machines and an address that is none, channel of 1; 55 296 states | `OneOwner`, `AttemptsAccounted`, `NoLeakedSocket`, `ServedByAllowedMachine`, `ReceiverOutlivesSenders`, `FreshConnections`, `GiveUpOnlyWhenExhausted`, `TurnsRunOut`; every forwarded connection is settled and `run` returns after its senders |
| `valve` | 2 connections, two TCP and two TLS listeners of which one each may die, 2 machines, a hello and an HTTP request, a channel of 1, a limit of 2 or of 4 descriptors; 129 272 states | a connection is handed over once and served only as configured, descriptors are accounted for, every arrival is settled, listeners fail together or alone as their handlers say, and the system implements `Connections` |
| `valve_requests` | 1 connection, a TCP and a TLS listener that may both die, 124 requests and every way to cut each in two, a buffer of 12 tokens; 115 263 states | whatever part of a request a peek sees, it goes to the host asked for or to none; a whole request with a port gets through |
| `startup` | files complete, contradictory and deficient in one key; 3 addresses of which two overlap, 3 ports; 54 000 states | what a running server has bound, which panics are reachable and which are not, that start-up ends, and that a sound, uncontended file starts |
| `tarpit` | 2 clients, 3 lines, sockets of a line and a half, channel of 1; 23 788 states | every connection gets its task, which does not let go of a client that is still there; endless for a reader whatever the other client does; `run` returns although its tasks do not |
| `destinations` | every text of up to 4 tokens, every way to write one or two of 4 addresses with a port, pairs of 9 parts around a bar; 30 868 states | a route is all its value says or the fallback; IPv6 lists are read as written; both list readers agree |

All state spaces are explored exhaustively, without constraints or symmetry.

*Why the bounds are enough.* Two connections are the smallest number that
compete for a channel of one, for a port's accept loop, for a descriptor and for
a machine's load. Three machines give a list with a first, a middle and a last
element, so that popping from the wrong end, forgetting the middle one or trying
one twice are different; the fourth address exercises the lookup of an address
that is no machine. In `valve` a limit of 2 lets one connection starve the
other, or both clients be accepted with nothing left for a machine; with 4
nothing is short. Of each kind one listener survives the other, which tells the
two handlers apart. In `valve_requests` the `Host` line comes first, after
another line, after a line that is no text, behind the empty line that ends the
header, and across the end of the buffer; one of the two known names
is the beginning of the other, which is what a cut can turn it into. In `tarpit`
the second line is cut short unless the client reads in between. In
`destinations` four tokens suffice for any single separator in any position next
to any other; longer texts are generated from their parts. IPv6 addresses in
full (fifteen tokens) are longer than any text and not recognised.

Deadlock is not checked in these runs: clients may all be finished, a program
that failed to start has stopped, and a parsed value is parsed. What the code
has of a deadlock, `Server::run` waiting for the end of a channel it keeps open
itself, is a liveness property it does not have, `RunEnds`.

### The properties most worth reading

* `AttemptsAccounted`: while a task connects, the failed machines, the current
  one and the remaining list *partition* the machines of the destination.
* `NoLeakedSocket`: an open connection at a machine belongs to a copy or to the
  connect that is pending there, also when the timer fires just after the
  handshake.
* `GiveUpOnlyWhenExhausted`: the step that drops a client is one after which
  every machine it could go to has failed it.
* `TurnsRunOut`: every turn of `run` or of a task brings the connection nearer to
  the end of it, and nothing that happens meanwhile takes that back.
* `HostIsAskedFor` and `ServedAsConfigured`: relate the name a task looks up and
  the machine that serves a connection to the *whole* request of its client,
  however little of it the peeks have seen, across listener, channel and load
  balancer. They are stated for a well-formed `Host` line within the buffer
  (`AsksInBuffer`).
* `FilesAccounted`: the descriptors stay within the limit, and none outlives its
  connect or its copy. It rests on the order in which attempts close and open.
* `ArrivalIsSettled`: silent clients and machines, a full channel, dying
  listeners and a lack of descriptors delay a connection but hold none for ever.
  The premise `[]<>~CopiesHoldAllFiles` excludes the one thing that does: copies
  that never end and hold every descriptor.
* `TlsListenersFailTogether` and `TcpListenersFailAlone`: the two handlers
  differ in what one dead listener takes along, and neither touches what the
  load balancer has.
* `ListensAsConfigured` and `PanicsOnlyFirstOrLast`: what is bound when the
  server runs, and when it panics. The check in `ListenerInner::new` and the
  panics in `ListenerInner::listen` are six steps apart; with a weaker check a
  server panics after all its binds (the mutant `ListenerInnerNewEither`).
* `NobodyIsLetGo`: a socket that is full while tokio still takes it for
  writable, or a line that fits in part, does not end the task of a client that
  is there. `write` waits; `try_write` with a `break` would not.
* `EndlessForReaders`: under the assumption that *this* client keeps reading,
  its first line comes again and again.
* `AllOrFallback`: an accepted value loses nothing but separators; compare the
  parser with a version that is lenient about one of its parts.

Each property of each passing run has a mutant in `PROJECT.json`.


## 4. Fairness

* Weak fairness of what the tokio runtime does with a ready task: receive, poll,
  write, wake after a sleep, return from `listen`, drop an aborted task, drop the
  last clone of the forward table. A
  pending connect has weak fairness of *some* outcome, because its timer fires;
  likewise a peek.
* Weak fairness of each listener's accept, for *some* pending connection of it.
  A loop whose `accept` fails for lack of a descriptor calls it again at once,
  so it takes a connection when descriptors stay available.
* Strong fairness of `ForwardConn` in `Valve` only. Room in a full channel comes
  and goes, but tokio's semaphore gives permits to waiting senders in the order
  they asked.
* In `Startup`, weak fairness of `main`; other processes owe nothing.
* None for clients, machines and faults: no `ClientSends`, `Established`,
  `CopyEnds`, `ClientReads` or `ClientLeaves` has to happen, no listener has to
  die, nor does the runtime have to stop. `ArrivalIsSettled`,
  `EndlessForReaders` and `StartsUnlessContended` state what they need of the
  environment as premises.


## 5. What is proved

All proofs are checked to the last leaf, by SMT, Zenon and LS4.

### The load balancer (`LoadBalancer_proofs`)

For every set of connections, finite set of machines, capacity and load order:

| theorem | property |
|---|---|
| `TypeCorrect` | `TypeOK` |
| `StreamsHaveOneOwner` | `OneOwner` |
| `AttemptsAreAccounted` | `AttemptsAccounted` |
| `SocketsAreOwned` | `NoLeakedSocket` |
| `ServedWhereAllowed` | `ServedByAllowedMachine` |
| `ReceiverIsLast` | `ReceiverOutlivesSenders` |
| `FreshOnesUntouched` | `FreshConnections` |
| `NoEarlyGivingUp` | `GiveUpOnlyWhenExhausted` |
| `EveryTurnCounts` | `TurnsRunOut` |

*Assumptions.* `ConstantsAssumption` (finitely many machines, a positive
capacity, `NoMachine` is no machine) and `NoDestAssumption` (`NoDest` is no
destination); TLC evaluates both.

*Argument.* None of these invariants is inductive alone. That a task gives up
only when it should needs to know that its machines are accounted for; that
they stay accounted for needs to know that a connection has one owner, or a
second task might move its list; that it has one owner needs to know that a
connection which was never forwarded is nowhere, or `Send` might duplicate it.
The last fact is `FreshConnections`, the strengthening. `IInv` is the
conjunction of all of them; TLC checks each conjunct in `load_balancer`. The
lemmas show that `Init` implies it and that each action keeps it, one lemma per
action; `Invariance` combines them. The data facts underneath are
`BackendListFacts` (reversing any load-ordered bijection gives a list of exactly
the candidates, once each) and the lemmas of `SequenceFacts` on taking the head
or the last element of a sequence without repetition, or appending to it.
`GiveUpOnlyWhenExhausted` is an action property; it follows from `IInv` before
the step, by cases on the three ways a task can end.

`TurnsRunOut` is what `ForwardedIsSettled` rests on beside fairness. `Remaining`
counts the turns a forwarded connection has ahead of it at most: its place in
the channel, its first poll, the machines on its list. No step of anything
raises that number and every turn of `run` or of its task lowers it. The proof
needs the owner of a connection from `IInv`, that a channel's other ends leave
its place alone (`PositionFacts`), and that no list is longer than the machine
table (`BackendListLength`).

### What the requests say (`HostName_proofs`)

For requests of any length, cut anywhere, and a buffer of any size:

| theorem | what it says |
|---|---|
| `FoundIsAsked` | a name the second peek can yield, if it could be a key of the configuration, is the one the whole request asks for |
| `WholeRequestIsRead` | a whole request that is TLS, or has a port behind its host, yields exactly the name it asks for |

*Assumptions.* The request is one that `AsksInBuffer`, and the name `IsKey`: it
has no space around it and no zero byte in it, which is what the INI parser's
trimmed keys are. Both are needed. The code does read other names than the one
asked for, from a cut request one with a zero behind it and from a value without
a port one with a space before it; none of them is ever a key.

*Argument.* What a peek returns begins as the request does (`BeginsWith`), and
so do its lines: `PeekedLines` says that up to the `Host` line they are the
request's, except that the last one may be cut, with a zero behind it. The cut
at the end of the buffer comes after that line. `SeenLines` concludes that what
is seen of the first `Host` line is all of it or a part with a zero behind it. A whole one has the value asked for (`WholeValue`); a cut one yields the
name only if the cut is behind the name's colon, and otherwise a name with a
zero in it (`CutValue`).

### What the configuration says (`Destinations_proofs`)

For values of any length:

| theorem | property |
|---|---|
| `EverythingOrFallback` | `AllOrFallback` |
| `KeysAreRouted` | `EveryKeyIsRouted` |
| `ReadersAgree` | `ListsAgree` |
| `WrittenAddressesAreRead` | `ReadsWhatIsWritten` |

*Assumptions.* `TextsAssumption`: values are sequences of the module's tokens.

*Argument.* The state machine adds little: `RouteOfText`, that a route is what
the two parsers make of the text or the fallback, is inductive from the start.
What remains is about the parsers. `FromStrContent` follows the tokens of a
text through the cut at the last colon, the split at the commas, the trim and
the removal of brackets, each of which loses separators only; an entry that is
empty has lost nothing else. `AcceptedTwice` compares the two readers of a list:
trimmed or not, a list splits into the same entries (`AddrsUntrimmed`), and
where one reader refuses an empty entry the other passes over it. `WrittenTexts` shows that every way of writing
one or two addresses is a list the reader takes for those addresses, whatever
colons they contain.

### Strings (`SequenceFacts`)

The provers cannot use the library's induction theorems, which take an operator.
`Induction` states induction for a *set* of numbers and follows from
`MinOfNat`, and that from the library's theorem that strict inclusion of finite
sets is well founded; `SequenceInduction` does the same for sequences. With them
the recursive functions of `TokenStrings` can be unfolded (`WithoutRecursion`,
`SplitRecursion`, and `FlattenRecursion` for `FlattenSeq`) and the facts above
proved: what `Split`, `Trim` and `Without` do to a concatenation, to a
beginning, and to each other.

### The running server (`Valve_proofs`, `ValveRefinement_proofs`)

For all connections, listeners, requests, machines and descriptor limits, from
`ValveAssumption`:

| theorem | what it says |
|---|---|
| `TypeCorrect` | `TypeOK` |
| `HandsOverOnce` | `HandedOverOnce` |
| `ImplementsLoadBalancer` | every behaviour of `Valve` is one of `LoadBalancer` (`Init` and `Next`) |
| `GoesWhereAsked` | `HostIsAskedFor` |
| `LetsKnownHostsThrough` | `KnownHostWithPort` |
| `ServesAsConfigured` | `ServedAsConfigured` |
| `TcpDeathsAreLocal` | `TcpListenersFailAlone` |
| `FilesAreAccounted` | `FilesAccounted` |
| `PromiseIsKept` | `KeepsPromise`, the refinement of `Connections` |

*Assumptions.* Those of the load balancer and `ListenersAssumption`: the two
kinds of listener are disjoint, a request is a sequence of segments that are not
empty, the configured hosts are keys (`IsKey`), and the values that stand for
none are not among the others. TLC evaluates them.

*Argument.* `LoadBalancer_proofs` and `HostName_proofs` speak of their own
constants, `Valve` of instances. `Valve_proofs` instantiates the proofs, shows
that the two readings agree (`SameIInv`, `SameNext`, `SameNames`), and gives
`LB!IInv` as an inductive invariant of whatever takes the load balancer's steps.
`VInv` joins it with `ListenersInv` (types, that only TLS ports have tasks, and
that a connection which goes on has a known name) and `Handover`: the load
balancer has a destination for a connection exactly when a listener has given
the connection away, and it is that listener's. Without `Handover` `Send` could
meet a connection the load balancer already has, and `LB!IInv` would not survive
the composition.

`HostIsAskedFor` is inductive with `ListenersInv`. Only the second peek finds a
name (`HostStays`). What it has then is a beginning of what the client sends
(`ArrivedFacts`: segments put together are), and a connection goes on only with
a configured name, so `FoundIsAsked` applies. `ServesAsConfigured` follows that
name through the listener's destination, `Handover` and the load balancer's
`ServedByAllowedMachine` to the machine that copies.

`FilesInv` adds that the descriptors are finitely many. Each step that opens one
is guarded by the limit; the others open none, which needs from `LB!IInv` that a
task which ends an attempt has its client and that no machine copies for it.

`PromiseIsKept` maps each step to a step or a stutter of `Connections`: what
moves inside the listeners stutters, an end of listeners or tasks rejects the
set of connections it drops, a hand-over routes, a refused or timed-out connect
fails its machine, and closes the connection exactly if that was the last one
allowed. The last equivalence is `AttemptsAccounted`.

### Start-up (`Startup_proofs`)

`TypeCorrect`, `RunsAsConfigured` (`ListensAsConfigured`), `PanicsAtTheEnds`
(`PanicsOnlyFirstOrLast`) and `SoundFilesAreNotRefused`, for any files,
addresses, ports and other processes, from `StartupAssumption` and
`FilesAssumption` (what the values of a file's keys can be, and that its
configuration is not the value that stands for none). The invariant has three
parts beside the types. `FromFile`: from the phase on in which the file has been read, the configuration
is the file's, and from the first bind on it has both handlers, which is why
`PanicsAtTheEnds` can exclude the panics of `ListenerInner::listen`. `BoundSoFar`: what is bound and what is still to be bound are
together what the file asks for; it also says that no two keys that are bound
denote one port, which is where `key25` and `key025` would collide. `Exclusive`:
nothing bound conflicts with anything else of this or another process.

`SoundFilesAreNotRefused` is the safety half of `StartsUnlessContended`: as long
as no other process holds a socket that gets in its way, a sound file never
leads to `failed` or `panicked`. Its invariant, `GoesWell`, adds that what is
still to be bound conflicts neither with what is bound nor with itself. That the
server then also gets to `running` is the half TLC checks.

### The tarpit (`Tarpit_proofs`)

`TypeCorrect`, `OneTaskEach` (`HeldOnce`) and `NobodyLetGo`
(`NobodyIsLetGo`), for every number of connections and any capacity,
transcript and buffer size, from `TarpitAssumption`. The strengthening is
`LastOfSenders`: `run` has returned only after the last sender is gone, which
keeps the channel it leaves behind empty.

### Model-checked only

Liveness under fairness, which is out of this prover's reach (of two of them
the part that is safety is proved, see above): `RunReturns` and
`ForwardedIsSettled`, `ArrivalIsSettled`, `TlsListenersFailTogether`,
`StartsUnlessContended` and `StartsOrStops`, and
`EndlessForReaders`, `EveryoneIsHeld` and the tarpit's `RunReturns`. Every
invariant and every action property of a passing run is a theorem.


## 6. Where the code and its comments disagree

Six runs expect a violation. Each states what the README, a comment, the service
script or the sample configuration says, and TLC shows a behaviour of the code that is
otherwise.

| run | the text | the code |
|---|---|---|
| `lb_best_machine` | "attempting to find the best machine" | `reachable` is never set, so every load is `usize::MAX` and the order does not depend on load |
| `valve_host_without_port` | "peeking for TLS Server Name Indication or HTTP Host header" | the value is trimmed only to find a port; `Host: a` asks for a name that begins with a space, and the connection is dropped |
| `valve_header_peek` | "Peek the record header first, which is the first 5 bytes" | the peek returns with the first byte, and a header in two segments is refused |
| `startup_every_address` | `bind-addresses`, a list | TCP ports are bound at the first address only: the inner loop empties the vector |
| `startup_optional` | "Optional (separated by commas): [::1] (default)" of `bind-addresses` and `destination-addresses`; `ConfigBuilder::default` has the TLS port 443 | a missing key is an empty list, which replaces the default: start-up fails with "empty" without addresses or TLS ports, and panics in `unwrap()`, with all sockets bound, without machines |
| `valve_run_ends` | `daemon -r` in `src/resources/services/freebsd/rusty_valve`, which starts a program again when it has ended | with its listeners gone the server does not end: `Server::run` keeps a clone of the forward table while it waits for a load balancer that waits for the last clone |

The last one is the liveness property `RunEnds`. It fails because of who holds
what: with the disjunct `~RunReturned`, the clone in `self`, taken out of
`ForwardTableHeld`, TLC finds that `Server::run` returns.

Met while modelling, without a run of their own:

* `lines()` removes the line ends that `tls_http_rp.rs:286` looks for, so the
  empty line does not end the header: a `Host:` line in the body is taken for
  the field of a request that has none.
* A `Host` line that crosses the end of the 512 byte buffer is cut there with no
  zero behind it, and a name without a space before it is read as a shorter one.
* An IPv6 literal in a `Host` field is read right only with a port behind it:
  without one its last group is taken for the port.
* Host names are looked up as they are written; the table is case-sensitive.
* Every connection goes to the load balancer, which drops those for an internal
  service ("Should be sent already to a service that consumes it"). No property
  objects: such a destination has no machine that could have been tried.
* `tls-rp-listen-port` keeps its default when its value does *not* parse, and is
  replaced by an empty list when it is missing (`config.rs:129`).
* A server with one of the two listeners is refused, by `||` in `server.rs:51`;
  the message in the next line is about a server "without a single listener".
* `!self.ssh_tarpit_max_connections == 0` (`config.rs:210`, "Add if max
  connection isn't 0") complements the integer and is true for `usize::MAX` only.
  Nothing follows from it today, as `Server::new` does not start the tarpit.
* The sample `0.0.0.0, [::]` conflicts with itself where the kernel's IPv6
  sockets are dual-stack.
* A space next to `|` makes a service name unreadable, and the key silently gets
  its fallback.
* `[connection] tls-ch-max`, `[backend-machines]` and `forward_queue` are never
  used; the capacity of 50 is a literal in `server.rs:147`.
* The tarpit never looks at `max_connections`, and a task whose client has left
  writes to it until the program ends.
* `listen` throws the results of both handlers away (`server.rs:123`).


## 7. What is not modelled

* Nothing calls it or it does nothing: the gatekeeper (`todo!()`), the certbot
  stub, QUIC, `unbind`, `add_conn` and `sub_conn`, the parser of
  `LoadBalancerService`, `handle_interrupt` (commented out of `main`) and the
  tracker's cancellation.
* Output: log records, their layers and formatting, `Display` and `Debug`.
* Libraries: the inside of a client hello, which rustls reads; the text of an
  INI file, which the INI crate reads; the clock of timers and sleeps, which may
  fire at any time here.
* Memory: the `JoinSet` of a TLS listener is never polled and keeps the results
  of its finished tasks. The growth has no consequence for a connection until an
  allocation fails.
* The bytes that are copied. `copy_bidirectional` is tokio's.

What could come next: an orderly stop built from `unbind`, the tracker and
`handle_interrupt`, once the program calls them, for which `RunEnds`
shows what has to change first; and `Host` fields with IPv6 literals, for which
`AskedFor` needs the rule that a bracket ends the address.


## 8. Running the checks

In this directory, with `tla2tools`, the community modules and TLAPS 1.4.5:

```
tlc -workers 2 -config LoadBalancer.cfg  MCLoadBalancer
tlc -workers 2 -config Valve.cfg         MCValve
tlc -workers 2 -config ValveRequests.cfg MCValve
tlc -workers 2 -config Startup.cfg       MCStartup
tlc -workers 2 -config Tarpit.cfg        Tarpit
tlc -workers 2 -config Destinations.cfg  MCDestinations
tlapm LoadBalancer_proofs.tla
tlapm HostName_proofs.tla
tlapm Valve_proofs.tla
tlapm ValveRefinement_proofs.tla
tlapm Destinations_proofs.tla
tlapm Startup_proofs.tla
tlapm Tarpit_proofs.tla
tlapm SequenceFacts.tla
```

The other configurations belong to the runs of section 6 and end with the
expected violation. `valve` is the longest run, with about two minutes, and
`Valve_proofs` the longest proof, with about six.
