------------------------------ MODULE Listeners ------------------------------
(***************************************************************************)
(* The running listeners: listen_tcp, one loop per plain TCP socket        *)
(* (src/src/listeners/tcp_rp.rs), listen_tls with one get_backend_port     *)
(* task per connection (src/src/listeners/tls_http_rp.rs), and the two     *)
(* listen functions that hold these loops in a JoinSet.                    *)
(*                                                                         *)
(* A TCP loop knows the destination of its port and sends the connection   *)
(* to the load balancer itself, accepting nothing else meanwhile.  A TLS   *)
(* task peeks, under a timer, at bytes the client may still be sending:    *)
(* once for the five byte record header, once for the client hello or the  *)
(* HTTP header, and looks the name it finds up.                            *)
(*                                                                         *)
(* The loops have no end, but a task may die, and both listen functions    *)
(* say what happens then: the TCP handler goes on with its other sockets,  *)
(* the TLS handler returns and its JoinSets abort what they hold.          *)
(***************************************************************************)
EXTENDS HostName, FiniteSets

CONSTANTS Conns,               \* client connections
          TcpListeners,        \* sockets bound by the plain TCP handler
          TlsListeners,        \* sockets bound by the TLS/HTTP handler
          Mortal,              \* listeners whose task may die
          Requests,            \* what clients send: segments of tokens
          NoListener,          \* the client has not connected
          NoRequest,           \* what it will send is not chosen
          Destinations,        \* destinations, opaque to the listeners
          NoDest,              \* Option::None of a destination
          TcpDestination,      \* PossibleDestinations of each TCP listener
          DestinationProvider  \* PossibleDestinations of each known name

PossibleDestinations ==
    [destination : Destinations, else_destination : Destinations \cup {NoDest}]

\* What the constants have to be; module Valve assumes it of its own.
ListenersAssumption ==
    /\ HttpBuffer \in Nat \ {0}
    /\ TcpListeners \cap TlsListeners = {}
    /\ Mortal \subseteq TcpListeners \cup TlsListeners
    /\ NoListener \notin TcpListeners \cup TlsListeners
    /\ NoName \notin DOMAIN DestinationProvider
    /\ NoRequest \notin Requests
    /\ \A r \in Requests :
         /\ r \in Seq(Range(r)) \ {<<>>}
         /\ \A k \in DOMAIN r : r[k] \in Seq(Range(r[k])) \ {<<>>}
    /\ \A name \in DOMAIN DestinationProvider : IsKey(name)
    /\ NoDest \notin Destinations
    /\ TcpDestination \in [TcpListeners -> PossibleDestinations]
    /\ DestinationProvider \in [DOMAIN DestinationProvider -> PossibleDestinations]

VARIABLES stage,      \* where the listeners have a connection
          via,        \* the listener it came in by
          request,    \* what its client sends, chosen when it connects
          sent,       \* how many segments of that have reached the kernel
          host,       \* the name its task has found
          listening,  \* listeners whose task is alive and socket open
          tls_listen  \* whether BoundTlsRpHandler::listen still runs

listener_vars == <<stage, via, request, sent, host, listening, tls_listen>>

task_vars == <<listening, tls_listen>>

Stages == {"new", "backlog", "tcp_send", "peek_header", "peek_hello",
           "tls_send", "forwarded", "dropped"}

\* A get_backend_port task is at one of its awaits.
TlsTask == {"peek_header", "peek_hello", "tls_send"}

\* The listener or its task has the client's stream open.
Accepted == {"tcp_send"} \cup TlsTask

-----------------------------------------------------------------------------
(* PossibleDestinations and the forward table. *)

GetOnlyDestination(p) == p.destination

TryGetInner(p, condition) == IF condition THEN p.destination ELSE p.else_destination

\* Server::new registers one service.
ForwardTable == {"load-balancer"}

HasService(s) == s \in ForwardTable

-----------------------------------------------------------------------------
Init ==
    /\ stage      = [c \in Conns |-> "new"]
    /\ via        = [c \in Conns |-> NoListener]
    /\ request    = [c \in Conns |-> NoRequest]
    /\ sent       = [c \in Conns |-> 0]
    /\ host       = [c \in Conns |-> NoName]
    /\ listening  = TcpListeners \cup TlsListeners
    /\ tls_listen = "running"

Move(c, from, to) ==
    /\ stage[c] = from
    /\ stage' = [stage EXCEPT ![c] = to]

(* The client and the kernel. *)

\* The kernel completes the handshake; a closed socket refuses.  What a client
\* of a plain TCP port sends is not looked at.
ClientConnects(c, l) ==
    /\ l \in listening
    /\ Move(c, "new", "backlog")
    /\ via' = [via EXCEPT ![c] = l]
    /\ \E r \in IF l \in TlsListeners THEN Requests ELSE {NoRequest} :
          request' = [request EXCEPT ![c] = r]
    /\ UNCHANGED <<sent, host, task_vars>>

\* A segment arrives; a client may stop anywhere and never go on.  What comes
\* after the peeks is for the machine.
ClientSends(c) ==
    /\ via[c] \in TlsListeners
    /\ stage[c] \in {"backlog", "peek_header", "peek_hello"}
    /\ sent[c] < Len(request[c])
    /\ sent' = [sent EXCEPT ![c] = @ + 1]
    /\ UNCHANGED <<stage, via, request, host, task_vars>>

Arrived(c) == FlattenSeq(SubSeq(request[c], 1, sent[c]))

Request(c) == FlattenSeq(request[c])

(* The accept loops. *)

\* Mutant: an accept error is taken for one of a connection that is open.
AcceptFailsAndForwards(c) ==
    /\ via[c] \in listening
    /\ Move(c, "backlog", "forwarded")
    /\ UNCHANGED <<via, request, sent, host, task_vars>>

\* accept reports that the client has gone again: both loops continue.
AcceptFails(c) ==
    /\ via[c] \in listening
    /\ Move(c, "backlog", "dropped")
    /\ UNCHANGED <<via, request, sent, host, task_vars>>

\* The loop takes its next connection when the last one has been sent.  With
\* the gatekeeper in the table the destination could be missing and the
\* connection would be dropped; see ForwardDestination.
AcceptTcp(c) ==
    /\ via[c] \in listening \cap TcpListeners
    /\ ~ \E other \in Conns : via[other] = via[c] /\ stage[other] = "tcp_send"
    /\ Move(c, "backlog", "tcp_send")
    /\ UNCHANGED <<via, request, sent, host, task_vars>>

AcceptTls(c) ==
    /\ via[c] \in listening \cap TlsListeners
    /\ Move(c, "backlog", "peek_header")
    /\ UNCHANGED <<via, request, sent, host, task_vars>>

(* get_backend_port. *)

\* The first peek returns: some byte of the client is there.
PeekHeader(c) ==
    /\ sent[c] > 0
    /\ Move(c, "peek_header",
            IF HeaderAccepted(Arrived(c)) THEN "peek_hello" ELSE "dropped")
    /\ UNCHANGED <<via, request, sent, host, task_vars>>

\* The second peek returns at once, and the name it gives is looked up.
PeekHello(c) ==
    /\ stage[c] = "peek_hello"
    /\ \E name \in NamesFound(Arrived(c), Request(c)) :
          /\ host' = [host EXCEPT ![c] = name]
          /\ Move(c, "peek_hello",
                  IF name \in DOMAIN DestinationProvider THEN "tls_send" ELSE "dropped")
    /\ UNCHANGED <<via, request, sent, task_vars>>

\* Mutant: the first peek has no timer.
PeekFailsOnlyAtHello(c) ==
    /\ Move(c, "peek_hello", "dropped")
    /\ UNCHANGED <<via, request, sent, host, task_vars>>

\* Mutant: the timer covers the whole of get_backend_port and fires late.
PeekFailsAfterForward(c) ==
    /\ \/ Move(c, "peek_header", "dropped")
       \/ Move(c, "peek_hello", "dropped")
       \/ Move(c, "forwarded", "dropped")
    /\ UNCHANGED <<via, request, sent, host, task_vars>>

\* peek_timeout: the timer fires or the peek fails, and the task ends.  A
\* client that leaves without a byte ends it too: the peek gives no host.
PeekFails(c) ==
    /\ \/ Move(c, "peek_header", "dropped")
       \/ Move(c, "peek_hello", "dropped")
    /\ UNCHANGED <<via, request, sent, host, task_vars>>

\* The destination a connection is sent with.  The gatekeeper's verdict is the
\* constant `approved = true' of listen_tcp.
ForwardDestination(c) ==
    IF via[c] \in TcpListeners
    THEN IF HasService("gatekeeper-auth")
         THEN TryGetInner(TcpDestination[via[c]], TRUE)
         ELSE GetOnlyDestination(TcpDestination[via[c]])
    ELSE GetOnlyDestination(DestinationProvider[host[c]])

\* forward_conn has returned: the load balancer owns the stream.  Composed
\* with the channel in module Valve, which makes this wait for room.
Forward(c) ==
    /\ HasService("load-balancer")
    /\ Move(c, IF via[c] \in TcpListeners THEN "tcp_send" ELSE "tls_send", "forwarded")
    /\ UNCHANGED <<via, request, sent, host, task_vars>>

-----------------------------------------------------------------------------
(* The end of a listener task. *)

\* A task is dropped with its socket, whose backlog the kernel resets; a TCP
\* loop takes the stream it is sending along, a TLS loop its handler_set.
Close(l, stages) ==
    /\ l \in listening
    /\ listening' = listening \ {l}
    /\ stage' = [c \in Conns |-> IF via[c] = l /\ stage[c] \in stages
                                 THEN "dropped" ELSE stage[c]]

\* Mutant: the TCP handler returns with the first task, as the TLS one does.
TcpListenerDiesWithAll(l) ==
    /\ l \in Mortal \cap TcpListeners \cap listening
    /\ listening' = listening \ TcpListeners
    /\ stage' = [c \in Conns |-> IF via[c] \in TcpListeners /\ stage[c] \in {"backlog", "tcp_send"}
                                 THEN "dropped" ELSE stage[c]]
    /\ UNCHANGED <<via, request, sent, host, tls_listen>>

\* BoundSimpleTcpHandler::listen continues with the other sockets.
TcpListenerDies(l) ==
    /\ l \in Mortal \cap TcpListeners
    /\ Close(l, {"backlog", "tcp_send"})
    /\ UNCHANGED <<via, request, sent, host, tls_listen>>

TlsListenerDies(l) ==
    /\ l \in Mortal \cap TlsListeners
    /\ Close(l, {"backlog"})
    /\ UNCHANGED <<via, request, sent, host, tls_listen>>

\* Mutant: the TLS handler continues, as the TCP one does.
TlsListenContinues ==
    /\ TlsListeners \cap listening = {}
    /\ tls_listen = "running"
    /\ tls_listen' = "returned"
    /\ UNCHANGED <<stage, via, request, sent, host, listening>>

\* BoundTlsRpHandler::listen: join_next gives an error, listen returns it and
\* drops listener_set.
TlsListenReturns ==
    /\ ~ TlsListeners \subseteq listening
    /\ tls_listen = "running"
    /\ tls_listen' = "returned"
    /\ UNCHANGED <<stage, via, request, sent, host, listening>>

\* The runtime aborts the tasks of a dropped JoinSet one at a time, each at
\* its await: the other TLS listeners, ...
TlsListenerAborted(l) ==
    /\ tls_listen = "returned"
    /\ l \in TlsListeners
    /\ Close(l, {"backlog"})
    /\ UNCHANGED <<via, request, sent, host, tls_listen>>

\* Mutant: the abort reaches streams that the channel has taken.
TaskAbortedAfterForward(c) ==
    /\ via[c] \in TlsListeners \ listening
    /\ stage[c] \in TlsTask \cup {"forwarded"}
    /\ stage' = [stage EXCEPT ![c] = "dropped"]
    /\ UNCHANGED <<via, request, sent, host, task_vars>>

\* ... and the get_backend_port tasks of a TLS listener that is gone.
TaskAborted(c) ==
    /\ via[c] \in TlsListeners \ listening
    /\ stage[c] \in TlsTask
    /\ stage' = [stage EXCEPT ![c] = "dropped"]
    /\ UNCHANGED <<via, request, sent, host, task_vars>>

-----------------------------------------------------------------------------
Accept(c) == AcceptTcp(c) \/ AcceptTls(c)

Peek(c) == PeekFails(c) \/ PeekHeader(c) \/ PeekHello(c)

\* What clients, kernel and listener tasks do without a new descriptor and
\* without the channel.
Internal ==
    \/ TlsListenReturns
    \/ \E l \in TcpListeners : TcpListenerDies(l)
    \/ \E l \in TlsListeners : TlsListenerDies(l) \/ TlsListenerAborted(l)
    \/ \E c \in Conns :
          \/ \E l \in TcpListeners \cup TlsListeners : ClientConnects(c, l)
          \/ ClientSends(c)
          \/ AcceptFails(c)
          \/ Peek(c)
          \/ TaskAborted(c)

ListenersTypeOK ==
    /\ stage \in [Conns -> Stages]
    /\ via \in [Conns -> TcpListeners \cup TlsListeners \cup {NoListener}]
    /\ request \in [Conns -> Requests \cup {NoRequest}]
    /\ sent \in [Conns -> Nat]
    /\ \A c \in Conns : sent[c] > 0 => sent[c] <= Len(request[c])
    /\ \A c \in Conns : stage[c] = "tls_send" => host[c] \in DOMAIN DestinationProvider
    /\ listening \subseteq TcpListeners \cup TlsListeners
    /\ tls_listen \in {"running", "returned"}
=============================================================================
