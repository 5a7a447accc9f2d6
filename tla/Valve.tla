-------------------------------- MODULE Valve --------------------------------
(***************************************************************************)
(* The running server: the listeners and the load balancer, joined by the  *)
(* forwarding channel and competing for the descriptors of the process.  A *)
(* listener's Forward and the channel's Send are one step.                 *)
(***************************************************************************)
EXTENDS Integers, FiniteSets, Sequences, Functions

CONSTANTS Conns, Addrs, Machines, Capacity, UsizeMax, NoMachine, NoDest,
          TcpListeners, TlsListeners, Mortal, Requests, HttpBuffer, NoName,
          NoListener, NoRequest, TcpDestination, DestinationProvider,
          Limits  \* descriptors the process may have for connections

VARIABLES stage, via, request, sent, host, listening, tls_listen,
          queue, destination, senders_alive, lb_run, conn_tracker, target,
          backend_list, tried, sockets, task_tracker,
          limit,    \* the one of Limits this process runs under
          files,    \* connections whose backend socket has a descriptor
          run       \* what Server::run waits for

LB == INSTANCE LoadBalancer

L == INSTANCE Listeners WITH Destinations <- LB!Destinations

ASSUME ValveAssumption ==
    /\ L!ListenersAssumption
    /\ IsFiniteSet(Machines)
    /\ NoMachine \notin Machines
    /\ Capacity \in Nat \ {0}
    /\ UsizeMax \in Nat
    /\ Limits \subseteq Nat \ {0}

lb_vars == <<queue, destination, senders_alive, lb_run, conn_tracker, target,
             backend_list, tried, sockets, task_tracker>>
l_vars  == <<stage, via, request, sent, host, listening, tls_listen>>
vars    == <<l_vars, lb_vars, limit, files, run>>

Init ==
    /\ L!Init
    /\ LB!Init
    /\ limit \in Limits
    /\ files = {}
    /\ run = "listeners and load balancer"

-----------------------------------------------------------------------------
(* Descriptors: one for a client's stream from accept until it is dropped, *)
(* one for each connection that is being made or copied to a machine.      *)

Served(c) == \E m \in Machines : c \in task_tracker[m]

Owned(c) == c \in Range(queue) \cup conn_tracker \/ Served(c)

ClientFiles == {c \in Conns : stage[c] \in L!Accepted \/ Owned(c)}

OpenFiles == Cardinality(ClientFiles) + Cardinality(files)

\* Mutant: both loops accept without a descriptor to spare.
AcceptRegardless(c) ==
    /\ L!Accept(c)
    /\ UNCHANGED <<lb_vars, limit, files, run>>

\* At the limit accept fails, and both loops try again at once.
Accept(c) ==
    /\ OpenFiles < limit
    /\ L!Accept(c)
    /\ UNCHANGED <<lb_vars, limit, files, run>>

\* Where a step of a handle_connection task leads to a connect, that begins
\* with a new socket; the one of the last attempt is closed by then.
ConnectNext(c) ==
    files' = IF /\ target'[c] # NoMachine
                /\ Cardinality(ClientFiles) + Cardinality(files \ {c}) < limit
             THEN files \cup {c}
             ELSE files \ {c}

HandleConnection(c) ==
    /\ LB!HandleConnection(c)
    /\ ConnectNext(c)

\* Without a descriptor connect fails at once, like a refused one.
Refused(c) ==
    /\ LB!Refused(c)
    /\ ConnectNext(c)

TimedOut(c) ==
    /\ c \in files
    /\ LB!TimedOut(c)
    /\ ConnectNext(c)

Established(c) ==
    /\ c \in files
    /\ LB!Established(c)
    /\ UNCHANGED files

ConnectSucceeds(c) ==
    /\ LB!ConnectSucceeds(c)
    /\ UNCHANGED files

CopyEnds(c, m) ==
    /\ LB!CopyEnds(c, m)
    /\ files' = files \ {c}

AttemptEnds(c) == ConnectSucceeds(c) \/ Refused(c) \/ TimedOut(c)

Receive == (LB!Recv \/ LB!RecvNone) /\ UNCHANGED files

\* Server::run returns when join! has both its results, and drops `self'.
RunReturned == run = "load balancer" /\ lb_run = "returned"

\* Each clone of the forward table has a Sender of the channel: `self' in
\* Server::run, the handlers whose listen runs, their loops, and the tasks.
ForwardTableHeld ==
    \/ ~RunReturned
    \/ tls_listen = "running"
    \/ listening # {}
    \/ \E c \in Conns : stage[c] \in L!Accepted

\* The last clone is dropped, which closes the channel.
LetGo ==
    /\ ~ForwardTableHeld
    /\ LB!DropSenders
    /\ UNCHANGED files

LoadBalancerStep ==
    /\ \/ Receive
       \/ LetGo
       \/ \E c \in Conns :
             \/ HandleConnection(c)
             \/ Established(c)
             \/ AttemptEnds(c)
             \/ \E m \in Machines : CopyEnds(c, m)
    /\ UNCHANGED <<l_vars, limit, run>>

-----------------------------------------------------------------------------
\* Mutant: only the port of the destination reaches the load balancer.
ForwardConnPortOnly(c) ==
    /\ L!Forward(c)
    /\ LB!Send(c, LB!PortOnly)
    /\ UNCHANGED <<limit, files, run>>

\* The listener wraps the stream and its destination in a ForwardedConnection
\* and waits in forward_conn's send().await until the channel has room.
ForwardConn(c) ==
    /\ L!Forward(c)
    /\ LB!Send(c, L!ForwardDestination(c))
    /\ UNCHANGED <<limit, files, run>>

\* ListenerInner::listen: both handlers' listen have returned, whatever their
\* results.  Server::run goes on waiting for the load balancer.
ListenReturns ==
    /\ TcpListeners \cap listening = {}
    /\ tls_listen = "returned"
    /\ run = "listeners and load balancer"
    /\ run' = "load balancer"
    /\ UNCHANGED <<l_vars, lb_vars, limit, files>>

Next ==
    \/ L!Internal /\ UNCHANGED <<lb_vars, limit, files, run>>
    \/ LoadBalancerStep
    \/ ListenReturns
    \/ \E c \in Conns : Accept(c) \/ ForwardConn(c)

\* As in LoadBalancer, and likewise for the listeners: ready tasks are polled,
\* a loop accepts some pending connection, peek timers fire, aborted tasks are
\* dropped.  Waiting senders get permits in the order they asked, so a send is
\* not overtaken for ever.  Clients owe nothing: they may connect and stay
\* silent.  Nothing has to die.
Fairness ==
    LET Quiet(A) == A /\ UNCHANGED <<lb_vars, limit, files, run>>
        Load(A)  == A /\ UNCHANGED <<l_vars, limit, run>>
    IN  /\ WF_vars(Load(Receive))
        /\ WF_vars(Load(LetGo))
        /\ WF_vars(ListenReturns)
        /\ WF_vars(Quiet(L!TlsListenReturns))
        /\ \A l \in TlsListeners : WF_vars(Quiet(L!TlsListenerAborted(l)))
        /\ \A l \in TcpListeners \cup TlsListeners :
             WF_vars(\E c \in Conns : via[c] = l /\ Accept(c))
        /\ \A c \in Conns :
             /\ WF_vars(Load(HandleConnection(c)))
             /\ WF_vars(Load(AttemptEnds(c)))
             /\ WF_vars(Quiet(L!Peek(c)))
             /\ WF_vars(Quiet(L!TaskAborted(c)))
             /\ SF_vars(ForwardConn(c))

Spec == Init /\ [][Next]_vars /\ Fairness

-----------------------------------------------------------------------------
(* The abstract connection of module Connections. *)

\* The listeners have the connection, or the kernel has it for them.
Waiting == {"backlog"} \cup L!Accepted

Status(c) ==
    CASE stage[c] = "new"       -> "new"
      [] stage[c] \in Waiting   -> "pending"
      [] stage[c] = "dropped"   -> "closed"
      [] stage[c] = "forwarded" -> IF Served(c) THEN "served"
                                   ELSE IF Owned(c) THEN "routed" ELSE "closed"

Allowed(c) == IF destination[c] = NoDest THEN {} ELSE LB!Candidates(destination[c])

Promise == INSTANCE Connections WITH
    status  <- [c \in Conns |-> Status(c)],
    allowed <- [c \in Conns |-> Allowed(c)],
    failed  <- tried,
    backend <- [c \in Conns |-> {m \in Machines : c \in task_tracker[m]}]

-----------------------------------------------------------------------------
(* Properties. *)

TypeOK ==
    /\ L!ListenersTypeOK
    /\ LB!TypeOK
    /\ limit \in Limits
    /\ files \subseteq Conns
    /\ run \in {"listeners and load balancer", "load balancer"}

\* The server keeps the promise of module Connections: a connection is turned
\* away before it is routed or tried at allowed machines, each at most once,
\* until one serves it or all have failed it, also when listeners die and
\* descriptors run out.
KeepsPromise == Promise!Spec

\* A listener gives a connection to the channel exactly once, and the load
\* balancer touches only connections it was given.
HandedOverOnce ==
    \A c \in Conns :
        /\ stage[c] = "forwarded" <=> destination[c] # NoDest
        /\ stage[c] # "forwarded" =>
             /\ c \notin Range(queue) \cup conn_tracker
             /\ tried[c] = {}
             /\ \A m \in Machines : c \notin task_tracker[m] \cup sockets[m]

\* A machine serves a connection only where the configuration sends it: the
\* destination of the TCP port it came in by, or of the host that its client's
\* whole request asks for within the peek's buffer, allows that machine,
\* however little of the request the peeks have seen.
ServedAsConfigured ==
    \A m \in Machines : \A c \in task_tracker[m] :
        \/ /\ via[c] \in TcpListeners
           /\ m \in LB!Candidates(TcpDestination[via[c]].destination)
        \/ via[c] \in TlsListeners /\ ~L!AsksInBuffer(L!Request(c))
        \/ /\ via[c] \in TlsListeners
           /\ L!AskedFor(L!Request(c)) \in DOMAIN DestinationProvider
           /\ m \in LB!Candidates(DestinationProvider[L!AskedFor(L!Request(c))].destination)

\* Descriptors never exceed the limit, and none outlives its connection: those
\* of backend sockets belong to a pending connect or to a copy.
FilesAccounted ==
    /\ OpenFiles <= limit
    /\ \A c \in files : target[c] # NoMachine \/ Served(c)
    /\ \A m \in Machines : sockets[m] \subseteq files

CopiesHoldAllFiles == 2 * Cardinality({c \in Conns : Served(c)}) >= limit

\* Every connection that reaches a listener is settled: dropped, copied to a
\* machine, or over.  Silent clients and machines, a full channel, dying
\* listeners and a lack of descriptors delay it and stop it for ever only if
\* all descriptors go to copies that do not end.
ArrivalIsSettled ==
    []<>~CopiesHoldAllFiles =>
        \A c \in Conns :
            stage[c] = "backlog" ~>
              \/ stage[c] = "dropped"
              \/ stage[c] = "forwarded" /\ c \notin Range(queue) \cup conn_tracker

\* One dead TLS listener ends all of them, together with their tasks.
TlsListenersFailTogether ==
    ~ TlsListeners \subseteq listening ~>
        /\ TlsListeners \cap listening = {}
        /\ \A c \in Conns : via[c] \in TlsListeners => stage[c] \notin L!TlsTask

\* A dead TCP listener takes no other connection along than its own, and none
\* that the load balancer has.
TcpListenersFailAlone ==
    [][\A l \in TcpListeners : l \in listening /\ l \notin listening' =>
          /\ listening \ listening' = {l}
          /\ \A c \in Conns : stage'[c] # stage[c] =>
                via[c] = l /\ stage[c] \in {"backlog", "tcp_send"}]_vars

\* The service script runs the program under `daemon -r', which starts it again
\* when it has ended: a server that nobody can connect to any more does end.
RunEnds ==
    TcpListeners \cap listening = {} /\ tls_listen = "returned" ~> RunReturned

\* `Peek the record header first, which is the first 5 bytes': a client that
\* speaks an accepted TLS passes the header check whenever the peek returns.
HeaderPeekIsWholeHeader ==
    [][\A c \in Conns :
          L!PeekHeader(c) /\ L!HeaderAccepted(L!Request(c)) =>
             stage'[c] = "peek_hello"]_vars

\* A request whose Host line fits into the peek's buffer goes to the host it
\* asks for or to none, wherever the peeks have cut it.
HostIsAskedFor ==
    \A c \in Conns :
        /\ stage[c] \in {"tls_send", "forwarded"}
        /\ via[c] \in TlsListeners
        /\ L!AsksInBuffer(L!Request(c))
        => host[c] = L!AskedFor(L!Request(c))

Readable(c) ==
    /\ L!AsksInBuffer(L!Request(c))
    /\ L!AskedFor(L!Request(c)) \in DOMAIN DestinationProvider
    /\ \A k \in DOMAIN L!Request(c) : L!Request(c)[k] # "bad"

\* A whole request for a known host gets through the second peek, if it is
\* TLS or names the port as well.
KnownHostWithPort ==
    [][\A c \in Conns :
          /\ L!PeekHello(c) /\ sent[c] = Len(request[c])
          /\ Readable(c)
          /\ L!IsTls(L!Request(c)) \/ L!HasPort(L!Request(c))
          => stage'[c] = "tls_send"]_vars

\* `Transparent reverse proxy through peeking for TLS Server Name Indication
\* or HTTP Host header': a whole request for a known host gets through.
KnownHost ==
    [][\A c \in Conns :
          L!PeekHello(c) /\ sent[c] = Len(request[c]) /\ Readable(c) =>
             stage'[c] = "tls_send"]_vars
=============================================================================
