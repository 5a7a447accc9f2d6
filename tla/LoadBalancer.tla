---------------------------- MODULE LoadBalancer ----------------------------
(***************************************************************************)
(* The load balancer service (src/src/services/load_balancer.rs) behind    *)
(* its bounded forwarding channel (src/src/services.rs).                   *)
(*                                                                         *)
(* Every forwarded connection gets a task of its own, handle_connection,   *)
(* which picks the machines it may go to, tries them one at a time under a *)
(* five second timer, and hands the client's stream to a copy task of the  *)
(* first machine that accepts.  One action below is what a task does       *)
(* between two awaits.  The kernel's side of a TCP connect is the variable *)
(* `sockets', so a machine may answer just as the timer fires.             *)
(***************************************************************************)
EXTENDS Integers, FiniteSets, SequencesExt

CONSTANTS Conns,      \* client connections
          Addrs,      \* IP addresses the destinations mention
          Machines,   \* keys of the machine table: `destination-addresses'
          Capacity,   \* bound of the forwarding channel (50 in the code)
          UsizeMax,   \* usize::MAX, the load of an unreachable machine
          NoMachine,  \* no connect in progress
          NoDest      \* the connection has not been forwarded yet

ASSUME ConstantsAssumption ==
    /\ IsFiniteSet(Machines)
    /\ NoMachine \notin Machines
    /\ Capacity \in Nat \ {0}
    /\ UsizeMax \in Nat

VARIABLES
    queue,           \* connections in the channel
    destination,     \* ForwardedConnection.destination
    senders_alive,   \* some clone of the channel's Sender exists
    lb_run,          \* whether LoadBalancer::run still receives
    conn_tracker,    \* connections whose handle_connection task is alive
    target,          \* the machine that task is connecting to
    backend_list,    \* the machines it will try after that, last one first
    tried,           \* history: the machines whose connect failed
    sockets,         \* connections with an open TCP connection at a machine
    task_tracker     \* connections copied to a machine: its TaskTracker

vars == <<queue, destination, senders_alive, lb_run, conn_tracker, target,
          backend_list, tried, sockets, task_tracker>>

channel_vars == <<queue, destination, senders_alive, lb_run>>

-----------------------------------------------------------------------------
(* Destinations, as Destination::from_str builds them.  A port never       *)
(* decides which machine is tried and is left out; the address vector is   *)
(* only ever searched, so it is a set.                                     *)

PortOnly          == [kind |-> "PortOnly", addrs |-> {}]
Socket(a)         == [kind |-> "Socket", addrs |-> {a}]
PortAndAddrs(S)   == [kind |-> "PortAndAddrs", addrs |-> S]
InternalService   == [kind |-> "InternalService", addrs |-> {}]

Destinations ==
    {PortOnly, InternalService} \cup {Socket(a) : a \in Addrs}
      \cup {PortAndAddrs(S) : S \in SUBSET Addrs \ {{}}}

ASSUME NoDestAssumption == NoDest \notin Destinations

\* Mutant: a named machine is not looked up in the machine table.
CandidatesUnchecked(d) == IF d.kind = "PortOnly" THEN Machines ELSE d.addrs

\* The machines handle_connection may try for a destination: all of them, the
\* named ones that are in the machine table, or none.
Candidates(d) ==
    CASE d.kind = "PortOnly"                    -> Machines
      [] d.kind \in {"Socket", "PortAndAddrs"}  -> d.addrs \cap Machines
      [] OTHER                                  -> {}

-----------------------------------------------------------------------------
(* The load of a machine and the order in which machines are tried.        *)

Weight == 1

\* `reachable' starts as AtomicBool::default() and nothing ever stores to it.
Available(m) == FALSE

WeightedLoad(m) ==
    IF Available(m) THEN Cardinality(task_tracker[m]) * Weight ELSE UsizeMax

\* An unstable sort: machines of equal load come in any order.
PickBestIp(S) ==
    {s \in Bijection(1..Cardinality(S), S) :
        \A i, j \in DOMAIN s : i <= j => WeightedLoad(s[i]) <= WeightedLoad(s[j])}

\* Mutant: the addresses of the destination are not used.
BackendListsOfAll(d) ==
    {Reverse(s) : s \in PickBestIp(IF d.kind = "InternalService" THEN {} ELSE Machines)}

\* The sorted vector is reversed and then popped from its end.  The Socket arm
\* tries its one machine without sorting, which is the same vector.
BackendLists(d) == {Reverse(s) : s \in PickBestIp(Candidates(d))}

-----------------------------------------------------------------------------
Init ==
    /\ queue         = <<>>
    /\ destination   = [c \in Conns |-> NoDest]
    /\ senders_alive = TRUE
    /\ lb_run        = "receiving"
    /\ conn_tracker  = {}
    /\ target        = [c \in Conns |-> NoMachine]
    /\ backend_list  = [c \in Conns |-> <<>>]
    /\ tried         = [c \in Conns |-> {}]
    /\ sockets       = [m \in Machines |-> {}]
    /\ task_tracker  = [m \in Machines |-> {}]

(* The channel. *)

\* Mutant: a listener keeps a connection it has sent.
SendAgain(c, d) ==
    /\ senders_alive
    /\ c \notin Range(queue) \cup conn_tracker
    /\ \A m \in Machines : c \notin task_tracker[m]
    /\ Len(queue) < Capacity
    /\ queue' = Append(queue, c)
    /\ destination' = [destination EXCEPT ![c] = d]
    /\ UNCHANGED <<senders_alive, lb_run, conn_tracker, target, backend_list,
                   tried, sockets, task_tracker>>

\* forward_conn: send(conn).await completes once the channel has room.
Send(c, d) ==
    /\ senders_alive
    /\ destination[c] = NoDest
    /\ Len(queue) < Capacity
    /\ queue' = Append(queue, c)
    /\ destination' = [destination EXCEPT ![c] = d]
    /\ UNCHANGED <<senders_alive, lb_run, conn_tracker, target, backend_list,
                   tried, sockets, task_tracker>>

\* The last clone of the forward table is dropped.
DropSenders ==
    /\ senders_alive
    /\ senders_alive' = FALSE
    /\ UNCHANGED <<queue, destination, lb_run, conn_tracker, target,
                   backend_list, tried, sockets, task_tracker>>

\* run: a connection is received and its task spawned.
Recv ==
    /\ lb_run = "receiving"
    /\ queue # <<>>
    /\ queue' = Tail(queue)
    /\ conn_tracker' = conn_tracker \cup {Head(queue)}
    /\ UNCHANGED <<destination, senders_alive, lb_run, target, backend_list,
                   tried, sockets, task_tracker>>

\* Mutant: run ends as soon as the channel is empty.
RecvNoneTooEarly ==
    /\ lb_run = "receiving"
    /\ queue = <<>>
    /\ lb_run' = "returned"
    /\ UNCHANGED <<queue, destination, senders_alive, conn_tracker, target,
                   backend_list, tried, sockets, task_tracker>>

\* Mutant: run waits for the copies before it returns.
RecvNoneAfterCopies ==
    /\ lb_run = "receiving"
    /\ queue = <<>>
    /\ ~senders_alive
    /\ \A m \in Machines : task_tracker[m] = {}
    /\ lb_run' = "returned"
    /\ UNCHANGED <<queue, destination, senders_alive, conn_tracker, target,
                   backend_list, tried, sockets, task_tracker>>

\* run: recv() returns None, the loop and with it run end.
RecvNone ==
    /\ lb_run = "receiving"
    /\ queue = <<>>
    /\ ~senders_alive
    /\ lb_run' = "returned"
    /\ UNCHANGED <<queue, destination, senders_alive, conn_tracker, target,
                   backend_list, tried, sockets, task_tracker>>

(* The handle_connection task. *)

\* Mutant: the machine is not taken off the list.
TryNextWithoutPop(c, list) ==
    IF list = <<>>
    THEN /\ conn_tracker' = conn_tracker \ {c}
         /\ target' = [target EXCEPT ![c] = NoMachine]
         /\ backend_list' = [backend_list EXCEPT ![c] = <<>>]
    ELSE /\ target' = [target EXCEPT ![c] = Last(list)]
         /\ backend_list' = [backend_list EXCEPT ![c] = list]
         /\ UNCHANGED conn_tracker

\* Mutant: the last machine is tried again and again.
TryNextForEver(c, list) ==
    IF list = <<>>
    THEN UNCHANGED <<conn_tracker, target, backend_list>>
    ELSE /\ target' = [target EXCEPT ![c] = Last(list)]
         /\ backend_list' = [backend_list EXCEPT ![c] = Front(list)]
         /\ UNCHANGED conn_tracker

\* One turn of the loop in attempt_connections: pop a machine and start to
\* connect to it, or drop the client's stream when none is left.
TryNext(c, list) ==
    IF list = <<>>
    THEN /\ conn_tracker' = conn_tracker \ {c}
         /\ target' = [target EXCEPT ![c] = NoMachine]
         /\ backend_list' = [backend_list EXCEPT ![c] = <<>>]
    ELSE /\ target' = [target EXCEPT ![c] = Last(list)]
         /\ backend_list' = [backend_list EXCEPT ![c] = Front(list)]
         /\ UNCHANGED conn_tracker

\* The task's first poll: the machines are picked and the first one tried.
HandleConnection(c) ==
    /\ c \in conn_tracker
    /\ target[c] = NoMachine
    /\ \E list \in BackendLists(destination[c]) : TryNext(c, list)
    /\ UNCHANGED <<channel_vars, tried, sockets, task_tracker>>

\* The network completes the TCP handshake; the task has not seen it yet.
Established(c) ==
    /\ target[c] \in Machines
    /\ c \notin sockets[target[c]]
    /\ sockets' = [sockets EXCEPT ![target[c]] = @ \cup {c}]
    /\ UNCHANGED <<channel_vars, conn_tracker, target, backend_list, tried,
                   task_tracker>>

\* Mutant: the attempt loop does not end with the first success.
ConnectSucceedsAndGoesOn(c) ==
    /\ target[c] \in Machines
    /\ c \in sockets[target[c]]
    /\ task_tracker' = [task_tracker EXCEPT ![target[c]] = @ \cup {c}]
    /\ TryNext(c, backend_list[c])
    /\ UNCHANGED <<channel_vars, tried, sockets>>

\* connect: the copy task is spawned with both streams, the attempt loop and
\* the handle_connection task end.
ConnectSucceeds(c) ==
    /\ target[c] \in Machines
    /\ c \in sockets[target[c]]
    /\ task_tracker' = [task_tracker EXCEPT ![target[c]] = @ \cup {c}]
    /\ conn_tracker' = conn_tracker \ {c}
    /\ target' = [target EXCEPT ![c] = NoMachine]
    /\ backend_list' = [backend_list EXCEPT ![c] = <<>>]
    /\ UNCHANGED <<channel_vars, tried, sockets>>

\* Mutant: the task ends with the first refusal.
RefusedGivesUp(c) ==
    /\ target[c] \in Machines
    /\ c \notin sockets[target[c]]
    /\ tried' = [tried EXCEPT ![c] = @ \cup {target[c]}]
    /\ TryNext(c, <<>>)
    /\ UNCHANGED <<channel_vars, sockets, task_tracker>>

\* connect: the machine refuses; it gives the client's stream back and the
\* loop goes on.
Refused(c) ==
    /\ target[c] \in Machines
    /\ c \notin sockets[target[c]]
    /\ tried' = [tried EXCEPT ![c] = @ \cup {target[c]}]
    /\ TryNext(c, backend_list[c])
    /\ UNCHANGED <<channel_vars, sockets, task_tracker>>

\* Mutant: a connect that has just succeeded outlives its timeout.
TimedOutKeepsSocket(c) ==
    /\ target[c] \in Machines
    /\ tried' = [tried EXCEPT ![c] = @ \cup {target[c]}]
    /\ TryNext(c, backend_list[c])
    /\ UNCHANGED <<channel_vars, sockets, task_tracker>>

\* connect: five seconds are over.  The connect future is dropped and its
\* socket closed, even if the handshake has just completed.
TimedOut(c) ==
    /\ target[c] \in Machines
    /\ tried' = [tried EXCEPT ![c] = @ \cup {target[c]}]
    /\ sockets' = [sockets EXCEPT ![target[c]] = @ \ {c}]
    /\ TryNext(c, backend_list[c])
    /\ UNCHANGED <<channel_vars, task_tracker>>

\* copy_bidirectional is over, by end of stream or by an error: both streams
\* are dropped and the task leaves its machine's tracker.
CopyEnds(c, m) ==
    /\ c \in task_tracker[m]
    /\ task_tracker' = [task_tracker EXCEPT ![m] = @ \ {c}]
    /\ sockets' = [sockets EXCEPT ![m] = @ \ {c}]
    /\ UNCHANGED <<channel_vars, conn_tracker, target, backend_list, tried>>

-----------------------------------------------------------------------------
AttemptEnds(c) == ConnectSucceeds(c) \/ Refused(c) \/ TimedOut(c)

\* What the load balancer and the network do on their own, for the composed
\* system to use.
Internal ==
    \/ Recv
    \/ RecvNone
    \/ \E c \in Conns :
          \/ HandleConnection(c)
          \/ Established(c)
          \/ AttemptEnds(c)
          \/ \E m \in Machines : CopyEnds(c, m)

Next ==
    \/ Internal
    \/ DropSenders
    \/ \E c \in Conns, d \in Destinations : Send(c, d)

\* Tokio polls every ready task, and the timer of a pending connect fires.
\* Nothing makes a client or a machine end a copy.
Fairness ==
    /\ WF_vars(Recv)
    /\ WF_vars(RecvNone)
    /\ \A c \in Conns : WF_vars(HandleConnection(c)) /\ WF_vars(AttemptEnds(c))

Spec == Init /\ [][Next]_vars /\ Fairness
-----------------------------------------------------------------------------
(* Properties. *)

TypeOK ==
    /\ queue \in Seq(Conns)
    /\ destination \in [Conns -> Destinations \cup {NoDest}]
    /\ senders_alive \in BOOLEAN
    /\ lb_run \in {"receiving", "returned"}
    /\ conn_tracker \subseteq Conns
    /\ target \in [Conns -> Machines \cup {NoMachine}]
    /\ backend_list \in [Conns -> Seq(Machines)]
    /\ tried \in [Conns -> SUBSET Machines]
    /\ sockets \in [Machines -> SUBSET Conns]
    /\ task_tracker \in [Machines -> SUBSET Conns]

\* A client's stream is in one place at a time: at one position of the
\* channel, in its handle_connection task, or in the copy task of one machine;
\* before it is forwarded and after it is over it is in none.
OneOwner ==
    /\ IsInjective(queue)
    /\ Range(queue) \cap conn_tracker = {}
    /\ \A m \in Machines :
         /\ task_tracker[m] \cap (Range(queue) \cup conn_tracker) = {}
         /\ \A n \in Machines \ {m} : task_tracker[m] \cap task_tracker[n] = {}

\* While a task connects, each machine the connection may go to is accounted
\* for exactly once: it has failed, is being tried, or is still in the list.
AttemptsAccounted ==
    \A c \in Conns : target[c] # NoMachine =>
        /\ c \in conn_tracker
        /\ IsInjective(backend_list[c])
        /\ target[c] \notin tried[c] \cup Range(backend_list[c])
        /\ tried[c] \cap Range(backend_list[c]) = {}
        /\ tried[c] \cup {target[c]} \cup Range(backend_list[c])
             = Candidates(destination[c])

\* A machine holds an open connection only for a copy it runs or a connect
\* that is pending on it: no timeout and no finished copy leaks a socket.
NoLeakedSocket ==
    \A m \in Machines : \A c \in sockets[m] :
        c \in task_tracker[m] \/ target[c] = m

Allows(d, m) ==
    d.kind = "PortOnly" \/ (d.kind # "InternalService" /\ m \in d.addrs)

\* A connection is copied to a machine its destination allows, that has not
\* failed it, over a socket that is open.
ServedByAllowedMachine ==
    \A m \in Machines : \A c \in task_tracker[m] :
        /\ Allows(destination[c], m)
        /\ m \notin tried[c]
        /\ c \in sockets[m]

\* A client's stream is dropped by its task only when every machine it could
\* go to has failed it.
GiveUpOnlyWhenExhausted ==
    [][\A c \in conn_tracker \ conn_tracker' :
          \/ \E m \in Machines : c \in task_tracker'[m]
          \/ tried'[c] = Candidates(destination[c])]_vars

\* The receiver goes away only after the last sender and with an empty
\* channel, so the error branch of forward_conn's send is never taken and no
\* forwarded connection is lost in the channel.
ReceiverOutlivesSenders ==
    lb_run = "returned" => ~senders_alive /\ queue = <<>>

\* A connection that was never forwarded is nowhere, and one that has not been
\* tried yet has no failed machine.  With this the invariants are inductive.
FreshConnections ==
    \A c \in Conns :
        /\ destination[c] = NoDest =>
             /\ c \notin Range(queue) \cup conn_tracker
             /\ tried[c] = {}
             /\ \A m \in Machines : c \notin task_tracker[m] \cup sockets[m]
        /\ c \in Range(queue) \cup conn_tracker /\ target[c] = NoMachine =>
             tried[c] = {}

IInv ==
    /\ TypeOK
    /\ OneOwner
    /\ AttemptsAccounted
    /\ NoLeakedSocket
    /\ ServedByAllowedMachine
    /\ ReceiverOutlivesSenders
    /\ FreshConnections

Position(s, x) == CHOOSE i \in DOMAIN s : s[i] = x

\* How many turns of run and of its own task a forwarded connection is at most
\* away from the end of that task.
Remaining(c) ==
    IF c \in Range(queue) THEN Cardinality(Machines) + 1 + Position(queue, c)
    ELSE IF c \notin conn_tracker THEN 0
    ELSE IF target[c] = NoMachine THEN Cardinality(Machines) + 1
    ELSE Len(backend_list[c]) + 1

\* No turn of run or of a task is in vain and nothing undoes one: not the other
\* connections, which fill the channel and load the machines meanwhile, nor an
\* answer that comes when its timer has fired.
TurnsRunOut ==
    [][\A c \in Conns : destination[c] # NoDest =>
          /\ Remaining(c)' <= Remaining(c)
          /\ \/ HandleConnection(c)
             \/ AttemptEnds(c)
             \/ Recv /\ c \in Range(queue)
             => Remaining(c)' < Remaining(c)]_vars

\* Every forwarded connection leaves the channel and its task: it is copied to
\* a machine or it is over, however many machines stay silent.
ForwardedIsSettled ==
    \A c \in Conns :
        destination[c] # NoDest ~> c \notin Range(queue) \cup conn_tracker

\* Once nobody can forward any more, run drains the channel and returns, however
\* long its copies go on.  In the server the senders do not go: see RunEnds of
\* Valve.
RunReturns == ~senders_alive ~> lb_run = "returned"

\* `attempting to find the best machine': the machine tried first has no more
\* live connections than any other machine the connection could go to.
BestMachineFirst ==
    [][\A c \in Conns :
          target[c] = NoMachine /\ target'[c] # NoMachine =>
             \A m \in Candidates(destination[c]) :
                Cardinality(task_tracker[target'[c]]) <= Cardinality(task_tracker[m])]_vars
=============================================================================
