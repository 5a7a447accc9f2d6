-------------------------------- MODULE Tarpit --------------------------------
(***************************************************************************)
(* The SSH tarpit service (src/src/services/ssh_tarpit.rs) behind its own  *)
(* forwarding channel.  Every connection gets a task that writes the       *)
(* transcript to it, a line per period, over and over.  Server::new does   *)
(* not start the service, so what is modelled is what it does for any      *)
(* program that holds a Sender of its channel.                             *)
(*                                                                         *)
(* One action is what a task does between two awaits.  A line is LineSize  *)
(* units long, and a socket holds BufferSize of them until they are read.  *)
(***************************************************************************)
EXTENDS Naturals, FiniteSets, SequencesExt

CONSTANTS Conns,          \* client connections
          Capacity,       \* bound of the channel
          Lines,          \* length of TRANSCRIPT
          LineSize,
          BufferSize,
          MaxConnections  \* Settings.max_connections, which no step reads

ASSUME TarpitAssumption ==
    /\ IsFiniteSet(Conns)
    /\ {Capacity, Lines, LineSize, BufferSize} \subseteq Nat \ {0}
    /\ MaxConnections \in Nat

VARIABLES
    forward_receiver, \* connections in the channel
    sent,             \* connections that have been forwarded
    senders_alive,    \* some clone of the channel's Sender exists
    run,              \* whether SshTarpit::run still receives
    task,             \* where the task of a connection is
    line,             \* the line it has reached
    unread,           \* units in the socket that the client has not read
    readiness,        \* what tokio believes of the socket
    peer,             \* the client's side of the connection
    runtime           \* the tokio runtime is up

vars == <<forward_receiver, sent, senders_alive, run, task, line, unread,
          readiness, peer, runtime>>

channel_vars == <<forward_receiver, sent, senders_alive, run>>
client_vars  == <<unread, readiness, peer>>

\* The lines of TRANSCRIPT, by their index.
Transcript == 0..(Lines - 1)

\* The awaits of tarpit().
Awaits == {"writable", "write", "sleep"}

Alive == {c \in Conns : task[c] \in Awaits}

Init ==
    /\ forward_receiver = <<>>
    /\ sent             = {}
    /\ senders_alive    = TRUE
    /\ run              = "receiving"
    /\ task             = [c \in Conns |-> "none"]
    /\ line             = [c \in Conns |-> 0]
    /\ unread           = [c \in Conns |-> 0]
    /\ readiness        = [c \in Conns |-> TRUE]
    /\ peer             = [c \in Conns |-> "connected"]
    /\ runtime          = "up"

-----------------------------------------------------------------------------
(* The channel and SshTarpit::run. *)

Send(c) ==
    /\ runtime = "up"
    /\ senders_alive
    /\ c \notin sent
    /\ Len(forward_receiver) < Capacity
    /\ forward_receiver' = Append(forward_receiver, c)
    /\ sent' = sent \cup {c}
    /\ UNCHANGED <<senders_alive, run, task, line, client_vars, runtime>>

DropSenders ==
    /\ senders_alive
    /\ senders_alive' = FALSE
    /\ UNCHANGED <<forward_receiver, sent, run, task, line, client_vars, runtime>>

\* Mutant: the tarpit is awaited where it should be spawned.
RecvOneAtATime ==
    /\ runtime = "up"
    /\ run = "receiving"
    /\ forward_receiver # <<>>
    /\ Alive = {}
    /\ forward_receiver' = Tail(forward_receiver)
    /\ task' = [task EXCEPT ![Head(forward_receiver)] = "writable"]
    /\ UNCHANGED <<sent, senders_alive, run, line, client_vars, runtime>>

\* Mutant: a connection over the limit is dropped.
RecvUpToLimit ==
    /\ runtime = "up"
    /\ run = "receiving"
    /\ forward_receiver # <<>>
    /\ forward_receiver' = Tail(forward_receiver)
    /\ task' = IF Cardinality(Alive) < MaxConnections
               THEN [task EXCEPT ![Head(forward_receiver)] = "writable"]
               ELSE task
    /\ UNCHANGED <<sent, senders_alive, run, line, client_vars, runtime>>

\* Any number of tasks is spawned.  Connections that are not TCP are skipped
\* by the code; none can be built.
Recv ==
    /\ runtime = "up"
    /\ run = "receiving"
    /\ forward_receiver # <<>>
    /\ forward_receiver' = Tail(forward_receiver)
    /\ task' = [task EXCEPT ![Head(forward_receiver)] = "writable"]
    /\ UNCHANGED <<sent, senders_alive, run, line, client_vars, runtime>>

\* Mutant: run waits for its tasks.
RecvNoneAfterTasks ==
    /\ runtime = "up"
    /\ run = "receiving"
    /\ forward_receiver = <<>>
    /\ ~senders_alive
    /\ Alive = {}
    /\ run' = "returned"
    /\ UNCHANGED <<forward_receiver, sent, senders_alive, task, line,
                   client_vars, runtime>>

\* recv returns None; the tasks go on.
RecvNone ==
    /\ runtime = "up"
    /\ run = "receiving"
    /\ forward_receiver = <<>>
    /\ ~senders_alive
    /\ run' = "returned"
    /\ UNCHANGED <<forward_receiver, sent, senders_alive, task, line,
                   client_vars, runtime>>

-----------------------------------------------------------------------------
(* tarpit(), the task of a connection. *)

\* stream.writable().await, which answers from tokio's cached readiness.
Writable(c) ==
    /\ runtime = "up"
    /\ task[c] = "writable"
    /\ readiness[c]
    /\ task' = [task EXCEPT ![c] = "write"]
    /\ UNCHANGED <<channel_vars, line, client_vars, runtime>>

\* Mutant: the whole line is taken to fit.
WriteAll(c) ==
    /\ runtime = "up"
    /\ task[c] = "write"
    /\ peer[c] = "connected"
    /\ unread[c] < BufferSize
    /\ unread' = [unread EXCEPT ![c] = @ + LineSize]
    /\ task' = [task EXCEPT ![c] = "sleep"]
    /\ UNCHANGED <<channel_vars, line, readiness, peer, runtime>>

\* Mutant: try_write, and a break where it would block.
TryWriteOrBreak(c) ==
    /\ runtime = "up"
    /\ task[c] = "write"
    /\ peer[c] = "connected"
    /\ LET fits == unread[c] + LineSize <= BufferSize
       IN  /\ unread' = [unread EXCEPT ![c] = IF fits THEN @ + LineSize ELSE BufferSize]
           /\ readiness' = [readiness EXCEPT ![c] = fits]
    /\ task' = [task EXCEPT ![c] = IF unread[c] < BufferSize THEN "sleep" ELSE "ended"]
    /\ UNCHANGED <<channel_vars, line, peer, runtime>>

\* stream.write(line).await waits for room and writes what fits; the rest of
\* the line is lost.  A short write clears the readiness.
Write(c) ==
    /\ runtime = "up"
    /\ task[c] = "write"
    /\ peer[c] = "connected"
    /\ unread[c] < BufferSize
    /\ LET fits == unread[c] + LineSize <= BufferSize
       IN  /\ unread' = [unread EXCEPT ![c] = IF fits THEN @ + LineSize ELSE BufferSize]
           /\ readiness' = [readiness EXCEPT ![c] = fits]
    /\ task' = [task EXCEPT ![c] = "sleep"]
    /\ UNCHANGED <<channel_vars, line, peer, runtime>>

\* A failed write is traced, and the loop goes on to the sleep.
WriteFails(c) ==
    /\ runtime = "up"
    /\ task[c] = "write"
    /\ peer[c] = "gone"
    /\ task' = [task EXCEPT ![c] = "sleep"]
    /\ UNCHANGED <<channel_vars, line, client_vars, runtime>>

\* Mutant: iter() without cycle().
WakeUntilLastLine(c) ==
    /\ runtime = "up"
    /\ task[c] = "sleep"
    /\ line' = [line EXCEPT ![c] = (@ + 1) % Lines]
    /\ task' = [task EXCEPT ![c] = IF line[c] + 1 = Lines THEN "ended" ELSE "writable"]
    /\ UNCHANGED <<channel_vars, client_vars, runtime>>

\* The period is over: the next line of TRANSCRIPT.iter().cycle().
Wake(c) ==
    /\ runtime = "up"
    /\ task[c] = "sleep"
    /\ line' = [line EXCEPT ![c] = (@ + 1) % Lines]
    /\ task' = [task EXCEPT ![c] = "writable"]
    /\ UNCHANGED <<channel_vars, client_vars, runtime>>

\* writable() fails once the runtime's driver is gone, and the loop breaks; at
\* the other awaits the task is dropped.
TaskEnds(c) ==
    /\ runtime = "down"
    /\ c \in Alive
    /\ task' = [task EXCEPT ![c] = "ended"]
    /\ UNCHANGED <<channel_vars, line, client_vars, runtime>>

-----------------------------------------------------------------------------
(* The environment: main returns, clients read and leave. *)

RuntimeStops ==
    /\ runtime = "up"
    /\ runtime' = "down"
    /\ UNCHANGED <<channel_vars, task, line, client_vars>>

ClientReads(c) ==
    /\ peer[c] = "connected"
    /\ \E n \in 1..unread[c] : unread' = [unread EXCEPT ![c] = @ - n]
    /\ readiness' = [readiness EXCEPT ![c] = TRUE]
    /\ UNCHANGED <<channel_vars, task, line, peer, runtime>>

\* The kernel learns that the client has left; until then it is silent.
ClientLeaves(c) ==
    /\ c \in sent
    /\ peer[c] = "connected"
    /\ peer' = [peer EXCEPT ![c] = "gone"]
    /\ unread' = [unread EXCEPT ![c] = 0]
    /\ readiness' = [readiness EXCEPT ![c] = TRUE]
    /\ UNCHANGED <<channel_vars, task, line, runtime>>

Step(c) ==
    \/ Writable(c)
    \/ Write(c)
    \/ WriteFails(c)
    \/ Wake(c)

Next ==
    \/ DropSenders
    \/ Recv
    \/ RecvNone
    \/ RuntimeStops
    \/ \E c \in Conns :
          \/ Send(c)
          \/ Step(c)
          \/ TaskEnds(c)
          \/ ClientReads(c)
          \/ ClientLeaves(c)

\* Ready tasks are polled, the timer fires, and a runtime that stops drops its
\* tasks.  Clients owe nothing, and nobody has to stop the program.
Fairness ==
    /\ WF_vars(Recv)
    /\ WF_vars(RecvNone)
    /\ \A c \in Conns : WF_vars(Step(c)) /\ WF_vars(TaskEnds(c))

Spec == Init /\ [][Next]_vars /\ Fairness

-----------------------------------------------------------------------------
(* Properties. *)

TypeOK ==
    /\ forward_receiver \in Seq(Conns)
    /\ Len(forward_receiver) <= Capacity
    /\ sent \subseteq Conns
    /\ senders_alive \in BOOLEAN
    /\ run \in {"receiving", "returned"}
    /\ task \in [Conns -> {"none", "ended"} \cup Awaits]
    /\ line \in [Conns -> Transcript]
    /\ unread \in [Conns -> 0..BufferSize]
    /\ readiness \in [Conns -> BOOLEAN]
    /\ peer \in [Conns -> {"connected", "gone"}]
    /\ runtime \in {"up", "down"}

\* Every forwarded connection waits in the channel or has had its task; none is
\* refused, lost or received a second time, and no task is without a connection.
HeldOnce ==
    /\ IsInjective(forward_receiver)
    /\ \A c \in Conns :
          /\ c \in Range(forward_receiver) <=> c \in sent /\ task[c] = "none"
          /\ task[c] # "none" => c \in sent
    /\ run = "returned" => forward_receiver = <<>>

\* No client that is still there is let go while the runtime is up: not by a
\* full socket that tokio still takes for writable, not by a short write and
\* not by the last line of the transcript.
NobodyIsLetGo ==
    [][\A c \in Alive :
          task'[c] = "ended" /\ peer[c] = "connected" => runtime = "down"]_vars

\* The transcript is endless for a client that reads: its first line comes
\* again and again, whatever the other clients do.
EndlessForReaders ==
    \A c \in Conns :
        /\ <>(c \in sent)
        /\ [](runtime = "up" /\ peer[c] = "connected")
        /\ WF_vars(ClientReads(c))
        => []<><<Write(c) /\ line[c] = 0>>_vars

\* No connection waits in the channel for another one to end.
EveryoneIsHeld ==
    \A c \in Conns : c \in sent ~> task[c] # "none" \/ runtime = "down"

\* run returns once the senders are gone, although its tasks never end.
RunReturns == ~senders_alive ~> run = "returned" \/ runtime = "down"
=============================================================================
