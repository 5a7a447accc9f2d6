---------------------------- MODULE Tarpit_proofs ----------------------------
(***************************************************************************)
(* The tarpit's safety, proved for any number of connections, any capacity *)
(* and any transcript.                                                     *)
(***************************************************************************)
EXTENDS Tarpit, SequenceFacts

\* run has returned only after the last Sender is gone, so that the channel it
\* leaves behind stays empty.
LastOfSenders == run = "returned" => ~senders_alive

\* The inductive invariant.
IInv == TypeOK /\ HeldOnce /\ LastOfSenders

\* Initially nothing is in the channel and no task runs.
LEMMA InitIInv == Init => IInv
<1>. SUFFICES ASSUME Init PROVE IInv
  OBVIOUS
<1>. USE DEF Init
<1>1. TypeOK
  <2>1. 0 \in Transcript /\ 0 \in 0..BufferSize /\ Capacity \in Nat
    BY TarpitAssumption DEF Transcript
  <2>2. forward_receiver \in Seq(Conns) /\ Len(forward_receiver) = 0
    BY EmptySeq
  <2>. QED BY <2>1, <2>2 DEF TypeOK
<1>2. HeldOnce
  <2>1. Range(forward_receiver) = {} /\ IsInjective(forward_receiver)
    BY DEF Range, IsInjective
  <2>. QED BY <2>1 DEF HeldOnce
<1>. QED BY <1>1, <1>2 DEF IInv, LastOfSenders

\* A connection enters the channel for the first time.
LEMMA SendIInv ==
    ASSUME IInv, NEW c \in Conns, Send(c)
    PROVE  IInv'
<1>. USE DEF IInv, Send, channel_vars, client_vars
<1>1. c \notin Range(forward_receiver) /\ task[c] = "none"
  BY DEF HeldOnce
<1>2. /\ forward_receiver' \in Seq(Conns)
      /\ IsInjective(forward_receiver')
      /\ Range(forward_receiver') = Range(forward_receiver) \cup {c}
  BY <1>1, AppendFacts DEF TypeOK, HeldOnce
<1>3. TypeOK'
  <2>1. Len(forward_receiver') = Len(forward_receiver) + 1
    BY AppendProperties DEF TypeOK
  <2>2. Len(forward_receiver') <= Capacity
    BY <2>1, TarpitAssumption, LenProperties DEF TypeOK
  <2>. QED BY <1>2, <2>2 DEF TypeOK, Transcript
<1>4. HeldOnce'
  BY <1>1, <1>2 DEF HeldOnce, LastOfSenders
<1>. QED BY <1>3, <1>4 DEF LastOfSenders

\* A connection leaves the channel and gets its task.
LEMMA RecvIInv ==
    ASSUME IInv, Recv
    PROVE  IInv'
<1>. USE DEF IInv, Recv, channel_vars, client_vars
<1>. DEFINE c == Head(forward_receiver)
<1>1. /\ c \in Range(forward_receiver)
      /\ forward_receiver' \in Seq(Conns)
      /\ IsInjective(forward_receiver')
      /\ Range(forward_receiver') = Range(forward_receiver) \ {c}
  BY TailFacts DEF TypeOK, HeldOnce
<1>2. c \in Conns /\ c \in sent
  <2>1. c \in Conns
    BY HeadTailProperties DEF TypeOK
  <2>. QED BY <1>1, <2>1 DEF HeldOnce
<1>3. TypeOK'
  <2>1. Len(forward_receiver') <= Capacity
    <3>1. Len(forward_receiver') = Len(forward_receiver) - 1
      BY HeadTailProperties DEF TypeOK
    <3>. QED BY <3>1, TarpitAssumption, LenProperties DEF TypeOK
  <2>2. task' \in [Conns -> {"none", "ended"} \cup Awaits]
    BY DEF TypeOK, Awaits
  <2>. QED BY <1>1, <2>1, <2>2 DEF TypeOK
<1>4. HeldOnce'
  <2>. HIDE DEF c
  <2>1. \A d \in Conns : task'[d] = IF d = c THEN "writable" ELSE task[d]
    BY DEF TypeOK, c
  <2>2. run' = run /\ run # "returned" /\ sent' = sent
    OBVIOUS
  <2>. QED BY <1>1, <1>2, <2>1, <2>2 DEF HeldOnce
<1>. QED BY <1>3, <1>4 DEF LastOfSenders

\* run and the senders end without a connection being left behind.
LEMMA EndsIInv ==
    ASSUME IInv, DropSenders \/ RecvNone \/ RuntimeStops
    PROVE  IInv'
<1>. USE DEF IInv, DropSenders, RecvNone, RuntimeStops, channel_vars, client_vars
<1>1. UNCHANGED <<forward_receiver, sent, task, line, unread, readiness, peer>>
  OBVIOUS
<1>2. TypeOK'
  <2>1. /\ senders_alive' \in BOOLEAN
        /\ run' \in {"receiving", "returned"}
        /\ runtime' \in {"up", "down"}
    BY DEF TypeOK
  <2>. QED BY <1>1, <2>1 DEF TypeOK
<1>3. HeldOnce'
  <2>1. run' = "returned" => forward_receiver = <<>>
    BY DEF HeldOnce
  <2>. QED BY <1>1, <2>1 DEF HeldOnce
<1>4. LastOfSenders'
  BY DEF LastOfSenders
<1>. QED BY <1>2, <1>3, <1>4

\* A task goes from one await to the next, or ends; it was spawned before.
LEMMA TaskIInv ==
    ASSUME IInv, NEW c \in Conns,
           Writable(c) \/ Write(c) \/ WriteFails(c) \/ Wake(c) \/ TaskEnds(c)
    PROVE  IInv'
<1>. USE DEF IInv, channel_vars, client_vars
<1>1. task[c] # "none" /\ \E next \in {"ended"} \cup Awaits : task' = [task EXCEPT ![c] = next]
  BY DEF Writable, Write, WriteFails, Wake, TaskEnds, Alive, Awaits
<1>2. UNCHANGED <<channel_vars, peer, runtime>>
  BY DEF Writable, Write, WriteFails, Wake, TaskEnds
<1>3. line' \in [Conns -> Transcript]
  <2>1. CASE Wake(c)
    <3>1. line[c] \in Nat /\ (line[c] + 1) % Lines \in Transcript
      BY TarpitAssumption DEF TypeOK, Transcript
    <3>. QED BY <2>1, <3>1 DEF Wake, TypeOK
  <2>2. CASE ~Wake(c)
    BY <2>2 DEF Writable, Write, WriteFails, TaskEnds, TypeOK
  <2>. QED BY <2>1, <2>2
<1>4. unread' \in [Conns -> 0..BufferSize] /\ readiness' \in [Conns -> BOOLEAN]
  <2>1. CASE Write(c)
    <3>. DEFINE fits == unread[c] + LineSize <= BufferSize
    <3>1. (IF fits THEN unread[c] + LineSize ELSE BufferSize) \in 0..BufferSize
      BY TarpitAssumption DEF TypeOK
    <3>2. unread' = [unread EXCEPT ![c] = IF fits THEN unread[c] + LineSize ELSE BufferSize]
      BY <2>1 DEF Write
    <3>3. readiness' = [readiness EXCEPT ![c] = fits] /\ fits \in BOOLEAN
      BY <2>1 DEF Write
    <3>. HIDE DEF fits
    <3>. QED BY <3>1, <3>2, <3>3 DEF TypeOK
  <2>2. CASE ~Write(c)
    BY <2>2 DEF Writable, WriteFails, Wake, TaskEnds, TypeOK
  <2>. QED BY <2>1, <2>2
<1>5. TypeOK'
  BY <1>1, <1>2, <1>3, <1>4 DEF TypeOK
<1>6. HeldOnce'
  <2>1. \A d \in Conns : task'[d] # "none" <=> task[d] # "none"
    BY <1>1 DEF TypeOK, Awaits
  <2>. QED BY <1>2, <2>1 DEF HeldOnce
<1>. QED BY <1>2, <1>5, <1>6 DEF LastOfSenders

\* What clients do touches the socket only.
LEMMA ClientIInv ==
    ASSUME IInv, NEW c \in Conns, ClientReads(c) \/ ClientLeaves(c)
    PROVE  IInv'
<1>. USE DEF IInv, channel_vars
<1>1. UNCHANGED <<channel_vars, task, line, runtime>>
  BY DEF ClientReads, ClientLeaves
<1>2. TypeOK'
  <2>1. CASE ClientReads(c)
    <3>1. PICK n \in 1..unread[c] : unread' = [unread EXCEPT ![c] = unread[c] - n]
      BY <2>1 DEF ClientReads
    <3>2. unread[c] - n \in 0..BufferSize
      BY TarpitAssumption DEF TypeOK
    <3>. QED BY <1>1, <2>1, <3>1, <3>2 DEF ClientReads, TypeOK
  <2>2. CASE ClientLeaves(c)
    <3>1. 0 \in 0..BufferSize
      BY TarpitAssumption
    <3>. QED BY <1>1, <2>2, <3>1 DEF ClientLeaves, TypeOK
  <2>. QED BY <2>1, <2>2
<1>3. HeldOnce'
  BY <1>1 DEF HeldOnce
<1>. QED BY <1>1, <1>2, <1>3 DEF LastOfSenders

\* Every step keeps the invariant.
LEMMA NextIInv == IInv /\ [Next]_vars => IInv'
<1>. SUFFICES ASSUME IInv, [Next]_vars PROVE IInv'
  OBVIOUS
<1>1. CASE UNCHANGED vars
  BY <1>1 DEF vars, IInv, TypeOK, HeldOnce, LastOfSenders
<1>2. CASE Next
  BY <1>2, SendIInv, RecvIInv, EndsIInv, TaskIInv, ClientIInv DEF Next, Step
<1>. QED BY <1>1, <1>2

-----------------------------------------------------------------------------
(* The theorems. *)

\* The inductive invariant holds in every reachable state.
THEOREM Invariance == Spec => []IInv
BY InitIInv, NextIInv, PTL DEF Spec

\* Every variable is of its type: among others, no socket is written beyond
\* its room and no line beyond the transcript.
THEOREM TypeCorrect == Spec => []TypeOK
<1>1. IInv => TypeOK
  BY DEF IInv
<1>. QED BY <1>1, Invariance, PTL

\* SshTarpit::run gives every connection it is sent one task, whatever the
\* order in which connections arrive, senders go and the runtime stops.
THEOREM OneTaskEach == Spec => []HeldOnce
<1>1. IInv => HeldOnce
  BY DEF IInv
<1>. QED BY <1>1, Invariance, PTL

\* However full the sockets are and however the lines fit, the loop of tarpit()
\* does not leave a client that is still there.
THEOREM NobodyLetGo == Spec => NobodyIsLetGo
<1>1. ASSUME IInv, [Next]_vars, NEW c \in Alive, task'[c] = "ended", peer[c] = "connected"
      PROVE  runtime = "down"
  <2>1. c \in Conns /\ task[c] # "ended" /\ task \in [Conns -> {"none", "ended"} \cup Awaits]
    BY <1>1 DEF Alive, Awaits, IInv, TypeOK
  <2>2. ASSUME Recv PROVE FALSE
    BY <1>1, <2>1, <2>2 DEF Recv
  <2>3. ASSUME NEW d \in Conns, Writable(d) \/ Write(d) \/ WriteFails(d) \/ Wake(d)
        PROVE  FALSE
    BY <1>1, <2>1, <2>3 DEF Writable, Write, WriteFails, Wake
  <2>4. ASSUME UNCHANGED task PROVE FALSE
    BY <1>1, <2>1, <2>4
  <2>5. ASSUME NEW d \in Conns, TaskEnds(d) PROVE runtime = "down"
    BY <2>5 DEF TaskEnds
  <2>6. \/ Recv \/ UNCHANGED task
        \/ \E d \in Conns : \/ Writable(d) \/ Write(d) \/ WriteFails(d) \/ Wake(d)
                            \/ TaskEnds(d)
    BY <1>1 DEF Next, Step, vars, DropSenders, RecvNone, RuntimeStops, Send,
                ClientReads, ClientLeaves
  <2>. QED BY <2>2, <2>3, <2>4, <2>5, <2>6
<1>2. IInv /\ [Next]_vars =>
        [\A c \in Alive :
            task'[c] = "ended" /\ peer[c] = "connected" => runtime = "down"]_vars
  BY <1>1
<1>. QED BY <1>2, Invariance, PTL DEF Spec, NobodyIsLetGo
=============================================================================
