------------------------- MODULE LoadBalancer_proofs -------------------------
(***************************************************************************)
(* The load balancer's safety, proved for every number of connections and  *)
(* machines, every capacity and every load order.                          *)
(*                                                                         *)
(* The invariants of module LoadBalancer hold each other up: a task gives  *)
(* up only when it should because its machines are accounted for, they are *)
(* accounted for because a connection has one owner, and it has one owner  *)
(* because a connection that was never forwarded is nowhere.  IInv is      *)
(* their conjunction and is inductive.                                     *)
(***************************************************************************)
EXTENDS LoadBalancer, SequenceFacts, FiniteSetTheorems

(* The machines of a destination. *)

\* The machines tried for a destination are exactly its machines, once each.
LEMMA BackendListFacts ==
    ASSUME NEW d \in Destinations, NEW list \in BackendLists(d)
    PROVE  /\ list \in Seq(Machines)
           /\ IsInjective(list)
           /\ Range(list) = Candidates(d)
<1>1. Candidates(d) \subseteq Machines
  BY DEF Candidates
<1>2. IsFiniteSet(Candidates(d))
  BY <1>1, ConstantsAssumption, FS_Subset
<1>. DEFINE S == Candidates(d)
            n == Cardinality(S)
<1>3. n \in Nat
  BY <1>2, FS_CardinalityType
<1>4. PICK s \in Bijection(1..n, S) : list = Reverse(s)
  BY DEF BackendLists, PickBestIp
<1>5. s \in [1..n -> S]
  BY <1>4 DEF Bijection, Injection
<1>6. s \in Seq(S) /\ Len(s) = n
  BY <1>3, <1>5, SMT
<1>7. \A i, j \in 1..n : s[i] = s[j] => i = j
  BY <1>4, <1>5 DEF Bijection, Injection, IsInjective
<1>8. \A x \in S : \E i \in 1..n : s[i] = x
  BY <1>4 DEF Bijection, Surjection
<1>9. list = [i \in 1..n |-> s[(n - i) + 1]]
  BY <1>4, <1>6 DEF Reverse
<1>. HIDE DEF n, S
<1>10. \A i \in 1..n : (n - i) + 1 \in 1..n
  BY <1>3
<1>11. list \in Seq(S)
  BY <1>3, <1>5, <1>9, <1>10
<1>12. IsInjective(list)
  BY <1>3, <1>7, <1>9, <1>10 DEF IsInjective
<1>13. Range(list) = S
  <2>1. \A i \in 1..n : list[i] \in S
    BY <1>5, <1>9, <1>10
  <2>2. ASSUME NEW x \in S PROVE \E i \in 1..n : list[i] = x
    <3>1. PICK i \in 1..n : s[i] = x
      BY <1>8
    <3>2. (n - ((n - i) + 1)) + 1 = i
      BY <1>3
    <3>. QED BY <1>3, <1>9, <1>10, <3>1, <3>2
  <2>. QED BY <1>9, <2>1, <2>2 DEF Range
<1>. QED BY <1>1, <1>11, <1>12, <1>13, SeqMonotonic DEF S

\* What one turn of the attempt loop does to its own connection, and that it
\* does nothing to the others.
LEMMA TryNextFacts ==
    ASSUME TypeOK, NEW c \in Conns,
           NEW list \in Seq(Machines), IsInjective(list), TryNext(c, list)
    PROVE  /\ target' \in [Conns -> Machines \cup {NoMachine}]
           /\ backend_list' \in [Conns -> Seq(Machines)]
           /\ \A d \in Conns \ {c} : /\ target'[d] = target[d]
                                     /\ backend_list'[d] = backend_list[d]
           /\ list = <<>>  => /\ conn_tracker' = conn_tracker \ {c}
                              /\ target'[c] = NoMachine
           /\ list # <<>>  => /\ conn_tracker' = conn_tracker
                              /\ target'[c] \in Machines
                              /\ IsInjective(backend_list'[c])
                              /\ target'[c] \notin Range(backend_list'[c])
                              /\ Range(list) = Range(backend_list'[c]) \cup {target'[c]}
<1>. USE DEF TypeOK
<1>1. CASE list = <<>>
  <2>1. <<>> \in Seq(Machines)
    BY EmptySeq
  <2>. QED BY <1>1, <2>1 DEF TryNext
<1>2. CASE list # <<>>
  <2>1. /\ target' = [target EXCEPT ![c] = Last(list)]
        /\ backend_list' = [backend_list EXCEPT ![c] = Front(list)]
        /\ conn_tracker' = conn_tracker
    BY <1>2 DEF TryNext
  <2>2. /\ Last(list) \in Machines
        /\ Front(list) \in Seq(Machines)
        /\ IsInjective(Front(list))
        /\ Last(list) \notin Range(Front(list))
        /\ Range(list) = Range(Front(list)) \cup {Last(list)}
    BY <1>2, FrontFacts
  <2>3. target'[c] = Last(list) /\ backend_list'[c] = Front(list)
    BY <2>1
  <2>. QED BY <1>2, <2>1, <2>2, <2>3
<1>. QED BY <1>1, <1>2

\* The empty channel.
LEMMA EmptyFacts == IsInjective(<<>>) /\ Range(<<>>) = {}
BY DEF IsInjective, Range

(* The inductive invariant. *)

\* At the start.
LEMMA InitIInv == Init => IInv
<1>. SUFFICES ASSUME Init PROVE IInv
  OBVIOUS
<1>. USE EmptyFacts, EmptySeq DEF Init
<1>1. TypeOK
  BY DEF TypeOK
<1>2. OneOwner
  BY DEF OneOwner
<1>3. AttemptsAccounted
  BY DEF AttemptsAccounted
<1>4. NoLeakedSocket /\ ServedByAllowedMachine
  BY DEF NoLeakedSocket, ServedByAllowedMachine
<1>5. ReceiverOutlivesSenders /\ FreshConnections
  BY DEF ReceiverOutlivesSenders, FreshConnections
<1>. QED BY <1>1, <1>2, <1>3, <1>4, <1>5 DEF IInv

\* A connection is sent to the channel.
LEMMA SendIInv ==
    ASSUME IInv, NEW c \in Conns, NEW d \in Destinations, Send(c, d)
    PROVE  IInv'
<1>. USE DEF IInv, Send
<1>1. c \notin Range(queue) \cup conn_tracker
  BY DEF FreshConnections
<1>2. /\ queue' \in Seq(Conns)
      /\ IsInjective(queue')
      /\ Range(queue') = Range(queue) \cup {c}
  BY <1>1, AppendFacts DEF TypeOK, OneOwner
<1>3. /\ destination' \in [Conns -> Destinations \cup {NoDest}]
      /\ destination'[c] = d
      /\ \A x \in Conns \ {c} : destination'[x] = destination[x]
  BY DEF TypeOK
<1>4. TypeOK'
  BY <1>2, <1>3 DEF TypeOK
<1>5. OneOwner'
  BY <1>1, <1>2 DEF OneOwner, FreshConnections
<1>6. AttemptsAccounted'
  BY <1>1, <1>3 DEF AttemptsAccounted
<1>7. NoLeakedSocket'
  BY DEF NoLeakedSocket
<1>8. ServedByAllowedMachine'
  BY <1>3 DEF ServedByAllowedMachine, FreshConnections, TypeOK
<1>9. ReceiverOutlivesSenders'
  BY DEF ReceiverOutlivesSenders
<1>10. FreshConnections'
  BY <1>2, <1>3, NoDestAssumption DEF FreshConnections, AttemptsAccounted
<1>. QED BY <1>4, <1>5, <1>6, <1>7, <1>8, <1>9, <1>10

\* It is received.
LEMMA RecvIInv ==
    ASSUME IInv, Recv
    PROVE  IInv'
<1>. USE DEF IInv, Recv
<1>1. /\ Head(queue) \in Range(queue)
      /\ queue' \in Seq(Conns)
      /\ IsInjective(queue')
      /\ Range(queue') = Range(queue) \ {Head(queue)}
  BY TailFacts DEF TypeOK, OneOwner
<1>2. Head(queue) \in Conns
  BY HeadTailProperties DEF TypeOK
<1>3. TypeOK'
  BY <1>1, <1>2 DEF TypeOK
<1>4. OneOwner'
  BY <1>1 DEF OneOwner
<1>5. AttemptsAccounted'
  BY DEF AttemptsAccounted
<1>6. NoLeakedSocket' /\ ServedByAllowedMachine'
  BY DEF NoLeakedSocket, ServedByAllowedMachine
<1>7. ReceiverOutlivesSenders'
  BY DEF ReceiverOutlivesSenders
<1>8. FreshConnections'
  <2>. SUFFICES ASSUME NEW d \in Conns
                PROVE  /\ destination[d] = NoDest =>
                            /\ d \notin Range(queue') \cup conn_tracker'
                            /\ tried[d] = {}
                            /\ \A m \in Machines : d \notin task_tracker[m] \cup sockets[m]
                       /\ d \in Range(queue') \cup conn_tracker' /\ target[d] = NoMachine =>
                            tried[d] = {}
    BY DEF FreshConnections
  <2>1. d \in Range(queue') \cup conn_tracker' <=> d \in Range(queue) \cup conn_tracker
    BY <1>1
  <2>. QED BY <2>1 DEF FreshConnections
<1>. QED BY <1>3, <1>4, <1>5, <1>6, <1>7, <1>8

\* The list a task starts with: its destination's machines, once each.
LEMMA FirstList ==
    ASSUME IInv, NEW c \in Conns, c \in conn_tracker, target[c] = NoMachine,
           NEW list \in BackendLists(destination[c])
    PROVE  /\ list \in Seq(Machines)
           /\ IsInjective(list)
           /\ Range(list) = Candidates(destination[c])
           /\ tried[c] = {}
<1>1. destination[c] \in Destinations
  BY DEF IInv, TypeOK, FreshConnections
<1>2. tried[c] = {}
  BY DEF IInv, FreshConnections
<1>. QED BY <1>1, <1>2, BackendListFacts

\* The list a task goes on with when its attempt has failed.
LEMMA NextList ==
    ASSUME IInv, NEW c \in Conns, target[c] \in Machines
    PROVE  /\ c \in conn_tracker
           /\ backend_list[c] \in Seq(Machines)
           /\ IsInjective(backend_list[c])
           /\ target[c] \notin tried[c]
           /\ Range(backend_list[c]) \cap (tried[c] \cup {target[c]}) = {}
           /\ Range(backend_list[c]) \cup tried[c] \cup {target[c]}
                = Candidates(destination[c])
<1>1. target[c] # NoMachine
  BY ConstantsAssumption
<1>. QED BY <1>1 DEF IInv, TypeOK, AttemptsAccounted

\* A connection in its task is in no copy task, nor in the channel.
LEMMA TaskOwns ==
    ASSUME IInv, NEW c \in conn_tracker
    PROVE  c \notin Range(queue) /\ \A m \in Machines : c \notin task_tracker[m]
BY DEF IInv, OneOwner

\* Every turn of the attempt loop preserves the invariant: the list it starts
\* with and the machines that have failed by then make up the candidates, and
\* the connection's sockets are closed.
LEMMA TurnIInv ==
    ASSUME IInv, NEW c \in conn_tracker, NEW list \in Seq(Machines),
           IsInjective(list), TryNext(c, list),
           UNCHANGED <<channel_vars, task_tracker>>,
           tried' \in [Conns -> SUBSET Machines],
           \A d \in Conns \ {c} : tried'[d] = tried[d],
           tried'[c] \cap Range(list) = {},
           tried'[c] \cup Range(list) = Candidates(destination[c]),
           sockets' \in [Machines -> SUBSET Conns],
           \A m \in Machines : sockets'[m] = sockets[m] \/ sockets'[m] = sockets[m] \ {c},
           \A m \in Machines : c \notin sockets'[m]
    PROVE  IInv'
<1>. USE DEF IInv, channel_vars
<1>1. c \in Conns
  BY DEF TypeOK
<1>2. c \notin Range(queue) /\ \A m \in Machines : c \notin task_tracker[m]
  BY TaskOwns
<1>3. /\ target' \in [Conns -> Machines \cup {NoMachine}]
      /\ backend_list' \in [Conns -> Seq(Machines)]
      /\ \A d \in Conns \ {c} : /\ target'[d] = target[d]
                                /\ backend_list'[d] = backend_list[d]
      /\ list = <<>>  => conn_tracker' = conn_tracker \ {c} /\ target'[c] = NoMachine
      /\ list # <<>>  => /\ conn_tracker' = conn_tracker
                         /\ target'[c] \in Machines
                         /\ IsInjective(backend_list'[c])
                         /\ target'[c] \notin Range(backend_list'[c])
                         /\ Range(list) = Range(backend_list'[c]) \cup {target'[c]}
  BY <1>1, TryNextFacts
<1>4. conn_tracker' \subseteq conn_tracker
  BY <1>3
<1>5. \A d \in conn_tracker : d # c => d \in conn_tracker'
  BY <1>3
<1>6. TypeOK'
  BY <1>3, <1>4 DEF TypeOK
<1>7. OneOwner'
  BY <1>4 DEF OneOwner
<1>8. AttemptsAccounted'
  <2>. SUFFICES ASSUME NEW d \in Conns, target'[d] # NoMachine
                PROVE  /\ d \in conn_tracker'
                       /\ IsInjective(backend_list'[d])
                       /\ target'[d] \notin tried'[d] \cup Range(backend_list'[d])
                       /\ tried'[d] \cap Range(backend_list'[d]) = {}
                       /\ tried'[d] \cup {target'[d]} \cup Range(backend_list'[d])
                            = Candidates(destination'[d])
    BY DEF AttemptsAccounted
  <2>1. CASE d = c
    <3>1. list # <<>>
      BY <1>3, <2>1
    <3>. QED BY <1>3, <2>1, <3>1
  <2>2. CASE d # c
    BY <1>3, <1>5, <2>2 DEF AttemptsAccounted
  <2>. QED BY <2>1, <2>2
<1>9. NoLeakedSocket'
  <2>. SUFFICES ASSUME NEW m \in Machines, NEW d \in sockets'[m]
                PROVE  d \in task_tracker[m] \/ target'[d] = m
    BY DEF NoLeakedSocket
  <2>1. d # c /\ d \in sockets[m] /\ d \in Conns
    BY DEF TypeOK
  <2>. QED BY <1>3, <2>1 DEF NoLeakedSocket
<1>10. ServedByAllowedMachine'
  <2>. SUFFICES ASSUME NEW m \in Machines, NEW d \in task_tracker[m]
                PROVE  /\ Allows(destination[d], m)
                       /\ m \notin tried'[d]
                       /\ d \in sockets'[m]
    BY DEF ServedByAllowedMachine
  <2>1. d # c /\ d \in Conns
    BY <1>2 DEF TypeOK
  <2>. QED BY <2>1 DEF ServedByAllowedMachine
<1>11. ReceiverOutlivesSenders'
  BY DEF ReceiverOutlivesSenders
<1>12. FreshConnections'
  <2>. SUFFICES ASSUME NEW d \in Conns
                PROVE  /\ destination[d] = NoDest =>
                            /\ d \notin Range(queue) \cup conn_tracker'
                            /\ tried'[d] = {}
                            /\ \A m \in Machines : d \notin task_tracker[m] \cup sockets'[m]
                       /\ d \in Range(queue) \cup conn_tracker' /\ target'[d] = NoMachine =>
                            tried'[d] = {}
    BY DEF FreshConnections
  <2>1. CASE d = c
    <3>1. destination[c] # NoDest
      BY <1>1 DEF FreshConnections
    <3>2. d \in Range(queue) \cup conn_tracker' => target'[c] # NoMachine
      BY <1>2, <1>3, <2>1, ConstantsAssumption
    <3>. QED BY <2>1, <3>1, <3>2
  <2>2. CASE d # c
    <3>1. /\ tried'[d] = tried[d]
          /\ target'[d] = target[d]
          /\ d \in conn_tracker' => d \in conn_tracker
          /\ \A m \in Machines : d \in sockets'[m] => d \in sockets[m]
      BY <1>3, <1>4, <2>2
    <3>. QED BY <3>1 DEF FreshConnections
  <2>. QED BY <2>1, <2>2
<1>. QED BY <1>6, <1>7, <1>8, <1>9, <1>10, <1>11, <1>12

\* Its task begins.
LEMMA HandleConnectionIInv ==
    ASSUME IInv, NEW c \in Conns, HandleConnection(c)
    PROVE  IInv'
<1>. USE DEF IInv, HandleConnection
<1>1. PICK list \in BackendLists(destination[c]) : TryNext(c, list)
  OBVIOUS
<1>2. /\ list \in Seq(Machines)
      /\ IsInjective(list)
      /\ Range(list) = Candidates(destination[c])
      /\ tried[c] = {}
  BY FirstList
<1>3. \A m \in Machines : c \notin sockets[m]
  BY TaskOwns, ConstantsAssumption DEF NoLeakedSocket
<1>. QED BY <1>1, <1>2, <1>3, TurnIInv DEF TypeOK, channel_vars

\* A machine has taken it.
LEMMA EstablishedIInv ==
    ASSUME IInv, NEW c \in Conns, Established(c)
    PROVE  IInv'
<1>. USE DEF IInv, Established, channel_vars
<1>1. c \in conn_tracker
  BY NextList
<1>2. /\ sockets' \in [Machines -> SUBSET Conns]
      /\ sockets'[target[c]] = sockets[target[c]] \cup {c}
      /\ \A m \in Machines \ {target[c]} : sockets'[m] = sockets[m]
  BY DEF TypeOK
<1>3. TypeOK'
  BY <1>2 DEF TypeOK
<1>4. OneOwner' /\ AttemptsAccounted' /\ ReceiverOutlivesSenders'
  BY DEF OneOwner, AttemptsAccounted, ReceiverOutlivesSenders
<1>5. NoLeakedSocket' /\ ServedByAllowedMachine'
  BY <1>2 DEF NoLeakedSocket, ServedByAllowedMachine
<1>6. FreshConnections'
  BY <1>1, <1>2 DEF FreshConnections
<1>. QED BY <1>3, <1>4, <1>5, <1>6

\* The task learns that.
LEMMA ConnectSucceedsIInv ==
    ASSUME IInv, NEW c \in Conns, ConnectSucceeds(c)
    PROVE  IInv'
<1>. USE DEF IInv, ConnectSucceeds, channel_vars
<1>1. /\ c \in conn_tracker
      /\ target[c] \notin tried[c]
      /\ target[c] \in Candidates(destination[c])
  BY NextList
<1>2. c \notin Range(queue) /\ \A m \in Machines : c \notin task_tracker[m]
  BY <1>1, TaskOwns
<1>3. /\ task_tracker' \in [Machines -> SUBSET Conns]
      /\ task_tracker'[target[c]] = task_tracker[target[c]] \cup {c}
      /\ \A m \in Machines \ {target[c]} : task_tracker'[m] = task_tracker[m]
  BY DEF TypeOK
<1>4. /\ target' \in [Conns -> Machines \cup {NoMachine}]
      /\ target'[c] = NoMachine
      /\ \A d \in Conns \ {c} : target'[d] = target[d] /\ backend_list'[d] = backend_list[d]
      /\ backend_list' \in [Conns -> Seq(Machines)]
  BY EmptySeq DEF TypeOK
<1>5. TypeOK'
  BY <1>3, <1>4 DEF TypeOK
<1>6. OneOwner'
  BY <1>2, <1>3 DEF OneOwner
<1>7. AttemptsAccounted'
  BY <1>4 DEF AttemptsAccounted
<1>8. NoLeakedSocket'
  BY <1>3, <1>4 DEF NoLeakedSocket, TypeOK
<1>9. ServedByAllowedMachine'
  <2>1. Allows(destination[c], target[c])
    BY <1>1 DEF Allows, Candidates
  <2>. QED BY <1>1, <1>3, <2>1 DEF ServedByAllowedMachine
<1>10. ReceiverOutlivesSenders'
  BY DEF ReceiverOutlivesSenders
<1>11. FreshConnections'
  BY <1>1, <1>2, <1>3, <1>4 DEF FreshConnections
<1>. QED BY <1>5, <1>6, <1>7, <1>8, <1>9, <1>10, <1>11

\* A failed attempt, whichever way: the machine joins the failed ones, and no
\* socket of the connection is open any more.
LEMMA RefusedIInv ==
    ASSUME IInv, NEW c \in Conns, Refused(c)
    PROVE  IInv'
<1>. USE DEF IInv, Refused
<1>1. /\ c \in conn_tracker
      /\ backend_list[c] \in Seq(Machines)
      /\ IsInjective(backend_list[c])
      /\ Range(backend_list[c]) \cap (tried[c] \cup {target[c]}) = {}
      /\ Range(backend_list[c]) \cup tried[c] \cup {target[c]}
           = Candidates(destination[c])
  BY NextList
<1>2. /\ tried' \in [Conns -> SUBSET Machines]
      /\ tried'[c] = tried[c] \cup {target[c]}
      /\ \A d \in Conns \ {c} : tried'[d] = tried[d]
  BY DEF TypeOK
<1>3. \A m \in Machines : c \notin sockets[m]
  BY <1>1, TaskOwns DEF NoLeakedSocket
<1>4. /\ tried'[c] \cap Range(backend_list[c]) = {}
      /\ tried'[c] \cup Range(backend_list[c]) = Candidates(destination[c])
  BY <1>1, <1>2
<1>5. UNCHANGED <<channel_vars, task_tracker>> /\ sockets' = sockets
  OBVIOUS
<1>6. sockets' \in [Machines -> SUBSET Conns]
  BY <1>5 DEF TypeOK
<1>. HIDE DEF IInv, Refused
<1>7. TryNext(c, backend_list[c])
  BY DEF Refused
<1>. QED BY <1>1, <1>2, <1>3, <1>4, <1>5, <1>6, <1>7, TurnIInv

\* An attempt runs into its timer.
LEMMA TimedOutIInv ==
    ASSUME IInv, NEW c \in Conns, TimedOut(c)
    PROVE  IInv'
<1>. USE DEF IInv, TimedOut
<1>1. /\ c \in conn_tracker
      /\ backend_list[c] \in Seq(Machines)
      /\ IsInjective(backend_list[c])
      /\ Range(backend_list[c]) \cap (tried[c] \cup {target[c]}) = {}
      /\ Range(backend_list[c]) \cup tried[c] \cup {target[c]}
           = Candidates(destination[c])
  BY NextList
<1>2. /\ tried' \in [Conns -> SUBSET Machines]
      /\ tried'[c] = tried[c] \cup {target[c]}
      /\ \A d \in Conns \ {c} : tried'[d] = tried[d]
  BY DEF TypeOK
<1>3. /\ sockets' \in [Machines -> SUBSET Conns]
      /\ sockets'[target[c]] = sockets[target[c]] \ {c}
      /\ \A m \in Machines \ {target[c]} : sockets'[m] = sockets[m]
  BY DEF TypeOK
<1>4. \A m \in Machines : c \notin sockets'[m]
  BY <1>1, <1>3, TaskOwns DEF NoLeakedSocket
<1>5. /\ tried'[c] \cap Range(backend_list[c]) = {}
      /\ tried'[c] \cup Range(backend_list[c]) = Candidates(destination[c])
  BY <1>1, <1>2
<1>6. \A m \in Machines : sockets'[m] = sockets[m] \/ sockets'[m] = sockets[m] \ {c}
  BY <1>3
<1>7. UNCHANGED <<channel_vars, task_tracker>> /\ TryNext(c, backend_list[c])
  OBVIOUS
<1>. HIDE DEF IInv, TimedOut
<1>. QED BY <1>1, <1>2, <1>3, <1>4, <1>5, <1>6, <1>7, TurnIInv

\* A copy ends.
LEMMA CopyEndsIInv ==
    ASSUME IInv, NEW c \in Conns, NEW m \in Machines, CopyEnds(c, m)
    PROVE  IInv'
<1>. USE DEF IInv, CopyEnds, channel_vars
<1>1. /\ task_tracker' \in [Machines -> SUBSET Conns]
      /\ task_tracker'[m] = task_tracker[m] \ {c}
      /\ sockets' \in [Machines -> SUBSET Conns]
      /\ sockets'[m] = sockets[m] \ {c}
      /\ \A n \in Machines \ {m} : /\ task_tracker'[n] = task_tracker[n]
                                   /\ sockets'[n] = sockets[n]
  BY DEF TypeOK
<1>2. \A n \in Machines \ {m} : c \notin task_tracker[n]
  BY DEF OneOwner
<1>3. TypeOK'
  BY <1>1 DEF TypeOK
<1>4. OneOwner'
  BY <1>1 DEF OneOwner
<1>5. AttemptsAccounted' /\ ReceiverOutlivesSenders'
  BY DEF AttemptsAccounted, ReceiverOutlivesSenders
<1>6. NoLeakedSocket'
  BY <1>1, <1>2 DEF NoLeakedSocket
<1>7. ServedByAllowedMachine'
  BY <1>1, <1>2 DEF ServedByAllowedMachine
<1>8. FreshConnections'
  BY <1>1 DEF FreshConnections
<1>. QED BY <1>3, <1>4, <1>5, <1>6, <1>7, <1>8

\* The last sender is dropped.
LEMMA DropSendersIInv ==
    ASSUME IInv, DropSenders
    PROVE  IInv'
BY DEF IInv, DropSenders, TypeOK, OneOwner, AttemptsAccounted, NoLeakedSocket,
       ServedByAllowedMachine, ReceiverOutlivesSenders, FreshConnections

\* The load balancer sees that.
LEMMA RecvNoneIInv ==
    ASSUME IInv, RecvNone
    PROVE  IInv'
BY DEF IInv, RecvNone, TypeOK, OneOwner, AttemptsAccounted, NoLeakedSocket,
       ServedByAllowedMachine, ReceiverOutlivesSenders, FreshConnections

\* Nothing changes.
LEMMA StutterIInv ==
    ASSUME IInv, UNCHANGED vars
    PROVE  IInv'
BY DEF IInv, vars, TypeOK, OneOwner, AttemptsAccounted, NoLeakedSocket,
       ServedByAllowedMachine, ReceiverOutlivesSenders, FreshConnections

\* Each step of the load balancer, of the network and of the channel's users
\* preserves the invariant.
LEMMA NextIInv == IInv /\ [Next]_vars => IInv'
<1>. SUFFICES ASSUME IInv, [Next]_vars PROVE IInv'
  OBVIOUS
<1>1. CASE Recv
  BY <1>1, RecvIInv
<1>2. ASSUME NEW c \in Conns, HandleConnection(c) PROVE IInv'
  BY <1>2, HandleConnectionIInv
<1>3. ASSUME NEW c \in Conns, Established(c) PROVE IInv'
  BY <1>3, EstablishedIInv
<1>4. ASSUME NEW c \in Conns, AttemptEnds(c) PROVE IInv'
  BY <1>4, ConnectSucceedsIInv, RefusedIInv, TimedOutIInv DEF AttemptEnds
<1>5. ASSUME NEW c \in Conns, NEW m \in Machines, CopyEnds(c, m) PROVE IInv'
  BY <1>5, CopyEndsIInv
<1>6. CASE DropSenders
  BY <1>6, DropSendersIInv
<1>7. CASE RecvNone
  BY <1>7, RecvNoneIInv
<1>8. ASSUME NEW c \in Conns, NEW d \in Destinations, Send(c, d) PROVE IInv'
  BY <1>8, SendIInv
<1>9. CASE UNCHANGED vars
  BY <1>9, StutterIInv
<1>. QED BY <1>1, <1>2, <1>3, <1>4, <1>5, <1>6, <1>7, <1>8, <1>9 DEF Next, Internal

-----------------------------------------------------------------------------
(* The theorems. *)

\* The inductive invariant holds in every reachable state.
THEOREM Invariance == Spec => []IInv
BY InitIInv, NextIInv, PTL DEF Spec

\* The state of run, of the tasks and of the machines is always of its type.
THEOREM TypeCorrect == Spec => []TypeOK
<1>1. IInv => TypeOK
  BY DEF IInv
<1>. QED BY <1>1, Invariance, PTL

\* A client's stream is never in two places: not twice in the channel, not in
\* the channel and a task, and not in the copies of two machines.
THEOREM StreamsHaveOneOwner == Spec => []OneOwner
<1>1. IInv => OneOwner
  BY DEF IInv
<1>. QED BY <1>1, Invariance, PTL

\* attempt_connections neither forgets a machine nor tries one twice.
THEOREM AttemptsAreAccounted == Spec => []AttemptsAccounted
<1>1. IInv => AttemptsAccounted
  BY DEF IInv
<1>. QED BY <1>1, Invariance, PTL

\* A machine's open connections are those it serves and those being tried,
\* also when the timer of a connect fires as the machine answers.
THEOREM SocketsAreOwned == Spec => []NoLeakedSocket
<1>1. IInv => NoLeakedSocket
  BY DEF IInv
<1>. QED BY <1>1, Invariance, PTL

\* A connection is only ever copied to a machine its destination allows.
THEOREM ServedWhereAllowed == Spec => []ServedByAllowedMachine
<1>1. IInv => ServedByAllowedMachine
  BY DEF IInv
<1>. QED BY <1>1, Invariance, PTL

\* No forwarded connection is lost in the channel by the end of run.
THEOREM ReceiverIsLast == Spec => []ReceiverOutlivesSenders
<1>1. IInv => ReceiverOutlivesSenders
  BY DEF IInv
<1>. QED BY <1>1, Invariance, PTL

\* Nothing touches a connection before it is forwarded, and nothing tries it
\* before its task does.
THEOREM FreshOnesUntouched == Spec => []FreshConnections
<1>1. IInv => FreshConnections
  BY DEF IInv
<1>. QED BY <1>1, Invariance, PTL

\* A task drops its client only when all machines of the destination have
\* failed, for every set of machines and every order they are tried in.
THEOREM NoEarlyGivingUp == Spec => GiveUpOnlyWhenExhausted
<1>. DEFINE Justified(c) == \/ \E m \in Machines : c \in task_tracker'[m]
                            \/ tried'[c] = Candidates(destination[c])
<1>1. ASSUME IInv, [Next]_vars, NEW c \in conn_tracker \ conn_tracker'
      PROVE  Justified(c)
  <2>. USE DEF IInv
  <2>1. c \in Conns
    BY <1>1 DEF TypeOK
  <2>2. ASSUME HandleConnection(c) PROVE Justified(c)
    <3>1. PICK list \in BackendLists(destination[c]) : TryNext(c, list)
      BY <2>2 DEF HandleConnection
    <3>2. Range(list) = Candidates(destination[c]) /\ tried[c] = {}
      BY <1>1, <2>1, <2>2, FirstList DEF HandleConnection
    <3>3. list = <<>>
      BY <1>1, <3>1 DEF TryNext
    <3>4. tried' = tried
      BY <2>2 DEF HandleConnection
    <3>. QED BY <3>2, <3>3, <3>4, EmptyFacts
  <2>3. ASSUME Refused(c) \/ TimedOut(c) PROVE Justified(c)
    <3>1. target[c] \in Machines /\ TryNext(c, backend_list[c])
      BY <2>3 DEF Refused, TimedOut
    <3>2. backend_list[c] = <<>>
      BY <1>1, <3>1 DEF TryNext
    <3>3. tried[c] \cup {target[c]} = Candidates(destination[c])
      BY <1>1, <2>1, <3>1, <3>2, NextList, EmptyFacts
    <3>4. tried'[c] = tried[c] \cup {target[c]}
      BY <1>1, <2>1, <2>3 DEF Refused, TimedOut, TypeOK
    <3>. QED BY <3>3, <3>4
  <2>4. ASSUME ConnectSucceeds(c) PROVE Justified(c)
    BY <1>1, <2>4 DEF ConnectSucceeds, TypeOK
  <2>5. HandleConnection(c) \/ AttemptEnds(c)
    <3>1. ASSUME NEW d \in Conns, d # c, HandleConnection(d) \/ AttemptEnds(d)
          PROVE  FALSE
      BY <3>1 DEF HandleConnection, AttemptEnds, ConnectSucceeds, Refused, TimedOut, TryNext
    <3>2. ~Recv /\ ~DropSenders /\ ~RecvNone /\ ~UNCHANGED vars
      BY DEF Recv, DropSenders, RecvNone, vars
    <3>3. \A d \in Conns : ~Established(d)
                           /\ (\A m \in Machines : ~CopyEnds(d, m))
                           /\ (\A x \in Destinations : ~Send(d, x))
      BY DEF Established, CopyEnds, Send
    <3>. QED BY <1>1, <3>1, <3>2, <3>3 DEF Next, Internal
  <2>. QED BY <2>2, <2>3, <2>4, <2>5 DEF AttemptEnds
<1>2. IInv /\ [Next]_vars => [\A c \in conn_tracker \ conn_tracker' :
          \/ \E m \in Machines : c \in task_tracker'[m]
          \/ tried'[c] = Candidates(destination[c])]_vars
  BY <1>1
<1>. QED BY <1>2, Invariance, PTL DEF Spec, GiveUpOnlyWhenExhausted

-----------------------------------------------------------------------------
(* Progress without fairness: every turn counts.                           *)

\* A connection that waits has one place in the channel, which is not changed
\* by those that come later and comes nearer when one is received.
LEMMA PositionFacts ==
    ASSUME NEW S, NEW s \in Seq(S), IsInjective(s), NEW c \in Range(s)
    PROVE  /\ Position(s, c) \in 1..Len(s)
           /\ \A x \in S : Position(Append(s, x), c) = Position(s, c) \/ c = x
           /\ c \in Range(Tail(s)) => Position(Tail(s), c) = Position(s, c) - 1
<1>. DEFINE i == Position(s, c)
<1>1. s # <<>> /\ Len(s) \in Nat /\ DOMAIN s = 1..Len(s)
  BY LenProperties DEF Range
<1>2. i \in 1..Len(s) /\ s[i] = c
  BY <1>1 DEF Range, Position
<1>3. \A j \in 1..Len(s) : s[j] = c => j = i
  BY <1>1, <1>2 DEF IsInjective
<1>. HIDE DEF i
<1>4. ASSUME NEW x \in S, c # x PROVE Position(Append(s, x), c) = i
  <2>. DEFINE t == Append(s, x)
  <2>1. /\ DOMAIN t = 1..(Len(s) + 1) /\ t[Len(s) + 1] = x
        /\ \A j \in 1..Len(s) : t[j] = s[j]
    BY <1>1, AppendProperties, LenProperties
  <2>. HIDE DEF t
  <2>2. i \in DOMAIN t /\ t[i] = c
    BY <1>1, <1>2, <2>1
  <2>3. \A j \in DOMAIN t : t[j] = c => j = i
    BY <1>1, <1>3, <1>4, <2>1
  <2>. QED BY <2>2, <2>3 DEF Position, t
<1>5. ASSUME c \in Range(Tail(s)) PROVE Position(Tail(s), c) = i - 1
  <2>. DEFINE t == Tail(s)
  <2>1. /\ DOMAIN t = 1..(Len(s) - 1)
        /\ \A j \in 1..(Len(s) - 1) : t[j] = s[j + 1] /\ j + 1 \in 1..Len(s)
    BY <1>1, HeadTailProperties, LenProperties
  <2>2. PICK k \in 1..(Len(s) - 1) : t[k] = c
    BY <1>5, <2>1 DEF Range
  <2>. HIDE DEF t
  <2>3. k = i - 1
    BY <1>1, <1>3, <2>1, <2>2
  <2>4. \A j \in DOMAIN t : t[j] = c => j = k
    BY <1>1, <1>3, <2>1, <2>3
  <2>. QED BY <2>1, <2>2, <2>3, <2>4 DEF Position, t
<1>. QED BY <1>2, <1>4, <1>5 DEF i

\* No list of machines is longer than the machine table.
LEMMA BackendListLength ==
    ASSUME NEW d \in Destinations, NEW list \in BackendLists(d)
    PROVE  Cardinality(Machines) \in Nat /\ Len(list) <= Cardinality(Machines)
<1>. DEFINE S == Candidates(d)
            n == Cardinality(S)
<1>1. S \subseteq Machines
  BY DEF Candidates
<1>2. IsFiniteSet(S) /\ n \in Nat /\ Cardinality(Machines) \in Nat /\ n <= Cardinality(Machines)
  BY <1>1, ConstantsAssumption, FS_Subset, FS_CardinalityType
<1>3. PICK s \in Bijection(1..n, S) : list = Reverse(s)
  BY DEF BackendLists, PickBestIp
<1>4. s \in [1..n -> S]
  BY <1>3 DEF Bijection, Injection
<1>. HIDE DEF n, S
<1>5. Len(s) = n
  BY <1>2, <1>4
<1>6. list = [i \in 1..n |-> s[(n - i) + 1]]
  BY <1>3, <1>5 DEF Reverse
<1>. QED BY <1>2, <1>6

\* A turn of the attempt loop uses up one machine of its list, or ends the task.
LEMMA TurnCounts ==
    ASSUME TypeOK, NEW c \in conn_tracker, c \notin Range(queue), queue' = queue,
           NEW list \in Seq(Machines), TryNext(c, list)
    PROVE  Remaining(c)' = Len(list)
<1>1. c \in Conns /\ c \notin Range(queue')
  BY DEF TypeOK
<1>2. CASE list = <<>>
  <2>1. c \notin conn_tracker'
    BY <1>2 DEF TryNext
  <2>. QED BY <1>1, <1>2, <2>1 DEF Remaining
<1>3. CASE list # <<>>
  <2>1. c \in conn_tracker' /\ target'[c] = Last(list) /\ backend_list'[c] = Front(list)
    BY <1>1, <1>3 DEF TryNext, TypeOK
  <2>2. Last(list) \in Machines /\ Len(Front(list)) = Len(list) - 1 /\ Len(list) \in Nat
    BY <1>3, FrontLast, LenProperties
  <2>3. target'[c] # NoMachine
    BY <2>1, <2>2, ConstantsAssumption
  <2>4. Remaining(c)' = Len(Front(list)) + 1
    BY <1>1, <2>1, <2>3 DEF Remaining
  <2>. QED BY <2>2, <2>4
<1>. QED BY <1>2, <1>3

\* What is still ahead of a connection changes only with its place in the
\* channel, its task, its machine and its list.
LEMMA RemainingSame ==
    ASSUME NEW c, queue' = queue, c \in conn_tracker' <=> c \in conn_tracker,
           target'[c] = target[c], backend_list'[c] = backend_list[c]
    PROVE  Remaining(c)' = Remaining(c)
BY DEF Remaining

RemainingTypeOK == \A c \in Conns : Remaining(c) \in Nat

\* What is ahead of a connection is a number.
LEMMA RemainingType == IInv => RemainingTypeOK
<1>. SUFFICES ASSUME IInv, NEW c \in Conns PROVE Remaining(c) \in Nat
  BY DEF RemainingTypeOK
<1>. USE DEF IInv, OneOwner
<1>1. Cardinality(Machines) \in Nat
  BY ConstantsAssumption, FS_CardinalityType
<1>2. CASE c \in Range(queue)
  <2>1. Position(queue, c) \in 1..Len(queue) /\ Len(queue) \in Nat
    BY <1>2, PositionFacts, LenProperties DEF TypeOK
  <2>. QED BY <1>1, <1>2, <2>1 DEF Remaining
<1>3. CASE c \notin Range(queue)
  <2>1. Len(backend_list[c]) \in Nat
    BY LenProperties DEF TypeOK
  <2>. QED BY <1>1, <1>3, <2>1 DEF Remaining
<1>. QED BY <1>2, <1>3

\* One task's turn is progress for its connection and nothing to the others.
LEMMA TurnProgress ==
    ASSUME IInv, NEW d \in Conns, HandleConnection(d) \/ AttemptEnds(d), NEW c \in Conns
    PROVE  /\ c # d => Remaining(c)' = Remaining(c)
           /\ c = d => Remaining(c)' < Remaining(c)
<1>. USE DEF AttemptEnds, channel_vars
<1>1. queue' = queue /\ d \in conn_tracker /\ d \notin Range(queue) /\ TypeOK
  <2>1. d \in conn_tracker
    BY NextList DEF HandleConnection, ConnectSucceeds, Refused, TimedOut
  <2>. QED BY <2>1, TaskOwns DEF HandleConnection, ConnectSucceeds, Refused, TimedOut, IInv
<1>2. ASSUME c # d PROVE Remaining(c)' = Remaining(c)
  <2>1. /\ c \in conn_tracker' <=> c \in conn_tracker
        /\ target'[c] = target[c] /\ backend_list'[c] = backend_list[c]
    BY <1>1, <1>2 DEF HandleConnection, ConnectSucceeds, Refused, TimedOut, TryNext, TypeOK
  <2>. QED BY <1>1, <2>1, RemainingSame
<1>3. ASSUME HandleConnection(d) PROVE Remaining(d)' < Remaining(d)
  <2>1. PICK list \in BackendLists(destination[d]) : TryNext(d, list)
    BY <1>3 DEF HandleConnection
  <2>2. target[d] = NoMachine /\ destination[d] \in Destinations
    BY <1>1, <1>3 DEF HandleConnection, IInv, TypeOK, FreshConnections
  <2>3. list \in Seq(Machines)
    BY <1>1, <2>2, FirstList
  <2>4. Len(list) <= Cardinality(Machines) /\ Cardinality(Machines) \in Nat /\ Len(list) \in Nat
    BY <2>2, <2>3, BackendListLength, LenProperties
  <2>5. Remaining(d)' = Len(list)
    BY <1>1, <2>1, <2>3, TurnCounts
  <2>6. Remaining(d) = Cardinality(Machines) + 1
    BY <1>1, <2>2 DEF Remaining
  <2>. QED BY <2>4, <2>5, <2>6
<1>4. ASSUME AttemptEnds(d) PROVE Remaining(d)' < Remaining(d)
  <2>1. target[d] \in Machines
    BY <1>4 DEF ConnectSucceeds, Refused, TimedOut
  <2>2. Remaining(d) = Len(backend_list[d]) + 1
    BY <1>1, <2>1, ConstantsAssumption DEF Remaining
  <2>3. backend_list[d] \in Seq(Machines) /\ Len(backend_list[d]) \in Nat
    BY <1>1, LenProperties DEF TypeOK
  <2>4. CASE ConnectSucceeds(d)
    <3>1. d \notin conn_tracker' /\ d \notin Range(queue')
      BY <1>1, <2>4 DEF ConnectSucceeds
    <3>2. Remaining(d)' = 0
      BY <3>1 DEF Remaining
    <3>. QED BY <2>2, <2>3, <3>2
  <2>5. CASE TryNext(d, backend_list[d])
    <3>1. Remaining(d)' = Len(backend_list[d])
      BY <1>1, <2>3, <2>5, TurnCounts
    <3>. QED BY <2>2, <2>3, <3>1
  <2>. QED BY <1>4, <2>4, <2>5 DEF Refused, TimedOut
<1>. QED BY <1>2, <1>3, <1>4

\* The channel brings those in it forward and holds no one else up.
LEMMA ChannelProgress ==
    ASSUME IInv, NEW c \in Conns, destination[c] # NoDest
    PROVE  /\ \A x \in Conns, d \in Destinations :
                 Send(x, d) => Remaining(c)' = Remaining(c)
           /\ Recv => /\ c \in Range(queue) => Remaining(c)' < Remaining(c)
                      /\ c \notin Range(queue) => Remaining(c)' = Remaining(c)
<1>1. /\ queue \in Seq(Conns) /\ IsInjective(queue) /\ Range(queue) \cap conn_tracker = {}
      /\ Cardinality(Machines) \in Nat
  BY ConstantsAssumption, FS_CardinalityType DEF IInv, TypeOK, OneOwner
<1>2. ASSUME NEW x \in Conns, NEW d \in Destinations, Send(x, d)
      PROVE  Remaining(c)' = Remaining(c)
  <2>1. x # c /\ x \notin Range(queue) /\ queue' = Append(queue, x)
        /\ UNCHANGED <<conn_tracker, target, backend_list>>
    BY <1>2 DEF Send, IInv, FreshConnections
  <2>2. Range(queue') = Range(queue) \cup {x}
    BY <1>1, <2>1, AppendFacts
  <2>3. CASE c \in Range(queue)
    <3>1. Position(queue', c) = Position(queue, c)
      BY <1>1, <2>1, <2>3, PositionFacts
    <3>. QED BY <2>1, <2>2, <2>3, <3>1 DEF Remaining
  <2>4. CASE c \notin Range(queue)
    BY <2>1, <2>2, <2>4 DEF Remaining
  <2>. QED BY <2>3, <2>4
<1>3. ASSUME Recv
      PROVE  /\ c \in Range(queue) => Remaining(c)' < Remaining(c)
             /\ c \notin Range(queue) => Remaining(c)' = Remaining(c)
  <2>. DEFINE x == Head(queue)
  <2>1. /\ queue # <<>> /\ queue' = Tail(queue) /\ conn_tracker' = conn_tracker \cup {x}
        /\ target' = target /\ backend_list' = backend_list
    BY <1>3 DEF Recv
  <2>2. x \in Range(queue) /\ Range(queue') = Range(queue) \ {x}
    BY <1>1, <2>1, TailFacts
  <2>. HIDE DEF x
  <2>3. CASE c \in Range(queue')
    <3>1. /\ Position(queue', c) = Position(queue, c) - 1
          /\ Position(queue, c) \in 1..Len(queue) /\ Len(queue) \in Nat
      BY <1>1, <2>1, <2>2, <2>3, PositionFacts, LenProperties
    <3>2. /\ Remaining(c)' = Cardinality(Machines) + 1 + (Position(queue, c) - 1)
          /\ Remaining(c) = Cardinality(Machines) + 1 + Position(queue, c)
      BY <2>2, <2>3, <3>1 DEF Remaining
    <3>. QED BY <1>1, <2>2, <2>3, <3>1, <3>2
  <2>4. CASE c = x
    <3>1. Position(queue, c) \in 1..Len(queue) /\ Len(queue) \in Nat
      BY <1>1, <2>2, <2>4, PositionFacts, LenProperties
    <3>2. target[c] = NoMachine
      BY <1>1, <2>2, <2>4 DEF IInv, AttemptsAccounted
    <3>3. Remaining(c)' = Cardinality(Machines) + 1
      BY <2>1, <2>2, <2>4, <3>2 DEF Remaining
    <3>4. Remaining(c) = Cardinality(Machines) + 1 + Position(queue, c)
      BY <2>2, <2>4 DEF Remaining
    <3>. QED BY <1>1, <2>2, <2>4, <3>1, <3>3, <3>4
  <2>5. CASE c \notin Range(queue)
    <3>1. c \notin Range(queue') /\ (c \in conn_tracker' <=> c \in conn_tracker)
      BY <2>1, <2>2, <2>5
    <3>. QED BY <2>1, <2>5, <3>1 DEF Remaining
  <2>. QED BY <2>2, <2>3, <2>4, <2>5
<1>. QED BY <1>2, <1>3

\* No step of anything takes a forwarded connection further from the end of its
\* task, and every turn of run or of the task brings it nearer: with machines
\* that refuse, time out or answer too late, it is settled after at most that
\* many turns.
THEOREM EveryTurnCounts == Spec => TurnsRunOut
<1>1. ASSUME IInv, [Next]_vars, NEW c \in Conns, destination[c] # NoDest
      PROVE  /\ Remaining(c)' <= Remaining(c)
             /\ HandleConnection(c) \/ AttemptEnds(c) => Remaining(c)' < Remaining(c)
             /\ Recv /\ c \in Range(queue) => Remaining(c)' < Remaining(c)
  <2>1. Remaining(c) \in Nat
    BY <1>1, RemainingType DEF RemainingTypeOK
  <2>2. HandleConnection(c) \/ AttemptEnds(c) => Remaining(c)' < Remaining(c)
    BY <1>1, TurnProgress
  <2>3. Recv /\ c \in Range(queue) => Remaining(c)' < Remaining(c)
    BY <1>1, ChannelProgress
  <2>4. Remaining(c)' < Remaining(c) \/ Remaining(c)' = Remaining(c)
    <3>1. CASE Recv
      BY <1>1, <3>1, ChannelProgress
    <3>2. ASSUME NEW d \in Conns, HandleConnection(d) \/ AttemptEnds(d)
          PROVE  Remaining(c)' < Remaining(c) \/ Remaining(c)' = Remaining(c)
      BY <1>1, <3>2, TurnProgress
    <3>3. ASSUME NEW x \in Conns, NEW d \in Destinations, Send(x, d)
          PROVE  Remaining(c)' = Remaining(c)
      BY <1>1, <3>3, ChannelProgress
    <3>4. ASSUME \/ RecvNone \/ DropSenders \/ UNCHANGED vars
                 \/ \E d \in Conns : Established(d)
                 \/ \E d \in Conns, m \in Machines : CopyEnds(d, m)
          PROVE  Remaining(c)' = Remaining(c)
      <4>1. UNCHANGED <<queue, conn_tracker, target, backend_list>>
        BY <3>4 DEF RecvNone, DropSenders, vars, Established, CopyEnds, channel_vars
      <4>. QED BY <4>1, RemainingSame
    <3>. QED BY <1>1, <3>1, <3>2, <3>3, <3>4 DEF Next, Internal
  <2>5. Remaining(c)' \in Nat
    <3>1. IInv' => RemainingTypeOK'
      BY RemainingType, PTL
    <3>. QED BY <1>1, <3>1, NextIInv DEF RemainingTypeOK
  <2>6. Remaining(c)' <= Remaining(c)
    BY <2>1, <2>4, <2>5
  <2>. QED BY <2>2, <2>3, <2>6
<1>2. IInv /\ [Next]_vars => [\A c \in Conns : destination[c] # NoDest =>
          /\ Remaining(c)' <= Remaining(c)
          /\ \/ HandleConnection(c)
             \/ AttemptEnds(c)
             \/ Recv /\ c \in Range(queue)
             => Remaining(c)' < Remaining(c)]_vars
  BY <1>1
<1>. QED BY <1>2, Invariance, PTL DEF Spec, TurnsRunOut
=============================================================================
