------------------------ MODULE ValveRefinement_proofs ------------------------
(***************************************************************************)
(* The running server implements module Connections, for all listeners,    *)
(* requests, machines and limits: every step maps to a step of one         *)
(* connection, to the rejection of several, or to none.                    *)
(***************************************************************************)
EXTENDS Valve_proofs

Backends(c) == {m \in Machines : c \in task_tracker[m]}

\* A connection that a step leaves as it is, seen from module Connections.
Same(c) ==
    /\ Status(c)' = Status(c)
    /\ Allowed(c)' = Allowed(c)
    /\ Backends(c)' = Backends(c)

\* What the status of a connection depends on.
StatusFits ==
    \A c \in Conns : stage[c] \in L!Stages =>
        /\ stage[c] = "new" => Status(c) = "new"
        /\ stage[c] \in Waiting => Status(c) = "pending"
        /\ stage[c] = "dropped" => Status(c) = "closed"
        /\ stage[c] = "forwarded" /\ Served(c) => Status(c) = "served"
        /\ stage[c] = "forwarded" /\ ~Served(c) /\ Owned(c) => Status(c) = "routed"
        /\ stage[c] = "forwarded" /\ ~Owned(c) => Status(c) = "closed"

LEMMA StatusIs == StatusFits
<1>. SUFFICES ASSUME NEW c \in Conns, stage[c] \in L!Stages
              PROVE  /\ stage[c] = "new" => Status(c) = "new"
                     /\ stage[c] \in Waiting => Status(c) = "pending"
                     /\ stage[c] = "dropped" => Status(c) = "closed"
                     /\ stage[c] = "forwarded" /\ Served(c) => Status(c) = "served"
                     /\ stage[c] = "forwarded" /\ ~Served(c) /\ Owned(c) =>
                          Status(c) = "routed"
                     /\ stage[c] = "forwarded" /\ ~Owned(c) => Status(c) = "closed"
  BY DEF StatusFits
<1>1. ASSUME stage[c] = "new" PROVE Status(c) = "new"
  <2>1. stage[c] \notin Waiting /\ stage[c] # "dropped" /\ stage[c] # "forwarded"
    BY <1>1, StagesFacts
  <2>. QED BY <1>1, <2>1 DEF Status
<1>2. ASSUME stage[c] \in Waiting PROVE Status(c) = "pending"
  <2>1. stage[c] # "new" /\ stage[c] # "dropped" /\ stage[c] # "forwarded"
    BY <1>2, StagesFacts
  <2>. QED BY <1>2, <2>1 DEF Status
<1>3. ASSUME stage[c] = "dropped" PROVE Status(c) = "closed"
  <2>1. stage[c] # "new"
    BY <1>3
  <2>. QED BY <1>3, <2>1 DEF Status
<1>4. ASSUME stage[c] = "forwarded"
      PROVE  /\ Served(c) => Status(c) = "served"
             /\ ~Served(c) /\ Owned(c) => Status(c) = "routed"
             /\ ~Owned(c) => Status(c) = "closed"
  <2>1. stage[c] # "new" /\ stage[c] # "dropped" /\ ~(stage[c] # "forwarded")
    BY <1>4
  <2>2. Served(c) => Owned(c)
    BY DEF Owned
  <2>. QED BY <2>1, <2>2 DEF Status
<1>. QED BY <1>1, <1>2, <1>3, <1>4

LEMMA StatusWillBe == StatusFits'
BY StatusIs, PTL

LEMMA SameStatus ==
    ASSUME NEW c \in Conns, stage'[c] = stage[c],
           Owned(c)' <=> Owned(c), Served(c)' <=> Served(c)
    PROVE  Status(c)' = Status(c)
BY DEF Status

LEMMA AllSame ==
    ASSUME \A c \in Conns : Same(c), UNCHANGED tried
    PROVE  UNCHANGED Promise!vars
BY DEF Same, Promise!vars, Backends

\* Every step of the load balancer leaves destinations and stages alone.
LEMMA LoadBalancerSame ==
    ASSUME VInv, LoadBalancerStep, NEW c \in Conns,
           Owned(c)' <=> Owned(c), \A m \in Machines : c \in task_tracker'[m] <=> c \in task_tracker[m]
    PROVE  Same(c)
<1>1. UNCHANGED <<stage, destination>>
  BY LoadBalancerEffect DEF l_vars
<1>2. Served(c)' <=> Served(c)
  BY DEF Served
<1>3. Backends(c)' = Backends(c)
  BY DEF Backends
<1>. QED BY <1>1, <1>2, <1>3, SameStatus DEF Same, Allowed

\* Only one connection changes, and to a new status.
LEMMA OneMoves ==
    ASSUME NEW c \in Conns, NEW from, NEW to, Status(c) = from, Status(c)' = to,
           \A d \in Conns \ {c} : Status(d)' = Status(d)
    PROVE  Promise!Move(c, from, to)
BY DEF Promise!Move

LEMMA OneConnection ==
    ASSUME NEW c \in Conns, Promise!Arrive(c) \/ Promise!GiveUp(c) \/ Promise!Finish(c)
    PROVE  Promise!Next
BY DEF Promise!Next

LEMMA OneMachine ==
    ASSUME NEW c \in Conns, NEW m \in Machines, Promise!Fail(c, m) \/ Promise!Serve(c, m)
    PROVE  Promise!Next
BY DEF Promise!Next

\* What a turn of the attempt loop means for its connection.
LEMMA TurnOutcome ==
    ASSUME VInv, NEW c \in Conns, Turn(c)
    PROVE  \/ /\ tried' = tried
              /\ c \in conn_tracker'
           \/ /\ tried' = tried
              /\ c \notin conn_tracker'
              /\ LB!Candidates(destination[c]) = {}
           \/ \E m \in LB!Candidates(destination[c]) \ tried[c] :
                /\ tried' = [tried EXCEPT ![c] = @ \cup {m}]
                /\ c \in conn_tracker' <=>
                     ~ LB!Candidates(destination[c]) \subseteq tried[c] \cup {m}
<1>. USE DEF LB!channel_vars
<1>0. c \in conn_tracker /\ NoMachine \notin Machines
  BY TurnFacts, ValveAssumption
<1>1. CASE HandleConnection(c)
  <2>1. PICK list \in LB!BackendLists(destination[c]) : LB!TryNext(c, list)
    BY <1>1 DEF HandleConnection, LB!HandleConnection
  <2>2. tried' = tried
    BY <1>1 DEF HandleConnection, LB!HandleConnection
  <2>3. list \in Seq(Machines) /\ Range(list) = LB!Candidates(destination[c])
    BY <1>0, <2>1, FirstList, Owners
  <2>4. CASE list = <<>>
    <3>1. Range(list) = {}
      BY <2>4 DEF Range
    <3>. QED BY <2>1, <2>2, <2>3, <2>4, <3>1, TurnEffect
  <2>5. CASE list # <<>>
    BY <1>0, <2>1, <2>2, <2>3, <2>5, TurnEffect
  <2>. QED BY <2>4, <2>5
<1>2. CASE Refused(c) \/ TimedOut(c)
  <2>1. /\ target[c] \in Machines
        /\ LB!TryNext(c, backend_list[c])
        /\ tried' = [tried EXCEPT ![c] = @ \cup {target[c]}]
    BY <1>2 DEF Refused, TimedOut, LB!Refused, LB!TimedOut
  <2>2. /\ backend_list[c] \in Seq(Machines)
        /\ target[c] \notin tried[c] \cup Range(backend_list[c])
        /\ tried[c] \cap Range(backend_list[c]) = {}
        /\ tried[c] \cup {target[c]} \cup Range(backend_list[c])
             = LB!Candidates(destination[c])
    BY <1>0, <2>1 DEF VInv, LB!IInv, LB!TypeOK, LB!AttemptsAccounted, LB!Range, Range
  <2>3. CASE backend_list[c] = <<>>
    <3>1. Range(backend_list[c]) = {}
      BY <2>3 DEF Range
    <3>2. c \notin conn_tracker'
      BY <2>1, <2>2, <2>3, TurnEffect
    <3>3. /\ target[c] \in LB!Candidates(destination[c]) \ tried[c]
          /\ LB!Candidates(destination[c]) \subseteq tried[c] \cup {target[c]}
      BY <2>2, <3>1
    <3>. QED BY <2>1, <3>2, <3>3
  <2>4. CASE backend_list[c] # <<>>
    <3>1. Head(backend_list[c]) \in Range(backend_list[c])
      BY <2>2, <2>4, HeadAndTail
    <3>2. c \in conn_tracker'
      BY <1>0, <2>1, <2>2, <2>4, TurnEffect
    <3>3. /\ target[c] \in LB!Candidates(destination[c]) \ tried[c]
          /\ ~ LB!Candidates(destination[c]) \subseteq tried[c] \cup {target[c]}
      <4>1. /\ target[c] \in LB!Candidates(destination[c])
            /\ Head(backend_list[c]) \in LB!Candidates(destination[c])
        BY <2>2, <3>1
      <4>2. Head(backend_list[c]) \notin tried[c] \cup {target[c]}
        BY <2>2, <3>1
      <4>. QED BY <2>2, <4>1, <4>2
    <3>. QED BY <2>1, <3>2, <3>3
  <2>. QED BY <2>3, <2>4
<1>. QED BY <1>1, <1>2 DEF Turn

\* Where a connection is that its task has.
LEMMA InTask ==
    ASSUME VInv, NEW c \in conn_tracker
    PROVE  /\ c \in Conns /\ stage[c] = "forwarded"
           /\ ~Served(c) /\ c \notin Range(queue)
           /\ Status(c) = "routed"
           /\ Allowed(c) = LB!Candidates(destination[c])
           /\ Backends(c) = {}
<1>1. c \in Conns /\ ~Served(c) /\ c \notin Range(queue) /\ destination[c] \in LB!Destinations
  BY Owners
<1>2. destination[c] # NoDest
  BY <1>1, ValveAssumption DEF L!ListenersAssumption
<1>3. stage[c] = "forwarded"
  BY <1>1, <1>2 DEF VInv, Handover
<1>4. Owned(c)
  BY DEF Owned
<1>. QED
  BY <1>1, <1>2, <1>3, <1>4, StatusIs, StagesFacts DEF StatusFits, Allowed, Backends, Served

LEMMA TurnRefines ==
    ASSUME VInv, LoadBalancerStep, NEW c \in Conns, Turn(c)
    PROVE  [Promise!Next]_Promise!vars
<1>1. /\ c \in conn_tracker
      /\ conn_tracker' = conn_tracker \/ conn_tracker' = conn_tracker \ {c}
      /\ UNCHANGED <<queue, destination, task_tracker>>
  BY TurnFacts
<1>2. UNCHANGED stage
  BY LoadBalancerEffect DEF l_vars
<1>3. \A d \in Conns \ {c} : Same(d)
  BY <1>1, LoadBalancerSame DEF Owned, Served
<1>4. Allowed(c)' = Allowed(c) /\ Backends(c)' = Backends(c)
  BY <1>1 DEF Allowed, Backends
<1>5. /\ ~Served(c) /\ c \notin Range(queue)
      /\ Status(c) = "routed"
      /\ stage[c] = "forwarded"
      /\ Allowed(c) = LB!Candidates(destination[c])
  BY <1>1, InTask
<1>6. Status(c)' = IF c \in conn_tracker' THEN "routed" ELSE "closed"
  <2>1. /\ ~Served(c)' /\ c \notin Range(queue')
        /\ stage'[c] = "forwarded"
    BY <1>1, <1>2, <1>5 DEF Served
  <2>2. Owned(c)' <=> c \in conn_tracker'
    BY <2>1 DEF Owned
  <2>. QED BY <2>1, <2>2, StatusWillBe, StagesFacts DEF StatusFits
<1>7. UNCHANGED <<[d \in Conns |-> Allowed(d)], [d \in Conns |-> Backends(d)]>>
  BY <1>3, <1>4 DEF Same
<1>. USE DEF Backends
<1>8. CASE tried' = tried /\ c \in conn_tracker'
  <2>1. \A d \in Conns : Same(d)
    BY <1>3, <1>4, <1>5, <1>6, <1>8 DEF Same
  <2>. QED BY <1>8, <2>1, AllSame
<1>9. CASE tried' = tried /\ c \notin conn_tracker' /\ LB!Candidates(destination[c]) = {}
  <2>1. Promise!Move(c, "routed", "closed")
    BY <1>3, <1>5, <1>6, <1>9, OneMoves DEF Same
  <2>2. Promise!GiveUp(c)
    BY <1>5, <1>7, <1>9, <2>1 DEF Promise!GiveUp
  <2>. QED BY <2>2, OneConnection
<1>10. ASSUME NEW m \in LB!Candidates(destination[c]) \ tried[c],
              tried' = [tried EXCEPT ![c] = @ \cup {m}],
              c \in conn_tracker' <=>
                 ~ LB!Candidates(destination[c]) \subseteq tried[c] \cup {m}
       PROVE  [Promise!Next]_Promise!vars
  <2>1. Promise!Move(c, "routed", IF Allowed(c) \subseteq tried[c] \cup {m}
                                  THEN "closed" ELSE "routed")
    BY <1>3, <1>5, <1>6, <1>10, OneMoves DEF Same
  <2>2. Promise!Fail(c, m)
    BY <1>5, <1>7, <1>10, <2>1 DEF Promise!Fail
  <2>3. m \in Machines
    BY <1>10 DEF LB!Candidates
  <2>. QED BY <2>2, <2>3, OneMachine
<1>. QED BY <1>8, <1>9, <1>10, TurnOutcome

LEMMA ServeRefines ==
    ASSUME VInv, LoadBalancerStep, NEW c \in Conns, ConnectSucceeds(c)
    PROVE  Promise!Next
<1>1. /\ target[c] \in Machines
      /\ task_tracker' = [task_tracker EXCEPT ![target[c]] = @ \cup {c}]
      /\ conn_tracker' = conn_tracker \ {c}
      /\ UNCHANGED <<queue, tried>>
  BY DEF ConnectSucceeds, LB!ConnectSucceeds, LB!channel_vars
<1>. PICK m \in Machines : m = target[c]
  BY <1>1
<1>2. UNCHANGED <<stage, destination>>
  BY LoadBalancerEffect DEF l_vars
<1>3. c \in conn_tracker /\ task_tracker \in [Machines -> SUBSET Conns]
  BY <1>1, Owners, ValveAssumption
<1>4. /\ stage[c] = "forwarded"
      /\ Status(c) = "routed"
      /\ Allowed(c) = LB!Candidates(destination[c])
      /\ Backends(c) = {}
  BY <1>3, InTask
<1>5. \A d \in Conns \ {c} : Same(d)
  BY <1>1, <1>3, LoadBalancerSame DEF Owned, Served
<1>6. Backends(c)' = {m}
  BY <1>1, <1>3, <1>4 DEF Backends
<1>7. Status(c)' = "served"
  <2>1. Served(c)'
    BY <1>6 DEF Backends, Served
  <2>. QED BY <1>2, <1>4, <2>1, StatusWillBe, StagesFacts DEF StatusFits
<1>8. m \in Allowed(c) \ tried[c]
  <2>1. target[c] # NoMachine
    BY <1>1, ValveAssumption
  <2>2. target[c] \in LB!Candidates(destination[c]) \ tried[c]
    BY <2>1 DEF VInv, LB!IInv, LB!AttemptsAccounted
  <2>. QED BY <1>4, <2>2
<1>9. Promise!Move(c, "routed", "served")
  BY <1>4, <1>5, <1>7, OneMoves DEF Same
<1>10. [d \in Conns |-> Allowed(d)]' = [d \in Conns |-> Allowed(d)]
  BY <1>2 DEF Allowed
<1>11. [d \in Conns |-> Backends(d)]' = [[d \in Conns |-> Backends(d)] EXCEPT ![c] = {m}]
  BY <1>5, <1>6 DEF Same
<1>12. Promise!Serve(c, m)
  BY <1>1, <1>8, <1>9, <1>10, <1>11 DEF Promise!Serve, Backends
<1>. QED BY <1>12, OneMachine

LEMMA FinishRefines ==
    ASSUME VInv, LoadBalancerStep, NEW c \in Conns, NEW m \in Machines, CopyEnds(c, m)
    PROVE  Promise!Next
<1>1. /\ c \in task_tracker[m]
      /\ task_tracker' = [task_tracker EXCEPT ![m] = @ \ {c}]
      /\ UNCHANGED <<queue, conn_tracker, tried>>
  BY DEF CopyEnds, LB!CopyEnds, LB!channel_vars
<1>2. UNCHANGED <<stage, destination>>
  BY LoadBalancerEffect DEF l_vars
<1>3. /\ Served(c) /\ c \notin Range(queue) \cup conn_tracker
      /\ \A n \in Machines \ {m} : c \notin task_tracker[n]
      /\ task_tracker \in [Machines -> SUBSET Conns]
  BY <1>1, Owners DEF Served
<1>4. stage[c] = "forwarded"
  BY <1>1 DEF VInv, LB!IInv, LB!FreshConnections, Handover
<1>5. Status(c) = "served"
  BY <1>3, <1>4, StatusIs, StagesFacts DEF StatusFits
<1>6. \A d \in Conns \ {c} : Same(d)
  BY <1>1, <1>3, LoadBalancerSame DEF Owned, Served
<1>7. \A n \in Machines : c \notin task_tracker'[n]
  BY <1>1, <1>3
<1>8. Backends(c)' = {}
  BY <1>7 DEF Backends
<1>9. Status(c)' = "closed"
  <2>1. ~Owned(c)'
    BY <1>1, <1>3, <1>7 DEF Owned, Served
  <2>. QED BY <1>2, <1>4, <2>1, StatusWillBe, StagesFacts DEF StatusFits
<1>10. Promise!Move(c, "served", "closed")
  BY <1>5, <1>6, <1>9, OneMoves DEF Same
<1>11. [d \in Conns |-> Allowed(d)]' = [d \in Conns |-> Allowed(d)]
  BY <1>2 DEF Allowed
<1>12. [d \in Conns |-> Backends(d)]' = [[d \in Conns |-> Backends(d)] EXCEPT ![c] = {}]
  BY <1>6, <1>8 DEF Same
<1>13. Promise!Finish(c)
  BY <1>1, <1>10, <1>11, <1>12 DEF Promise!Finish, Backends
<1>. QED BY <1>13, OneConnection

LEMMA LoadBalancerRefines ==
    ASSUME VInv, LoadBalancerStep
    PROVE  [Promise!Next]_Promise!vars
<1>1. CASE Receive
  <2>1. Range(queue') \cup conn_tracker' = Range(queue) \cup conn_tracker
    <3>1. LB!RecvNone => UNCHANGED <<queue, conn_tracker>>
      BY DEF LB!RecvNone
    <3>2. LB!Recv => /\ queue # <<>>
                     /\ queue' = Tail(queue)
                     /\ conn_tracker' = conn_tracker \cup {Head(queue)}
      BY DEF LB!Recv
    <3>3. queue # <<>> => Range(queue) = {Head(queue)} \cup Range(Tail(queue))
      BY Owners, HeadAndTail
    <3>. QED BY <1>1, <3>1, <3>2, <3>3 DEF Receive
  <2>2. UNCHANGED <<task_tracker, tried>>
    BY <1>1 DEF Receive, LB!Recv, LB!RecvNone
  <2>3. \A d \in Conns : Same(d)
    BY <2>1, <2>2, LoadBalancerSame DEF Owned, Served
  <2>. QED BY <2>2, <2>3, AllSame
<1>2. ASSUME NEW c \in Conns, Turn(c) PROVE [Promise!Next]_Promise!vars
  BY <1>2, TurnRefines
<1>3. ASSUME NEW c \in Conns, Established(c) PROVE [Promise!Next]_Promise!vars
  <2>1. UNCHANGED <<queue, conn_tracker, task_tracker, tried>>
    BY <1>3 DEF Established, LB!Established, LB!channel_vars
  <2>2. \A d \in Conns : Same(d)
    BY <2>1, LoadBalancerSame DEF Owned, Served
  <2>. QED BY <2>1, <2>2, AllSame
<1>4. ASSUME NEW c \in Conns, ConnectSucceeds(c) PROVE [Promise!Next]_Promise!vars
  BY <1>4, ServeRefines
<1>5. ASSUME NEW c \in Conns, NEW m \in Machines, CopyEnds(c, m)
      PROVE  [Promise!Next]_Promise!vars
  BY <1>5, FinishRefines
<1>6. CASE LetGo
  <2>1. UNCHANGED <<queue, conn_tracker, task_tracker, tried>>
    BY <1>6, LetGoEffect
  <2>2. \A d \in Conns : Same(d)
    BY <2>1, LoadBalancerSame DEF Owned, Served
  <2>. QED BY <2>1, <2>2, AllSame
<1>. QED BY <1>1, <1>2, <1>3, <1>4, <1>5, <1>6 DEF LoadBalancerStep, AttemptEnds, Turn

LEMMA RouteRefines ==
    ASSUME VInv, NEW c \in Conns, ForwardConn(c)
    PROVE  Promise!Next
<1>. DEFINE d == L!ForwardDestination(c)
            S == LB!Candidates(d)
<1>1. /\ L!Forward(c)
      /\ destination[c] = NoDest
      /\ queue' = Append(queue, c)
      /\ destination' = [destination EXCEPT ![c] = d]
      /\ UNCHANGED <<conn_tracker, task_tracker, tried>>
  BY DEF ForwardConn, LB!Send
<1>. HIDE DEF d
<1>2. /\ stage[c] \in L!Accepted
      /\ stage' = [stage EXCEPT ![c] = "forwarded"]
      /\ d \in LB!Destinations
  BY <1>1, ForwardEffect, KnownDestination DEF VInv, d
<1>3. /\ queue \in Seq(Conns) /\ IsInjective(queue)
      /\ DOMAIN stage = Conns
      /\ DOMAIN destination = Conns
      /\ c \notin Range(queue)
      /\ \A m \in Machines : c \notin task_tracker[m]
  BY <1>1, Owners
     DEF VInv, ListenersInv, L!ListenersTypeOK, LB!IInv, LB!TypeOK, LB!FreshConnections,
         LB!Range, Range
<1>4. Range(queue') = Range(queue) \cup {c}
  BY <1>1, <1>3, AppendFacts
<1>5. d # NoDest
  BY <1>2, ValveAssumption DEF L!ListenersAssumption
<1>6. Allowed(c) = {} /\ Allowed(c)' = S
  BY <1>1, <1>3, <1>5 DEF Allowed
<1>7. \A e \in Conns \ {c} : Allowed(e)' = Allowed(e)
  BY <1>1, <1>3 DEF Allowed
<1>8. \A e \in Conns \ {c} : Status(e)' = Status(e)
  <2>. TAKE e \in Conns \ {c}
  <2>1. stage'[e] = stage[e]
    BY <1>2, <1>3
  <2>2. (Owned(e)' <=> Owned(e)) /\ (Served(e)' <=> Served(e))
    BY <1>1, <1>4 DEF Owned, Served
  <2>. QED BY <2>1, <2>2, SameStatus
<1>9. Status(c) = "pending"
  BY <1>2, StatusIs, StagesFacts DEF StatusFits
<1>10. Status(c)' = "routed"
  <2>1. stage'[c] = "forwarded"
    BY <1>2, <1>3
  <2>2. Owned(c)' /\ ~Served(c)'
    BY <1>1, <1>3, <1>4 DEF Owned, Served
  <2>. QED BY <2>1, <2>2, StatusWillBe, StagesFacts DEF StatusFits
<1>11. Promise!Move(c, "pending", "routed")
  BY <1>8, <1>9, <1>10, OneMoves
<1>12. [e \in Conns |-> Allowed(e)]' = [[e \in Conns |-> Allowed(e)] EXCEPT ![c] = S]
  BY <1>6, <1>7
<1>13. [e \in Conns |-> Backends(e)]' = [e \in Conns |-> Backends(e)]
  BY <1>1 DEF Backends
<1>14. Promise!Route(c, S)
  BY <1>1, <1>11, <1>12, <1>13 DEF Promise!Route, Backends
<1>15. S \in SUBSET Machines
  BY DEF LB!Candidates
<1>. QED BY <1>14, <1>15 DEF Promise!Next

\* Steps of the listeners that give nothing to the channel.
LEMMA QuietRefines ==
    ASSUME VInv, UNCHANGED lb_vars, ListenersInv',
           \/ \E c \in Conns : /\ stage[c] = "new"
                               /\ stage' = [stage EXCEPT ![c] = "backlog"]
           \/ \A c \in Conns : \/ stage'[c] = stage[c]
                               \/ /\ stage[c] \in Waiting
                                  /\ stage'[c] \in Waiting \cup {"dropped"}
    PROVE  [Promise!Next]_Promise!vars
<1>1. \A c \in Conns : /\ Allowed(c)' = Allowed(c)
                       /\ Backends(c)' = Backends(c)
                       /\ Owned(c)' <=> Owned(c)
                       /\ Served(c)' <=> Served(c)
  BY DEF lb_vars, Allowed, Backends, Owned, Served
<1>2. \A c \in Conns : stage'[c] = stage[c] => Status(c)' = Status(c)
  BY <1>1, SameStatus
<1>3. UNCHANGED <<tried, [c \in Conns |-> Allowed(c)], [c \in Conns |-> Backends(c)]>>
  BY <1>1 DEF lb_vars
<1>4. \A c \in Conns : stage[c] \in L!Stages /\ stage'[c] \in L!Stages
  BY DEF VInv, ListenersInv, L!ListenersTypeOK
<1>. USE StatusIs, StatusWillBe, StagesFacts DEF StatusFits, Backends
<1>5. ASSUME NEW c \in Conns, stage[c] = "new", stage' = [stage EXCEPT ![c] = "backlog"]
      PROVE  Promise!Next
  <2>1. \A e \in Conns : stage'[e] = IF e = c THEN "backlog" ELSE stage[e]
    BY <1>5 DEF VInv, ListenersInv, L!ListenersTypeOK
  <2>2. Status(c) = "new" /\ Status(c)' = "pending"
    BY <1>4, <1>5, <2>1
  <2>3. Promise!Move(c, "new", "pending")
    BY <1>2, <2>1, <2>2, OneMoves
  <2>4. Promise!Arrive(c)
    BY <1>3, <2>3 DEF Promise!Arrive
  <2>. QED BY <2>4, OneConnection
<1>6. ASSUME \A c \in Conns : \/ stage'[c] = stage[c]
                              \/ /\ stage[c] \in Waiting
                                 /\ stage'[c] \in Waiting \cup {"dropped"}
      PROVE  [Promise!Next]_Promise!vars
  <2>. DEFINE T == {c \in Conns : stage[c] \in Waiting /\ stage'[c] = "dropped"}
  <2>1. \A c \in T : Status(c) = "pending" /\ Status(c)' = "closed"
    BY <1>4
  <2>2. \A c \in Conns \ T : Status(c)' = Status(c)
    <3>. TAKE c \in Conns \ T
    <3>1. CASE stage'[c] = stage[c]
      BY <1>2, <3>1
    <3>2. CASE stage[c] \in Waiting /\ stage'[c] \in Waiting
      BY <1>4, <3>2
    <3>. QED BY <1>6, <3>1, <3>2
  <2>3. CASE T = {}
    <3>1. \A c \in Conns : Same(c)
      BY <1>1, <2>2, <2>3 DEF Same
    <3>. QED BY <1>3, <3>1, AllSame
  <2>4. CASE T # {}
    <3>1. Promise!Reject(T)
      BY <1>3, <2>1, <2>2, <2>4 DEF Promise!Reject
    <3>. QED BY <3>1 DEF Promise!Next
  <2>. QED BY <2>3, <2>4
<1>. QED BY <1>5, <1>6

LEMMA InitRefines == Init => Promise!Init
<1>. SUFFICES ASSUME Init PROVE Promise!Init
  OBVIOUS
<1>1. VInv /\ \A c \in Conns : stage[c] = "new"
  BY InitVInv DEF Init, L!Init
<1>2. \A c \in Conns : Status(c) = "new"
  BY <1>1, StatusIs, StagesFacts DEF StatusFits
<1>3. /\ \A c \in Conns : Allowed(c) = {} /\ Backends(c) = {}
      /\ tried = [c \in Conns |-> {}]
  BY DEF Init, LB!Init, Allowed, Backends
<1>. QED BY <1>2, <1>3 DEF Promise!Init, Backends

LEMMA NextRefines == VInv /\ VInv' /\ [Next]_vars => [Promise!Next]_Promise!vars
<1>. SUFFICES ASSUME VInv, VInv', [Next]_vars PROVE [Promise!Next]_Promise!vars
  OBVIOUS
<1>. ListenersInv /\ ListenersInv'
  BY DEF VInv
<1>1. CASE L!Internal /\ UNCHANGED <<lb_vars, limit, files, run>>
  BY <1>1, InternalEffect, QuietRefines
<1>2. CASE LoadBalancerStep
  BY <1>2, LoadBalancerRefines
<1>3. CASE ListenReturns \/ UNCHANGED vars
  <2>1. UNCHANGED <<stage, lb_vars>>
    BY <1>3 DEF ListenReturns, vars, l_vars
  <2>. QED BY <2>1, QuietRefines
<1>4. ASSUME NEW c \in Conns, Accept(c) PROVE [Promise!Next]_Promise!vars
  <2>1. /\ stage[c] = "backlog" /\ stage'[c] \in L!Accepted
        /\ \A e \in Conns \ {c} : stage'[e] = stage[e]
        /\ UNCHANGED lb_vars
    BY <1>4, AcceptEffect DEF Accept
  <2>. QED BY <2>1, QuietRefines, StagesFacts
<1>5. ASSUME NEW c \in Conns, ForwardConn(c) PROVE [Promise!Next]_Promise!vars
  BY <1>5, RouteRefines
<1>. QED BY <1>1, <1>2, <1>3, <1>4, <1>5 DEF Next

\* Every connection the server accepts is turned away or goes to allowed
\* machines, one after the other and each once, until one serves it or all have
\* failed it, whatever listeners die and descriptors lack (module Connections).
THEOREM PromiseIsKept == Spec => KeepsPromise
BY InitRefines, NextRefines, Invariance, PTL DEF Spec, KeepsPromise, Promise!Spec

=============================================================================
