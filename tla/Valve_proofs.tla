----------------------------- MODULE Valve_proofs -----------------------------
(***************************************************************************)
(* The running server's safety, proved for all listeners, requests,        *)
(* machines and limits.  The load balancer brings its invariant along,     *)
(* with the listeners for senders; what the listeners read of a request is *)
(* what module HostName_proofs says.                                       *)
(***************************************************************************)
EXTENDS Valve, SequenceFacts, FiniteSetTheorems

(* The instances that module Valve makes of modules LoadBalancer and       *)
(* Listeners and those made here of the modules with the proofs are        *)
(* definitions of their own, so it has to be said that they are the same.  *)

LOCAL LBP == INSTANCE LoadBalancer_proofs

LOCAL HN == INSTANCE HostName_proofs

\* The two instances of module LoadBalancer, one definition at a time.
LEMMA SameDestinations == LB!Destinations = LBP!Destinations
BY DEF LB!Destinations, LB!PortOnly, LB!Socket, LB!InternalService, LB!PortAndAddrs,
       LBP!Destinations, LBP!PortOnly, LBP!Socket, LBP!InternalService, LBP!PortAndAddrs

\* The assumptions of module LoadBalancer.
LEMMA LoadBalancerAssumptions ==
    LBP!IsFiniteSet(Machines) /\ NoDest \notin LBP!Destinations
<1>1. LBP!IsFiniteSet(Machines)
  BY ValveAssumption DEF IsFiniteSet, LBP!IsFiniteSet
<1>2. NoDest \notin LBP!Destinations
  BY ValveAssumption, SameDestinations DEF L!ListenersAssumption
<1>. QED BY <1>1, <1>2

\* The inductive invariant of the load balancer, ...
LEMMA SameIInv == LB!IInv <=> LBP!IInv
<1>. USE SameDestinations DEF LB!Range, LB!IsInjective, LBP!Range, LBP!IsInjective
<1>1. LB!TypeOK <=> LBP!TypeOK
  BY DEF LB!TypeOK, LBP!TypeOK
<1>2. LB!OneOwner <=> LBP!OneOwner
  BY DEF LB!OneOwner, LBP!OneOwner
<1>3. LB!AttemptsAccounted <=> LBP!AttemptsAccounted
  BY DEF LB!AttemptsAccounted, LBP!AttemptsAccounted, LB!Candidates, LBP!Candidates
<1>4. LB!NoLeakedSocket <=> LBP!NoLeakedSocket
  BY DEF LB!NoLeakedSocket, LBP!NoLeakedSocket
<1>5. LB!ServedByAllowedMachine <=> LBP!ServedByAllowedMachine
  BY DEF LB!ServedByAllowedMachine, LBP!ServedByAllowedMachine, LB!Allows, LBP!Allows
<1>6. LB!ReceiverOutlivesSenders <=> LBP!ReceiverOutlivesSenders
  BY DEF LB!ReceiverOutlivesSenders, LBP!ReceiverOutlivesSenders
<1>7. LB!FreshConnections <=> LBP!FreshConnections
  BY DEF LB!FreshConnections, LBP!FreshConnections
<1>. QED
  BY <1>1, <1>2, <1>3, <1>4, <1>5, <1>6, <1>7 DEF LB!IInv, LBP!IInv

\* ... the lists of machines it makes, ...
LEMMA SameBackendLists ==
    \A d : LB!BackendLists(d) = LBP!BackendLists(d) /\ LB!Candidates(d) = LBP!Candidates(d)
BY DEF LB!BackendLists, LB!PickBestIp, LB!Reverse, LB!Bijection, LB!Injection,
       LB!Surjection, LB!IsInjective, LB!Cardinality, LB!WeightedLoad,
       LB!Available, LB!Weight, LB!Candidates,
       LBP!BackendLists, LBP!PickBestIp, LBP!Reverse, LBP!Bijection, LBP!Injection,
       LBP!Surjection, LBP!IsInjective, LBP!Cardinality, LBP!WeightedLoad,
       LBP!Available, LBP!Weight, LBP!Candidates

\* ... and its steps.
LEMMA SameNext == [LB!Next]_LB!vars => [LBP!Next]_LBP!vars
<1>. USE DEF LB!channel_vars, LBP!channel_vars
<1>1. LB!Recv => LBP!Recv
  BY DEF LB!Recv, LBP!Recv
<1>2. LB!RecvNone => LBP!RecvNone
  BY DEF LB!RecvNone, LBP!RecvNone
<1>3. ASSUME NEW c \in Conns, NEW list, LB!TryNext(c, list)
      PROVE  LBP!TryNext(c, list)
  BY <1>3 DEF LB!TryNext, LBP!TryNext, LB!Last, LBP!Last, LB!Front, LBP!Front
<1>4. ASSUME NEW c \in Conns, LB!HandleConnection(c) PROVE LBP!HandleConnection(c)
  BY <1>3, <1>4, SameBackendLists DEF LB!HandleConnection, LBP!HandleConnection
<1>5. ASSUME NEW c \in Conns, LB!Established(c) PROVE LBP!Established(c)
  BY <1>5 DEF LB!Established, LBP!Established
<1>6. ASSUME NEW c \in Conns, LB!AttemptEnds(c) PROVE LBP!AttemptEnds(c)
  BY <1>3, <1>6 DEF LB!AttemptEnds, LB!ConnectSucceeds, LB!Refused, LB!TimedOut,
                    LBP!AttemptEnds, LBP!ConnectSucceeds, LBP!Refused, LBP!TimedOut
<1>7. ASSUME NEW c \in Conns, NEW m \in Machines, LB!CopyEnds(c, m)
      PROVE  LBP!CopyEnds(c, m)
  BY <1>7 DEF LB!CopyEnds, LBP!CopyEnds
<1>8. LB!DropSenders => LBP!DropSenders
  BY DEF LB!DropSenders, LBP!DropSenders
<1>9. ASSUME NEW c \in Conns, NEW d \in LB!Destinations, LB!Send(c, d)
      PROVE  LBP!Send(c, d)
  BY <1>9 DEF LB!Send, LBP!Send
<1>10. LB!Next => LBP!Next
  BY <1>1, <1>2, <1>4, <1>5, <1>6, <1>7, <1>8, <1>9, SameDestinations
     DEF LB!Next, LB!Internal, LBP!Next, LBP!Internal
<1>. QED BY <1>10 DEF LB!vars, LBP!vars

\* The invariant of the load balancer, at the start ...
LEMMA LoadBalancerInit == LB!Init => LB!IInv
<1>1. LBP!Init => LBP!IInv
  BY ValveAssumption, LoadBalancerAssumptions, LBP!InitIInv
<1>2. LB!Init => LBP!Init
  BY DEF LB!Init, LBP!Init
<1>. QED BY <1>1, <1>2, SameIInv

\* ... and after its steps.
LEMMA LoadBalancerNext == LB!IInv /\ [LB!Next]_LB!vars => LB!IInv'
<1>1. LBP!IInv /\ [LBP!Next]_LBP!vars => LBP!IInv'
  BY ValveAssumption, LoadBalancerAssumptions, LBP!NextIInv
<1>2. LBP!IInv' <=> LB!IInv'
  BY SameIInv, PTL
<1>. QED BY <1>1, <1>2, SameNext, SameIInv

\* The machines a task starts with are exactly those its destination allows.
LEMMA FirstList ==
    ASSUME NEW d \in LB!Destinations, NEW list \in LB!BackendLists(d)
    PROVE  list \in Seq(Machines) /\ Range(list) = LB!Candidates(d)
<1>1. d \in LBP!Destinations /\ list \in LBP!BackendLists(d)
  BY SameDestinations, SameBackendLists
<1>2. list \in Seq(Machines) /\ LBP!Range(list) = LBP!Candidates(d)
  BY <1>1, ValveAssumption, LoadBalancerAssumptions, LBP!BackendListFacts
<1>. QED BY <1>2, SameBackendLists DEF Range, LBP!Range

\* What module TokenStrings defines, ...
LEMMA SameStrings ==
    \A s, t : /\ L!Without(s, t) = HN!Without(s, t)
              /\ L!Split(s, t) = HN!Split(s, t)
              /\ L!Contains(s, t) <=> HN!Contains(s, t)
              /\ L!Trim(s) = HN!Trim(s)
              /\ L!Min(s) = HN!Min(s)
              /\ L!FlattenSeq(s) = FlattenSeq(s)
<1>1. \A s, t : L!Without(s, t) = HN!Without(s, t)
  BY DEF L!Without, HN!Without
<1>2. \A s, t : L!Split(s, t) = HN!Split(s, t)
  BY DEF L!Split, HN!Split, L!Front, L!Last, HN!Front, HN!Last
<1>3. \A s, t : L!Contains(s, t) <=> HN!Contains(s, t)
  BY DEF L!Contains, HN!Contains
<1>4. \A s : L!Trim(s) = HN!Trim(s) /\ L!Min(s) = HN!Min(s)
  BY DEF L!Trim, HN!Trim, L!Space, HN!Space, L!Min, HN!Min, L!Max, HN!Max
<1>5. \A s : L!FlattenSeq(s) = FlattenSeq(s)
  BY DEF L!FlattenSeq, FlattenSeq
<1>. QED BY <1>1, <1>2, <1>3, <1>4, <1>5

\* ... what is said of a line and of a value, ...
LEMMA SameValues ==
    \A s : /\ L!Colon(s) = HN!Colon(s)
           /\ L!Value(s) = HN!Value(s)
           /\ L!NameInValue(s) = HN!NameInValue(s)
           /\ L!Asked(s) = HN!Asked(s)
           /\ L!IsHostField(s) <=> HN!IsHostField(s)
           /\ L!IsHostLine(s) <=> HN!IsHostLine(s)
           /\ L!AtMostOneColon(s) <=> HN!AtMostOneColon(s)
           /\ L!Peeked(s) = HN!Peeked(s)
           /\ L!ServerName(s) = HN!ServerName(s)
           /\ L!IsTls(s) <=> HN!IsTls(s)
<1>1. \A s : L!Colon(s) = HN!Colon(s)
  BY DEF L!Colon, HN!Colon, L!SelectInSeq, HN!SelectInSeq, L!Min, HN!Min
<1>2. \A s : L!Value(s) = HN!Value(s) /\ L!Asked(s) = HN!Asked(s)
  BY <1>1, SameStrings DEF L!Value, HN!Value, L!Asked, HN!Asked
<1>3. \A s : L!NameInValue(s) = HN!NameInValue(s)
  <2>1. \A s : L!SelectLastInSeq(s, LAMBDA t : t = ":") = HN!SelectLastInSeq(s, LAMBDA t : t = ":")
    BY DEF L!SelectLastInSeq, HN!SelectLastInSeq, L!Max, HN!Max
  <2>. QED BY <2>1, SameStrings DEF L!NameInValue, HN!NameInValue
<1>4. \A s : /\ L!IsHostField(s) <=> HN!IsHostField(s)
             /\ L!IsHostLine(s) <=> HN!IsHostLine(s)
             /\ L!AtMostOneColon(s) <=> HN!AtMostOneColon(s)
             /\ L!Peeked(s) = HN!Peeked(s)
             /\ L!IsTls(s) <=> HN!IsTls(s)
  BY <1>1 DEF L!IsHostField, HN!IsHostField, L!IsHostLine, HN!IsHostLine, L!AtMostOneColon, HN!AtMostOneColon, L!Peeked, HN!Peeked, L!IsTls, HN!IsTls
<1>5. \A s : L!ServerName(s) = HN!ServerName(s)
  BY SameStrings DEF L!ServerName, HN!ServerName
<1>. QED BY <1>1, <1>2, <1>3, <1>4, <1>5

\* ... and what of a request.
LEMMA SameNames ==
    \A s, t : /\ L!NamesFound(s, t) = HN!NamesFound(s, t)
              /\ L!AskedFor(t) = HN!AskedFor(t)
              /\ L!AsksInBuffer(t) <=> HN!AsksInBuffer(t)
              /\ L!HasPort(t) <=> HN!HasPort(t)
              /\ L!IsKey(t) <=> HN!IsKey(t)
<1>1. \A s : L!HostNameIn(s) = HN!HostNameIn(s)
  BY SameStrings, SameValues DEF L!HostNameIn, HN!HostNameIn
<1>2. \A s, t : L!NamesFound(s, t) = HN!NamesFound(s, t)
  BY <1>1, SameValues DEF L!NamesFound, HN!NamesFound, L!NamesInClientHello, HN!NamesInClientHello
<1>3. \A t : L!HostHeader(t) = HN!HostHeader(t)
  BY SameStrings, SameValues DEF L!HostHeader, HN!HostHeader
<1>4. \A t : L!HostValue(t) = HN!HostValue(t)
  BY <1>3, SameStrings, SameValues DEF L!HostValue, HN!HostValue
<1>5. \A t : L!AskedFor(t) = HN!AskedFor(t)
  BY <1>3, <1>4, SameValues DEF L!AskedFor, HN!AskedFor
<1>6. \A t : L!AsksInBuffer(t) <=> HN!AsksInBuffer(t)
  BY <1>3, <1>4, SameStrings, SameValues DEF L!AsksInBuffer, HN!AsksInBuffer
<1>7. \A t : (L!HasPort(t) <=> HN!HasPort(t)) /\ (L!IsKey(t) <=> HN!IsKey(t))
  BY <1>4, SameStrings DEF L!HasPort, HN!HasPort, L!IsKey, HN!IsKey, L!Range, HN!Range
<1>. QED BY <1>2, <1>5, <1>6, <1>7

-----------------------------------------------------------------------------
(* The listeners. *)

\* What the types do not say: a client sends after it has connected, what it
\* sends is known at a TLS port, and a connection goes on with a known name.
\* Only a TLS port has tasks.
ListenersInv ==
    /\ L!ListenersTypeOK
    /\ DOMAIN host = Conns
    /\ \A c \in Conns :
         /\ stage[c] = "new" => sent[c] = 0
         /\ stage[c] # "new" => via[c] # NoListener
         /\ via[c] \in TlsListeners => request[c] \in Requests
         /\ stage[c] \in L!TlsTask => via[c] \in TlsListeners
         /\ stage[c] = "forwarded" /\ via[c] \in TlsListeners =>
              host[c] \in DOMAIN DestinationProvider

\* The listeners at the start.
LEMMA ListenersInit == L!Init => ListenersInv
BY ValveAssumption
   DEF L!Init, ListenersInv, L!ListenersTypeOK, L!Stages, L!TlsTask, L!ListenersAssumption

\* The stages by name.
LEMMA StagesFacts ==
    /\ L!Stages = {"new", "backlog", "tcp_send", "peek_header", "peek_hello",
                   "tls_send", "forwarded", "dropped"}
    /\ L!Accepted = {"tcp_send", "peek_header", "peek_hello", "tls_send"}
    /\ Waiting = {"backlog", "tcp_send", "peek_header", "peek_hello", "tls_send"}
    /\ L!TlsTask = {"peek_header", "peek_hello", "tls_send"}
BY DEF L!Stages, Waiting, L!Accepted, L!TlsTask

\* A connection that moves between stages, with nothing else changed.
LEMMA MoveKeeps ==
    ASSUME ListenersInv, NEW c \in Conns, NEW from \in L!Stages, NEW to \in L!Stages,
           from # "new", to \notin {"new", "tls_send"},
           to \in L!TlsTask => via[c] \in TlsListeners,
           to = "forwarded" => (via[c] \in TlsListeners => from = "tls_send"),
           L!Move(c, from, to),
           UNCHANGED <<via, request, sent, host, listening, tls_listen>>
    PROVE  ListenersInv'
BY StagesFacts DEF ListenersInv, L!ListenersTypeOK, L!Move

\* A listener that ends.
LEMMA CloseKeeps ==
    ASSUME ListenersInv, NEW l, NEW S, L!Close(l, S), "new" \notin S,
           UNCHANGED <<via, request, sent, host, tls_listen>>
    PROVE  ListenersInv'
BY StagesFacts DEF ListenersInv, L!ListenersTypeOK, L!Close

\* Every step of the listeners that the channel is not part of.
LEMMA InternalKeeps ==
    ASSUME ListenersInv, L!Internal
    PROVE  ListenersInv'
<1>. USE StagesFacts DEF L!task_vars
<1>1. CASE L!TlsListenReturns
  BY <1>1 DEF L!TlsListenReturns, ListenersInv, L!ListenersTypeOK
<1>2. ASSUME NEW l \in TcpListeners, L!TcpListenerDies(l) PROVE ListenersInv'
  BY <1>2, CloseKeeps DEF L!TcpListenerDies
<1>3. ASSUME NEW l \in TlsListeners, L!TlsListenerDies(l) \/ L!TlsListenerAborted(l)
      PROVE  ListenersInv'
  BY <1>3, CloseKeeps DEF L!TlsListenerDies, L!TlsListenerAborted
<1>4. ASSUME NEW c \in Conns, NEW l \in TcpListeners \cup TlsListeners,
             L!ClientConnects(c, l)
      PROVE  ListenersInv'
  <2>1. PICK r \in IF l \in TlsListeners THEN Requests ELSE {NoRequest} :
               request' = [request EXCEPT ![c] = r]
    BY <1>4 DEF L!ClientConnects
  <2>2. l # NoListener
    BY ValveAssumption DEF L!ListenersAssumption
  <2>. QED BY <1>4, <2>1, <2>2 DEF L!ClientConnects, L!Move, ListenersInv, L!ListenersTypeOK
<1>5. ASSUME NEW c \in Conns, L!ClientSends(c) PROVE ListenersInv'
  <2>1. request[c] \in Requests
    BY <1>5 DEF L!ClientSends, ListenersInv
  <2>2. Len(request[c]) \in Nat
    BY <2>1, ValveAssumption DEF L!ListenersAssumption
  <2>3. sent[c] \in Nat /\ sent' = [sent EXCEPT ![c] = sent[c] + 1] /\ sent[c] + 1 <= Len(request[c])
    BY <1>5, <2>2 DEF L!ClientSends, ListenersInv, L!ListenersTypeOK
  <2>. QED BY <1>5, <2>3 DEF L!ClientSends, ListenersInv, L!ListenersTypeOK
<1>6. ASSUME NEW c \in Conns, L!AcceptFails(c) PROVE ListenersInv'
  BY <1>6, MoveKeeps DEF L!AcceptFails
<1>7. ASSUME NEW c \in Conns, L!PeekFails(c) PROVE ListenersInv'
  BY <1>7, MoveKeeps DEF L!PeekFails
<1>8. ASSUME NEW c \in Conns, L!PeekHeader(c) PROVE ListenersInv'
  <2>. DEFINE to == IF L!HeaderAccepted(L!Arrived(c)) THEN "peek_hello" ELSE "dropped"
  <2>1. L!Move(c, "peek_header", to) /\ to \in {"peek_hello", "dropped"}
    BY <1>8 DEF L!PeekHeader
  <2>2. via[c] \in TlsListeners
    BY <2>1 DEF L!Move, ListenersInv
  <2>. HIDE DEF to
  <2>. QED BY <1>8, <2>1, <2>2, MoveKeeps DEF L!PeekHeader
<1>9. ASSUME NEW c \in Conns, L!PeekHello(c) PROVE ListenersInv'
  <2>1. PICK name :
           /\ host' = [host EXCEPT ![c] = name]
           /\ L!Move(c, "peek_hello", IF name \in DOMAIN DestinationProvider
                                      THEN "tls_send" ELSE "dropped")
    BY <1>9 DEF L!PeekHello
  <2>. QED BY <1>9, <2>1 DEF L!PeekHello, L!Move, ListenersInv, L!ListenersTypeOK
<1>10. ASSUME NEW c \in Conns, L!TaskAborted(c) PROVE ListenersInv'
  <2>1. L!Move(c, stage[c], "dropped") /\ stage[c] \in L!TlsTask
    BY <1>10 DEF L!TaskAborted, L!Move
  <2>. QED BY <1>10, <2>1, MoveKeeps DEF L!TaskAborted, L!TlsTask
<1>. QED
  BY <1>1, <1>2, <1>3, <1>4, <1>5, <1>6, <1>7, <1>8, <1>9, <1>10
     DEF L!Internal, L!Peek

\* An accepted connection.
LEMMA AcceptKeeps ==
    ASSUME ListenersInv, NEW c \in Conns, L!Accept(c)
    PROVE  ListenersInv'
BY MoveKeeps, StagesFacts DEF L!Accept, L!AcceptTcp, L!AcceptTls, L!task_vars

\* A connection that is given away.
LEMMA ForwardKeeps ==
    ASSUME ListenersInv, NEW c \in Conns, L!Forward(c)
    PROVE  ListenersInv'
<1>1. TcpListeners \cap TlsListeners = {}
  BY ValveAssumption DEF L!ListenersAssumption
<1>. QED BY <1>1, MoveKeeps, StagesFacts DEF L!Forward, L!task_vars

\* What a listener step does to the connections: one arrives, or some go on
\* or are dropped.  It takes no stream and touches none that it has given away.
LEMMA InternalEffect ==
    ASSUME ListenersInv, L!Internal
    PROVE  /\ \A c \in Conns : stage'[c] = "forwarded" <=> stage[c] = "forwarded"
           /\ \A c \in Conns : stage'[c] \in L!Accepted => stage[c] \in L!Accepted
           /\ \A c \in Conns : stage[c] = "forwarded" =>
                 via'[c] = via[c] /\ host'[c] = host[c]
           /\ \/ \E c \in Conns : /\ stage[c] = "new"
                                  /\ stage' = [stage EXCEPT ![c] = "backlog"]
              \/ \A c \in Conns : \/ stage'[c] = stage[c]
                                  \/ /\ stage[c] \in Waiting
                                     /\ stage'[c] \in Waiting \cup {"dropped"}
<1>. DEFINE Effect ==
       /\ \A c \in Conns : stage'[c] = "forwarded" <=> stage[c] = "forwarded"
       /\ \A c \in Conns : stage'[c] \in L!Accepted => stage[c] \in L!Accepted
       /\ \A c \in Conns : stage[c] = "forwarded" =>
             via'[c] = via[c] /\ host'[c] = host[c]
       /\ \/ \E c \in Conns : /\ stage[c] = "new"
                              /\ stage' = [stage EXCEPT ![c] = "backlog"]
          \/ \A c \in Conns : \/ stage'[c] = stage[c]
                              \/ /\ stage[c] \in Waiting
                                 /\ stage'[c] \in Waiting \cup {"dropped"}
<1>. USE StagesFacts DEF L!task_vars, ListenersInv, L!ListenersTypeOK
<1>1. ASSUME NEW c \in Conns, NEW from \in L!Accepted \cup {"backlog"},
             NEW to, L!Move(c, from, to),
             to = "dropped" \/ (from \in L!Accepted /\ to \in L!Accepted),
             UNCHANGED via, \A d \in Conns \ {c} : host'[d] = host[d]
      PROVE  Effect
  BY <1>1 DEF L!Move
<1>2. ASSUME NEW l, NEW S \in SUBSET Waiting, L!Close(l, S), UNCHANGED <<via, host>>
      PROVE  Effect
  BY <1>2 DEF L!Close
<1>3. CASE L!TlsListenReturns
  BY <1>3 DEF L!TlsListenReturns
<1>4. ASSUME NEW l \in TcpListeners, L!TcpListenerDies(l) PROVE Effect
  BY <1>2, <1>4 DEF L!TcpListenerDies
<1>5. ASSUME NEW l \in TlsListeners, L!TlsListenerDies(l) \/ L!TlsListenerAborted(l)
      PROVE  Effect
  BY <1>2, <1>5 DEF L!TlsListenerDies, L!TlsListenerAborted
<1>6. ASSUME NEW c \in Conns, NEW l, L!ClientConnects(c, l) PROVE Effect
  BY <1>6 DEF L!ClientConnects, L!Move
<1>7. ASSUME NEW c \in Conns, L!ClientSends(c) PROVE Effect
  BY <1>7 DEF L!ClientSends
<1>8. ASSUME NEW c \in Conns, L!AcceptFails(c) PROVE Effect
  BY <1>1, <1>8 DEF L!AcceptFails
<1>9. ASSUME NEW c \in Conns, L!PeekFails(c) PROVE Effect
  BY <1>1, <1>9 DEF L!PeekFails
<1>10. ASSUME NEW c \in Conns, L!PeekHeader(c) PROVE Effect
  BY <1>1, <1>10 DEF L!PeekHeader
<1>11. ASSUME NEW c \in Conns, L!PeekHello(c) PROVE Effect
  <2>1. PICK name :
           /\ host' = [host EXCEPT ![c] = name]
           /\ L!Move(c, "peek_hello", IF name \in DOMAIN DestinationProvider
                                      THEN "tls_send" ELSE "dropped")
    BY <1>11 DEF L!PeekHello
  <2>. QED BY <1>1, <1>11, <2>1 DEF L!PeekHello
<1>12. ASSUME NEW c \in Conns, L!TaskAborted(c) PROVE Effect
  <2>1. L!Move(c, stage[c], "dropped") /\ stage[c] \in L!TlsTask
    BY <1>12 DEF L!TaskAborted, L!Move
  <2>. QED BY <1>1, <1>12, <2>1 DEF L!TaskAborted, L!TlsTask
<1>. QED
  BY <1>3, <1>4, <1>5, <1>6, <1>7, <1>8, <1>9, <1>10, <1>11, <1>12
     DEF L!Internal, L!Peek

\* An accept takes one connection from the backlog.
LEMMA AcceptEffect ==
    ASSUME ListenersInv, NEW c \in Conns, L!Accept(c)
    PROVE  /\ stage[c] = "backlog"
           /\ stage'[c] \in L!Accepted
           /\ \A d \in Conns \ {c} : stage'[d] = stage[d]
           /\ UNCHANGED <<via, host>>
BY StagesFacts DEF L!Accept, L!AcceptTcp, L!AcceptTls, L!Move, ListenersInv, L!ListenersTypeOK

\* A connection that is given away comes from a known place.
LEMMA ForwardEffect ==
    ASSUME ListenersInv, NEW c \in Conns, L!Forward(c)
    PROVE  /\ stage[c] \in L!Accepted
           /\ stage' = [stage EXCEPT ![c] = "forwarded"]
           /\ UNCHANGED <<via, host>>
           /\ via[c] \in TcpListeners \/ host[c] \in DOMAIN DestinationProvider
           /\ via[c] \in TcpListeners \cup TlsListeners
BY StagesFacts DEF L!Forward, L!Move, ListenersInv, L!ListenersTypeOK

-----------------------------------------------------------------------------
(* The running server. *)

\* The load balancer has a connection exactly when a listener has given it
\* away, and with the destination of that listener.
Handover ==
    \A c \in Conns :
        /\ stage[c] = "forwarded" <=> destination[c] # NoDest
        /\ stage[c] = "forwarded" => destination[c] = L!ForwardDestination(c)

\* The inductive invariant, but for the descriptors.
VInv ==
    /\ ListenersInv
    /\ LB!IInv
    /\ limit \in Limits
    /\ files \subseteq Conns
    /\ run \in {"listeners and load balancer", "load balancer"}
    /\ Handover

\* forward_conn is given a destination of the configuration.
LEMMA KnownDestination ==
    ASSUME NEW c, \/ via[c] \in TcpListeners
                  \/ host[c] \in DOMAIN DestinationProvider
    PROVE  L!ForwardDestination(c) \in LB!Destinations
<1>1. /\ TcpDestination \in [TcpListeners -> L!PossibleDestinations]
      /\ DestinationProvider \in [DOMAIN DestinationProvider -> L!PossibleDestinations]
  BY ValveAssumption DEF L!ListenersAssumption
<1>. QED
  BY <1>1 DEF L!ForwardDestination, L!HasService, L!ForwardTable, L!GetOnlyDestination,
              L!PossibleDestinations

\* The end of the last Sender touches nothing but the Sender.
LEMMA LetGoEffect ==
    ASSUME LetGo
    PROVE  /\ LB!DropSenders
           /\ UNCHANGED <<queue, destination, conn_tracker, target, tried, sockets,
                          task_tracker, files>>
BY DEF LetGo, LB!DropSenders

\* A step of the load balancer leaves listeners and destinations alone.
LEMMA LoadBalancerEffect ==
    ASSUME LoadBalancerStep
    PROVE  /\ LB!Internal \/ LB!DropSenders
           /\ UNCHANGED <<l_vars, limit, run, destination>>
           /\ files \subseteq Conns => files' \subseteq Conns
<1>. USE DEF LB!Internal, LB!channel_vars
<1>1. CASE Receive
  BY <1>1 DEF LoadBalancerStep, Receive, LB!Recv, LB!RecvNone
<1>2. ASSUME NEW c \in Conns,
             HandleConnection(c) \/ AttemptEnds(c) \/ Established(c)
      PROVE  /\ LB!Internal
             /\ UNCHANGED destination
             /\ files \subseteq Conns => files' \subseteq Conns
  BY <1>2 DEF HandleConnection, AttemptEnds, Established, ConnectSucceeds, Refused,
              TimedOut, ConnectNext, LB!HandleConnection, LB!AttemptEnds,
              LB!Established, LB!ConnectSucceeds, LB!Refused, LB!TimedOut
<1>3. ASSUME NEW c \in Conns, NEW m \in Machines, CopyEnds(c, m)
      PROVE  /\ LB!Internal
             /\ UNCHANGED destination
             /\ files \subseteq Conns => files' \subseteq Conns
  BY <1>3 DEF CopyEnds, LB!CopyEnds
<1>. QED BY <1>1, <1>2, <1>3, LetGoEffect DEF LoadBalancerStep

\* The invariant at the start ...
LEMMA InitVInv == Init => VInv
<1>. SUFFICES ASSUME Init PROVE VInv
  OBVIOUS
<1>1. ListenersInv /\ LB!IInv
  BY ListenersInit, LoadBalancerInit DEF Init
<1>2. Handover
  BY DEF Init, L!Init, LB!Init, Handover
<1>. QED BY <1>1, <1>2 DEF Init, VInv

\* The listeners are senders as module LoadBalancer knows them.
LEMMA LoadBalancerSteps == ListenersInv /\ [Next]_vars => [LB!Next]_LB!vars
<1>. SUFFICES ASSUME ListenersInv, [Next]_vars PROVE LB!Next \/ UNCHANGED lb_vars
  BY DEF LB!vars, lb_vars
<1>1. CASE LoadBalancerStep
  BY <1>1, LoadBalancerEffect DEF LB!Next
<1>2. ASSUME NEW c \in Conns, ForwardConn(c) PROVE LB!Next
  BY <1>2, ForwardEffect, KnownDestination DEF ForwardConn, LB!Next
<1>3. CASE ListenReturns
  BY <1>3 DEF ListenReturns
<1>4. ASSUME NEW c \in Conns, Accept(c) PROVE UNCHANGED lb_vars
  BY <1>4 DEF Accept
<1>. QED BY <1>1, <1>2, <1>3, <1>4 DEF Next, vars

\* ... and after every step.
LEMMA NextVInv == VInv /\ [Next]_vars => VInv'
<1>. SUFFICES ASSUME VInv, [Next]_vars PROVE VInv'
  OBVIOUS
<1>. USE DEF VInv
<1>1. LB!IInv'
  BY LoadBalancerSteps, LoadBalancerNext
<1>. DEFINE Rest == /\ ListenersInv'
                    /\ limit' \in Limits
                    /\ files' \subseteq Conns
                    /\ run' \in {"listeners and load balancer", "load balancer"}
                    /\ Handover'
<1>2. ASSUME UNCHANGED <<l_vars, destination>> PROVE ListenersInv' /\ Handover'
  BY <1>2 DEF l_vars, ListenersInv, L!ListenersTypeOK, Handover, L!ForwardDestination
<1>3. ASSUME L!Internal, UNCHANGED <<lb_vars, limit, files, run>> PROVE Rest
  <2>1. Handover'
    BY <1>3, InternalEffect DEF lb_vars, Handover, L!ForwardDestination
  <2>. QED BY <1>3, <2>1, InternalKeeps
<1>4. ASSUME LoadBalancerStep PROVE Rest
  BY <1>2, <1>4, LoadBalancerEffect
<1>5. ASSUME ListenReturns PROVE Rest
  BY <1>2, <1>5 DEF ListenReturns, lb_vars
<1>6. ASSUME NEW c \in Conns, Accept(c) PROVE Rest
  <2>1. L!Accept(c) /\ UNCHANGED <<lb_vars, limit, files, run>>
    BY <1>6 DEF Accept
  <2>2. Handover'
    BY <2>1, AcceptEffect, StagesFacts DEF lb_vars, Handover, L!ForwardDestination
  <2>. QED BY <2>1, <2>2, AcceptKeeps
<1>7. ASSUME NEW c \in Conns, ForwardConn(c) PROVE Rest
  <2>1. /\ L!Forward(c)
        /\ destination' = [destination EXCEPT ![c] = L!ForwardDestination(c)]
        /\ UNCHANGED <<limit, files, run>>
    BY <1>7 DEF ForwardConn, LB!Send
  <2>2. L!ForwardDestination(c) # NoDest
    <3>1. L!ForwardDestination(c) \in LB!Destinations
      BY <2>1, ForwardEffect, KnownDestination
    <3>2. NoDest \notin LB!Destinations
      BY ValveAssumption DEF L!ListenersAssumption
    <3>. QED BY <3>1, <3>2
  <2>3. DOMAIN destination = Conns /\ DOMAIN stage = Conns
    BY DEF LB!IInv, LB!TypeOK, ListenersInv, L!ListenersTypeOK
  <2>4. Handover'
    BY <2>1, <2>2, <2>3, ForwardEffect DEF Handover, L!ForwardDestination
  <2>. QED BY <2>1, <2>4, ForwardKeeps
<1>8. ASSUME UNCHANGED vars PROVE Rest
  BY <1>2, <1>8 DEF vars, lb_vars
<1>9. Rest
  BY <1>3, <1>4, <1>5, <1>6, <1>7, <1>8 DEF Next
<1>. QED BY <1>1, <1>9

\* Handover, the owners of module LoadBalancer and the types hold throughout.
THEOREM Invariance == Spec => []VInv
BY InitVInv, NextVInv, PTL DEF Spec

\* The variables of listeners, load balancer and Server::run keep their types.
THEOREM TypeCorrect == Spec => []TypeOK
<1>1. VInv => TypeOK
  BY DEF VInv, ListenersInv, LB!IInv, TypeOK
<1>. QED BY <1>1, Invariance, PTL

\* A listener gives a connection away once (forward_conn), and the load
\* balancer touches none that it was not given.
THEOREM HandsOverOnce == Spec => []HandedOverOnce
<1>1. VInv => HandedOverOnce
  BY DEF VInv, Handover, LB!IInv, LB!FreshConnections, LB!Range, Range, HandedOverOnce
<1>. QED BY <1>1, Invariance, PTL

\* The listeners use the load balancer as module LoadBalancer says: whatever
\* is proved of the one behind its channel holds of the one in the server.
THEOREM ImplementsLoadBalancer == Spec => LB!Init /\ [][LB!Next]_LB!vars
<1>1. Init => LB!Init
  BY DEF Init
<1>2. VInv => ListenersInv
  BY DEF VInv
<1>. QED BY <1>1, <1>2, LoadBalancerSteps, Invariance, PTL DEF Spec

\* The checking and the choosing of machines agree.
LEMMA AllowedIsCandidate ==
    ASSUME NEW d \in LB!Destinations, NEW m \in Machines, LB!Allows(d, m)
    PROVE  m \in LB!Candidates(d)
<1>1. \/ d.kind = "PortOnly"
      \/ d.kind = "InternalService"
      \/ d.kind = "Socket"
      \/ d.kind = "PortAndAddrs"
  BY DEF LB!Destinations, LB!PortOnly, LB!Socket, LB!PortAndAddrs, LB!InternalService
<1>2. CASE d.kind = "PortOnly"
  BY <1>2 DEF LB!Candidates
<1>3. CASE d.kind \in {"Socket", "PortAndAddrs"}
  <2>1. LB!Candidates(d) = d.addrs \cap Machines
    BY <1>3 DEF LB!Candidates
  <2>. QED BY <1>3, <2>1 DEF LB!Allows
<1>. QED BY <1>1, <1>2, <1>3 DEF LB!Allows

-----------------------------------------------------------------------------
(* Hosts. *)

\* What a client sends and what has arrived of it.
LEMMA ArrivedFacts ==
    ASSUME ListenersInv, NEW c \in Conns, via[c] \in TlsListeners
    PROVE  \E S : /\ L!Request(c) \in Seq(S) /\ L!Arrived(c) \in Seq(S)
                  /\ BeginsWith(S, L!Request(c), L!Arrived(c))
                  /\ sent[c] = Len(request[c]) => L!Arrived(c) = L!Request(c)
<1>. DEFINE r == request[c]
            n == sent[c]
            S == UNION {L!Range(r[k]) : k \in DOMAIN r}
            a == First(r, n)
<1>1. r \in Requests
  BY DEF ListenersInv
<1>2. r \in Seq(L!Range(r)) /\ \A k \in DOMAIN r : r[k] \in Seq(L!Range(r[k]))
  BY <1>1, ValveAssumption DEF L!ListenersAssumption
<1>3. n \in 0..Len(r)
  <2>1. Len(r) \in Nat
    BY <1>2
  <2>2. n \in Nat /\ (n > 0 => n <= Len(r))
    BY DEF ListenersInv, L!ListenersTypeOK
  <2>. HIDE DEF n, r
  <2>. QED BY <2>1, <2>2
<1>4. r \in Seq(Seq(S))
  <2>. HIDE DEF r
  <2>1. DOMAIN r = 1..Len(r) /\ Len(r) \in Nat /\ r \in [1..Len(r) -> L!Range(r)]
    BY <1>2
  <2>2. ASSUME NEW k \in DOMAIN r PROVE r[k] \in Seq(S)
    <3>1. L!Range(r[k]) \subseteq S
      OBVIOUS
    <3>. HIDE DEF S
    <3>. QED BY <1>2, <3>1, SeqMonotonic
  <2>. HIDE DEF S
  <2>. QED BY <2>1, <2>2
<1>. HIDE DEF r, n, S
<1>5. /\ a \in Seq(Seq(S)) /\ BeginsWith(Seq(S), r, a)
      /\ Len(a) = n /\ \A i \in 1..n : a[i] = r[i]
  BY <1>3, <1>4, Beginning
<1>6. BeginsWith(S, FlattenSeq(r), FlattenSeq(a)) /\ FlattenSeq(r) \in Seq(S) /\ FlattenSeq(a) \in Seq(S)
  <2>. HIDE DEF a
  <2>. QED BY <1>4, <1>5, FlattenBeginning, FlattenType
<1>7. L!Request(c) = FlattenSeq(r) /\ L!Arrived(c) = FlattenSeq(a)
  BY SameStrings DEF L!Request, L!Arrived, First, r, n
<1>8. n = Len(r) => a = r
  <2>. SUFFICES ASSUME n = Len(r) PROVE a = r
    OBVIOUS
  <2>. HIDE DEF a
  <2>. QED BY <1>4, <1>5, SeqEqual
<1>. QED BY <1>6, <1>7, <1>8 DEF r, n

\* A name that the second peek gives and that is known is the one asked for.
LEMMA KnownNameIsAskedFor ==
    ASSUME ListenersInv, NEW c \in Conns, via[c] \in TlsListeners,
           L!AsksInBuffer(L!Request(c)),
           NEW name \in L!NamesFound(L!Arrived(c), L!Request(c)),
           name \in DOMAIN DestinationProvider
    PROVE  name = L!AskedFor(L!Request(c))
<1>. DEFINE R == L!Request(c)
            A == L!Arrived(c)
<1>1. PICK S : R \in Seq(S) /\ A \in Seq(S) /\ BeginsWith(S, R, A)
  BY ArrivedFacts
<1>2. HttpBuffer \in Nat \ {0} /\ name # NoName /\ HN!IsKey(name)
  BY ValveAssumption, SameNames DEF L!ListenersAssumption
<1>3. HN!AsksInBuffer(R) /\ name \in HN!NamesFound(A, R) /\ HN!AskedFor(R) = L!AskedFor(R)
  BY SameNames
<1>. HIDE DEF R, A
<1>4. HN!BeginsWith(S, R, A)
  BY <1>1 DEF BeginsWith, HN!BeginsWith
<1>5. name = HN!AskedFor(R)
  BY <1>1, <1>2, <1>3, <1>4, HN!FoundIsAsked
<1>. QED BY <1>3, <1>5 DEF R

\* Only the second peek finds a host; afterwards nothing changes about it.
LEMMA HostStays ==
    ASSUME ListenersInv, [Next]_vars, NEW c \in Conns, ~L!PeekHello(c),
           stage'[c] \in {"tls_send", "forwarded"}, via'[c] \in TlsListeners
    PROVE  /\ stage[c] \in {"tls_send", "forwarded"} /\ via[c] \in TlsListeners
           /\ host'[c] = host[c] /\ request'[c] = request[c]
<1>. DEFINE Stays == /\ stage[c] \in {"tls_send", "forwarded"} /\ via[c] \in TlsListeners
                    /\ host'[c] = host[c] /\ request'[c] = request[c]
<1>. USE StagesFacts DEF L!task_vars, ListenersInv, L!ListenersTypeOK
<1>1. ASSUME NEW d \in Conns, NEW from, NEW to, L!Move(d, from, to),
             d = c => to \notin {"tls_send", "forwarded"}, UNCHANGED <<via, host, request>>
      PROVE  Stays
  BY <1>1 DEF L!Move
<1>2. ASSUME NEW l, NEW S, L!Close(l, S), UNCHANGED <<via, request, host>>
      PROVE  Stays
  BY <1>2 DEF L!Close
<1>3. ASSUME NEW d \in Conns, NEW l, L!ClientConnects(d, l) PROVE Stays
  BY <1>3 DEF L!ClientConnects, L!Move
<1>4. ASSUME NEW d \in Conns, L!PeekHello(d) PROVE Stays
  <2>1. PICK name :
           /\ host' = [host EXCEPT ![d] = name]
           /\ L!Move(d, "peek_hello", IF name \in DOMAIN DestinationProvider
                                      THEN "tls_send" ELSE "dropped")
    BY <1>4 DEF L!PeekHello
  <2>2. d # c
    BY <1>4
  <2>. QED BY <1>4, <2>1, <2>2 DEF L!PeekHello, L!Move
<1>5. ASSUME NEW d \in Conns, L!PeekHeader(d) PROVE Stays
  BY <1>1, <1>5 DEF L!PeekHeader
<1>6. ASSUME NEW d \in Conns, L!PeekFails(d) \/ L!AcceptFails(d) PROVE Stays
  BY <1>1, <1>6 DEF L!PeekFails, L!AcceptFails
<1>7. ASSUME NEW d \in Conns, L!TaskAborted(d) PROVE Stays
  BY <1>7 DEF L!TaskAborted
<1>8. ASSUME NEW d \in Conns, L!ClientSends(d) PROVE Stays
  BY <1>8 DEF L!ClientSends
<1>9. CASE L!TlsListenReturns
  BY <1>9 DEF L!TlsListenReturns
<1>10. ASSUME NEW l, L!TcpListenerDies(l) \/ L!TlsListenerDies(l) \/ L!TlsListenerAborted(l)
       PROVE  Stays
  BY <1>2, <1>10 DEF L!TcpListenerDies, L!TlsListenerDies, L!TlsListenerAborted
<1>11. ASSUME L!Internal PROVE Stays
  BY <1>3, <1>4, <1>5, <1>6, <1>7, <1>8, <1>9, <1>10, <1>11 DEF L!Internal, L!Peek
<1>12. ASSUME UNCHANGED l_vars PROVE Stays
  BY <1>12 DEF l_vars
<1>13. ASSUME NEW d \in Conns, L!Accept(d) PROVE Stays
  BY <1>1, <1>13 DEF L!Accept, L!AcceptTcp, L!AcceptTls
<1>14. ASSUME NEW d \in Conns, L!Forward(d) PROVE Stays
  <2>1. TcpListeners \cap TlsListeners = {}
    BY ValveAssumption DEF L!ListenersAssumption
  <2>2. /\ stage[d] = IF via[d] \in TcpListeners THEN "tcp_send" ELSE "tls_send"
        /\ stage' = [stage EXCEPT ![d] = "forwarded"]
        /\ UNCHANGED <<via, request, host>>
    BY <1>14 DEF L!Forward, L!Move
  <2>. QED BY <2>1, <2>2
<1>. QED
  BY <1>11, <1>12, <1>13, <1>14, LoadBalancerEffect
     DEF Next, vars, ListenReturns, Accept, ForwardConn

\* HostIsAskedFor is inductive, given what is known of the listeners.
LEMMA NextHostIsAskedFor ==
    ListenersInv /\ HostIsAskedFor /\ [Next]_vars => HostIsAskedFor'
<1>. SUFFICES ASSUME ListenersInv, HostIsAskedFor, [Next]_vars, NEW c \in Conns,
                     stage'[c] \in {"tls_send", "forwarded"},
                     via'[c] \in TlsListeners,
                     L!AsksInBuffer(L!Request(c)')
              PROVE  host'[c] = L!AskedFor(L!Request(c)')
  BY DEF HostIsAskedFor
<1>1. CASE L!PeekHello(c)
  <2>1. PICK name \in L!NamesFound(L!Arrived(c), L!Request(c)) :
           /\ host' = [host EXCEPT ![c] = name]
           /\ L!Move(c, "peek_hello", IF name \in DOMAIN DestinationProvider
                                      THEN "tls_send" ELSE "dropped")
    BY <1>1 DEF L!PeekHello
  <2>2. host'[c] = name /\ stage' = [stage EXCEPT ![c] = IF name \in DOMAIN DestinationProvider
                                                       THEN "tls_send" ELSE "dropped"]
    BY <2>1 DEF L!Move, ListenersInv
  <2>3. name \in DOMAIN DestinationProvider
    BY <2>2 DEF ListenersInv, L!ListenersTypeOK
  <2>4. via'[c] = via[c] /\ L!Request(c)' = L!Request(c)
    BY <1>1 DEF L!PeekHello, L!Request
  <2>5. name = L!AskedFor(L!Request(c))
    BY <2>1, <2>3, <2>4, KnownNameIsAskedFor
  <2>. QED BY <2>2, <2>4, <2>5
<1>2. CASE ~L!PeekHello(c)
  <2>1. /\ stage[c] \in {"tls_send", "forwarded"} /\ via[c] \in TlsListeners
        /\ host'[c] = host[c] /\ request'[c] = request[c]
    BY <1>2, HostStays
  <2>2. L!Request(c)' = L!Request(c)
    BY <2>1 DEF L!Request
  <2>. QED BY <2>1, <2>2 DEF HostIsAskedFor
<1>. QED BY <1>1, <1>2

\* Whatever get_backend_port has seen of a request when it looks the host up,
\* a connection goes on only to the host that its whole request asks for.
THEOREM GoesWhereAsked == Spec => []HostIsAskedFor
<1>1. Init => HostIsAskedFor
  BY DEF Init, L!Init, HostIsAskedFor
<1>2. VInv /\ HostIsAskedFor /\ [Next]_vars => HostIsAskedFor'
  BY NextHostIsAskedFor DEF VInv
<1>. QED BY <1>1, <1>2, Invariance, PTL DEF Spec

\* A whole request for a known host that is TLS or names its port gets through
\* extract_sni_from_tls_ch or extract_host_from_http_header.
THEOREM LetsKnownHostsThrough == Spec => KnownHostWithPort
<1>1. ASSUME VInv, [Next]_vars PROVE [\A c \in Conns :
          /\ L!PeekHello(c) /\ sent[c] = Len(request[c])
          /\ Readable(c)
          /\ L!IsTls(L!Request(c)) \/ L!HasPort(L!Request(c))
          => stage'[c] = "tls_send"]_vars
  <2>. SUFFICES ASSUME NEW c \in Conns,
                       L!PeekHello(c), sent[c] = Len(request[c]), Readable(c),
                       L!IsTls(L!Request(c)) \/ L!HasPort(L!Request(c))
                PROVE  stage'[c] = "tls_send"
    OBVIOUS
  <2>. DEFINE R == L!Request(c)
  <2>1. ListenersInv /\ via[c] \in TlsListeners
    BY <1>1, StagesFacts DEF VInv, ListenersInv, L!PeekHello
  <2>2. PICK S : R \in Seq(S) /\ L!Arrived(c) = R
    BY <2>1, ArrivedFacts
  <2>3. PICK name \in L!NamesFound(R, R) :
           L!Move(c, "peek_hello", IF name \in DOMAIN DestinationProvider
                                   THEN "tls_send" ELSE "dropped")
    BY <2>2 DEF L!PeekHello
  <2>4. /\ HN!AsksInBuffer(R)
        /\ HN!IsTls(R) \/ HN!HasPort(R)
        /\ name \in HN!NamesFound(R, R) /\ HN!AskedFor(R) = L!AskedFor(R)
    BY SameNames, SameValues DEF Readable
  <2>5. HttpBuffer \in Nat \ {0}
    BY ValveAssumption DEF L!ListenersAssumption
  <2>6. L!AskedFor(R) \in DOMAIN DestinationProvider /\ \A k \in DOMAIN R : R[k] # "bad"
    BY DEF Readable
  <2>. HIDE DEF R
  <2>7. \A k \in 1..Len(R) : R[k] # "bad"
    BY <2>2, <2>6
  <2>8. name = HN!AskedFor(R)
    BY <2>2, <2>4, <2>5, <2>7, HN!WholeRequestIsRead
  <2>9. L!Move(c, "peek_hello", "tls_send")
    BY <2>3, <2>4, <2>6, <2>8
  <2>. QED BY <2>1, <2>9 DEF L!Move, ListenersInv, L!ListenersTypeOK
<1>. QED BY <1>1, Invariance, PTL DEF Spec, KnownHostWithPort

\* A machine serves only what is configured for it, whatever the network has
\* done to the requests.
THEOREM ServesAsConfigured == Spec => []ServedAsConfigured
<1>1. ASSUME VInv, HostIsAskedFor PROVE ServedAsConfigured
  <2>. SUFFICES ASSUME NEW m \in Machines, NEW c \in task_tracker[m]
                PROVE  \/ /\ via[c] \in TcpListeners
                          /\ m \in LB!Candidates(TcpDestination[via[c]].destination)
                       \/ via[c] \in TlsListeners /\ ~L!AsksInBuffer(L!Request(c))
                       \/ /\ via[c] \in TlsListeners
                          /\ L!AskedFor(L!Request(c)) \in DOMAIN DestinationProvider
                          /\ m \in LB!Candidates(DestinationProvider[L!AskedFor(L!Request(c))].destination)
    BY DEF ServedAsConfigured
  <2>. USE <1>1 DEF VInv
  <2>1. c \in Conns
    BY DEF LB!IInv, LB!TypeOK
  <2>2. LB!Allows(destination[c], m)
    BY DEF LB!IInv, LB!ServedByAllowedMachine
  <2>3. stage[c] = "forwarded" /\ destination[c] = L!ForwardDestination(c)
    BY <2>1 DEF LB!IInv, LB!FreshConnections, Handover
  <2>4. destination[c] \in LB!Destinations
    BY <2>1, <2>3 DEF LB!IInv, LB!TypeOK, Handover
  <2>5. m \in LB!Candidates(L!ForwardDestination(c))
    BY <2>2, <2>3, <2>4, AllowedIsCandidate
  <2>6. via[c] \in TcpListeners \cup TlsListeners
    BY <2>1, <2>3 DEF ListenersInv, L!ListenersTypeOK
  <2>7. CASE via[c] \in TcpListeners
    BY <2>5, <2>7 DEF L!ForwardDestination, L!HasService, L!ForwardTable, L!GetOnlyDestination
  <2>8. CASE via[c] \in TlsListeners /\ via[c] \notin TcpListeners
    <3>1. L!ForwardDestination(c) = DestinationProvider[host[c]].destination
      BY <2>8 DEF L!ForwardDestination, L!GetOnlyDestination
    <3>2. host[c] \in DOMAIN DestinationProvider
      BY <2>1, <2>3, <2>8 DEF ListenersInv
    <3>3. L!AsksInBuffer(L!Request(c)) => host[c] = L!AskedFor(L!Request(c))
      BY <2>1, <2>3, <2>8 DEF HostIsAskedFor
    <3>. QED BY <2>5, <2>8, <3>1, <3>2, <3>3
  <2>. QED BY <2>6, <2>7, <2>8
<1>. QED BY <1>1, GoesWhereAsked, Invariance, PTL

-----------------------------------------------------------------------------
(* Listeners that die. *)

\* BoundSimpleTcpHandler::listen goes on when one of its tasks has ended: no
\* other listener ends with it, and only its own connections are dropped.
THEOREM TcpDeathsAreLocal == Spec => TcpListenersFailAlone
<1>. DEFINE Alone ==
       \A l \in TcpListeners : l \in listening /\ l \notin listening' =>
          /\ listening \ listening' = {l}
          /\ \A c \in Conns : stage'[c] # stage[c] =>
                via[c] = l /\ stage[c] \in {"backlog", "tcp_send"}
<1>1. ASSUME [Next]_vars PROVE Alone
  <2>1. CASE UNCHANGED listening
    BY <2>1
  <2>2. ASSUME NEW k \in TcpListeners, L!TcpListenerDies(k) PROVE Alone
    BY <2>2 DEF L!TcpListenerDies, L!Close
  <2>3. ASSUME NEW k \in TlsListeners, L!TlsListenerDies(k) \/ L!TlsListenerAborted(k)
        PROVE  Alone
    BY <2>3, ValveAssumption
       DEF L!ListenersAssumption, L!TlsListenerDies, L!TlsListenerAborted, L!Close
  <2>4. \/ UNCHANGED listening
        \/ \E k \in TcpListeners : L!TcpListenerDies(k)
        \/ \E k \in TlsListeners : L!TlsListenerDies(k) \/ L!TlsListenerAborted(k)
    <3>1. L!Internal =>
            \/ UNCHANGED listening
            \/ \E k \in TcpListeners : L!TcpListenerDies(k)
            \/ \E k \in TlsListeners : L!TlsListenerDies(k) \/ L!TlsListenerAborted(k)
      BY DEF L!Internal, L!TlsListenReturns, L!ClientConnects, L!ClientSends,
             L!AcceptFails, L!Peek, L!PeekFails, L!PeekHeader, L!PeekHello,
             L!TaskAborted, L!task_vars
    <3>2. LoadBalancerStep => UNCHANGED listening
      BY DEF LoadBalancerStep, l_vars
    <3>3. \A c \in Conns : Accept(c) \/ ForwardConn(c) => UNCHANGED listening
      BY DEF Accept, ForwardConn, L!Accept, L!AcceptTcp, L!AcceptTls, L!Forward, L!task_vars
    <3>. QED BY <1>1, <3>1, <3>2, <3>3 DEF Next, ListenReturns, vars, l_vars
  <2>. QED BY <2>1, <2>2, <2>3, <2>4
<1>. QED BY <1>1, PTL DEF Spec, TcpListenersFailAlone

-----------------------------------------------------------------------------
(* Owners and descriptors. *)

\* The parts of the load balancer's invariant that say who has a connection.
LEMMA Owners ==
    ASSUME VInv
    PROVE  /\ queue \in Seq(Conns) /\ IsInjective(queue)
           /\ conn_tracker \subseteq Conns
           /\ target \in [Conns -> Machines \cup {NoMachine}]
           /\ task_tracker \in [Machines -> SUBSET Conns]
           /\ sockets \in [Machines -> SUBSET Conns]
           /\ \A c \in Conns : target[c] # NoMachine => c \in conn_tracker
           /\ \A c \in conn_tracker : /\ c \notin Range(queue) /\ ~Served(c)
                                      /\ destination[c] \in LB!Destinations
           /\ \A c \in Range(queue) : ~Served(c)
           /\ \A m \in Machines : \A c \in sockets[m] :
                 c \in task_tracker[m] \/ target[c] = m
           /\ \A m \in Machines : \A n \in Machines \ {m} :
                 task_tracker[m] \cap task_tracker[n] = {}
<1>1. \A c \in conn_tracker : destination[c] \in LB!Destinations
  BY DEF VInv, LB!IInv, LB!TypeOK, LB!FreshConnections
<1>. QED
  BY <1>1 DEF VInv, LB!IInv, LB!TypeOK, LB!OneOwner, LB!AttemptsAccounted,
              LB!NoLeakedSocket, LB!Range, LB!IsInjective, Range, IsInjective, Served

\* What the end of an attempt does to the owner of a connection.
LEMMA TurnEffect ==
    ASSUME VInv, NEW c \in Conns, NEW list \in Seq(Machines), LB!TryNext(c, list)
    PROVE  /\ list = <<>> => conn_tracker' = conn_tracker \ {c} /\ target'[c] = NoMachine
           /\ list # <<>> => conn_tracker' = conn_tracker /\ target'[c] \in Machines
           /\ \A d \in Conns \ {c} : target'[d] = target[d]
<1>1. target \in [Conns -> Machines \cup {NoMachine}]
  BY Owners
<1>2. CASE list = <<>>
  BY <1>1, <1>2 DEF LB!TryNext
<1>3. CASE list # <<>>
  <2>1. list[Len(list)] \in Machines
    BY <1>3, EmptySeq, LenProperties
  <2>. QED BY <1>1, <1>3, <2>1 DEF LB!TryNext, LB!Last
<1>. QED BY <1>2, <1>3

\* A turn of the attempt loop, whichever step of its task leads to it.
Turn(c) == HandleConnection(c) \/ Refused(c) \/ TimedOut(c)

\* A turn of the loop settles whether its task goes on.
LEMMA TurnFacts ==
    ASSUME VInv, NEW c \in Conns, Turn(c)
    PROVE  /\ c \in conn_tracker
           /\ conn_tracker' = conn_tracker \/ conn_tracker' = conn_tracker \ {c}
           /\ target'[c] # NoMachine <=> c \in conn_tracker'
           /\ \A d \in Conns \ {c} : target'[d] = target[d]
           /\ UNCHANGED <<queue, destination, task_tracker>>
           /\ ConnectNext(c)
           /\ \A m \in Machines : sockets'[m] \subseteq sockets[m] \ {c}
<1>. USE Owners DEF LB!channel_vars
<1>1. NoMachine \notin Machines
  BY ValveAssumption
<1>2. CASE HandleConnection(c)
  <2>1. PICK list \in LB!BackendLists(destination[c]) : LB!TryNext(c, list)
    BY <1>2 DEF HandleConnection, LB!HandleConnection
  <2>2. c \in conn_tracker /\ target[c] = NoMachine /\ ConnectNext(c)
        /\ UNCHANGED <<queue, destination, task_tracker, sockets>>
    BY <1>2 DEF HandleConnection, LB!HandleConnection
  <2>3. destination[c] \in LB!Destinations
    BY <2>2
  <2>4. list \in Seq(Machines)
    BY <2>1, <2>3, FirstList
  <2>5. \A m \in Machines : c \notin sockets[m]
    BY <1>1, <2>2 DEF Served
  <2>. QED BY <1>1, <2>1, <2>2, <2>4, <2>5, TurnEffect
<1>3. CASE Refused(c) \/ TimedOut(c)
  <2>1. /\ target[c] \in Machines
        /\ LB!TryNext(c, backend_list[c])
        /\ UNCHANGED <<queue, destination, task_tracker>>
        /\ ConnectNext(c)
        /\ \/ c \notin sockets[target[c]] /\ UNCHANGED sockets
           \/ sockets' = [sockets EXCEPT ![target[c]] = @ \ {c}]
    BY <1>3 DEF Refused, TimedOut, LB!Refused, LB!TimedOut
  <2>2. c \in conn_tracker
    BY <1>1, <2>1
  <2>3. backend_list[c] \in Seq(Machines)
    BY DEF VInv, LB!IInv, LB!TypeOK
  <2>4. \A m \in Machines : c \in sockets[m] => m = target[c]
    BY <2>2 DEF Served
  <2>5. \A m \in Machines : sockets'[m] \subseteq sockets[m] \ {c}
    BY <2>1, <2>4
  <2>. QED BY <1>1, <2>1, <2>2, <2>3, <2>5, TurnEffect
<1>. QED BY <1>2, <1>3 DEF Turn

\* A step of the load balancer leaves no connection with more owners.
LEMMA OwnedShrinks ==
    ASSUME VInv, LoadBalancerStep, NEW d \in Conns, Owned(d)'
    PROVE  Owned(d)
<1>. USE Owners DEF Owned, Served, LB!channel_vars
<1>1. CASE Receive
  <2>1. LB!RecvNone => UNCHANGED <<queue, conn_tracker, task_tracker>>
    BY DEF LB!RecvNone
  <2>2. LB!Recv => /\ queue # <<>>
                   /\ queue' = Tail(queue)
                   /\ conn_tracker' = conn_tracker \cup {Head(queue)}
                   /\ UNCHANGED task_tracker
    BY DEF LB!Recv
  <2>3. queue # <<>> => Range(queue) = {Head(queue)} \cup Range(Tail(queue))
    BY HeadAndTail
  <2>. QED BY <1>1, <2>1, <2>2, <2>3 DEF Receive
<1>2. ASSUME NEW c \in Conns, Turn(c) PROVE Owned(d)
  BY <1>2, TurnFacts
<1>3. ASSUME NEW c \in Conns, Established(c) PROVE Owned(d)
  BY <1>3 DEF Established, LB!Established
<1>4. ASSUME NEW c \in Conns, ConnectSucceeds(c) PROVE Owned(d)
  <2>1. /\ target[c] \in Machines
        /\ task_tracker' = [task_tracker EXCEPT ![target[c]] = @ \cup {c}]
        /\ conn_tracker' = conn_tracker \ {c}
        /\ UNCHANGED queue
    BY <1>4 DEF ConnectSucceeds, LB!ConnectSucceeds
  <2>2. c \in conn_tracker
    BY <2>1, ValveAssumption
  <2>. QED BY <2>1, <2>2
<1>5. ASSUME NEW c \in Conns, NEW m \in Machines, CopyEnds(c, m) PROVE Owned(d)
  <2>1. /\ task_tracker' = [task_tracker EXCEPT ![m] = @ \ {c}]
        /\ UNCHANGED <<queue, conn_tracker>>
    BY <1>5 DEF CopyEnds, LB!CopyEnds
  <2>. QED BY <2>1
<1>6. CASE LetGo
  BY <1>6, LetGoEffect
<1>. QED BY <1>1, <1>2, <1>3, <1>4, <1>5, <1>6 DEF LoadBalancerStep, AttemptEnds, Turn

\* The descriptors of a process are finitely many, which makes counting them
\* meaningful.
FilesInv ==
    /\ IsFiniteSet(ClientFiles)
    /\ IsFiniteSet(files)
    /\ FilesAccounted

\* No new stream and no new socket.
LEMMA FewerFiles ==
    ASSUME FilesInv, ClientFiles' \subseteq ClientFiles, files' \subseteq files
    PROVE  /\ IsFiniteSet(ClientFiles')
           /\ IsFiniteSet(files')
           /\ OpenFiles' <= OpenFiles
<1>1. /\ IsFiniteSet(ClientFiles') /\ Cardinality(ClientFiles') <= Cardinality(ClientFiles)
      /\ IsFiniteSet(files') /\ Cardinality(files') <= Cardinality(files)
  BY FS_Subset DEF FilesInv
<1>2. /\ Cardinality(ClientFiles') \in Nat /\ Cardinality(ClientFiles) \in Nat
      /\ Cardinality(files') \in Nat /\ Cardinality(files) \in Nat
  BY <1>1, FS_CardinalityType DEF FilesInv
<1>. QED BY <1>1, <1>2 DEF OpenFiles

\* A connect takes a descriptor only if there is one.
LEMMA ConnectNextFiles ==
    ASSUME VInv, FilesInv, NEW c \in Conns, ConnectNext(c), ClientFiles' \subseteq ClientFiles
    PROVE  /\ IsFiniteSet(ClientFiles')
           /\ IsFiniteSet(files')
           /\ OpenFiles' <= limit
<1>1. limit \in Nat
  BY ValveAssumption DEF VInv
<1>2. /\ IsFiniteSet(ClientFiles') /\ Cardinality(ClientFiles') <= Cardinality(ClientFiles)
      /\ Cardinality(ClientFiles') \in Nat /\ Cardinality(ClientFiles) \in Nat
  BY FS_Subset, FS_CardinalityType DEF FilesInv
<1>3. /\ IsFiniteSet(files) /\ Cardinality(files) \in Nat
      /\ Cardinality(ClientFiles) + Cardinality(files) <= limit
  BY FS_CardinalityType DEF FilesInv, FilesAccounted, OpenFiles
<1>4. /\ IsFiniteSet(files \ {c}) /\ Cardinality(files \ {c}) \in Nat
      /\ Cardinality(files \ {c}) <= Cardinality(files)
  BY <1>3, FS_Subset, FS_CardinalityType
<1>5. CASE files' = files \ {c}
  BY <1>1, <1>2, <1>3, <1>4, <1>5 DEF OpenFiles
<1>6. CASE /\ files' = files \cup {c}
           /\ Cardinality(ClientFiles) + Cardinality(files \ {c}) < limit
  <2>1. files' = (files \ {c}) \cup {c} /\ c \notin files \ {c}
    BY <1>6
  <2>2. IsFiniteSet(files') /\ Cardinality(files') = Cardinality(files \ {c}) + 1
    BY <1>4, <2>1, FS_AddElement
  <2>. QED BY <1>1, <1>2, <1>4, <1>6, <2>2 DEF OpenFiles
<1>. QED BY <1>5, <1>6 DEF ConnectNext

\* The descriptors at the start ...
LEMMA InitFilesInv == Init => FilesInv
<1>. SUFFICES ASSUME Init PROVE FilesInv
  OBVIOUS
<1>1. ClientFiles = {}
  <2>1. Range(queue) = {}
    <3>1. queue = <<>>
      BY DEF Init, LB!Init
    <3>2. Range(<<>>) = {}
      BY DEF Range
    <3>. QED BY <3>1, <3>2
  <2>2. \A c \in Conns : ~Owned(c)
    BY <2>1 DEF Init, LB!Init, Owned, Served
  <2>3. \A c \in Conns : stage[c] = "new"
    BY DEF Init, L!Init
  <2>. QED BY <2>2, <2>3, StagesFacts DEF ClientFiles
<1>2. OpenFiles <= limit
  <2>1. files = {} /\ limit \in Nat
    BY ValveAssumption DEF Init
  <2>2. Cardinality({}) = 0
    BY FS_EmptySet
  <2>. QED BY <1>1, <2>1, <2>2 DEF OpenFiles
<1>. QED BY <1>1, <1>2, FS_EmptySet DEF Init, LB!Init, FilesInv, FilesAccounted

\* The sockets that a step leaves open keep their descriptors.
LEMMA LoadBalancerFiles ==
    ASSUME VInv, FilesInv, LoadBalancerStep
    PROVE  FilesInv'
<1>. USE Owners DEF LB!channel_vars
<1>1. ClientFiles' \subseteq ClientFiles
  BY OwnedShrinks, LoadBalancerEffect DEF ClientFiles, l_vars
<1>2. UNCHANGED limit
  BY LoadBalancerEffect
<1>. DEFINE Counted == /\ IsFiniteSet(ClientFiles')
                       /\ IsFiniteSet(files')
                       /\ OpenFiles' <= limit
            Held == /\ \A d \in files' : target'[d] # NoMachine \/ Served(d)'
                    /\ \A m \in Machines : sockets'[m] \subseteq files'
<1>3. ASSUME files' \subseteq files PROVE Counted
  <2>1. limit \in Nat /\ OpenFiles <= limit
    BY ValveAssumption DEF VInv, FilesInv, FilesAccounted
  <2>2. OpenFiles' \in Nat /\ OpenFiles \in Nat
    BY <1>1, <1>3, FewerFiles, FS_CardinalityType DEF OpenFiles, FilesInv
  <2>. QED BY <1>1, <1>3, <2>1, <2>2, FewerFiles
<1>. USE DEF FilesInv, FilesAccounted, Served
<1>4. ASSUME Receive PROVE Counted /\ Held
  BY <1>3, <1>4 DEF Receive, LB!Recv, LB!RecvNone
<1>5. ASSUME NEW c \in Conns, Turn(c) PROVE Counted /\ Held
  <2>1. Counted
    BY <1>1, <1>5, TurnFacts, ConnectNextFiles
  <2>2. /\ \A d \in Conns \ {c} : target'[d] = target[d]
        /\ UNCHANGED task_tracker
        /\ ConnectNext(c)
        /\ \A m \in Machines : sockets'[m] \subseteq sockets[m] \ {c}
    BY <1>5, TurnFacts
  <2>3. files \ {c} \subseteq files' /\ files' \subseteq files \cup {c}
        /\ (c \in files' => target'[c] # NoMachine)
    BY <2>2 DEF ConnectNext
  <2>4. files \subseteq Conns
    BY DEF VInv
  <2>. QED BY <2>1, <2>2, <2>3, <2>4
<1>6. ASSUME NEW c \in Conns, Established(c) PROVE Counted /\ Held
  <2>1. /\ c \in files
        /\ target[c] \in Machines
        /\ sockets' = [sockets EXCEPT ![target[c]] = @ \cup {c}]
        /\ UNCHANGED <<files, target, task_tracker>>
    BY <1>6 DEF Established, LB!Established
  <2>. QED BY <1>3, <2>1
<1>7. ASSUME NEW c \in Conns, ConnectSucceeds(c) PROVE Counted /\ Held
  <2>1. /\ target[c] \in Machines
        /\ task_tracker' = [task_tracker EXCEPT ![target[c]] = @ \cup {c}]
        /\ target' = [target EXCEPT ![c] = NoMachine]
        /\ UNCHANGED <<files, sockets>>
    BY <1>7 DEF ConnectSucceeds, LB!ConnectSucceeds
  <2>2. \A m \in Machines : task_tracker[m] \subseteq task_tracker'[m]
    BY <2>1
  <2>3. c \in task_tracker'[target[c]]
    BY <2>1
  <2>4. \A d \in files : d # c => target'[d] = target[d]
    BY <2>1 DEF VInv
  <2>. QED BY <1>3, <2>1, <2>2, <2>3, <2>4
<1>8. ASSUME NEW c \in Conns, NEW m \in Machines, CopyEnds(c, m) PROVE Counted /\ Held
  <2>1. /\ c \in task_tracker[m]
        /\ task_tracker' = [task_tracker EXCEPT ![m] = @ \ {c}]
        /\ sockets' = [sockets EXCEPT ![m] = @ \ {c}]
        /\ UNCHANGED target
        /\ files' = files \ {c}
    BY <1>8 DEF CopyEnds, LB!CopyEnds
  <2>2. \A n \in Machines : c \notin sockets'[n]
    <3>1. target[c] = NoMachine
      BY <2>1
    <3>2. NoMachine \notin Machines
      BY ValveAssumption
    <3>. QED BY <2>1, <3>1, <3>2
  <2>3. \A d \in files' : d # c /\ (Served(d) => Served(d)')
    BY <2>1
  <2>. QED BY <1>3, <2>1, <2>2, <2>3
<1>9. ASSUME LetGo PROVE Counted /\ Held
  BY <1>3, <1>9, LetGoEffect
<1>10. Counted /\ Held
  BY <1>4, <1>5, <1>6, <1>7, <1>8, <1>9 DEF LoadBalancerStep, AttemptEnds, Turn
<1>. QED BY <1>2, <1>10

\* Accepting a stream where there was room for it.
LEMMA OneMoreStream ==
    ASSUME FilesInv, limit \in Nat, NEW c, OpenFiles < limit,
           ClientFiles' \subseteq ClientFiles \cup {c}, UNCHANGED files
    PROVE  IsFiniteSet(ClientFiles') /\ OpenFiles' <= limit
<1>1. /\ IsFiniteSet(ClientFiles) /\ Cardinality(ClientFiles) \in Nat
      /\ Cardinality(files) \in Nat
  BY FS_CardinalityType DEF FilesInv
<1>2. /\ IsFiniteSet(ClientFiles \cup {c})
      /\ Cardinality(ClientFiles \cup {c}) =
           IF c \in ClientFiles THEN Cardinality(ClientFiles)
                                ELSE Cardinality(ClientFiles) + 1
  BY <1>1, FS_AddElement
<1>3. /\ IsFiniteSet(ClientFiles')
      /\ Cardinality(ClientFiles') <= Cardinality(ClientFiles \cup {c})
      /\ Cardinality(ClientFiles') \in Nat
  BY <1>2, FS_Subset, FS_CardinalityType
<1>4. Cardinality(ClientFiles) + Cardinality(files) < limit
  BY DEF OpenFiles
<1>5. Cardinality(ClientFiles') + Cardinality(files) <= limit
  BY <1>1, <1>2, <1>3, <1>4
<1>. QED BY <1>3, <1>5 DEF OpenFiles

\* ... and after every step.
LEMMA NextFilesInv == VInv /\ FilesInv /\ [Next]_vars => FilesInv'
<1>. SUFFICES ASSUME VInv, FilesInv, [Next]_vars PROVE FilesInv'
  OBVIOUS
<1>1. limit \in Nat /\ OpenFiles \in Nat /\ OpenFiles <= limit
  <2>1. limit \in Nat
    BY ValveAssumption DEF VInv
  <2>2. Cardinality(ClientFiles) \in Nat /\ Cardinality(files) \in Nat
    BY FS_CardinalityType DEF FilesInv
  <2>. QED BY <2>1, <2>2 DEF OpenFiles, FilesInv, FilesAccounted
\* Whatever leaves the backend sockets alone and opens no stream.
<1>2. ASSUME ClientFiles' \subseteq ClientFiles,
             UNCHANGED <<limit, files, target, task_tracker, sockets>>
      PROVE  FilesInv'
  <2>1. /\ IsFiniteSet(ClientFiles')
        /\ IsFiniteSet(files')
        /\ OpenFiles' <= OpenFiles
    BY <1>2, FewerFiles
  <2>2. OpenFiles' \in Nat
    BY <2>1, FS_CardinalityType DEF OpenFiles
  <2>3. OpenFiles' <= limit
    BY <1>1, <2>1, <2>2
  <2>. QED BY <1>2, <2>1, <2>3 DEF FilesInv, FilesAccounted, Served
<1>. ListenersInv /\ LB!IInv
  BY DEF VInv
<1>3. ASSUME L!Internal, UNCHANGED <<lb_vars, limit, files, run>> PROVE FilesInv'
  <2>1. \A c \in Conns : stage'[c] \in L!Accepted => stage[c] \in L!Accepted
    BY <1>3, InternalEffect
  <2>2. ClientFiles' \subseteq ClientFiles
    BY <1>3, <2>1 DEF lb_vars, ClientFiles, Owned, Served
  <2>. QED BY <1>2, <1>3, <2>2 DEF lb_vars
<1>4. ASSUME LoadBalancerStep PROVE FilesInv'
  BY <1>4, LoadBalancerFiles
<1>5. ASSUME ListenReturns PROVE FilesInv'
  <2>1. ClientFiles' = ClientFiles
    BY <1>5 DEF ListenReturns, l_vars, lb_vars, ClientFiles, Owned, Served
  <2>. QED BY <1>2, <1>5, <2>1 DEF ListenReturns, lb_vars
<1>6. ASSUME NEW c \in Conns, Accept(c) PROVE FilesInv'
  <2>1. /\ OpenFiles < limit
        /\ L!Accept(c)
        /\ UNCHANGED <<lb_vars, limit, files, run>>
    BY <1>6 DEF Accept
  <2>2. ClientFiles' \subseteq ClientFiles \cup {c}
    BY <2>1, AcceptEffect DEF lb_vars, ClientFiles, Owned, Served
  <2>3. IsFiniteSet(ClientFiles') /\ OpenFiles' <= limit
    BY <1>1, <2>1, <2>2, OneMoreStream
  <2>. QED BY <2>1, <2>3 DEF lb_vars, FilesInv, FilesAccounted, Served
<1>7. ASSUME NEW c \in Conns, ForwardConn(c) PROVE FilesInv'
  <2>1. /\ L!Forward(c)
        /\ queue' = Append(queue, c)
        /\ destination[c] = NoDest
        /\ UNCHANGED <<conn_tracker, target, task_tracker, sockets, limit, files>>
    BY <1>7 DEF ForwardConn, LB!Send
  <2>2. stage[c] \in L!Accepted /\ stage' = [stage EXCEPT ![c] = "forwarded"]
    BY <2>1, ForwardEffect
  <2>3. Range(queue') = Range(queue) \cup {c}
    <3>1. c \notin Range(queue)
      BY <2>1 DEF LB!IInv, LB!FreshConnections, LB!Range, Range
    <3>2. queue \in Seq(Conns) /\ IsInjective(queue)
      BY Owners
    <3>. QED BY <2>1, <3>1, <3>2, AppendFacts
  <2>4. ASSUME NEW d \in ClientFiles' PROVE d \in ClientFiles
    <3>1. CASE d = c
      BY <2>2, <3>1 DEF ClientFiles
    <3>2. CASE d # c
      <4>1. stage'[d] = stage[d]
        BY <2>2, <3>2 DEF ClientFiles, ListenersInv, L!ListenersTypeOK
      <4>2. Owned(d)' => Owned(d)
        BY <2>1, <2>3, <3>2 DEF Owned, Served
      <4>. QED BY <4>1, <4>2 DEF ClientFiles
    <3>. QED BY <3>1, <3>2
  <2>. QED BY <1>2, <2>1, <2>4
<1>8. ASSUME UNCHANGED vars PROVE FilesInv'
  <2>1. ClientFiles' = ClientFiles
    BY <1>8 DEF vars, l_vars, lb_vars, ClientFiles, Owned, Served
  <2>. QED BY <1>2, <1>8, <2>1 DEF vars, lb_vars
<1>. QED BY <1>3, <1>4, <1>5, <1>6, <1>7, <1>8 DEF Next

\* No accept and no connect goes beyond the descriptor limit, and every backend
\* socket has a connect or a copy that will close it.
THEOREM FilesAreAccounted == Spec => []FilesAccounted
<1>1. FilesInv => FilesAccounted
  BY DEF FilesInv
<1>. QED BY <1>1, InitVInv, NextVInv, InitFilesInv, NextFilesInv, PTL DEF Spec

=============================================================================
