----------------------------- MODULE Connections -----------------------------
(***************************************************************************)
(* What the reverse proxy promises about every client connection, with no  *)
(* listener, channel, task or timer in sight.                              *)
(*                                                                         *)
(* A connection arrives, is either turned away or routed to a set of       *)
(* machines that may serve it, and from then on is handed to machines of   *)
(* that set one after the other until one takes it.  It is given up        *)
(* exactly when the last machine of the set has failed it, it is never     *)
(* offered to a machine that already failed it, and it has at most one     *)
(* backend.  Module Valve is shown to implement this specification.        *)
(***************************************************************************)

CONSTANTS Conns,     \* client connections
          Machines   \* backend machines of the load balancer

VARIABLES status,    \* how far the connection has got
          allowed,   \* machines that may serve it, once it is routed
          failed,    \* machines that have failed it
          backend    \* the machine that serves it, as a set of at most one

vars == <<status, allowed, failed, backend>>

Status == {"new", "pending", "routed", "served", "closed"}

Init ==
    /\ status  = [c \in Conns |-> "new"]
    /\ allowed = [c \in Conns |-> {}]
    /\ failed  = [c \in Conns |-> {}]
    /\ backend = [c \in Conns |-> {}]

Move(c, from, to) ==
    /\ status[c] = from
    /\ status' = [status EXCEPT ![c] = to]

Arrive(c) ==
    /\ Move(c, "new", "pending")
    /\ UNCHANGED <<allowed, failed, backend>>

\* Turned away before they were routed: no usable host name, an unknown one,
\* or a listener that takes all it has along.
Reject(turned_away) ==
    /\ turned_away # {}
    /\ \A c \in turned_away : status[c] = "pending"
    /\ status' = [c \in Conns |-> IF c \in turned_away THEN "closed" ELSE status[c]]
    /\ UNCHANGED <<allowed, failed, backend>>

Route(c, S) ==
    /\ Move(c, "pending", "routed")
    /\ allowed' = [allowed EXCEPT ![c] = S]
    /\ UNCHANGED <<failed, backend>>

\* A machine fails the connection; the last one to do so ends it.
Fail(c, m) ==
    /\ m \in allowed[c] \ failed[c]
    /\ Move(c, "routed", IF allowed[c] \subseteq failed[c] \cup {m}
                         THEN "closed" ELSE "routed")
    /\ failed' = [failed EXCEPT ![c] = @ \cup {m}]
    /\ UNCHANGED <<allowed, backend>>

\* No machine may serve it at all.
GiveUp(c) ==
    /\ allowed[c] = {}
    /\ Move(c, "routed", "closed")
    /\ UNCHANGED <<allowed, failed, backend>>

Serve(c, m) ==
    /\ m \in allowed[c] \ failed[c]
    /\ Move(c, "routed", "served")
    /\ backend' = [backend EXCEPT ![c] = {m}]
    /\ UNCHANGED <<allowed, failed>>

Finish(c) ==
    /\ Move(c, "served", "closed")
    /\ backend' = [backend EXCEPT ![c] = {}]
    /\ UNCHANGED <<allowed, failed>>

Next ==
    \/ \E turned_away \in SUBSET Conns : Reject(turned_away)
    \/ \E c \in Conns :
          \/ Arrive(c)
          \/ GiveUp(c)
          \/ Finish(c)
          \/ \E S \in SUBSET Machines : Route(c, S)
          \/ \E m \in Machines : Fail(c, m) \/ Serve(c, m)

Spec == Init /\ [][Next]_vars

=============================================================================
