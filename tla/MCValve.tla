------------------------------- MODULE MCValve -------------------------------
(***************************************************************************)
(* Small instances of Valve for TLC.  A name is a sequence of tokens; the  *)
(* names "a" and "a.b" are known, "b" is not.  A request is given with the *)
(* places where the network cuts it.                                       *)
(***************************************************************************)
EXTENDS Valve, SequencesExt, TLC

CONSTANTS m1, m2, other, any_port, one_port

WithoutElse(d) == [destination |-> d, else_destination |-> NoDest]

AnyMachine   == [kind |-> "PortOnly", addrs |-> {}]
OneMachine   == [kind |-> "Socket", addrs |-> {m1}]
OtherMachine == [kind |-> "Socket", addrs |-> {m2}]
SomeMachines == [kind |-> "PortAndAddrs", addrs |-> {m1, other}]

MCTcpDestination ==
    any_port :> WithoutElse(AnyMachine) @@ one_port :> WithoutElse(OneMachine)

MCOneTcpDestination == one_port :> WithoutElse(OneMachine)

MCDestinationProvider ==
    <<"a">> :> WithoutElse(SomeMachines) @@ <<"a", "b">> :> WithoutElse(OtherMachine)

\* The text in one segment, and in two segments cut anywhere.
Cut(text) ==
    {<<text>>} \cup {<<SubSeq(text, 1, k), SubSeq(text, k + 1, Len(text))>> :
                        k \in 1..(Len(text) - 1)}

-----------------------------------------------------------------------------
(* Both listeners and the load balancer: a few requests. *)

KnownHello == <<"handshake", "0x03", "0x01", "fits", "a", "rest">>

FewRequests ==
    { <<SubSeq(KnownHello, 1, 2), SubSeq(KnownHello, 3, 6)>>,
      << <<"get", "crlf", "host", ":", " ", "a", "b", ":", "80", "crlf", "crlf">> >> }

-----------------------------------------------------------------------------
(* One connection, and every way to cut every one of many requests. *)

Names == {<<"a">>, <<"a", "b">>, <<"b">>}

Hellos ==
    { <<"handshake", "0x03", minor, length>> \o name \o <<"rest">> :
        minor \in {"0x00", "0x01", "0x03"}, length \in {"fits", "too long"},
        name \in Names \cup {<<>>} }

HostLines ==
    { <<field, ":">> \o space \o name \o port \o <<"crlf">> :
        field \in {"host", "HOST"}, space \in {<<>>, <<" ">>},
        name \in Names, port \in {<<>>, <<":", "80">>} }

OtherLines == {<<>>, <<"accept", ":", "b", "crlf">>, <<"bad", "crlf">>, <<"crlf">>}

\* The Host line first, after another line, behind the empty line that ends
\* the header, after a line that is no text, or across the end of the buffer.
HttpTexts ==
    { <<"get", "crlf">> \o before \o line \o <<"crlf", "rest">> :
        before \in OtherLines, line \in HostLines \cup {<<>>} }

ManyRequests == UNION {Cut(t) : t \in Hellos \cup HttpTexts}
=============================================================================
