---------------------------- MODULE Destinations ----------------------------
(***************************************************************************)
(* From a value of [tcp-rp-ports] or [tls-rp-ports] to a route:            *)
(* Destination::from_str (src/src/connection.rs), try_from_config and      *)
(* take_multi_value (src/src/config/ini_file.rs) and the loops of          *)
(* get_ini_config (src/src/config.rs).                                     *)
(*                                                                         *)
(* A text is a sequence of tokens: the separators, one digit, one IPv4     *)
(* address that no digit can extend, and the name of a service.  IPv6      *)
(* addresses are spelled out, since they contain the colon that also ends  *)
(* an address list.                                                        *)
(***************************************************************************)
EXTENDS TokenStrings

CONSTANTS Texts,    \* values in the file
          SrcPort   \* the fallback of a TCP key is the key's own port

Comma == ","

Separators == {":", Comma, "|", "[", "]", Space}

Tokens == Separators \cup {"1", "127.0.0.255", "ssh-tarpit"}

ASSUME TextsAssumption == Texts \subseteq Seq(Tokens)

VARIABLES text,      \* the value of one key
          listener,  \* the section it stands in
          route      \* what the handler is given for that key

vars == <<text, listener, route>>

-----------------------------------------------------------------------------
(* Numbers and addresses. *)

Digits(s, most) == Len(s) \in 1..most /\ \A i \in DOMAIN s : s[i] = "1"

\* parse() of a u16; five ones still fit.
IsPort(s) == Digits(s, 5)

\* Groups of an IPv6 address; the last may be an IPv4 address.
Groups(s, with_ipv4) ==
    s # <<>> =>
        LET groups == Split(s, ":")
        IN  \A k \in DOMAIN groups :
               \/ Digits(groups[k], 4)
               \/ with_ipv4 /\ k = Len(groups) /\ groups[k] = <<"127.0.0.255">>

\* parse() of an IpAddr.  An IPv6 address in full is longer than any text.
IsIp(s) ==
    \/ s = <<"127.0.0.255">>
    \/ \E k \in 1..(Len(s) - 1) :
          /\ s[k] = ":" /\ s[k + 1] = ":"
          /\ Groups(SubSeq(s, 1, k - 1), FALSE)
          /\ Groups(SubSeq(s, k + 2, Len(s)), TRUE)

-----------------------------------------------------------------------------
(* Destinations. *)

Err == [kind |-> "Err"]

InternalService == [kind |-> "InternalService"]

WithPort(port) == [kind |-> "PortOnly", port |-> port, addrs |-> <<>>]

WithPortAndAddrs(port, addrs) ==
    [kind |-> IF Len(addrs) = 1 THEN "Socket" ELSE "PortAndAddrs",
     port |-> port, addrs |-> addrs]

\* The entries of an address list without their brackets.
Bare(entries) == [k \in DOMAIN entries |-> Without(Trim(entries[k]), {"[", "]"})]

\* Mutant: the text is split at its first colon.
FromStrAtFirstColon(s) ==
    LET colon   == SelectInSeq(s, LAMBDA t : t = ":")
        port    == Trim(SubSeq(s, colon + 1, Len(s)))
        entries == Split(Trim(SubSeq(s, 1, colon - 1)), Comma)
        addrs   == Without(Bare(entries), {<<>>})
    IN  IF s = <<"ssh-tarpit">> THEN InternalService
        ELSE IF ~IsPort(port) \/ \E k \in DOMAIN addrs : ~IsIp(addrs[k]) THEN Err
        ELSE IF addrs = <<>> THEN WithPort(port)
        ELSE WithPortAndAddrs(port, addrs)

\* The last colon ends the address list.  Empty entries are skipped, any other
\* that is not an address is an error.
FromStr(s) ==
    LET colon   == SelectLastInSeq(s, LAMBDA t : t = ":")
        port    == Trim(SubSeq(s, colon + 1, Len(s)))
        entries == Split(Trim(SubSeq(s, 1, colon - 1)), Comma)
        addrs   == Without(Bare(entries), {<<>>})
    IN  IF s = <<"ssh-tarpit">> THEN InternalService
        ELSE IF ~IsPort(port) \/ \E k \in DOMAIN addrs : ~IsIp(addrs[k]) THEN Err
        ELSE IF addrs = <<>> THEN WithPort(port)
        ELSE WithPortAndAddrs(port, addrs)

None == [kind |-> "None"]

WithElse(accept, refuse) == [destination |-> accept, else_destination |-> refuse]

\* Mutant: a part that does not parse does not matter if the other does.
TryFromConfigLeniently(s) ==
    LET bar    == SelectInSeq(s, LAMBDA t : t = "|")
        accept == FromStr(IF bar = 0 THEN s ELSE SubSeq(s, 1, bar - 1))
        refuse == FromStr(SubSeq(s, bar + 1, Len(s)))
    IN  IF accept = Err THEN Err
        ELSE WithElse(accept, IF bar = 0 \/ refuse = Err THEN None ELSE refuse)

\* `accept|refuse', or `accept' alone; nothing is trimmed around the bar.
TryFromConfig(s) ==
    LET bar    == SelectInSeq(s, LAMBDA t : t = "|")
        accept == FromStr(IF bar = 0 THEN s ELSE SubSeq(s, 1, bar - 1))
        refuse == IF bar = 0 THEN None ELSE FromStr(SubSeq(s, bar + 1, Len(s)))
    IN  IF Err \in {accept, refuse} THEN Err ELSE WithElse(accept, refuse)

List(addrs) == [kind |-> "List", addrs |-> addrs]

\* Mutant: a bad address is left out of its list.
TakeAddressesLeniently(s) ==
    LET entries == SplitTerminator(s, Comma)
    IN  List(SelectSeq(Bare(entries), IsIp))

\* take_multi_value of addresses: here an empty entry is an error, except
\* after the last comma.
TakeAddresses(s) ==
    LET entries == SplitTerminator(s, Comma)
        addrs   == Bare(entries)
    IN  IF \A k \in DOMAIN addrs : IsIp(addrs[k]) THEN List(addrs) ELSE Err

FallbackTlsDestination == WithPort("fallback-tls-destination-port")

-----------------------------------------------------------------------------
NoRoute == WithElse(None, None)

Init ==
    /\ text \in Texts
    /\ listener \in {"tls-rp-ports", "tcp-rp-ports"}
    /\ route = NoRoute

Fallback ==
    WithElse(IF listener = "tls-rp-ports" THEN FallbackTlsDestination ELSE WithPort(SrcPort),
             None)

\* Mutant: what does not parse is left without a route.
GetIniConfigStrictly ==
    /\ route = NoRoute
    /\ route' = TryFromConfig(text)
    /\ UNCHANGED <<text, listener>>

\* One turn of the loop over a section: a value that does not parse is no
\* error but stands for the fallback.
GetIniConfig ==
    /\ route = NoRoute
    /\ route' = IF TryFromConfig(text) = Err THEN Fallback ELSE TryFromConfig(text)
    /\ UNCHANGED <<text, listener>>

Next == GetIniConfig

Spec == Init /\ [][Next]_vars

-----------------------------------------------------------------------------
(* Properties. *)

Content(d) ==
    IF d.kind \in {"None", "Err"} THEN <<>>
    ELSE IF d = InternalService THEN <<"ssh-tarpit">>
    ELSE FlattenSeq(d.addrs) \o d.port

\* A route is everything its value says or the fallback, never a part: no
\* address, port or refuse part of an accepted value is dropped or changed.
AllOrFallback ==
    route # NoRoute /\ route # Fallback =>
        Without(Content(route.destination) \o Content(route.else_destination), {":"})
          = Without(text, Separators)

\* Every key of a section gets a route of one of the shapes that the code tells
\* apart: a socket has one address, a list several, and a service its name,
\* though what is sent there the balancer drops.
EveryKeyIsRouted ==
    route # NoRoute =>
        /\ DOMAIN route = {"destination", "else_destination"}
        /\ \A d \in {route.destination, route.else_destination} :
             \/ d \in {InternalService, None}
             \/ d.kind = "PortOnly" /\ d.addrs = <<>>
             \/ d.kind = "Socket" /\ Len(d.addrs) = 1
             \/ d.kind = "PortAndAddrs" /\ Len(d.addrs) > 1
        /\ route.destination # None

Addresses == {<<"127.0.0.255">>, <<":", ":">>, <<":", ":", "1">>, <<"1", ":", ":">>}

\* The ways to write an address: with or without brackets, spaces around.
AddressTexts(a) ==
    {a, <<"[">> \o a \o <<"]">>, <<Space, "[">> \o a \o <<"]">>, a \o <<Space>>}

\* Lists of one and of two addresses with a port, and what they mean.
Written ==
    {<<x[2] \o <<":", "1">>, <<x[1]>>>> :
        x \in UNION {{a} \X AddressTexts(a) : a \in Addresses}}

Both(x, y) ==
    <<SubSeq(x[1], 1, Len(x[1]) - 2) \o (<<Comma>> \o y[1]), x[2] \o y[2]>>

WrittenPairs == {Both(x, y) : x, y \in Written}

\* However the addresses are written, a list of them with a port is the
\* destination of those addresses and that port, although the colon that
\* precedes the port also occurs in the addresses.
ReadsWhatIsWritten ==
    \A w \in Written \cup WrittenPairs :
        route # NoRoute /\ text = w[1] =>
            route = WithElse(WithPortAndAddrs(<<"1">>, w[2]), None)

\* Both readers of address lists agree: what bind-addresses accepts is the
\* same list in a destination.
ListsAgree ==
    route = NoRoute /\ TakeAddresses(text) # Err =>
        /\ FromStr(text \o <<":", "1">>) # Err
        /\ FromStr(text \o <<":", "1">>).addrs = TakeAddresses(text).addrs
=============================================================================
