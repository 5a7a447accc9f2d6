------------------------------ MODULE HostName ------------------------------
(***************************************************************************)
(* Which host a client asks for, read from the bytes a peek has returned:  *)
(* extract_sni_from_tls_ch and extract_host_from_http_header               *)
(* (src/src/listeners/tls_http_rp.rs).                                     *)
(*                                                                         *)
(* A request is a sequence of tokens.  A TLS record is its type, the two   *)
(* version bytes and the length, then the tokens of a server name, if the  *)
(* hello has one, and "rest" for everything else.  HTTP is made of lines   *)
(* that end in "crlf"; ":" and " " are tokens, and so are the pieces of a  *)
(* name, which a peek may cut.  "bad" is no UTF-8.                         *)
(***************************************************************************)
EXTENDS TokenStrings

CONSTANTS HttpBuffer,  \* tokens the HTTP peek can hold (512 bytes in the code)
          NoName       \* Option::None

-----------------------------------------------------------------------------
(* TLS. *)

IsTls(text) == Head(text) = "handshake"

\* The version bytes and the length against max_client_hello_size.  A peek
\* returns what is there and leaves the rest of its buffer zero, which is no
\* version.  A header that lacks only its length is lost as well, to the hello
\* buffer it makes too short; it counts as refused here.
HeaderAccepted(arrived) ==
    IsTls(arrived) =>
        /\ Len(arrived) >= 4
        /\ arrived[2] = "0x03"
        /\ arrived[3] \in {"0x01", "0x03", "0x04"}
        /\ arrived[4] = "fits"

ServerName(hello) ==
    LET name == Without(SubSeq(hello, 5, Len(hello)), {"rest"})
    IN  IF name = <<>> THEN NoName ELSE name

\* rustls reads the hello; where bytes are missing it sees zeros.  The name is
\* found once it is there in full, unless something it needs is missing.
NamesInClientHello(arrived, request) ==
    IF arrived = request THEN {ServerName(request)}
    ELSE {NoName} \cup {n \in {ServerName(request)} : ServerName(arrived) = n}

-----------------------------------------------------------------------------
(* HTTP. *)

\* What the peek leaves in its zeroed buffer.
Peeked(arrived) ==
    IF Len(arrived) >= HttpBuffer THEN SubSeq(arrived, 1, HttpBuffer)
    ELSE Append(arrived, "NUL")

Colon(line) == SelectInSeq(line, LAMBDA t : t = ":")

\* Mutant: the field is compared as it is written.
IsHostFieldExactly(line) == SubSeq(line, 1, Colon(line) - 1) = <<"host">>

IsHostField(line) == SubSeq(line, 1, Colon(line) - 1) \in {<<"host">>, <<"HOST">>}

Value(line) == SubSeq(line, Colon(line) + 1, Len(line))

\* The port is cut off at the last colon of the trimmed value; without a port
\* the name is the value as it stands, spaces included.
NameInValue(value) ==
    LET colon == SelectLastInSeq(Trim(value), LAMBDA t : t = ":")
    IN  IF colon = 0 THEN value ELSE SubSeq(Trim(value), 1, colon - 1)

\* Mutant: what has not arrived is cut off and not left zero.
HostNameOfArrived(arrived) ==
    LET lines == Split(SubSeq(arrived, 1, Min({HttpBuffer, Len(arrived)})), "crlf")
        hosts == {k \in DOMAIN lines : IsHostField(lines[k])}
    IN  IF hosts = {} THEN NoName ELSE NameInValue(Value(lines[Min(hosts)]))

\* The first line whose field is Host gives the name.  The loop ends at a line
\* that is no UTF-8, but not at the empty line that ends the header: lines()
\* has removed the line end that it compares with.
HostNameIn(arrived) ==
    LET lines == Split(Peeked(arrived), "crlf")
        hosts == {k \in DOMAIN lines :
                    /\ IsHostField(lines[k])
                    /\ \A j \in 1..k : ~Contains(lines[j], "bad")}
    IN  IF hosts = {} THEN NoName ELSE NameInValue(Value(lines[Min(hosts)]))

\* The names the second peek of a request can lead to.
NamesFound(arrived, request) ==
    IF IsTls(request) THEN NamesInClientHello(arrived, request) ELSE {HostNameIn(arrived)}

-----------------------------------------------------------------------------
(* What a request asks for, by the rules of HTTP: the Host field of the    *)
(* header, without spaces around it and without a port.                    *)

IsHostLine(line) == Len(line) > 1 /\ line[1] \in {"host", "HOST"} /\ line[2] = ":"

\* The Host lines of the header, which ends at the first empty line.
HostHeader(text) ==
    LET lines == Split(text, "crlf")
    IN  {k \in DOMAIN lines : IsHostLine(lines[k]) /\ \A j \in 1..k : lines[j] # <<>>}

HostValue(text) == Value(Split(text, "crlf")[Min(HostHeader(text))])

Asked(value) ==
    SubSeq(Append(Trim(value), ":"), 1, Colon(Append(Trim(value), ":")) - 1)

AskedFor(text) ==
    IF IsTls(text) THEN ServerName(text)
    ELSE IF HostHeader(text) = {} THEN NoName
    ELSE Asked(HostValue(text))

HasPort(text) == Contains(Trim(HostValue(text)), ":")

\* A name and at most a port.
AtMostOneColon(value) ==
    \A i, j \in DOMAIN value : value[i] = ":" /\ value[j] = ":" => i = j

\* A request whose Host line is well formed and ends before the buffer does.
AsksInBuffer(text) ==
    \/ IsTls(text)
    \/ /\ \E n \in 1..Min({HttpBuffer, Len(text)}) :
             text[n] = "crlf" /\ HostHeader(SubSeq(text, 1, n)) # {}
       /\ AtMostOneColon(HostValue(text))

\* A host as the configuration names it: its parser trims the keys of a
\* section, and a line of the file holds no zero byte.
IsKey(name) ==
    /\ name \in Seq(Range(name))
    /\ Trim(name) = name
    /\ ~Contains(name, "NUL")
=============================================================================
