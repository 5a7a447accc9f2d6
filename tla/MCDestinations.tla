--------------------------- MODULE MCDestinations ---------------------------
(***************************************************************************)
(* Every text of up to four tokens, and longer ones of two parts.          *)
(***************************************************************************)
EXTENDS Destinations

Parts ==
    {<<"ssh-tarpit">>, <<"1">>, <<"127.0.0.255", ":", "1">>,
     <<"[", ":", ":", "1", "]", ":", "1">>,
     <<"127.0.0.255", ",", "[", ":", ":", "]", ":", "1", "1">>,
     <<"127.0.0.255", ",", ",", ":", "1">>, <<"1", "|", "1">>,
     <<"127.0.0.255">>, <<" ", "ssh-tarpit">>}

MCTexts ==
    BoundedSeq(Tokens, 4) \cup {p \o <<"|">> \o q : p, q \in Parts} \cup Parts
      \cup {w[1] : w \in Written \cup WrittenPairs}

MCSrcPort == <<"1">>
=============================================================================
