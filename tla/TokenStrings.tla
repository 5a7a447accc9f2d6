---------------------------- MODULE TokenStrings ----------------------------
(***************************************************************************)
(* The string functions of Rust's standard library that the parsers use,   *)
(* on sequences of tokens.  A token is a separator or a piece of text that *)
(* no code looks into.                                                     *)
(***************************************************************************)
EXTENDS Integers, SequencesExt

Space == " "

Trim(s) ==
    LET solid == {i \in DOMAIN s : s[i] # Space}
    IN  IF solid = {} THEN <<>> ELSE SubSeq(s, Min(solid), Max(solid))

Without(s, tokens) ==
    LET kept[n \in 0..Len(s)] ==
            IF n = 0 THEN <<>>
            ELSE IF s[n] \in tokens THEN kept[n - 1] ELSE Append(kept[n - 1], s[n])
    IN  kept[Len(s)]

\* One piece more than there are separators t in s.
Split(s, t) ==
    LET pieces[n \in 0..Len(s)] ==
            IF n = 0 THEN << <<>> >>
            ELSE LET before == pieces[n - 1]
                 IN  IF s[n] = t THEN Append(before, <<>>)
                     ELSE Append(Front(before), Append(Last(before), s[n]))
    IN  pieces[Len(s)]

SplitTerminator(s, t) ==
    IF Last(Split(s, t)) = <<>> THEN Front(Split(s, t)) ELSE Split(s, t)
=============================================================================
