------------------------ MODULE Destinations_proofs ------------------------
(***************************************************************************)
(* Proofs about the readers of destinations, for every value a file may    *)
(* hold.  FromStr cuts a text in two and reads an address list and a port; *)
(* the lemmas follow the tokens through Trim, Split and Without.           *)
(***************************************************************************)
EXTENDS Destinations, SequenceFacts

(* The tokens.  Space and Comma are told apart from the others first, which *)
(* is all the other proofs know about them.                                 *)

AddressTokens == {"1", ":", "127.0.0.255"}

\* The separators are no tokens of an address, nor the same.
LEMMA TokensDiffer ==
    /\ Space # Comma
    /\ Space \notin AddressTokens /\ Comma \notin AddressTokens
BY Zenon DEF Space, Comma, AddressTokens

\* Of the tokens of an address only the colon separates entries.
LEMMA TokensOfAddresses ==
    /\ AddressTokens \subseteq Tokens
    /\ AddressTokens \cap Separators = AddressTokens \cap {":"}
    /\ {"1"} \cap Separators = {"1"} \cap {":"}
    /\ Space \in Separators /\ Comma \in Separators
BY TokensDiffer DEF AddressTokens, Tokens, Separators

-----------------------------------------------------------------------------
(* What FromStr does after it has cut the text.                            *)

Addrs(list) == Without(Bare(Split(Trim(list), Comma)), {<<>>})

Result(addrs, port) ==
    IF ~IsPort(port) \/ \E k \in DOMAIN addrs : ~IsIp(addrs[k]) THEN Err
    ELSE IF addrs = <<>> THEN WithPort(port)
    ELSE WithPortAndAddrs(port, addrs)

LastColon(s, c) ==
    /\ c \in 0..Len(s)
    /\ c # 0 => s[c] = ":"
    /\ \A i \in (c + 1)..Len(s) : s[i] # ":"

\* FromStr cuts a text at its last colon, or before it if there is none.
LEMMA FromStrAt ==
    ASSUME NEW s \in Seq(Tokens), s # <<"ssh-tarpit">>
    PROVE  \E c \in 0..Len(s) :
              /\ LastColon(s, c)
              /\ FromStr(s) = Result(Addrs(SubSeq(s, 1, c - 1)),
                                     Trim(SubSeq(s, c + 1, Len(s))))
<1>. DEFINE I == {i \in 1..Len(s) : s[i] = ":"}
            c == IF I = {} THEN 0 ELSE Max(I)
<1>1. c = SelectLastInSeq(s, LAMBDA t : t = ":")
  BY DEF SelectLastInSeq
<1>2. c \in 0..Len(s) /\ LastColon(s, c)
  <2>1. CASE I = {}
    BY <2>1 DEF LastColon
  <2>2. CASE I # {}
    <3>1. Max(I) \in I /\ \A i \in I : i <= Max(I)
      BY <2>2, FirstAndLast
    <3>. QED BY <2>2, <3>1 DEF LastColon
  <2>. QED BY <2>1, <2>2
<1>3. FromStr(s) = Result(Addrs(SubSeq(s, 1, c - 1)), Trim(SubSeq(s, c + 1, Len(s))))
  <2>. HIDE DEF c
  <2>. QED BY <1>1, Zenon DEF FromStr, Result, Addrs
<1>. QED BY <1>2, <1>3

\* An address list without its brackets is again a list of texts.
LEMMA BareType ==
    ASSUME NEW S, NEW e \in Seq(Seq(S))
    PROVE  /\ Bare(e) \in Seq(Seq(S)) /\ Len(Bare(e)) = Len(e)
           /\ \A k \in 1..Len(e) : Bare(e)[k] = Without(Trim(e[k]), {"[", "]"})
<1>1. \A k \in 1..Len(e) : Without(Trim(e[k]), {"[", "]"}) \in Seq(S)
  <2>. TAKE k \in 1..Len(e)
  <2>1. e[k] \in Seq(S)
    OBVIOUS
  <2>2. Trim(e[k]) \in Seq(S)
    BY <2>1, TrimParts
  <2>. QED BY <2>2, WithoutType
<1>2. Len(e) \in Nat /\ DOMAIN e = 1..Len(e)
  OBVIOUS
<1>. DEFINE F(k) == Without(Trim(e[k]), {"[", "]"})
            b == [k \in 1..Len(e) |-> F(k)]
<1>3. Bare(e) = b
  BY <1>2 DEF Bare
<1>4. b \in Seq(Seq(S)) /\ Len(b) = Len(e) /\ \A k \in 1..Len(e) : b[k] = F(k)
  <2>1. \A k \in 1..Len(e) : F(k) \in Seq(S)
    BY <1>1
  <2>. HIDE DEF F
  <2>. QED BY <2>1, <1>2
<1>. QED BY <1>3, <1>4

\* A list of addresses is read as texts.
LEMMA AddrsType ==
    ASSUME NEW list \in Seq(Tokens)
    PROVE  Addrs(list) \in Seq(Seq(Tokens))
<1>1. Trim(list) \in Seq(Tokens)
  BY TrimParts
<1>2. Split(Trim(list), Comma) \in Seq(Seq(Tokens \ {Comma}))
  BY <1>1, SplitType
<1>3. Bare(Split(Trim(list), Comma)) \in Seq(Seq(Tokens \ {Comma}))
  BY <1>2, BareType
<1>4. Addrs(list) \in Seq(Seq(Tokens \ {Comma}))
  BY <1>3, WithoutType DEF Addrs
<1>. QED BY <1>4

-----------------------------------------------------------------------------
(* The shape of a destination.                                             *)

Readable(d) ==
    \/ d = InternalService
    \/ d.kind = "PortOnly" /\ d.addrs = <<>>
    \/ d.kind = "Socket" /\ Len(d.addrs) = 1
    \/ d.kind = "PortAndAddrs" /\ Len(d.addrs) > 1

\* FromStr refuses a text or returns one of the four kinds of destination,
\* with as many addresses as its kind says.
LEMMA FromStrShape ==
    ASSUME NEW s \in Seq(Tokens), FromStr(s) # Err
    PROVE  Readable(FromStr(s)) /\ FromStr(s) # None
<1>1. CASE s = <<"ssh-tarpit">>
  <2>1. FromStr(s) = InternalService
    BY <1>1, Zenon DEF FromStr
  <2>2. InternalService # None
    BY DEF InternalService, None
  <2>3. Readable(InternalService)
    BY DEF Readable
  <2>. QED BY <2>1, <2>2, <2>3, Zenon
<1>2. CASE s # <<"ssh-tarpit">>
  <2>1. PICK c \in 0..Len(s) :
          FromStr(s) = Result(Addrs(SubSeq(s, 1, c - 1)), Trim(SubSeq(s, c + 1, Len(s))))
    BY <1>2, FromStrAt
  <2>. DEFINE a == Addrs(SubSeq(s, 1, c - 1))
              p == Trim(SubSeq(s, c + 1, Len(s)))
  <2>2. a \in Seq(Seq(Tokens))
    <3>1. SubSeq(s, 1, c - 1) \in Seq(Tokens)
      OBVIOUS
    <3>. QED BY <3>1, AddrsType
  <2>. HIDE DEF a, p
  <2>3. FromStr(s) = Result(a, p)
    BY <2>1 DEF a, p
  <2>4. FromStr(s) = IF a = <<>> THEN WithPort(p) ELSE WithPortAndAddrs(p, a)
    BY <2>3 DEF Result
  <2>5. CASE a = <<>>
    BY <2>4, <2>5 DEF WithPort, Readable, None
  <2>6. CASE a # <<>>
    <3>1. Len(a) \in Nat \ {0}
      BY <2>2, <2>6
    <3>2. FromStr(s) = WithPortAndAddrs(p, a)
      BY <2>4, <2>6
    <3>3. CASE Len(a) = 1
      BY <3>2, <3>3 DEF WithPortAndAddrs, Readable, None
    <3>4. CASE Len(a) # 1
      <4>1. Len(a) > 1
        <5>1. \A n \in Nat \ {0} : n # 1 => n > 1
          OBVIOUS
        <5>. QED BY <3>1, <3>4, <5>1, Zenon
      <4>2. FromStr(s) = [kind |-> "PortAndAddrs", port |-> p, addrs |-> a]
        BY <3>2, <3>4 DEF WithPortAndAddrs
      <4>. QED BY <4>1, <4>2 DEF Readable, None
    <3>. QED BY <3>3, <3>4
  <2>. QED BY <2>5, <2>6
<1>. QED BY <1>1, <1>2
-----------------------------------------------------------------------------
(* What is in a destination.                                               *)

\* An address is made of groups and colons.
LEMMA GroupsTokens ==
    ASSUME NEW x \in Seq(Tokens), NEW with_ipv4 \in BOOLEAN, Groups(x, with_ipv4)
    PROVE  x \in Seq(AddressTokens)
<1>. DEFINE GroupTokens == {"1", "127.0.0.255"}
            groups == Split(x, ":")
<1>1. CASE x = <<>>
  BY <1>1
<1>2. CASE x # <<>>
  <2>1. groups \in Seq(Seq(Tokens))
    <3>1. groups \in Seq(Seq(Tokens \ {":"}))
      BY SplitType
    <3>. QED BY <3>1
  <2>2. \A k \in 1..Len(groups) : groups[k] \in Seq(GroupTokens)
    <3>. SUFFICES ASSUME NEW k \in 1..Len(groups) PROVE groups[k] \in Seq(GroupTokens)
      OBVIOUS
    <3>1. Digits(groups[k], 4) \/ groups[k] = <<"127.0.0.255">>
      <4>1. DOMAIN groups = 1..Len(groups)
        BY <2>1
      <4>. QED BY <1>2, <4>1 DEF Groups
    <3>2. groups[k] \in Seq(Tokens)
      BY <2>1
    <3>. HIDE DEF groups
    <3>. QED BY <3>1, <3>2 DEF Digits
  <2>3. groups \in Seq(Seq(GroupTokens))
    <3>. HIDE DEF groups, GroupTokens
    <3>. QED BY <2>1, <2>2
  <2>4. FlattenSeq(groups) \in Seq(GroupTokens)
    BY <2>3, FlattenType
  <2>5. FlattenSeq(groups) = Without(x, {":"})
    BY FlattenSplit
  <2>6. x \in Seq({":"} \cup GroupTokens)
    BY <2>4, <2>5, WithoutRange
  <2>7. {":"} \cup GroupTokens = AddressTokens
    BY DEF AddressTokens
  <2>. QED BY <2>6, <2>7
<1>. QED BY <1>1, <1>2

\* A text that is read as an address holds nothing but tokens of addresses.
LEMMA IpTokens ==
    ASSUME NEW a \in Seq(Tokens), IsIp(a)
    PROVE  a \in Seq(AddressTokens)
<1>1. CASE a = <<"127.0.0.255">>
  BY <1>1 DEF AddressTokens
<1>2. CASE \E k \in 1..(Len(a) - 1) :
             /\ a[k] = ":" /\ a[k + 1] = ":"
             /\ Groups(SubSeq(a, 1, k - 1), FALSE)
             /\ Groups(SubSeq(a, k + 2, Len(a)), TRUE)
  <2>1. PICK k \in 1..(Len(a) - 1) :
             /\ a[k] = ":" /\ a[k + 1] = ":"
             /\ Groups(SubSeq(a, 1, k - 1), FALSE)
             /\ Groups(SubSeq(a, k + 2, Len(a)), TRUE)
    BY <1>2
  <2>. DEFINE x == SubSeq(a, 1, k - 1)
              y == SubSeq(a, k + 2, Len(a))
  <2>2. x \in Seq(AddressTokens) /\ y \in Seq(AddressTokens)
    <3>1. x \in Seq(Tokens) /\ y \in Seq(Tokens)
      OBVIOUS
    <3>. QED BY <2>1, <3>1, GroupsTokens
  <2>3. \A i \in 1..Len(a) : a[i] \in AddressTokens
    <3>. SUFFICES ASSUME NEW i \in 1..Len(a) PROVE a[i] \in AddressTokens
      OBVIOUS
    <3>1. CASE i < k
      <4>1. Len(x) = k - 1 /\ x[i] = a[i] /\ i \in 1..Len(x)
        BY <3>1
      <4>. QED BY <2>2, <4>1
    <3>2. CASE i \in {k, k + 1}
      BY <2>1, <3>2 DEF AddressTokens
    <3>3. CASE i > k + 1
      <4>1. Len(y) = Len(a) - k - 1 /\ y[i - k - 1] = a[i] /\ i - k - 1 \in 1..Len(y)
        BY <3>3
      <4>. QED BY <2>2, <4>1
    <3>. QED BY <3>1, <3>2, <3>3
  <2>. QED BY <2>3
<1>. QED BY <1>1, <1>2 DEF IsIp

\* The digits of a port.
LEMMA PortTokens ==
    ASSUME NEW p \in Seq(Tokens), IsPort(p)
    PROVE  /\ p \in Seq({"1"})
           /\ Without(p, {":"}) = Without(p, Separators)
<1>1. p \in Seq({"1"})
  BY DEF IsPort, Digits
<1>. QED BY <1>1, WithoutSame, TokensOfAddresses

\* No token of a list but its separators is lost on the way to the addresses.
LEMMA AddrsContent ==
    ASSUME NEW list \in Seq(Tokens),
           \A k \in DOMAIN Addrs(list) : IsIp(Addrs(list)[k])
    PROVE  Without(FlattenSeq(Addrs(list)), {":"}) = Without(list, Separators)
<1>0. \A f, g \in Seq(Seq(Tokens)) :
         /\ Len(f) = Len(g)
         /\ \A k \in 1..Len(f) : Without(f[k], Separators) = Without(g[k], Separators)
         => Without(FlattenSeq(f), Separators) = Without(FlattenSeq(g), Separators)
  BY WithoutPieces
<1>. DEFINE whole == Trim(list)
            e == Split(whole, Comma)
            b == Bare(e)
            a == Addrs(list)
<1>1. whole \in Seq(Tokens)
  BY TrimParts
<1>2. e \in Seq(Seq(Tokens))
  <2>1. e \in Seq(Seq(Tokens \ {Comma}))
    BY <1>1, SplitType
  <2>. QED BY <2>1
<1>3. b \in Seq(Seq(Tokens)) /\ Len(b) = Len(e)
      /\ \A k \in 1..Len(e) : b[k] = Without(Trim(e[k]), {"[", "]"})
  BY <1>2, BareType
<1>4. a \in Seq(Seq(Tokens)) /\ a = Without(b, {<<>>})
  BY AddrsType DEF Addrs
<1>. HIDE DEF a, b, e, whole
<1>5. Without(list, Separators) = Without(FlattenSeq(e), Separators)
  <2>1. Without(list, Separators) = Without(whole, Separators)
    BY WithoutTrim, TokensOfAddresses DEF whole
  <2>2. FlattenSeq(e) = Without(whole, {Comma})
    BY <1>1, FlattenSplit DEF e
  <2>3. Without(Without(whole, {Comma}), Separators) = Without(whole, {Comma} \cup Separators)
    BY <1>1, WithoutWithout
  <2>4. {Comma} \cup Separators = Separators
    BY TokensOfAddresses
  <2>. QED BY <2>1, <2>2, <2>3, <2>4
<1>6. Without(FlattenSeq(e), Separators) = Without(FlattenSeq(b), Separators)
  <2>1. \A k \in 1..Len(e) : Without(e[k], Separators) = Without(b[k], Separators)
    <3>. SUFFICES ASSUME NEW k \in 1..Len(e)
                  PROVE  Without(e[k], Separators) = Without(b[k], Separators)
      OBVIOUS
    <3>. DEFINE u == e[k]
    <3>1. u \in Seq(Tokens)
      BY <1>2
    <3>. HIDE DEF u
    <3>2. Trim(u) \in Seq(Tokens)
      BY <3>1, TrimParts
    <3>3. Without(Without(Trim(u), {"[", "]"}), Separators)
            = Without(Trim(u), {"[", "]"} \cup Separators)
      BY <3>2, WithoutWithout
    <3>4. {"[", "]"} \cup Separators = Separators
      BY DEF Separators
    <3>5. Without(Trim(u), Separators) = Without(u, Separators)
      BY <3>1, WithoutTrim, TokensOfAddresses
    <3>. QED BY <1>3, <3>3, <3>4, <3>5 DEF u
  <2>. QED BY <1>0, <1>2, <1>3, <2>1
<1>7. FlattenSeq(a) = FlattenSeq(b)
  BY <1>3, <1>4, FlattenWithoutEmpty
<1>8. FlattenSeq(a) \in Seq(AddressTokens)
  <2>1. \A k \in 1..Len(a) : a[k] \in Seq(AddressTokens)
    BY <1>4, IpTokens DEF a
  <2>2. a \in Seq(Seq(AddressTokens))
    BY <1>4, <2>1
  <2>. QED BY <2>2, FlattenType
<1>9. Without(FlattenSeq(a), {":"}) = Without(FlattenSeq(a), Separators)
  BY <1>8, WithoutSame, TokensOfAddresses
<1>. QED BY <1>5, <1>6, <1>7, <1>9 DEF a

\* What FromStr accepts, it keeps: of a text it drops separators only.
LEMMA FromStrContent ==
    ASSUME NEW s \in Seq(Tokens), FromStr(s) # Err
    PROVE  /\ Content(FromStr(s)) \in Seq(Tokens)
           /\ Without(Content(FromStr(s)), {":"}) = Without(s, Separators)
<1>1. CASE s = <<"ssh-tarpit">>
  <2>1. FromStr(s) = InternalService
    BY <1>1, Zenon DEF FromStr
  <2>2. Content(InternalService) = <<"ssh-tarpit">>
    BY DEF Content, InternalService
  <2>3. Content(FromStr(s)) = s
    BY <1>1, <2>1, <2>2
  <2>4. s \in Seq({"ssh-tarpit"})
    BY <1>1
  <2>5. {"ssh-tarpit"} \cap {":"} = {"ssh-tarpit"} \cap Separators
    <3>1. "ssh-tarpit" # Space /\ "ssh-tarpit" # Comma
      BY Zenon DEF Space, Comma
    <3>. QED BY <3>1 DEF Separators
  <2>6. Without(s, {":"}) = Without(s, Separators)
    BY <2>4, <2>5, WithoutSame
  <2>. QED BY <2>3, <2>6
<1>2. CASE s # <<"ssh-tarpit">>
  <2>1. PICK c \in 0..Len(s) :
          /\ LastColon(s, c)
          /\ FromStr(s) = Result(Addrs(SubSeq(s, 1, c - 1)), Trim(SubSeq(s, c + 1, Len(s))))
    BY <1>2, FromStrAt
  <2>. DEFINE list == SubSeq(s, 1, c - 1)
              rest == SubSeq(s, c + 1, Len(s))
              a == Addrs(list)
              p == Trim(rest)
  <2>2. list \in Seq(Tokens) /\ rest \in Seq(Tokens)
    OBVIOUS
  <2>3. Without(s, Separators) = Without(list, Separators) \o Without(rest, Separators)
    <3>1. CASE c = 0
      <4>1. list = <<>> /\ rest = s
        BY <3>1
      <4>2. Without(list, Separators) = <<>>
        BY <4>1, WithoutEmpty
      <4>3. Without(s, Separators) \in Seq(Tokens)
        BY WithoutType
      <4>4. <<>> \o Without(s, Separators) = Without(s, Separators)
        BY <4>3
      <4>. QED BY <4>1, <4>2, <4>4, Zenon
    <3>2. CASE c # 0
      <4>1. s[c] \in Separators
        BY <2>1, <3>2 DEF LastColon, Separators
      <4>2. c \in 1..Len(s)
        BY <3>2
      <4>. QED BY <4>1, <4>2, WithoutCut
    <3>. QED BY <3>1, <3>2
  <2>4. a \in Seq(Seq(Tokens)) /\ p \in Seq(Tokens)
    BY <2>2, AddrsType, TrimParts
  <2>. HIDE DEF list, rest
  <2>5. FromStr(s) = Result(a, p)
    BY <2>1 DEF list, rest
  <2>6. IsPort(p) /\ \A k \in DOMAIN a : IsIp(a[k])
    <3>. HIDE DEF a, p
    <3>. QED BY <2>5, Zenon DEF Result
  <2>7. Without(FlattenSeq(a), {":"}) = Without(list, Separators)
    BY <2>2, <2>6, AddrsContent
  <2>8. Without(p, {":"}) = Without(rest, Separators)
    <3>1. Without(p, {":"}) = Without(p, Separators)
      BY <2>4, <2>6, PortTokens
    <3>2. Without(p, Separators) = Without(rest, Separators)
      BY <2>2, WithoutTrim, TokensOfAddresses
    <3>. QED BY <3>1, <3>2
  <2>. HIDE DEF a, p
  <2>9. FlattenSeq(a) \in Seq(Tokens)
    BY <2>4, FlattenType
  <2>10. Content(FromStr(s)) = FlattenSeq(a) \o p
    <3>1. FromStr(s) = IF a = <<>> THEN WithPort(p) ELSE WithPortAndAddrs(p, a)
      BY <2>5, <2>6, Zenon DEF Result
    <3>2. CASE a = <<>>
      <4>1. Content(WithPort(p)) = FlattenSeq(<<>>) \o p
        BY DEF Content, WithPort, InternalService
      <4>. QED BY <3>1, <3>2, <4>1
    <3>3. CASE a # <<>>
      <4>1. Content(WithPortAndAddrs(p, a)) = FlattenSeq(a) \o p
        BY DEF Content, WithPortAndAddrs, InternalService
      <4>. QED BY <3>1, <3>3, <4>1
    <3>. QED BY <3>2, <3>3
  <2>11. Without(FlattenSeq(a) \o p, {":"}) = Without(FlattenSeq(a), {":"}) \o Without(p, {":"})
    BY <2>4, <2>9, WithoutConcat
  <2>12. FlattenSeq(a) \o p \in Seq(Tokens)
    BY <2>4, <2>9
  <2>. QED BY <2>3, <2>7, <2>8, <2>10, <2>11, <2>12
<1>. QED BY <1>1, <1>2
-----------------------------------------------------------------------------
(* Routes.                                                                 *)

\* A bar cuts a value in an accept and a refuse part, each of them read alone.
LEMMA TryFromConfigParts ==
    ASSUME NEW s \in Seq(Tokens), TryFromConfig(s) # Err
    PROVE  \/ /\ FromStr(s) # Err
              /\ TryFromConfig(s) = WithElse(FromStr(s), None)
           \/ \E b \in 1..Len(s) :
                /\ s[b] = "|"
                /\ FromStr(SubSeq(s, 1, b - 1)) # Err
                /\ FromStr(SubSeq(s, b + 1, Len(s))) # Err
                /\ TryFromConfig(s) = WithElse(FromStr(SubSeq(s, 1, b - 1)),
                                               FromStr(SubSeq(s, b + 1, Len(s))))
<1>. DEFINE I == {i \in 1..Len(s) : s[i] = "|"}
            bar == IF I # {} THEN Min(I) ELSE 0
<1>1. bar = SelectInSeq(s, LAMBDA t : t = "|")
  BY DEF SelectInSeq
<1>2. bar # 0 => bar \in 1..Len(s) /\ s[bar] = "|"
  <2>. HAVE bar # 0
  <2>1. I # {}
    OBVIOUS
  <2>2. Min(I) \in I
    BY <2>1, FirstAndLast
  <2>. QED BY <2>1, <2>2
<1>. HIDE DEF bar
<1>3. CASE bar = 0
  <2>1. SelectInSeq(s, LAMBDA t : t = "|") = 0
    BY <1>1, <1>3
  <2>2. TryFromConfig(s) = IF Err \in {FromStr(s), None} THEN Err ELSE WithElse(FromStr(s), None)
    BY <2>1, Zenon DEF TryFromConfig
  <2>. QED BY <2>2
<1>4. CASE bar # 0
  <2>. DEFINE x == FromStr(SubSeq(s, 1, bar - 1))
              y == FromStr(SubSeq(s, bar + 1, Len(s)))
  <2>1. TryFromConfig(s) = IF Err \in {x, y} THEN Err ELSE WithElse(x, y)
    BY <1>1, <1>4, Zenon DEF TryFromConfig
  <2>2. x # Err /\ y # Err /\ TryFromConfig(s) = WithElse(x, y)
    <3>. HIDE DEF x, y
    <3>. QED BY <2>1
  <2>. QED BY <1>2, <1>4, <2>2
<1>. QED BY <1>3, <1>4

\* What is accepted holds everything the value says.
LEMMA TryFromConfigContent ==
    ASSUME NEW s \in Seq(Tokens), TryFromConfig(s) # Err
    PROVE  Without(Content(TryFromConfig(s).destination)
                     \o Content(TryFromConfig(s).else_destination), {":"})
             = Without(s, Separators)
<1>0. \A u, v \in Seq(Tokens) :
         Without(u \o v, {":"}) = Without(u, {":"}) \o Without(v, {":"})
  BY WithoutConcat
<1>. DEFINE All(x, y) == Without(Content(x) \o Content(y), {":"})
            r == TryFromConfig(s)
<1>1. CASE FromStr(s) # Err /\ r = WithElse(FromStr(s), None)
  <2>1. r.destination = FromStr(s) /\ r.else_destination = None
    BY <1>1 DEF WithElse
  <2>. DEFINE d == FromStr(s)
  <2>2. Content(d) \in Seq(Tokens) /\ Without(Content(d), {":"}) = Without(s, Separators)
    BY <1>1, FromStrContent
  <2>3. Content(None) = <<>>
    BY DEF Content, None
  <2>. HIDE DEF d
  <2>4. Content(d) \o <<>> = Content(d)
    BY <2>2
  <2>. QED BY <2>1, <2>2, <2>3, <2>4 DEF d
<1>2. ASSUME NEW b \in 1..Len(s),
             s[b] = "|",
             FromStr(SubSeq(s, 1, b - 1)) # Err,
             FromStr(SubSeq(s, b + 1, Len(s))) # Err,
             r = WithElse(FromStr(SubSeq(s, 1, b - 1)), FromStr(SubSeq(s, b + 1, Len(s))))
      PROVE  All(r.destination, r.else_destination) = Without(s, Separators)
  <2>. DEFINE left == SubSeq(s, 1, b - 1)
              right == SubSeq(s, b + 1, Len(s))
              d == FromStr(left)
              e == FromStr(right)
  <2>1. r.destination = d /\ r.else_destination = e
    BY <1>2 DEF WithElse
  <2>2. left \in Seq(Tokens) /\ right \in Seq(Tokens)
    OBVIOUS
  <2>3. Without(s, Separators) = Without(left, Separators) \o Without(right, Separators)
    <3>1. s[b] \in Separators
      BY <1>2 DEF Separators
    <3>. QED BY <3>1, WithoutCut
  <2>4. /\ Content(d) \in Seq(Tokens) /\ Without(Content(d), {":"}) = Without(left, Separators)
        /\ Content(e) \in Seq(Tokens) /\ Without(Content(e), {":"}) = Without(right, Separators)
    BY <1>2, <2>2, FromStrContent
  <2>. HIDE DEF left, right, d, e
  <2>5. All(d, e) = Without(Content(d), {":"}) \o Without(Content(e), {":"})
    BY <1>0, <2>4
  <2>. QED BY <2>1, <2>3, <2>4, <2>5
<1>3. \/ FromStr(s) # Err /\ r = WithElse(FromStr(s), None)
      \/ \E b \in 1..Len(s) :
           /\ s[b] = "|"
           /\ FromStr(SubSeq(s, 1, b - 1)) # Err
           /\ FromStr(SubSeq(s, b + 1, Len(s))) # Err
           /\ r = WithElse(FromStr(SubSeq(s, 1, b - 1)), FromStr(SubSeq(s, b + 1, Len(s))))
  BY TryFromConfigParts
<1>. QED BY <1>1, <1>2, <1>3

\* What a text with else is read as.
LEMMA TryFromConfigShape ==
    ASSUME NEW s \in Seq(Tokens), TryFromConfig(s) # Err
    PROVE  \E d, e : /\ TryFromConfig(s) = WithElse(d, e)
                     /\ Readable(d) /\ d # None
                     /\ Readable(e) \/ e = None
<1>1. CASE FromStr(s) # Err /\ TryFromConfig(s) = WithElse(FromStr(s), None)
  BY <1>1, FromStrShape
<1>2. CASE \E b \in 1..Len(s) :
             /\ FromStr(SubSeq(s, 1, b - 1)) # Err
             /\ FromStr(SubSeq(s, b + 1, Len(s))) # Err
             /\ TryFromConfig(s) = WithElse(FromStr(SubSeq(s, 1, b - 1)),
                                            FromStr(SubSeq(s, b + 1, Len(s))))
  <2>1. \A b \in 1..Len(s) : SubSeq(s, 1, b - 1) \in Seq(Tokens)
                              /\ SubSeq(s, b + 1, Len(s)) \in Seq(Tokens)
    OBVIOUS
  <2>2. PICK b \in 1..Len(s) :
             /\ FromStr(SubSeq(s, 1, b - 1)) # Err
             /\ FromStr(SubSeq(s, b + 1, Len(s))) # Err
             /\ TryFromConfig(s) = WithElse(FromStr(SubSeq(s, 1, b - 1)),
                                            FromStr(SubSeq(s, b + 1, Len(s))))
    BY <1>2
  <2>3. /\ Readable(FromStr(SubSeq(s, 1, b - 1))) /\ FromStr(SubSeq(s, 1, b - 1)) # None
        /\ Readable(FromStr(SubSeq(s, b + 1, Len(s))))
    BY <2>1, <2>2, FromStrShape
  <2>. QED BY <2>2, <2>3, Zenon
<1>. QED BY <1>1, <1>2, TryFromConfigParts
-----------------------------------------------------------------------------
(* The two readers of address lists.                                       *)

\* A text that ends in a port is cut in front of that port, whatever colons
\* its addresses hold.
LEMMA FromStrWithPort ==
    ASSUME NEW list \in Seq(Tokens)
    PROVE  FromStr(list \o <<":", "1">>) = Result(Addrs(list), <<"1">>)
<1>. DEFINE s == list \o <<":", "1">>
            n == Len(list)
<1>1. /\ s \in Seq(Tokens) /\ n \in Nat /\ Len(s) = n + 2
      /\ s[n + 1] = ":" /\ s[n + 2] = "1"
      /\ SubSeq(s, 1, n) = list /\ SubSeq(s, n + 2, Len(s)) = <<"1">>
  <2>1. <<":", "1">> \in Seq(Tokens) /\ n \in Nat
    BY DEF Tokens, Separators
  <2>2. s \in Seq(Tokens) /\ Len(s) = n + 2 /\ s[n + 1] = ":" /\ s[n + 2] = "1"
        /\ \A i \in 1..n : s[i] = list[i]
    BY <2>1
  <2>. HIDE DEF s
  <2>3. SubSeq(s, 1, n) \in Seq(Tokens) /\ Len(SubSeq(s, 1, n)) = n
        /\ \A i \in 1..n : SubSeq(s, 1, n)[i] = list[i]
    BY <2>1, <2>2
  <2>4. SubSeq(s, 1, n) = list
    BY <2>1, <2>3
  <2>5. SubSeq(s, n + 2, n + 2) = <<"1">>
    <3>. DEFINE r == SubSeq(s, n + 2, n + 2)
    <3>1. r \in Seq(Tokens) /\ Len(r) = 1 /\ r[1] = s[n + 2]
      <4>1. n + 2 \in Int /\ \A i \in (n + 2)..(n + 2) : s[i] \in Tokens
        BY <2>1, <2>2
      <4>2. n + 2 - (n + 2) + 1 = 1 /\ n + 2 + 1 - 1 = n + 2
        BY <2>1
      <4>. QED BY <4>1, <4>2, SubSeqProperties
    <3>. HIDE DEF r
    <3>2. <<"1">> \in Seq(Tokens) /\ Len(<<"1">>) = 1 /\ <<"1">>[1] = "1"
      BY DEF Tokens
    <3>3. r = <<"1">>
      BY <2>2, <3>1, <3>2, SeqEqual
    <3>. QED BY <3>3 DEF r
  <2>. QED BY <2>1, <2>2, <2>4, <2>5
<1>. HIDE DEF s
<1>2. s # <<"ssh-tarpit">>
  <2>1. Len(<<"ssh-tarpit">>) = 1
    OBVIOUS
  <2>. QED BY <1>1, <2>1
<1>3. PICK c \in 0..Len(s) :
         /\ LastColon(s, c)
         /\ FromStr(s) = Result(Addrs(SubSeq(s, 1, c - 1)), Trim(SubSeq(s, c + 1, Len(s))))
  BY <1>1, <1>2, FromStrAt
<1>4. c = n + 1
  BY <1>1, <1>3 DEF LastColon
<1>5. Trim(<<"1">>) = <<"1">>
  <2>1. <<"1">> \in Seq({"1"}) /\ "1" # Space
    BY TokensDiffer DEF AddressTokens
  <2>2. Trimmed(<<"1">>)
    BY <2>1 DEF Trimmed
  <2>3. <<>> \in Seq({"1"} \cap {Space}) /\ <<>> \o (<<"1">> \o <<>>) = <<"1">>
    OBVIOUS
  <2>4. Trim(<<>> \o (<<"1">> \o <<>>)) = <<"1">>
    BY <2>1, <2>2, <2>3, TrimIs
  <2>. QED BY <2>3, <2>4
<1>6. SubSeq(s, 1, c - 1) = list /\ Trim(SubSeq(s, c + 1, Len(s))) = <<"1">>
  <2>1. c - 1 = n /\ c + 1 = n + 2
    BY <1>1, <1>4
  <2>. QED BY <1>1, <1>5, <2>1
<1>. QED BY <1>3, <1>6 DEF s

\* Nothing is no address.
LEMMA NoAddressIsEmpty == ~IsIp(<<>>)
BY DEF IsIp

\* It does not matter that a list is trimmed before it is split.
LEMMA AddrsUntrimmed ==
    ASSUME NEW list \in Seq(Tokens)
    PROVE  Addrs(list) = Without(Bare(Split(list, Comma)), {<<>>})
<1>. DEFINE whole == Split(Trim(list), Comma)
            pieces == Split(list, Comma)
            w == Bare(whole)
            b == Bare(pieces)
<1>1. Trim(list) \in Seq(Tokens)
  BY TrimParts
<1>2. whole \in Seq(Seq(Tokens)) /\ pieces \in Seq(Seq(Tokens))
  <2>1. whole \in Seq(Seq(Tokens \ {Comma})) /\ pieces \in Seq(Seq(Tokens \ {Comma}))
    BY <1>1, SplitType
  <2>. QED BY <2>1
<1>3. Len(whole) = Len(pieces) /\ \A k \in 1..Len(pieces) : Trim(whole[k]) = Trim(pieces[k])
  BY SplitTrim, TokensDiffer
<1>. HIDE DEF whole, pieces
<1>4. /\ w \in Seq(Seq(Tokens)) /\ Len(w) = Len(whole)
      /\ \A k \in 1..Len(whole) : w[k] = Without(Trim(whole[k]), {"[", "]"})
      /\ b \in Seq(Seq(Tokens)) /\ Len(b) = Len(pieces)
      /\ \A k \in 1..Len(pieces) : b[k] = Without(Trim(pieces[k]), {"[", "]"})
  BY <1>2, BareType
<1>. HIDE DEF w, b
<1>5. Len(w) = Len(b) /\ \A k \in 1..Len(w) : w[k] = b[k]
  BY <1>3, <1>4
<1>6. w = b
  BY <1>4, <1>5, SeqEqual
<1>. QED BY <1>6 DEF Addrs, w, b, whole, pieces

\* Empty entries do not count, and an accepted list has none but a last one.
LEMMA AddrsOfAccepted ==
    ASSUME NEW list \in Seq(Tokens),
           \A k \in DOMAIN Bare(SplitTerminator(list, Comma)) :
              IsIp(Bare(SplitTerminator(list, Comma))[k])
    PROVE  Addrs(list) = Bare(SplitTerminator(list, Comma))
<1>. DEFINE pieces == Split(list, Comma)
            taken == SplitTerminator(list, Comma)
            b == Bare(pieces)
            t == Bare(taken)
<1>1. pieces \in Seq(Seq(Tokens)) \ {<<>>}
  <2>1. pieces \in Seq(Seq(Tokens \ {Comma})) \ {<<>>}
    BY SplitType
  <2>. QED BY <2>1
<1>2. taken = IF Last(pieces) = <<>> THEN Front(pieces) ELSE pieces
  BY DEF SplitTerminator
<1>. HIDE DEF pieces
<1>3. taken \in Seq(Seq(Tokens))
  BY <1>1, <1>2, FrontLast
<1>. HIDE DEF taken
<1>4. /\ b \in Seq(Seq(Tokens)) /\ Len(b) = Len(pieces)
      /\ \A k \in 1..Len(pieces) : b[k] = Without(Trim(pieces[k]), {"[", "]"})
      /\ t \in Seq(Seq(Tokens)) /\ Len(t) = Len(taken)
      /\ \A k \in 1..Len(taken) : t[k] = Without(Trim(taken[k]), {"[", "]"})
  BY <1>1, <1>3, BareType
<1>5. Addrs(list) = Without(b, {<<>>})
  BY AddrsUntrimmed DEF b, pieces
<1>6. \A k \in 1..Len(t) : t[k] # <<>>
  <2>1. DOMAIN t = 1..Len(t)
    BY <1>4
  <2>2. \A k \in DOMAIN t : IsIp(t[k])
    BY DEF t, taken
  <2>. HIDE DEF t
  <2>. QED BY <2>1, <2>2, NoAddressIsEmpty
<1>. HIDE DEF b, t
<1>7. Without(t, {<<>>}) = t
  <2>1. t \in Seq(Seq(Tokens) \ {<<>>})
    <3>. DEFINE T == Seq(Tokens) \ {<<>>}
    <3>1. \A k \in 1..Len(t) : t[k] \in T
      BY <1>4, <1>6
    <3>2. t \in [1..Len(t) -> Seq(Tokens)] /\ Len(t) \in Nat
      BY <1>4
    <3>. HIDE DEF T
    <3>3. t \in Seq(T)
      BY <3>1, <3>2
    <3>. QED BY <3>3 DEF T
  <2>2. (Seq(Tokens) \ {<<>>}) \cap {<<>>} = (Seq(Tokens) \ {<<>>}) \cap {}
    OBVIOUS
  <2>3. Without(t, {<<>>}) = Without(t, {})
    BY <2>1, <2>2, WithoutSame
  <2>. QED BY <1>4, <2>3, WithoutNothing
<1>8. CASE Last(pieces) # <<>>
  <2>1. taken = pieces
    BY <1>2, <1>8
  <2>2. t = b
    BY <2>1 DEF t, b
  <2>. QED BY <1>5, <1>7, <2>2 DEF t, taken
<1>9. CASE Last(pieces) = <<>>
  <2>1. taken = Front(pieces)
    BY <1>2, <1>9
  <2>2. /\ Len(taken) = Len(pieces) - 1 /\ Len(pieces) \in Nat \ {0}
        /\ pieces[Len(pieces)] = <<>>
        /\ \A k \in 1..Len(taken) : taken[k] = pieces[k]
    <3>1. Len(Front(pieces)) = Len(pieces) - 1
          /\ \A i \in 1..(Len(pieces) - 1) : Front(pieces)[i] = pieces[i]
      BY <1>1, FrontLast
    <3>2. Last(pieces) = pieces[Len(pieces)] /\ Len(pieces) \in Nat \ {0}
      BY <1>1 DEF Last
    <3>. QED BY <1>9, <2>1, <3>1, <3>2
  <2>3. b[Len(pieces)] = <<>>
    <3>1. Trim(<<>>) = <<>>
      BY DEF Trim
    <3>2. Without(<<>>, {"[", "]"}) = <<>>
      BY WithoutEmpty
    <3>. QED BY <1>4, <2>2, <3>1, <3>2
  <2>4. b = Append(t, <<>>)
    <3>1. <<>> \in Seq(Tokens)
      OBVIOUS
    <3>2. Append(t, <<>>) \in Seq(Seq(Tokens)) /\ Len(Append(t, <<>>)) = Len(b)
      BY <1>4, <2>2, <3>1
    <3>3. \A k \in 1..Len(b) : b[k] = Append(t, <<>>)[k]
      <4>. SUFFICES ASSUME NEW k \in 1..Len(b) PROVE b[k] = Append(t, <<>>)[k]
        OBVIOUS
      <4>1. CASE k = Len(b)
        BY <1>4, <2>2, <2>3, <3>1, <4>1
      <4>2. CASE k # Len(b)
        <5>1. k \in 1..Len(t) /\ k \in 1..Len(taken) /\ k \in 1..Len(pieces)
          BY <1>4, <2>2, <4>2
        <5>2. b[k] = t[k]
          BY <1>4, <2>2, <5>1
        <5>3. Append(t, <<>>)[k] = t[k]
          BY <1>4, <5>1
        <5>. QED BY <5>2, <5>3
      <4>. QED BY <4>1, <4>2
    <3>. QED BY <1>4, <3>2, <3>3, SeqEqual
  <2>5. Without(b, {<<>>}) = Without(t, {<<>>})
    <3>1. <<>> \in Seq(Tokens) /\ <<>> \in {<<>>}
      OBVIOUS
    <3>2. Without(Append(t, <<>>), {<<>>}) = Without(t, {<<>>})
      BY <1>4, <3>1, WithoutAppend
    <3>. QED BY <2>4, <3>2
  <2>. QED BY <1>5, <1>7, <2>5 DEF t, taken
<1>. QED BY <1>8, <1>9

\* What TakeAddresses accepts, FromStr accepts in front of a port.
LEMMA AcceptedTwice ==
    ASSUME NEW list \in Seq(Tokens), TakeAddresses(list) # Err
    PROVE  /\ FromStr(list \o <<":", "1">>) # Err
           /\ FromStr(list \o <<":", "1">>).addrs = TakeAddresses(list).addrs
<1>. DEFINE t == Bare(SplitTerminator(list, Comma))
<1>1. (\A k \in DOMAIN t : IsIp(t[k])) /\ TakeAddresses(list) = List(t)
  <2>. HIDE DEF t
  <2>. QED BY Zenon DEF TakeAddresses, t
<1>2. Addrs(list) = t
  BY <1>1, AddrsOfAccepted
<1>3. IsPort(<<"1">>)
  BY DEF IsPort, Digits
<1>. DEFINE p == <<"1">>
<1>. HIDE DEF t, p
<1>4. Result(t, p) = IF t = <<>> THEN WithPort(p) ELSE WithPortAndAddrs(p, t)
  BY <1>1, <1>3, Zenon DEF Result, p
<1>5. Result(t, p) # Err /\ Result(t, p).addrs = t
  BY <1>4 DEF WithPort, WithPortAndAddrs, Err
<1>6. TakeAddresses(list).addrs = t
  BY <1>1 DEF List
<1>7. FromStr(list \o <<":", "1">>) = Result(t, p)
  BY <1>2, FromStrWithPort DEF p
<1>. QED BY <1>5, <1>6, <1>7

-----------------------------------------------------------------------------
(* Addresses as they are written.                                          *)

IpAt(a, k) ==
    /\ k \in 1..(Len(a) - 1) /\ a[k] = ":" /\ a[k + 1] = ":"
    /\ Groups(SubSeq(a, 1, k - 1), FALSE)
    /\ Groups(SubSeq(a, k + 2, Len(a)), TRUE)

\* Where the groups of an address begin does not matter.
LEMMA IpIsRead == \A a, k : IpAt(a, k) => IsIp(a)
BY DEF IpAt, IsIp

\* The addresses are read as such, and hold neither brackets nor spaces.
LEMMA AddressesAreRead ==
    ASSUME NEW a \in Addresses
    PROVE  /\ a \in Seq(AddressTokens) /\ a # <<>> /\ IsIp(a)
<1>1. Groups(<<>>, FALSE) /\ Groups(<<>>, TRUE)
  BY DEF Groups
<1>2. Groups(<<"1">>, FALSE) /\ Groups(<<"1">>, TRUE)
  <2>1. <<"1">> \in Seq({"1"}) /\ "1" # ":"
    OBVIOUS
  <2>2. Split(<<>> \o <<"1">>, ":") = Split(<<"1">>, ":")
    OBVIOUS
  <2>3. Split(<<"1">>, ":") = << <<"1">> >>
    <3>1. <<"1">> \in Seq({"1"} \ {":"})
      OBVIOUS
    <3>. QED BY <3>1, SplitAlone
  <2>4. Digits(<<"1">>, 4)
    BY DEF Digits
  <2>. QED BY <2>3, <2>4 DEF Groups
<1>3. CASE a = <<"127.0.0.255">>
  BY <1>3 DEF IsIp, AddressTokens
<1>4. CASE a = <<":", ":">>
  <2>1. /\ a \in Seq(AddressTokens) /\ a # <<>> /\ Len(a) = 2
        /\ a[1] = ":" /\ a[2] = ":"
    BY <1>4 DEF AddressTokens
  <2>2. SubSeq(a, 1, 0) = <<>>
    BY SubSeqEmpty
  <2>3. SubSeq(a, 3, 2) = <<>>
    BY SubSeqEmpty
  <2>4. 1 \in 1..(Len(a) - 1) /\ 1 - 1 = 0 /\ 1 + 1 = 2 /\ 1 + 2 = 3
    BY <2>1
  <2>5. IpAt(a, 1)
    <3>1. a[1 + 1] = ":" /\ SubSeq(a, 1, 1 - 1) = <<>> /\ SubSeq(a, 1 + 2, Len(a)) = <<>>
      BY <2>1, <2>2, <2>3, <2>4
    <3>. QED BY <1>1, <1>2, <2>1, <2>4, <3>1, Zenon DEF IpAt
  <2>. QED BY <2>1, <2>5, IpIsRead, Zenon
<1>5. CASE a = <<":", ":", "1">>
  <2>1. /\ a \in Seq(AddressTokens) /\ a # <<>> /\ Len(a) = 3
        /\ a[1] = ":" /\ a[2] = ":" /\ a[3] = "1"
    BY <1>5 DEF AddressTokens
  <2>2. SubSeq(a, 1, 0) = <<>>
    BY SubSeqEmpty
  <2>3. SubSeq(a, 3, 3) = <<"1">>
    <3>1. 3 \in 1..Len(a)
      BY <2>1
    <3>. QED BY <2>1, <3>1, SubSeqOne
  <2>4. 1 \in 1..(Len(a) - 1) /\ 1 - 1 = 0 /\ 1 + 1 = 2 /\ 1 + 2 = 3
    BY <2>1
  <2>5. IpAt(a, 1)
    <3>1. a[1 + 1] = ":" /\ SubSeq(a, 1, 1 - 1) = <<>> /\ SubSeq(a, 1 + 2, Len(a)) = <<"1">>
      BY <2>1, <2>2, <2>3, <2>4
    <3>. QED BY <1>1, <1>2, <2>1, <2>4, <3>1, Zenon DEF IpAt
  <2>. QED BY <2>1, <2>5, IpIsRead, Zenon
<1>6. CASE a = <<"1", ":", ":">>
  <2>1. /\ a \in Seq(AddressTokens) /\ a # <<>> /\ Len(a) = 3
        /\ a[1] = "1" /\ a[2] = ":" /\ a[3] = ":"
    BY <1>6 DEF AddressTokens
  <2>2. SubSeq(a, 1, 1) = <<"1">>
    <3>1. 1 \in 1..Len(a)
      BY <2>1
    <3>. QED BY <2>1, <3>1, SubSeqOne
  <2>3. SubSeq(a, 4, 3) = <<>>
    BY SubSeqEmpty
  <2>4. 2 \in 1..(Len(a) - 1) /\ 2 - 1 = 1 /\ 2 + 1 = 3 /\ 2 + 2 = 4
    BY <2>1
  <2>5. IpAt(a, 2)
    <3>1. a[2 + 1] = ":" /\ SubSeq(a, 1, 2 - 1) = <<"1">> /\ SubSeq(a, 2 + 2, Len(a)) = <<>>
      BY <2>1, <2>2, <2>3, <2>4
    <3>. QED BY <1>1, <1>2, <2>1, <2>4, <3>1, Zenon DEF IpAt
  <2>. QED BY <2>1, <2>5, IpIsRead, Zenon
<1>. QED BY <1>3, <1>4, <1>5, <1>6 DEF Addresses

Entries == Tokens \ {Comma, "|"}

\* Each of the ways to write an address is one entry of a list, and without
\* spaces and brackets it is the address.
LEMMA AddressTextsAreRead ==
    ASSUME NEW a \in Addresses, NEW t \in AddressTexts(a)
    PROVE  /\ t \in Seq(Entries)
           /\ Without(Trim(t), {"[", "]"}) = a
<1>1. a \in Seq(AddressTokens) /\ a # <<>>
  BY AddressesAreRead
<1>2. /\ AddressTokens \subseteq Entries /\ Space \in Entries
      /\ "[" \in Entries /\ "]" \in Entries /\ "[" # Space /\ "]" # Space
      /\ Space \notin AddressTokens /\ AddressTokens \cap {"[", "]"} = AddressTokens \cap {}
  <2>1. Comma # "[" /\ Comma # "]" /\ "[" # Space /\ "]" # Space /\ Space # "|"
    BY Zenon DEF Space, Comma
  <2>. QED BY <2>1, TokensDiffer DEF Entries, Tokens, Separators, AddressTokens
<1>3. a \in Seq(Entries)
  BY <1>1, <1>2
<1>4. Trimmed(a) /\ Without(a, {"[", "]"}) = a
  <2>1. Without(a, {"[", "]"}) = Without(a, {})
    BY <1>1, <1>2, WithoutSame
  <2>2. Without(a, {}) = a
    BY <1>1, WithoutNothing
  <2>3. Trimmed(a)
    BY <1>1, <1>2 DEF Trimmed
  <2>. QED BY <2>1, <2>2, <2>3
<1>. DEFINE q == <<"[">> \o (a \o <<"]">>)
<1>5. q \in Seq(Entries) /\ Trimmed(q) /\ Without(q, {"[", "]"}) = a
  <2>0. \A u, v \in Seq(Entries) :
           Without(u \o v, {"[", "]"}) = Without(u, {"[", "]"}) \o Without(v, {"[", "]"})
    BY WithoutConcat
  <2>1. <<"[">> \in Seq(Entries) /\ <<"]">> \in Seq(Entries) /\ a \o <<"]">> \in Seq(Entries)
    BY <1>2, <1>3
  <2>2. Without(<<"[">>, {"[", "]"}) = <<>> /\ Without(<<"]">>, {"[", "]"}) = <<>>
    <3>1. <<"[">> \in Seq({"["}) /\ <<"]">> \in Seq({"]"})
      OBVIOUS
    <3>2. {"["} \subseteq {"[", "]"} /\ {"]"} \subseteq {"[", "]"}
      OBVIOUS
    <3>. QED BY <3>1, <3>2, WithoutAll
  <2>3. Without(a \o <<"]">>, {"[", "]"}) = a \o <<>>
    BY <1>3, <1>4, <2>0, <2>1, <2>2
  <2>4. Without(q, {"[", "]"}) = <<>> \o (a \o <<>>)
    BY <2>0, <2>1, <2>2, <2>3
  <2>5. <<>> \o (a \o <<>>) = a
    BY <1>3
  <2>6. q \in Seq(Entries)
    BY <2>1
  <2>7. Trimmed(q)
    <3>1. Len(a) \in Nat /\ Len(a \o <<"]">>) = Len(a) + 1 /\ (a \o <<"]">>)[Len(a) + 1] = "]"
      BY <1>3
    <3>. DEFINE r == a \o <<"]">>
    <3>. HIDE DEF r
    <3>2. Len(<<"[">> \o r) = Len(a) + 2 /\ (<<"[">> \o r)[1] = "["
          /\ (<<"[">> \o r)[Len(a) + 2] = "]"
      BY <2>1, <3>1 DEF r
    <3>. QED BY <1>2, <3>2 DEF r, Trimmed
  <2>. QED BY <2>4, <2>5, <2>6, <2>7
<1>. HIDE DEF q
<1>6. \A e \in Seq(Entries) : Trimmed(e) => Trim(e) = e /\ Trim(<<Space>> \o e) = e
                                           /\ Trim(e \o <<Space>>) = e
  <2>. SUFFICES ASSUME NEW e \in Seq(Entries), Trimmed(e)
                PROVE  Trim(e) = e /\ Trim(<<Space>> \o e) = e /\ Trim(e \o <<Space>>) = e
    OBVIOUS
  <2>1. <<>> \in Seq(Entries \cap {Space}) /\ <<Space>> \in Seq(Entries \cap {Space})
    BY <1>2
  <2>2. /\ Trim(<<>> \o (e \o <<>>)) = e
        /\ Trim(<<Space>> \o (e \o <<>>)) = e
        /\ Trim(<<>> \o (e \o <<Space>>)) = e
    BY <2>1, TrimIs
  <2>3. e \o <<>> = e /\ <<>> \o e = e
    OBVIOUS
  <2>4. <<>> \o (e \o <<Space>>) = e \o <<Space>>
    <3>1. e \o <<Space>> \in Seq(Entries)
      BY <1>2
    <3>. QED BY <3>1, ConcatEmptySeq
  <2>. QED BY <2>2, <2>3, <2>4
<1>7. t \in {a, q, <<Space>> \o q, a \o <<Space>>}
  <2>1. <<"[">> \o a \o <<"]">> = q /\ <<Space, "[">> \o a \o <<"]">> = <<Space>> \o q
    <3>1. <<"[">> \in Seq(Entries) /\ <<"]">> \in Seq(Entries) /\ <<Space>> \in Seq(Entries)
          /\ <<Space, "[">> \in Seq(Entries) /\ <<Space, "[">> = <<Space>> \o <<"[">>
      BY <1>2
    <3>2. \A u, v, w \in Seq(Entries) : (u \o v) \o w = u \o (v \o w)
      BY ConcatAssociative
    <3>3. a \o <<"]">> \in Seq(Entries) /\ <<"[">> \o a \in Seq(Entries)
      BY <1>3, <3>1
    <3>4. (<<"[">> \o a) \o <<"]">> = q
      BY <1>3, <3>1, <3>2 DEF q
    <3>5. (<<Space>> \o <<"[">>) \o a = <<Space>> \o (<<"[">> \o a)
      BY <1>3, <3>1, <3>2
    <3>6. (<<Space>> \o (<<"[">> \o a)) \o <<"]">> = <<Space>> \o ((<<"[">> \o a) \o <<"]">>)
      BY <1>3, <3>1, <3>2, <3>3
    <3>. QED BY <3>1, <3>4, <3>5, <3>6
  <2>. QED BY <2>1, Zenon DEF AddressTexts
<1>8. <<Space>> \o q \in Seq(Entries) /\ a \o <<Space>> \in Seq(Entries)
  BY <1>2, <1>3, <1>5
<1>9. Trim(t) \in {a, q}
  BY <1>3, <1>4, <1>5, <1>6, <1>7, Zenon
<1>. QED BY <1>3, <1>4, <1>5, <1>7, <1>8, <1>9, Zenon

\* What is not empty stays in a list.
LEMMA NoneEmpty ==
    ASSUME NEW S, NEW r \in Seq(S), \A k \in 1..Len(r) : r[k] # <<>>
    PROVE  Without(r, {<<>>}) = r
<1>. DEFINE T == S \ {<<>>}
<1>1. \A k \in 1..Len(r) : r[k] \in T
  OBVIOUS
<1>2. r \in [1..Len(r) -> S] /\ Len(r) \in Nat
  OBVIOUS
<1>. HIDE DEF T
<1>3. r \in Seq(T)
  BY <1>1, <1>2
<1>4. T \cap {<<>>} = T \cap {}
  BY DEF T
<1>. QED BY <1>3, <1>4, WithoutSame, WithoutNothing

\* An address on its own is read as written ...
LEMMA OneEntry ==
    ASSUME NEW a \in Addresses, NEW t \in AddressTexts(a)
    PROVE  t \in Seq(Entries) /\ Addrs(t) = <<a>>
<1>1. t \in Seq(Entries) /\ Without(Trim(t), {"[", "]"}) = a
  BY AddressTextsAreRead
<1>2. t \in Seq(Tokens) /\ t \in Seq(Tokens \ {Comma})
  BY <1>1 DEF Entries
<1>3. Split(t, Comma) = <<t>>
  BY <1>2, SplitAlone
<1>4. Addrs(t) = Without(Bare(<<t>>), {<<>>})
  BY <1>2, <1>3, AddrsUntrimmed
<1>5. Bare(<<t>>) = <<a>>
  BY <1>1 DEF Bare
<1>6. Without(<<a>>, {<<>>}) = <<a>>
  <2>1. <<a>> \in Seq(Addresses) /\ \A k \in 1..Len(<<a>>) : <<a>>[k] # <<>>
    BY AddressesAreRead
  <2>. QED BY <2>1, NoneEmpty
<1>. QED BY <1>1, <1>4, <1>5, <1>6

\* ... and so are two with a comma between them.
LEMMA TwoEntries ==
    ASSUME NEW a \in Addresses, NEW t \in AddressTexts(a),
           NEW b \in Addresses, NEW u \in AddressTexts(b)
    PROVE  Addrs(Append(t, Comma) \o u) = <<a, b>>
<1>1. /\ t \in Seq(Entries) /\ Without(Trim(t), {"[", "]"}) = a
      /\ u \in Seq(Entries) /\ Without(Trim(u), {"[", "]"}) = b
  BY AddressTextsAreRead
<1>2. /\ t \in Seq(Tokens \ {Comma}) /\ u \in Seq(Tokens \ {Comma})
      /\ Comma \in Tokens /\ t \in Seq(Tokens) /\ u \in Seq(Tokens)
  BY <1>1 DEF Entries, Tokens, Separators
<1>3. Split(Append(t, Comma) \o u, Comma) = <<t, u>>
  BY <1>2, SplitPair
<1>4. Addrs(Append(t, Comma) \o u) = Without(Bare(<<t, u>>), {<<>>})
  <2>1. Append(t, Comma) \o u \in Seq(Tokens)
    BY <1>2
  <2>. QED BY <1>3, <2>1, AddrsUntrimmed
<1>5. Bare(<<t, u>>) = <<a, b>>
  BY <1>1 DEF Bare
<1>6. Without(<<a, b>>, {<<>>}) = <<a, b>>
  <2>1. <<a, b>> \in Seq(Addresses) /\ \A k \in 1..Len(<<a, b>>) : <<a, b>>[k] # <<>>
    BY AddressesAreRead
  <2>. QED BY <2>1, NoneEmpty
<1>. QED BY <1>4, <1>5, <1>6

\* A list of read addresses in front of a port is a destination.
LEMMA WrittenIsRead ==
    ASSUME NEW list \in Seq(Entries \cup {Comma}), NEW addrs \in Seq(Addresses) \ {<<>>},
           Addrs(list) = addrs
    PROVE  TryFromConfig(list \o <<":", "1">>)
             = WithElse(WithPortAndAddrs(<<"1">>, addrs), None)
<1>. DEFINE s == list \o <<":", "1">>
            p == <<"1">>
<1>1. list \in Seq(Tokens)
  BY DEF Entries, Tokens, Separators
<1>2. FromStr(s) = Result(addrs, p)
  BY <1>1, FromStrWithPort
<1>3. IsPort(p) /\ \A k \in DOMAIN addrs : IsIp(addrs[k])
  <2>1. IsPort(p)
    BY DEF IsPort, Digits
  <2>. QED BY <2>1, AddressesAreRead
<1>4. s \in Seq(Tokens \ {"|"})
  <2>1. Comma # "|"
    BY Zenon DEF Comma
  <2>2. list \in Seq(Tokens \ {"|"})
    BY <2>1 DEF Entries, Tokens, Separators
  <2>3. <<":", "1">> \in Seq(Tokens \ {"|"})
    BY DEF Tokens, Separators
  <2>. QED BY <2>2, <2>3
<1>5. \A i \in 1..Len(s) : s[i] # "|"
  <2>. HIDE DEF s
  <2>. QED BY <1>4
<1>. HIDE DEF s, p
<1>6. FromStr(s) = WithPortAndAddrs(p, addrs)
  BY <1>2, <1>3, Zenon DEF Result
<1>7. WithPortAndAddrs(p, addrs) # Err
  BY DEF WithPortAndAddrs, Err
<1>8. TryFromConfig(s) = WithElse(FromStr(s), None)
  <2>. DEFINE I == {i \in 1..Len(s) : s[i] = "|"}
  <2>1. I = {}
    BY <1>5
  <2>2. SelectInSeq(s, LAMBDA t : t = "|") = 0
    BY <2>1, Zenon DEF SelectInSeq
  <2>3. TryFromConfig(s) = IF Err \in {FromStr(s), None} THEN Err ELSE WithElse(FromStr(s), None)
    BY <2>2, Zenon DEF TryFromConfig
  <2>4. None # Err
    BY DEF None, Err
  <2>. QED BY <1>6, <1>7, <2>3, <2>4
<1>. QED BY <1>6, <1>8 DEF s, p

\* What Written and WrittenPairs hold.
LEMMA WrittenTexts ==
    ASSUME NEW w \in Written \cup WrittenPairs
    PROVE  \E list \in Seq(Entries \cup {Comma}), addrs \in Seq(Addresses) \ {<<>>} :
              w = <<list \o <<":", "1">>, addrs>> /\ Addrs(list) = addrs
<1>. DEFINE T == Entries \cup {Comma}
            Port == <<":", "1">>
<1>1. ASSUME NEW x \in Written
      PROVE  \E a \in Addresses : \E t \in AddressTexts(a) : x = <<t \o Port, <<a>> >>
  <2>1. PICK z \in UNION {{a} \X AddressTexts(a) : a \in Addresses} :
           x = <<z[2] \o Port, <<z[1]>> >>
    BY <1>1 DEF Written
  <2>2. PICK a \in Addresses : z \in {a} \X AddressTexts(a)
    OBVIOUS
  <2>3. z[1] = a /\ z[2] \in AddressTexts(a)
    BY <2>2
  <2>. QED BY <2>1, <2>3
<1>2. Port \in Seq(Entries) /\ Len(Port) = 2
  <2>1. Comma # ":" /\ Comma # "1"
    BY Zenon DEF Comma
  <2>. QED BY <2>1 DEF Entries, Tokens, Separators
<1>3. CASE w \in Written
  <2>0. PICK a \in Addresses : \E t \in AddressTexts(a) : w = <<t \o Port, <<a>> >>
    BY <1>1, <1>3
  <2>1. PICK t \in AddressTexts(a) : w = <<t \o Port, <<a>> >>
    BY <2>0
  <2>2. t \in Seq(Entries) /\ Addrs(t) = <<a>>
    BY OneEntry
  <2>3. t \in Seq(T) /\ <<a>> \in Seq(Addresses) \ {<<>>}
    BY <2>2
  <2>. QED BY <2>1, <2>2, <2>3
<1>4. CASE w \in WrittenPairs
  <2>0. PICK x \in Written, y \in Written : w = Both(x, y)
    BY <1>4 DEF WrittenPairs
  <2>1. w = <<SubSeq(x[1], 1, Len(x[1]) - 2) \o (<<Comma>> \o y[1]), x[2] \o y[2]>>
    BY <2>0 DEF Both
  <2>2. PICK a \in Addresses : \E t \in AddressTexts(a) : x = <<t \o Port, <<a>> >>
    BY <1>1
  <2>3. PICK b \in Addresses : \E u \in AddressTexts(b) : y = <<u \o Port, <<b>> >>
    BY <1>1
  <2>12. PICK t \in AddressTexts(a) : x = <<t \o Port, <<a>> >>
    BY <2>2
  <2>13. PICK u \in AddressTexts(b) : y = <<u \o Port, <<b>> >>
    BY <2>3
  <2>4. t \in Seq(Entries) /\ u \in Seq(Entries)
    BY OneEntry
  <2>. DEFINE xs == t \o Port
  <2>5. x[1] = xs /\ x[2] = <<a>> /\ y[1] = u \o Port /\ y[2] = <<b>>
    BY <2>12, <2>13
  <2>. HIDE DEF Port
  <2>6. SubSeq(xs, 1, Len(xs) - 2) = t
    <3>1. xs \in Seq(Entries) /\ Len(xs) = Len(t) + 2 /\ Len(t) \in Nat
          /\ \A i \in 1..Len(t) : xs[i] = t[i]
      <4>1. Len(t) \in Nat
        BY <2>4
      <4>2. /\ xs \in Seq(Entries) /\ Len(xs) = Len(t) + Len(Port)
            /\ \A i \in 1..(Len(t) + Len(Port)) :
                  xs[i] = IF i <= Len(t) THEN t[i] ELSE Port[i - Len(t)]
        BY <1>2, <2>4, ConcatProperties
      <4>. HIDE DEF xs
      <4>. QED BY <1>2, <4>1, <4>2
    <3>. HIDE DEF xs
    <3>2. Len(xs) - 2 = Len(t)
      BY <3>1
    <3>. DEFINE r == SubSeq(xs, 1, Len(t))
    <3>3. r \in Seq(Entries) /\ Len(r) = Len(t) /\ \A i \in 1..Len(r) : r[i] = t[i]
      BY <3>1
    <3>. HIDE DEF r
    <3>4. r = t
      BY <2>4, <3>3, SeqEqual
    <3>. QED BY <3>2, <3>4 DEF r
  <2>. DEFINE list == Append(t, Comma) \o u
  <2>7. t \o (<<Comma>> \o (u \o Port)) = list \o Port
    <3>1. t \in Seq(T) /\ u \in Seq(T) /\ Port \in Seq(T) /\ <<Comma>> \in Seq(T)
          /\ u \o Port \in Seq(T)
      BY <1>2, <2>4
    <3>2. \A e, f, g \in Seq(T) : (e \o f) \o g = e \o (f \o g)
      BY ConcatAssociative
    <3>3. Append(t, Comma) = t \o <<Comma>> /\ t \o <<Comma>> \in Seq(T)
      BY <3>1
    <3>4. (t \o <<Comma>>) \o (u \o Port) = t \o (<<Comma>> \o (u \o Port))
      BY <3>1, <3>2
    <3>5. ((t \o <<Comma>>) \o u) \o Port = (t \o <<Comma>>) \o (u \o Port)
      BY <3>1, <3>2, <3>3
    <3>. QED BY <3>3, <3>4, <3>5, Zenon
  <2>8. list \in Seq(T)
    BY <2>4
  <2>9. Addrs(list) = <<a, b>>
    BY TwoEntries
  <2>10. <<a>> \o <<b>> = <<a, b>> /\ <<a, b>> \in Seq(Addresses) \ {<<>>}
    <3>1. a \in Addresses /\ b \in Addresses
      OBVIOUS
    <3>2. <<a>> \o <<b>> = <<a, b>>
      BY <3>1, PairFacts
    <3>3. <<a, b>> \in Seq(Addresses) /\ Len(<<a, b>>) = 2
      BY <3>1
    <3>. QED BY <3>2, <3>3
  <2>11. w = <<list \o Port, <<a, b>> >>
    <3>. HIDE DEF xs, list
    <3>. QED BY <2>1, <2>5, <2>6, <2>7, <2>10
  <2>. QED BY <2>8, <2>9, <2>10, <2>11 DEF Port
<1>. QED BY <1>3, <1>4

-----------------------------------------------------------------------------
(* The properties of the runs, for all values.                             *)

Routed == IF TryFromConfig(text) = Err THEN Fallback ELSE TryFromConfig(text)

RouteOfText == text \in Seq(Tokens) /\ route \in {NoRoute, Routed}

\* The inductive invariant, from the first state on.
LEMMA RouteOfTextInv == Spec => []RouteOfText
<1>1. Init => RouteOfText
  BY TextsAssumption DEF Init, RouteOfText
<1>2. RouteOfText /\ [Next]_vars => RouteOfText'
  <2>. SUFFICES ASSUME RouteOfText, [Next]_vars PROVE RouteOfText'
    OBVIOUS
  <2>1. text' = text /\ listener' = listener
    BY DEF Next, GetIniConfig, vars
  <2>2. TryFromConfig(text)' = TryFromConfig(text) /\ Fallback' = Fallback /\ NoRoute' = NoRoute
    BY <2>1 DEF Fallback
  <2>3. Routed' = Routed
    BY <2>2, Zenon DEF Routed
  <2>4. CASE GetIniConfig
    BY <2>1, <2>3, <2>4, Zenon DEF GetIniConfig, Routed, RouteOfText
  <2>5. CASE UNCHANGED vars
    BY <2>1, <2>2, <2>3, <2>5 DEF vars, RouteOfText
  <2>. QED BY <2>4, <2>5 DEF Next
<1>. QED BY <1>1, <1>2, PTL DEF Spec

\* A route is the fallback or all that its value says: the readers drop the
\* separators of a value and nothing else.
THEOREM EverythingOrFallback == Spec => []AllOrFallback
<1>1. RouteOfText => AllOrFallback
  <2>. SUFFICES ASSUME RouteOfText, route # NoRoute, route # Fallback
                PROVE  AllOrFallback
    BY DEF AllOrFallback
  <2>1. TryFromConfig(text) # Err /\ route = TryFromConfig(text) /\ text \in Seq(Tokens)
    <3>1. route = Routed /\ text \in Seq(Tokens)
      BY DEF RouteOfText
    <3>. QED BY <3>1, Zenon DEF Routed
  <2>. QED BY <2>1, TryFromConfigContent DEF AllOrFallback
<1>. QED BY <1>1, RouteOfTextInv, PTL

\* Every key gets a route of a kind the load balancer can read.
THEOREM KeysAreRouted == Spec => []EveryKeyIsRouted
<1>1. RouteOfText => EveryKeyIsRouted
  <2>. SUFFICES ASSUME RouteOfText, route # NoRoute PROVE EveryKeyIsRouted
    BY DEF EveryKeyIsRouted
  <2>1. \E d, e : /\ route = WithElse(d, e)
                  /\ Readable(d) /\ d # None
                  /\ Readable(e) \/ e = None
    <3>1. CASE route = Fallback
      <4>. DEFINE d == IF listener = "tls-rp-ports" THEN FallbackTlsDestination
                       ELSE WithPort(SrcPort)
      <4>1. route = WithElse(d, None)
        BY <3>1 DEF Fallback
      <4>2. Readable(d) /\ d # None
        BY DEF FallbackTlsDestination, WithPort, Readable, None
      <4>. QED BY <4>1, <4>2
    <3>2. CASE TryFromConfig(text) # Err /\ route = TryFromConfig(text)
      BY <3>2, TryFromConfigShape DEF RouteOfText
    <3>3. route = Fallback \/ (TryFromConfig(text) # Err /\ route = TryFromConfig(text))
      <4>1. route = Routed
        BY DEF RouteOfText
      <4>. QED BY <4>1, Zenon DEF Routed
    <3>. QED BY <3>1, <3>2, <3>3
  <2>2. PICK d, e : /\ route = WithElse(d, e)
                    /\ Readable(d) /\ d # None
                    /\ Readable(e) \/ e = None
    BY <2>1
  <2>3. /\ DOMAIN route = {"destination", "else_destination"}
        /\ route.destination = d /\ route.else_destination = e
    BY <2>2 DEF WithElse
  <2>. QED BY <2>2, <2>3 DEF EveryKeyIsRouted, Readable
<1>. QED BY <1>1, RouteOfTextInv, PTL

\* The reader of bind-addresses and the reader of destinations agree on every
\* list of addresses the former accepts.
THEOREM ReadersAgree == Spec => []ListsAgree
<1>1. RouteOfText => ListsAgree
  BY AcceptedTwice DEF RouteOfText, ListsAgree
<1>. QED BY <1>1, RouteOfTextInv, PTL

\* Lists of one and of two addresses are read as written, in whichever of the
\* ways each address is written and whatever colons it holds.
THEOREM WrittenAddressesAreRead == Spec => []ReadsWhatIsWritten
<1>1. RouteOfText => ReadsWhatIsWritten
  <2>. SUFFICES ASSUME RouteOfText, NEW w \in Written \cup WrittenPairs,
                       route # NoRoute, text = w[1]
                PROVE  route = WithElse(WithPortAndAddrs(<<"1">>, w[2]), None)
    BY Zenon DEF ReadsWhatIsWritten
  <2>1. PICK list \in Seq(Entries \cup {Comma}), addrs \in Seq(Addresses) \ {<<>>} :
           w = <<list \o <<":", "1">>, addrs>> /\ Addrs(list) = addrs
    BY WrittenTexts
  <2>. DEFINE meant == WithElse(WithPortAndAddrs(<<"1">>, addrs), None)
  <2>2. TryFromConfig(list \o <<":", "1">>) = meant
    BY <2>1, WrittenIsRead
  <2>3. text = list \o <<":", "1">> /\ w[2] = addrs
    BY <2>1
  <2>4. meant # Err
    BY DEF WithElse, Err
  <2>5. route = Routed
    BY DEF RouteOfText
  <2>. HIDE DEF meant
  <2>6. Routed = meant
    BY <2>2, <2>3, <2>4, Zenon DEF Routed
  <2>. QED BY <2>3, <2>5, <2>6 DEF meant
<1>. QED BY <1>1, RouteOfTextInv, PTL
=============================================================================
