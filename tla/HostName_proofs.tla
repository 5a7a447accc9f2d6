-------------------------- MODULE HostName_proofs --------------------------
(***************************************************************************)
(* Proofs about the readers of host names, for every request, every place  *)
(* where the network cuts it and every size of the peek's buffer.          *)
(***************************************************************************)
EXTENDS HostName, SequenceFacts

(* A Host field: its value and the name in it.                             *)

Colons(s) == {i \in 1..Len(s) : s[i] = ":"}

\* The two ways to look for a colon.
LEMMA ColonPlaces ==
    ASSUME NEW s
    PROVE  /\ Colon(s) = IF Colons(s) = {} THEN 0 ELSE Min(Colons(s))
           /\ SelectLastInSeq(s, LAMBDA t : t = ":")
                = IF Colons(s) = {} THEN 0 ELSE Max(Colons(s))
BY DEF Colon, Colons, SelectInSeq, SelectLastInSeq

\* The first place with a colon is the one Colon finds ...
LEMMA FirstColon ==
    ASSUME NEW S, NEW s \in Seq(S), NEW c \in 1..Len(s), s[c] = ":",
           \A i \in 1..(c - 1) : s[i] # ":"
    PROVE  Colon(s) = c
<1>. DEFINE I == Colons(s)
<1>1. I \subseteq 1..Len(s) /\ c \in I /\ \A i \in I : i >= c
  BY DEF Colons
<1>. HIDE DEF I
<1>2. Min(I) \in I /\ \A i \in I : Min(I) <= i
  BY <1>1, FirstAndLast
<1>3. Min(I) = c
  <2>1. Min(I) \in I /\ c \in I
    BY <1>1, <1>2
  <2>2. Min(I) >= c /\ Min(I) <= c
    BY <1>1, <1>2, <2>1, Zenon
  <2>3. I \subseteq Nat
    BY <1>1
  <2>. DEFINE m == Min(I)
  <2>. HIDE DEF m
  <2>4. m \in Nat /\ c \in Nat
    BY <2>1, <2>3 DEF m
  <2>5. m >= c /\ m <= c
    BY <2>2 DEF m
  <2>6. m = c
    BY <2>4, <2>5
  <2>. QED BY <2>6 DEF m
<1>. QED BY <1>1, <1>3, ColonPlaces DEF I

\* ... and the last one that rfind does.
LEMMA LastColonIs ==
    ASSUME NEW S, NEW s \in Seq(S), NEW c \in 1..Len(s), s[c] = ":",
           \A i \in (c + 1)..Len(s) : s[i] # ":"
    PROVE  SelectLastInSeq(s, LAMBDA t : t = ":") = c
<1>. DEFINE I == Colons(s)
<1>1. I \subseteq 1..Len(s) /\ c \in I /\ \A i \in I : i <= c
  BY DEF Colons
<1>. HIDE DEF I
<1>2. Max(I) \in I /\ \A i \in I : i <= Max(I)
  BY <1>1, FirstAndLast
<1>3. Max(I) = c
  <2>1. Max(I) \in I /\ c \in I
    BY <1>1, <1>2
  <2>2. Max(I) >= c /\ Max(I) <= c
    BY <1>1, <1>2, <2>1, Zenon
  <2>3. I \subseteq Nat
    BY <1>1
  <2>. DEFINE m == Max(I)
  <2>. HIDE DEF m
  <2>4. m \in Nat /\ c \in Nat
    BY <2>1, <2>3 DEF m
  <2>5. m >= c /\ m <= c
    BY <2>2 DEF m
  <2>6. m = c
    BY <2>4, <2>5
  <2>. QED BY <2>6 DEF m
<1>. QED BY <1>1, <1>3, ColonPlaces DEF I

\* A line is a Host field exactly if a Host line.
LEMMA HostFields ==
    ASSUME NEW S, NEW line \in Seq(S)
    PROVE  /\ IsHostField(line) <=> IsHostLine(line)
           /\ IsHostLine(line) => Value(line) = SubSeq(line, 3, Len(line))
<1>. DEFINE c == Colon(line)
            field == SubSeq(line, 1, c - 1)
<1>1. Len(line) \in Nat
  OBVIOUS
<1>2. ASSUME IsHostLine(line) PROVE c = 2
  <2>1. 2 \in 1..Len(line) /\ line[2] = ":" /\ \A i \in 1..(2 - 1) : line[i] # ":"
    BY <1>1, <1>2 DEF IsHostLine
  <2>. QED BY <2>1, FirstColon
<1>3. ASSUME IsHostLine(line) PROVE IsHostField(line)
  <2>1. 1 \in 1..Len(line) /\ line[1] \in {"host", "HOST"}
    BY <1>1, <1>3 DEF IsHostLine
  <2>2. SubSeq(line, 1, 1) = <<line[1]>>
    BY <2>1, SubSeqOne
  <2>3. c - 1 = 1
    BY <1>2, <1>3
  <2>. QED BY <2>1, <2>2, <2>3 DEF IsHostField
<1>4. ASSUME IsHostField(line) PROVE IsHostLine(line)
  <2>1. field \in {<<"host">>, <<"HOST">>}
    BY <1>4 DEF IsHostField
  <2>2. CASE Colons(line) = {}
    <3>1. c = 0
      BY <2>2, ColonPlaces
    <3>2. SubSeq(line, 1, 0 - 1) = <<>>
      BY SubSeqEmpty
    <3>3. field = <<>>
      BY <3>1, <3>2
    <3>4. <<>> # <<"host">> /\ <<>> # <<"HOST">>
      OBVIOUS
    <3>. QED BY <2>1, <3>3, <3>4, Zenon
  <2>3. CASE Colons(line) # {}
    <3>1. Colons(line) \subseteq 1..Len(line)
      BY DEF Colons
    <3>2. c = Min(Colons(line)) /\ c \in Colons(line)
      BY <2>3, <3>1, ColonPlaces, FirstAndLast
    <3>3. c \in 1..Len(line) /\ line[c] = ":"
      BY <3>2 DEF Colons
    <3>. HIDE DEF c
    <3>4. Len(field) = c - 1 /\ \A i \in 1..(c - 1) : field[i] = line[i]
      BY <1>1, <3>3
    <3>5. Len(field) = 1 /\ field[1] \in {"host", "HOST"}
      <4>. HIDE DEF field
      <4>. QED BY <2>1
    <3>6. c = 2
      BY <3>3, <3>4, <3>5
    <3>. QED BY <1>1, <3>3, <3>4, <3>5, <3>6 DEF IsHostLine
  <2>. QED BY <2>2, <2>3
<1>5. ASSUME IsHostLine(line) PROVE Value(line) = SubSeq(line, 3, Len(line))
  <2>1. c + 1 = 3
    BY <1>2, <1>5
  <2>. QED BY <2>1 DEF Value
<1>. QED BY <1>3, <1>4, <1>5

\* The value of a Host line is text.
LEMMA ValueType ==
    ASSUME NEW S, NEW line \in Seq(S), IsHostLine(line)
    PROVE  Value(line) \in Seq(S)
<1>1. SubSeq(line, 3, Len(line)) \in Seq(S)
  OBVIOUS
<1>. QED BY <1>1, HostFields

FirstSolid(s, f) ==
    f \in 1..Len(s) /\ s[f] # Space /\ \A i \in 1..(f - 1) : s[i] = Space

\* A colon and a zero byte are no spaces.
LEMMA ColonIsSolid == ":" # Space /\ "NUL" # Space
BY Zenon DEF Space

\* What Trim leaves begins at the first solid token.
LEMMA TrimAt ==
    ASSUME NEW S, NEW s \in Seq(S), NEW p \in 1..Len(s), s[p] # Space
    PROVE  \E f \in 1..p, l \in p..Len(s) :
              /\ FirstSolid(s, f)
              /\ Trim(s) = SubSeq(s, f, l)
              /\ \A i \in (l + 1)..Len(s) : s[i] = Space
<1>. DEFINE solid == {i \in 1..Len(s) : s[i] # Space}
<1>1. solid \subseteq 1..Len(s) /\ p \in solid
  OBVIOUS
<1>2. Trim(s) = SubSeq(s, Min(solid), Max(solid))
  <2>1. DOMAIN s = 1..Len(s)
    OBVIOUS
  <2>. QED BY <1>1, <2>1 DEF Trim
<1>3. /\ Min(solid) \in solid /\ Max(solid) \in solid
      /\ \A i \in solid : Min(solid) <= i /\ i <= Max(solid)
  <2>. HIDE DEF solid
  <2>. QED BY <1>1, FirstAndLast
<1>. DEFINE f == Min(solid)
            l == Max(solid)
<1>4. f \in 1..Len(s) /\ l \in 1..Len(s) /\ s[f] # Space /\ f <= p /\ p <= l
  BY <1>1, <1>3
<1>5. /\ \A i \in 1..(f - 1) : s[i] = Space
      /\ \A i \in (l + 1)..Len(s) : s[i] = Space
  <2>1. \A i \in 1..Len(s) : s[i] # Space => f <= i /\ i <= l
    BY <1>3
  <2>. HIDE DEF f, l
  <2>. QED BY <1>4, <2>1
<1>. HIDE DEF f, l
<1>6. f \in 1..p /\ l \in p..Len(s) /\ FirstSolid(s, f)
  BY <1>4, <1>5 DEF FirstSolid
<1>. QED BY <1>2, <1>5, <1>6 DEF f, l

\* A value with one colon: both readings of it are what stands between the
\* spaces in front and the colon.
LEMMA ValueWithColon ==
    ASSUME NEW S, NEW V \in Seq(S), NEW p \in 1..Len(V), V[p] = ":",
           \A i \in 1..Len(V) : V[i] = ":" => i = p,
           NEW f, FirstSolid(V, f)
    PROVE  /\ f \in 1..p
           /\ NameInValue(V) = SubSeq(V, f, p - 1)
           /\ Asked(V) = SubSeq(V, f, p - 1)
<1>1. V[p] # Space
  BY ColonIsSolid
<1>2. PICK g \in 1..p, l \in p..Len(V) :
         FirstSolid(V, g) /\ Trim(V) = SubSeq(V, g, l)
  BY <1>1, TrimAt
<1>3. g = f /\ f \in 1..p
  <2>1. f \in 1..Len(V) /\ g \in 1..Len(V) /\ V[f] # Space /\ V[g] # Space
        /\ (\A i \in 1..(f - 1) : V[i] = Space) /\ (\A i \in 1..(g - 1) : V[i] = Space)
    BY <1>2 DEF FirstSolid
  <2>2. ~(f < g) /\ ~(g < f)
    BY <2>1
  <2>. QED BY <2>1, <2>2
<1>. DEFINE T == Trim(V)
            c == p - f + 1
            A == Append(T, ":")
            S2 == S \cup {":"}
<1>4. T = SubSeq(V, f, l)
  BY <1>2, <1>3
<1>5. Len(V) \in Nat /\ f \in Nat \ {0} /\ l \in Nat /\ f <= p /\ p <= l /\ l <= Len(V)
  BY <1>3
<1>6. /\ T \in Seq(S) /\ Len(T) = l - f + 1
      /\ \A i \in 1..(l - f + 1) : T[i] = V[f + i - 1]
  <2>1. \A i \in f..l : V[i] \in S
    BY <1>5
  <2>2. f <= l
    BY <1>5
  <2>. QED BY <1>4, <1>5, <2>1, <2>2, SubSeqProperties
<1>. HIDE DEF T
<1>7. c \in 1..Len(T) /\ T[c] = ":" /\ \A i \in 1..Len(T) : T[i] = ":" => i = c
  <2>1. c \in 1..(l - f + 1) /\ f + c - 1 = p
    BY <1>5
  <2>2. T[c] = ":"
    BY <1>6, <2>1
  <2>3. ASSUME NEW i \in 1..Len(T), T[i] = ":" PROVE i = c
    <3>1. f + i - 1 \in 1..Len(V) /\ V[f + i - 1] = ":"
      BY <1>5, <1>6, <2>3
    <3>2. f + i - 1 = p
      BY <3>1
    <3>. QED BY <1>5, <3>2
  <2>. QED BY <1>6, <2>1, <2>2, <2>3
<1>8. SubSeq(T, 1, c - 1) = SubSeq(V, f, p - 1)
  <2>1. c - 1 \in Int /\ c - 1 <= Len(T) /\ p - 1 <= Len(V) /\ (p - 1) - f = (c - 1) - 1
        /\ p - 1 \in Int /\ 1 \in Nat \ {0}
    BY <1>5, <1>7
  <2>2. \A n \in 1..(c - 1) : T[n] = V[n - 1 + f]
    <3>1. \A n \in 1..(c - 1) : n \in 1..(l - f + 1) /\ f + n - 1 = n - 1 + f
      BY <1>5
    <3>. QED BY <1>6, <3>1
  <2>. HIDE DEF c
  <2>. QED BY <1>5, <1>6, <2>1, <2>2, SameSubSeq
<1>9. NameInValue(V) = SubSeq(T, 1, c - 1)
  <2>1. \A i \in (c + 1)..Len(T) : T[i] # ":"
    BY <1>6, <1>7
  <2>2. SelectLastInSeq(T, LAMBDA t : t = ":") = c
    BY <1>6, <1>7, <2>1, LastColonIs
  <2>3. c # 0
    BY <1>7
  <2>. HIDE DEF c
  <2>. QED BY <2>2, <2>3, Zenon DEF NameInValue, T
<1>10. Asked(V) = SubSeq(T, 1, c - 1)
  <2>1. T \in Seq(S2) /\ ":" \in S2
    BY <1>6
  <2>2. A \in Seq(S2) /\ Len(A) = Len(T) + 1 /\ \A i \in 1..Len(T) : A[i] = T[i]
    BY <2>1, AppendProperties
  <2>. HIDE DEF A, c
  <2>3. c \in 1..Len(A) /\ A[c] = ":" /\ \A i \in 1..(c - 1) : A[i] # ":"
    BY <1>6, <1>7, <2>2
  <2>4. Colon(A) = c
    BY <2>2, <2>3, FirstColon
  <2>5. SubSeq(A, 1, c - 1) = SubSeq(T, 1, c - 1)
    <3>1. c - 1 \in Int /\ c - 1 <= Len(T) /\ c - 1 <= Len(A) /\ 1 \in Nat \ {0}
          /\ \A n \in 1..(c - 1) : n \in 1..Len(T) /\ n - 1 + 1 = n
      BY <1>6, <1>7, <2>2
    <3>2. \A n \in 1..(c - 1) : A[n] = T[n - 1 + 1]
      BY <2>2, <3>1
    <3>. QED BY <2>1, <2>2, <3>1, <3>2, SameSubSeq
  <2>6. Asked(V) = SubSeq(A, 1, Colon(A) - 1)
    BY DEF Asked, A, T
  <2>. QED BY <2>4, <2>5, <2>6
<1>. QED BY <1>3, <1>8, <1>9, <1>10

\* A value without a colon: it is read with the spaces around.
LEMMA ValueWithoutColon ==
    ASSUME NEW S, NEW V \in Seq(S), \A i \in 1..Len(V) : V[i] # ":"
    PROVE  NameInValue(V) = V /\ Asked(V) = Trim(V) /\ ~Contains(Trim(V), ":")
<1>. DEFINE T == Trim(V)
            S2 == S \cup {":"}
            A == Append(T, ":")
<1>1. T \in Seq(S) /\ \A i \in 1..Len(T) : T[i] # ":"
  <2>1. V \in Seq(S \ {":"})
    <3>. DEFINE S3 == S \ {":"}
    <3>1. \A i \in 1..Len(V) : V[i] \in S3
      OBVIOUS
    <3>2. V \in [1..Len(V) -> S] /\ Len(V) \in Nat
      OBVIOUS
    <3>. HIDE DEF S3
    <3>3. V \in Seq(S3)
      BY <3>1, <3>2
    <3>. QED BY <3>3 DEF S3
  <2>2. T \in Seq(S \ {":"})
    BY <2>1, TrimParts
  <2>. HIDE DEF T
  <2>. QED BY <2>2
<1>. HIDE DEF T
<1>2. NameInValue(V) = V
  <2>1. Colons(T) = {}
    BY <1>1 DEF Colons
  <2>2. SelectLastInSeq(T, LAMBDA t : t = ":") = 0
    BY <2>1, ColonPlaces
  <2>. QED BY <2>2, Zenon DEF NameInValue, T
<1>3. Asked(V) = T
  <2>1. T \in Seq(S2) /\ ":" \in S2 /\ Len(T) \in Nat
    BY <1>1
  <2>2. A \in Seq(S2) /\ Len(A) = Len(T) + 1 /\ (\A i \in 1..Len(T) : A[i] = T[i])
        /\ A[Len(T) + 1] = ":"
    BY <2>1, AppendProperties
  <2>. HIDE DEF A
  <2>3. Colon(A) = Len(T) + 1
    <3>1. Len(T) + 1 \in 1..Len(A) /\ \A i \in 1..(Len(T) + 1 - 1) : A[i] # ":"
      BY <1>1, <2>1, <2>2
    <3>. QED BY <2>2, <3>1, FirstColon
  <2>4. SubSeq(A, 1, Len(T)) = T
    <3>. DEFINE u == SubSeq(A, 1, Len(T))
    <3>1. u \in Seq(S2) /\ Len(u) = Len(T) /\ \A i \in 1..Len(u) : u[i] = T[i]
      BY <2>1, <2>2
    <3>. HIDE DEF u
    <3>2. u = T
      BY <2>1, <3>1, SeqEqual
    <3>. QED BY <3>2 DEF u
  <2>5. Asked(V) = SubSeq(A, 1, Colon(A) - 1)
    BY DEF Asked, A, T
  <2>6. Colon(A) - 1 = Len(T)
    BY <2>1, <2>3
  <2>. QED BY <2>4, <2>5, <2>6
<1>4. ~Contains(T, ":")
  BY <1>1 DEF Contains
<1>. QED BY <1>2, <1>3, <1>4 DEF T

\* The code reads a whole value as it is meant, unless it is left untrimmed.
LEMMA WholeValue ==
    ASSUME NEW S, NEW V \in Seq(S), AtMostOneColon(V)
    PROVE  /\ Trim(NameInValue(V)) = NameInValue(V) => NameInValue(V) = Asked(V)
           /\ Contains(Trim(V), ":") => NameInValue(V) = Asked(V)
<1>1. CASE \A i \in 1..Len(V) : V[i] # ":"
  BY <1>1, ValueWithoutColon
<1>2. CASE \E p \in 1..Len(V) : V[p] = ":"
  <2>1. PICK p \in 1..Len(V) : V[p] = ":"
    BY <1>2
  <2>2. \A i \in 1..Len(V) : V[i] = ":" => i = p
    BY <2>1 DEF AtMostOneColon
  <2>3. V[p] # Space
    BY <2>1, ColonIsSolid
  <2>4. PICK f \in 1..p : FirstSolid(V, f)
    BY <2>3, TrimAt
  <2>5. NameInValue(V) = Asked(V)
    BY <2>1, <2>2, <2>4, ValueWithColon
  <2>. QED BY <2>5
<1>. QED BY <1>1, <1>2

\* A value that is cut: what the zero behind it does not become part of is the
\* name that the whole value means.
LEMMA CutValue ==
    ASSUME NEW S, NEW W \in Seq(S), NEW rest \in Seq(S), AtMostOneColon(W \o rest),
           ~Contains(NameInValue(Append(W, "NUL")), "NUL")
    PROVE  NameInValue(Append(W, "NUL")) = Asked(W \o rest)
<1>. DEFINE S2 == S \cup {"NUL"}
            X == Append(W, "NUL")
            V == W \o rest
<1>1. W \in Seq(S2) /\ rest \in Seq(S2) /\ "NUL" \in S2 /\ Len(W) \in Nat /\ Len(rest) \in Nat
  OBVIOUS
<1>2. X \in Seq(S2) /\ Len(X) = Len(W) + 1 /\ (\A i \in 1..Len(W) : X[i] = W[i])
      /\ X[Len(W) + 1] = "NUL"
  BY <1>1, AppendProperties
<1>3. V \in Seq(S2) /\ Len(V) = Len(W) + Len(rest) /\ \A i \in 1..Len(W) : V[i] = W[i]
  <2>1. V \in Seq(S2) /\ Len(V) = Len(W) + Len(rest)
        /\ \A i \in 1..(Len(W) + Len(rest)) : V[i] = IF i <= Len(W) THEN W[i] ELSE rest[i - Len(W)]
    BY <1>1, ConcatProperties
  <2>. HIDE DEF V
  <2>. QED BY <1>1, <2>1
<1>. HIDE DEF X, V
<1>4. AtMostOneColon(V) /\ ~Contains(NameInValue(X), "NUL")
  BY DEF X, V
<1>5. CASE \A i \in 1..Len(X) : X[i] # ":"
  <2>1. NameInValue(X) = X
    BY <1>2, <1>5, ValueWithoutColon
  <2>2. Contains(X, "NUL")
    BY <1>1, <1>2 DEF Contains
  <2>. QED BY <1>4, <2>1, <2>2
<1>6. CASE \E p \in 1..Len(X) : X[p] = ":"
  <2>1. PICK p \in 1..Len(X) : X[p] = ":"
    BY <1>6
  <2>2. p \in 1..Len(W) /\ p \in 1..Len(V) /\ V[p] = ":"
    <3>1. p # Len(W) + 1
      BY <1>2, <2>1
    <3>2. p \in 1..Len(W)
      BY <1>1, <1>2, <2>1, <3>1
    <3>. QED BY <1>1, <1>2, <1>3, <2>1, <3>2
  <2>3. \A i \in 1..Len(V) : V[i] = ":" => i = p
    <3>1. DOMAIN V = 1..Len(V)
      BY <1>3
    <3>. QED BY <1>4, <2>2, <3>1 DEF AtMostOneColon
  <2>4. \A i \in 1..Len(X) : X[i] = ":" => i = p
    <3>. SUFFICES ASSUME NEW i \in 1..Len(X), X[i] = ":" PROVE i = p
      OBVIOUS
    <3>1. i # Len(W) + 1
      BY <1>2
    <3>2. i \in 1..Len(W) /\ i \in 1..Len(V)
      BY <1>1, <1>2, <1>3, <3>1
    <3>3. V[i] = ":"
      BY <1>2, <1>3, <3>2
    <3>. QED BY <2>3, <3>2, <3>3
  <2>5. X[p] # Space
    BY <2>1, ColonIsSolid
  <2>6. PICK f \in 1..p : FirstSolid(X, f)
    BY <1>2, <2>5, TrimAt
  <2>7. \A i \in 1..p : X[i] = V[i]
    <3>1. \A i \in 1..p : i \in 1..Len(W)
      BY <1>1, <2>2
    <3>. QED BY <1>2, <1>3, <3>1
  <2>8. FirstSolid(V, f)
    <3>1. f \in 1..Len(V) /\ \A i \in 1..(f - 1) : i \in 1..p
      BY <2>2
    <3>. QED BY <2>6, <2>7, <3>1 DEF FirstSolid
  <2>9. NameInValue(X) = SubSeq(X, f, p - 1)
    BY <1>2, <2>1, <2>4, <2>6, ValueWithColon
  <2>10. Asked(V) = SubSeq(V, f, p - 1)
    BY <1>3, <2>2, <2>3, <2>8, ValueWithColon
  <2>11. SubSeq(X, f, p - 1) = SubSeq(V, f, p - 1)
    <3>1. f \in Nat \ {0} /\ p - 1 \in Int /\ p - 1 <= Len(X) /\ p - 1 <= Len(V)
          /\ (p - 1) - f = (p - 1) - f
      BY <1>2, <1>3, <2>2
    <3>2. \A n \in f..(p - 1) : n \in 1..p /\ n - f + f = n
      BY <2>2
    <3>3. \A n \in f..(p - 1) : X[n] = V[n - f + f]
      BY <2>7, <3>2
    <3>. QED BY <1>2, <1>3, <3>1, <3>3, SameSubSeq
  <2>. QED BY <2>9, <2>10, <2>11 DEF X, V
<1>. QED BY <1>5, <1>6

-----------------------------------------------------------------------------
(* The lines of a request.                                                 *)

Lines(x) == Split(x, "crlf")

Hosts(x) ==
    {k \in DOMAIN Lines(x) : /\ IsHostField(Lines(x)[k])
                             /\ \A j \in 1..k : ~Contains(Lines(x)[j], "bad")}

\* The reader of HTTP headers, in terms of the lines.
LEMMA FoundIn ==
    ASSUME NEW arrived
    PROVE  HostNameIn(arrived) =
              IF Hosts(Peeked(arrived)) = {} THEN NoName
              ELSE NameInValue(Value(Lines(Peeked(arrived))[Min(Hosts(Peeked(arrived)))]))
BY DEF HostNameIn, Hosts, Lines

\* Lines are text, and there is at least one.
LEMMA LineFacts ==
    ASSUME NEW S, NEW x \in Seq(S)
    PROVE  /\ Len(Lines(x)) \in Nat \ {0}
           /\ DOMAIN Lines(x) = 1..Len(Lines(x))
           /\ \A j \in 1..Len(Lines(x)) : Lines(x)[j] \in Seq(S)
<1>1. Lines(x) \in Seq(Seq(S \ {"crlf"}))
  BY SplitType DEF Lines
<1>2. DOMAIN Lines(x) = 1..Len(Lines(x))
  BY <1>1
<1>. QED BY <1>2, PieceFacts DEF Lines

\* The lines of the beginning of a text are lines of the text, but for the last.
LEMMA LinesGoOn ==
    ASSUME NEW S, NEW s, NEW a \in Seq(S), BeginsWith(S, s, a)
    PROVE  /\ Len(Lines(a)) <= Len(Lines(s))
           /\ \A j \in 1..(Len(Lines(a)) - 1) : Lines(s)[j] = Lines(a)[j]
           /\ BeginsWith(S, Lines(s)[Len(Lines(a))], Lines(a)[Len(Lines(a))])
<1>1. PICK r \in Seq(S) : s = a \o r
  BY DEF BeginsWith
<1>2. GoesOn(S, Lines(a), Lines(a \o r))
  BY SplitPrefix DEF Lines
<1>. QED BY <1>1, <1>2, Zenon DEF GoesOn, BeginsWith

\* Places in the lines of a text.
LEMMA HeaderFacts ==
    ASSUME NEW S, NEW x \in Seq(S)
    PROVE  /\ HostHeader(x) = {k \in 1..Len(Lines(x)) :
                                 IsHostLine(Lines(x)[k]) /\ \A j \in 1..k : Lines(x)[j] # <<>>}
           /\ Hosts(x) = {k \in 1..Len(Lines(x)) :
                            /\ IsHostLine(Lines(x)[k])
                            /\ \A j \in 1..k : ~Contains(Lines(x)[j], "bad")}
<1>1. DOMAIN Lines(x) = 1..Len(Lines(x))
  BY LineFacts
<1>2. \A k \in 1..Len(Lines(x)) : IsHostField(Lines(x)[k]) <=> IsHostLine(Lines(x)[k])
  BY LineFacts, HostFields
<1>. QED BY <1>1, <1>2 DEF HostHeader, Hosts, Lines

\* The Host line that counts is in the buffer, with its line end.
LEMMA AskedLine ==
    ASSUME NEW S, NEW text \in Seq(S), HttpBuffer \in Nat \ {0},
           ~IsTls(text), AsksInBuffer(text)
    PROVE  /\ Min(HostHeader(text)) \in HostHeader(text)
           /\ \A k \in HostHeader(text) : Min(HostHeader(text)) <= k
           /\ AtMostOneColon(HostValue(text))
           /\ \E n \in 1..Len(text) :
                 n <= HttpBuffer /\ Min(HostHeader(text)) < Len(Lines(SubSeq(text, 1, n)))
<1>1. Len(text) \in Nat
  OBVIOUS
<1>2. PICK n \in 1..Min({HttpBuffer, Len(text)}) :
         text[n] = "crlf" /\ HostHeader(SubSeq(text, 1, n)) # {}
  BY DEF AsksInBuffer
<1>3. n \in 1..Len(text) /\ n <= HttpBuffer
  <2>1. {HttpBuffer, Len(text)} \in SUBSET Nat /\ {HttpBuffer, Len(text)} # {}
    BY <1>1
  <2>. DEFINE m == Min({HttpBuffer, Len(text)})
  <2>2. m \in Nat /\ m <= HttpBuffer /\ m <= Len(text)
    BY <2>1, MinOfNat
  <2>3. n \in 1..m
    OBVIOUS
  <2>. HIDE DEF m
  <2>. QED BY <1>1, <2>2, <2>3
<1>. DEFINE head == SubSeq(text, 1, n)
            front == SubSeq(text, 1, n - 1)
            lines == Lines(head)
<1>4. head \in Seq(S) /\ front \in Seq(S)
  BY <1>3
<1>5. head = Append(front, "crlf") /\ "crlf" \in S
  <2>1. "crlf" \in S
    BY <1>2, <1>3
  <2>2. Len(head) = n /\ (\A i \in 1..n : head[i] = text[i])
        /\ Len(front) = n - 1 /\ \A i \in 1..(n - 1) : front[i] = text[i]
    BY <1>1, <1>3
  <2>. HIDE DEF head, front
  <2>. DEFINE a == Append(front, "crlf")
  <2>3. a \in Seq(S) /\ Len(a) = Len(front) + 1 /\ (\A i \in 1..Len(front) : a[i] = front[i])
        /\ a[Len(front) + 1] = "crlf"
    BY <1>4, <2>1, AppendProperties
  <2>. HIDE DEF a
  <2>4. Len(a) = Len(head) /\ \A i \in 1..Len(a) : a[i] = head[i]
    BY <1>2, <1>3, <2>2, <2>3
  <2>5. a = head
    BY <1>4, <2>3, <2>4, SeqEqual
  <2>. QED BY <2>1, <2>5 DEF a
<1>. HIDE DEF head, front
<1>6. lines = Append(Lines(front), <<>>)
  BY <1>4, <1>5, SplitAppend DEF Lines
<1>7. Len(lines) \in Nat \ {0} /\ lines[Len(lines)] = <<>>
  <2>1. Lines(front) \in Seq(Seq(S \ {"crlf"}))
    BY <1>4, SplitType DEF Lines
  <2>. DEFINE w == Lines(front)
  <2>. HIDE DEF w
  <2>2. <<>> \in Seq(S \ {"crlf"}) /\ w \in Seq(Seq(S \ {"crlf"}))
    BY <2>1 DEF w
  <2>3. Len(Append(w, <<>>)) = Len(w) + 1 /\ Append(w, <<>>)[Len(w) + 1] = <<>> /\ Len(w) \in Nat
    BY <2>2, AppendProperties
  <2>. QED BY <1>6, <2>3 DEF w
<1>8. BeginsWith(S, text, head)
  <2>1. n \in 0..Len(text) /\ head = First(text, n)
    BY <1>3 DEF head, First
  <2>. QED BY <2>1, Beginning
<1>9. /\ Len(lines) <= Len(Lines(text))
      /\ \A j \in 1..(Len(lines) - 1) : Lines(text)[j] = lines[j]
  BY <1>4, <1>8, LinesGoOn
<1>10. Len(Lines(text)) \in Nat
  BY LineFacts
<1>11. HostHeader(head) = {k \in 1..Len(lines) :
                            IsHostLine(lines[k]) /\ \A j \in 1..k : lines[j] # <<>>}
  BY <1>4, HeaderFacts
<1>12. HostHeader(text) = {k \in 1..Len(Lines(text)) :
                            IsHostLine(Lines(text)[k]) /\ \A j \in 1..k : Lines(text)[j] # <<>>}
  BY HeaderFacts
<1>13. PICK h \in HostHeader(head) : TRUE
  BY <1>2 DEF head
<1>14. h \in 1..Len(lines) /\ IsHostLine(lines[h]) /\ \A j \in 1..h : lines[j] # <<>>
  BY <1>11, <1>13
<1>15. h < Len(lines)
  BY <1>7, <1>14
<1>16. h \in HostHeader(text)
  <2>1. h \in 1..Len(Lines(text)) /\ \A j \in 1..h : Lines(text)[j] = lines[j]
    BY <1>7, <1>9, <1>10, <1>14, <1>15
  <2>2. h \in 1..h
    BY <1>14
  <2>. HIDE DEF lines
  <2>. QED BY <1>12, <1>14, <2>1, <2>2
<1>. DEFINE H == HostHeader(text)
<1>17. H \in SUBSET Nat /\ H # {}
  BY <1>10, <1>12, <1>16
<1>18. Min(H) \in H /\ \A k \in H : Min(H) <= k
  BY <1>17, MinOfNat
<1>19. Min(H) < Len(lines)
  <2>1. Min(H) <= h /\ Min(H) \in Nat /\ h \in Nat
    BY <1>16, <1>17, <1>18
  <2>. HIDE DEF H, lines
  <2>. QED BY <1>7, <1>15, <2>1
<1>20. AtMostOneColon(HostValue(text))
  BY DEF AsksInBuffer
<1>. QED BY <1>3, <1>18, <1>19, <1>20 DEF head

\* The lines of P up to k are those of the text.
SeenWhole(P, text, k) ==
    /\ k <= Len(Lines(P))
    /\ \A j \in 1..k : Lines(P)[j] = Lines(text)[j]

\* So are those before the last line that has arrived, which is cut.
SeenCut(S, P, arrived, text, k) ==
    LET q == Len(Lines(arrived))
    IN  /\ q \in 1..k /\ Len(Lines(P)) = q
        /\ \A j \in 1..(q - 1) : Lines(P)[j] = Lines(text)[j]
        /\ Lines(P)[q] = Append(Lines(arrived)[q], "NUL")
        /\ BeginsWith(S, Lines(text)[q], Lines(arrived)[q])

\* The lines that the second peek sees are those of the request, except that
\* the last may be cut and end in a zero.
LEMMA PeekedLines ==
    ASSUME NEW S, NEW arrived \in Seq(S), HttpBuffer \in Nat \ {0},
           NEW text \in Seq(S), BeginsWith(S, text, arrived),
           NEW n \in 1..Len(text), n <= HttpBuffer,
           NEW head, head = First(text, n),
           NEW k \in Nat \ {0}, k < Len(Lines(head)),
           NEW P, P = Peeked(arrived)
    PROVE  /\ P \in Seq(S \cup {"NUL"})
           /\ SeenWhole(P, text, k) \/ SeenCut(S, P, arrived, text, k)
<1>. DEFINE q == Len(Lines(arrived))
            S2 == S \cup {"NUL"}
<1>1. text \in Seq(S) /\ Len(arrived) \in Nat /\ arrived \in Seq(S2) /\ Len(text) \in Nat
  OBVIOUS
<1>2. /\ q \in Nat \ {0}
      /\ \A j \in 1..(q - 1) : Lines(text)[j] = Lines(arrived)[j]
      /\ BeginsWith(S, Lines(text)[q], Lines(arrived)[q])
  BY LinesGoOn, LineFacts
<1>3. ASSUME Len(arrived) >= HttpBuffer
      PROVE  P \in Seq(S2) /\ k <= Len(Lines(P)) /\ \A j \in 1..k : Lines(P)[j] = Lines(text)[j]
  <2>1. P = First(arrived, HttpBuffer) /\ HttpBuffer \in 0..Len(arrived)
    BY <1>1, <1>3 DEF Peeked, First
  <2>2. P \in Seq(S) /\ Len(P) = HttpBuffer /\ BeginsWith(S, arrived, P)
    BY <2>1, Beginning
  <2>3. BeginsWith(S, text, P)
    BY <2>2, BeginningOfBeginning
  <2>5. \A j \in 1..(Len(Lines(P)) - 1) : Lines(text)[j] = Lines(P)[j]
    BY <2>2, <2>3, LinesGoOn
  <2>6. n \in 0..Len(P) /\ head = First(P, n)
    <3>1. n \in 0..Len(P) /\ n <= Len(P) /\ n <= Len(text) /\ n \in Nat \ {0} /\ 1 \in Nat \ {0}
          /\ n \in Int /\ Len(P) \in Nat
      BY <2>2
    <3>2. \A i \in 1..n : i \in 1..Len(P) /\ i - 1 + 1 = i
      BY <3>1
    <3>3. \A i \in 1..n : text[i] = P[i - 1 + 1]
      BY <2>2, <2>3, <3>2, BeginningFacts
    <3>4. SubSeq(text, 1, n) = SubSeq(P, 1, n)
      BY <1>1, <2>2, <3>1, <3>3, SameSubSeq
    <3>. QED BY <3>1, <3>4 DEF First
  <2>7. head \in Seq(S) /\ BeginsWith(S, P, head)
    BY <2>2, <2>6, Beginning
  <2>8. Len(Lines(head)) <= Len(Lines(P))
    BY <2>7, LinesGoOn
  <2>9. Len(Lines(head)) \in Nat /\ Len(Lines(P)) \in Nat
    BY <2>2, <2>7, LineFacts
  <2>10. k < Len(Lines(P))
    BY <2>8, <2>9
  <2>11. P \in Seq(S2)
    BY <2>2
  <2>. QED BY <2>5, <2>9, <2>10, <2>11
<1>4. ASSUME ~(Len(arrived) >= HttpBuffer)
      PROVE  /\ P \in Seq(S2) /\ Len(Lines(P)) = q
             /\ \A j \in 1..(q - 1) : Lines(P)[j] = Lines(text)[j]
             /\ Lines(P)[q] = Append(Lines(arrived)[q], "NUL")
  <2>1. P = Append(arrived, "NUL") /\ "NUL" \in S2 /\ P \in Seq(S2)
    BY <1>1, <1>4 DEF Peeked
  <2>2. OneMore(Lines(arrived), Lines(P), "NUL", "crlf")
    <3>1. OneMore(Split(arrived, "crlf"), Split(Append(arrived, "NUL"), "crlf"), "NUL", "crlf")
      BY <1>1, <2>1, SplitStep
    <3>. QED BY <2>1, <3>1 DEF Lines
  <2>3. /\ Len(Lines(P)) = q
        /\ \A j \in 1..(q - 1) : Lines(P)[j] = Lines(arrived)[j]
        /\ Lines(P)[q] = Append(Lines(arrived)[q], "NUL")
    <3>1. "NUL" # "crlf"
      OBVIOUS
    <3>. QED BY <2>2, <3>1 DEF OneMore
  <2>. QED BY <1>2, <2>1, <2>3
<1>5. CASE Len(arrived) >= HttpBuffer
  BY <1>3, <1>5 DEF SeenWhole
<1>6. CASE ~(Len(arrived) >= HttpBuffer) /\ k < q
  BY <1>2, <1>4, <1>6 DEF SeenWhole
<1>7. CASE ~(Len(arrived) >= HttpBuffer) /\ ~(k < q)
  <2>1. q \in 1..k
    BY <1>2, <1>7
  <2>. QED BY <1>2, <1>4, <1>7, <2>1, Zenon DEF SeenCut
<1>. QED BY <1>5, <1>6, <1>7

\* The Host line that counts is the first one of the request.
LEMMA FirstHost ==
    ASSUME NEW S, NEW text \in Seq(S), NEW k, k = Min(HostHeader(text)),
           k \in HostHeader(text), \A i \in HostHeader(text) : k <= i
    PROVE  /\ k \in 1..Len(Lines(text)) /\ IsHostLine(Lines(text)[k])
           /\ \A j \in 1..(k - 1) : ~IsHostLine(Lines(text)[j])
           /\ HostValue(text) = Value(Lines(text)[k])
<1>1. HostHeader(text) = {i \in 1..Len(Lines(text)) :
                           IsHostLine(Lines(text)[i]) /\ \A j \in 1..i : Lines(text)[j] # <<>>}
  BY HeaderFacts
<1>2. Len(Lines(text)) \in Nat
  BY LineFacts
<1>3. k \in 1..Len(Lines(text)) /\ IsHostLine(Lines(text)[k]) /\ \A j \in 1..k : Lines(text)[j] # <<>>
  BY <1>1
<1>4. ASSUME NEW j \in 1..(k - 1), IsHostLine(Lines(text)[j]) PROVE FALSE
  <2>1. j \in 1..Len(Lines(text)) /\ j \in 1..k /\ ~(k <= j) /\ \A i \in 1..j : i \in 1..k
    BY <1>2, <1>3
  <2>2. j \in HostHeader(text)
    BY <1>1, <1>3, <1>4, <2>1
  <2>. QED BY <2>1, <2>2
<1>5. HostValue(text) = Value(Lines(text)[k])
  BY Zenon DEF HostValue, Lines
<1>. QED BY <1>3, <1>4, <1>5

\* If the lines up to that one have been seen, the name found is read from it.
LEMMA FoundWhole ==
    ASSUME NEW S, NEW P \in Seq(S), NEW text, NEW k \in Nat \ {0}, SeenWhole(P, text, k),
           IsHostLine(Lines(text)[k]), \A j \in 1..(k - 1) : ~IsHostLine(Lines(text)[j]),
           NEW m \in Hosts(P), \A i \in Hosts(P) : m <= i
    PROVE  m = k
<1>0. k <= Len(Lines(P)) /\ \A j \in 1..k : Lines(P)[j] = Lines(text)[j]
  BY DEF SeenWhole
<1>1. Hosts(P) = {i \in 1..Len(Lines(P)) :
                    /\ IsHostLine(Lines(P)[i])
                    /\ \A j \in 1..i : ~Contains(Lines(P)[j], "bad")}
  BY HeaderFacts
<1>2. Len(Lines(P)) \in Nat
  BY LineFacts
<1>3. m \in 1..Len(Lines(P)) /\ IsHostLine(Lines(P)[m])
      /\ \A j \in 1..m : ~Contains(Lines(P)[j], "bad")
  BY <1>1
<1>4. ~(m < k)
  <2>. SUFFICES ASSUME m < k PROVE FALSE
    OBVIOUS
  <2>1. m \in 1..k /\ m \in 1..(k - 1)
    BY <1>3
  <2>. QED BY <1>0, <1>3, <2>1
<1>5. ~(k < m)
  <2>. SUFFICES ASSUME k < m PROVE FALSE
    OBVIOUS
  <2>1. k \in 1..Len(Lines(P)) /\ k \in 1..k /\ ~(m <= k) /\ \A j \in 1..k : j \in 1..m
    BY <1>0, <1>2, <1>3
  <2>2. IsHostLine(Lines(P)[k])
    BY <1>0, <2>1
  <2>3. \A j \in 1..k : ~Contains(Lines(P)[j], "bad")
    BY <1>3, <2>1
  <2>4. k \in Hosts(P)
    BY <1>1, <2>1, <2>2, <2>3
  <2>. QED BY <2>1, <2>4
<1>. QED BY <1>3, <1>4, <1>5

\* A Host line that is cut behind its colon: its value is cut as well.
LEMMA CutLine ==
    ASSUME NEW S, NEW line \in Seq(S), NEW whole \in Seq(S), BeginsWith(S, whole, line),
           IsHostLine(Append(line, "NUL"))
    PROVE  /\ IsHostLine(whole)
           /\ Value(line) \in Seq(S)
           /\ Value(Append(line, "NUL")) = Append(Value(line), "NUL")
           /\ BeginsWith(S, Value(whole), Value(line))
<1>. DEFINE S2 == S \cup {"NUL"}
            X == Append(line, "NUL")
            W == SubSeq(line, 3, Len(line))
            Y == Append(W, "NUL")
            Z == SubSeq(X, 3, Len(X))
<1>1. line \in Seq(S2) /\ "NUL" \in S2 /\ Len(line) \in Nat /\ "NUL" # ":"
  OBVIOUS
<1>2. X \in Seq(S2) /\ Len(X) = Len(line) + 1 /\ (\A i \in 1..Len(line) : X[i] = line[i])
      /\ X[Len(line) + 1] = "NUL"
  BY <1>1, AppendProperties
<1>. HIDE DEF X
<1>3. IsHostLine(X)
  BY DEF X
<1>4. Len(line) >= 2
  <2>1. Len(X) > 1 /\ X[2] = ":"
    BY <1>3 DEF IsHostLine
  <2>. QED BY <1>1, <1>2, <2>1
<1>0. \A n \in Nat : n >= 2 /\ n # 2 => 3 <= n
  OBVIOUS
<1>5. IsHostLine(line)
  <2>1. 1 \in 1..Len(line) /\ 2 \in 1..Len(line) /\ Len(line) > 1
    BY <1>1, <1>4
  <2>2. line[1] = X[1] /\ line[2] = X[2]
    BY <1>2, <2>1
  <2>. QED BY <1>3, <2>1, <2>2 DEF IsHostLine
<1>6. Len(line) <= Len(whole) /\ Len(whole) \in Nat /\ \A i \in 1..Len(line) : whole[i] = line[i]
  BY BeginningFacts
<1>7. IsHostLine(whole)
  <2>1. 1 \in 1..Len(line) /\ 2 \in 1..Len(line) /\ Len(whole) > 1
    BY <1>1, <1>4, <1>6
  <2>2. line[1] = whole[1] /\ line[2] = whole[2]
    BY <1>6, <2>1
  <2>. QED BY <1>5, <2>1, <2>2 DEF IsHostLine
<1>8. Value(line) = W /\ Value(X) = Z /\ Value(whole) = SubSeq(whole, 3, Len(whole))
  BY <1>2, <1>3, <1>5, <1>7, HostFields
<1>9. W \in Seq(S) /\ Len(W) = Len(line) - 2 /\ \A i \in 1..(Len(line) - 2) : W[i] = line[3 + i - 1]
  <2>1. \A i \in 3..Len(line) : line[i] \in S
    BY <1>1
  <2>2. CASE Len(line) = 2
    <3>1. W = <<>>
      BY <2>2, SubSeqEmpty
    <3>. QED BY <2>2, <3>1, EmptySeq
  <2>3. CASE Len(line) # 2
    <3>1. 3 <= Len(line)
      BY <1>0, <1>1, <1>4, <2>3, Zenon
    <3>. QED BY <1>1, <2>1, <3>1, SubSeqProperties
  <2>. QED BY <2>2, <2>3
<1>10. Z = Y
  <2>. HIDE DEF W
  <2>1. W \in Seq(S2)
    BY <1>9
  <2>2. Y \in Seq(S2) /\ Len(Y) = Len(W) + 1 /\ (\A i \in 1..Len(W) : Y[i] = W[i])
        /\ Y[Len(W) + 1] = "NUL"
    BY <1>1, <2>1, AppendProperties
  <2>3. Z \in Seq(S2) /\ Len(Z) = Len(X) - 2 /\ \A i \in 1..(Len(X) - 2) : Z[i] = X[3 + i - 1]
    <3>1. \A i \in 3..Len(X) : X[i] \in S2
      BY <1>2
    <3>2. 3 <= Len(X) /\ Len(X) \in Nat
      BY <1>1, <1>2, <1>4
    <3>. QED BY <1>2, <3>1, <3>2, SubSeqProperties
  <2>. HIDE DEF Y, Z
  <2>4. Len(Z) = Len(Y) /\ Len(Y) = Len(line) - 1
    BY <1>1, <1>2, <1>9, <2>2, <2>3
  <2>5. \A i \in 1..Len(Y) : Z[i] = Y[i]
    <3>. SUFFICES ASSUME NEW i \in 1..Len(Y) PROVE Z[i] = Y[i]
      OBVIOUS
    <3>1. i \in 1..(Len(X) - 2) /\ 3 + i - 1 \in 1..(Len(line) + 1)
      BY <1>1, <1>2, <2>4
    <3>2. Z[i] = X[3 + i - 1]
      BY <2>3, <3>1
    <3>3. CASE i = Len(W) + 1
      <4>1. 3 + i - 1 = Len(line) + 1
        BY <1>1, <1>9, <3>3
      <4>. QED BY <1>2, <2>2, <3>2, <3>3, <4>1
    <3>4. CASE i # Len(W) + 1
      <4>1. i \in 1..Len(W) /\ i \in 1..(Len(line) - 2) /\ 3 + i - 1 \in 1..Len(line)
        BY <1>1, <1>9, <2>4, <3>4
      <4>2. Y[i] = line[3 + i - 1]
        BY <1>9, <2>2, <4>1
      <4>. QED BY <1>2, <3>2, <4>1, <4>2
    <3>. QED BY <3>3, <3>4
  <2>. QED BY <2>2, <2>3, <2>4, <2>5, SeqEqual
<1>11. BeginsWith(S, SubSeq(whole, 3, Len(whole)), W)
  <2>. DEFINE V == SubSeq(whole, 3, Len(whole))
  <2>1. 3 \in Nat \ {0} /\ Len(V) = Len(whole) - 2 /\ V \in Seq(S)
        /\ \A i \in 1..(Len(whole) - 2) : V[i] = whole[3 + i - 1]
    <3>1. \A i \in 3..Len(whole) : whole[i] \in S
      BY <1>6
    <3>2. CASE Len(whole) = 2
      <4>1. V = <<>>
        BY <3>2, SubSeqEmpty
      <4>. QED BY <3>2, <4>1, EmptySeq
    <3>3. CASE Len(whole) # 2
      <4>1. 3 <= Len(whole)
        <5>1. Len(whole) >= 2
          BY <1>1, <1>4, <1>6
        <5>. QED BY <1>0, <1>6, <3>3, <5>1, Zenon
      <4>. QED BY <1>6, <3>1, <4>1, SubSeqProperties
    <3>. QED BY <3>2, <3>3
  <2>. HIDE DEF V
  <2>2. Len(W) \in 0..Len(V)
    BY <1>1, <1>4, <1>6, <1>9, <2>1
  <2>3. W = First(V, Len(W))
    <3>1. \A i \in 1..Len(W) : /\ i \in 1..(Len(line) - 2) /\ i \in 1..(Len(whole) - 2)
                              /\ 3 + i - 1 \in 1..Len(line)
      BY <1>1, <1>4, <1>6, <1>9
    <3>2. \A i \in 1..Len(W) : W[i] = V[i]
      BY <1>6, <1>9, <2>1, <3>1
    <3>. HIDE DEF W
    <3>. DEFINE U == First(V, Len(W))
    <3>3. U \in Seq(S) /\ Len(U) = Len(W) /\ \A i \in 1..Len(W) : U[i] = V[i]
      BY <2>1, <2>2, Beginning
    <3>. HIDE DEF U
    <3>4. \A i \in 1..Len(W) : W[i] = U[i]
      BY <3>2, <3>3
    <3>5. W = U
      BY <1>9, <3>3, <3>4, SeqEqual
    <3>. QED BY <3>5 DEF U
  <2>. HIDE DEF W
  <2>4. BeginsWith(S, V, W)
    BY <2>1, <2>2, <2>3, Beginning
  <2>. QED BY <2>4 DEF V
<1>. QED BY <1>7, <1>8, <1>9, <1>10, <1>11 DEF X, Y

\* The Host line that counts: where it is and what is seen of it.
AsksAt(text, k) ==
    /\ k \in Nat \ {0} /\ k \in 1..Len(Lines(text)) /\ IsHostLine(Lines(text)[k])
    /\ \A j \in 1..(k - 1) : ~IsHostLine(Lines(text)[j])
    /\ HostValue(text) = Value(Lines(text)[k])
    /\ AskedFor(text) = Asked(HostValue(text))
    /\ AtMostOneColon(HostValue(text))
    /\ k < Len(Lines(text))

\* Of the Host line that counts, the second peek sees all or a cut part.
LEMMA SeenLines ==
    ASSUME NEW S, NEW arrived \in Seq(S), HttpBuffer \in Nat \ {0},
           NEW text \in Seq(S), BeginsWith(S, text, arrived),
           ~IsTls(text), AsksInBuffer(text), NEW P, P = Peeked(arrived)
    PROVE  \E k \in Nat \ {0} :
              /\ P \in Seq(S \cup {"NUL"})
              /\ AsksAt(text, k)
              /\ SeenWhole(P, text, k) \/ SeenCut(S, P, arrived, text, k)
<1>0. PICK k : k = Min(HostHeader(text))
  OBVIOUS
<1>1. /\ k \in HostHeader(text) /\ \A i \in HostHeader(text) : k <= i
      /\ AtMostOneColon(HostValue(text))
  BY <1>0, AskedLine
<1>2. PICK n \in 1..Len(text) : n <= HttpBuffer /\ k < Len(Lines(SubSeq(text, 1, n)))
  BY <1>0, AskedLine
<1>3. /\ k \in 1..Len(Lines(text)) /\ IsHostLine(Lines(text)[k])
      /\ \A j \in 1..(k - 1) : ~IsHostLine(Lines(text)[j])
      /\ HostValue(text) = Value(Lines(text)[k])
  BY <1>0, <1>1, FirstHost
<1>4. k \in Nat \ {0} /\ Len(Lines(text)) \in Nat
  BY <1>3, LineFacts
<1>. DEFINE head == First(text, n)
<1>5. k < Len(Lines(head))
  BY <1>2 DEF First
<1>6. head \in Seq(S) /\ BeginsWith(S, text, head)
  <2>1. n \in 0..Len(text)
    OBVIOUS
  <2>. QED BY <2>1, Beginning
<1>7. k < Len(Lines(text))
  <2>. HIDE DEF head
  <2>1. Len(Lines(head)) <= Len(Lines(text)) /\ Len(Lines(head)) \in Nat
    BY <1>6, LinesGoOn, LineFacts
  <2>. QED BY <1>4, <1>5, <2>1
<1>8. AskedFor(text) = Asked(HostValue(text))
  BY <1>1, Zenon DEF AskedFor
<1>9. AsksAt(text, k)
  BY <1>1, <1>3, <1>4, <1>7, <1>8, Zenon DEF AsksAt
<1>10. /\ P \in Seq(S \cup {"NUL"})
       /\ SeenWhole(P, text, k) \/ SeenCut(S, P, arrived, text, k)
  BY <1>2, <1>4, <1>5, PeekedLines
<1>. QED BY <1>4, <1>9, <1>10, Zenon

\* HTTP: a name that could be a key is the one that is asked for.
LEMMA FoundInHttp ==
    ASSUME NEW S, NEW arrived \in Seq(S), HttpBuffer \in Nat \ {0},
           NEW text \in Seq(S), BeginsWith(S, text, arrived),
           ~IsTls(text), AsksInBuffer(text),
           HostNameIn(arrived) # NoName, IsKey(HostNameIn(arrived))
    PROVE  HostNameIn(arrived) = AskedFor(text)
<1>. DEFINE P == Peeked(arrived)
            m == Min(Hosts(P))
            name == HostNameIn(arrived)
<1>1. PICK k \in Nat \ {0} :
         /\ P \in Seq(S \cup {"NUL"})
         /\ AsksAt(text, k)
         /\ SeenWhole(P, text, k) \/ SeenCut(S, P, arrived, text, k)
  BY SeenLines
<1>2. Hosts(P) # {} /\ name = NameInValue(Value(Lines(P)[m]))
  BY FoundIn, Zenon
<1>3. Hosts(P) = {i \in 1..Len(Lines(P)) :
                    /\ IsHostLine(Lines(P)[i])
                    /\ \A j \in 1..i : ~Contains(Lines(P)[j], "bad")}
  <2>. HIDE DEF P
  <2>. QED BY <1>1, HeaderFacts
<1>4. m \in Hosts(P) /\ \A i \in Hosts(P) : m <= i
  <2>. DEFINE H == Hosts(P)
  <2>1. H \in SUBSET Nat /\ H # {}
    BY <1>2, <1>3
  <2>. HIDE DEF H
  <2>2. Min(H) \in H /\ \A i \in H : Min(H) <= i
    BY <2>1, MinOfNat
  <2>. QED BY <2>2 DEF H
<1>5. Trim(name) = name /\ ~Contains(name, "NUL")
  BY DEF IsKey
<1>. HIDE DEF P, m, name
<1>6. /\ k \in 1..Len(Lines(text)) /\ IsHostLine(Lines(text)[k])
      /\ \A j \in 1..(k - 1) : ~IsHostLine(Lines(text)[j])
      /\ HostValue(text) = Value(Lines(text)[k])
      /\ AskedFor(text) = Asked(HostValue(text))
      /\ AtMostOneColon(HostValue(text))
  BY <1>1 DEF AsksAt
<1>7. CASE SeenWhole(P, text, k)
  <2>1. m = k
    BY <1>1, <1>4, <1>7, <1>6, FoundWhole
  <2>2. k \in 1..k
    BY <1>1
  <2>3. name = NameInValue(HostValue(text))
    BY <1>2, <1>7, <1>6, <2>1, <2>2 DEF SeenWhole
  <2>4. HostValue(text) \in Seq(S)
    <3>. DEFINE l == Lines(text)[k]
    <3>1. l \in Seq(S)
      BY <1>6, LineFacts
    <3>. HIDE DEF l
    <3>2. Value(l) \in Seq(S)
      BY <1>6, <3>1, HostFields, ValueType DEF l
    <3>. QED BY <1>6, <3>2 DEF l
  <2>5. NameInValue(HostValue(text)) = Asked(HostValue(text))
    BY <1>6, <1>5, <2>3, <2>4, WholeValue
  <2>. QED BY <1>6, <2>3, <2>5 DEF name
<1>8. CASE SeenCut(S, P, arrived, text, k)
  <2>. DEFINE q == Len(Lines(arrived))
              line == Lines(arrived)[q]
              V == Value(line)
  <2>0. /\ q \in 1..k /\ Len(Lines(P)) = q
        /\ \A j \in 1..(q - 1) : Lines(P)[j] = Lines(text)[j]
        /\ Lines(P)[q] = Append(line, "NUL")
        /\ BeginsWith(S, Lines(text)[q], line)
    BY <1>8, Zenon DEF SeenCut
  <2>2. q \in Nat \ {0} /\ line \in Seq(S)
    <3>1. q \in Nat \ {0}
      BY LineFacts
    <3>2. q \in 1..q
      BY <3>1
    <3>. QED BY <3>1, <3>2, LineFacts
  <2>. HIDE DEF q, line
  <2>1. m \in 1..q /\ IsHostLine(Lines(P)[m])
    BY <1>3, <1>4, <2>0
  <2>3. m = q
    <3>1. CASE m < q
      <4>1. m \in 1..(q - 1) /\ m \in 1..(k - 1)
        BY <1>1, <2>0, <2>1, <2>2, <3>1
      <4>. QED BY <1>6, <2>0, <2>1, <4>1
    <3>2. CASE ~(m < q)
      BY <2>1, <2>2, <3>2
    <3>. QED BY <3>1, <3>2
  <2>4. IsHostLine(Append(line, "NUL"))
    BY <2>0, <2>1, <2>3
  <2>5. Lines(text)[q] \in Seq(S)
    <3>1. Len(Lines(text)) \in Nat
      BY LineFacts
    <3>2. q \in 1..Len(Lines(text))
      BY <1>6, <2>0, <2>2, <3>1
    <3>. QED BY <3>2, LineFacts
  <2>6. /\ IsHostLine(Lines(text)[q])
        /\ V \in Seq(S)
        /\ Value(Append(line, "NUL")) = Append(V, "NUL")
        /\ BeginsWith(S, Value(Lines(text)[q]), V)
    BY <2>0, <2>2, <2>4, <2>5, CutLine
  <2>7. q = k
    <3>1. CASE q < k
      <4>1. q \in 1..(k - 1)
        BY <1>1, <2>2, <3>1
      <4>. QED BY <1>6, <2>6, <4>1
    <3>2. CASE ~(q < k)
      BY <1>1, <2>0, <2>2, <3>2
    <3>. QED BY <3>1, <3>2
  <2>. HIDE DEF V
  <2>8. PICK rest \in Seq(S) : HostValue(text) = V \o rest
    BY <1>6, <2>6, <2>7 DEF BeginsWith
  <2>9. name = NameInValue(Append(V, "NUL"))
    BY <1>2, <2>0, <2>3, <2>6
  <2>10. NameInValue(Append(V, "NUL")) = Asked(V \o rest)
    <3>1. AtMostOneColon(V \o rest)
      BY <1>6, <2>8, Zenon
    <3>2. ~Contains(NameInValue(Append(V, "NUL")), "NUL")
      BY <1>5, <2>9
    <3>. QED BY <2>6, <3>1, <3>2, CutValue
  <2>11. name = AskedFor(text)
    BY <1>6, <2>8, <2>9, <2>10, Zenon
  <2>. QED BY <2>11 DEF name
<1>. QED BY <1>1, <1>7, <1>8, Zenon

\* HTTP: a whole request that names its port is read as it is meant.
LEMMA WholeHttp ==
    ASSUME NEW S, NEW text \in Seq(S), HttpBuffer \in Nat \ {0},
           ~IsTls(text), AsksInBuffer(text), HasPort(text),
           \A i \in 1..Len(text) : text[i] # "bad"
    PROVE  HostNameIn(text) = AskedFor(text)
<1>. DEFINE P == Peeked(text)
            m == Min(Hosts(P))
            G == S \ {"bad"}
<1>0. text \in Seq(G)
  <2>1. text \in [1..Len(text) -> S] /\ Len(text) \in Nat /\ \A i \in 1..Len(text) : text[i] \in G
    OBVIOUS
  <2>. HIDE DEF G
  <2>. QED BY <2>1
<1>1. BeginsWith(S, text, text)
  <2>1. text \o <<>> = text /\ <<>> \in Seq(S)
    BY ConcatEmptySeq, EmptySeq
  <2>. QED BY <2>1, Zenon DEF BeginsWith
<1>2. PICK k \in Nat \ {0} :
         /\ P \in Seq(S \cup {"NUL"})
         /\ AsksAt(text, k)
         /\ SeenWhole(P, text, k) \/ SeenCut(S, P, text, text, k)
  BY <1>1, SeenLines
<1>3. Hosts(P) = {i \in 1..Len(Lines(P)) :
                    /\ IsHostLine(Lines(P)[i])
                    /\ \A j \in 1..i : ~Contains(Lines(P)[j], "bad")}
  <2>. HIDE DEF P
  <2>. QED BY <1>2, HeaderFacts
<1>. HIDE DEF P
<1>4. /\ k \in 1..Len(Lines(text)) /\ IsHostLine(Lines(text)[k])
      /\ \A j \in 1..(k - 1) : ~IsHostLine(Lines(text)[j])
      /\ HostValue(text) = Value(Lines(text)[k])
      /\ AskedFor(text) = Asked(HostValue(text))
      /\ AtMostOneColon(HostValue(text))
      /\ k < Len(Lines(text)) /\ Len(Lines(text)) \in Nat
  BY <1>2, LineFacts DEF AsksAt
<1>5. SeenWhole(P, text, k)
  <2>1. SeenCut(S, P, text, text, k) => Len(Lines(text)) <= k
    BY <1>4 DEF SeenCut
  <2>. QED BY <1>2, <1>4, <2>1
<1>6. k \in Hosts(P)
  <2>1. Len(Lines(P)) \in Nat
    BY <1>2, LineFacts
  <2>2. k \in 1..Len(Lines(P)) /\ k \in 1..k /\ \A j \in 1..k : j \in 1..Len(Lines(text))
    BY <1>2, <1>4, <1>5, <2>1 DEF SeenWhole
  <2>3. \A j \in 1..k : Lines(P)[j] = Lines(text)[j]
    BY <1>5 DEF SeenWhole
  <2>4. ASSUME NEW l \in Seq(G) PROVE ~Contains(l, "bad")
    <3>1. DOMAIN l = 1..Len(l) /\ \A i \in 1..Len(l) : l[i] # "bad"
      OBVIOUS
    <3>. QED BY <3>1 DEF Contains
  <2>. HIDE DEF G
  <2>5. \A j \in 1..k : Lines(text)[j] \in Seq(G)
    BY <1>0, <2>2, LineFacts
  <2>6. \A j \in 1..k : ~Contains(Lines(P)[j], "bad")
    BY <2>3, <2>4, <2>5
  <2>. QED BY <1>3, <1>4, <2>2, <2>3, <2>6
<1>7. m \in Hosts(P) /\ \A i \in Hosts(P) : m <= i
  <2>. DEFINE H == Hosts(P)
  <2>1. H \in SUBSET Nat /\ H # {}
    BY <1>3, <1>6
  <2>. HIDE DEF H
  <2>2. Min(H) \in H /\ \A i \in H : Min(H) <= i
    BY <2>1, MinOfNat
  <2>. QED BY <2>2 DEF H
<1>8. m = k
  <2>. HIDE DEF m
  <2>. QED BY <1>2, <1>4, <1>5, <1>7, FoundWhole
<1>9. HostNameIn(text) = NameInValue(Value(Lines(P)[k]))
  <2>1. Hosts(P) # {}
    BY <1>6
  <2>2. HostNameIn(text) = NameInValue(Value(Lines(P)[m]))
    BY <2>1, FoundIn, Zenon DEF P
  <2>. QED BY <1>8, <2>2
<1>10. HostNameIn(text) = NameInValue(HostValue(text))
  <2>1. k \in 1..k
    BY <1>2
  <2>. QED BY <1>4, <1>5, <1>9, <2>1 DEF SeenWhole
<1>11. HostValue(text) \in Seq(S)
  <2>. DEFINE l == Lines(text)[k]
  <2>1. l \in Seq(S)
    BY <1>4, LineFacts
  <2>. HIDE DEF l
  <2>2. Value(l) \in Seq(S)
    BY <1>4, <2>1, ValueType DEF l
  <2>. QED BY <1>4, <2>2 DEF l
<1>12. NameInValue(HostValue(text)) = Asked(HostValue(text))
  BY <1>4, <1>11, WholeValue DEF HasPort
<1>. QED BY <1>4, <1>10, <1>12, Zenon

-----------------------------------------------------------------------------
(* What get_backend_port can make of a request, wherever it is cut.        *)

\* Whatever the second peek has of a request, extract_sni_from_tls_ch and
\* extract_host_from_http_header find no name that could be a key of the
\* configuration but the one the request asks for.
THEOREM FoundIsAsked ==
    ASSUME NEW S, NEW arrived \in Seq(S), NEW request \in Seq(S),
           BeginsWith(S, request, arrived), HttpBuffer \in Nat \ {0},
           AsksInBuffer(request),
           NEW name \in NamesFound(arrived, request), name # NoName, IsKey(name)
    PROVE  name = AskedFor(request)
<1>1. CASE IsTls(request)
  <2>1. name = ServerName(request)
    BY <1>1 DEF NamesFound, NamesInClientHello
  <2>. QED BY <1>1, <2>1 DEF AskedFor
<1>2. CASE ~IsTls(request)
  <2>1. name = HostNameIn(arrived)
    BY <1>2 DEF NamesFound
  <2>. QED BY <1>2, <2>1, FoundInHttp
<1>. QED BY <1>1, <1>2

\* From a whole request that is TLS, or names its port and is UTF-8, they read
\* the name it asks for and nothing else.
THEOREM WholeRequestIsRead ==
    ASSUME NEW S, NEW request \in Seq(S), HttpBuffer \in Nat \ {0},
           AsksInBuffer(request), \A i \in 1..Len(request) : request[i] # "bad",
           IsTls(request) \/ HasPort(request),
           NEW name \in NamesFound(request, request)
    PROVE  name = AskedFor(request)
<1>1. CASE IsTls(request)
  BY <1>1 DEF NamesFound, NamesInClientHello, AskedFor
<1>2. CASE ~IsTls(request)
  <2>1. name = HostNameIn(request)
    BY <1>2 DEF NamesFound
  <2>. QED BY <1>2, <2>1, WholeHttp
<1>. QED BY <1>1, <1>2
=============================================================================
