--------------------------- MODULE SequenceFacts ---------------------------
(***************************************************************************)
(* Lemmas on sequences: induction over them, sequences without repetition  *)
(* (channels and the lists of machines to try are such), and what the      *)
(* string functions of module TokenStrings return.                         *)
(***************************************************************************)
EXTENDS TokenStrings, SequenceTheorems, FiniteSetTheorems, TLAPS

(* Numbers and induction.  The library's induction theorems are about an  *)
(* operator; these are about a set.                                        *)

\* A set of numbers that is not empty has a smallest one.
LEMMA MinOfNat ==
    ASSUME NEW S \in SUBSET Nat, S # {}
    PROVE  Min(S) \in S /\ \A x \in S : Min(S) <= x
<1>. DEFINE Below == {0..n : n \in S}
<1>1. Below \subseteq FiniteSubsetsOf(Nat) /\ Below # {}
  <2>1. \A n \in S : 0..n \in SUBSET Nat
    OBVIOUS
  <2>2. \A n \in S : IsFiniteSet(0..n)
    BY FS_Interval
  <2>. QED BY <2>1, <2>2 DEF FiniteSubsetsOf
<1>2. PICK X \in Below : \A Y \in Below : ~(<<Y, X>> \in StrictSubsetOrdering(Nat))
  <2>. HIDE DEF Below
  <2>. QED BY <1>1, FS_StrictSubsetOrderingWellFounded, WFMin
<1>3. PICK m \in S : X = 0..m
  BY <1>2
<1>4. \A n \in S : m <= n
  <2>. SUFFICES ASSUME NEW n \in S, n < m PROVE FALSE
    OBVIOUS
  <2>1. 0..n \subseteq 0..m /\ 0..n # 0..m
    <3>1. m \in 0..m /\ m \notin 0..n
      OBVIOUS
    <3>. QED BY <3>1
  <2>2. 0..n \in Below /\ 0..n \in SUBSET Nat /\ 0..m \in SUBSET Nat
    OBVIOUS
  <2>3. <<0..n, 0..m>> \in StrictSubsetOrdering(Nat)
    BY <2>1, <2>2 DEF StrictSubsetOrdering
  <2>. QED BY <1>2, <1>3, <2>2, <2>3
<1>. QED BY <1>4 DEF Min

\* Induction, for a set: the library's theorem is about an operator.
LEMMA Induction ==
    ASSUME NEW P, 0 \in P, \A n \in Nat : n \in P => n + 1 \in P
    PROVE  Nat \subseteq P
<1>. SUFFICES ASSUME Nat \ P # {} PROVE FALSE
  OBVIOUS
<1>. DEFINE n == Min(Nat \ P)
<1>1. n \in Nat \ P /\ \A x \in Nat \ P : n <= x
  <2>1. Nat \ P \in SUBSET Nat
    OBVIOUS
  <2>. QED BY <2>1, MinOfNat
<1>. HIDE DEF n
<1>2. n # 0
  BY <1>1
<1>3. n - 1 \in Nat /\ n - 1 \in P
  BY <1>1, <1>2
<1>4. (n - 1) + 1 \in P
  BY <1>3
<1>. QED BY <1>1, <1>4

\* Induction over sequences, from the empty one by one more at the end.
LEMMA SequenceInduction ==
    ASSUME NEW S, NEW P, <<>> \in P,
           \A s \in Seq(S), x \in S : s \in P => Append(s, x) \in P
    PROVE  Seq(S) \subseteq P
<1>. DEFINE Q == {n \in Nat : \A s \in Seq(S) : Len(s) = n => s \in P}
<1>1. 0 \in Q
  BY EmptySeq
<1>2. ASSUME NEW n \in Nat, n \in Q PROVE n + 1 \in Q
  <2>. SUFFICES ASSUME NEW s \in Seq(S), Len(s) = n + 1 PROVE s \in P
    OBVIOUS
  <2>1. s # <<>>
    BY EmptySeq
  <2>2. PICK r \in Seq(S), x \in S : s = Append(r, x)
    BY <2>1, SequenceEmptyOrAppend
  <2>3. Len(r) = n
    BY <2>2, AppendProperties, LenProperties
  <2>. QED BY <1>2, <2>2, <2>3
<1>3. Nat \subseteq Q
  <2>. HIDE DEF Q
  <2>. QED BY <1>1, <1>2, Induction
<1>. QED BY <1>3, LenProperties

\* A bounded set of numbers that is not empty has a largest one.
LEMMA MaxOfNat ==
    ASSUME NEW S \in SUBSET Nat, S # {}, NEW N \in Nat, \A x \in S : x <= N
    PROVE  Max(S) \in S /\ \A x \in S : x <= Max(S)
<1>. DEFINE T == {N - x : x \in S}
<1>1. T \in SUBSET Nat /\ T # {}
  <2>1. \A x \in S : N - x \in Nat
    OBVIOUS
  <2>. QED BY <2>1
<1>2. PICK m \in T : \A x \in T : m <= x
  <2>. HIDE DEF T
  <2>. QED BY <1>1, MinOfNat
<1>3. PICK n \in S : m = N - n
  BY <1>2
<1>4. \A x \in S : N - x \in T /\ m <= N - x
  BY <1>2
<1>5. \A x \in S : x <= n
  BY <1>3, <1>4
<1>. QED BY <1>5 DEF Max

\* The places of a sequence that satisfy something, first and last.
LEMMA FirstAndLast ==
    ASSUME NEW S, NEW s \in Seq(S), NEW I \in SUBSET (1..Len(s)), I # {}
    PROVE  /\ Min(I) \in I /\ Max(I) \in I
           /\ \A i \in I : Min(I) <= i /\ i <= Max(I)
<1>1. Len(s) \in Nat
  BY LenProperties
<1>2. I \in SUBSET Nat /\ \A i \in I : i <= Len(s)
  BY <1>1
<1>. QED BY <1>1, <1>2, MinOfNat, MaxOfNat

-----------------------------------------------------------------------------
(* Sequences without repetition. *)

\* A sequence is its first element and the rest.
LEMMA HeadAndTail ==
    ASSUME NEW S, NEW s \in Seq(S), s # <<>>
    PROVE  Range(s) = {Head(s)} \cup Range(Tail(s))
<1>1. Len(s) \in Nat /\ Len(s) > 0 /\ DOMAIN s = 1..Len(s) /\ Head(s) = s[1]
  BY EmptySeq, LenProperties, HeadTailProperties
<1>2. /\ DOMAIN Tail(s) = 1..(Len(s) - 1)
      /\ \A i \in 1..(Len(s) - 1) : Tail(s)[i] = s[i + 1]
  BY <1>1, HeadTailProperties, LenProperties
<1>3. \A i \in 1..Len(s) : i = 1 \/ (i - 1 \in 1..(Len(s) - 1) /\ s[i] = Tail(s)[i - 1])
  BY <1>1, <1>2
<1>4. \A i \in 1..(Len(s) - 1) : i + 1 \in 1..Len(s)
  BY <1>1
<1>5. \A y \in Range(s) : y = Head(s) \/ y \in Range(Tail(s))
  <2>. TAKE y \in Range(s)
  <2>1. PICK i \in 1..Len(s) : s[i] = y
    BY <1>1 DEF Range
  <2>2. CASE i - 1 \in 1..(Len(s) - 1) /\ y = Tail(s)[i - 1]
    BY <1>2, <2>2 DEF Range
  <2>. QED BY <1>1, <1>3, <2>1, <2>2
<1>6. \A y \in Range(Tail(s)) : y \in Range(s)
  BY <1>1, <1>2, <1>4 DEF Range
<1>7. Head(s) \in Range(s)
  BY <1>1 DEF Range
<1>. QED BY <1>5, <1>6, <1>7

\* What is received from a channel is not left behind in it.
LEMMA TailFacts ==
    ASSUME NEW S, NEW s \in Seq(S), IsInjective(s), s # <<>>
    PROVE  /\ Head(s) \in Range(s)
           /\ Tail(s) \in Seq(S)
           /\ IsInjective(Tail(s))
           /\ Range(Tail(s)) = Range(s) \ {Head(s)}
<1>1. Len(s) \in Nat /\ Len(s) > 0 /\ s \in [1..Len(s) -> S]
  BY EmptySeq, LenProperties
<1>2. Tail(s) \in Seq(S) /\ Len(Tail(s)) = Len(s) - 1
  BY HeadTailProperties
<1>3. \A i \in 1..(Len(s) - 1) : Tail(s)[i] = s[i + 1]
  BY <1>1, <1>2, HeadTailProperties
<1>4. DOMAIN Tail(s) = 1..(Len(s) - 1) /\ DOMAIN s = 1..Len(s) /\ Head(s) = s[1]
  BY <1>1, <1>2, LenProperties DEF Head
<1>5. IsInjective(Tail(s))
  BY <1>1, <1>3, <1>4 DEF IsInjective
<1>6. Range(Tail(s)) = Range(s) \ {Head(s)}
  <2>1. \A i \in 1..(Len(s) - 1) : s[i + 1] \in Range(s) \ {Head(s)}
    BY <1>1, <1>4 DEF IsInjective, Range
  <2>2. \A i \in 1..Len(s) : s[i] # Head(s) => i - 1 \in 1..(Len(s) - 1) /\ s[i] = Tail(s)[i - 1]
    BY <1>1, <1>3, <1>4
  <2>3. \A y \in Range(Tail(s)) : y \in Range(s) \ {Head(s)}
    BY <1>3, <1>4, <2>1 DEF Range
  <2>4. ASSUME NEW y \in Range(s), y # Head(s) PROVE y \in Range(Tail(s))
    <3>1. PICK i \in 1..Len(s) : s[i] = y
      BY <1>4 DEF Range
    <3>2. i - 1 \in DOMAIN Tail(s) /\ Tail(s)[i - 1] = y
      BY <1>4, <2>2, <2>4, <3>1
    <3>. QED BY <3>2 DEF Range
  <2>. QED BY <2>3, <2>4
<1>7. Head(s) \in Range(s)
  <2>1. 1 \in DOMAIN s
    BY <1>1, <1>4
  <2>. QED BY <1>4, <2>1 DEF Range
<1>. QED BY <1>2, <1>5, <1>6, <1>7

\* What is sent to a channel is there once.
LEMMA AppendFacts ==
    ASSUME NEW S, NEW s \in Seq(S), IsInjective(s), NEW x \in S, x \notin Range(s)
    PROVE  /\ Append(s, x) \in Seq(S)
           /\ IsInjective(Append(s, x))
           /\ Range(Append(s, x)) = Range(s) \cup {x}
<1>1. Len(s) \in Nat /\ DOMAIN s = 1..Len(s)
  BY LenProperties
<1>2. /\ Append(s, x) \in Seq(S)
      /\ DOMAIN Append(s, x) = 1..(Len(s) + 1)
      /\ \A i \in 1..Len(s) : Append(s, x)[i] = s[i]
      /\ Append(s, x)[Len(s) + 1] = x
  BY <1>1, AppendProperties, LenProperties
<1>3. \A i \in 1..Len(s) : s[i] # x
  BY <1>1 DEF Range
<1>4. IsInjective(Append(s, x))
  BY <1>1, <1>2, <1>3 DEF IsInjective
<1>5. Range(Append(s, x)) = Range(s) \cup {x}
  BY <1>1, <1>2 DEF Range
<1>. QED BY <1>2, <1>4, <1>5

\* What is popped from a list is not left behind in it.
LEMMA FrontFacts ==
    ASSUME NEW S, NEW s \in Seq(S), IsInjective(s), s # <<>>
    PROVE  /\ Last(s) \in S
           /\ Front(s) \in Seq(S)
           /\ IsInjective(Front(s))
           /\ Last(s) \notin Range(Front(s))
           /\ Range(s) = Range(Front(s)) \cup {Last(s)}
<1>1. Len(s) \in Nat /\ Len(s) > 0 /\ s \in [1..Len(s) -> S]
  BY EmptySeq, LenProperties
<1>2. Front(s) = [i \in 1..(Len(s) - 1) |-> s[i]]
  BY <1>1 DEF Front
<1>3. Front(s) \in Seq(S)
  BY <1>1, <1>2
<1>4. IsInjective(Front(s))
  BY <1>1, <1>2 DEF IsInjective
<1>5. Last(s) \notin Range(Front(s))
  BY <1>1, <1>2 DEF IsInjective, Range, Last
<1>6. Range(s) = Range(Front(s)) \cup {Last(s)}
  BY <1>1, <1>2 DEF Range, Last
<1>. QED BY <1>1, <1>3, <1>4, <1>5, <1>6 DEF Last

-----------------------------------------------------------------------------
(* Ends of sequences. *)

\* Front and Last, undone and applied to one more.
LEMMA FrontLast ==
    ASSUME NEW S, NEW s \in Seq(S), s # <<>>
    PROVE  /\ Front(s) \in Seq(S) /\ Last(s) \in S
           /\ s = Append(Front(s), Last(s))
           /\ Len(Front(s)) = Len(s) - 1
           /\ \A i \in 1..(Len(s) - 1) : Front(s)[i] = s[i]
<1>1. Len(s) \in Nat \ {0} /\ \A i \in 1..Len(s) : s[i] \in S
  BY EmptySeq, ElementOfSeq
<1>2. /\ Front(s) \in Seq(S)
      /\ Len(Front(s)) = Len(s) - 1
      /\ \A i \in 1..(Len(s) - 1) : Front(s)[i] = s[i]
  <2>1. Front(s) = [i \in 1..(Len(s) - 1) |-> s[i]]
    BY <1>1 DEF Front
  <2>. QED BY <1>1, <2>1
<1>3. Last(s) \in S
  BY <1>1 DEF Last
<1>4. s = Append(Front(s), Last(s))
  <2>. DEFINE r == Append(Front(s), Last(s))
  <2>1. /\ r \in Seq(S) /\ Len(r) = Len(s)
        /\ \A i \in 1..(Len(s) - 1) : r[i] = Front(s)[i]
        /\ r[Len(s)] = s[Len(s)]
    BY <1>1, <1>2, <1>3, AppendProperties DEF Last
  <2>2. \A i \in 1..Len(s) : s[i] = r[i]
    BY <1>1, <1>2, <2>1
  <2>. HIDE DEF r
  <2>3. s = r
    BY <2>1, <2>2, SeqEqual
  <2>. QED BY <2>3 DEF r
<1>. QED BY <1>2, <1>3, <1>4

\* Append, undone.
LEMMA FrontLastAppend ==
    ASSUME NEW S, NEW s \in Seq(S), NEW x \in S
    PROVE  Front(Append(s, x)) = s /\ Last(Append(s, x)) = x
<1>. DEFINE r == Append(s, x)
<1>1. r \in Seq(S) /\ r # <<>> /\ r = Append(s, x)
  BY AppendProperties
<1>. HIDE DEF r
<1>2. Front(r) \in Seq(S) /\ Last(r) \in S /\ r = Append(Front(r), Last(r))
  BY <1>1, FrontLast
<1>3. s = Front(r) /\ x = Last(r)
  BY <1>1, <1>2, AppendInjective
<1>. QED BY <1>1, <1>3

\* A list whose last element is replaced.
LEMMA LastReplaced ==
    ASSUME NEW Q, NEW r \in Seq(Q), r # <<>>, NEW y \in Q
    PROVE  /\ Append(Front(r), y) \in Seq(Q)
           /\ Len(r) \in Nat \ {0}
           /\ Len(Append(Front(r), y)) = Len(r)
           /\ \A j \in 1..(Len(r) - 1) : Append(Front(r), y)[j] = r[j]
           /\ Append(Front(r), y)[Len(r)] = y
<1>1. Len(r) \in Nat \ {0}
  BY EmptySeq
<1>2. /\ Front(r) \in Seq(Q) /\ Len(Front(r)) = Len(r) - 1
      /\ \A i \in 1..(Len(r) - 1) : Front(r)[i] = r[i]
  BY FrontLast
<1>. DEFINE f == Front(r)
<1>. HIDE DEF f
<1>3. /\ Append(f, y) \in Seq(Q) /\ Len(Append(f, y)) = Len(f) + 1
      /\ \A i \in 1..Len(f) : Append(f, y)[i] = f[i]
      /\ Append(f, y)[Len(f) + 1] = y
  BY <1>2, AppendProperties DEF f
<1>. QED BY <1>1, <1>2, <1>3 DEF f

\* One more token at the end of the second part.
LEMMA ConcatAppend ==
    ASSUME NEW S, NEW r \in Seq(S), NEW s \in Seq(S), NEW x \in S
    PROVE  s \o Append(r, x) = Append(s \o r, x)
OBVIOUS

\* The same, with the types of all that it speaks of.
LEMMA AppendConcat ==
    ASSUME NEW S, NEW s \in Seq(S), NEW r \in Seq(S), NEW x \in S
    PROVE  /\ Append(r, x) \in Seq(S)
           /\ s \o r \in Seq(S)
           /\ s \o Append(r, x) = Append(s \o r, x)
OBVIOUS

Associates(u, v, w) == (u \o v) \o w = u \o (v \o w)

Regroups(q, a1, a2, b1, b2) ==
    a1 \o ((a2 \o (q \o b2)) \o b1) = (a1 \o a2) \o (q \o (b2 \o b1))

\* Concatenation is associative.
LEMMA Associative ==
    ASSUME NEW S, NEW u \in Seq(S), NEW v \in Seq(S), NEW w \in Seq(S)
    PROVE  Associates(u, v, w)
BY ConcatAssociative DEF Associates

\* What stands around the middle of a text, outside and inside.
LEMMA Regrouped ==
    ASSUME NEW S, NEW q \in Seq(S), NEW a1 \in Seq(S), NEW a2 \in Seq(S),
           NEW b1 \in Seq(S), NEW b2 \in Seq(S)
    PROVE  Regroups(q, a1, a2, b1, b2)
<1>1. q \o b2 \in Seq(S) /\ b2 \o b1 \in Seq(S)
  BY ConcatProperties
<1>2. q \o (b2 \o b1) \in Seq(S)
  BY <1>1, ConcatProperties
<1>3. /\ Associates(q, b2, b1)
      /\ Associates(a2, q \o b2, b1)
      /\ Associates(a1, a2, q \o (b2 \o b1))
  BY <1>1, <1>2, Associative
<1>. QED BY <1>3 DEF Associates, Regroups

\* The beginning of a text and the rest of it.
BeginsWith(S, s, a) == \E r \in Seq(S) : s = a \o r

First(s, n) == SubSeq(s, 1, n)

\* A first part is the beginning of a text.
LEMMA Beginning ==
    ASSUME NEW S, NEW s \in Seq(S), NEW n \in 0..Len(s), NEW a, a = First(s, n)
    PROVE  /\ a \in Seq(S) /\ Len(a) = n /\ \A i \in 1..n : a[i] = s[i]
           /\ BeginsWith(S, s, a)
<1>. DEFINE r == SubSeq(s, n + 1, Len(s))
            v == a \o r
<1>1. Len(s) \in Nat
  OBVIOUS
<1>2. a \in Seq(S) /\ Len(a) = n /\ \A i \in 1..n : a[i] = s[i]
  BY DEF First
<1>3. r \in Seq(S) /\ Len(r) = Len(s) - n /\ \A i \in 1..(Len(s) - n) : r[i] = s[n + i]
  OBVIOUS
<1>. HIDE DEF r
<1>4. v \in Seq(S) /\ Len(v) = n + (Len(s) - n)
      /\ \A i \in 1..(n + (Len(s) - n)) : v[i] = IF i <= n THEN a[i] ELSE r[i - n]
  BY <1>2, <1>3, ConcatProperties
<1>. HIDE DEF v
<1>5. Len(v) = Len(s) /\ \A i \in 1..Len(v) : v[i] = s[i]
  <2>1. Len(v) = Len(s)
    BY <1>1, <1>4
  <2>. SUFFICES ASSUME NEW i \in 1..Len(s) PROVE v[i] = s[i]
    BY <2>1
  <2>2. i \in 1..(n + (Len(s) - n))
    BY <1>1
  <2>3. CASE i <= n
    BY <1>2, <1>4, <2>2, <2>3
  <2>4. CASE i > n
    <3>1. i - n \in 1..(Len(s) - n) /\ n + (i - n) = i /\ ~(i <= n)
      BY <1>1, <2>4
    <3>. QED BY <1>3, <1>4, <2>2, <3>1
  <2>. QED BY <2>3, <2>4
<1>6. v = s
  BY <1>4, <1>5, SeqEqual
<1>. QED BY <1>2, <1>3, <1>6 DEF v, BeginsWith

\* A text holds what its beginning holds.
LEMMA BeginningFacts ==
    ASSUME NEW S, NEW s \in Seq(S), NEW a \in Seq(S), BeginsWith(S, s, a)
    PROVE  Len(a) <= Len(s) /\ \A i \in 1..Len(a) : s[i] = a[i]
<1>1. PICK r \in Seq(S) : s = a \o r
  BY DEF BeginsWith
<1>. DEFINE v == a \o r
<1>2. /\ Len(v) = Len(a) + Len(r)
      /\ \A i \in 1..(Len(a) + Len(r)) : v[i] = IF i <= Len(a) THEN a[i] ELSE r[i - Len(a)]
  BY ConcatProperties
<1>. HIDE DEF v
<1>3. Len(a) \in Nat /\ Len(r) \in Nat
  OBVIOUS
<1>4. Len(a) <= Len(v) /\ \A i \in 1..Len(a) : v[i] = a[i]
  BY <1>2, <1>3
<1>. QED BY <1>1, <1>4 DEF v

\* A beginning of a beginning.
LEMMA BeginningOfBeginning ==
    ASSUME NEW S, NEW s, NEW a \in Seq(S), NEW b,
           BeginsWith(S, s, b), BeginsWith(S, b, a)
    PROVE  BeginsWith(S, s, a)
<1>0. \A u, v, w \in Seq(S) : (u \o v) \o w = u \o (v \o w) /\ v \o w \in Seq(S)
  BY ConcatAssociative, ConcatProperties
<1>1. PICK r1 \in Seq(S) : b = a \o r1
  BY DEF BeginsWith
<1>2. PICK r2 \in Seq(S) : s = b \o r2
  BY DEF BeginsWith
<1>3. r1 \o r2 \in Seq(S) /\ (a \o r1) \o r2 = a \o (r1 \o r2)
  BY <1>0, Zenon
<1>4. s = a \o (r1 \o r2)
  BY <1>1, <1>2, <1>3, Zenon
<1>. QED BY <1>3, <1>4, Zenon DEF BeginsWith

-----------------------------------------------------------------------------
(* Without. *)

\* One place of a sequence.
LEMMA SubSeqOne ==
    ASSUME NEW S, NEW s \in Seq(S), NEW k \in 1..Len(s)
    PROVE  SubSeq(s, k, k) = <<s[k]>>
<1>. DEFINE r == SubSeq(s, k, k)
            q == <<s[k]>>
<1>1. r \in Seq(S) /\ Len(r) = 1 /\ r[1] = s[k]
  <2>1. k \in Int /\ \A i \in k..k : s[i] \in S
    OBVIOUS
  <2>2. k - k + 1 = 1 /\ k + 1 - 1 = k
    OBVIOUS
  <2>. QED BY <2>1, <2>2, SubSeqProperties
<1>2. q \in Seq(S) /\ Len(q) = 1 /\ q[1] = s[k]
  OBVIOUS
<1>. HIDE DEF r, q
<1>3. Len(r) = Len(q) /\ \A i \in 1..Len(r) : r[i] = q[i]
  BY <1>1, <1>2
<1>4. r = q
  BY <1>1, <1>2, <1>3, SeqEqual
<1>. QED BY <1>4 DEF r, q

\* A sequence of two.
LEMMA PairFacts ==
    ASSUME NEW S, NEW a \in S, NEW b \in S
    PROVE  Append(<<a>>, b) = <<a, b>> /\ <<a>> \o <<b>> = <<a, b>>
<1>. DEFINE u == <<a>>
            v == <<b>>
            q == <<a, b>>
<1>1. /\ u \in Seq(S) /\ Len(u) = 1 /\ u[1] = a
      /\ v \in Seq(S) /\ Len(v) = 1 /\ v[1] = b
      /\ q \in Seq(S) /\ Len(q) = 2 /\ q[1] = a /\ q[2] = b
  OBVIOUS
<1>. HIDE DEF u, v, q
<1>. DEFINE r == u \o v
            p == Append(u, b)
<1>2. r \in Seq(S) /\ Len(r) = 2 /\ r[1] = a /\ r[2] = b
  <2>1. r \in Seq(S) /\ Len(r) = Len(u) + Len(v)
        /\ \A i \in 1..(Len(u) + Len(v)) : r[i] = IF i <= Len(u) THEN u[i] ELSE v[i - Len(u)]
    BY <1>1, ConcatProperties
  <2>. HIDE DEF r
  <2>. QED BY <1>1, <2>1
<1>3. p \in Seq(S) /\ Len(p) = 2 /\ p[1] = a /\ p[2] = b
  <2>1. /\ p \in Seq(S) /\ Len(p) = Len(u) + 1 /\ \A i \in 1..Len(u) : p[i] = u[i]
        /\ p[Len(u) + 1] = b
    BY <1>1, AppendProperties
  <2>. HIDE DEF p
  <2>. QED BY <1>1, <2>1
<1>. HIDE DEF r, p
<1>4. /\ Len(r) = Len(q) /\ \A i \in 1..Len(r) : r[i] = q[i]
      /\ Len(p) = Len(q) /\ \A i \in 1..Len(p) : p[i] = q[i]
  BY <1>1, <1>2, <1>3
<1>5. r = q /\ p = q
  BY <1>1, <1>2, <1>3, <1>4, SeqEqual
<1>. QED BY <1>5 DEF r, p, q, u, v

\* Parts of two sequences that hold the same.
LEMMA SameSubSeq ==
    ASSUME NEW S, NEW a \in Seq(S), NEW b \in Seq(S),
           NEW i \in Nat \ {0}, NEW j \in Int, j <= Len(a),
           NEW k \in Nat \ {0}, NEW m \in Int, m <= Len(b), m - k = j - i,
           \A n \in i..j : a[n] = b[n - i + k]
    PROVE  SubSeq(a, i, j) = SubSeq(b, k, m)
<1>. DEFINE u == SubSeq(a, i, j)
            v == SubSeq(b, k, m)
<1>1. Len(a) \in Nat /\ Len(b) \in Nat
  OBVIOUS
<1>2. CASE j < i
  <2>1. m < k
    BY <1>2
  <2>2. u = <<>>
    BY <1>2, SubSeqEmpty
  <2>3. v = <<>>
    BY <2>1, SubSeqEmpty
  <2>. QED BY <2>2, <2>3
<1>3. CASE i <= j
  <2>1. /\ \A n \in i..j : a[n] \in S
        /\ \A n \in k..m : b[n] \in S
    BY <1>1
  <2>2. /\ u \in Seq(S) /\ Len(u) = j - i + 1
        /\ \A n \in 1..(j - i + 1) : u[n] = a[i + n - 1]
    BY <1>3, <2>1, SubSeqProperties
  <2>3. /\ v \in Seq(S) /\ Len(v) = m - k + 1
        /\ \A n \in 1..(m - k + 1) : v[n] = b[k + n - 1]
    <3>1. k <= m
      BY <1>3
    <3>. QED BY <2>1, <3>1, SubSeqProperties
  <2>. HIDE DEF u, v
  <2>4. Len(u) = Len(v) /\ \A n \in 1..Len(u) : u[n] = v[n]
    <3>1. Len(u) = Len(v) /\ Len(u) = j - i + 1
      BY <2>2, <2>3
    <3>. SUFFICES ASSUME NEW n \in 1..Len(u) PROVE u[n] = v[n]
      BY <3>1
    <3>2. n \in 1..(j - i + 1) /\ n \in 1..(m - k + 1) /\ i + n - 1 \in i..j
          /\ (i + n - 1) - i + k = k + n - 1
      BY <3>1
    <3>. QED BY <2>2, <2>3, <3>2
  <2>5. u = v
    BY <2>2, <2>3, <2>4, SeqEqual
  <2>. QED BY <2>5 DEF u, v
<1>. QED BY <1>2, <1>3

\* The recursive function in Without exists and satisfies its equations.
LEMMA WithoutRecursion ==
    ASSUME NEW s, NEW tokens, Len(s) \in Nat
    PROVE  \E f : /\ f[0] = <<>>
                  /\ \A n \in 1..Len(s) :
                       f[n] = IF s[n] \in tokens THEN f[n - 1] ELSE Append(f[n - 1], s[n])
                  /\ Without(s, tokens) = f[Len(s)]
<1>. DEFINE Def(f, N) == [n \in 0..N |->
                            IF n = 0 THEN <<>>
                            ELSE IF s[n] \in tokens THEN f[n - 1]
                            ELSE Append(f[n - 1], s[n])]
<1>. DEFINE P == {N \in Nat : \E f : f = Def(f, N)}
<1>1. 0 \in P
  <2>1. [n \in 0..0 |-> <<>>] = Def([n \in 0..0 |-> <<>>], 0)
    OBVIOUS
  <2>. QED BY <2>1
<1>2. ASSUME NEW N \in Nat, N \in P PROVE N + 1 \in P
  <2>1. PICK f : f = Def(f, N)
    BY <1>2
  <2>. DEFINE g == [n \in 0..(N + 1) |->
                      IF n <= N THEN f[n]
                      ELSE IF s[n] \in tokens THEN f[N] ELSE Append(f[N], s[n])]
  <2>2. g = Def(g, N + 1)
    <3>1. \A n \in 0..N : f[n] = Def(f, N)[n]
      BY <2>1
    <3>2. \A n \in 0..(N + 1) : g[n] = Def(g, N + 1)[n]
      BY <3>1
    <3>. QED BY <3>2
  <2>. HIDE DEF g
  <2>. QED BY <2>2
<1>3. Nat \subseteq P
  <2>. HIDE DEF P
  <2>. QED BY <1>1, <1>2, Induction
<1>4. \E f : f = Def(f, Len(s))
  BY <1>3
<1>5. Without(s, tokens) = (CHOOSE f : f = Def(f, Len(s)))[Len(s)]
  BY DEF Without
<1>6. PICK f : f = Def(f, Len(s)) /\ f = CHOOSE h : h = Def(h, Len(s))
  BY <1>4
<1>7. \A n \in 0..Len(s) : f[n] = Def(f, Len(s))[n]
  BY <1>6
<1>8. /\ f[0] = <<>>
      /\ \A n \in 1..Len(s) :
           f[n] = IF s[n] \in tokens THEN f[n - 1] ELSE Append(f[n - 1], s[n])
  BY <1>7
<1>9. Without(s, tokens) = f[Len(s)]
  BY <1>5, <1>6
<1>. QED BY <1>8, <1>9

\* Without, for nothing and for one more token.
LEMMA WithoutEmpty ==
    ASSUME NEW tokens
    PROVE  Without(<<>>, tokens) = <<>>
<1>1. Len(<<>>) = 0
  OBVIOUS
<1>. QED BY <1>1, WithoutRecursion

\* ... and for one more token.
LEMMA WithoutAppend ==
    ASSUME NEW S, NEW s \in Seq(S), NEW x \in S, NEW tokens
    PROVE  Without(Append(s, x), tokens) =
               IF x \in tokens THEN Without(s, tokens)
               ELSE Append(Without(s, tokens), x)
<1>. DEFINE r == Append(s, x)
<1>1. /\ Len(s) \in Nat /\ Len(r) \in Nat /\ Len(r) = Len(s) + 1
      /\ \A n \in 1..Len(s) : r[n] = s[n]
      /\ r[Len(r)] = x
  BY AppendProperties, LenProperties
<1>. HIDE DEF r
<1>2. PICK f : /\ f[0] = <<>>
               /\ \A n \in 1..Len(s) :
                    f[n] = IF s[n] \in tokens THEN f[n - 1] ELSE Append(f[n - 1], s[n])
               /\ Without(s, tokens) = f[Len(s)]
  BY <1>1, WithoutRecursion
<1>3. PICK g : /\ g[0] = <<>>
               /\ \A n \in 1..Len(r) :
                    g[n] = IF r[n] \in tokens THEN g[n - 1] ELSE Append(g[n - 1], r[n])
               /\ Without(r, tokens) = g[Len(r)]
  BY <1>1, WithoutRecursion
<1>. DEFINE P == {n \in Nat : n <= Len(s) => f[n] = g[n]}
<1>4. 0 \in P
  BY <1>2, <1>3
<1>5. ASSUME NEW n \in Nat, n \in P PROVE n + 1 \in P
  <2>. SUFFICES ASSUME n + 1 <= Len(s) PROVE f[n + 1] = g[n + 1]
    OBVIOUS
  <2>1. /\ f[n] = g[n] /\ n + 1 \in 1..Len(s) /\ n + 1 \in 1..Len(r)
        /\ (n + 1) - 1 = n
    BY <1>1, <1>5
  <2>2. f[n + 1] = IF s[n + 1] \in tokens THEN f[n] ELSE Append(f[n], s[n + 1])
    BY <1>2, <2>1
  <2>3. g[n + 1] = IF r[n + 1] \in tokens THEN g[n] ELSE Append(g[n], r[n + 1])
    BY <1>3, <2>1
  <2>. QED BY <1>1, <2>1, <2>2, <2>3
<1>6. f[Len(s)] = g[Len(s)]
  <2>. HIDE DEF P
  <2>1. Nat \subseteq P
    BY <1>4, <1>5, Induction
  <2>. QED BY <1>1, <2>1 DEF P
<1>7. g[Len(r)] = IF x \in tokens THEN g[Len(s)] ELSE Append(g[Len(s)], x)
  <2>1. Len(r) \in 1..Len(r) /\ Len(r) - 1 = Len(s)
    BY <1>1
  <2>. QED BY <1>1, <1>3, <2>1
<1>. QED BY <1>2, <1>3, <1>6, <1>7 DEF r

\* What is taken out is gone.
LEMMA WithoutType ==
    ASSUME NEW S, NEW s \in Seq(S), NEW tokens
    PROVE  Without(s, tokens) \in Seq(S \ tokens) /\ Without(s, tokens) \in Seq(S)
<1>. DEFINE P == {r \in Seq(S) : Without(r, tokens) \in Seq(S \ tokens)}
<1>1. <<>> \in P
  BY WithoutEmpty, EmptySeq
<1>2. ASSUME NEW r \in Seq(S), NEW x \in S, r \in P PROVE Append(r, x) \in P
  <2>1. Append(r, x) \in Seq(S)
    OBVIOUS
  <2>2. CASE x \in tokens
    BY <1>2, <2>1, <2>2, WithoutAppend
  <2>3. CASE x \notin tokens
    <3>1. Append(Without(r, tokens), x) \in Seq(S \ tokens)
      BY <1>2, <2>3
    <3>2. Without(Append(r, x), tokens) = Append(Without(r, tokens), x)
      BY <2>3, WithoutAppend
    <3>. QED BY <2>1, <3>1, <3>2
  <2>. QED BY <2>2, <2>3
<1>3. Seq(S) \subseteq P
  <2>. HIDE DEF P
  <2>. QED BY <1>1, <1>2, SequenceInduction
<1>4. Without(s, tokens) \in Seq(S \ tokens)
  BY <1>3
<1>5. S \ tokens \subseteq S
  OBVIOUS
<1>. QED BY <1>4, <1>5, SeqMonotonic

\* What is taken out of a text is taken out of its parts.
LEMMA WithoutConcat ==
    ASSUME NEW S, NEW s \in Seq(S), NEW r \in Seq(S), NEW tokens
    PROVE  Without(s \o r, tokens) = Without(s, tokens) \o Without(r, tokens)
<1>. DEFINE P == {q \in Seq(S) : Without(s \o q, tokens) = Without(s, tokens) \o Without(q, tokens)}
<1>1. <<>> \in P
  <2>1. Without(s, tokens) \o <<>> = Without(s, tokens) /\ s \o <<>> = s
    BY WithoutType, ConcatEmptySeq
  <2>. QED BY <2>1, WithoutEmpty, EmptySeq
<1>2. ASSUME NEW q \in Seq(S), NEW x \in S, q \in P PROVE Append(q, x) \in P
  <2>1. /\ Append(q, x) \in Seq(S) /\ s \o q \in Seq(S)
        /\ s \o Append(q, x) = Append(s \o q, x)
    OBVIOUS
  <2>2. /\ Without(s, tokens) \in Seq(S) /\ Without(q, tokens) \in Seq(S)
        /\ Without(s, tokens) \o Append(Without(q, tokens), x)
             = Append(Without(s, tokens) \o Without(q, tokens), x)
    <3>1. Without(s, tokens) \in Seq(S) /\ Without(q, tokens) \in Seq(S)
      BY WithoutType
    <3>. QED BY <3>1
  <2>3. Without(s \o q, tokens) = Without(s, tokens) \o Without(q, tokens)
    BY <1>2
  <2>4. Without(Append(s \o q, x), tokens) =
           IF x \in tokens THEN Without(s \o q, tokens) ELSE Append(Without(s \o q, tokens), x)
    BY <2>1, WithoutAppend
  <2>5. Without(Append(q, x), tokens) =
           IF x \in tokens THEN Without(q, tokens) ELSE Append(Without(q, tokens), x)
    BY WithoutAppend
  <2>. HIDE DEF P
  <2>6. Without(Append(s \o q, x), tokens) =
           Without(s, tokens) \o Without(Append(q, x), tokens)
    BY <2>2, <2>3, <2>4, <2>5
  <2>. QED BY <2>1, <2>6 DEF P
<1>3. Seq(S) \subseteq P
  <2>. HIDE DEF P
  <2>. QED BY <1>1, <1>2, SequenceInduction
<1>. QED BY <1>3

\* Tokens taken out one after the other are taken out together.
LEMMA WithoutWithout ==
    ASSUME NEW S, NEW s \in Seq(S), NEW A, NEW B
    PROVE  Without(Without(s, A), B) = Without(s, A \cup B)
<1>. DEFINE P == {q \in Seq(S) : Without(Without(q, A), B) = Without(q, A \cup B)}
<1>1. <<>> \in P
  BY WithoutEmpty, EmptySeq
<1>2. ASSUME NEW q \in Seq(S), NEW x \in S, q \in P PROVE Append(q, x) \in P
  <2>1. Append(q, x) \in Seq(S)
    BY AppendProperties
  <2>2. Without(q, A) \in Seq(S)
    BY WithoutType
  <2>3. Without(Append(q, x), A \cup B) =
           IF x \in A \cup B THEN Without(q, A \cup B) ELSE Append(Without(q, A \cup B), x)
    BY WithoutAppend
  <2>4. CASE x \in A
    <3>1. Without(Append(q, x), A) = Without(q, A)
      BY <2>4, WithoutAppend
    <3>. QED BY <1>2, <2>1, <2>3, <2>4, <3>1
  <2>5. CASE x \notin A
    <3>1. Without(Append(q, x), A) = Append(Without(q, A), x)
      BY <2>5, WithoutAppend
    <3>2. Without(Append(Without(q, A), x), B) =
             IF x \in B THEN Without(Without(q, A), B)
             ELSE Append(Without(Without(q, A), B), x)
      BY <2>2, WithoutAppend
    <3>. QED BY <1>2, <2>1, <2>3, <2>5, <3>1, <3>2
  <2>. QED BY <2>4, <2>5
<1>3. Seq(S) \subseteq P
  <2>. HIDE DEF P
  <2>. QED BY <1>1, <1>2, SequenceInduction
<1>. QED BY <1>3

\* Only the tokens of the text matter.
LEMMA WithoutSame ==
    ASSUME NEW S, NEW s \in Seq(S), NEW A, NEW B, A \cap S = B \cap S
    PROVE  Without(s, A) = Without(s, B)
<1>. DEFINE P == {q \in Seq(S) : Without(q, A) = Without(q, B)}
<1>1. <<>> \in P
  BY WithoutEmpty, EmptySeq
<1>2. ASSUME NEW q \in Seq(S), NEW x \in S, q \in P PROVE Append(q, x) \in P
  <2>1. Append(q, x) \in Seq(S) /\ (x \in A <=> x \in B)
    BY AppendProperties
  <2>2. Without(Append(q, x), A) = IF x \in A THEN Without(q, A) ELSE Append(Without(q, A), x)
    BY WithoutAppend
  <2>3. Without(Append(q, x), B) = IF x \in B THEN Without(q, B) ELSE Append(Without(q, B), x)
    BY WithoutAppend
  <2>. QED BY <1>2, <2>1, <2>2, <2>3
<1>3. Seq(S) \subseteq P
  <2>. HIDE DEF P
  <2>. QED BY <1>1, <1>2, SequenceInduction
<1>. QED BY <1>3

\* Nothing is taken out.
LEMMA WithoutNothing ==
    ASSUME NEW S, NEW s \in Seq(S)
    PROVE  Without(s, {}) = s
<1>. DEFINE P == {q \in Seq(S) : Without(q, {}) = q}
<1>1. <<>> \in P
  BY WithoutEmpty, EmptySeq
<1>2. ASSUME NEW q \in Seq(S), NEW x \in S, q \in P PROVE Append(q, x) \in P
  <2>1. Without(Append(q, x), {}) = Append(Without(q, {}), x)
    BY WithoutAppend
  <2>. QED BY <1>2, <2>1
<1>3. Seq(S) \subseteq P
  <2>. HIDE DEF P
  <2>. QED BY <1>1, <1>2, SequenceInduction
<1>. QED BY <1>3

\* Everything is taken out.
LEMMA WithoutAll ==
    ASSUME NEW S, NEW s \in Seq(S), NEW tokens, S \subseteq tokens
    PROVE  Without(s, tokens) = <<>>
<1>1. Without(s, tokens) \in Seq({})
  <2>1. S \ tokens = {}
    OBVIOUS
  <2>. QED BY <2>1, WithoutType
<1>. QED BY <1>1, EmptySeq, ElementOfSeq, LenProperties

\* A text is what stands before a place, the token there and what follows.
LEMMA CutAt ==
    ASSUME NEW S, NEW s \in Seq(S), NEW c \in 1..Len(s)
    PROVE  /\ SubSeq(s, 1, c - 1) \in Seq(S) /\ SubSeq(s, c + 1, Len(s)) \in Seq(S)
           /\ s = SubSeq(s, 1, c - 1) \o (<<s[c]>> \o SubSeq(s, c + 1, Len(s)))
<1>. DEFINE left == SubSeq(s, 1, c - 1)
            right == SubSeq(s, c + 1, Len(s))
<1>1. /\ left \in Seq(S) /\ Len(left) = c - 1 /\ \A i \in 1..(c - 1) : left[i] = s[i]
      /\ right \in Seq(S) /\ Len(right) = Len(s) - c
      /\ \A i \in 1..(Len(s) - c) : right[i] = s[c + i]
  OBVIOUS
<1>2. s[c] \in S /\ Len(s) \in Nat
  OBVIOUS
<1>. DEFINE x == s[c]
<1>. HIDE DEF left, right, x
<1>3. <<x>> \o right \in Seq(S) /\ Len(<<x>> \o right) = Len(s) - c + 1
      /\ (<<x>> \o right)[1] = x
      /\ \A i \in 1..(Len(s) - c) : (<<x>> \o right)[i + 1] = right[i]
  BY <1>1, <1>2 DEF x
<1>. DEFINE tl == <<x>> \o right
<1>. HIDE DEF tl
<1>4. left \o tl \in Seq(S) /\ Len(left \o tl) = Len(s)
  <2>1. Len(left) + Len(tl) = Len(s)
    BY <1>1, <1>2, <1>3 DEF tl
  <2>2. tl \in Seq(S)
    BY <1>3 DEF tl
  <2>. QED BY <1>1, <2>1, <2>2, ConcatProperties
<1>. DEFINE all == left \o tl
<1>5. \A i \in 1..Len(s) : all[i] = IF i < c THEN left[i] ELSE tl[i - c + 1]
  <2>1. Len(left) + Len(tl) = Len(s) /\ tl \in Seq(S)
    BY <1>1, <1>2, <1>3 DEF tl
  <2>2. \A i \in 1..(Len(left) + Len(tl)) :
            all[i] = IF i <= Len(left) THEN left[i] ELSE tl[i - Len(left)]
    BY <1>1, <2>1, ConcatProperties
  <2>3. \A i \in 1..Len(s) : i - Len(left) = i - c + 1 /\ (i <= Len(left) <=> i < c)
    BY <1>1
  <2>. HIDE DEF all
  <2>. QED BY <2>1, <2>2, <2>3
<1>. HIDE DEF all
<1>6. \A i \in 1..Len(s) : all[i] = s[i]
  <2>. SUFFICES ASSUME NEW i \in 1..Len(s) PROVE all[i] = s[i]
    OBVIOUS
  <2>1. CASE i < c
    BY <1>1, <1>5, <2>1
  <2>2. CASE i = c
    <3>1. all[i] = tl[1]
      <4>1. i - c + 1 = 1 /\ ~(i < c)
        BY <2>2
      <4>. QED BY <1>5, <4>1
    <3>2. tl[1] = x
      BY <1>3 DEF tl
    <3>. QED BY <2>2, <3>1, <3>2 DEF x
  <2>3. CASE i > c
    <3>1. all[i] = tl[i - c + 1]
      BY <1>5, <2>3
    <3>2. tl[i - c + 1] = right[i - c] /\ right[i - c] = s[i]
      <4>1. i - c \in 1..(Len(s) - c) /\ c + (i - c) = i
        BY <2>3
      <4>. QED BY <1>1, <1>3, <4>1 DEF tl
    <3>. QED BY <3>1, <3>2
  <2>. QED BY <2>1, <2>2, <2>3
<1>7. s = all
  <2>1. all \in Seq(S) /\ Len(all) = Len(s)
    BY <1>4 DEF all
  <2>. QED BY <1>6, <2>1
<1>. QED BY <1>1, <1>7 DEF all, left, right, tl, x

\* A separator that is taken out leaves the parts it separates.
LEMMA WithoutCut ==
    ASSUME NEW S, NEW s \in Seq(S), NEW c \in 1..Len(s), NEW tokens, s[c] \in tokens
    PROVE  Without(s, tokens) = Without(SubSeq(s, 1, c - 1), tokens)
                                  \o Without(SubSeq(s, c + 1, Len(s)), tokens)
<1>. DEFINE left == SubSeq(s, 1, c - 1)
            right == SubSeq(s, c + 1, Len(s))
            x == s[c]
<1>0. \A u, v \in Seq(S) : Without(u \o v, tokens) = Without(u, tokens) \o Without(v, tokens)
  BY WithoutConcat
<1>1. left \in Seq(S) /\ right \in Seq(S) /\ s = left \o (<<x>> \o right)
  BY CutAt
<1>2. x \in S /\ x \in tokens
  OBVIOUS
<1>. HIDE DEF left, right, x
<1>3. <<x>> \in Seq(S) /\ <<x>> \o right \in Seq(S)
  BY <1>1, <1>2
<1>4. Without(<<x>>, tokens) = <<>>
  <2>1. <<x>> \in Seq({x}) /\ {x} \subseteq tokens
    BY <1>2
  <2>. QED BY <2>1, WithoutAll
<1>5. Without(<<x>> \o right, tokens) = <<>> \o Without(right, tokens)
  <2>1. Without(<<x>> \o right, tokens) = Without(<<x>>, tokens) \o Without(right, tokens)
    BY <1>0, <1>1, <1>3
  <2>. QED BY <1>4, <2>1
<1>6. <<>> \o Without(right, tokens) = Without(right, tokens)
  <2>1. Without(right, tokens) \in Seq(S)
    BY <1>1, WithoutType
  <2>. QED BY <2>1
<1>. DEFINE tl == <<x>> \o right
<1>7. tl \in Seq(S)
  BY <1>3
<1>. HIDE DEF tl
<1>8. Without(left \o tl, tokens) = Without(left, tokens) \o Without(tl, tokens)
  BY <1>1, <1>7, WithoutConcat
<1>9. s = left \o tl /\ Without(tl, tokens) = Without(right, tokens)
  BY <1>1, <1>5, <1>6 DEF tl
<1>. QED BY <1>8, <1>9 DEF left, right

\* What is left says which tokens there were.
LEMMA WithoutRange ==
    ASSUME NEW S, NEW s \in Seq(S), NEW A, NEW B, Without(s, A) \in Seq(B)
    PROVE  s \in Seq(A \cup B)
<1>. DEFINE P == {q \in Seq(S) : Without(q, A) \in Seq(B) => q \in Seq(A \cup B)}
<1>1. <<>> \in P
  BY EmptySeq
<1>2. ASSUME NEW q \in Seq(S), NEW x \in S, q \in P PROVE Append(q, x) \in P
  <2>. DEFINE w == Without(q, A)
  <2>1. Append(q, x) \in Seq(S)
    BY AppendProperties
  <2>2. w \in Seq(S)
    BY WithoutType
  <2>. SUFFICES ASSUME Without(Append(q, x), A) \in Seq(B)
                PROVE  Append(q, x) \in Seq(A \cup B)
    BY <2>1
  <2>3. CASE x \in A
    <3>1. Without(Append(q, x), A) = w
      BY <2>3, WithoutAppend
    <3>2. q \in Seq(A \cup B) /\ x \in A \cup B
      BY <1>2, <2>3, <3>1
    <3>. QED BY <3>2, AppendProperties
  <2>4. CASE x \notin A
    <3>1. Append(w, x) \in Seq(B)
      <4>1. Without(Append(q, x), A) = Append(w, x)
        BY <2>4, WithoutAppend
      <4>. QED BY <4>1
    <3>2. x \in B /\ w \in Seq(B)
      <4>1. /\ Len(w) \in Nat /\ Len(Append(w, x)) = Len(w) + 1
            /\ Append(w, x)[Len(w) + 1] = x
            /\ \A i \in 1..Len(w) : Append(w, x)[i] = w[i]
        BY <2>2, AppendProperties, LenProperties
      <4>2. \A i \in 1..(Len(w) + 1) : Append(w, x)[i] \in B
        BY <3>1, <4>1, ElementOfSeq
      <4>. HIDE DEF w
      <4>3. x \in B /\ \A i \in 1..Len(w) : w[i] \in B
        BY <4>1, <4>2
      <4>4. w \in [1..Len(w) -> B]
        BY <2>2, <4>3, LenProperties DEF w
      <4>. QED BY <4>1, <4>3, <4>4
    <3>3. q \in Seq(A \cup B) /\ x \in A \cup B
      BY <1>2, <3>2
    <3>. QED BY <3>3, AppendProperties
  <2>. QED BY <2>3, <2>4
<1>3. Seq(S) \subseteq P
  <2>. HIDE DEF P
  <2>. QED BY <1>1, <1>2, SequenceInduction
<1>. QED BY <1>3

-----------------------------------------------------------------------------
(* Split. *)

\* The recursive function in Split exists and satisfies its equations.
LEMMA SplitRecursion ==
    ASSUME NEW s, NEW t, Len(s) \in Nat
    PROVE  \E f : /\ f[0] = << <<>> >>
                  /\ \A n \in 1..Len(s) :
                       f[n] = IF s[n] = t THEN Append(f[n - 1], <<>>)
                              ELSE Append(Front(f[n - 1]), Append(Last(f[n - 1]), s[n]))
                  /\ Split(s, t) = f[Len(s)]
<1>. DEFINE Def(f, N) == [n \in 0..N |->
                            IF n = 0 THEN << <<>> >>
                            ELSE IF s[n] = t THEN Append(f[n - 1], <<>>)
                            ELSE Append(Front(f[n - 1]), Append(Last(f[n - 1]), s[n]))]
<1>. DEFINE P == {N \in Nat : \E f : f = Def(f, N)}
<1>1. 0 \in P
  <2>1. [n \in 0..0 |-> << <<>> >>] = Def([n \in 0..0 |-> << <<>> >>], 0)
    OBVIOUS
  <2>. QED BY <2>1
<1>2. ASSUME NEW N \in Nat, N \in P PROVE N + 1 \in P
  <2>1. PICK f : f = Def(f, N)
    BY <1>2
  <2>. DEFINE g == [n \in 0..(N + 1) |->
                      IF n <= N THEN f[n]
                      ELSE IF s[n] = t THEN Append(f[N], <<>>)
                      ELSE Append(Front(f[N]), Append(Last(f[N]), s[n]))]
  <2>2. g = Def(g, N + 1)
    <3>1. \A n \in 0..N : f[n] = Def(f, N)[n]
      BY <2>1
    <3>2. \A n \in 0..(N + 1) : g[n] = Def(g, N + 1)[n]
      BY <3>1
    <3>. QED BY <3>2
  <2>. HIDE DEF g, Def
  <2>. QED BY <2>2
<1>3. Nat \subseteq P
  <2>. HIDE DEF P
  <2>. QED BY <1>1, <1>2, Induction
<1>4. \E f : f = Def(f, Len(s))
  BY <1>3
<1>5. Split(s, t) = (CHOOSE f : f = Def(f, Len(s)))[Len(s)]
  BY DEF Split
<1>6. PICK f : f = Def(f, Len(s)) /\ f = CHOOSE h : h = Def(h, Len(s))
  BY <1>4
<1>7. \A n \in 0..Len(s) : f[n] = Def(f, Len(s))[n]
  BY <1>6
<1>8. /\ f[0] = << <<>> >>
      /\ \A n \in 1..Len(s) :
           f[n] = IF s[n] = t THEN Append(f[n - 1], <<>>)
                  ELSE Append(Front(f[n - 1]), Append(Last(f[n - 1]), s[n]))
  BY <1>7
<1>9. Split(s, t) = f[Len(s)]
  BY <1>5, <1>6
<1>. QED BY <1>8, <1>9

\* Split, for nothing ...
LEMMA SplitEmpty ==
    ASSUME NEW t
    PROVE  Split(<<>>, t) = << <<>> >>
<1>1. Len(<<>>) = 0
  OBVIOUS
<1>. QED BY <1>1, SplitRecursion

\* ... and for one more token.
LEMMA SplitAppend ==
    ASSUME NEW S, NEW s \in Seq(S), NEW x \in S, NEW t
    PROVE  Split(Append(s, x), t) =
               IF x = t THEN Append(Split(s, t), <<>>)
               ELSE Append(Front(Split(s, t)), Append(Last(Split(s, t)), x))
<1>. DEFINE r == Append(s, x)
<1>1. /\ Len(s) \in Nat /\ Len(r) \in Nat /\ Len(r) = Len(s) + 1
      /\ \A n \in 1..Len(s) : r[n] = s[n]
      /\ r[Len(r)] = x
  BY AppendProperties, LenProperties
<1>. HIDE DEF r
<1>2. PICK f : /\ f[0] = << <<>> >>
               /\ \A n \in 1..Len(s) :
                       f[n] = IF s[n] = t THEN Append(f[n - 1], <<>>)
                              ELSE Append(Front(f[n - 1]), Append(Last(f[n - 1]), s[n]))
               /\ Split(s, t) = f[Len(s)]
  BY <1>1, SplitRecursion
<1>3. PICK g : /\ g[0] = << <<>> >>
               /\ \A n \in 1..Len(r) :
                       g[n] = IF r[n] = t THEN Append(g[n - 1], <<>>)
                              ELSE Append(Front(g[n - 1]), Append(Last(g[n - 1]), r[n]))
               /\ Split(r, t) = g[Len(r)]
  BY <1>1, SplitRecursion
<1>. DEFINE P == {n \in Nat : n <= Len(s) => f[n] = g[n]}
<1>4. 0 \in P
  BY <1>2, <1>3
<1>5. ASSUME NEW n \in Nat, n \in P PROVE n + 1 \in P
  <2>. SUFFICES ASSUME n + 1 <= Len(s) PROVE f[n + 1] = g[n + 1]
    OBVIOUS
  <2>1. /\ f[n] = g[n] /\ n + 1 \in 1..Len(s) /\ n + 1 \in 1..Len(r)
        /\ (n + 1) - 1 = n
    BY <1>1, <1>5
  <2>2. f[n + 1] = IF s[n + 1] = t THEN Append(f[n], <<>>)
                   ELSE Append(Front(f[n]), Append(Last(f[n]), s[n + 1]))
    BY <1>2, <2>1
  <2>3. g[n + 1] = IF r[n + 1] = t THEN Append(g[n], <<>>)
                   ELSE Append(Front(g[n]), Append(Last(g[n]), r[n + 1]))
    BY <1>3, <2>1
  <2>. QED BY <1>1, <2>1, <2>2, <2>3
<1>6. f[Len(s)] = g[Len(s)]
  <2>. HIDE DEF P
  <2>1. Nat \subseteq P
    BY <1>4, <1>5, Induction
  <2>. QED BY <1>1, <2>1 DEF P
<1>7. g[Len(r)] = IF x = t THEN Append(g[Len(s)], <<>>)
                  ELSE Append(Front(g[Len(s)]), Append(Last(g[Len(s)]), x))
  <2>1. Len(r) \in 1..Len(r) /\ Len(r) - 1 = Len(s)
    BY <1>1
  <2>. QED BY <1>1, <1>3, <2>1
<1>. QED BY <1>2, <1>3, <1>6, <1>7 DEF r

\* There is at least one piece, and no piece holds a separator.
LEMMA SplitType ==
    ASSUME NEW S, NEW s \in Seq(S), NEW t
    PROVE  Split(s, t) \in Seq(Seq(S \ {t})) \ {<<>>}
<1>. DEFINE P == {r \in Seq(S) : Split(r, t) \in Seq(Seq(S \ {t})) \ {<<>>}}
<1>1. <<>> \in P
  <2>1. <<>> \in Seq(S) /\ <<>> \in Seq(S \ {t})
    BY EmptySeq
  <2>2. << <<>> >> \in Seq(Seq(S \ {t})) \ {<<>>}
    BY <2>1
  <2>. QED BY <2>1, <2>2, SplitEmpty
<1>2. ASSUME NEW r \in Seq(S), NEW x \in S, r \in P PROVE Append(r, x) \in P
  <2>. DEFINE R == Split(r, t)
  <2>1. Append(r, x) \in Seq(S) /\ R \in Seq(Seq(S \ {t})) \ {<<>>}
    BY <1>2, AppendProperties
  <2>2. Split(Append(r, x), t) = IF x = t THEN Append(R, <<>>)
                                 ELSE Append(Front(R), Append(Last(R), x))
    BY SplitAppend
  <2>. HIDE DEF R
  <2>3. CASE x = t
    <3>1. <<>> \in Seq(S \ {t})
      BY EmptySeq
    <3>2. Append(R, <<>>) \in Seq(Seq(S \ {t})) \ {<<>>}
      BY <2>1, <3>1, AppendProperties
    <3>. QED BY <2>1, <2>2, <2>3, <3>2
  <2>4. CASE x # t
    <3>1. Front(R) \in Seq(Seq(S \ {t})) /\ Last(R) \in Seq(S \ {t})
      BY <2>1, FrontLast
    <3>2. Append(Last(R), x) \in Seq(S \ {t})
      BY <2>4, <3>1, AppendProperties
    <3>. DEFINE l == Append(Last(R), x)
    <3>. HIDE DEF l
    <3>3. l \in Seq(S \ {t})
      BY <3>2 DEF l
    <3>4. Append(Front(R), l) \in Seq(Seq(S \ {t})) \ {<<>>}
      BY <3>1, <3>3, AppendProperties
    <3>. QED BY <2>1, <2>2, <2>4, <3>4 DEF l
  <2>. QED BY <2>3, <2>4
<1>3. Seq(S) \subseteq P
  <2>. HIDE DEF P
  <2>. QED BY <1>1, <1>2, SequenceInduction
<1>. QED BY <1>3

\* The pieces U of a text are those of the text without its last token x, R,
\* and that token.
OneMore(R, U, x, t) ==
    /\ x = t => /\ Len(U) = Len(R) + 1
                /\ \A j \in 1..Len(R) : U[j] = R[j]
                /\ U[Len(R) + 1] = <<>>
    /\ x # t => /\ Len(U) = Len(R)
                /\ \A j \in 1..(Len(R) - 1) : U[j] = R[j]
                /\ U[Len(R)] = Append(R[Len(R)], x)

\* The same, piece by piece.
LEMMA PieceFacts ==
    ASSUME NEW S, NEW s \in Seq(S), NEW t
    PROVE  /\ Len(Split(s, t)) \in Nat \ {0}
           /\ \A j \in 1..Len(Split(s, t)) : Split(s, t)[j] \in Seq(S \ {t}) /\ Split(s, t)[j] \in Seq(S)
<1>. DEFINE R == Split(s, t)
<1>1. R \in Seq(Seq(S \ {t})) /\ R # <<>>
  BY SplitType
<1>. HIDE DEF R
<1>2. Len(R) \in Nat \ {0}
  BY <1>1, EmptySeq
<1>3. \A j \in 1..Len(R) : R[j] \in Seq(S \ {t})
  BY <1>1, ElementOfSeq
<1>4. Seq(S \ {t}) \subseteq Seq(S)
  BY SeqMonotonic
<1>. QED BY <1>2, <1>3, <1>4 DEF R

\* One more token, seen piece by piece.
LEMMA SplitStep ==
    ASSUME NEW S, NEW s \in Seq(S), NEW x \in S, NEW t
    PROVE  OneMore(Split(s, t), Split(Append(s, x), t), x, t)
<1>. DEFINE R == Split(s, t)  U == Split(Append(s, x), t)
<1>1. R \in Seq(Seq(S \ {t})) /\ R # <<>>
  BY SplitType
<1>2. U = IF x = t THEN Append(R, <<>>) ELSE Append(Front(R), Append(Last(R), x))
  BY SplitAppend
<1>3. Len(R) \in Nat \ {0} /\ \A j \in 1..Len(R) : R[j] \in Seq(S \ {t})
  BY PieceFacts
<1>. HIDE DEF R, U
<1>5. CASE x = t
  <2>1. <<>> \in Seq(S \ {t})
    BY EmptySeq
  <2>2. /\ Len(Append(R, <<>>)) = Len(R) + 1
        /\ \A j \in 1..Len(R) : Append(R, <<>>)[j] = R[j]
        /\ Append(R, <<>>)[Len(R) + 1] = <<>>
    BY <1>1, <2>1, AppendProperties
  <2>. QED BY <1>2, <1>5, <2>2 DEF R, U, OneMore
<1>6. CASE x # t
  <2>. DEFINE y == Append(R[Len(R)], x)
  <2>1. y \in Seq(S \ {t})
    BY <1>3, <1>6, AppendProperties
  <2>2. U = Append(Front(R), y)
    BY <1>2, <1>6 DEF Last
  <2>. HIDE DEF y
  <2>3. /\ Len(U) = Len(R)
        /\ \A j \in 1..(Len(R) - 1) : U[j] = R[j]
        /\ U[Len(R)] = y
    BY <1>1, <2>1, <2>2, LastReplaced
  <2>. QED BY <1>6, <2>3 DEF R, U, y, OneMore
<1>. QED BY <1>5, <1>6

\* The pieces U of a text begin with the pieces R of its beginning, but for the
\* last of these, which may go on.
GoesOn(S, R, U) ==
    /\ Len(R) <= Len(U)
    /\ \A j \in 1..(Len(R) - 1) : U[j] = R[j]
    /\ BeginsWith(S, U[Len(R)], R[Len(R)])

\* A text that goes on changes nothing but its last piece.
LEMMA SplitPrefix ==
    ASSUME NEW S, NEW a \in Seq(S), NEW b \in Seq(S), NEW t
    PROVE  GoesOn(S, Split(a, t), Split(a \o b, t))
<1>. DEFINE A == Split(a, t)  n == Len(A)  l == A[n]
            Goes(L) == /\ n <= Len(L)
                       /\ \A j \in 1..(n - 1) : L[j] = A[j]
                       /\ \E rest \in Seq(S) : L[n] = l \o rest
            P == {q \in Seq(S) : Goes(Split(a \o q, t))}
<1>0. n \in Nat \ {0} /\ l \in Seq(S)
  <2>1. n \in Nat \ {0} /\ \A j \in 1..n : A[j] \in Seq(S)
    BY PieceFacts
  <2>. QED BY <2>1
<1>1. <<>> \in P
  <2>1. a \o <<>> = a /\ l \o <<>> = l /\ <<>> \in Seq(S)
    BY <1>0, ConcatEmptySeq, EmptySeq
  <2>. HIDE DEF n, l
  <2>2. Len(A) = n /\ A[n] = l
    BY DEF n, l
  <2>3. \E rest \in Seq(S) : A[n] = l \o rest
    BY <2>1, <2>2
  <2>4. n <= Len(A)
    BY <1>0, <2>2
  <2>5. Goes(A)
    BY <2>3, <2>4
  <2>. HIDE DEF Goes
  <2>. QED BY <2>1, <2>5
<1>2. ASSUME NEW q \in Seq(S), NEW x \in S, q \in P PROVE Append(q, x) \in P
  <2>. DEFINE p == a \o q  R == Split(p, t)  U == Split(Append(p, x), t)
  <2>1. Append(q, x) \in Seq(S) /\ p \in Seq(S) /\ a \o Append(q, x) = Append(p, x)
    BY AppendConcat
  <2>2. Goes(R)
    BY <1>2
  <2>. HIDE DEF p
  <2>3. Len(R) \in Nat \ {0} /\ OneMore(R, U, x, t)
    BY <2>1, PieceFacts, SplitStep
  <2>. USE DEF OneMore
  <2>. HIDE DEF R, U, A, n, l
  <2>4. PICK rest \in Seq(S) : R[n] = l \o rest
    BY <2>2
  <2>5. n <= Len(U) /\ \A j \in 1..(n - 1) : U[j] = A[j]
    BY <1>0, <2>2, <2>3
  <2>6. \E more \in Seq(S) : U[n] = l \o more
    <3>1. CASE x = t \/ n < Len(R)
      <4>1. U[n] = R[n]
        <5>1. n \in 1..Len(R) /\ (n < Len(R) => n \in 1..(Len(R) - 1))
          BY <1>0, <2>2, <2>3
        <5>. QED BY <2>3, <3>1, <5>1
      <4>. QED BY <2>4, <4>1
    <3>2. CASE x # t /\ n = Len(R)
      <4>1. U[n] = Append(l \o rest, x)
        BY <2>3, <2>4, <3>2
      <4>2. Append(rest, x) \in Seq(S) /\ l \o Append(rest, x) = Append(l \o rest, x)
        BY <1>0, AppendConcat
      <4>. QED BY <4>1, <4>2
    <3>3. n < Len(R) \/ n = Len(R)
      BY <1>0, <2>2, <2>3
    <3>. QED BY <3>1, <3>2, <3>3
  <2>7. Goes(U)
    BY <2>5, <2>6
  <2>. HIDE DEF Goes
  <2>. QED BY <2>1, <2>7 DEF U
<1>3. Seq(S) \subseteq P
  <2>. HIDE DEF P
  <2>. QED BY <1>1, <1>2, SequenceInduction
<1>4. Goes(Split(a \o b, t))
  BY <1>3
<1>. QED BY <1>4, Zenon DEF GoesOn, BeginsWith

\* The pieces U are the pieces R with text joined to the last, or the first.
JoinedLast(R, U, b) ==
    /\ Len(U) = Len(R)
    /\ \A j \in 1..(Len(R) - 1) : U[j] = R[j]
    /\ U[Len(R)] = R[Len(R)] \o b

JoinedFirst(R, U, a) ==
    /\ Len(U) = Len(R)
    /\ U[1] = a \o R[1]
    /\ \A j \in 2..Len(R) : U[j] = R[j]

\* Text without a separator that follows joins the last piece ...
LEMMA SplitExtended ==
    ASSUME NEW S, NEW s \in Seq(S), NEW t, NEW b \in Seq(S \ {t})
    PROVE  JoinedLast(Split(s, t), Split(s \o b, t), b)
<1>. DEFINE R == Split(s, t)  n == Len(R)  l == R[n]
            Joins(U, q) == /\ Len(U) = n
                           /\ \A j \in 1..(n - 1) : U[j] = R[j]
                           /\ U[n] = l \o q
            P == {q \in Seq(S \ {t}) : Joins(Split(s \o q, t), q)}
<1>0. n \in Nat \ {0} /\ l \in Seq(S \ {t}) /\ l \in Seq(S)
  BY PieceFacts
<1>1. <<>> \in P
  <2>1. s \o <<>> = s /\ l \o <<>> = l /\ <<>> \in Seq(S \ {t})
    BY <1>0, ConcatEmptySeq, EmptySeq
  <2>. HIDE DEF n, l
  <2>2. Len(R) = n /\ R[n] = l
    BY DEF n, l
  <2>3. Joins(R, <<>>)
    BY <1>0, <2>1, <2>2
  <2>. QED BY <2>1, <2>3
<1>2. ASSUME NEW q \in Seq(S \ {t}), NEW x \in S \ {t}, q \in P PROVE Append(q, x) \in P
  <2>. DEFINE p == s \o q  V == Split(p, t)  W == Split(Append(p, x), t)
  <2>1. q \in Seq(S) /\ x \in S /\ x # t
    BY SeqMonotonic
  <2>2. Append(q, x) \in Seq(S \ {t}) /\ p \in Seq(S) /\ s \o Append(q, x) = Append(p, x)
    BY <2>1, AppendConcat, AppendProperties
  <2>3. Joins(V, q)
    BY <1>2
  <2>. HIDE DEF p
  <2>4. OneMore(V, W, x, t)
    BY <2>1, <2>2, SplitStep
  <2>. HIDE DEF V, W, R, n, l
  <2>5. Append(l \o q, x) = l \o Append(q, x)
    <3>1. l \in Seq(S) /\ q \in Seq(S) /\ x \in S
      BY <1>0, <2>1
    <3>. QED BY <3>1, ConcatAppend, Zenon
  <2>6. Joins(W, Append(q, x))
    BY <1>0, <2>1, <2>3, <2>4, <2>5 DEF OneMore
  <2>. HIDE DEF Joins
  <2>. QED BY <2>2, <2>6 DEF W
<1>3. Seq(S \ {t}) \subseteq P
  <2>. HIDE DEF P
  <2>. QED BY <1>1, <1>2, SequenceInduction
<1>4. Joins(Split(s \o b, t), b)
  BY <1>3
<1>. QED BY <1>4 DEF JoinedLast

\* A text without the separator is its only piece.
LEMMA SplitAlone ==
    ASSUME NEW S, NEW t, NEW b \in Seq(S \ {t})
    PROVE  Split(b, t) = <<b>>
<1>1. <<>> \in Seq(S) /\ b \in Seq(S) /\ <<>> \o b = b
  OBVIOUS
<1>2. JoinedLast(Split(<<>>, t), Split(<<>> \o b, t), b)
  BY <1>1, SplitExtended
<1>3. Split(<<>>, t) = << <<>> >>
  BY SplitEmpty
<1>4. JoinedLast(<< <<>> >>, Split(b, t), b)
  BY <1>1, <1>2, <1>3
<1>5. Len(Split(b, t)) = 1 /\ Split(b, t)[1] = b
  <2>1. Len(<< <<>> >>) = 1 /\ << <<>> >>[1] = <<>>
    OBVIOUS
  <2>. QED BY <1>1, <1>4, <2>1 DEF JoinedLast
<1>6. Split(b, t) \in Seq(Seq(S \ {t}))
  BY <1>1, SplitType
<1>7. <<b>> \in Seq(Seq(S \ {t})) /\ Len(<<b>>) = 1 /\ <<b>>[1] = b
  OBVIOUS
<1>. DEFINE p == Split(b, t)
            q == <<b>>
<1>. HIDE DEF p, q
<1>8. p = q
  <2>1. Len(p) = Len(q) /\ \A i \in 1..Len(p) : p[i] = q[i]
    BY <1>5, <1>7 DEF p, q
  <2>2. p \in Seq(Seq(S \ {t})) /\ q \in Seq(Seq(S \ {t}))
    BY <1>6, <1>7 DEF p, q
  <2>. QED BY <2>1, <2>2, SeqEqual
<1>. QED BY <1>8 DEF p, q

\* Two texts without the separator are the pieces when it stands between them.
LEMMA SplitPair ==
    ASSUME NEW S, NEW t \in S, NEW a \in Seq(S \ {t}), NEW b \in Seq(S \ {t})
    PROVE  Split(Append(a, t) \o b, t) = <<a, b>>
<1>1. a \in Seq(S) /\ b \in Seq(S) /\ Append(a, t) \in Seq(S)
  OBVIOUS
<1>. DEFINE s == Append(a, t)
            p == Split(s \o b, t)
            q == <<a, b>>
<1>2. Split(s, t) = <<a, <<>> >>
  <2>1. Split(s, t) = Append(Split(a, t), <<>>)
    BY <1>1, SplitAppend
  <2>2. Split(a, t) = <<a>>
    BY SplitAlone
  <2>3. Append(<<a>>, <<>>) = <<a, <<>> >>
    <3>1. a \in Seq(S) /\ <<>> \in Seq(S)
      BY <1>1
    <3>. QED BY <3>1, PairFacts
  <2>. QED BY <2>1, <2>2, <2>3, Zenon
<1>3. s \in Seq(S)
  BY <1>1
<1>. HIDE DEF s
<1>4. JoinedLast(Split(s, t), p, b)
  BY <1>1, <1>3, SplitExtended
<1>5. Len(p) = 2 /\ p[1] = a /\ p[2] = b
  <2>. DEFINE r == <<a, <<>> >>
  <2>1. Len(r) = 2 /\ r[1] = a /\ r[2] = <<>> /\ <<>> \o b = b
    BY <1>1
  <2>2. JoinedLast(r, p, b)
    BY <1>2, <1>4
  <2>. HIDE DEF r, p
  <2>. QED BY <2>1, <2>2 DEF JoinedLast
<1>6. p \in Seq(Seq(S \ {t}))
  <2>1. s \o b \in Seq(S)
    BY <1>1, <1>3
  <2>. HIDE DEF s
  <2>. QED BY <2>1, SplitType
<1>7. q \in Seq(Seq(S \ {t})) /\ Len(q) = 2 /\ q[1] = a /\ q[2] = b
  OBVIOUS
<1>. HIDE DEF p, q
<1>8. p = q
  <2>1. Len(p) = Len(q) /\ \A i \in 1..Len(p) : p[i] = q[i]
    BY <1>5, <1>7
  <2>. QED BY <1>6, <1>7, <2>1, SeqEqual
<1>. QED BY <1>8 DEF p, q, s

\* ... and text without one in front joins the first.
LEMMA SplitPrepended ==
    ASSUME NEW S, NEW t, NEW a \in Seq(S \ {t}), NEW s \in Seq(S)
    PROVE  JoinedFirst(Split(s, t), Split(a \o s, t), a)
<1>. DEFINE Joins(U, R) == /\ Len(U) = Len(R)
                           /\ U[1] = a \o R[1]
                           /\ \A j \in 2..Len(R) : U[j] = R[j]
            P == {q \in Seq(S) : Joins(Split(a \o q, t), Split(q, t))}
<1>0. a \in Seq(S)
  BY SeqMonotonic
<1>0a. \A q \in Seq(S) : JoinedLast(Split(q, t), Split(q \o a, t), a)
  BY SplitExtended
<1>1. <<>> \in P
  <2>. DEFINE e == <<>>  U == Split(a, t)  E == Split(e, t)  F == Split(e \o a, t)
  <2>1. <<>> \in Seq(S) /\ a \o <<>> = a /\ <<>> \o a = a
    BY ConcatEmptySeq, EmptySeq
  <2>2. E = << <<>> >>
    BY SplitEmpty
  <2>3. Len(F) = Len(E) /\ F[Len(E)] = E[Len(E)] \o a
    <3>1. e \in Seq(S)
      BY <2>1
    <3>. HIDE DEF e
    <3>. QED BY <1>0a, <3>1 DEF JoinedLast
  <2>4. Len(E) = 1 /\ E[1] = <<>>
    BY <2>2
  <2>5. Len(U) = 1 /\ U[1] = a
    BY <2>1, <2>3, <2>4
  <2>6. a \o E[1] = a
    BY <2>1, <2>4
  <2>. HIDE DEF U, E
  <2>7. Joins(U, E)
    BY <2>4, <2>5, <2>6
  <2>. HIDE DEF Joins
  <2>. QED BY <2>1, <2>7 DEF U, E
<1>2. ASSUME NEW q \in Seq(S), NEW x \in S, q \in P PROVE Append(q, x) \in P
  <2>. DEFINE p == a \o q
              V == Split(p, t)  W == Split(Append(p, x), t)
              T == Split(q, t)  Z == Split(Append(q, x), t)
  <2>1. Append(q, x) \in Seq(S) /\ p \in Seq(S) /\ a \o Append(q, x) = Append(p, x)
    BY <1>0, AppendConcat
  <2>2. Joins(V, T)
    BY <1>2
  <2>. HIDE DEF p
  <2>3. OneMore(V, W, x, t)
    BY <2>1, SplitStep
  <2>4. Len(T) \in Nat \ {0} /\ OneMore(T, Z, x, t)
    BY PieceFacts, SplitStep
  <2>5. T[1] \in Seq(S)
    BY <2>4, PieceFacts
  <2>. HIDE DEF V, W, T, Z
  <2>. USE DEF OneMore
  <2>6. a \o Append(T[1], x) = Append(a \o T[1], x)
    BY <1>0, <2>5, AppendConcat
  <2>. DEFINE b == a \o T[1]  d == a \o Append(T[1], x)  n == Len(T)
  <2>7. /\ V[1] = b /\ Len(V) = n /\ d = Append(b, x)
        /\ \A j \in 2..n : V[j] = T[j]
    BY <2>2, <2>6
  <2>8. Len(W) = Len(Z) /\ \A j \in 2..Len(Z) : W[j] = Z[j]
    <3>. HIDE DEF b, d
    <3>1. Len(W) = Len(Z) /\ (Len(Z) = n \/ (x = t /\ Len(Z) = n + 1)) /\ n \in Nat \ {0}
      BY <2>3, <2>4, <2>7
    <3>2. ASSUME NEW j \in 2..Len(Z) PROVE W[j] = Z[j]
      <4>1. CASE j = n + 1
        BY <2>3, <2>4, <2>7, <3>1, <4>1
      <4>2. CASE j = n /\ x # t
        BY <2>3, <2>4, <2>7, <3>1, <4>2
      <4>3. CASE j < n \/ (j = n /\ x = t)
        <5>1. j \in 1..n /\ j \in 2..n /\ (x # t => j \in 1..(n - 1))
          BY <3>1, <4>3
        <5>2. W[j] = V[j] /\ Z[j] = T[j]
          BY <2>3, <2>4, <2>7, <5>1
        <5>. QED BY <2>7, <5>1, <5>2
      <4>. QED BY <3>1, <4>1, <4>2, <4>3
    <3>. QED BY <3>1, <3>2
  <2>9. W[1] = a \o Z[1]
    <3>1. CASE x # t /\ n = 1
      <4>1. W[1] = Append(b, x) /\ Z[1] = Append(T[1], x)
        <5>. HIDE DEF b, d
        <5>. QED BY <2>3, <2>4, <2>7, <3>1
      <4>. QED BY <2>7, <4>1
    <3>2. CASE x = t \/ n # 1
      <4>1. W[1] = V[1] /\ Z[1] = T[1]
        <5>. HIDE DEF b, d
        <5>. QED BY <2>3, <2>4, <2>7, <3>2
      <4>. QED BY <2>7, <4>1
    <3>. QED BY <3>1, <3>2
  <2>10. Joins(W, Z)
    BY <2>8, <2>9
  <2>. HIDE DEF Joins
  <2>. QED BY <2>1, <2>10 DEF W, Z
<1>3. Seq(S) \subseteq P
  <2>. HIDE DEF P
  <2>. QED BY <1>1, <1>2, SequenceInduction
<1>4. Joins(Split(a \o s, t), Split(s, t))
  BY <1>3
<1>. QED BY <1>4 DEF JoinedFirst

-----------------------------------------------------------------------------
(* FlattenSeq. *)

\* The recursive function in FlattenSeq exists and satisfies its equations.
LEMMA FlattenRecursion ==
    ASSUME NEW s, Len(s) \in Nat \ {0}
    PROVE  \E f : /\ f[1] = s[1]
                  /\ \A n \in 2..Len(s) : f[n] = f[n - 1] \o s[n]
                  /\ FlattenSeq(s) = f[Len(s)]
<1>. DEFINE Def(f, N) == [i \in 1..N |-> IF i = 1 THEN s[i] ELSE f[i - 1] \o s[i]]
<1>. DEFINE P == {N \in Nat : \E f : f = Def(f, N)}
<1>1. 0 \in P
  <2>1. [i \in 1..0 |-> s[i]] = Def([i \in 1..0 |-> s[i]], 0)
    OBVIOUS
  <2>. QED BY <2>1
<1>2. ASSUME NEW N \in Nat, N \in P PROVE N + 1 \in P
  <2>1. PICK f : f = Def(f, N)
    BY <1>2
  <2>. DEFINE g == [i \in 1..(N + 1) |->
                      IF i <= N THEN f[i] ELSE IF i = 1 THEN s[i] ELSE f[N] \o s[i]]
  <2>2. g = Def(g, N + 1)
    <3>1. \A n \in 1..N : f[n] = Def(f, N)[n]
      BY <2>1
    <3>2. \A n \in 1..(N + 1) : g[n] = Def(g, N + 1)[n]
      BY <3>1
    <3>. QED BY <3>2
  <2>. HIDE DEF g, Def
  <2>. QED BY <2>2
<1>3. Nat \subseteq P
  <2>. HIDE DEF P
  <2>. QED BY <1>1, <1>2, Induction
<1>4. \E f : f = Def(f, Len(s))
  BY <1>3
<1>5. FlattenSeq(s) = (CHOOSE f : f = Def(f, Len(s)))[Len(s)]
  BY DEF FlattenSeq
<1>6. PICK f : f = Def(f, Len(s)) /\ f = CHOOSE h : h = Def(h, Len(s))
  BY <1>4
<1>7. \A n \in 1..Len(s) : f[n] = IF n = 1 THEN s[n] ELSE f[n - 1] \o s[n]
  <2>1. \A n \in 1..Len(s) : f[n] = Def(f, Len(s))[n]
    BY <1>6
  <2>. QED BY <2>1
<1>. HIDE DEF Def
<1>8. f[1] = s[1] /\ \A n \in 2..Len(s) : f[n] = f[n - 1] \o s[n]
  <2>1. 1 \in 1..Len(s) /\ \A n \in 2..Len(s) : n \in 1..Len(s) /\ n # 1
    OBVIOUS
  <2>. QED BY <1>7, <2>1
<1>9. FlattenSeq(s) = f[Len(s)]
  BY <1>5, <1>6
<1>. QED BY <1>8, <1>9

\* FlattenSeq, for nothing ...
LEMMA FlattenEmpty == FlattenSeq(<<>>) = <<>>
BY DEF FlattenSeq

\* ... and for one more segment.
LEMMA FlattenAppend ==
    ASSUME NEW S, NEW r \in Seq(Seq(S)), NEW x \in Seq(S)
    PROVE  FlattenSeq(Append(r, x)) = FlattenSeq(r) \o x
<1>. DEFINE q == Append(r, x)
<1>1. /\ Len(r) \in Nat /\ Len(q) \in Nat \ {0} /\ Len(q) = Len(r) + 1
      /\ \A n \in 1..Len(r) : q[n] = r[n]
      /\ q[Len(q)] = x
  BY AppendProperties, LenProperties
<1>. HIDE DEF q
<1>2. PICK g : /\ g[1] = q[1]
               /\ \A n \in 2..Len(q) : g[n] = g[n - 1] \o q[n]
               /\ FlattenSeq(q) = g[Len(q)]
  BY <1>1, FlattenRecursion
<1>3. CASE Len(r) = 0
  <2>1. r = <<>>
    BY <1>3, EmptySeq
  <2>2. <<>> \o x = x
    BY ConcatEmptySeq
  <2>. QED BY <1>1, <1>2, <1>3, <2>1, <2>2, FlattenEmpty DEF q
<1>4. CASE Len(r) # 0
  <2>1. PICK f : /\ f[1] = r[1]
                 /\ \A n \in 2..Len(r) : f[n] = f[n - 1] \o r[n]
                 /\ FlattenSeq(r) = f[Len(r)]
    BY <1>1, <1>4, FlattenRecursion
  <2>. DEFINE P == {n \in Nat : 0 < n /\ n <= Len(r) => f[n] = g[n]}
  <2>2. 0 \in P
    OBVIOUS
  <2>3. ASSUME NEW n \in Nat, n \in P PROVE n + 1 \in P
    <3>. SUFFICES ASSUME n + 1 <= Len(r) PROVE f[n + 1] = g[n + 1]
      OBVIOUS
    <3>1. n + 1 \in 1..Len(r) /\ (n + 1) - 1 = n /\ q[n + 1] = r[n + 1]
      BY <1>1
    <3>2. CASE n = 0
      BY <1>2, <2>1, <3>1, <3>2
    <3>3. CASE n # 0
      <4>1. n + 1 \in 2..Len(r) /\ n + 1 \in 2..Len(q) /\ f[n] = g[n]
        BY <1>1, <2>3, <3>3
      <4>2. f[n + 1] = f[n] \o r[n + 1]
        BY <2>1, <3>1, <4>1
      <4>3. g[n + 1] = g[n] \o q[n + 1]
        BY <1>2, <3>1, <4>1
      <4>. QED BY <3>1, <4>1, <4>2, <4>3
    <3>. QED BY <3>2, <3>3
  <2>4. f[Len(r)] = g[Len(r)]
    <3>. HIDE DEF P
    <3>1. Nat \subseteq P
      BY <2>2, <2>3, Induction
    <3>. QED BY <1>1, <1>4, <3>1 DEF P
  <2>5. Len(q) \in 2..Len(q) /\ Len(q) - 1 = Len(r)
    BY <1>1, <1>4
  <2>6. g[Len(q)] = g[Len(r)] \o x
    BY <1>1, <1>2, <2>5
  <2>. QED BY <1>2, <2>1, <2>4, <2>6 DEF q
<1>. QED BY <1>3, <1>4

\* The tokens of a text are those of its segments.
LEMMA FlattenType ==
    ASSUME NEW S, NEW r \in Seq(Seq(S))
    PROVE  FlattenSeq(r) \in Seq(S)
<1>. DEFINE P == {q \in Seq(Seq(S)) : FlattenSeq(q) \in Seq(S)}
<1>1. <<>> \in P
  BY FlattenEmpty, EmptySeq
<1>2. ASSUME NEW q \in Seq(Seq(S)), NEW x \in Seq(S), q \in P PROVE Append(q, x) \in P
  <2>1. Append(q, x) \in Seq(Seq(S))
    BY AppendProperties
  <2>2. FlattenSeq(Append(q, x)) = FlattenSeq(q) \o x
    BY FlattenAppend
  <2>3. FlattenSeq(q) \o x \in Seq(S)
    BY <1>2, ConcatProperties
  <2>. QED BY <2>1, <2>2, <2>3
<1>3. Seq(Seq(S)) \subseteq P
  <2>. HIDE DEF P
  <2>. QED BY <1>1, <1>2, SequenceInduction
<1>. QED BY <1>3

\* What has arrived of some segments is the beginning of their text.
LEMMA FlattenBeginning ==
    ASSUME NEW S, NEW r \in Seq(Seq(S)), NEW a \in Seq(Seq(S)), BeginsWith(Seq(S), r, a)
    PROVE  BeginsWith(S, FlattenSeq(r), FlattenSeq(a))
<1>. DEFINE P == {q \in Seq(Seq(S)) : BeginsWith(S, FlattenSeq(a \o q), FlattenSeq(a))}
<1>0. \A u, v, w \in Seq(S) : (u \o v) \o w = u \o (v \o w) /\ v \o w \in Seq(S)
  BY ConcatAssociative, ConcatProperties
<1>1. <<>> \in P
  <2>1. a \o <<>> = a /\ <<>> \in Seq(Seq(S)) /\ <<>> \in Seq(S) /\ FlattenSeq(a) \o <<>> = FlattenSeq(a)
    BY FlattenType, ConcatEmptySeq, EmptySeq
  <2>2. BeginsWith(S, FlattenSeq(a), FlattenSeq(a))
    BY <2>1, Zenon DEF BeginsWith
  <2>. QED BY <2>1, <2>2
<1>2. ASSUME NEW q \in Seq(Seq(S)), NEW x \in Seq(S), q \in P PROVE Append(q, x) \in P
  <2>1. /\ Append(q, x) \in Seq(Seq(S)) /\ a \o q \in Seq(Seq(S))
        /\ a \o Append(q, x) = Append(a \o q, x)
    BY AppendConcat
  <2>2. FlattenSeq(Append(a \o q, x)) = FlattenSeq(a \o q) \o x
    BY <2>1, FlattenAppend
  <2>3. PICK v \in Seq(S) : FlattenSeq(a \o q) = FlattenSeq(a) \o v
    BY <1>2 DEF BeginsWith
  <2>4. FlattenSeq(a) \in Seq(S)
    BY FlattenType
  <2>5. v \o x \in Seq(S) /\ (FlattenSeq(a) \o v) \o x = FlattenSeq(a) \o (v \o x)
    BY <1>0, <2>4, Zenon
  <2>6. FlattenSeq(a \o Append(q, x)) = FlattenSeq(a) \o (v \o x)
    BY <2>1, <2>2, <2>3, <2>5, Zenon
  <2>7. BeginsWith(S, FlattenSeq(a \o Append(q, x)), FlattenSeq(a))
    BY <2>5, <2>6, Zenon DEF BeginsWith
  <2>. QED BY <2>1, <2>7, Zenon
<1>3. Seq(Seq(S)) \subseteq P
  <2>. HIDE DEF P
  <2>. QED BY <1>1, <1>2, SequenceInduction
<1>4. PICK q \in Seq(Seq(S)) : r = a \o q
  BY DEF BeginsWith
<1>5. q \in P
  BY <1>3
<1>. QED BY <1>4, <1>5, Zenon

\* The pieces of a text hold everything but the separators.
LEMMA FlattenSplit ==
    ASSUME NEW S, NEW s \in Seq(S), NEW t
    PROVE  FlattenSeq(Split(s, t)) = Without(s, {t})
<1>. DEFINE P == {r \in Seq(S) : FlattenSeq(Split(r, t)) = Without(r, {t})}
<1>1. <<>> \in P
  <2>1. <<>> \in Seq(Seq(S)) /\ <<>> \in Seq(S) /\ << <<>> >> = Append(<<>>, <<>>)
    BY EmptySeq
  <2>2. FlattenSeq(<< <<>> >>) = <<>> \o <<>>
    BY <2>1, FlattenEmpty, FlattenAppend
  <2>3. <<>> \o <<>> = <<>>
    BY <2>1, ConcatEmptySeq
  <2>. QED BY <2>1, <2>2, <2>3, SplitEmpty, WithoutEmpty
<1>2. ASSUME NEW r \in Seq(S), NEW x \in S, r \in P PROVE Append(r, x) \in P
  <2>. DEFINE R == Split(r, t)
  <2>1. Append(r, x) \in Seq(S) /\ FlattenSeq(R) = Without(r, {t})
    BY <1>2, AppendProperties
  <2>2. R \in Seq(Seq(S)) /\ R # <<>>
    <3>1. R \in Seq(Seq(S \ {t})) \ {<<>>}
      BY SplitType
    <3>2. Seq(S \ {t}) \subseteq Seq(S)
      BY SeqMonotonic
    <3>. QED BY <3>1, <3>2, SeqMonotonic
  <2>3. Split(Append(r, x), t) = IF x = t THEN Append(R, <<>>)
                                 ELSE Append(Front(R), Append(Last(R), x))
    BY SplitAppend
  <2>4. Without(Append(r, x), {t}) = IF x \in {t} THEN Without(r, {t})
                                     ELSE Append(Without(r, {t}), x)
    BY WithoutAppend
  <2>. HIDE DEF R
  <2>5. CASE x = t
    <3>1. <<>> \in Seq(S)
      BY EmptySeq
    <3>2. FlattenSeq(Append(R, <<>>)) = FlattenSeq(R) \o <<>>
      BY <2>2, <3>1, FlattenAppend
    <3>3. FlattenSeq(R) \o <<>> = FlattenSeq(R)
      BY <2>2, FlattenType, ConcatEmptySeq
    <3>. QED BY <2>1, <2>3, <2>4, <2>5, <3>2, <3>3
  <2>6. CASE x # t
    <3>. DEFINE F == Front(R)  l == Last(R)
    <3>1. F \in Seq(Seq(S)) /\ l \in Seq(S) /\ R = Append(F, l)
      BY <2>2, FrontLast
    <3>. HIDE DEF F, l
    <3>2. Append(l, x) \in Seq(S)
      BY <3>1, AppendProperties
    <3>3. FlattenSeq(Append(F, Append(l, x))) = FlattenSeq(F) \o Append(l, x)
      BY <3>1, <3>2, FlattenAppend
    <3>4. FlattenSeq(R) = FlattenSeq(F) \o l
      BY <3>1, FlattenAppend
    <3>5. FlattenSeq(F) \in Seq(S)
      BY <3>1, FlattenType
    <3>6. FlattenSeq(F) \o Append(l, x) = Append(FlattenSeq(F) \o l, x)
      BY <3>1, <3>5
    <3>7. FlattenSeq(Append(F, Append(l, x))) = Append(Without(r, {t}), x)
      BY <2>1, <3>3, <3>4, <3>6
    <3>8. Split(Append(r, x), t) = Append(F, Append(l, x))
      BY <2>3, <2>6 DEF F, l
    <3>. QED BY <2>1, <2>4, <2>6, <3>7, <3>8
  <2>. QED BY <2>5, <2>6
<1>3. Seq(S) \subseteq P
  <2>. HIDE DEF P
  <2>. QED BY <1>1, <1>2, SequenceInduction
<1>. QED BY <1>3

\* Empty pieces hold nothing.
LEMMA FlattenWithoutEmpty ==
    ASSUME NEW S, NEW r \in Seq(Seq(S))
    PROVE  FlattenSeq(Without(r, {<<>>})) = FlattenSeq(r)
<1>. DEFINE P == {q \in Seq(Seq(S)) : FlattenSeq(Without(q, {<<>>})) = FlattenSeq(q)}
<1>1. <<>> \in P
  BY WithoutEmpty, EmptySeq
<1>2. ASSUME NEW q \in Seq(Seq(S)), NEW x \in Seq(S), q \in P PROVE Append(q, x) \in P
  <2>. DEFINE w == Without(q, {<<>>})
  <2>1. Append(q, x) \in Seq(Seq(S))
    BY AppendProperties
  <2>2. FlattenSeq(Append(q, x)) = FlattenSeq(q) \o x
    BY FlattenAppend
  <2>3. w \in Seq(Seq(S))
    BY WithoutType
  <2>4. Without(Append(q, x), {<<>>}) = IF x \in {<<>>} THEN w ELSE Append(w, x)
    BY WithoutAppend
  <2>5. FlattenSeq(w) = FlattenSeq(q)
    BY <1>2
  <2>. HIDE DEF w
  <2>6. FlattenSeq(Append(w, x)) = FlattenSeq(w) \o x
    BY <2>3, FlattenAppend
  <2>7. FlattenSeq(q) \o <<>> = FlattenSeq(q)
    BY FlattenType, ConcatEmptySeq
  <2>8. FlattenSeq(Without(Append(q, x), {<<>>})) = FlattenSeq(Append(q, x))
    BY <2>2, <2>4, <2>5, <2>6, <2>7
  <2>. QED BY <2>1, <2>8
<1>3. Seq(Seq(S)) \subseteq P
  <2>. HIDE DEF P
  <2>. QED BY <1>1, <1>2, SequenceInduction
<1>. QED BY <1>3

\* What is the same for each piece is the same for all of them together.
LEMMA WithoutPieces ==
    ASSUME NEW S, NEW A, NEW B
    PROVE  \A e, f \in Seq(Seq(S)) :
              /\ Len(e) = Len(f)
              /\ \A k \in 1..Len(e) : Without(e[k], A) = Without(f[k], B)
              => Without(FlattenSeq(e), A) = Without(FlattenSeq(f), B)
<1>. DEFINE P == {e \in Seq(Seq(S)) : \A f \in Seq(Seq(S)) :
                    /\ Len(e) = Len(f)
                    /\ \A k \in 1..Len(e) : Without(e[k], A) = Without(f[k], B)
                    => Without(FlattenSeq(e), A) = Without(FlattenSeq(f), B)}
<1>0. \A u, v \in Seq(S) :
         /\ Without(u \o v, A) = Without(u, A) \o Without(v, A)
         /\ Without(u \o v, B) = Without(u, B) \o Without(v, B)
  BY WithoutConcat
<1>1. <<>> \in P
  <2>1. \A f \in Seq(Seq(S)) : Len(<<>>) = Len(f) => f = <<>>
    BY EmptySeq
  <2>. QED BY <2>1, FlattenEmpty, WithoutEmpty, EmptySeq
<1>2. ASSUME NEW e \in Seq(Seq(S)), NEW x \in Seq(S), e \in P PROVE Append(e, x) \in P
  <2>1. /\ Append(e, x) \in Seq(Seq(S))
        /\ Len(e) \in Nat /\ Len(Append(e, x)) = Len(e) + 1
        /\ Append(e, x)[Len(e) + 1] = x
        /\ \A k \in 1..Len(e) : Append(e, x)[k] = e[k]
    BY AppendProperties, LenProperties
  <2>0. SUFFICES ASSUME NEW f \in Seq(Seq(S)), Len(Append(e, x)) = Len(f),
                       \A k \in 1..Len(Append(e, x)) :
                          Without(Append(e, x)[k], A) = Without(f[k], B)
                PROVE  Without(FlattenSeq(Append(e, x)), A) = Without(FlattenSeq(f), B)
    BY <2>1
  <2>2. Len(f) = Len(e) + 1 /\ f # <<>>
    <3>1. Len(f) = Len(e) + 1
      BY <2>0, <2>1
    <3>. QED BY <2>1, <3>1
  <2>. DEFINE g == Front(f)  y == Last(f)
  <2>3. /\ g \in Seq(Seq(S)) /\ y \in Seq(S) /\ f = Append(g, y)
        /\ Len(g) = Len(e) /\ y = f[Len(e) + 1]
        /\ \A k \in 1..Len(e) : g[k] = f[k]
    <3>1. Len(f) - 1 = Len(e)
      BY <2>1, <2>2
    <3>2. y = f[Len(f)]
      BY DEF Last
    <3>3. /\ g \in Seq(Seq(S)) /\ y \in Seq(S)
          /\ f = Append(g, y)
          /\ Len(g) = Len(f) - 1
          /\ \A k \in 1..(Len(f) - 1) : g[k] = f[k]
      BY <2>2, FrontLast
    <3>. QED BY <2>2, <3>1, <3>2, <3>3
  <2>. HIDE DEF g, y
  <2>4. \A k \in 1..Len(e) : Without(e[k], A) = Without(g[k], B)
    <3>. TAKE k \in 1..Len(e)
    <3>1. k \in 1..Len(Append(e, x))
      BY <2>1
    <3>. QED BY <2>0, <2>1, <2>3, <3>1
  <2>5. Without(FlattenSeq(e), A) = Without(FlattenSeq(g), B)
    BY <1>2, <2>3, <2>4
  <2>6. Without(x, A) = Without(y, B)
    <3>1. Len(e) + 1 \in 1..Len(Append(e, x))
      BY <2>1
    <3>. QED BY <2>0, <2>1, <2>3, <3>1
  <2>7. FlattenSeq(Append(e, x)) = FlattenSeq(e) \o x /\ FlattenSeq(f) = FlattenSeq(g) \o y
    BY <2>3, FlattenAppend
  <2>. DEFINE u == FlattenSeq(e)  v == FlattenSeq(g)
  <2>8. u \in Seq(S) /\ v \in Seq(S) /\ y \in Seq(S)
    BY <2>3, FlattenType
  <2>. HIDE DEF u, v
  <2>9. /\ Without(u \o x, A) = Without(u, A) \o Without(x, A)
        /\ Without(v \o y, B) = Without(v, B) \o Without(y, B)
    BY <1>0, <2>8
  <2>. QED BY <2>5, <2>6, <2>7, <2>9 DEF u, v
<1>3. Seq(Seq(S)) \subseteq P
  <2>. HIDE DEF P
  <2>. QED BY <1>1, <1>2, SequenceInduction
<1>. QED BY <1>3

\* The first pieces, together, are the beginning of all of them together.
LEMMA FlattenPrefix ==
    ASSUME NEW S, NEW r \in Seq(Seq(S)), NEW n \in 0..Len(r)
    PROVE  /\ FlattenSeq(SubSeq(r, 1, n)) \in Seq(S)
           /\ \E rest \in Seq(S) : FlattenSeq(r) = FlattenSeq(SubSeq(r, 1, n)) \o rest
<1>. DEFINE P == {q \in Seq(Seq(S)) : \A k \in 0..Len(q) :
                    \E rest \in Seq(S) : FlattenSeq(q) = FlattenSeq(SubSeq(q, 1, k)) \o rest}
<1>0. ASSUME NEW q \in Seq(Seq(S))
      PROVE  \E rest \in Seq(S) : FlattenSeq(q) = FlattenSeq(SubSeq(q, 1, Len(q))) \o rest
  <2>1. FlattenSeq(q) = FlattenSeq(q) \o <<>> /\ <<>> \in Seq(S)
    BY FlattenType, ConcatEmptySeq, EmptySeq
  <2>. QED BY <2>1, SubSeqFull
<1>1. <<>> \in P
  <2>1. <<>> \in Seq(Seq(S)) /\ Len(<<>>) = 0 /\ 0..0 = {0}
    BY EmptySeq
  <2>. QED BY <1>0, <2>1
<1>2. ASSUME NEW q \in Seq(Seq(S)), NEW x \in Seq(S), q \in P PROVE Append(q, x) \in P
  <2>. DEFINE p == Append(q, x)
  <2>1. /\ p \in Seq(Seq(S)) /\ Len(q) \in Nat /\ Len(p) = Len(q) + 1
        /\ \A k \in 1..Len(q) : p[k] = q[k]
    BY AppendProperties, LenProperties
  <2>2. FlattenSeq(p) = FlattenSeq(q) \o x
    BY FlattenAppend
  <2>. HIDE DEF p
  <2>3. ASSUME NEW k \in 0..Len(q)
        PROVE  \E rest \in Seq(S) : FlattenSeq(p) = FlattenSeq(SubSeq(p, 1, k)) \o rest
    <3>1. PICK rest \in Seq(S) : FlattenSeq(q) = FlattenSeq(SubSeq(q, 1, k)) \o rest
      BY <1>2, <2>3
    <3>2. SubSeq(q, 1, k) \in Seq(Seq(S)) /\ SubSeq(p, 1, k) = SubSeq(q, 1, k)
      <4>1. k \in Nat /\ \A i \in 1..k : i \in 1..Len(q)
        BY <2>1
      <4>2. /\ SubSeq(q, 1, k) = [i \in 1..k |-> q[i]]
            /\ SubSeq(p, 1, k) = [i \in 1..k |-> p[i]]
        BY <4>1
      <4>3. \A i \in 1..k : q[i] \in Seq(S)
        BY <4>1, ElementOfSeq
      <4>. QED BY <2>1, <4>1, <4>2, <4>3
    <3>3. FlattenSeq(SubSeq(q, 1, k)) \in Seq(S)
      BY <3>2, FlattenType
    <3>. DEFINE a == FlattenSeq(SubSeq(q, 1, k))
    <3>. HIDE DEF a
    <3>4. a \in Seq(S)
      BY <3>3 DEF a
    <3>5. FlattenSeq(p) = a \o (rest \o x)
      <4>1. (a \o rest) \o x = a \o (rest \o x)
        BY <3>4, ConcatAssociative
      <4>2. FlattenSeq(q) = a \o rest
        BY <3>1 DEF a
      <4>. QED BY <2>2, <4>1, <4>2
    <3>6. rest \o x \in Seq(S)
      BY ConcatProperties
    <3>. QED BY <3>2, <3>5, <3>6 DEF a
  <2>4. \A k \in 0..Len(p) : k \in 0..Len(q) \/ k = Len(p)
    BY <2>1
  <2>5. \E rest \in Seq(S) : FlattenSeq(p) = FlattenSeq(SubSeq(p, 1, Len(p))) \o rest
    BY <1>0, <2>1
  <2>6. p \in P
    BY <2>1, <2>3, <2>4, <2>5
  <2>. QED BY <2>6 DEF p
<1>3. Seq(Seq(S)) \subseteq P
  <2>. HIDE DEF P
  <2>. QED BY <1>1, <1>2, SequenceInduction
<1>4. r \in P
  BY <1>3
<1>5. SubSeq(r, 1, n) \in Seq(Seq(S))
  BY LenProperties
<1>. QED BY <1>4, <1>5, FlattenType

-----------------------------------------------------------------------------
(* Trim. *)

\* No space at either end.
Trimmed(q) == q = <<>> \/ (q[1] # Space /\ q[Len(q)] # Space)

\* Trim takes spaces from both ends and leaves none there.
LEMMA TrimParts ==
    ASSUME NEW S, NEW s \in Seq(S)
    PROVE  /\ Trim(s) \in Seq(S) /\ Trimmed(Trim(s))
           /\ \E a, b \in Seq(S \cap {Space}) : s = a \o (Trim(s) \o b)
<1>. DEFINE n == Len(s)  I == {i \in DOMAIN s : s[i] # Space}
<1>1. n \in Nat /\ DOMAIN s = 1..n /\ \A i \in 1..n : s[i] \in S
  BY LenProperties, ElementOfSeq
<1>2. CASE I = {}
  <2>1. Trim(s) = <<>>
    BY <1>2 DEF Trim
  <2>2. \A i \in 1..n : s[i] \in S \cap {Space}
    BY <1>1, <1>2
  <2>3. s \in Seq(S \cap {Space})
    <3>1. s \in [1..n -> S \cap {Space}]
      BY <1>1, <2>2, LenProperties
    <3>. QED BY <1>1, <3>1
  <2>4. <<>> \in Seq(S \cap {Space}) /\ <<>> \in Seq(S) /\ <<>> \o <<>> = <<>> /\ s \o <<>> = s
    BY EmptySeq, ConcatEmptySeq
  <2>. QED BY <2>1, <2>3, <2>4 DEF Trimmed
<1>3. CASE I # {}
  <2>. DEFINE lo == Min(I)  hi == Max(I)  q == SubSeq(s, lo, hi)
              a == SubSeq(s, 1, lo - 1)  b == SubSeq(s, hi + 1, n)
  <2>1. lo \in I /\ hi \in I /\ \A i \in I : lo <= i /\ i <= hi
    <3>1. I \in SUBSET (1..Len(s))
      BY <1>1
    <3>. HIDE DEF I
    <3>. QED BY <1>3, <3>1, FirstAndLast
  <2>2. Trim(s) = q
    BY <1>3 DEF Trim
  <2>. HIDE DEF lo, hi
  <2>3. /\ lo \in 1..n /\ hi \in 1..n /\ lo <= hi
        /\ s[lo] # Space /\ s[hi] # Space
        /\ \A i \in 1..n : i < lo \/ hi < i => s[i] = Space
    BY <1>1, <2>1
  <2>. HIDE DEF I, n
  <2>10. lo \in Int /\ hi \in Int /\ n \in Int
    BY <1>1, <2>3
  <2>4. /\ q = [i \in 1..(hi - lo + 1) |-> s[lo + i - 1]]
        /\ a = [i \in 1..(lo - 1) |-> s[i]]
        /\ b = [i \in 1..(n - hi) |-> s[hi + i]]
    <3>1. q = [i \in 1..(hi - lo + 1) |-> s[lo + i - 1]]
      BY <1>1, <2>3
    <3>2. a = [i \in 1..(lo - 1) |-> s[i]]
      BY <1>1, <2>3
    <3>3. b = [i \in 1..(n - hi) |-> s[hi + i]]
      BY <1>1, <2>3
    <3>. QED BY <3>1, <3>2, <3>3
  <2>. HIDE DEF q, a, b
  <2>5. q \in Seq(S) /\ Len(q) = hi - lo + 1
    <3>1. hi - lo + 1 \in Nat /\ \A i \in 1..(hi - lo + 1) : s[lo + i - 1] \in S
      BY <1>1, <2>3
    <3>. QED BY <2>4, <3>1
  <2>6. a \in Seq(S \cap {Space}) /\ Len(a) = lo - 1
    <3>1. lo - 1 \in Nat /\ \A i \in 1..(lo - 1) : s[i] \in S \cap {Space}
      BY <1>1, <2>3
    <3>. QED BY <2>4, <3>1
  <2>7. b \in Seq(S \cap {Space}) /\ Len(b) = n - hi
    <3>1. n - hi \in Nat /\ \A i \in 1..(n - hi) : s[hi + i] \in S \cap {Space}
      BY <1>1, <2>3
    <3>. QED BY <2>4, <3>1
  <2>8. Trimmed(q)
    <3>1. q[1] = s[lo] /\ q[Len(q)] = s[hi]
      BY <1>1, <2>3, <2>4, <2>5
    <3>. QED BY <2>3, <3>1 DEF Trimmed
  <2>9. s = a \o (q \o b)
    <3>1. a \in Seq(S) /\ b \in Seq(S)
      BY <2>6, <2>7, SeqMonotonic
    <3>2. /\ q \o b \in Seq(S) /\ Len(q \o b) = n - lo + 1
          /\ \A i \in 1..(n - lo + 1) :
               (q \o b)[i] = IF i <= Len(q) THEN q[i] ELSE b[i - Len(q)]
      <4>1. /\ q \o b \in Seq(S) /\ Len(q \o b) = Len(q) + Len(b)
            /\ \A i \in 1..(Len(q) + Len(b)) :
                 (q \o b)[i] = IF i <= Len(q) THEN q[i] ELSE b[i - Len(q)]
        BY <2>5, <3>1, ConcatProperties
      <4>2. Len(q) + Len(b) = n - lo + 1
        BY <1>1, <2>3, <2>5, <2>7
      <4>. QED BY <4>1, <4>2
    <3>. DEFINE c == q \o b
    <3>3. \A i \in 1..(n - lo + 1) : c[i] = s[lo + i - 1]
      <4>. TAKE i \in 1..(n - lo + 1)
      <4>1. CASE i <= hi - lo + 1
        BY <1>1, <2>3, <2>4, <2>5, <3>2, <4>1
      <4>2. CASE i > hi - lo + 1
        <5>1. i - (hi - lo + 1) \in 1..(n - hi) /\ hi + (i - (hi - lo + 1)) = lo + i - 1
          BY <1>1, <2>3, <4>2
        <5>2. c[i] = b[i - (hi - lo + 1)]
          BY <1>1, <2>3, <2>5, <3>2, <4>2
        <5>. QED BY <2>4, <5>1, <5>2
      <4>3. i <= hi - lo + 1 \/ i > hi - lo + 1
        BY <2>10
      <4>. QED BY <4>1, <4>2, <4>3
    <3>4. c \in Seq(S) /\ Len(c) = n - lo + 1
      BY <3>2
    <3>. HIDE DEF c
    <3>5. /\ a \o c \in Seq(S) /\ Len(a \o c) = Len(a) + Len(c)
          /\ \A i \in 1..(Len(a) + Len(c)) : (a \o c)[i] = IF i <= Len(a) THEN a[i] ELSE c[i - Len(a)]
      BY <3>1, <3>4, ConcatProperties
    <3>6. Len(a) + Len(c) = n
      BY <1>1, <2>3, <2>6, <3>4
    <3>7. \A i \in 1..n : s[i] = (a \o c)[i]
      <4>. TAKE i \in 1..n
      <4>1. CASE i <= lo - 1
        BY <1>1, <2>3, <2>4, <2>6, <3>5, <3>6, <4>1
      <4>2. CASE i > lo - 1
        <5>1. i - (lo - 1) \in 1..(n - lo + 1) /\ lo + (i - (lo - 1)) - 1 = i
          BY <1>1, <2>3, <4>2
        <5>2. (a \o c)[i] = c[i - (lo - 1)]
          BY <1>1, <2>3, <2>6, <3>5, <3>6, <4>2
        <5>. QED BY <3>3, <5>1, <5>2
      <4>3. i <= lo - 1 \/ i > lo - 1
        BY <2>10
      <4>. QED BY <4>1, <4>2, <4>3
    <3>8. s = a \o c
      <4>. DEFINE d == a \o c
      <4>1. d \in Seq(S) /\ Len(s) = Len(d) /\ \A i \in 1..Len(s) : s[i] = d[i]
        BY <3>5, <3>6, <3>7 DEF n
      <4>. HIDE DEF d
      <4>2. s = d
        BY <4>1, SeqEqual
      <4>. QED BY <4>2 DEF d
    <3>. QED BY <3>8 DEF c
  <2>. QED BY <2>2, <2>5, <2>6, <2>7, <2>8, <2>9
<1>. QED BY <1>2, <1>3

\* Trim takes away exactly the spaces around.
LEMMA TrimIs ==
    ASSUME NEW S, NEW q \in Seq(S), Trimmed(q),
           NEW a \in Seq(S \cap {Space}), NEW b \in Seq(S \cap {Space})
    PROVE  Trim(a \o (q \o b)) = q
<1>. DEFINE c == q \o b  s == a \o c  k == Len(a)  m == Len(q)  l == Len(b)
            I == {i \in DOMAIN s : s[i] # Space}
<1>1. a \in Seq(S) /\ b \in Seq(S) /\ k \in Nat /\ m \in Nat /\ l \in Nat
  BY SeqMonotonic, LenProperties
<1>2. \A i \in 1..k : a[i] = Space
  <2>1. \A i \in 1..Len(a) : a[i] \in S \cap {Space}
    BY ElementOfSeq
  <2>. QED BY <2>1
<1>3. \A i \in 1..l : b[i] = Space
  <2>1. \A i \in 1..Len(b) : b[i] \in S \cap {Space}
    BY ElementOfSeq
  <2>. QED BY <2>1
<1>4. /\ c \in Seq(S) /\ Len(c) = m + l
      /\ \A i \in 1..(m + l) : c[i] = IF i <= m THEN q[i] ELSE b[i - m]
  BY <1>1, ConcatProperties
<1>. HIDE DEF c
<1>5. /\ s \in Seq(S) /\ Len(s) = k + (m + l)
      /\ \A i \in 1..(k + (m + l)) : s[i] = IF i <= k THEN a[i] ELSE c[i - k]
  <2>1. c \in Seq(S)
    BY <1>4
  <2>2. /\ s \in Seq(S) /\ Len(s) = Len(a) + Len(c)
        /\ \A i \in 1..(Len(a) + Len(c)) : s[i] = IF i <= Len(a) THEN a[i] ELSE c[i - Len(a)]
    BY <1>1, <2>1, ConcatProperties
  <2>. QED BY <1>4, <2>2
<1>. HIDE DEF s, k, m, l
<1>6. DOMAIN s = 1..(k + (m + l))
  BY <1>5, LenProperties
<1>7. \A i \in 1..(k + (m + l)) :
         s[i] = IF i <= k THEN Space ELSE IF i <= k + m THEN q[i - k] ELSE Space
  <2>. TAKE i \in 1..(k + (m + l))
  <2>1. CASE i <= k
    BY <1>1, <1>2, <1>5, <2>1
  <2>2. CASE k < i /\ i <= k + m
    <3>1. i - k \in 1..(m + l) /\ i - k <= m /\ ~(i <= k)
      BY <1>1, <2>2
    <3>. QED BY <1>1, <1>4, <1>5, <2>2, <3>1
  <2>3. CASE k + m < i
    <3>1. i - k \in 1..(m + l) /\ ~(i - k <= m) /\ (i - k) - m \in 1..l /\ ~(i <= k)
      BY <1>1, <2>3
    <3>. QED BY <1>1, <1>3, <1>4, <1>5, <2>3, <3>1
  <2>. QED BY <1>1, <2>1, <2>2, <2>3
<1>8. CASE q = <<>>
  <2>1. m = 0
    BY <1>8 DEF m
  <2>2. I = {}
    BY <1>1, <1>6, <1>7, <2>1
  <2>. QED BY <1>8, <2>2 DEF Trim, s, c
<1>9. CASE q # <<>>
  <2>1. m \in Nat \ {0} /\ q[1] # Space /\ q[m] # Space
    BY <1>9, EmptySeq DEF Trimmed, m
  <2>2. k + 1 \in I /\ k + m \in I /\ \A i \in I : k + 1 <= i /\ i <= k + m
    <3>1. /\ k + 1 \in 1..(k + (m + l)) /\ ~(k + 1 <= k) /\ k + 1 <= k + m /\ (k + 1) - k = 1
          /\ k + m \in 1..(k + (m + l)) /\ ~(k + m <= k) /\ k + m <= k + m /\ (k + m) - k = m
      BY <1>1, <2>1
    <3>2. s[k + 1] = q[1] /\ s[k + m] = q[m]
      BY <1>7, <3>1
    <3>3. \A i \in 1..(k + (m + l)) : s[i] # Space => k + 1 <= i /\ i <= k + m
      BY <1>1, <1>7
    <3>. QED BY <1>6, <2>1, <3>1, <3>2, <3>3
  <2>3. I \in SUBSET (1..Len(s)) /\ I # {}
    BY <1>5, <1>6, <2>2
  <2>4. Trim(s) = SubSeq(s, Min(I), Max(I))
    BY <2>3 DEF Trim
  <2>5. Min(I) \in I /\ Max(I) \in I /\ \A i \in I : Min(I) <= i /\ i <= Max(I)
    <3>. HIDE DEF I
    <3>. QED BY <1>5, <2>3, FirstAndLast
  <2>6. Min(I) = k + 1 /\ Max(I) = k + m
    <3>1. \A i \in I : i \in Int
      BY <1>6
    <3>. HIDE DEF I
    <3>. QED BY <1>1, <2>2, <2>5, <3>1
  <2>7. SubSeq(s, k + 1, k + m) = q
    <3>1. \A i \in 1..m : k + i \in 1..(k + (m + l)) /\ ~(k + i <= k) /\ k + i <= k + m /\ (k + i) - k = i
      BY <1>1
    <3>2. \A i \in 1..m : s[k + i] = q[i]
      BY <1>7, <3>1
    <3>3. SubSeq(s, k + 1, k + m) = [i \in 1..m |-> s[k + i]]
      <4>1. SubSeq(s, k + 1, k + m) = [i \in 1..((k + m) - (k + 1) + 1) |-> s[(k + 1) + i - 1]]
        BY <1>1
      <4>2. (k + m) - (k + 1) + 1 = m /\ \A i \in 1..m : (k + 1) + i - 1 = k + i
        BY <1>1
      <4>. QED BY <4>1, <4>2
    <3>4. q = [i \in 1..m |-> q[i]]
      BY LenProperties DEF m
    <3>. QED BY <3>2, <3>3, <3>4
  <2>. QED BY <2>4, <2>6, <2>7 DEF s, c
<1>. QED BY <1>8, <1>9

\* Spaces around a text do not change what Trim leaves of it.
LEMMA TrimAround ==
    ASSUME NEW S, NEW q \in Seq(S),
           NEW a \in Seq(S \cap {Space}), NEW b \in Seq(S \cap {Space})
    PROVE  Trim(a \o (q \o b)) = Trim(q)
<1>. DEFINE W == S \cap {Space}  T == Trim(q)
<1>1. T \in Seq(S) /\ Trimmed(T)
  BY TrimParts
<1>2. PICK a2 \in Seq(W), b2 \in Seq(W) : q = a2 \o (T \o b2)
  BY TrimParts
<1>3. a \in Seq(W) /\ b \in Seq(W)
  OBVIOUS
<1>. HIDE DEF T
<1>4. \A u \in Seq(W) : u \in Seq(S)
  BY SeqMonotonic
<1>. HIDE DEF W
<1>5. a \o a2 \in Seq(W) /\ b2 \o b \in Seq(W)
  BY <1>2, <1>3, ConcatProperties
<1>6. a \o (q \o b) = (a \o a2) \o (T \o (b2 \o b))
  <2>1. /\ a \in Seq(S) /\ b \in Seq(S) /\ a2 \in Seq(S) /\ b2 \in Seq(S)
        /\ T \in Seq(S)
    BY <1>1, <1>2, <1>3, <1>4
  <2>2. Regroups(T, a, a2, b, b2)
    BY <2>1, Regrouped
  <2>. QED BY <1>2, <2>2 DEF Regroups
<1>7. Trim((a \o a2) \o (T \o (b2 \o b))) = T
  BY <1>1, <1>5, TrimIs DEF W
<1>. QED BY <1>6, <1>7 DEF T

\* Spaces that are taken out anyway may be trimmed before.
LEMMA WithoutTrim ==
    ASSUME NEW S, NEW s \in Seq(S), NEW tokens, Space \in tokens
    PROVE  Without(Trim(s), tokens) = Without(s, tokens)
<1>. DEFINE T == Trim(s)
<1>1. T \in Seq(S)
  BY TrimParts
<1>2. PICK a \in Seq(S \cap {Space}), b \in Seq(S \cap {Space}) : s = a \o (T \o b)
  BY TrimParts
<1>. HIDE DEF T
<1>3. a \in Seq(S) /\ b \in Seq(S)
  BY SeqMonotonic
<1>4. Without(a, tokens) = <<>> /\ Without(b, tokens) = <<>>
  <2>1. S \cap {Space} \subseteq tokens
    OBVIOUS
  <2>. QED BY <2>1, WithoutAll
<1>5. Without(T \o b, tokens) = Without(T, tokens) \o <<>>
  <2>1. Without(T \o b, tokens) = Without(T, tokens) \o Without(b, tokens)
    BY <1>1, <1>3, WithoutConcat
  <2>. QED BY <1>4, <2>1
<1>6. Without(s, tokens) = <<>> \o Without(T \o b, tokens)
  <2>. DEFINE c == T \o b
  <2>1. c \in Seq(S)
    BY <1>1, <1>3, ConcatProperties
  <2>. HIDE DEF c
  <2>2. Without(a \o c, tokens) = Without(a, tokens) \o Without(c, tokens)
    BY <1>3, <2>1, WithoutConcat
  <2>. QED BY <1>2, <1>4, <2>2 DEF c
<1>7. Without(T, tokens) \in Seq(S)
  BY <1>1, WithoutType
<1>8. Without(T, tokens) \o <<>> = Without(T, tokens) /\ <<>> \o Without(T, tokens) = Without(T, tokens)
  BY <1>7, ConcatEmptySeq
<1>. QED BY <1>5, <1>6, <1>8 DEF T

\* A list may be trimmed before it is split if its entries are trimmed after.
LEMMA SplitTrim ==
    ASSUME NEW S, NEW s \in Seq(S), NEW t, t # Space
    PROVE  /\ Len(Split(Trim(s), t)) = Len(Split(s, t))
           /\ \A k \in 1..Len(Split(s, t)) : Trim(Split(Trim(s), t)[k]) = Trim(Split(s, t)[k])
<1>. DEFINE W == S \cap {Space}  T == Trim(s)
<1>1. T \in Seq(S)
  BY TrimParts
<1>2. PICK a \in Seq(W), b \in Seq(W) : s = a \o (T \o b)
  BY TrimParts
<1>3. \A u \in Seq(W) : u \in Seq(S \ {t})
  <2>1. W \subseteq S \ {t}
    OBVIOUS
  <2>. HIDE DEF W
  <2>. QED BY <2>1, SeqMonotonic
<1>4. \A q \in Seq(S), u, v \in Seq(W) : Trim(u \o (q \o v)) = Trim(q)
  BY TrimAround
<1>5. /\ a \in Seq(S \ {t}) /\ b \in Seq(S \ {t}) /\ b \in Seq(S)
      /\ <<>> \in Seq(W) /\ \A q \in Seq(S) : q \o <<>> = q /\ <<>> \o q = q
  <2>1. \A u \in Seq(W) : u \in Seq(S)
    BY SeqMonotonic
  <2>. HIDE DEF W
  <2>2. \A q \in Seq(S) : q \o <<>> = q /\ <<>> \o q = q
    BY ConcatEmptySeq
  <2>. QED BY <1>3, <2>1, <2>2, EmptySeq
<1>. HIDE DEF W, T
<1>. DEFINE c == T \o b  R == Split(T, t)  U == Split(c, t)  V == Split(a \o c, t)  n == Len(R)
<1>6. c \in Seq(S)
  BY <1>1, <1>5, ConcatProperties
<1>7. JoinedLast(R, U, b)
  BY <1>1, <1>5, SplitExtended
<1>8. /\ n \in Nat \ {0} /\ \A j \in 1..n : R[j] \in Seq(S)
  BY <1>1, PieceFacts
<1>9. \A j \in 1..Len(U) : U[j] \in Seq(S)
  BY <1>6, PieceFacts
<1>. HIDE DEF c
<1>10. JoinedFirst(U, V, a)
  BY <1>5, <1>6, SplitPrepended
<1>. HIDE DEF R, U, V
<1>. USE DEF JoinedLast, JoinedFirst
<1>11. ASSUME NEW k \in 1..n PROVE Trim(U[k]) = Trim(R[k])
  <2>1. CASE k = n
    <3>1. R[n] \in Seq(S) /\ R[n] \o b \in Seq(S)
      BY <1>5, <1>8, ConcatProperties
    <3>2. <<>> \o (R[n] \o b) = R[n] \o b
      BY <1>5, <3>1
    <3>3. Trim(<<>> \o (R[n] \o b)) = Trim(R[n])
      BY <1>4, <1>5, <3>1
    <3>. QED BY <1>7, <2>1, <3>2, <3>3
  <2>2. CASE k # n
    <3>1. k \in 1..(n - 1)
      BY <1>8, <2>2
    <3>. QED BY <1>7, <3>1
  <2>. QED BY <2>1, <2>2
<1>12. ASSUME NEW k \in 1..n PROVE Trim(V[k]) = Trim(U[k])
  <2>1. CASE k = 1
    <3>1. 1 \in 1..Len(U)
      BY <1>7, <1>8
    <3>2. U[1] \in Seq(S)
      BY <1>9, <3>1
    <3>3. U[1] \o <<>> = U[1]
      BY <1>5, <3>2
    <3>4. Trim(a \o (U[1] \o <<>>)) = Trim(U[1])
      BY <1>4, <1>5, <3>2
    <3>. QED BY <1>10, <2>1, <3>3, <3>4
  <2>2. CASE k # 1
    <3>1. k \in 2..Len(U)
      BY <1>7, <1>8, <2>2
    <3>. QED BY <1>10, <3>1
  <2>. QED BY <2>1, <2>2
<1>13. Split(s, t) = V
  BY <1>2 DEF V, c
<1>. QED BY <1>7, <1>10, <1>11, <1>12, <1>13 DEF R, T
=============================================================================
