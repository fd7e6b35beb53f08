----------------------------- MODULE TextProofs -----------------------------
(***************************************************************************)
(* Keys as text, for any tokens: splitting gives back what was joined with *)
(* separators its parts do not contain, each branch of syncHandler reads   *)
(* what its handler wrote, and different locations have different names.   *)
(***************************************************************************)
EXTENDS KeyText, Integers, SequenceTheorems, WellFoundedInduction, TLAPS

------------------------------------------------------------------------------
(***************************************************************************)
(* Texts: what splitting makes of what was joined.                         *)
(***************************************************************************)
\* Induction, over a set in place of a predicate.
LEMMA Induction ==
    ASSUME NEW S, 0 \in S, \A n \in Nat : n \in S => n + 1 \in S
    PROVE  Nat \subseteq S
<1> DEFINE R == {p \in Nat \X Nat : p[1] < p[2]}
<1>1. IsWellFoundedOn(R, Nat)
  BY NatLessThanWellFounded DEF OpToRel
<1> SUFFICES ASSUME Nat \ S # {} PROVE FALSE
  OBVIOUS
<1>2. PICK x \in Nat \ S : \A y \in Nat \ S : ~(<<y, x>> \in R)
  <2> HIDE DEF R
  <2> QED BY <1>1, WFMin
<1>3. x # 0 /\ x - 1 \in Nat /\ x - 1 < x
  OBVIOUS
<1>4. <<x - 1, x>> \in R
  BY <1>3
<1>5. x - 1 \in S
  BY <1>2, <1>3, <1>4
<1> QED BY <1>3, <1>5

LEMMA MaxIsLast ==
    ASSUME NEW n \in Nat, NEW S \in SUBSET (1..n), n \in S
    PROVE  Max(S) = n
<1>1. \A x \in S : x \in Nat /\ n >= x
  OBVIOUS
<1>2. \A x \in S : (\A y \in S : x >= y) => x = n
  BY <1>1
<1> QED BY <1>1, <1>2 DEF Max

\* Split is a loop; its parts are texts, and there is always one.
ArePieces(sep, W, n, parts) == parts \in Seq(Seq(W)) /\ parts # <<>>
SplitLoop == INSTANCE FoldLemmas WITH Op <- SplitTurn, Last <- Max, Kept <- ArePieces

LEMMA SplitIsLoop ==
    ASSUME NEW text, NEW sep
    PROVE  Split(text, sep) = SplitLoop!Folded(sep, <<<<>>>>, text)
BY DEF Split, FoldLeft, MapThenFoldSet, SplitLoop!Folded

LEMMA ByTokens == SplitLoop!OneByOne
BY MaxIsLast, Induction DEF SplitLoop!OneByOne

LEMMA SplitMore ==
    ASSUME NEW sep, NEW T, NEW text \in Seq(T), NEW x \in T
    PROVE  Split(Append(text, x), sep) = SplitTurn(sep, Split(text, sep), x)
BY SplitIsLoop, ByTokens, SplitLoop!FoldMore

LEMMA SplitEmpty == ASSUME NEW sep PROVE Split(<<>>, sep) = <<<<>>>>
BY SplitIsLoop, ByTokens, SplitLoop!FoldNone

LEMMA SplitIsPieces ==
    ASSUME NEW sep, NEW W, NEW text \in Seq(W)
    PROVE  Split(text, sep) \in Seq(Seq(W)) /\ Split(text, sep) # <<>>
<1>1. ArePieces(sep, W, 0, <<<<>>>>)
  BY DEF ArePieces
<1>2. SplitLoop!EveryTurnKeeps(sep, W, text)
  <2> SUFFICES ASSUME NEW n \in 1..Len(text), NEW parts \in Seq(Seq(W)), parts # <<>>
               PROVE  SplitTurn(sep, parts, text[n]) \in Seq(Seq(W)) /\ SplitTurn(sep, parts, text[n]) # <<>>
    BY DEF SplitLoop!EveryTurnKeeps, ArePieces
  <2>1. text[n] \in W /\ Len(parts) \in 1..Len(parts) /\ Len(parts) \in Nat
    BY EmptySeq
  <2>2. <<>> \in Seq(W) /\ Append(parts[Len(parts)], text[n]) \in Seq(W)
    BY <2>1
  <2>3. CASE text[n] = sep
    BY <2>2, <2>3, AppendProperties DEF SplitTurn
  <2>4. CASE text[n] # sep
    <3> DEFINE new == [parts EXCEPT ![Len(parts)] = Append(parts[Len(parts)], text[n])]
    <3>1. new \in Seq(Seq(W)) /\ Len(new) = Len(parts)
      BY <2>1, <2>2, ExceptSeq
    <3>2. SplitTurn(sep, parts, text[n]) = new
      BY <2>4 DEF SplitTurn
    <3> HIDE DEF new
    <3> QED BY <3>1, <3>2, <2>1
  <2> QED BY <2>3, <2>4
<1>3. ArePieces(sep, W, Len(text), SplitLoop!Folded(sep, <<<<>>>>, text))
  BY <1>1, <1>2, ByTokens, SplitLoop!LoopRule
<1> QED BY <1>3, SplitIsLoop DEF ArePieces

\* Tokens that are no separators belong to the last part.
Grown(parts, p) == [parts EXCEPT ![Len(parts)] = parts[Len(parts)] \o p]

LEMMA SplitWord ==
    ASSUME NEW sep, NEW W, sep \notin W, NEW text \in Seq(W \cup {sep}), NEW p \in Seq(W)
    PROVE  Split(text \o p, sep) = Grown(Split(text, sep), p)
<1> DEFINE T == W \cup {sep}
           parts == Split(text, sep)
           m == Len(parts)
           Until(n) == [parts EXCEPT ![m] = parts[m] \o SubSeq(p, 1, n)]
           S == {n \in Nat : n <= Len(p) => Split(text \o SubSeq(p, 1, n), sep) = Until(n)}
<1>1. parts \in Seq(Seq(T)) /\ m \in Nat /\ m \in 1..m /\ parts[m] \in Seq(T) /\ DOMAIN parts = 1..m
  <2>1. parts \in Seq(Seq(T)) /\ parts # <<>>
    BY SplitIsPieces
  <2> HIDE DEF parts
  <2> QED BY <2>1, EmptySeq
<1> HIDE DEF parts
<1>2. \A n \in 0..Len(p) : SubSeq(p, 1, n) \in Seq(W)
  BY SubSeqProperties
<1>3. p \in Seq(T) /\ \A n \in 0..Len(p) : SubSeq(p, 1, n) \in Seq(T)
  BY <1>2, SeqMonotonic
<1>4. 0 \in S
  <2>1. SubSeq(p, 1, 0) = <<>>
    BY SubSeqEmpty
  <2>2. text \o <<>> = text /\ parts[m] \o <<>> = parts[m]
    BY <1>1, ConcatEmptySeq
  <2>3. [parts EXCEPT ![m] = parts[m]] = parts
    BY <1>1
  <2> QED BY <2>1, <2>2, <2>3 DEF parts
<1>5. ASSUME NEW n \in Nat, n \in S PROVE n + 1 \in S
  <2> SUFFICES ASSUME n + 1 <= Len(p) PROVE Split(text \o SubSeq(p, 1, n + 1), sep) = Until(n + 1)
    OBVIOUS
  <2> DEFINE q == SubSeq(p, 1, n)
             x == p[n + 1]
  <2>0. n \in 0..Len(p) /\ n + 1 \in 1..Len(p) /\ 1 \in 1..Len(p)
    OBVIOUS
  <2>1. q \in Seq(T) /\ x \in T /\ x # sep
    BY <1>3, <2>0, ElementOfSeq
  <2>2. SubSeq(p, 1, n + 1) = q \o <<x>>
    BY <2>0, SubSeqRecursiveSecond
  <2>3. Split(text \o q, sep) = Until(n)
    BY <1>5, <2>0
  <2> HIDE DEF q, x
  <2>4. text \o SubSeq(p, 1, n + 1) = Append(text \o q, x)
    <3>1. <<x>> \in Seq(T) /\ text \o q \in Seq(T)
      BY <2>1, ConcatProperties
    <3>2. text \o (q \o <<x>>) = (text \o q) \o <<x>>
      BY <2>1, <3>1, ConcatAssociative
    <3> QED BY <2>1, <2>2, <3>1, <3>2, AppendIsConcat
  <2>5. Split(text \o SubSeq(p, 1, n + 1), sep) = SplitTurn(sep, Until(n), x)
    <3>1. text \o q \in Seq(T)
      BY <2>1, ConcatProperties
    <3>2. Split(Append(text \o q, x), sep) = SplitTurn(sep, Split(text \o q, sep), x)
      BY <2>1, <3>1, SplitMore
    <3> QED BY <2>3, <2>4, <3>2
  <2>6. parts[m] \o SubSeq(p, 1, n + 1) = Append(parts[m] \o q, x)
    <3>1. <<x>> \in Seq(T) /\ parts[m] \o q \in Seq(T)
      BY <1>1, <2>1, ConcatProperties
    <3>2. parts[m] \o (q \o <<x>>) = (parts[m] \o q) \o <<x>>
      BY <1>1, <2>1, <3>1, ConcatAssociative
    <3> QED BY <1>1, <2>1, <2>2, <3>1, <3>2, AppendIsConcat
  <2>7. Len(Until(n)) = m /\ Until(n)[m] = parts[m] \o q
    <3>1. parts[m] \o q \in Seq(T)
      BY <1>1, <2>1, ConcatProperties
    <3> QED BY <1>1, <3>1, ExceptSeq DEF q
  <2>8. SplitTurn(sep, Until(n), x) = [Until(n) EXCEPT ![m] = Append(parts[m] \o q, x)]
    BY <2>1, <2>7 DEF SplitTurn
  <2>9. [Until(n) EXCEPT ![m] = Append(parts[m] \o q, x)] = Until(n + 1)
    BY <1>1, <2>6
  <2> QED BY <2>5, <2>8, <2>9
<1>6. Len(p) \in S
  <2> HIDE DEF S
  <2>1. Nat \subseteq S
    BY <1>4, <1>5, Induction
  <2> QED BY <2>1
<1>7. SubSeq(p, 1, Len(p)) = p
  BY SubSeqFull
<1>8. Split(text \o p, sep) = Until(Len(p))
  <2>1. Split(text \o SubSeq(p, 1, Len(p)), sep) = Until(Len(p))
    BY <1>6
  <2> HIDE DEF Until
  <2> QED BY <1>7, <2>1
<1> QED BY <1>7, <1>8 DEF parts, Grown

\* A separator starts a part.
LEMMA SplitPart ==
    ASSUME NEW sep, NEW W, sep \notin W, NEW text \in Seq(W \cup {sep}), NEW p \in Seq(W)
    PROVE  Split(text \o <<sep>> \o p, sep) = Append(Split(text, sep), p)
<1> DEFINE T == W \cup {sep}
           parts == Split(text, sep)
           more == Append(parts, <<>>)
<1>1. p \in Seq(T) /\ <<sep>> \in Seq(T) /\ sep \in T
  BY SeqMonotonic
<1>2. text \o <<sep>> = Append(text, sep)
  BY <1>1, AppendIsConcat
<1>3. Split(Append(text, sep), sep) = more
  BY <1>1, SplitMore DEF SplitTurn
<1>4. Append(text, sep) \in Seq(T)
  BY <1>1, AppendProperties
<1>5. Split(Append(text, sep) \o p, sep) = Grown(more, p)
  <2> HIDE DEF more
  <2> QED BY <1>3, <1>4, SplitWord
<1>6. parts \in Seq(Seq(T)) /\ <<>> \in Seq(T)
  BY SplitIsPieces
<1> HIDE DEF parts
<1>7. Len(more) = Len(parts) + 1 /\ more[Len(more)] = <<>> /\ more \in Seq(Seq(T)) /\ Len(parts) \in Nat
  BY <1>6, AppendProperties
<1>8. <<>> \o p = p
  BY ConcatEmptySeq
<1>9. Grown(more, p) = Append(parts, p)
  <2> DEFINE new == [more EXCEPT ![Len(more)] = p]
             other == Append(parts, p)
  <2>1. new \in Seq(Seq(T)) /\ Len(new) = Len(more) /\ \A j \in 1..Len(more) : new[j] = IF j = Len(more) THEN p ELSE more[j]
    <3>1. Len(more) \in 1..Len(more) /\ p \in Seq(T)
      BY <1>1, <1>7
    <3> HIDE DEF more
    <3> QED BY <1>7, <3>1, ExceptSeq
  <2>2. other \in Seq(Seq(T)) /\ Len(other) = Len(parts) + 1 /\ other[Len(parts) + 1] = p
        /\ \A j \in 1..Len(parts) : other[j] = parts[j]
    BY <1>1, <1>6, AppendProperties
  <2>3. \A j \in 1..Len(parts) : more[j] = parts[j]
    BY <1>6, AppendProperties
  <2>4. more[Len(more)] \o p = p
    BY <1>7, <1>8
  <2> HIDE DEF new, other, more
  <2>5. \A j \in 1..Len(new) : new[j] = other[j]
    <3> SUFFICES ASSUME NEW j \in 1..Len(new) PROVE new[j] = other[j]
      OBVIOUS
    <3>1. Len(new) = Len(parts) + 1 /\ Len(more) = Len(parts) + 1
      BY <1>7, <2>1
    <3>2. j \in 1..Len(more) /\ (j \in 1..Len(parts) \/ j = Len(parts) + 1)
      BY <1>7, <3>1
    <3>3. new[j] = IF j = Len(more) THEN p ELSE more[j]
      BY <2>1, <3>2
    <3>4. CASE j = Len(parts) + 1
      BY <2>2, <3>1, <3>3, <3>4
    <3>5. CASE j \in 1..Len(parts)
      <4>1. j # Len(more)
        BY <1>7, <3>1, <3>5
      <4> QED BY <2>2, <2>3, <3>3, <3>5, <4>1
    <3> QED BY <3>2, <3>4, <3>5
  <2>6. Len(new) = Len(other)
    BY <1>7, <2>1, <2>2
  <2>7. new = other
    BY <2>1, <2>2, <2>5, <2>6, SeqEqual
  <2> QED BY <2>4, <2>7 DEF new, other, Grown
<1> QED BY <1>2, <1>5, <1>9 DEF parts

\* A text without separator is one part.
LEMMA SplitOne ==
    ASSUME NEW sep, NEW W, sep \notin W, NEW p \in Seq(W)
    PROVE  Split(p, sep) = <<p>>
<1>1. <<>> \in Seq(W \cup {sep}) /\ <<>> \o p = p
  BY ConcatEmptySeq
<1>2. Len(<<<<>>>>) = 1 /\ <<<<>>>>[1] = <<>>
  OBVIOUS
<1>3. Split(<<>> \o p, sep) = Grown(Split(<<>>, sep), p)
  BY <1>1, SplitWord
<1>4. Split(p, sep) = Grown(<<<<>>>>, p)
  BY <1>1, <1>3, SplitEmpty
<1>5. [<<<<>>>> EXCEPT ![1] = p] = <<p>>
  OBVIOUS
<1> QED BY <1>1, <1>2, <1>4, <1>5 DEF Grown

LEMMA Narrow ==
    ASSUME NEW T, NEW X, NEW p \in Seq(T), ToSet(p) \cap X = {}
    PROVE  p \in Seq(T \ X)
<1>1. Len(p) \in Nat /\ DOMAIN p = 1..Len(p) /\ p \in [1..Len(p) -> T]
  BY LenProperties
<1>2. \A n \in 1..Len(p) : p[n] \in T \ X
  BY <1>1 DEF ToSet
<1>3. p \in [1..Len(p) -> T \ X]
  BY <1>1, <1>2
<1> QED BY <1>1, <1>3, SeqDef

LEMMA NotContained ==
    ASSUME NEW W, NEW p \in Seq(W), NEW x, x \notin W
    PROVE  ~Contains(p, x)
BY ElementOfSeq DEF Contains

LEMMA ContainedBefore ==
    ASSUME NEW T, NEW p \in Seq(T), NEW q \in Seq(T), NEW x, Contains(p, x)
    PROVE  Contains(p \o q, x)
<1>1. PICK n \in 1..Len(p) : p[n] = x
  BY DEF Contains
<1>2. /\ Len(p \o q) = Len(p) + Len(q)
      /\ \A k \in 1..(Len(p) + Len(q)) : (p \o q)[k] = IF k <= Len(p) THEN p[k] ELSE q[k - Len(p)]
  BY ConcatProperties
<1>3. n \in 1..Len(p \o q) /\ (p \o q)[n] = x
  BY <1>1, <1>2
<1> QED BY <1>3 DEF Contains

Associates(a, b, c) == (a \o b) \o c = a \o (b \o c)

LEMMA Associative ==
    ASSUME NEW T, NEW a \in Seq(T), NEW b \in Seq(T), NEW c \in Seq(T)
    PROVE  Associates(a, b, c)
BY ConcatAssociative DEF Associates

LEMMA Regroup ==
    ASSUME NEW T, NEW a \in Seq(T), NEW b \in Seq(T), NEW c \in Seq(T), NEW d \in Seq(T)
    PROVE  a \o (b \o (c \o d)) = a \o b \o c \o d
<1>1. c \o d \in Seq(T) /\ a \o b \in Seq(T)
  BY ConcatProperties
<1>2. Associates(a \o b, c, d) /\ Associates(a, b, c \o d)
  BY <1>1, Associative
<1> QED BY <1>2 DEF Associates

LEMMA Beginning ==
    ASSUME NEW T, NEW p \in Seq(T), NEW one \in Seq(T), Len(one) = 1, NEW z \in Seq(T)
    PROVE  /\ p \o one \in Seq(T)
           /\ (p \o one \o z)[Len(p) + 1] = one[1]
           /\ \A n \in 1..Len(p) : (p \o one \o z)[n] = p[n]
<1>1. Len(p) \in Nat /\ Len(z) \in Nat
  OBVIOUS
<1>2. /\ p \o one \in Seq(T) /\ Len(p \o one) = Len(p) + 1
      /\ \A n \in 1..(Len(p) + 1) : (p \o one)[n] = IF n <= Len(p) THEN p[n] ELSE one[n - Len(p)]
  <2> USE ConcatProperties
  <2>1. p \o one \in Seq(T)
    OBVIOUS
  <2>2. Len(p \o one) = Len(p) + Len(one)
    OBVIOUS
  <2>3. \A n \in 1..(Len(p) + Len(one)) : (p \o one)[n] = IF n <= Len(p) THEN p[n] ELSE one[n - Len(p)]
    OBVIOUS
  <2> QED BY <2>1, <2>2, <2>3
<1> DEFINE q == p \o one
<1> HIDE DEF q
<1>3. q \in Seq(T)
  BY <1>2 DEF q
<1>4. \A n \in 1..(Len(q) + Len(z)) : (q \o z)[n] = IF n <= Len(q) THEN q[n] ELSE z[n - Len(q)]
  BY <1>3, ConcatProperties
<1>5. Len(q) = Len(p) + 1
  BY <1>2 DEF q
<1>6. \A n \in 1..(Len(p) + 1) : n \in 1..(Len(q) + Len(z)) /\ n <= Len(q)
  BY <1>1, <1>5
<1>7. \A n \in 1..(Len(p) + 1) : (q \o z)[n] = q[n]
  BY <1>4, <1>6
<1>8. (Len(p) + 1) - Len(p) = 1
  BY <1>1
<1>9. q[Len(p) + 1] = one[1] /\ \A n \in 1..Len(p) : q[n] = p[n]
  BY <1>1, <1>2, <1>8 DEF q
<1> QED BY <1>1, <1>2, <1>7, <1>9 DEF q

\* What comes before the first separator is determined, and what comes after.
BothBegin(sep, a, x, b, y) == a \o <<sep>> \o x = b \o <<sep>> \o y

LEMMA Prefix ==
    ASSUME NEW sep, NEW W, sep \notin W, NEW T, W \cup {sep} \subseteq T,
           NEW a \in Seq(W), NEW b \in Seq(W), NEW x \in Seq(T), NEW y \in Seq(T),
           BothBegin(sep, a, x, b, y)
    PROVE  a = b /\ x = y
<1> DEFINE one == <<sep>>
<1>1. a \in Seq(T) /\ b \in Seq(T) /\ one \in Seq(T) /\ Len(one) = 1 /\ one[1] = sep
  BY SeqMonotonic
<1>2. Len(a) \in Nat /\ Len(b) \in Nat /\ Len(x) \in Nat /\ Len(y) \in Nat
  OBVIOUS
<1> HIDE DEF one
<1>3. \A p \in {a, b}, z \in {x, y} :
        /\ (p \o one) \in Seq(T)
        /\ ((p \o one) \o z)[Len(p) + 1] = sep
        /\ \A n \in 1..Len(p) : ((p \o one) \o z)[n] = p[n]
  BY <1>1, Beginning
<1>4. (a \o one) \o x = (b \o one) \o y
  BY DEF one, BothBegin
<1>5. ~(Len(a) < Len(b))
  <2> SUFFICES ASSUME Len(a) < Len(b) PROVE FALSE
    OBVIOUS
  <2>1. ((a \o one) \o x)[Len(a) + 1] = sep
    BY <1>3
  <2>2. Len(a) + 1 \in 1..Len(b)
    BY <1>2
  <2>3. ((b \o one) \o y)[Len(a) + 1] = b[Len(a) + 1]
    BY <1>3, <2>2
  <2> QED BY <1>4, <2>1, <2>2, <2>3, ElementOfSeq
<1>6. ~(Len(b) < Len(a))
  <2> SUFFICES ASSUME Len(b) < Len(a) PROVE FALSE
    OBVIOUS
  <2>1. ((b \o one) \o y)[Len(b) + 1] = sep
    BY <1>3
  <2>2. Len(b) + 1 \in 1..Len(a)
    BY <1>2
  <2>3. ((a \o one) \o x)[Len(b) + 1] = a[Len(b) + 1]
    BY <1>3, <2>2
  <2> QED BY <1>4, <2>1, <2>2, <2>3, ElementOfSeq
<1>7. Len(a) = Len(b)
  BY <1>2, <1>5, <1>6
<1>8. \A n \in 1..Len(a) : a[n] = b[n]
  BY <1>3, <1>4, <1>7
<1>9. a = b
  BY <1>7, <1>8, SeqEqual
<1>10. (a \o one) \in Seq(T)
  BY <1>3
<1> QED BY <1>4, <1>9, <1>10, ConcatSimplifications

LEMMA After ==
    ASSUME NEW T, NEW p \in Seq(T), NEW q \in Seq(T)
    PROVE  /\ Len(p \o q) = Len(q) + Len(p)
           /\ \A k \in 1..Len(q) : (p \o q)[k + Len(p)] = q[k]
<1>1. Len(p) \in Nat /\ Len(q) \in Nat
  OBVIOUS
<1>2. Len(p \o q) = Len(p) + Len(q)
  BY ConcatProperties
<1>3. \A k \in 1..(Len(p) + Len(q)) : (p \o q)[k] = IF k <= Len(p) THEN p[k] ELSE q[k - Len(p)]
  BY ConcatProperties
<1>4. \A k \in 1..Len(q) : k + Len(p) \in 1..(Len(p) + Len(q)) /\ ~(k + Len(p) <= Len(p)) /\ (k + Len(p)) - Len(p) = k
  BY <1>1
<1> QED BY <1>1, <1>2, <1>3, <1>4

LEMMA HeadAndTail ==
    ASSUME NEW T, NEW tail \in Seq(T), NEW x \in T
    PROVE  <<x>> \o tail \in Seq(T) /\ Tail(<<x>> \o tail) = tail /\ (<<x>> \o tail = <<x>> <=> tail = <<>>)
<1> DEFINE one == <<x>>
<1>1. one \in Seq(T) /\ Len(one) = 1
  OBVIOUS
<1>2. <<x>> \o tail \in Seq(T) /\ Tail(<<x>> \o tail) = tail
  OBVIOUS
<1>3. one \o tail = one => tail = <<>>
  <2> HIDE DEF one
  <2>1. Len(one \o tail) = Len(one) + Len(tail)
    BY <1>1, ConcatProperties
  <2>2. one \o tail = one => Len(tail) = 0
    BY <1>1, <2>1
  <2>3. Len(tail) = 0 => tail = <<>>
    BY EmptySeq
  <2> QED BY <2>2, <2>3
<1>4. tail = <<>> => one \o tail = one
  <2> HIDE DEF one
  <2>1. one \o <<>> = one
    BY <1>1, ConcatEmptySeq
  <2> QED BY <2>1
<1> QED BY <1>2, <1>3, <1>4

LEMMA OneToken == ASSUME NEW T, NEW x \in T PROVE <<x>> \in Seq(T)
OBVIOUS

\* Tuples, one element longer.
LEMMA Longer ==
    ASSUME NEW W, NEW s \in Seq(W), NEW c \in W, NEW t \in Seq(W),
           Len(t) = Len(s) + 1, t[Len(s) + 1] = c, \A i \in 1..Len(s) : t[i] = s[i]
    PROVE  t = Append(s, c)
<1> DEFINE u == Append(s, c)
<1>0. Len(s) \in Nat
  OBVIOUS
<1>1. u \in Seq(W) /\ Len(u) = Len(s) + 1 /\ u[Len(s) + 1] = c /\ \A i \in 1..Len(s) : u[i] = s[i]
  BY AppendProperties
<1> HIDE DEF u
<1>2. \A i \in 1..(Len(s) + 1) : i \in 1..Len(s) \/ i = Len(s) + 1
  BY <1>0
<1>3. \A i \in 1..Len(t) : t[i] = u[i]
  BY <1>1, <1>2
<1>4. t = u
  BY <1>1, <1>3, SeqEqual
<1> QED BY <1>4 DEF u

LEMMA Two ==
    ASSUME NEW a, NEW b
    PROVE  Append(<<a>>, b) = <<a, b>>
<1> DEFINE W == {a, b}
           s == <<a>>
           t == <<a, b>>
<1>1. s \in Seq(W) /\ Len(s) = 1 /\ s[1] = a
  OBVIOUS
<1>2. t \in Seq(W) /\ Len(t) = 2 /\ t[1] = a /\ t[2] = b
  OBVIOUS
<1>3. b \in W
  OBVIOUS
<1> HIDE DEF s, t, W
<1>4. t[Len(s) + 1] = b /\ Len(t) = Len(s) + 1 /\ \A i \in 1..Len(s) : t[i] = s[i]
  BY <1>1, <1>2
<1>5. t = Append(s, b)
  BY <1>1, <1>2, <1>3, <1>4, Longer
<1> QED BY <1>5 DEF s, t

LEMMA Three ==
    ASSUME NEW a, NEW b, NEW c
    PROVE  Append(<<a, b>>, c) = <<a, b, c>>
<1> DEFINE W == {a, b, c}
           s == <<a, b>>
           t == <<a, b, c>>
<1>1. s \in Seq(W) /\ Len(s) = 2 /\ s[1] = a /\ s[2] = b
  OBVIOUS
<1>2. t \in Seq(W) /\ Len(t) = 3 /\ t[1] = a /\ t[2] = b /\ t[3] = c
  OBVIOUS
<1>3. c \in W
  OBVIOUS
<1> HIDE DEF s, t, W
<1>4. t[Len(s) + 1] = c /\ Len(t) = Len(s) + 1 /\ \A i \in 1..Len(s) : t[i] = s[i]
  BY <1>1, <1>2
<1>5. t = Append(s, c)
  BY <1>1, <1>2, <1>3, <1>4, Longer
<1> QED BY <1>5 DEF s, t

LEMMA Four ==
    ASSUME NEW a, NEW b, NEW c, NEW d
    PROVE  Append(<<a, b, c>>, d) = <<a, b, c, d>>
<1> DEFINE W == {a, b, c, d}
           s == <<a, b, c>>
           t == <<a, b, c, d>>
<1>1. s \in Seq(W) /\ Len(s) = 3 /\ s[1] = a /\ s[2] = b /\ s[3] = c
  OBVIOUS
<1>2. t \in Seq(W) /\ Len(t) = 4 /\ t[1] = a /\ t[2] = b /\ t[3] = c /\ t[4] = d
  OBVIOUS
<1>3. d \in W
  OBVIOUS
<1> HIDE DEF s, t, W
<1>4. t[Len(s) + 1] = d /\ Len(t) = Len(s) + 1 /\ \A i \in 1..Len(s) : t[i] = s[i]
  BY <1>1, <1>2
<1>5. t = Append(s, d)
  BY <1>1, <1>2, <1>3, <1>4, Longer
<1> QED BY <1>5 DEF s, t

LEMMA Five ==
    ASSUME NEW a, NEW b, NEW c, NEW d, NEW e
    PROVE  Append(<<a, b, c, d>>, e) = <<a, b, c, d, e>>
<1> DEFINE W == {a, b, c, d, e}
           s == <<a, b, c, d>>
           t == <<a, b, c, d, e>>
<1>1. s \in Seq(W) /\ Len(s) = 4 /\ s[1] = a /\ s[2] = b /\ s[3] = c /\ s[4] = d
  OBVIOUS
<1>2. t \in Seq(W) /\ Len(t) = 5 /\ t[1] = a /\ t[2] = b /\ t[3] = c /\ t[4] = d /\ t[5] = e
  OBVIOUS
<1>3. e \in W
  OBVIOUS
<1> HIDE DEF s, t, W
<1>4. t[Len(s) + 1] = e /\ Len(t) = Len(s) + 1 /\ \A i \in 1..Len(s) : t[i] = s[i]
  BY <1>1, <1>2
<1>5. t = Append(s, e)
  BY <1>1, <1>2, <1>3, <1>4, Longer
<1> QED BY <1>5 DEF s, t

------------------------------------------------------------------------------
(***************************************************************************)
(* FlattenSeq: its recursive function exists, and runs over the texts.     *)
(***************************************************************************)
IsFlat(f, n, ss) == f = [i \in 1..n |-> IF i = 1 THEN ss[i] ELSE f[i - 1] \o ss[i]]

LEMMA FlatExists ==
    ASSUME NEW ss, NEW m \in Nat
    PROVE  \E f : IsFlat(f, m, ss)
<1> DEFINE E == {n \in Nat : \E f : IsFlat(f, n, ss)}
<1>1. 0 \in E
  <2>1. IsFlat([i \in 1..0 |-> i], 0, ss)
    BY DEF IsFlat
  <2> QED BY <2>1
<1>2. ASSUME NEW n \in Nat, n \in E PROVE n + 1 \in E
  <2>1. PICK f : IsFlat(f, n, ss)
    BY <1>2
  <2> DEFINE new == [i \in 1..(n + 1) |-> IF i <= n THEN f[i] ELSE IF i = 1 THEN ss[i] ELSE f[i - 1] \o ss[i]]
  <2>2. \A i \in 1..(n + 1) : new[i] = IF i = 1 THEN ss[i] ELSE new[i - 1] \o ss[i]
    <3> SUFFICES ASSUME NEW i \in 1..(n + 1) PROVE new[i] = IF i = 1 THEN ss[i] ELSE new[i - 1] \o ss[i]
      OBVIOUS
    <3>1. i # 1 => new[i - 1] = f[i - 1]
      OBVIOUS
    <3>2. ASSUME i <= n PROVE f[i] = IF i = 1 THEN ss[i] ELSE f[i - 1] \o ss[i]
      <4>1. i \in 1..n
        BY <3>2
      <4> QED BY <2>1, <4>1 DEF IsFlat
    <3> QED BY <3>1, <3>2
  <2>3. IsFlat(new, n + 1, ss)
    <3>1. DOMAIN new = 1..(n + 1) /\ new = [i \in 1..(n + 1) |-> new[i]]
      OBVIOUS
    <3> HIDE DEF new
    <3> QED BY <2>2, <3>1 DEF IsFlat
  <2> QED BY <2>3
<1>3. m \in E
  <2> HIDE DEF E
  <2> QED BY <1>1, <1>2, Induction
<1> QED BY <1>3

\* all: the texts joined up to each of them.
IsJoin(all, ss) ==
    /\ all[0] = <<>>
    /\ \A n \in 1..Len(ss) : all[n] = all[n - 1] \o ss[n]
    /\ all[Len(ss)] = FlattenSeq(ss)

LEMMA Joins ==
    ASSUME NEW W, NEW ss \in Seq(Seq(W))
    PROVE  \E all : IsJoin(all, ss) /\ \A n \in 0..Len(ss) : all[n] \in Seq(W)
<1> DEFINE f == CHOOSE g : IsFlat(g, Len(ss), ss)
           all == [n \in 0..Len(ss) |-> IF n = 0 THEN <<>> ELSE f[n]]
           S == {n \in Nat : n <= Len(ss) => all[n] \in Seq(W)}
<1>1. Len(ss) \in Nat /\ <<>> \in Seq(W)
  OBVIOUS
<1>2. IsFlat(f, Len(ss), ss)
  BY <1>1, FlatExists
<1>3. Len(ss) # 0 => FlattenSeq(ss) = f[Len(ss)]
  BY DEF FlattenSeq, IsFlat
<1> HIDE DEF f
<1>4. Len(ss) = 0 => FlattenSeq(ss) = <<>>
  BY EmptySeq DEF FlattenSeq
<1>5. \A n \in 1..Len(ss) : all[n] = all[n - 1] \o ss[n]
  <2> SUFFICES ASSUME NEW n \in 1..Len(ss) PROVE all[n] = all[n - 1] \o ss[n]
    OBVIOUS
  <2>1. f[n] = IF n = 1 THEN ss[n] ELSE f[n - 1] \o ss[n]
    BY <1>2 DEF IsFlat
  <2>2. ss[n] \in Seq(W)
    OBVIOUS
  <2>3. <<>> \o ss[n] = ss[n]
    BY <2>2, ConcatEmptySeq
  <2>4. n \in 0..Len(ss) /\ n - 1 \in 0..Len(ss) /\ n # 0 /\ (n - 1 = 0 <=> n = 1)
    BY <1>1
  <2> QED BY <2>1, <2>3, <2>4
<1>6. all[0] = <<>> /\ all[Len(ss)] = FlattenSeq(ss)
  BY <1>1, <1>3, <1>4
<1> HIDE DEF all
<1>7. 0 \in S
  BY <1>1, <1>6
<1>8. ASSUME NEW n \in Nat, n \in S PROVE n + 1 \in S
  <2> SUFFICES ASSUME n + 1 <= Len(ss) PROVE all[n + 1] \in Seq(W)
    OBVIOUS
  <2>1. n + 1 \in 1..Len(ss) /\ (n + 1) - 1 = n /\ n <= Len(ss) /\ ss[n + 1] \in Seq(W)
    BY <1>1
  <2>2. all[n + 1] = all[n] \o ss[n + 1] /\ all[n] \in Seq(W)
    BY <1>5, <1>8, <2>1
  <2> QED BY <2>1, <2>2, ConcatProperties
<1>9. \A n \in 0..Len(ss) : all[n] \in Seq(W)
  <2> HIDE DEF S
  <2>1. Nat \subseteq S
    BY <1>7, <1>8, Induction
  <2> QED BY <1>1, <2>1 DEF S
<1> QED BY <1>5, <1>6, <1>9 DEF IsJoin

LEMMA JoinedIsText ==
    ASSUME NEW W, NEW ss \in Seq(Seq(W))
    PROVE  FlattenSeq(ss) \in Seq(W)
<1>1. PICK all : IsJoin(all, ss) /\ \A n \in 0..Len(ss) : all[n] \in Seq(W)
  BY Joins
<1>2. Len(ss) \in 0..Len(ss)
  OBVIOUS
<1> QED BY <1>1, <1>2 DEF IsJoin

\* Split gives back what was joined with a separator in front of each.
LEMMA SplitJoined ==
    ASSUME NEW sep, NEW W, sep \notin W, NEW text \in Seq(W \cup {sep}), NEW ps \in Seq(Seq(W)), NEW ss,
           ss = [k \in DOMAIN ps |-> <<sep>> \o ps[k]]
    PROVE  Split(text \o FlattenSeq(ss), sep) = Split(text, sep) \o ps
<1> DEFINE T == W \cup {sep}
           parts == Split(text, sep)
<1>1. DOMAIN ps = 1..Len(ps) /\ Len(ps) \in Nat /\ \A k \in 1..Len(ps) : ps[k] \in Seq(W) /\ ps[k] \in Seq(T)
  <2>1. \A k \in 1..Len(ps) : ps[k] \in Seq(W)
    OBVIOUS
  <2> QED BY <2>1, SeqMonotonic
<1>2. <<sep>> \in Seq(T)
  OBVIOUS
<1>3. ss \in Seq(Seq(T)) /\ Len(ss) = Len(ps) /\ \A k \in 1..Len(ps) : ss[k] = <<sep>> \o ps[k]
  <2>1. \A k \in 1..Len(ps) : <<sep>> \o ps[k] \in Seq(T)
    BY <1>1, <1>2, ConcatProperties
  <2>2. ss \in [1..Len(ps) -> Seq(T)]
    BY <1>1, <2>1
  <2> QED BY <1>1, <2>2, SeqDef
<1>4. PICK all : IsJoin(all, ss) /\ \A n \in 0..Len(ss) : all[n] \in Seq(T)
  BY <1>3, Joins
<1>5. parts \in Seq(Seq(T))
  BY SplitIsPieces
<1>6. \A n \in 0..Len(ps) : SubSeq(ps, 1, n) \in Seq(Seq(W)) /\ SubSeq(ps, 1, n) \in Seq(Seq(T))
  <2> SUFFICES ASSUME NEW n \in 0..Len(ps) PROVE SubSeq(ps, 1, n) \in Seq(Seq(W)) /\ SubSeq(ps, 1, n) \in Seq(Seq(T))
    OBVIOUS
  <2>1. \A i \in 1..n : ps[i] \in Seq(W) /\ ps[i] \in Seq(T)
    BY <1>1
  <2> QED BY <2>1, SubSeqProperties
<1> HIDE DEF parts
<1> DEFINE S == {n \in Nat : n <= Len(ps) => Split(text \o all[n], sep) = parts \o SubSeq(ps, 1, n)}
<1>7. 0 \in S
  <2>1. SubSeq(ps, 1, 0) = <<>>
    BY SubSeqEmpty
  <2>2. parts \o <<>> = parts /\ text \o <<>> = text
    BY <1>5, ConcatEmptySeq
  <2> QED BY <1>4, <2>1, <2>2 DEF IsJoin, parts
<1>8. ASSUME NEW n \in Nat, n \in S PROVE n + 1 \in S
  <2> SUFFICES ASSUME n + 1 <= Len(ps)
               PROVE  Split(text \o all[n + 1], sep) = parts \o SubSeq(ps, 1, n + 1)
    OBVIOUS
  <2> DEFINE p == ps[n + 1]
             q == SubSeq(ps, 1, n)
  <2>1. n + 1 \in 1..Len(ps) /\ 1 \in 1..Len(ps) /\ n \in 0..Len(ps) /\ (n + 1) - 1 = n /\ n <= Len(ps)
    BY <1>1
  <2>2. all[n + 1] = all[n] \o (<<sep>> \o p) /\ all[n] \in Seq(T) /\ p \in Seq(W) /\ p \in Seq(T)
    BY <1>1, <1>3, <1>4, <2>1 DEF IsJoin
  <2>3. Split(text \o all[n], sep) = parts \o q
    BY <1>8, <2>1
  <2>4. q \in Seq(Seq(T)) /\ SubSeq(ps, 1, n + 1) = q \o <<p>>
    BY <1>6, <2>1, SubSeqRecursiveSecond
  <2> HIDE DEF p, q
  <2>5. text \o all[n] \in Seq(T)
    BY <2>2, ConcatProperties
  <2>6. text \o all[n + 1] = text \o all[n] \o <<sep>> \o p
    <3>1. text \o (all[n] \o (<<sep>> \o p)) = text \o all[n] \o <<sep>> \o p
      <4>1. Associates(text, all[n], <<sep>> \o p) /\ Associates(text \o all[n], <<sep>>, p)
        <5>1. <<sep>> \o p \in Seq(T)
          BY <1>2, <2>2, ConcatProperties
        <5> QED BY <1>2, <2>2, <2>5, <5>1, Associative
      <4> QED BY <4>1 DEF Associates
    <3> QED BY <2>2, <3>1
  <2>7. Split(text \o all[n + 1], sep) = Append(parts \o q, p)
    BY <2>2, <2>3, <2>5, <2>6, SplitPart
  <2>8. Append(parts \o q, p) = parts \o SubSeq(ps, 1, n + 1)
    <3>1. parts \o q \in Seq(Seq(T)) /\ <<p>> \in Seq(Seq(T))
      BY <1>5, <2>2, <2>4, ConcatProperties
    <3>2. (parts \o q) \o <<p>> = parts \o (q \o <<p>>)
      <4>1. Associates(parts, q, <<p>>)
        BY <1>5, <2>4, <3>1, Associative
      <4> QED BY <4>1 DEF Associates
    <3>3. Append(parts \o q, p) = (parts \o q) \o <<p>>
      BY <2>2, <3>1, AppendIsConcat
    <3> QED BY <2>4, <3>2, <3>3
  <2> QED BY <2>7, <2>8
<1>9. Len(ps) \in S
  <2> HIDE DEF S
  <2>1. Nat \subseteq S
    BY <1>7, <1>8, Induction
  <2> QED BY <1>1, <2>1
<1>10. SubSeq(ps, 1, Len(ps)) = ps
  BY SubSeqFull
<1>11. all[Len(ps)] = FlattenSeq(ss)
  BY <1>3, <1>4 DEF IsJoin
<1>12. Split(text \o all[Len(ps)], sep) = parts \o SubSeq(ps, 1, Len(ps))
  BY <1>1, <1>9
<1> QED BY <1>10, <1>11, <1>12 DEF parts

------------------------------------------------------------------------------
(***************************************************************************)
(* Each kind of key is read back.                                          *)
(***************************************************************************)
\* What follows the tag of a key with a namespace and a name.
LEMMA IdKey ==
    ASSUME NEW V, "/" \notin V, NEW tag \in Seq(V), NEW id, id.ns \in Seq(V), id.name \in Seq(V)
    PROVE  /\ MetaNamespaceKey(id) \in Seq(V \cup {"/"})
           /\ tag \o <<"/">> \in Seq(V \cup {"/"})
           /\ Split(tag \o <<"/">> \o MetaNamespaceKey(id), "/") = <<tag, id.ns, id.name>>
<1> DEFINE T == V \cup {"/"}
           one == <<"/">>
           ns == id.ns
           name == id.name
           start == tag \o one
           front == start \o ns
<1>1. one \in Seq(T) /\ ns \in Seq(V) /\ name \in Seq(V) /\ ns \in Seq(T) /\ name \in Seq(T) /\ tag \in Seq(T)
  BY SeqMonotonic
<1>2. Split(tag, "/") = <<tag>>
  BY SplitOne
<1> HIDE DEF one, ns, name
<1>3. ns \o one \in Seq(T)
  BY <1>1, ConcatProperties
<1>4. (ns \o one) \o name \in Seq(T)
  BY <1>1, <1>3, ConcatProperties
<1>5. start \in Seq(T)
  BY <1>1, ConcatProperties
<1>6. Split(front, "/") = Append(<<tag>>, ns)
  BY <1>1, <1>2, SplitPart DEF one
<1> HIDE DEF start
<1>7. front \in Seq(T)
  BY <1>1, <1>5, ConcatProperties
<1>8. Split(front \o one \o name, "/") = Append(Append(<<tag>>, ns), name)
  <2> HIDE DEF front
  <2> QED BY <1>1, <1>6, <1>7, SplitPart DEF one
<1>9. start \o ((ns \o one) \o name) = front \o one \o name
  <2>1. Associates(start, ns \o one, name) /\ Associates(start, ns, one)
    BY <1>1, <1>3, <1>5, Associative
  <2> QED BY <2>1 DEF Associates
<1>10. Append(Append(<<tag>>, ns), name) = <<tag, ns, name>>
  <2>1. Append(<<tag>>, ns) = <<tag, ns>>
    BY Two
  <2>2. Append(<<tag, ns>>, name) = <<tag, ns, name>>
    BY Three
  <2> QED BY <2>1, <2>2
<1>11. MetaNamespaceKey(id) = (ns \o one) \o name
  BY DEF MetaNamespaceKey, ns, name, one
<1> QED BY <1>4, <1>5, <1>8, <1>9, <1>10, <1>11 DEF start, one, ns, name

LEMMA ReadSync ==
    ASSUME NEW W, W \cap {"/", "Del"} = {}, NEW event \in {"ADD", "Update"}, NEW servers,
           NEW id, id.ns \in Seq(W), id.name \in Seq(W)
    PROVE  ReadKey(enqueueExtendIngress(event, id, servers))
           = [does |-> "sync", id |-> [ns |-> id.ns, name |-> id.name]]
<1> DEFINE V == W \cup {"ExtendIngress", event}
           T == V \cup {"/"}
           tag == <<"ExtendIngress", event>>
           meta == MetaNamespaceKey(id)
           text == tag \o <<"/">> \o meta
<1>1. "/" \notin V /\ "Del" \notin T /\ tag \in Seq(V) /\ id.ns \in Seq(V) /\ id.name \in Seq(V)
  BY SeqMonotonic
<1>2. meta \in Seq(T) /\ tag \o <<"/">> \in Seq(T) /\ Split(text, "/") = <<tag, id.ns, id.name>>
  BY <1>1, IdKey
<1>3. tag \o <<"/">> = <<"ExtendIngress", event, "/">>
  <2>1. "/" \in T /\ tag \in Seq(T)
    BY <1>1, SeqMonotonic
  <2>2. Append(tag, "/") = tag \o <<"/">>
    BY <2>1, AppendIsConcat
  <2> QED BY <2>2, Three
<1> HIDE DEF meta
<1>4. text \in Seq(T)
  <2> HIDE DEF T, tag
  <2> QED BY <1>2, ConcatProperties
<1>5. enqueueExtendIngress(event, id, servers) = text
  <2>1. text \o <<>> = text
    <3> HIDE DEF text, T
    <3> QED BY <1>4, ConcatEmptySeq
  <2> QED BY <1>3, <2>1 DEF enqueueExtendIngress, meta
<1>6. Contains(text, "ExtendIngress")
  <2>1. Contains(tag \o <<"/">>, "ExtendIngress")
    BY <1>3 DEF Contains
  <2> HIDE DEF T, tag
  <2> QED BY <1>2, <2>1, ContainedBefore
<1>7. ~Contains(text, "Del")
  <2> HIDE DEF T, text
  <2> QED BY <1>1, <1>4, NotContained
<1>8. ReadKey(text) = ReadIngress(Split(text, "/"))
  <2> HIDE DEF text
  <2> QED BY <1>6, <1>7 DEF ReadKey
<1>9. ReadIngress(<<tag, id.ns, id.name>>) = [does |-> "sync", id |-> [ns |-> id.ns, name |-> id.name]]
  BY DEF ReadIngress
<1> HIDE DEF text
<1> QED BY <1>2, <1>5, <1>8, <1>9

\* Servers whose words have no separator in them.
Readable(W) == [host : Seq(W), paths : Seq({<<"/">> \o w : w \in Seq(W)})]

LEMMA ReadBackServer ==
    ASSUME NEW W, "-" \notin W, NEW server \in Readable(W)
    PROVE  /\ ServerNameLoc(server) \in Seq(W \cup {"-"})
           /\ ReadServer(ServerNameLoc(server)) = server
<1> DEFINE T == W \cup {"-"}
           host == server.host
           paths == server.paths
           ps == [n \in DOMAIN paths |-> Tail(paths[n])]
           ss == [n \in DOMAIN paths |-> <<"-">> \o Tail(paths[n])]
<1>1. host \in Seq(W) /\ host \in Seq(T) /\ server = [host |-> host, paths |-> paths]
  <2>1. host \in Seq(W) /\ server = [host |-> host, paths |-> paths]
    BY DEF Readable
  <2> QED BY <2>1, SeqMonotonic
<1>2. paths \in Seq({<<"/">> \o w : w \in Seq(W)})
  BY DEF Readable
<1> HIDE DEF host, paths
<1>3. DOMAIN paths = 1..Len(paths) /\ Len(paths) \in Nat
  BY <1>2
<1>4. \A n \in 1..Len(paths) : Tail(paths[n]) \in Seq(W) /\ paths[n] = <<"/">> \o Tail(paths[n])
  <2> SUFFICES ASSUME NEW n \in 1..Len(paths)
               PROVE  Tail(paths[n]) \in Seq(W) /\ paths[n] = <<"/">> \o Tail(paths[n])
    OBVIOUS
  <2>0. paths[n] \in {<<"/">> \o w : w \in Seq(W)}
    BY <1>2, ElementOfSeq
  <2>1. PICK w \in Seq(W) : paths[n] = <<"/">> \o w
    BY <2>0
  <2>2. Tail(<<"/">> \o w) = w
    BY <2>1
  <2> QED BY <2>1, <2>2
<1>5. ps \in Seq(Seq(W)) /\ Len(ps) = Len(paths) /\ DOMAIN ps = DOMAIN paths
  <2>1. ps \in [1..Len(paths) -> Seq(W)]
    BY <1>3, <1>4
  <2> QED BY <1>3, <2>1, SeqDef
<1>6. ss = [n \in DOMAIN ps |-> <<"-">> \o ps[n]]
  BY <1>5
<1> HIDE DEF ps
<1>7. Split(host \o FlattenSeq(ss), "-") = Split(host, "-") \o ps
  <2> HIDE DEF ss
  <2> QED BY <1>1, <1>5, <1>6, SplitJoined
<1>8. Split(host, "-") = <<host>>
  BY <1>1, SplitOne
<1>9. ss \in Seq(Seq(T))
  <2>1. \A n \in 1..Len(paths) : <<"-">> \o Tail(paths[n]) \in Seq(T)
    <3> SUFFICES ASSUME NEW n \in 1..Len(paths) PROVE <<"-">> \o Tail(paths[n]) \in Seq(T)
      OBVIOUS
    <3>1. Tail(paths[n]) \in Seq(T) /\ <<"-">> \in Seq(T)
      BY <1>4, SeqMonotonic
    <3> QED BY <3>1, ConcatProperties
  <2>2. ss \in [1..Len(paths) -> Seq(T)]
    BY <1>3, <2>1
  <2> QED BY <1>3, <2>2, SeqDef
<1>10. FlattenSeq(ss) \in Seq(T)
  BY <1>9, JoinedIsText
<1>11. ServerNameLoc(server) = host \o FlattenSeq(ss)
  BY DEF ServerNameLoc, host, paths
<1>12. ServerNameLoc(server) \in Seq(T)
  BY <1>1, <1>10, <1>11, ConcatProperties
<1> DEFINE words == <<host>> \o ps
<1>13. Len(words) = Len(paths) + 1 /\ words[1] = host
       /\ \A n \in 1..Len(paths) : words[n + 1] = ps[n]
  <2>1. <<host>> \in Seq(Seq(W)) /\ Len(<<host>>) = 1 /\ <<host>>[1] = host
    BY <1>1
  <2> DEFINE one == <<host>>
  <2> HIDE DEF one
  <2>2. one \in Seq(Seq(W)) /\ Len(one) = 1 /\ one[1] = host
    BY <2>1 DEF one
  <2>3. /\ Len(one \o ps) = Len(one) + Len(ps)
        /\ \A n \in 1..(Len(one) + Len(ps)) : (one \o ps)[n] = IF n <= Len(one) THEN one[n] ELSE ps[n - Len(one)]
    BY <1>5, <2>2, ConcatProperties
  <2>4. \A n \in 1..Len(paths) : n + 1 \in 1..(Len(one) + Len(ps)) /\ ~(n + 1 <= Len(one)) /\ (n + 1) - Len(one) = n
    BY <1>3, <1>5, <2>2
  <2>5. 1 \in 1..(Len(one) + Len(ps)) /\ 1 <= Len(one)
    BY <1>3, <1>5, <2>2
  <2>6. words = one \o ps
    BY DEF one
  <2> HIDE DEF words
  <2>7. Len(words) = Len(paths) + 1
    BY <1>5, <2>2, <2>3, <2>6, <1>3
  <2>8. words[1] = host
    BY <2>2, <2>3, <2>5, <2>6
  <2>9. \A n \in 1..Len(paths) : words[n + 1] = ps[n]
    BY <2>3, <2>4, <2>6
  <2> QED BY <2>7, <2>8, <2>9
<1>14. ReadServer(ServerNameLoc(server)) = [host |-> words[1], paths |-> [n \in 1..(Len(words) - 1) |-> <<"/">> \o words[n + 1]]]
  BY <1>7, <1>8, <1>11 DEF ReadServer
<1> HIDE DEF words
<1>15. [n \in 1..(Len(words) - 1) |-> <<"/">> \o words[n + 1]] = paths
  <2>1. Len(words) - 1 = Len(paths)
    BY <1>3, <1>13
  <2>2. \A n \in 1..Len(paths) : <<"/">> \o words[n + 1] = paths[n]
    BY <1>3, <1>4, <1>13 DEF ps
  <2>3. [n \in 1..Len(paths) |-> <<"/">> \o words[n + 1]] = [n \in 1..Len(paths) |-> paths[n]]
    BY <2>2
  <2>4. paths = [n \in 1..Len(paths) |-> paths[n]]
    BY <1>2, <1>3
  <2> QED BY <2>1, <2>3, <2>4
<1> QED BY <1>1, <1>12, <1>13, <1>14, <1>15

LEMMA ReadDeleted ==
    ASSUME NEW W, W \cap {"/", "-"} = {}, NEW V, "/" \notin V,
           NEW id, id.ns \in Seq(V), id.name \in Seq(V), NEW servers \in Seq(Readable(W))
    PROVE  ReadKey(enqueueExtendIngress("Del", id, servers)) = [does |-> "delete", servers |-> servers]
<1> DEFINE U == V \cup W \cup {"-", "ExtendIngress", "Del"}
           T == U \cup {"/"}
           tag == <<"ExtendIngress", "Del">>
           meta == MetaNamespaceKey(id)
           front == tag \o <<"/">> \o meta
           locs == [k \in DOMAIN servers |-> ServerNameLoc(servers[k])]
           ss == [k \in DOMAIN servers |-> <<"/">> \o ServerNameLoc(servers[k])]
           parts == <<tag, id.ns, id.name>>
<1>1. "/" \notin U /\ tag \in Seq(U) /\ id.ns \in Seq(U) /\ id.name \in Seq(U)
  BY SeqMonotonic
<1>2. meta \in Seq(T) /\ tag \o <<"/">> \in Seq(T) /\ Split(front, "/") = parts
  BY <1>1, IdKey
<1>3. <<"ExtendIngress", "Del", "/">> = tag \o <<"/">>
  <2>1. "/" \in T /\ tag \in Seq(T)
    BY <1>1, SeqMonotonic
  <2>2. Append(tag, "/") = tag \o <<"/">>
    BY <2>1, AppendIsConcat
  <2> QED BY <2>2, Three
<1> HIDE DEF meta
<1>4. front \in Seq(T)
  <2> HIDE DEF T, tag
  <2> QED BY <1>2, ConcatProperties
<1>5. DOMAIN servers = 1..Len(servers) /\ Len(servers) \in Nat
  OBVIOUS
<1>6. \A k \in 1..Len(servers) : ServerNameLoc(servers[k]) \in Seq(U) /\ ReadServer(ServerNameLoc(servers[k])) = servers[k]
  <2> SUFFICES ASSUME NEW k \in 1..Len(servers)
               PROVE  ServerNameLoc(servers[k]) \in Seq(U) /\ ReadServer(ServerNameLoc(servers[k])) = servers[k]
    OBVIOUS
  <2>1. servers[k] \in Readable(W)
    BY ElementOfSeq
  <2>2. ServerNameLoc(servers[k]) \in Seq(W \cup {"-"}) /\ ReadServer(ServerNameLoc(servers[k])) = servers[k]
    BY <2>1, ReadBackServer
  <2>3. W \cup {"-"} \subseteq U
    OBVIOUS
  <2> HIDE DEF U
  <2> QED BY <2>2, <2>3, SeqMonotonic
<1>7. locs \in Seq(Seq(U)) /\ DOMAIN locs = 1..Len(servers) /\ Len(locs) = Len(servers)
  <2>1. locs \in [1..Len(servers) -> Seq(U)]
    BY <1>5, <1>6
  <2> QED BY <1>5, <2>1, SeqDef
<1>8. ss = [k \in DOMAIN locs |-> <<"/">> \o locs[k]]
  BY <1>5, <1>7
<1>9. Split(front \o FlattenSeq(ss), "/") = parts \o locs
  <2> HIDE DEF U, front, locs, ss, parts
  <2>1. Split(front \o FlattenSeq(ss), "/") = Split(front, "/") \o locs
    BY <1>1, <1>4, <1>7, <1>8, SplitJoined
  <2> QED BY <1>2, <2>1
<1>10. FlattenSeq(ss) \in Seq(T)
  <2>1. \A k \in 1..Len(servers) : <<"/">> \o ServerNameLoc(servers[k]) \in Seq(T)
    <3> SUFFICES ASSUME NEW k \in 1..Len(servers) PROVE <<"/">> \o ServerNameLoc(servers[k]) \in Seq(T)
      OBVIOUS
    <3>1. ServerNameLoc(servers[k]) \in Seq(T) /\ <<"/">> \in Seq(T)
      BY <1>6, SeqMonotonic
    <3> HIDE DEF T
    <3> QED BY <3>1, ConcatProperties
  <2>2. ss \in [1..Len(servers) -> Seq(T)]
    BY <1>5, <2>1
  <2>3. ss \in Seq(Seq(T))
    BY <1>5, <2>2, SeqDef
  <2> HIDE DEF T, ss
  <2> QED BY <2>3, JoinedIsText
<1> DEFINE text == front \o FlattenSeq(ss)
<1>11. enqueueExtendIngress("Del", id, servers) = text
  BY <1>3 DEF enqueueExtendIngress, meta
<1>12. Contains(text, "ExtendIngress") /\ Contains(text, "Del")
  <2>1. Contains(tag \o <<"/">>, "ExtendIngress") /\ Contains(tag \o <<"/">>, "Del")
    <3>1. Contains(<<"ExtendIngress", "Del", "/">>, "ExtendIngress") /\ Contains(<<"ExtendIngress", "Del", "/">>, "Del")
      BY DEF Contains
    <3> QED BY <1>3, <3>1
  <2>2. Contains(front, "ExtendIngress") /\ Contains(front, "Del")
    <3> HIDE DEF T, tag
    <3> QED BY <1>2, <2>1, ContainedBefore
  <2> HIDE DEF front, T, ss
  <2> QED BY <1>4, <1>10, <2>2, ContainedBefore
<1>13. ReadKey(text) = ReadDeletion(parts \o locs)
  <2>1. ReadKey(text) = ReadDeletion(Split(text, "/"))
    <3> HIDE DEF text
    <3> QED BY <1>12 DEF ReadKey
  <2> QED BY <1>9, <2>1
<1>14. /\ Len(parts \o locs) = Len(servers) + 3
       /\ \A k \in 1..Len(servers) : (parts \o locs)[k + 3] = locs[k]
  <2>1. parts \in Seq(Seq(U)) /\ Len(parts) = 3
    BY <1>1
  <2>2. locs \in Seq(Seq(U)) /\ Len(locs) = Len(servers)
    BY <1>7
  <2> HIDE DEF parts, locs, U
  <2>3. Len(parts \o locs) = Len(locs) + Len(parts) /\ \A k \in 1..Len(locs) : (parts \o locs)[k + Len(parts)] = locs[k]
    BY <2>1, <2>2, After
  <2> QED BY <2>1, <2>2, <2>3
<1>15. ReadDeletion(parts \o locs)
       = [does |-> "delete", servers |-> [k \in 1..Len(servers) |-> ReadServer((parts \o locs)[k + 3])]]
  <2> DEFINE all == parts \o locs
  <2>1. Len(all) = Len(servers) + 3
    BY <1>14
  <2> HIDE DEF all
  <2>2. ~(Len(all) < 3) /\ Len(all) - 3 = Len(servers)
    BY <1>5, <2>1
  <2>3. ReadDeletion(all) = [does |-> "delete", servers |-> [k \in 1..Len(servers) |-> ReadServer(all[k + 3])]]
    BY <2>2 DEF ReadDeletion
  <2> QED BY <2>3 DEF all
<1>16. [k \in 1..Len(servers) |-> ReadServer((parts \o locs)[k + 3])] = servers
  <2>1. \A k \in 1..Len(servers) : ReadServer((parts \o locs)[k + 3]) = servers[k]
    <3>1. \A k \in 1..Len(servers) : locs[k] = ServerNameLoc(servers[k])
      BY <1>5
    <3> HIDE DEF locs, parts
    <3> QED BY <1>6, <1>14, <3>1
  <2> HIDE DEF locs, parts
  <2>2. [k \in 1..Len(servers) |-> ReadServer((parts \o locs)[k + 3])] = [k \in 1..Len(servers) |-> servers[k]]
    BY <2>1
  <2>3. [k \in 1..Len(servers) |-> servers[k]] = servers
    BY <1>5
  <2> QED BY <2>2, <2>3
<1> HIDE DEF text, parts, locs
<1> QED BY <1>11, <1>13, <1>15, <1>16

\* A path and what is behind its slash.
Slashed(path, tail) == path = <<"/">> \o tail

Text(W, p) == p \in Seq(W)

EndpointsTask(ns, name, svc, port, path) ==
    [does |-> "endpoints", id |-> [ns |-> ns, name |-> name], svc |-> svc, port |-> port, path |-> path]

LEMMA ReadFive ==
    ASSUME NEW ns, NEW name, NEW svc, NEW port, NEW word
    PROVE  ReadProxyPass(<<ns, name, svc, port, word>>) = EndpointsTask(ns, name, svc, port, <<"/">> \o word)
<1> DEFINE words == <<ns, name, svc, port, word>>
<1>1. Len(words) = 5 /\ words[1] = ns /\ words[2] = name /\ words[3] = svc /\ words[4] = port /\ words[5] = word
  OBVIOUS
<1> HIDE DEF words
<1>2. Len(words) # 4
  BY <1>1
<1>3. ReadProxyPass(words) = EndpointsTask(words[1], words[2], words[3], words[4], <<"/">> \o words[5])
  BY <1>1, <1>2 DEF ReadProxyPass, EndpointsTask
<1> QED BY <1>1, <1>3 DEF words

\* The name of an upstream, its words one after the other.
IsReadBack(T, id, svc, port, path) ==
    /\ Text(T, ProxyPass(id, svc, port, path))
    /\ ReadProxyPass(Split(ProxyPass(id, svc, port, path), "_")) = EndpointsTask(id.ns, id.name, svc, port, path)

LEMMA ReadBackProxyPass ==
    ASSUME NEW W, "_" \notin W, NEW id, Text(W, id.ns), Text(W, id.name), NEW svc, Text(W, svc),
           NEW port, Text(W, port), NEW tail, Text(W, tail), NEW path, Slashed(path, tail)
    PROVE  IsReadBack(W \cup {"_"}, id, svc, port, path)
<1> DEFINE T == W \cup {"_"}
           one == <<"_">>
           ns == id.ns
           name == id.name
           a == ns \o one
           b == a \o name
           c == b \o one
           d == c \o svc
           e == d \o one
           f == e \o port
<1>1. one \in Seq(T) /\ ns \in Seq(W) /\ name \in Seq(W) /\ svc \in Seq(W) /\ port \in Seq(W) /\ tail \in Seq(W)
  <2>1. "_" \in T
    OBVIOUS
  <2>2. one \in Seq(T)
    BY <2>1, OneToken
  <2> HIDE DEF one
  <2> QED BY <2>2 DEF Text
<1>2. ns \in Seq(T) /\ name \in Seq(T) /\ svc \in Seq(T) /\ port \in Seq(T) /\ tail \in Seq(T)
  <2>1. W \subseteq T
    OBVIOUS
  <2> HIDE DEF T, ns, name, one
  <2> QED BY <1>1, <2>1, SeqMonotonic
<1> HIDE DEF ns, name, one
<1>3. a \in Seq(T)
  BY <1>1, <1>2, ConcatProperties
<1> HIDE DEF a
<1>4. b \in Seq(T) /\ Split(b, "_") = <<ns, name>>
  <2>1. Split(ns, "_") = <<ns>>
    BY <1>1, SplitOne
  <2>2. Split(b, "_") = Append(<<ns>>, name)
    BY <1>1, <1>2, <2>1, SplitPart DEF a, one
  <2>3. Append(<<ns>>, name) = <<ns, name>>
    BY Two
  <2>4. b \in Seq(T)
    BY <1>2, <1>3, ConcatProperties
  <2> QED BY <2>2, <2>3, <2>4
<1> HIDE DEF b
<1>5. c \in Seq(T)
  BY <1>1, <1>4, ConcatProperties
<1>6. d \in Seq(T) /\ Split(d, "_") = <<ns, name, svc>>
  <2>1. Split(d, "_") = Append(<<ns, name>>, svc)
    BY <1>1, <1>4, SplitPart DEF one
  <2>2. Append(<<ns, name>>, svc) = <<ns, name, svc>>
    BY Three
  <2>3. d \in Seq(T)
    <3> HIDE DEF c
    <3> QED BY <1>2, <1>5, ConcatProperties
  <2> QED BY <2>1, <2>2, <2>3
<1> HIDE DEF d
<1>7. e \in Seq(T)
  BY <1>1, <1>6, ConcatProperties
<1>8. f \in Seq(T) /\ Split(f, "_") = <<ns, name, svc, port>>
  <2>1. Split(f, "_") = Append(<<ns, name, svc>>, port)
    BY <1>1, <1>6, SplitPart DEF one
  <2>2. Append(<<ns, name, svc>>, port) = <<ns, name, svc, port>>
    BY Four
  <2>3. f \in Seq(T)
    <3> HIDE DEF e
    <3> QED BY <1>2, <1>7, ConcatProperties
  <2> QED BY <2>1, <2>2, <2>3
<1> HIDE DEF f
<1>9. ProxyPass(id, svc, port, path) = f \o (IF path = <<"/">> THEN <<>> ELSE one \o Tail(path))
  BY DEF ProxyPass, f, e, d, c, b, a, ns, name, one
<1>10. Tail(path) = tail /\ (path = <<"/">> <=> tail = <<>>)
  <2>1. "/" \in W \cup {"/"} /\ tail \in Seq(W \cup {"/"})
    BY <1>1, SeqMonotonic
  <2>2. Tail(<<"/">> \o tail) = tail /\ (<<"/">> \o tail = <<"/">> <=> tail = <<>>)
    BY <2>1, HeadAndTail
  <2> QED BY <2>2 DEF Slashed
<1>11. CASE tail = <<>>
  <2>1. ProxyPass(id, svc, port, path) = f
    <3>1. f \o <<>> = f
      BY <1>8, ConcatEmptySeq
    <3> QED BY <1>9, <1>10, <1>11, <3>1
  <2>2. ReadProxyPass(<<ns, name, svc, port>>) = EndpointsTask(ns, name, svc, port, <<"/">>)
    BY DEF ReadProxyPass, EndpointsTask
  <2>3. path = <<"/">>
    BY <1>10, <1>11
  <2>4. ReadProxyPass(Split(ProxyPass(id, svc, port, path), "_")) = EndpointsTask(ns, name, svc, port, path)
    BY <1>8, <2>1, <2>2, <2>3
  <2> QED BY <1>8, <2>1, <2>4 DEF ns, name, Text, IsReadBack
<1>12. CASE tail # <<>>
  <2>1. ProxyPass(id, svc, port, path) = f \o (one \o tail)
    BY <1>9, <1>10, <1>12
  <2>2. f \o (one \o tail) = f \o one \o tail
    <3>1. Associates(f, one, tail)
      BY <1>1, <1>2, <1>8, Associative
    <3> QED BY <3>1 DEF Associates
  <2>3. Split(f \o one \o tail, "_") = Append(<<ns, name, svc, port>>, tail)
    BY <1>1, <1>8, SplitPart DEF one
  <2>4. Append(<<ns, name, svc, port>>, tail) = <<ns, name, svc, port, tail>>
    BY Five
  <2>5. ReadProxyPass(<<ns, name, svc, port, tail>>) = EndpointsTask(ns, name, svc, port, <<"/">> \o tail)
    BY ReadFive
  <2>6. ProxyPass(id, svc, port, path) \in Seq(T)
    <3>1. one \o tail \in Seq(T)
      BY <1>1, <1>2, ConcatProperties
    <3> DEFINE more == one \o tail
    <3> HIDE DEF more
    <3>2. f \o more \in Seq(T)
      BY <1>8, <3>1, ConcatProperties DEF more
    <3> QED BY <2>1, <3>2 DEF more
  <2>7. path = <<"/">> \o tail
    BY DEF Slashed
  <2>8. ReadProxyPass(Split(ProxyPass(id, svc, port, path), "_")) = EndpointsTask(ns, name, svc, port, path)
    BY <2>1, <2>2, <2>3, <2>4, <2>5, <2>7
  <2> QED BY <2>6, <2>8 DEF ns, name, Text, IsReadBack
<1> QED BY <1>11, <1>12

\* The first "/" of the key of an event of endpoints is behind its tag.
LEMMA EndpointText ==
    ASSUME NEW T, "ExtendIngress" \notin T, "Endpoint" \in T, "/" \in T, NEW event \in T, event # "/",
           NEW pass \in Seq(T)
    PROVE  ReadKey(enqueueEndpoint(event, pass)) = ReadProxyPass(Split(pass, "_"))
<1> DEFINE front == <<"Endpoint", event, "/">>
           text == front \o pass
           I == {i \in 1..Len(text) : text[i] = "/"}
<1>4. front \in Seq(T) /\ Len(front) = 3 /\ front[1] = "Endpoint" /\ front[2] = event /\ front[3] = "/"
  OBVIOUS
<1> HIDE DEF front
<1>6. text \in Seq(T) /\ Len(text) = Len(pass) + 3 /\ Len(pass) \in Nat /\ \A k \in 1..Len(pass) : text[k + 3] = pass[k]
  <2>1. text \in Seq(T)
    BY <1>4, ConcatProperties
  <2>2. Len(text) = Len(pass) + Len(front)
    BY <1>4, After
  <2>3. \A k \in 1..Len(pass) : text[k + Len(front)] = pass[k]
    BY <1>4, After
  <2>4. Len(pass) \in Nat
    OBVIOUS
  <2> HIDE DEF text
  <2> QED BY <1>4, <2>1, <2>2, <2>3, <2>4
<1>7. text[1] = "Endpoint" /\ text[2] = event /\ text[3] = "/"
  <2>1. \A i \in 1..(Len(front) + Len(pass)) : text[i] = IF i <= Len(front) THEN front[i] ELSE pass[i - Len(front)]
    BY <1>4, ConcatProperties
  <2> HIDE DEF text
  <2> QED BY <1>4, <1>6, <2>1
<1>8. SubSeq(text, 4, Len(text)) = pass
  <2> DEFINE rest == SubSeq(text, 4, Len(text))
  <2>1. \A k \in 1..Len(pass) : text[k + 3] = pass[k]
    BY <1>6
  <2> HIDE DEF text
  <2>2. \A i \in 4..Len(text) : text[i] \in T
    <3>1. \A i \in 4..Len(text) : i \in 1..Len(text)
      BY <1>6
    <3> QED BY <1>6, <3>1, ElementOfSeq
  <2>3. Len(text) \in Int /\ 4 \in Int
    BY <1>6
  <2>4. /\ rest \in Seq(T)
        /\ Len(rest) = IF 4 <= Len(text) THEN Len(text) - 4 + 1 ELSE 0
        /\ \A i \in 1..(Len(text) - 4 + 1) : rest[i] = text[4 + i - 1]
    BY <2>2, <2>3, SubSeqProperties
  <2> HIDE DEF rest
  <2>5. Len(rest) = Len(pass)
    BY <1>6, <2>4
  <2>6. \A i \in 1..Len(rest) : rest[i] = pass[i]
    <3> SUFFICES ASSUME NEW i \in 1..Len(rest) PROVE rest[i] = pass[i]
      OBVIOUS
    <3>1. i \in 1..(Len(text) - 4 + 1) /\ 4 + i - 1 = i + 3 /\ i \in 1..Len(pass)
      BY <1>6, <2>5
    <3> QED BY <2>1, <2>4, <3>1
  <2>7. rest = pass
    BY <2>4, <2>5, <2>6, SeqEqual
  <2> QED BY <2>7 DEF rest
<1>9. SelectInSeq(text, LAMBDA t : t = "/") = 3
  <2> HIDE DEF text
  <2>1. I \subseteq Nat /\ 3 \in I /\ 1 \notin I /\ 2 \notin I /\ 0 \notin I
    BY <1>6, <1>7
  <2>2. \A i \in I : 3 <= i
    <3> HIDE DEF I
    <3>1. \A i \in I : i \in Nat /\ i # 0 /\ i # 1 /\ i # 2
      BY <2>1
    <3> QED BY <3>1
  <2>3. Min(I) = 3
    <3> HIDE DEF I
    <3>1. \A i \in I : (\A j \in I : j >= i) => i = 3
      BY <2>1, <2>2
    <3> QED BY <2>1, <2>2, <3>1 DEF Min
  <2> QED BY <2>1, <2>3 DEF SelectInSeq
<1>10. ~Contains(text, "ExtendIngress") /\ Contains(text, "Endpoint")
  <2>1. 1 \in 1..Len(text)
    BY <1>6
  <2> HIDE DEF text
  <2> QED BY <1>6, <1>7, <2>1, NotContained DEF Contains
<1>11. ReadKey(text) = ReadProxyPass(Split(pass, "_"))
  <2> HIDE DEF text
  <2>1. ReadKey(text) = ReadEndpoint(text)
    BY <1>10 DEF ReadKey
  <2>2. ReadEndpoint(text) = ReadProxyPass(Split(SubSeq(text, 1 + 3, Len(text)), "_"))
    BY <1>9 DEF ReadEndpoint
  <2>3. 1 + 3 = 4
    OBVIOUS
  <2> QED BY <1>8, <2>1, <2>2, <2>3
<1> QED BY <1>11 DEF enqueueEndpoint, front

EndpointWords(W, V, id, svc, port, path, tail, event) ==
    /\ W \cap {"_", "ExtendIngress"} = {} /\ Text(W, id.ns) /\ Text(W, id.name) /\ Text(W, svc) /\ Text(W, port)
    /\ V \cap {"_", "ExtendIngress"} = {} /\ Text(V, tail) /\ Slashed(path, tail)
    /\ event \in {"ADD", "Update", "Del"}

LEMMA ReadBackEndpoints ==
    ASSUME NEW W, NEW V, NEW id, NEW svc, NEW port, NEW path, NEW tail, NEW event,
           EndpointWords(W, V, id, svc, port, path, tail, event)
    PROVE  ReadKey(enqueueEndpoint(event, ProxyPass(id, svc, port, path)))
           = EndpointsTask(id.ns, id.name, svc, port, path)
<1> SUFFICES ASSUME W \cap {"_", "ExtendIngress"} = {}, Text(W, id.ns), Text(W, id.name),
                    Text(W, svc), Text(W, port), V \cap {"_", "ExtendIngress"} = {}, Text(V, tail),
                    Slashed(path, tail), event \in {"ADD", "Update", "Del"}
             PROVE  ReadKey(enqueueEndpoint(event, ProxyPass(id, svc, port, path)))
                    = EndpointsTask(id.ns, id.name, svc, port, path)
  BY DEF EndpointWords
<1> DEFINE U == W \cup V
           T == U \cup {"_", "/", "Endpoint", event}
           pass == ProxyPass(id, svc, port, path)
<1>1. \A p : (Text(W, p) => Text(U, p)) /\ (Text(V, p) => Text(U, p))
  BY SeqMonotonic DEF Text
<1>2. Text(U, id.ns) /\ Text(U, id.name) /\ Text(U, svc) /\ Text(U, port) /\ Text(U, tail)
  <2> HIDE DEF U
  <2> QED BY <1>1
<1>3. "_" \notin U
  OBVIOUS
<1>4. Text(U \cup {"_"}, pass) /\ ReadProxyPass(Split(pass, "_")) = EndpointsTask(id.ns, id.name, svc, port, path)
  <2> HIDE DEF U
  <2>1. IsReadBack(U \cup {"_"}, id, svc, port, path)
    BY <1>2, <1>3, ReadBackProxyPass
  <2> QED BY <2>1 DEF IsReadBack
<1>5. Text(U \cup {"_"}, pass) => pass \in Seq(T)
  <2>1. U \cup {"_"} \subseteq T
    OBVIOUS
  <2> HIDE DEF T, U, pass
  <2>2. \A p : Text(U \cup {"_"}, p) => p \in Seq(T)
    BY <2>1, SeqMonotonic DEF Text
  <2> QED BY <2>2
<1>6. "ExtendIngress" \notin T /\ "Endpoint" \in T /\ "/" \in T /\ event \in T /\ event # "/"
  OBVIOUS
<1>7. ReadKey(enqueueEndpoint(event, pass)) = ReadProxyPass(Split(pass, "_"))
  <2> HIDE DEF T, pass
  <2> QED BY <1>4, <1>5, <1>6, EndpointText
<1> QED BY <1>4, <1>7

LEMMA ReadBackConfigmap ==
    ASSUME NEW W, W \cap {"/", "ExtendIngress", "Endpoint"} = {}, NEW id, id.ns \in Seq(W), id.name \in Seq(W),
           NEW event \in {"ADD", "Update", "Del"}, NEW conf \in {"common", "event", "http"}
    PROVE  ReadKey(handleConfigmapObj(event, conf, id))
           = [does |-> "configmap", conf |-> {conf}, id |-> [ns |-> id.ns, name |-> id.name]]
<1> DEFINE V == W \cup {"Configmap", event, "-", conf}
           T == V \cup {"/"}
           tag == <<"Configmap", event, "-", conf>>
           meta == MetaNamespaceKey(id)
           text == tag \o <<"/">> \o meta
<1>1. "/" \notin V /\ tag \in Seq(V) /\ id.ns \in Seq(V) /\ id.name \in Seq(V)
  BY SeqMonotonic
<1>2. meta \in Seq(T) /\ tag \o <<"/">> \in Seq(T) /\ Split(text, "/") = <<tag, id.ns, id.name>>
  BY <1>1, IdKey
<1>3. tag \o <<"/">> = <<"Configmap", event, "-", conf, "/">>
  <2>1. "/" \in T /\ tag \in Seq(T)
    BY <1>1, SeqMonotonic
  <2>2. Append(tag, "/") = tag \o <<"/">>
    BY <2>1, AppendIsConcat
  <2>3. Append(tag, "/") = <<"Configmap", event, "-", conf, "/">>
    BY Five
  <2> QED BY <2>2, <2>3
<1> HIDE DEF meta
<1>4. text \in Seq(T)
  <2> HIDE DEF T, tag
  <2> QED BY <1>2, ConcatProperties
<1>5. "ExtendIngress" \notin T /\ "Endpoint" \notin T
  OBVIOUS
<1>6. ~Contains(text, "ExtendIngress") /\ ~Contains(text, "Endpoint")
  <2> HIDE DEF text, T
  <2> QED BY <1>4, <1>5, NotContained
<1>7. ReadKey(text) = ReadConfigmap(<<tag, id.ns, id.name>>)
  <2>1. ReadKey(text) = ReadConfigmap(Split(text, "/"))
    <3> HIDE DEF text
    <3> QED BY <1>6 DEF ReadKey
  <2> HIDE DEF text, tag
  <2> QED BY <1>2, <2>1
<1>8. {c \in {"common", "event", "http"} : Contains(tag, c)} = {conf}
  <2>1. Len(tag) = 4 /\ tag[1] = "Configmap" /\ tag[2] = event /\ tag[3] = "-" /\ tag[4] = conf
    OBVIOUS
  <2> HIDE DEF tag
  <2>2. 4 \in 1..Len(tag)
    BY <2>1
  <2>3. Contains(tag, conf)
    BY <2>1, <2>2 DEF Contains
  <2>4. \A i \in 1..Len(tag) : i = 1 \/ i = 2 \/ i = 3 \/ i = 4
    BY <2>1
  <2>5. \A c \in {"common", "event", "http"} : Contains(tag, c) => c = conf
    BY <2>1, <2>4 DEF Contains
  <2> QED BY <2>3, <2>5
<1>9. ReadConfigmap(<<tag, id.ns, id.name>>)
      = [does |-> "configmap", conf |-> {c \in {"common", "event", "http"} : Contains(tag, c)},
         id |-> [ns |-> id.ns, name |-> id.name]]
  <2> HIDE DEF tag
  <2> QED BY DEF ReadConfigmap
<1>10. handleConfigmapObj(event, conf, id) = text
  BY <1>3 DEF handleConfigmapObj, meta
<1> HIDE DEF text, tag
<1> QED BY <1>7, <1>8, <1>9, <1>10

\* A name of four words, as a word and the rest of the name.
RegroupWords(a, b, c, d) ==
    a \o <<"_">> \o b \o <<"_">> \o c \o <<"_">> \o d = a \o <<"_">> \o (b \o <<"_">> \o (c \o <<"_">> \o d))

LEMMA FourWords ==
    ASSUME NEW T, "_" \in T, NEW a \in Seq(T), NEW b \in Seq(T), NEW c \in Seq(T), NEW d \in Seq(T)
    PROVE  RegroupWords(a, b, c, d)
<1> DEFINE one == <<"_">>
           a1 == a \o one
           b1 == b \o one
           c1 == c \o one
<1>1. one \in Seq(T)
  BY OneToken
<1> HIDE DEF one
<1>2. a1 \in Seq(T) /\ b1 \in Seq(T) /\ c1 \in Seq(T)
  BY <1>1, ConcatProperties
<1> HIDE DEF a1, b1, c1
<1>3. c1 \o d \in Seq(T)
  BY <1>2, ConcatProperties
<1>4. b1 \o (c1 \o d) \in Seq(T) /\ a1 \o b \in Seq(T) /\ (a1 \o b) \o one \in Seq(T)
  <2>1. b1 \o (c1 \o d) \in Seq(T)
    BY <1>2, <1>3, ConcatProperties
  <2>2. a1 \o b \in Seq(T)
    BY <1>2, ConcatProperties
  <2> DEFINE ab == a1 \o b
  <2> HIDE DEF ab
  <2>3. ab \o one \in Seq(T)
    BY <1>1, <2>2, ConcatProperties DEF ab
  <2> QED BY <2>1, <2>2, <2>3 DEF ab
<1>5. a1 \o b1 \in Seq(T) /\ (a1 \o b1) \o c \in Seq(T)
  <2> DEFINE ab == a1 \o b1
  <2>1. ab \in Seq(T)
    BY <1>2, ConcatProperties
  <2> HIDE DEF ab
  <2>2. ab \o c \in Seq(T)
    BY <2>1, ConcatProperties
  <2> QED BY <2>1, <2>2 DEF ab
<1>6. Associates(a1, b, one) /\ Associates(a1 \o b1, c, one) /\ Associates(a1 \o b1, c1, d) /\ Associates(a1, b1, c1 \o d)
  BY <1>1, <1>2, <1>3, <1>5, Associative
<1>7. (a1 \o b) \o one = a1 \o b1
  BY <1>6 DEF Associates, b1
<1>8. ((a1 \o b1) \o c) \o one = (a1 \o b1) \o c1
  BY <1>6 DEF Associates, c1
<1>9. ((a1 \o b1) \o c1) \o d = (a1 \o b1) \o (c1 \o d)
  BY <1>6 DEF Associates
<1>10. (a1 \o b1) \o (c1 \o d) = a1 \o (b1 \o (c1 \o d))
  BY <1>6 DEF Associates
<1>11. a1 \o b \o one \o c \o one \o d = a1 \o (b1 \o (c1 \o d))
  BY <1>7, <1>8, <1>9, <1>10
<1> QED BY <1>11 DEF a1, b1, c1, one, RegroupWords

\* What a path adds to the name of its upstream.
Behind(path) == IF path = <<"/">> THEN <<>> ELSE <<"_">> \o Tail(path)

InWords(id, svc, port, path) ==
    ProxyPass(id, svc, port, path)
    = id.ns \o <<"_">> \o (id.name \o <<"_">> \o (svc \o <<"_">> \o (port \o Behind(path))))

LEMMA ProxyPassWords ==
    ASSUME NEW T, "_" \in T, NEW id, id.ns \in Seq(T), id.name \in Seq(T), NEW svc \in Seq(T), NEW port \in Seq(T),
           NEW path, Behind(path) \in Seq(T)
    PROVE  InWords(id, svc, port, path)
<1> DEFINE a == id.ns
           b == id.name
           last == Behind(path)
           front == a \o <<"_">> \o b \o <<"_">> \o svc \o <<"_">>
           words == a \o <<"_">> \o (b \o <<"_">> \o (svc \o <<"_">> \o (port \o last)))
<1>1. a \in Seq(T) /\ b \in Seq(T) /\ last \in Seq(T)
  OBVIOUS
<1>2. ProxyPass(id, svc, port, path) = front \o port \o last
  BY DEF ProxyPass, Behind
<1> HIDE DEF a, b, last
<1>3. front \in Seq(T)
  <2> DEFINE one == <<"_">>
  <2>1. one \in Seq(T)
    BY OneToken
  <2> HIDE DEF one
  <2> DEFINE p == a \o one
  <2>2. p \in Seq(T)
    BY <1>1, <2>1, ConcatProperties
  <2> HIDE DEF p
  <2> DEFINE q == p \o b
  <2>3. q \in Seq(T)
    BY <1>1, <2>2, ConcatProperties
  <2> HIDE DEF q
  <2> DEFINE u == q \o one
  <2>4. u \in Seq(T)
    BY <2>1, <2>3, ConcatProperties
  <2> HIDE DEF u
  <2> DEFINE v == u \o svc
  <2>5. v \in Seq(T)
    BY <2>4, ConcatProperties
  <2> HIDE DEF v
  <2>6. v \o one \in Seq(T)
    BY <2>1, <2>5, ConcatProperties
  <2> QED BY <2>6 DEF v, u, q, p, one
<1>4. port \o last \in Seq(T)
  BY <1>1, ConcatProperties
<1>5. front \o (port \o last) = words
  <2> DEFINE d == port \o last
  <2> HIDE DEF d
  <2>1. d \in Seq(T)
    BY <1>4 DEF d
  <2>2. RegroupWords(a, b, svc, d)
    BY <1>1, <2>1, FourWords
  <2> QED BY <2>2 DEF d, RegroupWords
<1>6. front \o port \o last = front \o (port \o last)
  <2> HIDE DEF front
  <2>1. Associates(front, port, last)
    BY <1>1, <1>3, Associative
  <2> QED BY <2>1 DEF Associates
<1>7. ProxyPass(id, svc, port, path) = words
  <2> HIDE DEF front, words
  <2> QED BY <1>2, <1>5, <1>6
<1> QED BY <1>7 DEF a, b, last, InWords

Follows(p, one, z) == (p \o one \o z)[Len(p) + 1] = one[1]

LEMMA Following ==
    ASSUME NEW T, NEW p \in Seq(T), NEW one \in Seq(T), Len(one) = 1, NEW z \in Seq(T)
    PROVE  Follows(p, one, z)
BY Beginning DEF Follows

LEMMA Larger == ASSUME NEW m \in Nat, NEW n \in Nat, NEW l, l = m + (1 + n) PROVE n + 1 \in 1..l
OBVIOUS

\* A word, and perhaps something behind a separator.
LEMMA LastWord ==
    ASSUME NEW W, "_" \notin W, NEW T, W \cup {"_"} \subseteq T,
           NEW p \in Seq(W), NEW q \in Seq(W), NEW s \in Seq(T)
    PROVE  p \o (<<"_">> \o s) # q
<1> DEFINE one == <<"_">>
<1>1. one \in Seq(T) /\ Len(one) = 1 /\ one[1] = "_"
  <2>1. "_" \in T
    OBVIOUS
  <2> QED BY <2>1, OneToken
<1> HIDE DEF one
<1>2. p \in Seq(T) /\ q \in Seq(T)
  BY SeqMonotonic
<1>3. p \o (one \o s) = p \o one \o s
  <2>1. Associates(p, one, s)
    BY <1>1, <1>2, Associative
  <2> QED BY <2>1 DEF Associates
<1>4. (p \o one \o s)[Len(p) + 1] = "_"
  <2>1. Follows(p, one, s)
    BY <1>1, <1>2, Following
  <2> QED BY <1>1, <2>1 DEF Follows
<1>5. Len(p \o one \o s) = Len(s) + (1 + Len(p))
  <2>1. p \o one \in Seq(T) /\ Len(p \o one) = 1 + Len(p)
    <3>1. Len(p \o one) = Len(one) + Len(p)
      BY <1>1, <1>2, After
    <3>2. p \o one \in Seq(T)
      BY <1>1, <1>2, ConcatProperties
    <3> QED BY <1>1, <3>1, <3>2
  <2> DEFINE u == p \o one
  <2> HIDE DEF u
  <2>2. u \in Seq(T) /\ Len(u) = 1 + Len(p)
    BY <2>1 DEF u
  <2>3. Len(u \o s) = Len(s) + Len(u)
    BY <2>2, After
  <2> QED BY <2>2, <2>3 DEF u
<1>6. SUFFICES ASSUME p \o (one \o s) = q PROVE FALSE
  BY DEF one
<1>7. Len(p) + 1 \in 1..Len(q)
  <2>1. Len(q) = Len(s) + (1 + Len(p))
    BY <1>3, <1>5, <1>6
  <2>2. Len(p) \in Nat /\ Len(s) \in Nat
    BY LenProperties
  <2> HIDE <1>6
  <2> QED BY <2>1, <2>2, Larger
<1>8. q[Len(p) + 1] \in W
  BY <1>7, ElementOfSeq
<1> QED BY <1>3, <1>4, <1>6, <1>8

\* Upstreams have their names for themselves: the words of a name are
\* determined one after the other, whatever the path contains.
IsLocation(W, T, id, svc, port, path) ==
    /\ id.ns \in Seq(W) /\ id.name \in Seq(W) /\ svc \in Seq(W) /\ port \in Seq(W)
    /\ \E tail \in Seq(T) : Slashed(path, tail)

LocationWords(T, id, svc, port, path, a, b, c) ==
    /\ ProxyPass(id, svc, port, path) = id.ns \o <<"_">> \o a
    /\ a \in Seq(T) /\ a = id.name \o <<"_">> \o b
    /\ b \in Seq(T) /\ b = svc \o <<"_">> \o c
    /\ c \in Seq(T) /\ c = port \o Behind(path)
    /\ Tail(path) \in Seq(T) /\ path = <<"/">> \o Tail(path)

LEMMA OneLocation ==
    ASSUME NEW W, NEW T, W \cup {"_", "/"} \subseteq T,
           NEW id, NEW svc, NEW port, NEW path, IsLocation(W, T, id, svc, port, path)
    PROVE  \E a, b, c : LocationWords(T, id, svc, port, path, a, b, c)
<1>1. PICK tail \in Seq(T) : Slashed(path, tail)
  BY DEF IsLocation
<1>2. Tail(path) = tail /\ path = <<"/">> \o tail /\ Tail(path) \in Seq(T)
  <2>1. "/" \in T
    OBVIOUS
  <2>2. Tail(<<"/">> \o tail) = tail
    BY <2>1, HeadAndTail
  <2> QED BY <1>1, <2>2 DEF Slashed
<1>3. Behind(path) \in Seq(T)
  <2>1. "_" \in T
    OBVIOUS
  <2>2. <<"_">> \o tail \in Seq(T) /\ <<>> \in Seq(T)
    <3>1. <<"_">> \o tail \in Seq(T)
      BY <2>1, HeadAndTail
    <3> QED BY <3>1, EmptySeq
  <2> QED BY <1>2, <2>2 DEF Behind
<1>4. id.ns \in Seq(T) /\ id.name \in Seq(T) /\ svc \in Seq(T) /\ port \in Seq(T)
  <2>1. W \subseteq T
    OBVIOUS
  <2> QED BY <2>1, SeqMonotonic DEF IsLocation
<1> DEFINE last == Behind(path)
           name == id.name
           one == <<"_">>
<1> HIDE DEF last, name, one
<1>5. last \in Seq(T) /\ name \in Seq(T) /\ one \in Seq(T)
  BY <1>3, <1>4, OneToken DEF last, name, one
<1> DEFINE c == port \o last
<1>6. c \in Seq(T)
  BY <1>4, <1>5, ConcatProperties
<1> HIDE DEF c
<1> DEFINE b == (svc \o one) \o c
<1>7. b \in Seq(T)
  <2>1. svc \o one \in Seq(T)
    BY <1>4, <1>5, ConcatProperties
  <2> DEFINE u == svc \o one
  <2> HIDE DEF u
  <2>2. u \o c \in Seq(T)
    BY <1>6, <2>1, ConcatProperties DEF u
  <2> QED BY <2>2 DEF u
<1> HIDE DEF b
<1> DEFINE a == (name \o one) \o b
<1>8. a \in Seq(T)
  <2>1. name \o one \in Seq(T)
    BY <1>5, ConcatProperties
  <2> DEFINE u == name \o one
  <2> HIDE DEF u
  <2>2. u \o b \in Seq(T)
    BY <1>7, <2>1, ConcatProperties DEF u
  <2> QED BY <2>2 DEF u
<1> HIDE DEF a
<1>9. ProxyPass(id, svc, port, path) = id.ns \o <<"_">> \o a
  <2>1. "_" \in T
    OBVIOUS
  <2>2. InWords(id, svc, port, path)
    BY <1>3, <1>4, <2>1, ProxyPassWords
  <2> QED BY <2>2 DEF a, b, c, last, name, one, InWords
<1>10. a = id.name \o <<"_">> \o b
  BY DEF a, name, one
<1>11. b = svc \o <<"_">> \o c
  BY DEF b, one
<1>12. c = port \o Behind(path)
  BY DEF c, last
<1>13. LocationWords(T, id, svc, port, path, a, b, c)
  BY <1>2, <1>6, <1>7, <1>8, <1>9, <1>10, <1>11, <1>12 DEF LocationWords
<1> QED BY <1>13

SameLocation(id, svc, port, path, jd, tvc, qort, qath) ==
    id.ns = jd.ns /\ id.name = jd.name /\ svc = tvc /\ port = qort /\ path = qath

LEMMA OneProxyPass ==
    ASSUME NEW W, "_" \notin W, NEW T, W \cup {"_", "/"} \subseteq T,
           NEW id, NEW svc, NEW port, NEW path, IsLocation(W, T, id, svc, port, path),
           NEW jd, NEW tvc, NEW qort, NEW qath, IsLocation(W, T, jd, tvc, qort, qath),
           ProxyPass(id, svc, port, path) = ProxyPass(jd, tvc, qort, qath)
    PROVE  SameLocation(id, svc, port, path, jd, tvc, qort, qath)
<1>0. W \cup {"_"} \subseteq T
  OBVIOUS
<1>1. /\ id.ns \in Seq(W) /\ id.name \in Seq(W) /\ svc \in Seq(W) /\ port \in Seq(W)
      /\ jd.ns \in Seq(W) /\ jd.name \in Seq(W) /\ tvc \in Seq(W) /\ qort \in Seq(W)
  BY DEF IsLocation
<1>2. PICK r1, r2, r3 : LocationWords(T, id, svc, port, path, r1, r2, r3)
  BY OneLocation
<1>3. PICK q1, q2, q3 : LocationWords(T, jd, tvc, qort, qath, q1, q2, q3)
  BY OneLocation
<1>4. /\ r1 \in Seq(T) /\ r2 \in Seq(T) /\ r3 \in Seq(T) /\ Tail(path) \in Seq(T)
      /\ q1 \in Seq(T) /\ q2 \in Seq(T) /\ q3 \in Seq(T) /\ Tail(qath) \in Seq(T)
  BY <1>2, <1>3 DEF LocationWords
<1>8. id.ns = jd.ns /\ r1 = q1
  <2>1. BothBegin("_", id.ns, r1, jd.ns, q1)
    BY <1>2, <1>3 DEF LocationWords, BothBegin
  <2>2. id.ns \in Seq(W) /\ jd.ns \in Seq(W) /\ r1 \in Seq(T) /\ q1 \in Seq(T)
    BY <1>1, <1>4
  <2> QED BY <1>0, <2>1, <2>2, Prefix
<1>9. id.name = jd.name /\ r2 = q2
  <2>1. BothBegin("_", id.name, r2, jd.name, q2)
    BY <1>2, <1>3, <1>8 DEF LocationWords, BothBegin
  <2>2. id.name \in Seq(W) /\ jd.name \in Seq(W) /\ r2 \in Seq(T) /\ q2 \in Seq(T)
    BY <1>1, <1>4
  <2> QED BY <1>0, <2>1, <2>2, Prefix
<1>10. svc = tvc /\ r3 = q3
  <2>1. BothBegin("_", svc, r3, tvc, q3)
    BY <1>2, <1>3, <1>9 DEF LocationWords, BothBegin
  <2>2. svc \in Seq(W) /\ tvc \in Seq(W) /\ r3 \in Seq(T) /\ q3 \in Seq(T)
    BY <1>1, <1>4
  <2> QED BY <1>0, <2>1, <2>2, Prefix
<1>11. port = qort /\ path = qath
  <2> DEFINE s == Tail(path)
             t == Tail(qath)
  <2>1. s \in Seq(T) /\ path = <<"/">> \o s /\ t \in Seq(T) /\ qath = <<"/">> \o t
    BY <1>2, <1>3 DEF LocationWords
  <2>2. port \o Behind(path) = qort \o Behind(qath)
    BY <1>2, <1>3, <1>10 DEF LocationWords
  <2>3. port \o <<>> = port /\ qort \o <<>> = qort
    BY <1>1, ConcatEmptySeq
  <2>4. (path # <<"/">> => Behind(path) = <<"_">> \o s) /\ (path = <<"/">> => Behind(path) = <<>>)
    BY DEF Behind
  <2>5. (qath # <<"/">> => Behind(qath) = <<"_">> \o t) /\ (qath = <<"/">> => Behind(qath) = <<>>)
    BY DEF Behind
  <2> HIDE DEF s, t
  <2>6. CASE path = <<"/">> /\ qath = <<"/">>
    BY <2>2, <2>3, <2>4, <2>5, <2>6
  <2>7. CASE path = <<"/">> /\ qath # <<"/">>
    <3>1. qort \o (<<"_">> \o t) = port
      BY <2>2, <2>3, <2>4, <2>5, <2>7
    <3>2. qort \o (<<"_">> \o t) # port
      BY <1>0, <1>1, <2>1, LastWord
    <3> QED BY <3>1, <3>2
  <2>8. CASE path # <<"/">> /\ qath = <<"/">>
    <3>1. port \o (<<"_">> \o s) = qort
      BY <2>2, <2>3, <2>4, <2>5, <2>8
    <3>2. port \o (<<"_">> \o s) # qort
      BY <1>0, <1>1, <2>1, LastWord
    <3> QED BY <3>1, <3>2
  <2>9. CASE path # <<"/">> /\ qath # <<"/">>
    <3>1. port \o (<<"_">> \o s) = qort \o (<<"_">> \o t)
      BY <2>2, <2>4, <2>5, <2>9
    <3>2. port \o (<<"_">> \o s) = port \o <<"_">> \o s /\ qort \o (<<"_">> \o t) = qort \o <<"_">> \o t
      <4> DEFINE one == <<"_">>
      <4>1. one \in Seq(T)
        <5>1. "_" \in T
          BY <1>0
        <5> QED BY <5>1, OneToken
      <4>2. port \in Seq(T) /\ qort \in Seq(T)
        <5>1. W \subseteq T
          BY <1>0
        <5> QED BY <1>1, <5>1, SeqMonotonic
      <4> HIDE DEF one
      <4>3. Associates(port, one, s) /\ Associates(qort, one, t)
        BY <2>1, <4>1, <4>2, Associative
      <4> QED BY <4>3 DEF Associates, one
    <3>3. BothBegin("_", port, s, qort, t)
      BY <3>1, <3>2 DEF BothBegin
    <3>4. port = qort /\ s = t
      BY <1>0, <1>1, <2>1, <3>3, Prefix
    <3> QED BY <2>1, <3>4
  <2> QED BY <2>6, <2>7, <2>8, <2>9
<1> QED BY <1>8, <1>9, <1>10, <1>11 DEF SameLocation
==============================================================================
