----------------------------- MODULE FoldLemmas -----------------------------
(***************************************************************************)
(* FoldLeft of the community modules, one element after the other.  It is  *)
(* a function on the sets of positions, defined by recursion on the last   *)
(* one; here it is shown to exist, and to be what a loop computes: a run   *)
(* of intermediate results, each made of the one before and of the next    *)
(* element, and to keep what each turn of the loop keeps.  A module that   *)
(* reasons about a fold instantiates Op with the operation, Last with Max  *)
(* and Kept with the invariant of the loop.                                *)
(***************************************************************************)
EXTENDS Integers, Sequences, TLAPS

CONSTANTS Op(_, _, _),      \* Op(ctx, acc, x): acc after the element x
          Last(_),          \* the greatest of a set of positions
          Kept(_, _, _, _)  \* Kept(ctx, aim, n, acc): what holds of acc after n elements

\* it is the function on sets of positions by which FoldLeft is defined.
IsFold(it, n, ctx, base, s) ==
    it = [S \in SUBSET (1..n) |->
            IF S = {} THEN base ELSE Op(ctx, it[S \ {Last(S)}], s[Last(S)])]

Folded(ctx, base, s) ==
    (CHOOSE it : it = [S \in SUBSET DOMAIN s |->
            IF S = {} THEN base ELSE Op(ctx, it[S \ {Last(S)}], s[Last(S)])])[DOMAIN s]

\* What the argument asks of its user, who has it from the theorems about
\* well-founded induction: those are not repeated here for every instance.
OneByOne ==
    /\ \A n \in Nat : \A S \in SUBSET (1..n) : n \in S => Last(S) = n
    /\ \A S : 0 \in S /\ (\A n \in Nat : n \in S => n + 1 \in S) => Nat \subseteq S

LEMMA FoldExists ==
    ASSUME OneByOne, NEW ctx, NEW base, NEW s, NEW m \in Nat
    PROVE  \E it : IsFold(it, m, ctx, base, s)
<1> DEFINE E == {n \in Nat : \E it : IsFold(it, n, ctx, base, s)}
<1>1. 0 \in E
  <2>1. SUBSET (1..0) = {{}}
    OBVIOUS
  <2>2. IsFold([S \in SUBSET (1..0) |-> base], 0, ctx, base, s)
    BY <2>1 DEF IsFold
  <2> QED BY <2>2
<1>2. ASSUME NEW n \in Nat, n \in E PROVE n + 1 \in E
  <2>1. PICK it : IsFold(it, n, ctx, base, s)
    BY <1>2
  <2> DEFINE new == [S \in SUBSET (1..(n + 1)) |->
                        IF n + 1 \in S THEN Op(ctx, it[S \ {n + 1}], s[n + 1]) ELSE it[S]]
             next == [S \in SUBSET (1..(n + 1)) |->
                        IF S = {} THEN base ELSE Op(ctx, new[S \ {Last(S)}], s[Last(S)])]
  <2>2. ASSUME NEW S \in SUBSET (1..(n + 1)), n + 1 \in S PROVE new[S] = next[S]
    <3>1. Last(S) = n + 1
      BY <2>2 DEF OneByOne
    <3>2. new[S \ {n + 1}] = it[S \ {n + 1}]
      OBVIOUS
    <3> QED BY <2>2, <3>1, <3>2
  <2>3. ASSUME NEW S \in SUBSET (1..(n + 1)), n + 1 \notin S PROVE new[S] = next[S]
    <3>1. S \in SUBSET (1..n)
      BY <2>3
    <3>2. it[S] = IF S = {} THEN base ELSE Op(ctx, it[S \ {Last(S)}], s[Last(S)])
      BY <2>1, <3>1 DEF IsFold
    <3>3. new[S \ {Last(S)}] = it[S \ {Last(S)}]
      BY <2>3
    <3> QED BY <2>3, <3>2, <3>3
  <2>4. new = next
    <3>1. DOMAIN new = SUBSET (1..(n + 1)) /\ DOMAIN next = SUBSET (1..(n + 1))
      OBVIOUS
    <3> HIDE DEF next
    <3>2. \A S \in SUBSET (1..(n + 1)) : new[S] = next[S]
      BY <2>2, <2>3
    <3> QED BY <3>1, <3>2 DEF next
  <2>5. IsFold(new, n + 1, ctx, base, s)
    <3> HIDE DEF new
    <3> QED BY <2>4 DEF IsFold
  <2> QED BY <2>5
<1>3. m \in E
  <2> HIDE DEF E
  <2> QED BY <1>1, <1>2 DEF OneByOne
<1> QED BY <1>3

\* The results of the loop, after no element, after one, and so on.
IsRun(run, ctx, base, s) ==
    /\ DOMAIN run = 0..Len(s)
    /\ run[0] = base
    /\ \A n \in 1..Len(s) : run[n] = Op(ctx, run[n - 1], s[n])
    /\ run[Len(s)] = Folded(ctx, base, s)

LEMMA FoldRuns ==
    ASSUME OneByOne, NEW ctx, NEW base, NEW T, NEW s \in Seq(T)
    PROVE  \E run : IsRun(run, ctx, base, s)
<1> DEFINE it == CHOOSE f : IsFold(f, Len(s), ctx, base, s)
           run == [n \in 0..Len(s) |-> it[1..n]]
<1>1. Len(s) \in Nat /\ DOMAIN s = 1..Len(s)
  OBVIOUS
<1>2. IsFold(it, Len(s), ctx, base, s)
  BY <1>1, FoldExists
<1>3. Folded(ctx, base, s) = it[1..Len(s)]
  BY <1>1 DEF Folded, IsFold
<1> HIDE DEF it
<1>4. run[0] = base
  <2>1. 1..0 = {} /\ {} \in SUBSET (1..Len(s))
    OBVIOUS
  <2> QED BY <1>1, <1>2, <2>1 DEF IsFold
<1>5. ASSUME NEW n \in 1..Len(s) PROVE run[n] = Op(ctx, run[n - 1], s[n])
  <2>0. n \in Nat /\ n >= 1 /\ n <= Len(s)
    BY <1>1
  <2>1. n \in 1..n /\ n \in 0..Len(s) /\ n - 1 \in 0..Len(s)
    BY <1>1, <2>0
  <2>5. 1..n \in SUBSET (1..Len(s))
    BY <1>1, <2>0
  <2>6. 1..n # {}
    BY <2>1
  <2>2. Last(1..n) = n
    BY <2>0, <2>1 DEF OneByOne
  <2>3. (1..n) \ {n} = 1..(n - 1)
    BY <2>0
  <2>4. it[1..n] = Op(ctx, it[(1..n) \ {n}], s[n])
    BY <1>2, <2>2, <2>5, <2>6 DEF IsFold
  <2> QED BY <1>1, <2>1, <2>3, <2>4
<1>6. run[Len(s)] = Folded(ctx, base, s) /\ DOMAIN run = 0..Len(s)
  BY <1>1, <1>3
<1> HIDE DEF run
<1> QED BY <1>4, <1>5, <1>6 DEF IsRun

\* One element more is one turn more.
LEMMA FoldMore ==
    ASSUME OneByOne, NEW ctx, NEW base, NEW T, NEW s \in Seq(T), NEW x \in T
    PROVE  Folded(ctx, base, Append(s, x)) = Op(ctx, Folded(ctx, base, s), x)
<1> DEFINE t == Append(s, x)
<1>1. /\ t \in Seq(T) /\ Len(s) \in Nat /\ Len(t) = Len(s) + 1 /\ t[Len(s) + 1] = x
      /\ \A n \in 1..Len(s) : t[n] = s[n]
  OBVIOUS
<1> HIDE DEF t
<1>2. PICK run : IsRun(run, ctx, base, s)
  BY FoldRuns
<1>3. PICK more : IsRun(more, ctx, base, t)
  BY <1>1, FoldRuns
<1> DEFINE S == {n \in Nat : n <= Len(s) => more[n] = run[n]}
<1>4. 0 \in S
  BY <1>2, <1>3 DEF IsRun
<1>5. ASSUME NEW n \in Nat, n \in S PROVE n + 1 \in S
  <2> SUFFICES ASSUME n + 1 <= Len(s) PROVE more[n + 1] = run[n + 1]
    OBVIOUS
  <2>1. n + 1 \in 1..Len(s) /\ n + 1 \in 1..Len(t) /\ (n + 1) - 1 = n /\ n <= Len(s)
    BY <1>1
  <2>2. more[n] = run[n] /\ t[n + 1] = s[n + 1]
    BY <1>1, <1>5, <2>1
  <2> QED BY <1>2, <1>3, <2>1, <2>2 DEF IsRun
<1>6. more[Len(s)] = run[Len(s)]
  <2> HIDE DEF S
  <2>1. Nat \subseteq S
    BY <1>4, <1>5 DEF OneByOne
  <2> QED BY <1>1, <2>1 DEF S
<1>7. Len(t) \in 1..Len(t) /\ Len(t) - 1 = Len(s)
  BY <1>1
<1> QED BY <1>1, <1>2, <1>3, <1>6, <1>7 DEF IsRun, t

LEMMA FoldNone ==
    ASSUME OneByOne, NEW ctx, NEW base
    PROVE  Folded(ctx, base, <<>>) = base
<1>1. <<>> \in Seq({}) /\ Len(<<>>) = 0
  OBVIOUS
<1>2. PICK run : IsRun(run, ctx, base, <<>>)
  BY <1>1, FoldRuns
<1> QED BY <1>1, <1>2 DEF IsRun

EveryTurnKeeps(ctx, aim, s) ==
    \A n \in 1..Len(s) : \A acc : Kept(ctx, aim, n - 1, acc) => Kept(ctx, aim, n, Op(ctx, acc, s[n]))

\* The rule for loops: what holds before the first element, and is kept by
\* every turn, holds of the result.
LEMMA LoopRule ==
    ASSUME OneByOne, NEW ctx, NEW aim, NEW base, NEW T, NEW s \in Seq(T),
           Kept(ctx, aim, 0, base), EveryTurnKeeps(ctx, aim, s)
    PROVE  Kept(ctx, aim, Len(s), Folded(ctx, base, s))
<1>1. PICK run : IsRun(run, ctx, base, s)
  BY FoldRuns
<1> DEFINE S == {n \in Nat : n <= Len(s) => Kept(ctx, aim, n, run[n])}
<1>2. 0 \in S
  BY <1>1 DEF IsRun
<1>3. ASSUME NEW n \in Nat, n \in S PROVE n + 1 \in S
  <2> SUFFICES ASSUME n + 1 <= Len(s) PROVE Kept(ctx, aim, n + 1, run[n + 1])
    OBVIOUS
  <2>1. n + 1 \in 1..Len(s) /\ (n + 1) - 1 = n /\ n <= Len(s)
    OBVIOUS
  <2>2. Kept(ctx, aim, n, run[n])
    BY <1>3, <2>1
  <2> QED BY <1>1, <2>1, <2>2 DEF EveryTurnKeeps, IsRun
<1>4. Len(s) \in Nat /\ Len(s) \in S
  <2> HIDE DEF S
  <2>1. Nat \subseteq S
    BY <1>2, <1>3 DEF OneByOne
  <2> QED BY <2>1
<1> QED BY <1>1, <1>4 DEF IsRun
=============================================================================
