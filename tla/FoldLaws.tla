------------------------------- MODULE FoldLaws -------------------------------
(***************************************************************************)
(* What the folds of the specifications compute: laws of FoldLeft, for any *)
(* operation Op(result so far, next element), and of FlattenSeq.  A module *)
(* that folds with an operation of its own instantiates this one with it.  *)
(***************************************************************************)
EXTENDS Naturals, SequencesExt, FiniteSetsExt, WellFoundedInduction, TLAPS

CONSTANT Op(_, _)

-----------------------------------------------------------------------------
(* Induction: the library states it for an operator, these for a set.      *)

LEMMA Least ==
  ASSUME NEW T \in SUBSET Nat, T # {}
  PROVE  \E n \in T : \A m \in T : n <= m
<1> DEFINE R == {ss \in Nat \X Nat : ss[1] < ss[2]}
<1>1. IsWellFoundedOn(R, Nat)
  BY NatLessThanWellFounded DEF OpToRel
<1> HIDE DEF R
<1>2. PICK x \in T : \A y \in T : <<y, x>> \notin R
  BY <1>1, WFMin
<1>3. ASSUME NEW y \in T PROVE x <= y
  <2>1. ~(y < x)
    <3>1. <<y, x>> \in Nat \X Nat /\ <<y, x>>[1] = y /\ <<y, x>>[2] = x
      OBVIOUS
    <3>2. y < x => <<y, x>> \in R
      BY <3>1, Zenon DEF R
    <3> QED
      BY <1>2, <3>2
  <2> QED
    BY <2>1
<1> QED
  BY <1>3

LEMMA Induction ==
  ASSUME NEW S, 0 \in S, \A n \in Nat : n \in S => n + 1 \in S
  PROVE  Nat \subseteq S
<1> SUFFICES ASSUME Nat \ S # {} PROVE FALSE
  OBVIOUS
<1>1. PICK n \in Nat \ S : \A m \in Nat \ S : n <= m
  BY Least
<1>2. n # 0 /\ n - 1 \in Nat
  OBVIOUS
<1>3. n - 1 \in S
  BY <1>1, <1>2
<1>4. n = (n - 1) + 1
  BY <1>1
<1> QED
  BY <1>1, <1>2, <1>3, <1>4

-----------------------------------------------------------------------------
(* The last of a set of numbers.                                           *)

LEMMA MaxIs ==
  ASSUME NEW n \in Nat, NEW T \in SUBSET (1..n), NEW m \in T, \A i \in T : i <= m
  PROVE  Max(T) = m
<1>1. \A x \in T : (\A y \in T : x >= y) => x = m
  OBVIOUS
<1> QED
  BY <1>1 DEF Max

LEMMA MaxIn ==
  ASSUME NEW n \in Nat, NEW T \in SUBSET (1..n), T # {}
  PROVE  Max(T) \in T /\ \A i \in T : i <= Max(T)
<1> DEFINE U == {k \in Nat : n - k \in T}
<1>1. U \in SUBSET Nat /\ U # {}
  <2>1. PICK i \in T : TRUE
    OBVIOUS
  <2>2. n - i \in Nat /\ n - (n - i) = i
    BY <2>1
  <2> QED
    BY <2>1, <2>2
<1>2. PICK k \in U : \A l \in U : k <= l
  BY <1>1, Least
<1>3. ASSUME NEW i \in T PROVE i <= n - k
  <2>1. i \in Int /\ n - i \in Nat /\ n - (n - i) = i
    OBVIOUS
  <2>2. n - i \in U
    BY <2>1
  <2>3. k <= n - i
    BY <1>2, <2>2
  <2> QED
    BY <2>1, <2>3
<1>4. n - k \in T
  OBVIOUS
<1> QED
  BY <1>3, <1>4, MaxIs

LEMMA MinIn ==
  ASSUME NEW T \in SUBSET Nat, T # {}
  PROVE  Min(T) \in T /\ \A i \in T : Min(T) <= i
<1>1. PICK m \in T : \A i \in T : m <= i
  BY Least
<1>2. \A x \in T : (\A y \in T : x <= y) => x = m
  BY <1>1
<1> QED
  BY <1>1, <1>2 DEF Min

\* What holds of the empty sequence, and of each one made longer, holds of all.
Grows(G, X) == \A s \in Seq(X), e \in X : s \in G => Append(s, e) \in G

LEMMA SeqInduction ==
  ASSUME NEW X, NEW G, <<>> \in G, Grows(G, X)
  PROVE  Seq(X) \subseteq G
<1> DEFINE S == {n \in Nat : \A u \in Seq(X) : Len(u) = n => u \in G}
<1>1. 0 \in S
  <2>1. \A u \in Seq(X) : Len(u) = 0 => u = <<>>
    OBVIOUS
  <2> QED
    BY <2>1
<1>2. ASSUME NEW n \in Nat, n \in S PROVE n + 1 \in S
  <2> SUFFICES ASSUME NEW u \in Seq(X), Len(u) = n + 1 PROVE u \in G
    OBVIOUS
  <2> DEFINE v == SubSeq(u, 1, n)
             e == u[n + 1]
  <2>1. v \in Seq(X) /\ Len(v) = n /\ e \in X /\ u = Append(v, e)
    OBVIOUS
  <2>2. v \in G
    BY <1>2, <2>1
  <2> HIDE DEF v, e
  <2> QED
    BY <2>1, <2>2 DEF Grows
<1> HIDE DEF S
<1>3. Nat \subseteq S
  BY <1>1, <1>2, Induction
<1>4. \A u \in Seq(X) : Len(u) \in Nat
  OBVIOUS
<1> QED
  BY <1>3, <1>4 DEF S

-----------------------------------------------------------------------------
(* A fold takes the elements of a sequence in their order.                 *)

Fold(b, s) == FoldLeft(Op, b, s)

\* The equation that defines a fold over the first n elements of s.
Step(g, b, s, T) == IF T = {} THEN b ELSE Op(g[T \ {Max(T)}], s[Max(T)])

IsFold(g, b, s, n) == g = [T \in SUBSET (1..n) |-> Step(g, b, s, T)]

LEMMA FoldExists ==
  ASSUME NEW b, NEW s, NEW n \in Nat
  PROVE  \E g : IsFold(g, b, s, n)
<1> DEFINE S == {k \in Nat : \E g : IsFold(g, b, s, k)}
<1>1. 0 \in S
  <2> DEFINE g == [T \in SUBSET (1..0) |-> b]
  <2>1. \A T \in SUBSET (1..0) : Step(g, b, s, T) = b
    BY DEF Step
  <2>2. IsFold(g, b, s, 0)
    BY <2>1 DEF IsFold
  <2> QED
    BY <2>2
<1>2. ASSUME NEW k \in Nat, k \in S
      PROVE  k + 1 \in S
  <2>1. PICK g : IsFold(g, b, s, k)
    BY <1>2
  <2> DEFINE h == [T \in SUBSET (1..k + 1) |->
                     IF k + 1 \in T THEN Op(g[T \ {k + 1}], s[k + 1]) ELSE g[T]]
  <2>2. ASSUME NEW T \in SUBSET (1..k + 1) PROVE h[T] = Step(h, b, s, T)
    <3>1. CASE k + 1 \in T
      <4>1. Max(T) = k + 1
        BY <3>1, MaxIs
      <4>2. T \ {k + 1} \in SUBSET (1..k + 1) /\ k + 1 \notin T \ {k + 1}
        OBVIOUS
      <4>3. h[T \ {k + 1}] = g[T \ {k + 1}]
        BY <4>2
      <4> QED
        BY <3>1, <4>1, <4>3 DEF Step
    <3>2. CASE k + 1 \notin T
      <4>1. T \in SUBSET (1..k)
        BY <3>2
      <4>2. h[T] = Step(g, b, s, T)
        BY <2>1, <3>2, <4>1 DEF IsFold
      <4>3. T # {} => h[T \ {Max(T)}] = g[T \ {Max(T)}]
        <5>1. \A m : T \ {m} \in SUBSET (1..k + 1) /\ k + 1 \notin T \ {m}
          BY <3>2
        <5> QED
          BY <5>1
      <4> HIDE DEF h
      <4> QED
        BY <4>2, <4>3 DEF Step
    <3> QED
      BY <3>1, <3>2
  <2>3. IsFold(h, b, s, k + 1)
    <3>1. h = [T \in SUBSET (1..k + 1) |-> h[T]]
      OBVIOUS
    <3> HIDE DEF h
    <3> QED
      BY <2>2, <3>1 DEF IsFold
  <2> HIDE DEF h
  <2> QED
    BY <2>3
<1> HIDE DEF S
<1>3. n \in S
  BY <1>1, <1>2, Induction
<1> QED
  BY <1>3 DEF S

LEMMA FoldBySteps ==
  ASSUME NEW X, NEW s \in Seq(X), NEW b
  PROVE  \E g : IsFold(g, b, s, Len(s)) /\ Fold(b, s) = g[1..Len(s)]
<1> DEFINE it == CHOOSE g : IsFold(g, b, s, Len(s))
<1>1. IsFold(it, b, s, Len(s))
  BY FoldExists
<1>2. DOMAIN s = 1..Len(s)
  OBVIOUS
<1>3. Fold(b, s) = it[1..Len(s)]
  BY <1>2 DEF Fold, FoldLeft, MapThenFoldSet, IsFold, Step
<1> QED
  BY <1>1, <1>3

\* A fold goes on from where it has come to.
GoesOn(g, b, s, n) ==
  /\ g[1..0] = b
  /\ \A k \in Nat : k < n => g[1..k + 1] = Op(g[1..k], s[k + 1])

LEMMA FoldMore ==
  ASSUME NEW b, NEW s, NEW n \in Nat, NEW g, IsFold(g, b, s, n)
  PROVE  GoesOn(g, b, s, n)
<1>1. g[1..0] = b
  <2>1. 1..0 = {} /\ 1..0 \in SUBSET (1..n)
    OBVIOUS
  <2> QED
    BY <2>1 DEF IsFold, Step
<1>2. ASSUME NEW k \in Nat, k < n PROVE g[1..k + 1] = Op(g[1..k], s[k + 1])
  <2>1. 1..k + 1 \in SUBSET (1..n) /\ 1..k + 1 # {} /\ k + 1 \in 1..k + 1
    BY <1>2
  <2>2. Max(1..k + 1) = k + 1
    <3>1. k + 1 \in Nat /\ 1..k + 1 \in SUBSET (1..k + 1) /\ \A i \in 1..k + 1 : i <= k + 1
      OBVIOUS
    <3> QED
      BY <2>1, <3>1, MaxIs
  <2>3. (1..k + 1) \ {k + 1} = 1..k
    OBVIOUS
  <2>4. g[1..k + 1] = Step(g, b, s, 1..k + 1)
    BY <2>1 DEF IsFold
  <2> QED
    BY <2>1, <2>2, <2>3, <2>4 DEF Step
<1> QED
  BY <1>1, <1>2 DEF GoesOn

\* Folds of sequences that begin alike.
LEMMA FoldAgrees ==
  ASSUME NEW b, NEW s, NEW t, NEW n \in Nat, NEW m \in Nat, NEW g, NEW h,
         IsFold(g, b, s, n), IsFold(h, b, t, m), n <= m, \A i \in 1..n : s[i] = t[i]
  PROVE  g[1..n] = h[1..n]
<1> DEFINE S == {k \in Nat : k <= n => g[1..k] = h[1..k]}
<1>1. GoesOn(g, b, s, n)
  BY FoldMore
<1>2. GoesOn(h, b, t, m)
  BY FoldMore
<1>3. 0 \in S
  BY <1>1, <1>2 DEF GoesOn
<1>4. ASSUME NEW k \in Nat, k \in S PROVE k + 1 \in S
  <2> SUFFICES ASSUME k + 1 <= n PROVE g[1..k + 1] = h[1..k + 1]
    OBVIOUS
  <2>1. k < n /\ k < m /\ k + 1 \in 1..n
    OBVIOUS
  <2>2. g[1..k] = h[1..k]
    BY <1>4
  <2> HIDE DEF S
  <2> QED
    BY <1>1, <1>2, <2>1, <2>2 DEF GoesOn
<1> HIDE DEF S
<1>5. n \in S
  BY <1>3, <1>4, Induction
<1> QED
  BY <1>5 DEF S

LEMMA FoldEmpty ==
  ASSUME NEW b
  PROVE  Fold(b, <<>>) = b
<1>1. <<>> \in Seq({}) /\ Len(<<>>) = 0
  OBVIOUS
<1>2. PICK g : IsFold(g, b, <<>>, 0) /\ Fold(b, <<>>) = g[1..0]
  BY <1>1, FoldBySteps
<1>3. GoesOn(g, b, <<>>, 0)
  BY <1>2, FoldMore
<1> QED
  BY <1>2, <1>3 DEF GoesOn

LEMMA FoldAppend ==
  ASSUME NEW b, NEW X, NEW s \in Seq(X), NEW e \in X
  PROVE  Fold(b, Append(s, e)) = Op(Fold(b, s), e)
<1> DEFINE n == Len(s)
           t == Append(s, e)
<1>1. n \in Nat /\ t \in Seq(X) /\ Len(t) = n + 1 /\ t[n + 1] = e /\ \A i \in 1..n : s[i] = t[i]
  OBVIOUS
<1>2. PICK g : IsFold(g, b, s, n) /\ Fold(b, s) = g[1..n]
  BY FoldBySteps
<1> HIDE DEF n, t
<1>3. PICK h : IsFold(h, b, t, n + 1) /\ Fold(b, t) = h[1..n + 1]
  BY <1>1, FoldBySteps
<1>4. n < n + 1 /\ n + 1 \in Nat /\ n <= n + 1
  BY <1>1
<1>5. g[1..n] = h[1..n]
  BY <1>1, <1>2, <1>3, <1>4, FoldAgrees
<1>6. h[1..n + 1] = Op(h[1..n], t[n + 1])
  <2>1. GoesOn(h, b, t, n + 1)
    BY <1>3, <1>4, FoldMore
  <2> QED
    BY <1>1, <1>4, <2>1 DEF GoesOn
<1> QED
  BY <1>1, <1>2, <1>3, <1>5, <1>6 DEF t

LEMMA FoldOne ==
  ASSUME NEW b, NEW e
  PROVE  Fold(b, <<e>>) = Op(b, e)
<1>1. <<>> \in Seq({e}) /\ Append(<<>>, e) = <<e>>
  OBVIOUS
<1>2. Fold(b, Append(<<>>, e)) = Op(Fold(b, <<>>), e)
  BY <1>1, FoldAppend
<1> QED
  BY <1>1, <1>2, FoldEmpty

LEMMA FoldConcat ==
  ASSUME NEW b, NEW X, NEW s \in Seq(X), NEW t \in Seq(X)
  PROVE  Fold(b, s \o t) = Fold(Fold(b, s), t)
<1> DEFINE Good(u) == Fold(b, s \o u) = Fold(Fold(b, s), u)
           G == {u \in Seq(X) : Good(u)}
<1>1. <<>> \in G
  <2>1. s \o <<>> = s /\ <<>> \in Seq(X)
    OBVIOUS
  <2> QED
    BY <2>1, FoldEmpty
<1>2. ASSUME NEW v \in Seq(X), NEW e \in X, v \in G PROVE Append(v, e) \in G
  <2>1. /\ s \o v \in Seq(X) /\ Append(v, e) \in Seq(X)
        /\ s \o Append(v, e) = Append(s \o v, e)
    OBVIOUS
  <2>2. Fold(b, Append(s \o v, e)) = Op(Fold(b, s \o v), e)
    BY <2>1, FoldAppend
  <2>3. Fold(Fold(b, s), Append(v, e)) = Op(Fold(Fold(b, s), v), e)
    BY FoldAppend
  <2> QED
    BY <1>2, <2>1, <2>2, <2>3
<1> HIDE DEF G
<1>3. t \in G
  BY <1>1, <1>2, SeqInduction DEF Grows
<1> QED
  BY <1>3 DEF G

-----------------------------------------------------------------------------
(* Sequences of sequences.                                                 *)

IsFlat(f, ss, n) ==
  f = [i \in 1..n |-> IF i = 1 THEN ss[i] ELSE f[i - 1] \o ss[i]]

\* What the i-th element of f makes of the one before.
Flat(f, ss, i) == f[i] = IF i = 1 THEN ss[i] ELSE f[i - 1] \o ss[i]

LEMMA FlatMore ==
  ASSUME NEW f, NEW ss, NEW n, IsFlat(f, ss, n), NEW i \in 1..n
  PROVE  Flat(f, ss, i)
  BY DEF IsFlat, Flat

LEMMA FlatExists ==
  ASSUME NEW ss, NEW n \in Nat
  PROVE  \E f : IsFlat(f, ss, n)
<1> DEFINE S == {k \in Nat : \E f : IsFlat(f, ss, k)}
<1>1. 0 \in S
  <2>1. IsFlat([i \in 1..0 |-> ss], ss, 0)
    BY DEF IsFlat
  <2> QED
    BY <2>1
<1>2. ASSUME NEW k \in Nat, k \in S PROVE k + 1 \in S
  <2>1. PICK f : IsFlat(f, ss, k)
    BY <1>2
  <2> DEFINE last == IF k = 0 THEN ss[k + 1] ELSE f[k] \o ss[k + 1]
             h == [i \in 1..k + 1 |-> IF i = k + 1 THEN last ELSE f[i]]
  <2>2. ASSUME NEW i \in 1..k + 1
        PROVE  h[i] = IF i = 1 THEN ss[i] ELSE h[i - 1] \o ss[i]
    <3>1. CASE i = k + 1
      <4>1. i # 1 => i - 1 \in 1..k + 1 /\ i - 1 # k + 1 /\ i - 1 = k /\ k # 0
        BY <3>1
      <4>2. h[i] = last
        BY <3>1
      <4>3. i # 1 => h[i - 1] = f[k]
        BY <4>1
      <4> HIDE DEF h
      <4> QED
        BY <3>1, <4>1, <4>2, <4>3
    <3>2. CASE i # k + 1
      <4>1. i \in 1..k /\ (i # 1 => i - 1 \in 1..k /\ i - 1 \in 1..k + 1 /\ i - 1 # k + 1)
        BY <3>2
      <4>2. f[i] = IF i = 1 THEN ss[i] ELSE f[i - 1] \o ss[i]
        BY <2>1, <4>1 DEF IsFlat
      <4>3. h[i] = f[i] /\ (i # 1 => h[i - 1] = f[i - 1])
        BY <3>2, <4>1
      <4> HIDE DEF h
      <4> QED
        BY <4>2, <4>3
    <3> QED
      BY <3>1, <3>2
  <2>3. h = [i \in 1..k + 1 |-> h[i]]
    OBVIOUS
  <2> HIDE DEF h
  <2>4. IsFlat(h, ss, k + 1)
    BY <2>2, <2>3 DEF IsFlat
  <2> QED
    BY <2>4
<1> HIDE DEF S
<1>3. n \in S
  BY <1>1, <1>2, Induction
<1> QED
  BY <1>3 DEF S

Alike(s, t, n) == \A i \in 1..n : s[i] = t[i]

LEMMA FlatAgrees ==
  ASSUME NEW ss, NEW tt, NEW n \in Nat, NEW m \in Nat, NEW f, NEW h,
         IsFlat(f, ss, n), IsFlat(h, tt, m), n <= m, Alike(ss, tt, n)
  PROVE  Alike(f, h, n)
<1> DEFINE S == {k \in Nat : k \in 1..n => f[k] = h[k]}
<1>1. 0 \in S
  OBVIOUS
<1>2. ASSUME NEW k \in Nat, k \in S PROVE k + 1 \in S
  <2> SUFFICES ASSUME k + 1 \in 1..n PROVE f[k + 1] = h[k + 1]
    OBVIOUS
  <2>1. k + 1 \in 1..m /\ (k + 1 # 1 => k \in 1..n) /\ k + 1 - 1 = k
    OBVIOUS
  <2>2. Flat(f, ss, k + 1) /\ Flat(h, tt, k + 1)
    BY <2>1, FlatMore
  <2>3. ss[k + 1] = tt[k + 1]
    BY DEF Alike
  <2>4. k + 1 # 1 => f[k] = h[k]
    BY <1>2, <2>1
  <2> HIDE DEF S
  <2> QED
    BY <2>1, <2>2, <2>3, <2>4 DEF Flat
<1> HIDE DEF S
<1>3. Nat \subseteq S
  BY <1>1, <1>2, Induction
<1> QED
  BY <1>3 DEF S, Alike

LEMMA FlattenIs ==
  ASSUME NEW X, NEW ss \in Seq(X), ss # <<>>
  PROVE  \E f : IsFlat(f, ss, Len(ss)) /\ FlattenSeq(ss) = f[Len(ss)]
<1> DEFINE it == CHOOSE f : IsFlat(f, ss, Len(ss))
<1>1. IsFlat(it, ss, Len(ss))
  BY FlatExists
<1>2. Len(ss) # 0
  OBVIOUS
<1>3. FlattenSeq(ss) = it[Len(ss)]
  BY <1>2 DEF FlattenSeq, IsFlat
<1> HIDE DEF it
<1> QED
  BY <1>1, <1>3

LEMMA FlattenEmpty == FlattenSeq(<<>>) = <<>>
  BY DEF FlattenSeq

\* A property of Append, for elements that are no sequences to the provers.
LEMMA Appended ==
  ASSUME NEW X, NEW s \in Seq(X), NEW e \in X
  PROVE  /\ Append(s, e) \in Seq(X) /\ Len(Append(s, e)) = Len(s) + 1
         /\ Append(s, e) # <<>> /\ Append(s, e)[Len(s) + 1] = e
         /\ \A i \in 1..Len(s) : s[i] = Append(s, e)[i]
  OBVIOUS

LEMMA FlattenAppend ==
  ASSUME NEW Y, NEW ss \in Seq(Seq(Y)), NEW s \in Seq(Y)
  PROVE  FlattenSeq(Append(ss, s)) = FlattenSeq(ss) \o s
<1> DEFINE n == Len(ss)
           m == n + 1
           tt == Append(ss, s)
<1>1. /\ n \in Nat /\ m \in Nat /\ n <= m /\ m \in 1..m /\ m - 1 = n
      /\ (n = 0 <=> m = 1)
      /\ tt \in Seq(Seq(Y)) /\ Len(tt) = m /\ tt # <<>> /\ tt[m] = s
      /\ \A i \in 1..n : ss[i] = tt[i]
  <2>1. n \in Nat /\ m \in Nat
    OBVIOUS
  <2>2. tt \in Seq(Seq(Y)) /\ Len(tt) = m /\ tt # <<>> /\ tt[m] = s
    BY Appended
  <2>3. \A i \in 1..n : ss[i] = tt[i]
    BY Appended
  <2> HIDE DEF n, tt
  <2>4. n <= m /\ m \in 1..m /\ m - 1 = n /\ (n = 0 <=> m = 1)
    BY <2>1
  <2> QED
    BY <2>1, <2>2, <2>3, <2>4
<1>2. n = 0 => ss = <<>> /\ <<>> \o s = s
  OBVIOUS
<1>3. n # 0 => ss # <<>> /\ n \in 1..n
  OBVIOUS
<1> HIDE DEF n, m
<1>4. PICK h : IsFlat(h, tt, m) /\ FlattenSeq(tt) = h[m]
  BY <1>1, FlattenIs
<1> HIDE DEF tt
<1>5. Flat(h, tt, m)
  BY <1>1, <1>4, FlatMore
<1>6. CASE n = 0
  <2>1. FlattenSeq(tt) = s
    BY <1>1, <1>4, <1>5, <1>6 DEF Flat
  <2> QED
    BY <1>2, <1>6, <2>1, FlattenEmpty DEF tt
<1>7. CASE n # 0
  <2>1. PICK f : IsFlat(f, ss, n) /\ FlattenSeq(ss) = f[n]
    BY <1>3, <1>7, FlattenIs DEF n
  <2>2. Alike(f, h, n)
    <3>1. Alike(ss, tt, n)
      BY <1>1 DEF Alike
    <3> QED
      BY <1>1, <1>4, <2>1, <3>1, FlatAgrees
  <2>3. FlattenSeq(tt) = f[n] \o s
    BY <1>1, <1>3, <1>4, <1>5, <1>7, <2>2 DEF Flat, Alike
  <2> QED
    BY <2>1, <2>3 DEF tt
<1> QED
  BY <1>6, <1>7
=============================================================================
