----------------------------- MODULE ListsProofs -----------------------------
(***************************************************************************)
(* What Without keeps of a list of any length, and the induction over the  *)
(* numbers below a bound it takes.  The induction theorems of the library  *)
(* want an operator; here the property is a set, and what makes the        *)
(* induction hold is that the intervals 0 .. n are well-founded under      *)
(* inclusion, which the library states for finite sets.                    *)
(***************************************************************************)
EXTENDS Lists, FiniteSetTheorems, SequenceTheorems, WellFoundedInduction, TLAPS

\* A set of numbers has a least one.
LEMMA LeastElement ==
  ASSUME NEW T \in SUBSET Nat, T # {}
  PROVE  \E m \in T : \A n \in T : m <= n
  <1> DEFINE R == StrictSubsetOrdering(Nat)
             Segments == {0 .. n : n \in T}
  <1>1. IsWellFoundedOn(R, FiniteSubsetsOf(Nat)) BY FS_StrictSubsetOrderingWellFounded
  <1>2. Segments \subseteq FiniteSubsetsOf(Nat)
    <2>1. ASSUME NEW n \in T PROVE 0 .. n \in SUBSET Nat /\ IsFiniteSet(0 .. n)
      BY FS_Interval
    <2> QED BY <2>1 DEF FiniteSubsetsOf
  <1>3. Segments # {} OBVIOUS
  <1> HIDE DEF R, Segments
  <1>4. PICK s \in Segments : \A t \in Segments : <<t, s>> \notin R
    BY <1>1, <1>2, <1>3, WFMin
  <1>5. PICK m \in T : s = 0 .. m BY <1>4 DEF Segments
  <1>6. ASSUME NEW n \in T, n < m PROVE FALSE
    <2>1. 0 .. n \in Segments BY DEF Segments
    <2>2. <<0 .. n, 0 .. m>> \in R BY <1>6 DEF R, StrictSubsetOrdering
    <2> QED BY <1>4, <1>5, <2>1, <2>2
  <1> QED BY <1>6

\* Induction up to a bound, over a set of numbers.
LEMMA UpTo ==
  ASSUME NEW N \in Nat, NEW G, 0 \in G, \A n \in 1 .. N : n - 1 \in G => n \in G
  PROVE  \A n \in 0 .. N : n \in G
  <1> DEFINE Bad == (0 .. N) \ G
  <1> SUFFICES ASSUME Bad # {} PROVE FALSE OBVIOUS
  <1>1. Bad \in SUBSET Nat OBVIOUS
  <1>2. PICK m \in Bad : \A n \in Bad : m <= n
    <2> HIDE DEF Bad
    <2> QED BY <1>1, LeastElement
  <1>3. m \in 1 .. N /\ m - 1 \in 0 .. N BY <1>2
  <1>4. m - 1 \notin Bad BY <1>2, <1>3
  <1> QED BY <1>3, <1>4

\* f is what comes of applying the steps one after the other.
Runs(f, base, step, N) == f[0] = base /\ \A n \in 1 .. N : f[n] = step[n][f[n - 1]]

\* Steps can be applied one after the other: the function of the results exists.
LEMMA RecursionUpTo ==
  ASSUME NEW T, NEW base \in T, NEW N \in Nat, NEW step \in [1 .. N -> [T -> T]]
  PROVE  \E f \in [0 .. N -> T] : Runs(f, base, step, N)
  <1> DEFINE G == {n \in 0 .. N : \E f \in [0 .. n -> T] : Runs(f, base, step, n)}
  <1>1. 0 \in G
    <2> DEFINE f == [k \in 0 .. 0 |-> base]
    <2>1. f \in [0 .. 0 -> T] /\ f[0] = base OBVIOUS
    <2>2. 1 .. 0 = {} OBVIOUS
    <2> HIDE DEF f
    <2>3. Runs(f, base, step, 0) BY <2>1, <2>2 DEF Runs
    <2> QED BY <2>1, <2>3
  <1>2. ASSUME NEW n \in 1 .. N, n - 1 \in G PROVE n \in G
    <2>1. PICK f \in [0 .. n - 1 -> T] : Runs(f, base, step, n - 1) BY <1>2
    <2>2. n - 1 \in 0 .. n - 1 /\ step[n] \in [T -> T] OBVIOUS
    <2>3. step[n][f[n - 1]] \in T BY <2>2
    <2> DEFINE g == [k \in 0 .. n |-> IF k = n THEN step[n][f[n - 1]] ELSE f[k]]
    <2>4. g \in [0 .. n -> T] BY <2>3
    <2>5. g[n] = step[n][g[n - 1]] /\ \A k \in 0 .. n - 1 : g[k] = f[k] OBVIOUS
    <2> HIDE DEF g
    <2>6. Runs(g, base, step, n) BY <2>1, <2>5 DEF Runs
    <2> QED BY <2>4, <2>6
  <1>3. \A n \in 0 .. N : n \in G
    <2> HIDE DEF G
    <2> QED BY <1>1, <1>2, UpTo
  <1> QED BY <1>3

\* What f tells of the first elements of s is what Without keeps of them.
Keeps(f, s, out) ==
    /\ f[0] = <<>>
    /\ \A n \in 1 .. Len(s) :
          f[n] = IF s[n] \in out THEN f[n - 1] ELSE Append(f[n - 1], s[n])
    /\ Without(s, out) = f[Len(s)]

\* The recursion of Without has a value for every beginning of the list.
LEMMA Kept ==
  ASSUME NEW S, NEW s \in Seq(S), NEW out
  PROVE  \E f \in [0 .. Len(s) -> Seq(S)] : Keeps(f, s, out)
  <1> DEFINE N == Len(s)
             Def(f) == [n \in 0 .. N |->
                           IF n = 0 THEN <<>>
                           ELSE IF s[n] \in out THEN f[n - 1] ELSE Append(f[n - 1], s[n])]
             kept == CHOOSE f : f = Def(f)
             step == [n \in 1 .. N |-> [v \in Seq(S) |->
                         IF s[n] \in out THEN v ELSE Append(v, s[n])]]
  <1>1. N \in Nat OBVIOUS
  <1>2. step \in [1 .. N -> [Seq(S) -> Seq(S)]] OBVIOUS
  <1>3. PICK f \in [0 .. N -> Seq(S)] :
            f[0] = <<>> /\ \A n \in 1 .. N : f[n] = step[n][f[n - 1]]
    <2> DEFINE T == Seq(S)  none == <<>>
    <2> HIDE DEF step, N
    <2>1. none \in T OBVIOUS
    <2>2. step \in [1 .. N -> [T -> T]] BY <1>2
    <2> HIDE DEF T, none
    <2>3. \E f \in [0 .. N -> T] : Runs(f, none, step, N)
      BY <1>1, <2>1, <2>2, RecursionUpTo
    <2> QED BY <2>3 DEF T, none, Runs
  <1>4. \A n \in 1 .. N : f[n] = IF s[n] \in out THEN f[n - 1] ELSE Append(f[n - 1], s[n])
    <2> SUFFICES ASSUME NEW n \in 1 .. N
                 PROVE  f[n] = IF s[n] \in out THEN f[n - 1] ELSE Append(f[n - 1], s[n])
      OBVIOUS
    <2>1. f[n - 1] \in Seq(S) OBVIOUS
    <2>2. step[n][f[n - 1]] = IF s[n] \in out THEN f[n - 1] ELSE Append(f[n - 1], s[n])
      BY <2>1
    <2> HIDE DEF step
    <2> QED BY <1>3, <2>2
  <1> HIDE DEF step
  <1>5. f = Def(f)
    <2>1. Def(f)[0] = f[0] BY <1>1, <1>3
    <2>2. ASSUME NEW n \in 1 .. N PROVE Def(f)[n] = f[n]
      <3>1. Def(f)[n] = IF s[n] \in out THEN f[n - 1] ELSE Append(f[n - 1], s[n]) BY <1>1
      <3> QED BY <1>4, <3>1
    <2>3. DOMAIN Def(f) = 0 .. N /\ Def(f) = [n \in DOMAIN Def(f) |-> Def(f)[n]] OBVIOUS
    <2>4. \A n \in 0 .. N : Def(f)[n] = f[n]
      <3> HIDE DEF Def, N
      <3> QED BY <1>1, <2>1, <2>2
    <2>5. f = [n \in 0 .. N |-> f[n]] OBVIOUS
    <2> HIDE DEF Def, N
    <2> QED BY <2>3, <2>4, <2>5
  <1>6. kept = Def(kept)
    <2> HIDE DEF Def
    <2> QED BY <1>5
  <1>7. Without(s, out) = kept[N] BY DEF Without
  <1> HIDE DEF kept
  <1> DEFINE G == {n \in 0 .. N : kept[n] = f[n]}
  <1>8. \A n \in 0 .. N : n \in G
    <2>1. 0 \in G BY <1>3, <1>6
    <2>2. \A n \in 1 .. N :
             kept[n] = IF s[n] \in out THEN kept[n - 1] ELSE Append(kept[n - 1], s[n])
      <3> SUFFICES ASSUME NEW n \in 1 .. N
                   PROVE  kept[n] = Def(kept)[n] /\ n # 0 /\ n \in 0 .. N
        OBVIOUS
      <3> HIDE DEF Def, N
      <3> QED BY <1>1, <1>6
    <2>3. ASSUME NEW n \in 1 .. N, n - 1 \in G PROVE n \in G
      <3>1. kept[n - 1] = f[n - 1] BY <2>3
      <3>2. kept[n] = f[n] BY <1>4, <2>2, <3>1
      <3> QED BY <3>2
    <2> HIDE DEF G, N
    <2> QED BY <1>1, <2>1, <2>3, UpTo
  <1> QED BY <1>3, <1>4, <1>7, <1>8 DEF Keeps

\* v has the elements of the first n of s that are not out.
Selects(v, s, n, out) ==
    /\ Len(v) <= n
    /\ \A i \in 1 .. Len(v) : \E j \in 1 .. n : v[i] = s[j] /\ s[j] \notin out
    /\ \A j \in 1 .. n : s[j] \notin out => \E i \in 1 .. Len(v) : v[i] = s[j]
    /\ (\A i, j \in 1 .. Len(s) : s[i] = s[j] => i = j)
          => \A i, j \in 1 .. Len(v) : v[i] = v[j] => i = j

\* filter keeps the elements that are not out, all of them and nothing else, and none of
\* them twice if none was there twice (connectionStore.ts:118-123, SSHView.tsx and the
\* other lists of the pages).
THEOREM WithoutSelects ==
  ASSUME NEW S, NEW s \in Seq(S), NEW out
  PROVE  Without(s, out) \in Seq(S) /\ Selects(Without(s, out), s, Len(s), out)
  <1>1. PICK f \in [0 .. Len(s) -> Seq(S)] : Keeps(f, s, out) BY Kept
  <1> DEFINE N == Len(s)
             G == {n \in 0 .. N : Selects(f[n], s, n, out)}
  <1>0. N \in Nat OBVIOUS
  <1>2. 0 \in G
    <2>1. f[0] = <<>> /\ 0 \in 0 .. N BY <1>1 DEF Keeps
    <2>2. Selects(<<>>, s, 0, out) BY DEF Selects
    <2> QED BY <2>1, <2>2
  <1>3. ASSUME NEW n \in 1 .. N, n - 1 \in G PROVE n \in G
    <2> DEFINE v == f[n - 1]
    <2>1. v \in Seq(S) /\ Selects(v, s, n - 1, out) BY <1>3
    <2>2. s[n] \in S /\ n \in Nat OBVIOUS
    <2> SUFFICES Selects(f[n], s, n, out) OBVIOUS
    <2> HIDE DEF G
    <2>3. CASE s[n] \in out
      <3>1. f[n] = v BY <1>1, <2>3 DEF Keeps
      <3> HIDE DEF v
      <3>2. Selects(v, s, n, out) BY <2>1, <2>2, <2>3 DEF Selects
      <3> QED BY <3>1, <3>2
    <2>4. CASE s[n] \notin out
      <3> DEFINE w == Append(v, s[n])
      <3>1. f[n] = w BY <1>1, <2>4 DEF Keeps
      <3> HIDE DEF v
      <3>2. /\ w \in Seq(S) /\ Len(w) = Len(v) + 1 /\ w[Len(w)] = s[n]
            /\ \A i \in 1 .. Len(v) : w[i] = v[i]
        BY <2>1, <2>2
      <3>3. Len(v) \in Nat BY <2>1
      <3> HIDE DEF w
      <3>4. Len(w) <= n BY <2>1, <2>2, <3>2, <3>3 DEF Selects
      <3>5. \A i \in 1 .. Len(w) : \E j \in 1 .. n : w[i] = s[j] /\ s[j] \notin out
        <4> SUFFICES ASSUME NEW i \in 1 .. Len(w)
                     PROVE  \E j \in 1 .. n : w[i] = s[j] /\ s[j] \notin out
          OBVIOUS
        <4>1. CASE i = Len(w) BY <2>2, <2>4, <3>2, <4>1
        <4>2. CASE i # Len(w)
          <5>1. i \in 1 .. Len(v) BY <3>2, <3>3, <4>2
          <5>2. PICK j \in 1 .. n - 1 : v[i] = s[j] /\ s[j] \notin out
            BY <2>1, <5>1 DEF Selects
          <5>3. j \in 1 .. n BY <2>2
          <5> QED BY <3>2, <5>1, <5>2, <5>3
        <4> QED BY <4>1, <4>2
      <3>6. \A j \in 1 .. n : s[j] \notin out => \E i \in 1 .. Len(w) : w[i] = s[j]
        <4> SUFFICES ASSUME NEW j \in 1 .. n, s[j] \notin out
                     PROVE  \E i \in 1 .. Len(w) : w[i] = s[j]
          OBVIOUS
        <4>1. CASE j = n BY <3>2, <3>3, <4>1
        <4>2. CASE j # n
          <5>1. j \in 1 .. n - 1 BY <2>2, <4>2
          <5> QED BY <2>1, <3>2, <3>3, <5>1 DEF Selects
        <4> QED BY <4>1, <4>2
      <3>7. ASSUME \A i, j \in 1 .. Len(s) : s[i] = s[j] => i = j,
                   NEW i \in 1 .. Len(w), NEW j \in 1 .. Len(w), w[i] = w[j]
            PROVE  i = j
        <4>1. \A k \in 1 .. Len(v) : w[k] # s[n]
          <5> SUFFICES ASSUME NEW k \in 1 .. Len(v), w[k] = s[n] PROVE FALSE
            OBVIOUS
          <5>1. PICK m \in 1 .. n - 1 : v[k] = s[m] BY <2>1 DEF Selects
          <5> QED BY <2>2, <3>2, <3>7, <5>1
        <4>2. \A k \in 1 .. Len(v) : \A m \in 1 .. Len(v) : w[k] = w[m] => k = m
          BY <2>1, <3>2, <3>7 DEF Selects
        <4> QED BY <3>2, <3>3, <3>7, <4>1, <4>2
      <3>8. Selects(w, s, n, out) BY <3>4, <3>5, <3>6, <3>7 DEF Selects
      <3> QED BY <3>1, <3>8
    <2> QED BY <2>3, <2>4
  <1>4. \A n \in 0 .. N : n \in G
    <2> HIDE DEF G, N
    <2> QED BY <1>0, <1>2, <1>3, UpTo
  <1>5. Selects(f[N], s, N, out) BY <1>4
  <1> QED BY <1>1, <1>5 DEF Keeps

\* The same, of the elements as a set.
THEOREM WithoutRange ==
  ASSUME NEW S, NEW s \in Seq(S), NEW out
  PROVE  /\ Without(s, out) \in Seq(S)
         /\ Range(Without(s, out)) = Range(s) \ out
         /\ Distinct(s) => Distinct(Without(s, out))
  <1> DEFINE v == Without(s, out)
  <1>1. v \in Seq(S) /\ Selects(v, s, Len(s), out) BY WithoutSelects
  <1> HIDE DEF v
  <1>2. DOMAIN s = 1 .. Len(s) /\ DOMAIN v = 1 .. Len(v) BY <1>1
  <1>3. Distinct(s) => Distinct(v) BY <1>1 DEF Selects, Distinct
  <1>4. Range(v) = Range(s) \ out
    <2>1. \A i \in 1 .. Len(v) : \E j \in 1 .. Len(s) : v[i] = s[j] /\ s[j] \notin out
      BY <1>1 DEF Selects
    <2>2. \A j \in 1 .. Len(s) : s[j] \notin out => \E i \in 1 .. Len(v) : v[i] = s[j]
      BY <1>1 DEF Selects
    <2>3. Range(v) = {v[i] : i \in 1 .. Len(v)} /\ Range(s) = {s[j] : j \in 1 .. Len(s)}
      BY <1>2 DEF Range
    <2>4. \A t \in Range(v) : t \in Range(s) /\ t \notin out BY <2>1, <2>3
    <2>5. \A t \in Range(s) \ out : t \in Range(v) BY <2>2, <2>3
    <2> QED BY <2>4, <2>5
  <1> QED BY <1>1, <1>3, <1>4 DEF v

\* What Append does to a list, as a set and element by element.
THEOREM AppendRange ==
  ASSUME NEW S, NEW s \in Seq(S), NEW x
  PROVE  /\ Range(Append(s, x)) = Range(s) \cup {x}
         /\ Append(s, x) # <<>>
         /\ Distinct(s) /\ x \notin Range(s) => Distinct(Append(s, x))
  <1> DEFINE t == Append(s, x)
  <1>1. /\ Len(t) = Len(s) + 1 /\ DOMAIN t = 1 .. Len(t) /\ t[Len(t)] = x
        /\ \A i \in 1 .. Len(s) : t[i] = s[i]
    OBVIOUS
  <1>2. Len(s) \in Nat /\ DOMAIN s = 1 .. Len(s) OBVIOUS
  <1> HIDE DEF t
  <1>3. Range(t) = Range(s) \cup {x}
    <2>1. Range(t) = {t[i] : i \in 1 .. Len(t)} /\ Range(s) = {s[i] : i \in 1 .. Len(s)}
      BY <1>1, <1>2 DEF Range
    <2>2. \A y \in Range(t) : y \in Range(s) \cup {x} BY <1>1, <1>2, <2>1
    <2>3. \A y \in Range(s) \cup {x} : y \in Range(t) BY <1>1, <1>2, <2>1
    <2> QED BY <2>2, <2>3
  <1>4. t # <<>> BY <1>1, <1>2
  <1>5. ASSUME Distinct(s), x \notin Range(s) PROVE Distinct(t)
    <2>1. \A i \in 1 .. Len(s) : s[i] # x BY <1>2, <1>5 DEF Range
    <2> QED BY <1>1, <1>2, <1>5, <2>1 DEF Distinct
  <1> QED BY <1>3, <1>4, <1>5 DEF t

\* The first and the last element of a list that is not empty.
THEOREM EndsInRange ==
  ASSUME NEW S, NEW s \in Seq(S), s # <<>>
  PROVE  Head(s) \in Range(s) /\ s[Len(s)] \in Range(s)
  <1>1. Len(s) \in Nat \ {0} /\ DOMAIN s = 1 .. Len(s) /\ Head(s) = s[1] OBVIOUS
  <1> QED BY <1>1 DEF Range

\* A list with an element put in front, taken out where it was, and cut: the element
\* heads it and none comes twice.
THEOREM FrontOfDistinct ==
  ASSUME NEW S, NEW s \in Seq(S), Distinct(s), NEW x \in S,
         NEW n \in 1 .. Len(<<x>> \o Without(s, {x}))
  PROVE  LET h == SubSeq(<<x>> \o Without(s, {x}), 1, n)
         IN  h \in Seq(S) /\ h # <<>> /\ Len(h) = n /\ Head(h) = x /\ Distinct(h)
  <1> DEFINE w == Without(s, {x})
             l == <<x>> \o w
  <1>1. w \in Seq(S) /\ Range(w) = Range(s) \ {x} /\ Distinct(w) BY WithoutRange
  <1>2. n \in 1 .. Len(l) OBVIOUS
  <1> HIDE DEF w
  <1>3. /\ l \in Seq(S) /\ Len(l) = Len(w) + 1 /\ l[1] = x
        /\ \A i \in 2 .. Len(l) : l[i] = w[i - 1]
    <2>1. <<x>> \in Seq(S) /\ Len(<<x>>) = 1 /\ <<x>>[1] = x OBVIOUS
    <2> QED BY <1>1, <2>1, ConcatProperties
  <1> HIDE DEF l
  <1>4. \A i \in 2 .. Len(l) : i - 1 \in DOMAIN w /\ l[i] # x
    <2> SUFFICES ASSUME NEW i \in 2 .. Len(l) PROVE i - 1 \in DOMAIN w /\ l[i] # x OBVIOUS
    <2>1. i - 1 \in DOMAIN w BY <1>1, <1>3
    <2>2. w[i - 1] \in Range(w) BY <2>1 DEF Range
    <2> QED BY <1>1, <1>3, <2>1, <2>2
  <1>5. \A i, j \in 1 .. Len(l) : l[i] = l[j] => i = j
    <2> SUFFICES ASSUME NEW i \in 1 .. Len(l), NEW j \in 1 .. Len(l), l[i] = l[j] PROVE i = j
      OBVIOUS
    <2>1. Len(l) \in Nat BY <1>3
    <2>2. CASE i = 1 \/ j = 1 BY <1>3, <1>4, <2>1, <2>2
    <2>3. CASE i # 1 /\ j # 1
      <3>1. i \in 2 .. Len(l) /\ j \in 2 .. Len(l) BY <2>1, <2>3
      <3>2. i - 1 \in DOMAIN w /\ j - 1 \in DOMAIN w /\ w[i - 1] = w[j - 1] BY <1>3, <1>4, <3>1
      <3>3. i - 1 = j - 1 BY <1>1, <3>2 DEF Distinct
      <3> QED BY <3>1, <3>3
    <2> QED BY <2>2, <2>3
  <1> DEFINE h == SubSeq(l, 1, n)
  <1>6. h \in Seq(S) /\ Len(h) = n /\ \A i \in 1 .. n : h[i] = l[i]
    <2>1. \A i \in 1 .. n : l[i] \in S BY <1>2, <1>3
    <2> QED BY <1>2, <2>1, SubSeqProperties
  <1> HIDE DEF h
  <1>7. h # <<>> /\ h[1] = x BY <1>2, <1>3, <1>6
  <1>8. Distinct(h)
    <2>1. DOMAIN h = 1 .. n BY <1>6
    <2>2. \A i \in 1 .. n : i \in 1 .. Len(l) BY <1>2
    <2> QED BY <1>5, <1>6, <2>1, <2>2 DEF Distinct
  <1>9. Head(h) = h[1] BY <1>6, <1>7
  <1> QED BY <1>6, <1>7, <1>8, <1>9 DEF h, l, w

=============================================================================
