----------------------------- MODULE ListProofs -----------------------------
(***************************************************************************)
(* Lemmas about what several proofs need of lists and sums: what Without   *)
(* leaves of a list, and how a sum over a finite set grows with the set.   *)
(*                                                                         *)
(* Both are computed by recursive functions, so this needs induction.  The *)
(* library's induction theorems take a predicate, which the provers cannot *)
(* instantiate; Induction takes the set of the numbers that have it        *)
(* instead, and rests on the well-foundedness of the finite sets.          *)
(***************************************************************************)
EXTENDS Lists, Functions, FiniteSetsExt, FiniteSetTheorems, SequenceTheorems, WellFoundedInduction, TLAPS

\* A nonempty set of numbers has a least one.
LEMMA Least ==
  ASSUME NEW T \in SUBSET Nat, T # {}
  PROVE  \E n \in T : \A m \in T : n <= m
<1> DEFINE R == StrictSubsetOrdering(Nat)
           F == FiniteSubsetsOf(Nat)
           D == {0 .. n : n \in T}
<1>1. IsWellFoundedOn(R, F)
  BY FS_StrictSubsetOrderingWellFounded
<1>2. D \subseteq F /\ D # {}
  <2>1. \A n \in Nat : 0 .. n \in SUBSET Nat /\ IsFiniteSet(0 .. n)
    BY FS_Interval
  <2>2. \A n \in T : 0 .. n \in F
    BY <2>1 DEF FiniteSubsetsOf
  <2> HIDE DEF F
  <2> QED BY <2>2
<1> HIDE DEF R, F
<1>3. \E x \in D : \A y \in D : <<y, x>> \notin R
  <2> HIDE DEF D
  <2> QED BY <1>1, <1>2, WFMin
<1>4. PICK n \in T : \A m \in T : <<0 .. m, 0 .. n>> \notin R
  BY <1>3
<1>5. ASSUME NEW m \in T, m < n PROVE FALSE
  <2>1. 0 .. m \subseteq 0 .. n /\ 0 .. m # 0 .. n
    <3>1. n \in 0 .. n /\ n \notin 0 .. m
      BY <1>5
    <3> QED BY <1>5, <3>1
  <2>2. 0 .. m \in SUBSET Nat /\ 0 .. n \in SUBSET Nat
    OBVIOUS
  <2>3. <<0 .. m, 0 .. n>> \in R
    BY <2>1, <2>2 DEF R, StrictSubsetOrdering
  <2> QED BY <1>4, <2>3
<1> QED BY <1>5

\* A nonempty set of positions has a greatest one.
LEMMA Greatest ==
  ASSUME NEW n \in Nat, NEW T \in SUBSET (1 .. n), T # {}
  PROVE  Max(T) \in T /\ \A m \in T : Max(T) >= m
<1> DEFINE D == {n - m : m \in T}
<1>1. D \in SUBSET Nat /\ D # {}
  <2>1. \A m \in T : n - m \in Nat
    OBVIOUS
  <2> QED BY <2>1
<1>2. PICK d \in D : \A c \in D : d <= c
  <2> HIDE DEF D
  <2> QED BY <1>1, Least
<1>3. PICK x \in T : d = n - x
  BY <1>2
<1>4. \A m \in T : x >= m
  BY <1>2, <1>3
<1> QED BY <1>4 DEF Max

\* What holds of 0, and of n + 1 if of n, holds of every number.
LEMMA Induction ==
  ASSUME NEW S \in SUBSET Nat, 0 \in S, \A n \in S : n + 1 \in S
  PROVE  S = Nat
<1> SUFFICES ASSUME Nat \ S # {} PROVE FALSE
  OBVIOUS
<1>1. PICK n \in Nat \ S : \A m \in Nat \ S : n <= m
  BY Least
<1>2. n # 0 /\ n - 1 \in Nat
  BY <1>1
<1>3. n - 1 \in S
  BY <1>1, <1>2
<1> QED BY <1>1, <1>3

-----------------------------------------------------------------------------
(* The loop of Without.                                                    *)

Step(out, list, X, k) ==
  IF k = 0 THEN <<>>
  ELSE IF list[k] \in X THEN out[k - 1] ELSE Append(out[k - 1], list[k])

Loop(out, list, X, n) == out = [k \in 0 .. n |-> Step(out, list, X, k)]

\* It can run for any number of elements.
LEMMA LoopRuns == ASSUME NEW list, NEW X PROVE \A n \in Nat : \E out : Loop(out, list, X, n)
<1> DEFINE S == {n \in Nat : \E out : Loop(out, list, X, n)}
<1>1. 0 \in S
  <2> DEFINE first == [k \in 0 .. 0 |-> <<>>]
  <2>1. Loop(first, list, X, 0)
    BY DEF Loop, Step
  <2> QED BY <2>1
<1>2. ASSUME NEW n \in S PROVE n + 1 \in S
  <2>1. PICK out : Loop(out, list, X, n)
    OBVIOUS
  <2> DEFINE last == IF list[n + 1] \in X THEN out[n] ELSE Append(out[n], list[n + 1])
             longer == [k \in 0 .. n + 1 |-> IF k = n + 1 THEN last ELSE out[k]]
  <2>2. \A k \in 0 .. n : out[k] = Step(out, list, X, k)
    BY <2>1 DEF Loop
  <2>3. Loop(longer, list, X, n + 1)
    BY <2>2 DEF Loop, Step
  <2> QED BY <2>3
<1>3. S = Nat
  <2> HIDE DEF S
  <2>1. S \in SUBSET Nat
    BY DEF S
  <2> QED BY <1>1, <1>2, <2>1, Induction
<1> QED BY <1>3

\* So Appended is what its definition says.
LEMMA AppendedSteps ==
  ASSUME NEW list, NEW X, Len(list) \in Nat
  PROVE  \A k \in 0 .. Len(list) : Appended(list, X)[k] = Step(Appended(list, X), list, X, k)
<1>1. \E out : Loop(out, list, X, Len(list))
  BY LoopRuns
<1>2. Appended(list, X) = CHOOSE out : Loop(out, list, X, Len(list))
  BY DEF Appended, Loop, Step
<1>3. Loop(Appended(list, X), list, X, Len(list))
  BY <1>1, <1>2
<1> QED BY <1>3 DEF Loop

\* Nothing is left of nothing.
LEMMA EmptyWithout == ASSUME NEW X PROVE Without(<<>>, X) = <<>>
<1>1. Len(<<>>) = 0
  OBVIOUS
<1>2. Appended(<<>>, X)[0] = Step(Appended(<<>>, X), <<>>, X, 0)
  BY <1>1, AppendedSteps
<1> QED BY <1>1, <1>2 DEF Without, Step

\* A claim about every round of the loop.
LEMMA EveryRound ==
  ASSUME NEW N \in Nat, NEW S, 0 \in S, \A k \in 0 .. N - 1 : k \in S => k + 1 \in S
  PROVE  \A k \in 0 .. N : k \in S
<1> DEFINE T == {k \in Nat : k <= N => k \in S}
<1>1. 0 \in T /\ \A k \in T : k + 1 \in T
  OBVIOUS
<1>2. T = Nat
  <2> HIDE DEF T
  <2>1. T \in SUBSET Nat
    BY DEF T
  <2> QED BY <1>1, <2>1, Induction
<1> QED BY <1>2

\* What is left of a list: elements of it, each as often as before, and all of
\* them but those in X.
LEMMA WithoutKeeps ==
  ASSUME NEW E, NEW list \in Seq(E), NEW X
  PROVE  LET rest == Without(list, X)
         IN  /\ rest \in Seq(E)
             /\ Range(rest) = Range(list) \ X
             /\ IsInjective(list) => IsInjective(rest)
<1> DEFINE out == Appended(list, X)
           N == Len(list)
           Good(k) ==
             /\ out[k] \in Seq(E)
             /\ \A i \in 1 .. Len(out[k]) : \E j \in 1 .. k : list[j] = out[k][i] /\ list[j] \notin X
             /\ \A j \in 1 .. k : list[j] \notin X => \E i \in 1 .. Len(out[k]) : out[k][i] = list[j]
             /\ IsInjective(list) => IsInjective(out[k])
           S == {k \in 0 .. N : Good(k)}
<1>1. N \in Nat /\ DOMAIN list = 1 .. N /\ \A j \in 1 .. N : list[j] \in E
  OBVIOUS
<1>2. \A k \in 0 .. N : out[k] = IF k = 0 THEN <<>>
                                 ELSE IF list[k] \in X THEN out[k - 1] ELSE Append(out[k - 1], list[k])
  BY <1>1, AppendedSteps DEF Step
<1> HIDE DEF out
<1>3. 0 \in S
  <2>1. out[0] = <<>> /\ 0 \in 0 .. N
    BY <1>1, <1>2
  <2>2. Len(out[0]) = 0 /\ DOMAIN out[0] = {} /\ out[0] \in Seq(E)
    BY <2>1
  <2>3. Good(0)
    BY <2>2 DEF IsInjective
  <2> QED BY <2>1, <2>3
<1>4. ASSUME NEW k \in 0 .. N - 1, k \in S PROVE k + 1 \in S
  <2> DEFINE before == out[k]
             after == out[k + 1]
             x == list[k + 1]
             l == Len(before)
  <2>1. /\ k + 1 \in 0 .. N /\ k + 1 \in 1 .. N /\ x \in E /\ k \in Nat
        /\ after = IF x \in X THEN before ELSE Append(before, x)
    BY <1>1, <1>2
  <2>2. /\ before \in Seq(E) /\ l \in Nat /\ DOMAIN before = 1 .. l
        /\ \A i \in 1 .. l : \E j \in 1 .. k : list[j] = before[i] /\ list[j] \notin X
        /\ \A j \in 1 .. k : list[j] \notin X => \E i \in 1 .. l : before[i] = list[j]
        /\ IsInjective(list) => IsInjective(before)
    BY <1>4
  <2> SUFFICES Good(k + 1)
    BY <2>1
  <2>3. \A j \in 1 .. k + 1 : j \in 1 .. k \/ j = k + 1
    BY <2>1
  <2>4. 1 .. k \subseteq 1 .. k + 1
    BY <2>1
  <2>5. CASE x \in X
    <3>1. after = before
      BY <2>1, <2>5
    <3> HIDE DEF before, after
    <3> QED BY <2>2, <2>3, <2>4, <2>5, <3>1 DEF before, after
  <2>6. CASE x \notin X
    <3> HIDE DEF before, x
    <3>1. /\ after \in Seq(E) /\ Len(after) = l + 1 /\ DOMAIN after = 1 .. l + 1
          /\ after[l + 1] = x /\ \A i \in 1 .. l : after[i] = before[i]
      BY <2>1, <2>2, <2>6, AppendProperties
    <3>2. \A i \in 1 .. l + 1 : i \in 1 .. l \/ i = l + 1
      BY <2>2
    <3>3. l + 1 \in 1 .. l + 1 /\ 1 .. l \subseteq 1 .. l + 1
      BY <2>2
    <3> HIDE DEF after, l
    <3>4. ASSUME NEW i \in 1 .. l + 1
          PROVE  \E j \in 1 .. k + 1 : list[j] = after[i] /\ list[j] \notin X
      <4>1. CASE i \in 1 .. l
        BY <2>2, <2>4, <3>1, <4>1
      <4>2. CASE i = l + 1
        BY <2>1, <2>6, <3>1, <4>2 DEF x
      <4> QED BY <3>2, <4>1, <4>2
    <3>5. ASSUME NEW j \in 1 .. k + 1, list[j] \notin X
          PROVE  \E i \in 1 .. l + 1 : after[i] = list[j]
      <4>1. CASE j \in 1 .. k
        BY <2>2, <3>1, <3>3, <3>5, <4>1
      <4>2. CASE j = k + 1
        BY <3>1, <3>3, <4>2 DEF x
      <4> QED BY <2>3, <4>1, <4>2
    <3>6. ASSUME IsInjective(list) PROVE IsInjective(after)
      <4>1. ASSUME NEW i \in 1 .. l PROVE before[i] # x
        <5>1. PICK j \in 1 .. k : list[j] = before[i]
          BY <2>2
        <5>2. j \in DOMAIN list /\ k + 1 \in DOMAIN list /\ j # k + 1
          BY <1>1, <2>1
        <5> QED BY <3>6, <5>1, <5>2 DEF IsInjective, x
      <4> SUFFICES ASSUME NEW a \in 1 .. l + 1, NEW b \in 1 .. l + 1, after[a] = after[b]
                   PROVE  a = b
        BY <3>1 DEF IsInjective
      <4>2. CASE a \in 1 .. l /\ b \in 1 .. l
        BY <2>2, <3>1, <3>6, <4>2 DEF IsInjective
      <4>3. CASE a = l + 1 \/ b = l + 1
        BY <3>1, <3>2, <4>1, <4>3
      <4> QED BY <3>2, <4>2, <4>3
    <3> QED BY <3>1, <3>4, <3>5, <3>6 DEF after
  <2> QED BY <2>5, <2>6
<1>5. N \in S
  <2> HIDE DEF S, N
  <2>1. \A k \in 0 .. N : k \in S
    BY <1>1, <1>3, <1>4, EveryRound
  <2> QED BY <1>1, <2>1
<1>6. Good(N)
  BY <1>5
<1>7. out[N] \in Seq(E) /\ DOMAIN out[N] = 1 .. Len(out[N])
  BY <1>6
<1>8. Range(out[N]) = Range(list) \ X
  BY <1>1, <1>6, <1>7 DEF Range
<1> QED BY <1>6, <1>8 DEF Without, out

\* If what is left out comes first, the rest remains.
LEMMA WithoutPrefix ==
  ASSUME NEW E, NEW list \in Seq(E), NEW X, NEW cut \in 0 .. Len(list),
         \A k \in 1 .. cut : list[k] \in X,
         \A k \in cut + 1 .. Len(list) : list[k] \notin X
  PROVE  Without(list, X) = SubSeq(list, cut + 1, Len(list))
<1> DEFINE out == Appended(list, X)
           N == Len(list)
           S == {k \in 0 .. N : out[k] = SubSeq(list, cut + 1, k)}
<1>1. N \in Nat /\ cut \in Nat /\ \A k \in 0 .. N : out[k] = Step(out, list, X, k)
  BY AppendedSteps
<1> HIDE DEF out
<1>2. 0 \in S
  <2>1. out[0] = <<>>
    BY <1>1 DEF Step
  <2>2. SubSeq(list, cut + 1, 0) = <<>>
    BY <1>1, SubSeqEmpty
  <2>3. 0 \in 0 .. N
    BY <1>1
  <2> QED BY <2>1, <2>2, <2>3, Zenon
<1>3. ASSUME NEW k \in 0 .. N - 1, k \in S PROVE k + 1 \in S
  <2>1. out[k + 1] = IF list[k + 1] \in X THEN out[k] ELSE Append(out[k], list[k + 1])
    BY <1>1 DEF Step
  <2>2. CASE k + 1 <= cut
    <3>1. SubSeq(list, cut + 1, k) = <<>> /\ SubSeq(list, cut + 1, k + 1) = <<>>
      BY <1>1, <2>2, SubSeqEmpty
    <3>2. out[k + 1] = out[k] /\ k + 1 \in 0 .. N
      BY <1>1, <2>1, <2>2
    <3> QED BY <1>3, <3>1, <3>2, Zenon
  <2>3. CASE k + 1 > cut
    <3>1. out[k + 1] = Append(SubSeq(list, cut + 1, k), list[k + 1])
      <4>1. out[k] = SubSeq(list, cut + 1, k)
        BY <1>3
      <4>2. k + 1 \in cut + 1 .. N
        BY <1>1, <2>3
      <4>3. list[k + 1] \notin X
        BY <4>2
      <4> QED BY <2>1, <4>1, <4>3
    <3>2. SubSeq(list, cut + 1, k + 1) = SubSeq(list, cut + 1, k) \o <<list[k + 1]>>
      BY <1>1, <2>3, SubSeqRecursiveSecond
    <3>3. SubSeq(list, cut + 1, k) \in Seq(E) /\ list[k + 1] \in E
      BY <1>1, <2>3, SubSeqProperties
    <3>4. out[k + 1] = SubSeq(list, cut + 1, k + 1)
      BY <3>1, <3>2, <3>3, AppendIsConcat
    <3>5. k + 1 \in 0 .. N
      BY <1>1
    <3> QED BY <3>4, <3>5, Zenon
  <2> QED BY <1>1, <2>2, <2>3
<1>4. N \in S
  <2> HIDE DEF S, N
  <2>1. \A k \in 0 .. N : k \in S
    BY <1>1, <1>2, <1>3, EveryRound
  <2> QED BY <1>1, <2>1
<1> QED BY <1>4 DEF Without, out
-----------------------------------------------------------------------------
(* Sums.  SumFunctionOnSet takes the elements in some order; these lemmas  *)
(* say that the order does not matter.                                     *)

Pick(s) == CHOOSE x \in s : TRUE

Rest(s) == s \ {Pick(s)}

Total(sum, f, s) == IF s = {} THEN 0 ELSE f[Pick(s)] + sum[Rest(s)]

Summing(sum, f, D) == sum = [s \in D |-> Total(sum, f, s)]

SumsOf(sum, f, S) == Summing(sum, f, SUBSET S)

\* The element taken from a finite set leaves a smaller one.
LEMMA RestIsSmaller ==
  ASSUME NEW s, IsFiniteSet(s), s # {}
  PROVE  /\ Pick(s) \in s /\ Rest(s) \subseteq s /\ s = Rest(s) \cup {Pick(s)}
         /\ IsFiniteSet(Rest(s))
         /\ Cardinality(s) \in Nat /\ Cardinality(s) > 0
         /\ Cardinality(Rest(s)) = Cardinality(s) - 1
<1>1. Pick(s) \in s
  BY DEF Pick
<1>2. IsFiniteSet(Rest(s)) /\ Cardinality(Rest(s)) = Cardinality(s) - 1
  BY <1>1, FS_RemoveElement DEF Rest
<1>3. Cardinality(s) \in Nat /\ Cardinality(Rest(s)) \in Nat
  BY <1>2, FS_CardinalityType
<1> QED BY <1>1, <1>2, <1>3 DEF Rest

\* The sums of all subsets of a finite set exist.
LEMMA SumsExist ==
  ASSUME NEW f, NEW S, IsFiniteSet(S)
  PROVE  \E sum : SumsOf(sum, f, S)
<1> DEFINE Small(n) == {s \in SUBSET S : Cardinality(s) <= n}
           N == {n \in Nat : \E sum : Summing(sum, f, Small(n))}
<1>1. \A s \in SUBSET S : IsFiniteSet(s) /\ Cardinality(s) \in Nat /\ Cardinality(s) <= Cardinality(S)
  BY FS_Subset, FS_CardinalityType
<1>2. 0 \in N
  <2> DEFINE first == [s \in Small(0) |-> 0]
  <2>1. \A s \in Small(0) : s = {}
    BY <1>1, FS_EmptySet
  <2>2. \A s \in Small(0) : Total(first, f, s) = 0
    BY <2>1 DEF Total
  <2>3. Summing(first, f, Small(0))
    BY <2>2 DEF Summing
  <2> QED BY <2>3
<1>3. ASSUME NEW n \in N PROVE n + 1 \in N
  <2>1. PICK sum : Summing(sum, f, Small(n))
    OBVIOUS
  <2> DEFINE longer == [s \in Small(n + 1) |-> Total(sum, f, s)]
  <2>2. \A s \in Small(n) : s \in Small(n + 1) /\ longer[s] = sum[s]
    <3>1. \A s \in Small(n) : s \in Small(n + 1)
      BY <1>1
    <3>2. \A s \in Small(n) : sum[s] = Total(sum, f, s)
      BY <2>1 DEF Summing
    <3> QED BY <3>1, <3>2
  <2>3. \A s \in Small(n + 1) : s # {} => Rest(s) \in Small(n)
    <3> TAKE s \in Small(n + 1)
    <3> HAVE s # {}
    <3>1. IsFiniteSet(s)
      BY <1>1
    <3> QED BY <3>1, RestIsSmaller
  <2>4. \A s \in Small(n + 1) : Total(longer, f, s) = Total(sum, f, s)
    BY <2>2, <2>3 DEF Total
  <2>5. Summing(longer, f, Small(n + 1))
    BY <2>4 DEF Summing
  <2> HIDE DEF longer, Small
  <2>6. n + 1 \in Nat /\ \E any : Summing(any, f, Small(n + 1))
    BY <2>5
  <2> QED BY <2>6
<1>4. N = Nat
  <2> HIDE DEF N
  <2>1. N \in SUBSET Nat
    BY DEF N
  <2> QED BY <1>2, <1>3, <2>1, Induction
<1>5. PICK sum : Summing(sum, f, Small(Cardinality(S)))
  <2>1. Cardinality(S) \in N
    BY <1>1, <1>4
  <2> QED BY <2>1
<1>6. Small(Cardinality(S)) = SUBSET S
  BY <1>1
<1> QED BY <1>5, <1>6 DEF SumsOf

\* They depend on nothing but the elements' values.
LEMMA SumsAgree ==
  ASSUME NEW S, NEW T, IsFiniteSet(S), S \subseteq T, NEW f, NEW g, \A x \in S : f[x] = g[x],
         NEW sumF, SumsOf(sumF, f, S), NEW sumG, SumsOf(sumG, g, T)
  PROVE  sumF[S] = sumG[S]
<1> DEFINE N == {n \in Nat : \A s \in SUBSET S : Cardinality(s) = n => sumF[s] = sumG[s]}
<1>1. \A s \in SUBSET S : /\ IsFiniteSet(s) /\ Cardinality(s) \in Nat
                          /\ sumF[s] = Total(sumF, f, s) /\ sumG[s] = Total(sumG, g, s)
  <2>1. \A s \in SUBSET S : IsFiniteSet(s) /\ Cardinality(s) \in Nat
    BY FS_Subset, FS_CardinalityType
  <2>2. \A s \in SUBSET S : s \in SUBSET T
    OBVIOUS
  <2> QED BY <2>1, <2>2 DEF SumsOf, Summing
<1>2. 0 \in N
  <2>1. \A s \in SUBSET S : Cardinality(s) = 0 => s = {}
    BY <1>1, FS_EmptySet
  <2> QED BY <1>1, <2>1 DEF Total
<1>3. ASSUME NEW n \in N PROVE n + 1 \in N
  <2> SUFFICES ASSUME NEW s \in SUBSET S, Cardinality(s) = n + 1 PROVE sumF[s] = sumG[s]
    OBVIOUS
  <2>1. n + 1 # 0
    OBVIOUS
  <2>2. s # {}
    BY <2>1, FS_EmptySet
  <2>3. Pick(s) \in S /\ Rest(s) \in SUBSET S /\ Cardinality(Rest(s)) = n
    BY <1>1, <2>2, RestIsSmaller
  <2>4. sumF[Rest(s)] = sumG[Rest(s)]
    BY <2>3
  <2> QED BY <1>1, <2>2, <2>3, <2>4 DEF Total
<1>4. N = Nat
  <2> HIDE DEF N
  <2>1. N \in SUBSET Nat
    BY DEF N
  <2> QED BY <1>2, <1>3, <2>1, Induction
<1>5. S \in SUBSET S /\ Cardinality(S) \in N
  BY <1>1, <1>4
<1> QED BY <1>5

\* SumFunctionOnSet is one of these.
LEMMA SumIsTotal ==
  ASSUME NEW f, NEW S, IsFiniteSet(S)
  PROVE  \E sum : SumsOf(sum, f, S) /\ SumFunctionOnSet(f, S) = sum[S]
<1>1. SumFunctionOnSet(f, S) = (CHOOSE sum : SumsOf(sum, f, S))[S]
  BY DEF SumFunctionOnSet, FoldFunctionOnSet, MapThenFoldSet, SumsOf, Summing, Total, Pick, Rest
<1> QED BY <1>1, SumsExist

\* Functions that agree on a set have the same sum on it.
LEMMA SameSum ==
  ASSUME NEW S, IsFiniteSet(S), NEW f, NEW g, \A x \in S : f[x] = g[x]
  PROVE  SumFunctionOnSet(f, S) = SumFunctionOnSet(g, S)
<1>1. PICK sumF : SumsOf(sumF, f, S) /\ SumFunctionOnSet(f, S) = sumF[S]
  BY SumIsTotal
<1>2. PICK sumG : SumsOf(sumG, g, S) /\ SumFunctionOnSet(g, S) = sumG[S]
  BY SumIsTotal
<1>3. S \subseteq S
  OBVIOUS
<1>4. sumF[S] = sumG[S]
  BY <1>1, <1>2, <1>3, SumsAgree
<1> QED BY <1>1, <1>2, <1>4

\* What is taken first.
LEMMA SumTakesOne ==
  ASSUME NEW f, NEW S, IsFiniteSet(S)
  PROVE  SumFunctionOnSet(f, S) = IF S = {} THEN 0 ELSE f[Pick(S)] + SumFunctionOnSet(f, Rest(S))
<1>1. PICK sum : SumsOf(sum, f, S) /\ SumFunctionOnSet(f, S) = sum[S]
  BY SumIsTotal
<1>2. sum[S] = Total(sum, f, S)
  <2>1. S \in SUBSET S
    OBVIOUS
  <2> QED BY <1>1, <2>1 DEF SumsOf, Summing
<1>3. CASE S = {}
  BY <1>1, <1>2, <1>3 DEF Total
<1>4. CASE S # {}
  <2>1. IsFiniteSet(Rest(S)) /\ Rest(S) \subseteq S
    BY <1>4, RestIsSmaller
  <2>2. PICK less : SumsOf(less, f, Rest(S)) /\ SumFunctionOnSet(f, Rest(S)) = less[Rest(S)]
    BY <2>1, SumIsTotal
  <2>3. \A x \in Rest(S) : f[x] = f[x]
    OBVIOUS
  <2>4. less[Rest(S)] = sum[Rest(S)]
    BY <1>1, <2>1, <2>2, <2>3, SumsAgree
  <2> QED BY <1>1, <1>2, <1>4, <2>2, <2>4 DEF Total
<1> QED BY <1>3, <1>4

\* Numbers add up to a number.
LEMMA SumIsNatural ==
  ASSUME NEW S, IsFiniteSet(S), NEW f, \A x \in S : f[x] \in Nat
  PROVE  SumFunctionOnSet(f, S) \in Nat
<1> DEFINE N == {n \in Nat : \A s \in SUBSET S : Cardinality(s) = n => SumFunctionOnSet(f, s) \in Nat}
<1>1. \A s \in SUBSET S : IsFiniteSet(s) /\ Cardinality(s) \in Nat
  BY FS_Subset, FS_CardinalityType
<1>2. 0 \in N
  BY <1>1, FS_EmptySet, SumTakesOne
<1>3. ASSUME NEW n \in N PROVE n + 1 \in N
  <2> SUFFICES ASSUME NEW s \in SUBSET S, Cardinality(s) = n + 1 PROVE SumFunctionOnSet(f, s) \in Nat
    OBVIOUS
  <2>1. s # {}
    <3>1. n + 1 # 0
      OBVIOUS
    <3> QED BY <3>1, FS_EmptySet
  <2>2. Pick(s) \in S /\ Rest(s) \in SUBSET S /\ Cardinality(Rest(s)) = n
    BY <1>1, <2>1, RestIsSmaller
  <2>3. SumFunctionOnSet(f, Rest(s)) \in Nat
    BY <2>2
  <2> QED BY <1>1, <2>1, <2>2, <2>3, SumTakesOne
<1>4. N = Nat
  <2> HIDE DEF N
  <2>1. N \in SUBSET Nat
    BY DEF N
  <2> QED BY <1>2, <1>3, <2>1, Induction
<1>5. S \in SUBSET S /\ Cardinality(S) \in N
  BY <1>1, <1>4
<1> QED BY <1>5

\* Any element can be the one taken first.
LEMMA SumOfOneMore ==
  ASSUME NEW U, IsFiniteSet(U), NEW f, \A x \in U : f[x] \in Nat,
         NEW S \in SUBSET U, NEW x \in U, x \notin S
  PROVE  SumFunctionOnSet(f, S \cup {x}) = f[x] + SumFunctionOnSet(f, S)
<1> DEFINE Sum(s) == SumFunctionOnSet(f, s)
           N == {n \in Nat : \A s \in SUBSET U : \A y \in U :
                   Cardinality(s) = n /\ y \notin s => Sum(s \cup {y}) = f[y] + Sum(s)}
<1>1. \A s \in SUBSET U : IsFiniteSet(s) /\ Cardinality(s) \in Nat /\ Sum(s) \in Nat
  BY FS_Subset, FS_CardinalityType, SumIsNatural
<1>2. \A s \in SUBSET U : s # {} => Sum(s) = f[Pick(s)] + Sum(Rest(s))
  BY <1>1, SumTakesOne
<1> HIDE DEF Sum
<1>3. ASSUME NEW s \in SUBSET U, NEW y \in U, y \notin s, Pick(s \cup {y}) = y
      PROVE  Sum(s \cup {y}) = f[y] + Sum(s)
  <2>1. Rest(s \cup {y}) = s
    BY <1>3 DEF Rest
  <2> QED BY <1>2, <1>3, <2>1
<1>4. 0 \in N
  <2> SUFFICES ASSUME NEW s \in SUBSET U, NEW y \in U, Cardinality(s) = 0
               PROVE  Sum(s \cup {y}) = f[y] + Sum(s)
    OBVIOUS
  <2>1. s = {}
    BY <1>1, FS_EmptySet
  <2>2. Pick(s \cup {y}) = y
    BY <2>1 DEF Pick
  <2> QED BY <1>3, <2>1, <2>2
<1>5. ASSUME NEW n \in N PROVE n + 1 \in N
  <2> SUFFICES ASSUME NEW s \in SUBSET U, NEW y \in U, Cardinality(s) = n + 1, y \notin s
               PROVE  Sum(s \cup {y}) = f[y] + Sum(s)
    OBVIOUS
  <2> DEFINE z == Pick(s \cup {y})
             less == s \ {z}
  <2>1. z \in s \cup {y} /\ s \cup {y} \in SUBSET U
    BY DEF Pick
  <2>2. CASE z = y
    BY <1>3, <2>2
  <2>3. CASE z # y
    <3>1. z \in s /\ z \in U /\ less \in SUBSET U /\ z \notin less /\ y \notin less
      BY <2>1, <2>3
    <3>2. Cardinality(less) = n
      <4>1. IsFiniteSet(s)
        BY <1>1
      <4> HIDE DEF z
      <4>2. Cardinality(less) = Cardinality(s) - 1
        BY <3>1, <4>1, FS_RemoveElement
      <4> QED BY <4>2
    <3>3. Sum(less \cup {z}) = f[z] + Sum(less) /\ Sum(less \cup {y}) = f[y] + Sum(less)
      BY <3>1, <3>2
    <3>4. less \cup {z} = s /\ Rest(s \cup {y}) = less \cup {y}
      BY <2>3, <3>1 DEF Rest
    <3>5. Sum(s \cup {y}) = f[z] + Sum(less \cup {y})
      BY <1>2, <2>1, <3>4
    <3>6. f[z] \in Nat /\ f[y] \in Nat /\ Sum(less) \in Nat
      BY <1>1, <3>1
    <3>7. Sum(s) = f[z] + Sum(less)
      BY <3>3, <3>4
    <3>8. Sum(s \cup {y}) = f[z] + (f[y] + Sum(less))
      BY <3>3, <3>5
    <3> HIDE DEF less, z
    <3> QED BY <3>6, <3>7, <3>8
  <2> QED BY <2>2, <2>3
<1>6. N = Nat
  <2> HIDE DEF N
  <2>1. N \in SUBSET Nat
    BY DEF N
  <2> QED BY <1>4, <1>5, <2>1, Induction
<1>7. Cardinality(S) \in N
  BY <1>1, <1>6
<1>8. Sum(S \cup {x}) = f[x] + Sum(S)
  BY <1>7
<1> QED BY <1>8 DEF Sum

\* A sum over more positions is no smaller.
LEMMA SumGrows ==
  ASSUME NEW n \in Nat, NEW f, \A k \in 1 .. n : f[k] \in Nat,
         NEW i \in 1 .. n, NEW j \in i .. n
  PROVE  SumFunctionOnSet(f, j .. n) <= SumFunctionOnSet(f, i .. n)
<1> DEFINE Sum(k) == SumFunctionOnSet(f, k .. n)
           S == {d \in Nat : d < j => Sum(j) <= Sum(j - d)}
<1>1. IsFiniteSet(1 .. n) /\ \A k \in 1 .. n : k .. n \in SUBSET (1 .. n) /\ IsFiniteSet(k .. n)
  <2>1. IsFiniteSet(1 .. n) /\ \A k \in 1 .. n : k .. n \in SUBSET (1 .. n)
    BY FS_Interval
  <2> QED BY <2>1, FS_Subset
<1>2. \A k \in 1 .. n : Sum(k) \in Nat
  <2> TAKE k \in 1 .. n
  <2>1. \A x \in k .. n : f[x] \in Nat
    BY <1>1
  <2> QED BY <1>1, <2>1, SumIsNatural
<1>3. \A k \in 2 .. n : Sum(k - 1) = f[k - 1] + Sum(k)
  <2> TAKE k \in 2 .. n
  <2>1. k - 1 \in 1 .. n /\ k - 1 \notin k .. n /\ k .. n \in SUBSET (1 .. n)
    OBVIOUS
  <2>2. (k - 1) .. n = (k .. n) \cup {k - 1}
    OBVIOUS
  <2>3. PICK U, T, x : U = 1 .. n /\ T = k .. n /\ x = k - 1
    OBVIOUS
  <2>4. IsFiniteSet(U) /\ (\A y \in U : f[y] \in Nat) /\ T \in SUBSET U /\ x \in U /\ x \notin T
    BY <1>1, <2>1, <2>3
  <2>5. SumFunctionOnSet(f, T \cup {x}) = f[x] + SumFunctionOnSet(f, T)
    BY ONLY <2>4, SumOfOneMore
  <2> QED BY <2>2, <2>3, <2>5
<1>4. j \in 1 .. n /\ i \in Nat /\ i <= j
  OBVIOUS
<1> HIDE DEF Sum
<1>5. 0 \in S
  BY <1>2, <1>4
<1>6. ASSUME NEW d \in S PROVE d + 1 \in S
  <2> SUFFICES ASSUME d + 1 < j PROVE Sum(j) <= Sum(j - (d + 1))
    OBVIOUS
  <2>1. j - d \in 2 .. n /\ j - d \in 1 .. n /\ (j - d) - 1 \in 1 .. n /\ (j - d) - 1 = j - (d + 1)
    BY <1>4
  <2>2. Sum(j) <= Sum(j - d) /\ Sum((j - d) - 1) = f[(j - d) - 1] + Sum(j - d)
    BY <1>3, <2>1
  <2>3. Sum(j) \in Nat /\ Sum(j - d) \in Nat /\ f[(j - d) - 1] \in Nat
    BY <1>2, <1>4, <2>1
  <2> QED BY <2>1, <2>2, <2>3
<1>7. S = Nat
  <2> HIDE DEF S
  <2>1. S \in SUBSET Nat
    BY DEF S
  <2> QED BY <1>5, <1>6, <2>1, Induction
<1>8. j - i \in Nat /\ j - (j - i) = i /\ j - i < j
  BY <1>4
<1>9. j - i \in S
  <2> HIDE DEF S
  <2> QED BY <1>7, <1>8
<1>10. Sum(j) <= Sum(i)
  BY <1>8, <1>9
<1> QED BY <1>10 DEF Sum
=============================================================================
