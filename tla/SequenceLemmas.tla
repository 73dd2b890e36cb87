---------------------------- MODULE SequenceLemmas ----------------------------
(***************************************************************************)
(* What the proofs of several components rest on: sequences without        *)
(* repetition, for the queues of requests and events; induction; and sums  *)
(* over finite sets and along sequences, for the counters and the folds.   *)
(***************************************************************************)
EXTENDS Integers, SequencesExt, SequenceTheorems, FiniteSetTheorems, TLAPS

\* Appending adds one element, and keeps a sequence free of repetition when
\* the element is new.
LEMMA AppendDistinct ==
    ASSUME NEW S, NEW s \in Seq(S), NEW e \in S
    PROVE  /\ Append(s, e) \in Seq(S)
           /\ ToSet(Append(s, e)) = ToSet(s) \cup {e}
           /\ IsInjective(s) /\ e \notin ToSet(s) => IsInjective(Append(s, e))
BY AppendProperties DEF ToSet, IsInjective

\* What an appended element does to the indices.
LEMMA AppendIndexes ==
    ASSUME NEW S, NEW s \in Seq(S), NEW x \in S
    PROVE  /\ Append(s, x) \in Seq(S)
           /\ DOMAIN Append(s, x) = DOMAIN s \cup {Len(s) + 1}
           /\ Len(s) + 1 \notin DOMAIN s /\ Len(s) \in Nat /\ Len(Append(s, x)) = Len(s) + 1
           /\ Append(s, x)[Len(s) + 1] = x
           /\ \A k \in DOMAIN s : Append(s, x)[k] = s[k] /\ k \in Nat /\ k < Len(s) + 1
<1>1. DOMAIN s = 1 .. Len(s) /\ Len(s) \in Nat
  BY LenProperties
<1>2. /\ Append(s, x) \in Seq(S) /\ Len(Append(s, x)) = Len(s) + 1
      /\ Append(s, x)[Len(s) + 1] = x /\ \A k \in 1 .. Len(s) : Append(s, x)[k] = s[k]
  BY AppendProperties
<1>3. DOMAIN Append(s, x) = 1 .. Len(s) + 1
  BY <1>2, LenProperties
<1> QED
  BY <1>1, <1>2, <1>3

\* Taking the head off removes exactly that element.
LEMMA TailDistinct ==
    ASSUME NEW S, NEW s \in Seq(S), s # <<>>
    PROVE  /\ Tail(s) \in Seq(S)
           /\ Head(s) \in S
           /\ Head(s) \in ToSet(s)
           /\ IsInjective(s) => /\ IsInjective(Tail(s))
                                /\ ToSet(Tail(s)) = ToSet(s) \ {Head(s)}
<1>1. /\ Head(s) = s[1] /\ 1 \in DOMAIN s /\ Len(s) \in Nat /\ Len(s) >= 1
      /\ DOMAIN s = 1 .. Len(s)
  BY EmptySeq, LenProperties
<1>2. /\ Tail(s) \in Seq(S) /\ Len(Tail(s)) = Len(s) - 1
      /\ DOMAIN Tail(s) = 1 .. Len(s) - 1
      /\ \A i \in 1 .. Len(s) - 1 : Tail(s)[i] = s[i + 1]
  BY HeadTailProperties, LenProperties
<1>3. Head(s) \in S /\ Head(s) \in ToSet(s)
  BY <1>1, ElementOfSeq DEF ToSet
<1>4. ASSUME IsInjective(s)
      PROVE  IsInjective(Tail(s)) /\ ToSet(Tail(s)) = ToSet(s) \ {Head(s)}
  <2>1. IsInjective(Tail(s))
    BY <1>1, <1>2, <1>4 DEF IsInjective
  <2>2. \A x \in ToSet(Tail(s)) : x \in ToSet(s) \ {Head(s)}
    BY <1>1, <1>2, <1>4 DEF IsInjective, ToSet
  <2>3. ASSUME NEW x \in ToSet(s), x # Head(s)
        PROVE  x \in ToSet(Tail(s))
    <3>1. PICK i \in 1 .. Len(s) : s[i] = x
      BY <1>1 DEF ToSet
    <3>2. i - 1 \in 1 .. Len(s) - 1 /\ Tail(s)[i - 1] = x
      BY <1>1, <1>2, <2>3, <3>1
    <3>3. QED
      BY <1>2, <3>2 DEF ToSet
  <2>4. QED
    BY <2>1, <2>2, <2>3
<1>5. QED
  BY <1>2, <1>3, <1>4

\* A sequence without repetition is as long as it has elements.
LEMMA DistinctCount ==
    ASSUME NEW S, NEW s \in Seq(S), IsInjective(s)
    PROVE  IsFiniteSet(ToSet(s)) /\ Cardinality(ToSet(s)) = Len(s)
<1>1. Len(s) \in Nat /\ s \in [1 .. Len(s) -> ToSet(s)] /\ DOMAIN s = 1 .. Len(s)
  BY LenProperties DEF ToSet
<1>2. s \in Surjection(1 .. Len(s), ToSet(s)) /\ s \in Injection(1 .. Len(s), ToSet(s))
  BY <1>1 DEF Surjection, Injection, ToSet
<1>3. IsFiniteSet(1 .. Len(s)) /\ Cardinality(1 .. Len(s)) = Len(s)
  BY <1>1, FS_Interval, SMTT(20)
<1> QED BY <1>2, <1>3, FS_Surjection

\* So does taking an element out of the middle.
LEMMA RemoveDistinct ==
    ASSUME NEW S, NEW s \in Seq(S), NEW i \in DOMAIN s
    PROVE  /\ RemoveAt(s, i) \in Seq(S)
           /\ s[i] \in S
           /\ s[i] \in ToSet(s)
           /\ IsInjective(s) => /\ IsInjective(RemoveAt(s, i))
                                /\ ToSet(RemoveAt(s, i)) = ToSet(s) \ {s[i]}
<1> DEFINE n == Len(s)
           t == RemoveAt(s, i)
<1>1. n \in Nat /\ DOMAIN s = 1 .. n /\ i \in 1 .. n
  BY LenProperties
<1>2. /\ SubSeq(s, 1, i - 1) \in Seq(S)
      /\ Len(SubSeq(s, 1, i - 1)) = i - 1
      /\ \A j \in 1 .. i - 1 : SubSeq(s, 1, i - 1)[j] = s[j]
  BY <1>1, SubSeqProperties
<1>3. /\ SubSeq(s, i + 1, n) \in Seq(S)
      /\ Len(SubSeq(s, i + 1, n)) = n - i
      /\ \A j \in 1 .. n - i : SubSeq(s, i + 1, n)[j] = s[i + j]
  BY <1>1, SubSeqProperties, SMTT(20)
<1>4. /\ t \in Seq(S) /\ Len(t) = n - 1 /\ DOMAIN t = 1 .. n - 1
      /\ \A j \in 1 .. n - 1 : t[j] = IF j < i THEN s[j] ELSE s[j + 1]
  <2>1. t = SubSeq(s, 1, i - 1) \o SubSeq(s, i + 1, n)
    BY DEF RemoveAt
  <2>2. t \in Seq(S) /\ Len(t) = (i - 1) + (n - i)
    BY <1>2, <1>3, <2>1, ConcatProperties
  <2>3. \A j \in 1 .. n - 1 :
           t[j] = IF j <= i - 1 THEN SubSeq(s, 1, i - 1)[j]
                                ELSE SubSeq(s, i + 1, n)[j - (i - 1)]
    <3>1. \A j \in 1 .. Len(SubSeq(s, 1, i - 1)) + Len(SubSeq(s, i + 1, n)) :
             t[j] = IF j <= Len(SubSeq(s, 1, i - 1))
                    THEN SubSeq(s, 1, i - 1)[j]
                    ELSE SubSeq(s, i + 1, n)[j - Len(SubSeq(s, 1, i - 1))]
      <4>1. PICK u \in Seq(S) : u = SubSeq(s, 1, i - 1)
        BY <1>2
      <4>2. PICK v \in Seq(S) : v = SubSeq(s, i + 1, n)
        BY <1>3
      <4>3. \A j \in 1 .. Len(u) + Len(v) :
               (u \o v)[j] = IF j <= Len(u) THEN u[j] ELSE v[j - Len(u)]
        BY ONLY ConcatProperties
      <4>4. QED
        BY ONLY <4>1, <4>2, <4>3, <2>1
    <3>2. Len(SubSeq(s, 1, i - 1)) = i - 1
          /\ Len(SubSeq(s, 1, i - 1)) + Len(SubSeq(s, i + 1, n)) = n - 1
      BY <1>1, <1>2, <1>3
    <3>3. QED
      BY ONLY <3>1, <3>2
  <2>4. Len(t) = n - 1 /\ DOMAIN t = 1 .. n - 1
    BY <1>1, <2>2, LenProperties
  <2>5. \A j \in 1 .. n - 1 : t[j] = IF j < i THEN s[j] ELSE s[j + 1]
    <3>1. TAKE j \in 1 .. n - 1
    <3>2. CASE j < i
      <4>1. j \in 1 .. i - 1
        BY <1>1, <3>2
      <4>2. QED
        BY <1>1, <1>2, <2>3, <3>2, <4>1
    <3>3. CASE j >= i
      <4>1. j - (i - 1) \in 1 .. n - i
        BY <1>1, <3>3
      <4>2. SubSeq(s, i + 1, n)[j - (i - 1)] = s[i + (j - (i - 1))]
        BY <1>3, <4>1
      <4>3. QED
        BY <1>1, <2>3, <3>3, <4>2
    <3>4. QED
      BY <1>1, <3>2, <3>3
  <2>6. QED
    BY <2>2, <2>4, <2>5
<1>5. s[i] \in S /\ s[i] \in ToSet(s)
  BY <1>1, ElementOfSeq DEF ToSet
<1>6. ASSUME IsInjective(s)
      PROVE  IsInjective(t) /\ ToSet(t) = ToSet(s) \ {s[i]}
  <2>0. /\ \A j, k \in 1 .. n : s[j] = s[k] => j = k
        /\ \A j \in 1 .. n - 1 : t[j] = s[IF j < i THEN j ELSE j + 1]
    <3>1. \A j, k \in 1 .. n : s[j] = s[k] => j = k
      BY <1>1, <1>6 DEF IsInjective
    <3>2. \A j \in 1 .. n - 1 : t[j] = s[IF j < i THEN j ELSE j + 1]
      BY <1>4
    <3>3. QED
      BY <3>1, <3>2
  <2>1. IsInjective(t)
    <3>1. ASSUME NEW j \in 1 .. n - 1, NEW k \in 1 .. n - 1, t[j] = t[k] PROVE j = k
      <4>1. (IF j < i THEN j ELSE j + 1) = (IF k < i THEN k ELSE k + 1)
        <5>1. (IF j < i THEN j ELSE j + 1) \in 1 .. n /\ (IF k < i THEN k ELSE k + 1) \in 1 .. n
          BY <1>1
        <5>2. QED
          BY <2>0, <3>1, <5>1
      <4>2. QED
        BY <1>1, <4>1
    <3>2. QED
      BY <1>4, <3>1 DEF IsInjective
  <2>2. \A x \in ToSet(t) : x \in ToSet(s) \ {s[i]}
    <3>1. ASSUME NEW j \in 1 .. n - 1 PROVE t[j] \in ToSet(s) /\ t[j] # s[i]
      <4> DEFINE k == IF j < i THEN j ELSE j + 1
      <4>1. k \in 1 .. n /\ k # i /\ t[j] = s[k]
        BY <1>1, <2>0
      <4> HIDE DEF k
      <4>2. QED
        BY <1>1, <2>0, <4>1 DEF ToSet
    <3>2. QED
      BY <1>4, <3>1 DEF ToSet
  <2>3. ASSUME NEW x \in ToSet(s), x # s[i]
        PROVE  x \in ToSet(t)
    <3>1. PICK k \in 1 .. n : s[k] = x
      BY <1>1 DEF ToSet
    <3>2. CASE k < i
      BY <1>1, <1>4, <3>1, <3>2 DEF ToSet
    <3>3. CASE k > i
      <4>1. k - 1 \in 1 .. n - 1 /\ t[k - 1] = x
        BY <1>1, <1>4, <3>1, <3>3
      <4>2. QED
        BY <1>4, <4>1 DEF ToSet
    <3>4. QED
      BY <1>1, <2>3, <3>1, <3>2, <3>3
  <2>4. QED
    BY <2>1, <2>2, <2>3
<1>7. QED
  BY <1>4, <1>5, <1>6

\* The elements of one sequence after the other.
LEMMA ConcatElements ==
    ASSUME NEW S, NEW s \in Seq(S), NEW t \in Seq(S)
    PROVE  s \o t \in Seq(S) /\ ToSet(s \o t) = ToSet(s) \cup ToSet(t)
<1>1. /\ DOMAIN s = 1 .. Len(s) /\ DOMAIN t = 1 .. Len(t)
      /\ Len(s) \in Nat /\ Len(t) \in Nat
  BY LenProperties
<1>2. /\ s \o t \in Seq(S) /\ Len(s \o t) = Len(s) + Len(t)
      /\ \A k \in 1 .. Len(s) + Len(t) :
            (s \o t)[k] = IF k <= Len(s) THEN s[k] ELSE t[k - Len(s)]
  BY ConcatProperties
<1>3. DOMAIN (s \o t) = 1 .. Len(s) + Len(t)
  BY <1>2, LenProperties
<1>4. \A k \in DOMAIN s : k \in DOMAIN (s \o t) /\ (s \o t)[k] = s[k]
  BY <1>1, <1>2, <1>3
<1>5. \A k \in DOMAIN t : Len(s) + k \in DOMAIN (s \o t) /\ (s \o t)[Len(s) + k] = t[k]
  BY <1>1, <1>2, <1>3
<1>6. ASSUME NEW k \in DOMAIN (s \o t)
      PROVE  (s \o t)[k] \in ToSet(s) \cup ToSet(t)
  <2>1. CASE k <= Len(s)
    <3>1. k \in DOMAIN s /\ (s \o t)[k] = s[k]
      BY <1>1, <1>2, <1>3, <2>1
    <3> QED
      BY <3>1 DEF ToSet
  <2>2. CASE ~(k <= Len(s))
    <3>1. k - Len(s) \in DOMAIN t /\ (s \o t)[k] = t[k - Len(s)]
      BY <1>1, <1>2, <1>3, <2>2
    <3> QED
      BY <3>1 DEF ToSet
  <2> QED
    BY <2>1, <2>2
<1>7. /\ \A x \in ToSet(s) : x \in ToSet(s \o t)
      /\ \A x \in ToSet(t) : x \in ToSet(s \o t)
  <2> DEFINE u == s \o t
  <2>1. /\ \A k \in DOMAIN s : k \in DOMAIN u /\ u[k] = s[k]
        /\ \A k \in DOMAIN t : Len(s) + k \in DOMAIN u /\ u[Len(s) + k] = t[k]
    BY <1>4, <1>5
  <2> HIDE DEF u
  <2>2. /\ \A x \in ToSet(s) : x \in ToSet(u)
        /\ \A x \in ToSet(t) : x \in ToSet(u)
    BY <2>1 DEF ToSet
  <2> QED
    BY <2>2 DEF u
<1>8. \A x \in ToSet(s \o t) : x \in ToSet(s) \cup ToSet(t)
  BY <1>6 DEF ToSet
<1> QED
  BY <1>2, <1>7, <1>8

\* As many values as elements, when no two have the same.
LEMMA ImageCount ==
    ASSUME NEW S, IsFiniteSet(S), NEW f, DOMAIN f = S,
           \A x, y \in S : f[x] = f[y] => x = y
    PROVE  /\ IsFiniteSet({f[x] : x \in S})
           /\ Cardinality({f[x] : x \in S}) = Cardinality(S)
<1> DEFINE g == [x \in S |-> f[x]]
           T == {f[x] : x \in S}
<1>1. g \in Bijection(S, T)
  <2>1. g \in [S -> T] /\ \A x \in S : g[x] = f[x]
    OBVIOUS
  <2>2. \A x, y \in S : g[x] = g[y] => x = y
    BY <2>1
  <2>3. \A t \in T : \E x \in S : g[x] = t
    BY <2>1
  <2> HIDE DEF g, T
  <2> QED
    BY <2>1, <2>2, <2>3 DEF Bijection, Injection, Surjection, IsInjective
<1>2. ExistsBijection(S, T)
  BY <1>1 DEF ExistsBijection
<1> HIDE DEF T
<1>3. IsFiniteSet(T) /\ Cardinality(T) = Cardinality(S)
  BY <1>2, FS_Bijection
<1> QED
  BY <1>3 DEF T

\* Two sets that have no element in common.
LEMMA DisjointCount ==
    ASSUME NEW S, IsFiniteSet(S), NEW T, IsFiniteSet(T), S \cap T = {}
    PROVE  IsFiniteSet(S \cup T) /\ Cardinality(S \cup T) = Cardinality(S) + Cardinality(T)
<1>1. /\ IsFiniteSet(S \cup T)
      /\ Cardinality(S \cup T) = Cardinality(S) + Cardinality(T) - Cardinality(S \cap T)
  BY FS_Union
<1>2. Cardinality(S \cap T) = 0
  BY FS_EmptySet
<1>3. Cardinality(S) \in Nat /\ Cardinality(T) \in Nat
  BY FS_CardinalityType
<1> QED
  BY <1>1, <1>2, <1>3

\* A run of numbers that has four parts.
LEMMA FourParts ==
    ASSUME NEW n \in Nat, NEW A, NEW B, NEW C, NEW D, 1 .. n = A \cup B \cup C \cup D,
           A \cap B = {}, A \cap C = {}, A \cap D = {}, B \cap C = {}, B \cap D = {}, C \cap D = {}
    PROVE  n = Cardinality(A) + Cardinality(B) + Cardinality(C) + Cardinality(D)
<1>1. IsFiniteSet(1 .. n) /\ Cardinality(1 .. n) = n
  BY FS_Interval
<1>2. IsFiniteSet(A) /\ IsFiniteSet(B) /\ IsFiniteSet(C) /\ IsFiniteSet(D)
  BY <1>1, FS_Subset
<1> DEFINE E == A \cup B
           F == E \cup C
<1>3. IsFiniteSet(E) /\ Cardinality(E) = Cardinality(A) + Cardinality(B)
  BY <1>2, DisjointCount
<1>4. E \cap C = {} /\ F \cap D = {} /\ F \cup D = 1 .. n
  OBVIOUS
<1> HIDE DEF E
<1>5. IsFiniteSet(F) /\ Cardinality(F) = Cardinality(E) + Cardinality(C)
  BY <1>2, <1>3, <1>4, DisjointCount
<1> HIDE DEF F
<1>6. Cardinality(F \cup D) = Cardinality(F) + Cardinality(D)
  BY <1>2, <1>4, <1>5, DisjointCount
<1> QED
  BY <1>1, <1>3, <1>4, <1>5, <1>6

-----------------------------------------------------------------------------
(* Induction.  The library's principles take an operator, which the        *)
(* provers cannot instantiate; the well-foundedness of strict inclusion    *)
(* does not, and gives induction over a set.                               *)

\* A set of naturals that is not empty has a least element.
LEMMA LeastNatural ==
    ASSUME NEW T, T \subseteq Nat, T # {}
    PROVE  \E m \in T : \A k \in T : m <= k
<1> DEFINE F == {0 .. n : n \in T}
           R == StrictSubsetOrdering(Nat)
<1>1. F \subseteq FiniteSubsetsOf(Nat)
  <2>1. \A n \in T : n \in Nat /\ 0 .. n \subseteq Nat /\ IsFiniteSet(0 .. n)
    BY FS_Interval
  <2> QED
    BY <2>1 DEF FiniteSubsetsOf
<1>2. F # {}
  OBVIOUS
<1>3. \E x \in F : \A y \in F : ~ (<<y, x>> \in R)
  <2> HIDE DEF F
  <2>1. IsWellFoundedOn(R, FiniteSubsetsOf(Nat))
    BY FS_StrictSubsetOrderingWellFounded
  <2> HIDE DEF R
  <2> QED
    BY <1>1, <1>2, <2>1, WFMin
<1>4. PICK m \in T : \A n \in T : ~ (<<0 .. n, 0 .. m>> \in R)
  BY <1>3
<1>5. ASSUME NEW n \in T, n < m PROVE FALSE
  <2>1. n \in 0 .. m /\ m \in 0 .. m /\ m \notin 0 .. n /\ n \in Nat /\ m \in Nat
    BY <1>5
  <2>2. 0 .. n \subseteq 0 .. m /\ 0 .. n # 0 .. m
    BY <2>1, <1>5
  <2>3. <<0 .. n, 0 .. m>> \in R
    BY <2>1, <2>2 DEF StrictSubsetOrdering
  <2> QED
    BY <2>3, <1>4
<1> QED
  BY <1>4, <1>5

\* A set with 0 and, with a number, its successor has all of them.
LEMMA NaturalsByInduction ==
    ASSUME NEW T, 0 \in T, \A n \in Nat : n \in T => n + 1 \in T
    PROVE  Nat \subseteq T
<1> SUFFICES ASSUME Nat \ T # {} PROVE FALSE
  OBVIOUS
<1>1. PICK m \in Nat \ T : \A k \in Nat \ T : m <= k
  BY LeastNatural
<1>2. m # 0 /\ m - 1 \in Nat /\ m - 1 \notin Nat \ T
  BY <1>1
<1> QED
  BY <1>1, <1>2

\* A set of subsets of S that has every subset of S whose smaller subsets it
\* has, has them all.
LEMMA SubsetsByInduction ==
    ASSUME NEW S, IsFiniteSet(S), NEW U,
           \A T \in SUBSET S : (\A V \in SUBSET T : V # T => V \in U) => T \in U
    PROVE  SUBSET S \subseteq U
<1> DEFINE W == (SUBSET S) \ U
           R == StrictSubsetOrdering(S)
<1> SUFFICES ASSUME W # {} PROVE FALSE
  OBVIOUS
<1>1. W \subseteq FiniteSubsetsOf(S)
  BY FS_Subset DEF FiniteSubsetsOf
<1>2. PICK T \in W : \A V \in W : ~ (<<V, T>> \in R)
  <2>1. IsWellFoundedOn(R, FiniteSubsetsOf(S))
    BY FS_StrictSubsetOrderingWellFounded
  <2> HIDE DEF R, W
  <2> QED
    BY <1>1, <2>1, WFMin
<1>3. ASSUME NEW V \in SUBSET T, V # T, V \notin U PROVE FALSE
  <2>1. V \in W /\ V \in SUBSET S /\ T \in SUBSET S
    BY <1>3
  <2>2. <<V, T>> \in R
    BY <1>3, <2>1 DEF StrictSubsetOrdering
  <2> QED
    BY <1>2, <2>1, <2>2
<1> QED
  BY <1>3

-----------------------------------------------------------------------------
(* Folds, and sums over finite sets.                                       *)

\* pick takes an element of each subset, and the steps stay in V.
Picks(pick, S) == \A T \in SUBSET S : T # {} => pick[T] \in T
Steps(step, S, V) == \A x \in S : \A v \in V : step[x][v] \in V

\* The recursion of the folds of the community modules: one element after the
\* other, as pick tells.
FoldsUp(iter, base, step, pick, S) ==
    iter = [T \in SUBSET S |->
              IF T = {} THEN base ELSE step[pick[T]][iter[T \ {pick[T]}]]]

\* There is such a function, of values in V when the steps stay in V.
LEMMA FoldsExist ==
    ASSUME NEW S, IsFiniteSet(S), NEW V, NEW base \in V, NEW step,
           Steps(step, S, V), NEW pick, Picks(pick, S)
    PROVE  \E iter \in [SUBSET S -> V] : FoldsUp(iter, base, step, pick, S)
<1> DEFINE size == [T \in SUBSET S |-> Cardinality(T)]
<1>1. /\ size \in [SUBSET S -> Nat]
      /\ \A T \in SUBSET S : size[T] = 0 <=> T = {}
      /\ \A T \in SUBSET S : \A x \in T : size[T \ {x}] = size[T] - 1
      /\ \A T \in SUBSET S : size[T] <= size[S]
  BY FS_Subset, FS_CardinalityType, FS_EmptySet, FS_RemoveElement
<1> HIDE DEF size
<1> DEFINE Upto(n) == {T \in SUBSET S : size[T] <= n}
           Body(iter, T) == IF T = {} THEN base ELSE step[pick[T]][iter[T \ {pick[T]}]]
           Defined(n) == \E iter \in [Upto(n) -> V] : iter = [T \in Upto(n) |-> Body(iter, T)]
           N == {n \in Nat : Defined(n)}
<1>2. 0 \in N
  <2>1. \A T \in Upto(0) : T = {}
    BY <1>1
  <2>2. [T \in Upto(0) |-> base] = [T \in Upto(0) |-> Body([U \in Upto(0) |-> base], T)]
    BY <2>1
  <2> QED
    BY <2>2
<1>3. ASSUME NEW n \in Nat, n \in N
      PROVE  n + 1 \in N
  <2>1. PICK old \in [Upto(n) -> V] : old = [T \in Upto(n) |-> Body(old, T)]
    BY <1>3
  <2> DEFINE new == [T \in Upto(n + 1) |-> Body(old, T)]
  <2>2. \A T \in Upto(n) : T \in Upto(n + 1)
    BY <1>1
  <2>3. \A T \in Upto(n) : new[T] = old[T]
    BY <2>1, <2>2
  <2>4. ASSUME NEW T \in Upto(n + 1), T # {}
        PROVE  T \ {pick[T]} \in Upto(n)
    <3>1. pick[T] \in T
      BY <2>4 DEF Picks
    <3>2. size[T \ {pick[T]}] = size[T] - 1 /\ size[T] \in Nat /\ size[T] <= n + 1
      BY <1>1, <3>1
    <3> QED
      BY <3>2
  <2>5. \A T \in Upto(n + 1) : Body(old, T) = Body(new, T)
    <3> HIDE DEF Upto, new
    <3> QED
      BY <2>3, <2>4
  <2>6. new = [T \in Upto(n + 1) |-> Body(new, T)]
    <3> HIDE DEF Upto, Body
    <3> QED
      BY <2>5
  <2>7. new \in [Upto(n + 1) -> V]
    <3>1. ASSUME NEW T \in Upto(n + 1), T # {} PROVE step[pick[T]][old[T \ {pick[T]}]] \in V
      <4>1. pick[T] \in S /\ old[T \ {pick[T]}] \in V
        <5> HIDE DEF Upto
        <5>1. old[T \ {pick[T]}] \in V
          BY <2>4, <3>1
        <5>2. T \in SUBSET S
          BY DEF Upto
        <5> QED
          BY <3>1, <5>1, <5>2 DEF Picks
      <4> QED
        BY <4>1 DEF Steps
    <3>2. \A T \in Upto(n + 1) : Body(old, T) \in V
      BY <3>1
    <3> HIDE DEF Upto, Body
    <3> QED
      BY <3>2
  <2>8. Defined(n + 1)
    <3> HIDE DEF Upto, Body, new
    <3> QED
      BY <2>6, <2>7
  <2> HIDE DEF Defined
  <2> QED
    BY <2>8
<1>4. size[S] \in N
  <2> HIDE DEF N
  <2> QED
    BY <1>1, <1>2, <1>3, NaturalsByInduction
<1>5. Upto(size[S]) = SUBSET S
  BY <1>1
<1> QED
  BY <1>4, <1>5 DEF FoldsUp

\* Sums are such folds.
SumsUp(iter, g, pick, S) ==
    iter = [T \in SUBSET S |-> IF T = {} THEN 0 ELSE g[pick[T]] + iter[T \ {pick[T]}]]

LEMMA SumsExist ==
    ASSUME NEW S, IsFiniteSet(S), NEW g, \A x \in S : g[x] \in Int,
           NEW pick, Picks(pick, S)
    PROVE  \E iter : SumsUp(iter, g, pick, S)
<1> DEFINE step == [x \in S |-> [v \in Int |-> g[x] + v]]
<1>1. \A x \in S : \A v \in Int : step[x][v] = g[x] + v
  OBVIOUS
<1>2. Steps(step, S, Int)
  BY <1>1 DEF Steps
<1> HIDE DEF step
<1>3. PICK iter \in [SUBSET S -> Int] : FoldsUp(iter, 0, step, pick, S)
  <2>1. \A base \in Int : \E iter \in [SUBSET S -> Int] : FoldsUp(iter, base, step, pick, S)
    BY ONLY <1>2, Picks(pick, S), IsFiniteSet(S), FoldsExist
  <2>2. 0 \in Int
    OBVIOUS
  <2> QED
    BY ONLY <2>1, <2>2, Zenon
<1>4. ASSUME NEW T \in SUBSET S, T # {}
      PROVE  step[pick[T]][iter[T \ {pick[T]}]] = g[pick[T]] + iter[T \ {pick[T]}]
  <2>1. pick[T] \in S /\ iter[T \ {pick[T]}] \in Int
    BY <1>4 DEF Picks
  <2> QED
    BY <1>1, <2>1
<1>5. SumsUp(iter, g, pick, S)
  BY <1>3, <1>4 DEF FoldsUp, SumsUp
<1> QED
  BY <1>5

\* The same fold with the terms of its additions exchanged.
LEMMA ReversedSums ==
    ASSUME NEW S, IsFiniteSet(S), NEW g, \A x \in S : g[x] \in Int,
           NEW pick, Picks(pick, S), NEW iter,
           iter = [T \in SUBSET S |-> IF T = {} THEN 0 ELSE iter[T \ {pick[T]}] + g[pick[T]]]
    PROVE  SumsUp(iter, g, pick, S)
<1> DEFINE Typed == {T \in SUBSET S : iter[T] \in Int}
<1>1. \A T \in SUBSET S : T # {} => /\ pick[T] \in T /\ g[pick[T]] \in Int
                                     /\ iter[T] = iter[T \ {pick[T]}] + g[pick[T]]
  BY DEF Picks
<1>2. ASSUME NEW T \in SUBSET S, \A V \in SUBSET T : V # T => V \in Typed
      PROVE  T \in Typed
  <2>1. CASE T = {}
    BY <2>1
  <2>2. CASE T # {}
    <3>1. pick[T] \in T /\ T \ {pick[T]} \in SUBSET T /\ T \ {pick[T]} # T
      BY <1>1, <2>2
    <3>2. g[pick[T]] \in Int /\ iter[T \ {pick[T]}] \in Int
      BY <1>1, <1>2, <2>2, <3>1
    <3>3. iter[T] \in Int
      <4>1. iter[T] = iter[T \ {pick[T]}] + g[pick[T]]
        BY <1>1, <2>2
      <4> QED
        BY <3>2, <4>1
    <3> QED
      BY <3>3
  <2> QED
    BY <2>1, <2>2
<1>3. SUBSET S \subseteq Typed
  <2> HIDE DEF Typed
  <2> QED
    BY <1>2, SubsetsByInduction
<1>4. ASSUME NEW T \in SUBSET S, T # {}
      PROVE  iter[T \ {pick[T]}] + g[pick[T]] = g[pick[T]] + iter[T \ {pick[T]}]
  <2>1. T \ {pick[T]} \in Typed /\ g[pick[T]] \in Int
    BY <1>1, <1>3, <1>4
  <2> QED
    BY <2>1
<1> QED
  BY <1>4 DEF SumsUp

\* iter gives every subset of S the sum of the values of g.
IsSum(iter, g, S) ==
    /\ iter \in [SUBSET S -> Int]
    /\ iter[{}] = 0
    /\ \A T \in SUBSET S : \A x \in T : iter[T] = g[x] + iter[T \ {x}]

\* It is the sum, in whatever order the elements are picked.
LEMMA SumsAreSums ==
    ASSUME NEW S, IsFiniteSet(S), NEW g, \A x \in S : g[x] \in Int,
           NEW pick, Picks(pick, S),
           NEW iter, SumsUp(iter, g, pick, S)
    PROVE  IsSum(iter, g, S)
<1>1. \A T \in SUBSET S : T # {} => /\ pick[T] \in T
                                     /\ iter[T] = g[pick[T]] + iter[T \ {pick[T]}]
  BY DEF SumsUp, Picks
<1>2. iter[{}] = 0
  BY DEF SumsUp
<1> DEFINE Typed == {T \in SUBSET S : iter[T] \in Int}
           Adds == {T \in SUBSET S : \A x \in T : iter[T] = g[x] + iter[T \ {x}]}
<1>3. \A T \in SUBSET S : iter[T] \in Int
  <2>1. ASSUME NEW T \in SUBSET S, \A V \in SUBSET T : V # T => V \in Typed
        PROVE  T \in Typed
    <3>1. CASE T = {}
      BY <1>2, <3>1
    <3>2. CASE T # {}
      <4>1. pick[T] \in T /\ T \ {pick[T]} \in SUBSET T /\ T \ {pick[T]} # T
        BY <1>1, <3>2
      <4>2. g[pick[T]] \in Int /\ iter[T \ {pick[T]}] \in Int
        BY <2>1, <4>1
      <4>3. iter[T] = g[pick[T]] + iter[T \ {pick[T]}]
        BY <1>1, <3>2
      <4>4. iter[T] \in Int
        BY <4>2, <4>3
      <4> QED
        BY <4>4
    <3> QED
      BY <3>1, <3>2
  <2>2. SUBSET S \subseteq Typed
    <3> HIDE DEF Typed
    <3> QED
      BY <2>1, SubsetsByInduction
  <2> QED
    BY <2>2
<1>4. \A T \in SUBSET S : \A x \in T : iter[T] = g[x] + iter[T \ {x}]
  <2>1. ASSUME NEW T \in SUBSET S, \A V \in SUBSET T : V # T => V \in Adds
        PROVE  T \in Adds
    <3> SUFFICES ASSUME NEW x \in T PROVE iter[T] = g[x] + iter[T \ {x}]
      OBVIOUS
    <3> DEFINE c == pick[T]
    <3>1. c \in T /\ iter[T] = g[c] + iter[T \ {c}]
      BY <1>1
    <3>2. CASE c = x
      BY <3>1, <3>2
    <3>3. CASE c # x
      <4> DEFINE V == T \ {c, x}
      <4>1. /\ T \ {c} \in Adds /\ x \in T \ {c} /\ (T \ {c}) \ {x} = V
            /\ T \ {x} \in Adds /\ c \in T \ {x} /\ (T \ {x}) \ {c} = V
        BY <2>1, <3>1, <3>3
      <4>2. iter[T \ {c}] = g[x] + iter[V] /\ iter[T \ {x}] = g[c] + iter[V]
        BY <4>1
      <4>3. iter[V] \in Int /\ g[x] \in Int /\ g[c] \in Int
        BY <1>3, <3>1
      <4> QED
        BY <3>1, <4>2, <4>3
    <3> QED
      BY <3>2, <3>3
  <2>2. SUBSET S \subseteq Adds
    <3> HIDE DEF Adds
    <3> QED
      BY <2>1, SubsetsByInduction
  <2> QED
    BY <2>2
<1> QED
  BY <1>2, <1>3, <1>4 DEF SumsUp, IsSum

\* The sum of the values of g over S.
TotalOf(g, S) == (CHOOSE iter : IsSum(iter, g, S))[S]

\* It is the sum of the same values however they are given and added.
LEMMA SumsAgree ==
    ASSUME NEW S, IsFiniteSet(S), NEW g, NEW h, \A x \in S : g[x] = h[x],
           NEW iter, IsSum(iter, g, S), NEW other, IsSum(other, h, S)
    PROVE  iter[S] = other[S]
<1> DEFINE Same == {T \in SUBSET S : iter[T] = other[T]}
<1>1. ASSUME NEW T \in SUBSET S, \A V \in SUBSET T : V # T => V \in Same
      PROVE  T \in Same
  <2>1. CASE T = {}
    BY <2>1 DEF IsSum
  <2>2. CASE T # {}
    <3>1. PICK x : x \in T
      BY <2>2
    <3>2. T \ {x} \in Same
      BY <1>1, <3>1
    <3>3. iter[T] = g[x] + iter[T \ {x}] /\ other[T] = h[x] + other[T \ {x}]
      BY <3>1 DEF IsSum
    <3>4. g[x] = h[x]
      BY <3>1
    <3> QED
      BY <3>2, <3>3, <3>4
  <2> QED
    BY <2>1, <2>2
<1>2. SUBSET S \subseteq Same
  <2> HIDE DEF Same
  <2> QED
    BY <1>1, SubsetsByInduction
<1> QED
  BY <1>2

LEMMA TotalIs ==
    ASSUME NEW S, IsFiniteSet(S), NEW g, \A x \in S : g[x] \in Int
    PROVE  \E iter : IsSum(iter, g, S) /\ TotalOf(g, S) = iter[S]
<1> DEFINE pick == [T \in SUBSET S |-> CHOOSE x \in T : TRUE]
<1>1. Picks(pick, S)
  BY DEF Picks
<1> HIDE DEF pick
<1>2. \E iter : IsSum(iter, g, S)
  BY <1>1, SumsExist, SumsAreSums
<1> QED
  BY <1>2 DEF TotalOf

LEMMA TotalIsSum ==
    ASSUME NEW S, IsFiniteSet(S), NEW g, NEW h, \A x \in S : g[x] = h[x] /\ g[x] \in Int,
           NEW iter, IsSum(iter, g, S)
    PROVE  iter[S] = TotalOf(h, S)
<1>1. PICK other : IsSum(other, h, S) /\ TotalOf(h, S) = other[S]
  BY TotalIs
<1> QED
  BY <1>1, SumsAgree

LEMMA TotalSame ==
    ASSUME NEW S, IsFiniteSet(S), NEW g, NEW h, \A x \in S : g[x] = h[x] /\ g[x] \in Int
    PROVE  TotalOf(g, S) = TotalOf(h, S)
<1>1. PICK iter : IsSum(iter, g, S) /\ TotalOf(g, S) = iter[S]
  BY TotalIs
<1> QED
  BY <1>1, TotalIsSum

LEMMA TotalEmpty == \A g : TotalOf(g, {}) = 0
<1> TAKE g
<1>1. PICK iter : IsSum(iter, g, {}) /\ TotalOf(g, {}) = iter[{}]
  BY TotalIs, FS_EmptySet
<1> QED
  BY <1>1 DEF IsSum

LEMMA TotalSplit ==
    ASSUME NEW S, IsFiniteSet(S), NEW g, \A x \in S : g[x] \in Int, NEW x \in S
    PROVE  /\ TotalOf(g, S) = g[x] + TotalOf(g, S \ {x})
           /\ TotalOf(g, S) \in Int /\ TotalOf(g, S \ {x}) \in Int
<1>1. PICK iter : IsSum(iter, g, S) /\ TotalOf(g, S) = iter[S]
  BY TotalIs
<1> DEFINE less == [T \in SUBSET (S \ {x}) |-> iter[T]]
<1>2. IsFiniteSet(S \ {x})
  BY FS_RemoveElement
<1>3. IsSum(less, g, S \ {x})
  BY <1>1 DEF IsSum
<1>4. less[S \ {x}] = TotalOf(g, S \ {x}) /\ less[S \ {x}] = iter[S \ {x}]
  BY <1>2, <1>3, TotalIsSum
<1>5. iter[S] = g[x] + iter[S \ {x}] /\ iter[S] \in Int /\ iter[S \ {x}] \in Int
  BY <1>1 DEF IsSum
<1> QED
  BY <1>1, <1>4, <1>5

\* Another value for one of the elements.
LEMMA TotalReplace ==
    ASSUME NEW S, IsFiniteSet(S), NEW x \in S,
           NEW g, \A y \in S : g[y] \in Int,
           NEW h, \A y \in S : h[y] \in Int /\ (y # x => h[y] = g[y])
    PROVE  TotalOf(h, S) = TotalOf(g, S) - g[x] + h[x]
<1>1. /\ TotalOf(g, S) = g[x] + TotalOf(g, S \ {x}) /\ TotalOf(g, S \ {x}) \in Int
      /\ TotalOf(h, S) = h[x] + TotalOf(h, S \ {x})
  BY TotalSplit
<1>2. TotalOf(h, S \ {x}) = TotalOf(g, S \ {x})
  <2>1. IsFiniteSet(S \ {x}) /\ \A y \in S \ {x} : h[y] = g[y] /\ h[y] \in Int
    BY FS_RemoveElement
  <2> QED
    BY <2>1, TotalSame
<1>3. g[x] \in Int /\ h[x] \in Int
  OBVIOUS
<1> QED
  BY <1>1, <1>2, <1>3

LEMMA TotalNat ==
    ASSUME NEW S, IsFiniteSet(S), NEW g, \A x \in S : g[x] \in Nat
    PROVE  TotalOf(g, S) \in Nat
<1>1. PICK iter : IsSum(iter, g, S) /\ TotalOf(g, S) = iter[S]
  BY TotalIs
<1> DEFINE Small == {T \in SUBSET S : iter[T] \in Nat}
<1>2. ASSUME NEW T \in SUBSET S, \A V \in SUBSET T : V # T => V \in Small
      PROVE  T \in Small
  <2>1. CASE T = {}
    BY <1>1, <2>1 DEF IsSum
  <2>2. CASE T # {}
    <3>1. PICK x : x \in T
      BY <2>2
    <3>2. T \ {x} \in Small /\ g[x] \in Nat
      BY <1>2, <3>1
    <3>3. iter[T] = g[x] + iter[T \ {x}]
      BY <1>1, <3>1 DEF IsSum
    <3>4. iter[T] \in Nat
      BY <3>2, <3>3
    <3> QED
      BY <3>4
  <2> QED
    BY <2>1, <2>2
<1>3. SUBSET S \subseteq Small
  <2> HIDE DEF Small
  <2> QED
    BY <1>2, SubsetsByInduction
<1> QED
  BY <1>1, <1>3

\* Nothing adds up to nothing.
LEMMA TotalZero ==
    ASSUME NEW S, IsFiniteSet(S), NEW g, \A x \in S : g[x] = 0
    PROVE  TotalOf(g, S) = 0
<1>1. PICK iter : IsSum(iter, g, S) /\ TotalOf(g, S) = iter[S]
  BY TotalIs
<1> DEFINE Zero == {T \in SUBSET S : iter[T] = 0}
<1>2. ASSUME NEW T \in SUBSET S, \A V \in SUBSET T : V # T => V \in Zero
      PROVE  T \in Zero
  <2>1. CASE T = {}
    BY <1>1, <2>1 DEF IsSum
  <2>2. CASE T # {}
    <3>1. PICK x \in T : TRUE
      BY <2>2
    <3>2. T \ {x} \in Zero
      BY <1>2, <3>1
    <3>3. iter[T] = g[x] + iter[T \ {x}]
      BY <1>1, <3>1 DEF IsSum
    <3> QED
      BY <3>2, <3>3
  <2> QED
    BY <2>1, <2>2
<1>3. SUBSET S \subseteq Zero
  <2> HIDE DEF Zero
  <2> QED
    BY <1>2, SubsetsByInduction
<1> QED
  BY <1>1, <1>3

\* The sum of the community modules is this one.
LEMMA SumIsTotal ==
    ASSUME NEW S, IsFiniteSet(S), NEW g, \A x \in S : g[x] \in Int
    PROVE  MapThenSumSet(LAMBDA x : g[x], S) = TotalOf(g, S)
<1> DEFINE pick == [T \in SUBSET S |-> CHOOSE x \in T : TRUE]
           Folds(iter) == iter =
             [T \in SUBSET S |->
                IF T = {} THEN 0 ELSE g[CHOOSE x \in T : TRUE] + iter[T \ {CHOOSE x \in T : TRUE}]]
           fold == CHOOSE iter : Folds(iter)
<1>1. MapThenSumSet(LAMBDA x : g[x], S) = fold[S]
  BY DEF MapThenSumSet, MapThenFoldSet
<1>2. \A T \in SUBSET S : pick[T] = CHOOSE x \in T : TRUE
  OBVIOUS
<1>3. Picks(pick, S)
  BY DEF Picks
<1>4. PICK iter : SumsUp(iter, g, pick, S)
  <2> HIDE DEF pick
  <2> QED
    BY <1>3, SumsExist
<1>5. ASSUME NEW f PROVE SumsUp(f, g, pick, S) <=> Folds(f)
  <2> HIDE DEF pick
  <2> QED
    BY <1>2 DEF SumsUp
<1>6. SumsUp(fold, g, pick, S)
  <2>1. Folds(fold)
    <3> HIDE DEF Folds
    <3> QED
      BY <1>4, <1>5
  <2> HIDE DEF Folds, fold, pick
  <2> QED
    BY <1>5, <2>1
<1>7. fold[S] = TotalOf(g, S)
  <2> HIDE DEF fold, pick
  <2>1. IsSum(fold, g, S)
    BY <1>3, <1>6, SumsAreSums
  <2> QED
    BY <2>1, TotalIsSum
<1> QED
  BY <1>1, <1>7

\* The greatest of finitely many numbers.
LEMMA HighestOf ==
    ASSUME NEW S, IsFiniteSet(S), S # {}, NEW f \in [S -> Nat]
    PROVE  /\ Max({f[p] : p \in S}) \in Nat
           /\ \E p \in S : f[p] = Max({f[q] : q \in S})
           /\ \A p \in S : f[p] <= Max({f[q] : q \in S})
<1> DEFINE Highest(T) == \E p \in T : \A q \in T : f[q] <= f[p]
           U == {T \in SUBSET S : T = {} \/ Highest(T)}
<1>1. ASSUME NEW T \in SUBSET S, \A V \in SUBSET T : V # T => V \in U
      PROVE  T \in U
  <2> SUFFICES ASSUME T # {} PROVE Highest(T)
    OBVIOUS
  <2>1. PICK x : x \in T
    OBVIOUS
  <2>2. T \ {x} \in U
    BY <1>1, <2>1
  <2>3. CASE T \ {x} = {}
    <3>1. \A q \in T : q = x /\ f[q] \in Nat
      BY <2>3
    <3> QED BY <2>1, <3>1
  <2>4. CASE Highest(T \ {x})
    <3>1. PICK p \in T \ {x} : \A q \in T \ {x} : f[q] <= f[p]
      BY <2>4
    <3>2. f[p] \in Nat /\ f[x] \in Nat /\ \A q \in T : f[q] \in Nat
      BY <2>1, <3>1
    <3>3. CASE f[x] <= f[p]
      BY <3>1, <3>3
    <3>4. CASE f[p] < f[x]
      <4>1. \A q \in T : f[q] <= f[x]
        BY <3>1, <3>2, <3>4
      <4> QED BY <2>1, <4>1
    <3> QED BY <3>2, <3>3, <3>4
  <2> QED BY <2>2, <2>3, <2>4
<1>2. SUBSET S \subseteq U
  <2> HIDE DEF U
  <2> QED BY <1>1, SubsetsByInduction
<1>3. PICK p \in S : \A q \in S : f[q] <= f[p]
  <2>1. S \in U
    BY <1>2
  <2> QED BY <2>1
<1> DEFINE All == {f[q] : q \in S}
<1>4. f[p] \in All /\ \A y \in All : f[p] >= y
  BY <1>3
<1>5. Max(All) \in All /\ \A y \in All : Max(All) >= y
  <2> HIDE DEF All
  <2> QED BY <1>4 DEF Max
<1> QED BY <1>5

-----------------------------------------------------------------------------
(* Sums along sequences.                                                   *)

\* The sum of the weights w of the elements of s.
SumAlong(w, s) == TotalOf([i \in DOMAIN s |-> w[s[i]]], DOMAIN s)

\* Runs of numbers, one longer than the other.
LEMMA RunsOfNumbers ==
    ASSUME NEW m \in Nat
    PROVE  /\ IsFiniteSet(1 .. m) /\ IsFiniteSet(1 .. m + 1)
           /\ m + 1 \in 1 .. m + 1 /\ (1 .. m + 1) \ {m + 1} = 1 .. m
<1>1. m \in Int /\ m + 1 \in Int /\ 1 \in Int
  OBVIOUS
<1>2. IsFiniteSet(1 .. m) /\ IsFiniteSet(1 .. m + 1)
  BY <1>1, FS_Interval
<1>3. \A x : x \in 1 .. m + 1 /\ x # m + 1 <=> x \in 1 .. m
  OBVIOUS
<1> QED
  BY <1>2, <1>3

\* The community modules' folds over a sequence take the greatest index first.
LEMMA MaxAmong ==
    ASSUME NEW n \in Nat, NEW T \in SUBSET (1 .. n), T # {}
    PROVE  Max(T) \in T
<1> DEFINE Below == {n - t : t \in T}
<1>1. Below \subseteq Nat /\ Below # {}
  <2>1. \A t \in T : n - t \in Nat
    OBVIOUS
  <2>2. PICK t : t \in T
    OBVIOUS
  <2>3. n - t \in Below
    BY <2>2
  <2> QED
    BY <2>1, <2>3
<1>2. \E m \in Below : \A k \in Below : m <= k
  <2> HIDE DEF Below
  <2> QED
    BY <1>1, LeastNatural
<1>3. PICK x \in T : \A y \in T : n - x <= n - y
  BY <1>2
<1>4. \A y \in T : x >= y
  BY <1>3
<1> QED
  BY <1>4 DEF Max

\* Leaving the first of a run of numbers out.
LEMMA TotalShift ==
    ASSUME NEW n \in Nat, NEW g, \A i \in 1 .. n + 1 : g[i] \in Int,
           NEW h, \A i \in 1 .. n : h[i] = g[i + 1]
    PROVE  TotalOf(g, 1 .. n + 1) = g[1] + TotalOf(h, 1 .. n)
<1> DEFINE Shifts(m) == TotalOf(g, 1 .. m + 1) = g[1] + TotalOf(h, 1 .. m)
           N == {m \in Nat : m <= n => Shifts(m)}
<1>1. \A m \in Nat : /\ IsFiniteSet(1 .. m) /\ (1 .. m + 1) \ {m + 1} = 1 .. m
                     /\ m + 1 \in 1 .. m + 1
  BY RunsOfNumbers
<1>2. \A i \in 1 .. n : h[i] \in Int
  OBVIOUS
<1>3. 0 \in N
  <2>1. 1 \in 1 .. n + 1 /\ g[1] \in Int
    OBVIOUS
  <2>2. IsFiniteSet(1 .. 1) /\ 1 \in 1 .. 1 /\ (1 .. 1) \ {1} = {} /\ 1 .. 0 = {} /\ 0 + 1 = 1
    <3>1. \A x : x \in 1 .. 1 <=> x = 1
      OBVIOUS
    <3>2. 1 .. 0 = {} /\ 0 + 1 = 1
      OBVIOUS
    <3>3. 1 .. 1 = {1}
      BY <3>1
    <3>4. IsFiniteSet(1 .. 1)
      BY <3>3, FS_Singleton
    <3> QED
      BY <3>1, <3>2, <3>4
  <2>3. \A x \in 1 .. 1 : g[x] \in Int
    BY <2>1
  <2>4. TotalOf(g, 1 .. 1) = g[1] + TotalOf(g, {})
    BY <2>2, <2>3, TotalSplit
  <2>5. TotalOf(g, {}) = 0 /\ TotalOf(h, {}) = 0
    BY TotalEmpty
  <2>6. TotalOf(g, 1 .. 0 + 1) = g[1] + TotalOf(h, 1 .. 0)
    BY <2>1, <2>2, <2>4, <2>5
  <2> QED
    BY <2>6
<1>4. ASSUME NEW m \in Nat, m \in N PROVE m + 1 \in N
  <2> SUFFICES ASSUME m + 1 <= n PROVE Shifts(m + 1)
    OBVIOUS
  <2>1. Shifts(m) /\ m + 1 \in Nat /\ m + 2 \in 1 .. n + 1 /\ m + 1 \in 1 .. n /\ 1 \in 1 .. n + 1
    BY <1>4
  <2>2. TotalOf(g, 1 .. m + 2) = g[m + 2] + TotalOf(g, 1 .. m + 1) /\ TotalOf(g, 1 .. m + 1) \in Int
    <3>1. \A i \in 1 .. m + 2 : g[i] \in Int
      OBVIOUS
    <3>2. IsFiniteSet(1 .. m + 2) /\ m + 2 \in 1 .. m + 2 /\ (1 .. m + 2) \ {m + 2} = 1 .. m + 1
      BY <1>1, <2>1
    <3> QED
      BY <3>1, <3>2, TotalSplit
  <2>3. TotalOf(h, 1 .. m + 1) = h[m + 1] + TotalOf(h, 1 .. m) /\ TotalOf(h, 1 .. m) \in Int
    <3>1. \A i \in 1 .. m + 1 : h[i] \in Int
      BY <1>2
    <3>2. IsFiniteSet(1 .. m + 1) /\ m + 1 \in 1 .. m + 1 /\ (1 .. m + 1) \ {m + 1} = 1 .. m
      BY <1>1, <2>1
    <3> QED
      BY ONLY <3>1, <3>2, TotalSplit
  <2>4. h[m + 1] = g[m + 2] /\ g[m + 2] \in Int /\ g[1] \in Int
    BY <2>1
  <2>5. TotalOf(g, 1 .. (m + 1) + 1) = g[1] + TotalOf(h, 1 .. m + 1)
    <3>1. (m + 1) + 1 = m + 2
      OBVIOUS
    <3>2. TotalOf(g, 1 .. m + 1) = g[1] + TotalOf(h, 1 .. m)
      BY <2>1
    <3>3. TotalOf(g, 1 .. m + 2) = g[1] + TotalOf(h, 1 .. m + 1)
      BY <2>2, <2>3, <2>4, <3>2
    <3> QED
      BY <3>1, <3>3
  <2> QED
    BY <2>5
<1>5. n \in N
  <2> HIDE DEF N
  <2> QED
    BY <1>3, <1>4, NaturalsByInduction
<1> QED
  BY <1>5

\* What adding at the end and taking off at the front do to a sum.
LEMMA SumAlongEmpty == \A w : SumAlong(w, <<>>) = 0
BY TotalEmpty DEF SumAlong

LEMMA SumAlongInt ==
    ASSUME NEW S, NEW s \in Seq(S), NEW w, \A x \in S : w[x] \in Nat
    PROVE  SumAlong(w, s) \in Nat
<1>1. DOMAIN s = 1 .. Len(s) /\ Len(s) \in Nat /\ IsFiniteSet(1 .. Len(s))
  BY LenProperties, FS_Interval
<1>2. \A i \in DOMAIN s : [j \in DOMAIN s |-> w[s[j]]][i] \in Nat
  BY ElementOfSeq, <1>1
<1> QED
  BY <1>1, <1>2, TotalNat DEF SumAlong

LEMMA SumAlongAppend ==
    ASSUME NEW S, NEW s \in Seq(S), NEW w, \A x \in S : w[x] \in Nat, NEW e \in S
    PROVE  SumAlong(w, Append(s, e)) = SumAlong(w, s) + w[e]
<1> DEFINE t == Append(s, e)
           n == Len(s)
           g == [i \in DOMAIN t |-> w[t[i]]]
           h == [i \in DOMAIN s |-> w[s[i]]]
<1>1. /\ n \in Nat /\ DOMAIN s = 1 .. n /\ DOMAIN t = 1 .. n + 1
      /\ \A i \in 1 .. n : t[i] = s[i] /\ s[i] \in S
      /\ t[n + 1] = e
  BY LenProperties, AppendProperties, ElementOfSeq
<1>2. /\ IsFiniteSet(1 .. n + 1) /\ IsFiniteSet(1 .. n)
      /\ n + 1 \in 1 .. n + 1 /\ (1 .. n + 1) \ {n + 1} = 1 .. n
  BY <1>1, RunsOfNumbers
<1> HIDE DEF t, n
<1>3. g[n + 1] = w[e] /\ \A i \in 1 .. n : h[i] = g[i] /\ h[i] \in Int
  BY <1>1
<1>4. \A i \in 1 .. n + 1 : g[i] \in Int
  BY <1>1, <1>3
<1> HIDE DEF g, h
<1>5. TotalOf(g, 1 .. n + 1) = g[n + 1] + TotalOf(g, 1 .. n) /\ TotalOf(g, 1 .. n) \in Int
  <2> DEFINE S1 == 1 .. n + 1
  <2>1. IsFiniteSet(S1) /\ n + 1 \in S1 /\ S1 \ {n + 1} = 1 .. n /\ \A i \in S1 : g[i] \in Int
    BY <1>2, <1>4
  <2> HIDE DEF S1
  <2>2. TotalOf(g, S1) = g[n + 1] + TotalOf(g, S1 \ {n + 1}) /\ TotalOf(g, S1 \ {n + 1}) \in Int
    BY ONLY <2>1, TotalSplit, Zenon
  <2> QED
    BY <2>1, <2>2 DEF S1
<1>6. TotalOf(h, 1 .. n) = TotalOf(g, 1 .. n)
  BY <1>2, <1>3, TotalSame
<1>7. TotalOf(g, DOMAIN t) = TotalOf(h, DOMAIN s) + w[e]
  <2>1. w[e] \in Int
    OBVIOUS
  <2> QED
    BY <1>1, <1>3, <1>5, <1>6, <2>1
<1> QED
  BY <1>7 DEF SumAlong, g, h, t

LEMMA SumAlongTail ==
    ASSUME NEW S, NEW s \in Seq(S), NEW w, \A x \in S : w[x] \in Nat, s # <<>>
    PROVE  SumAlong(w, s) = w[Head(s)] + SumAlong(w, Tail(s))
<1> DEFINE t == Tail(s)
           n == Len(t)
           g == [i \in DOMAIN s |-> w[s[i]]]
           h == [i \in DOMAIN t |-> w[t[i]]]
<1>1. /\ n \in Nat /\ DOMAIN s = 1 .. n + 1 /\ DOMAIN t = 1 .. n
      /\ \A i \in 1 .. n : t[i] = s[i + 1]
      /\ Head(s) = s[1]
  BY LenProperties, HeadTailProperties, EmptySeq
<1>2. \A i \in 1 .. n + 1 : s[i] \in S
  BY <1>1, ElementOfSeq
<1> HIDE DEF t, n
<1>3. /\ \A i \in 1 .. n + 1 : g[i] \in Int
      /\ \A i \in 1 .. n : h[i] = g[i + 1]
      /\ g[1] = w[Head(s)]
  BY <1>1, <1>2
<1> HIDE DEF g, h
<1>4. TotalOf(g, 1 .. n + 1) = g[1] + TotalOf(h, 1 .. n)
  BY <1>1, <1>3, TotalShift
<1>5. TotalOf(g, DOMAIN s) = w[Head(s)] + TotalOf(h, DOMAIN t)
  BY <1>1, <1>3, <1>4
<1> QED
  BY <1>5 DEF SumAlong, g, h, t

\* f has what k turns of a loop make of its start, for each k.
LoopsUp(f, base, step, n) == f[0] = base /\ \A k \in 1 .. n : f[k] = step[f[k - 1]]

\* A loop that stays in a set has a trace of its turns.
LEMMA LoopsExist ==
    ASSUME NEW V, NEW base \in V, NEW step, \A v \in V : step[v] \in V, NEW n \in Nat
    PROVE  \E f \in [0 .. n -> V] : LoopsUp(f, base, step, n)
<1> DEFINE Traces(m) == {f \in [0 .. m -> V] :
                            f[0] = base /\ \A k \in 1 .. m : f[k] = step[f[k - 1]]}
           N == {m \in Nat : Traces(m) # {}}
<1>1. 0 \in N
  <2>1. [k \in 0 .. 0 |-> base] \in Traces(0)
    OBVIOUS
  <2> QED
    BY <2>1
<1>2. ASSUME NEW m \in Nat, m \in N
      PROVE  m + 1 \in N
  <2>1. PICK f \in [0 .. m -> V] : f[0] = base /\ \A k \in 1 .. m : f[k] = step[f[k - 1]]
    BY <1>2
  <2> DEFINE g == [k \in 0 .. m + 1 |-> IF k <= m THEN f[k] ELSE step[f[m]]]
  <2>2. f[m] \in V /\ step[f[m]] \in V
    BY <2>1
  <2>3. g \in [0 .. m + 1 -> V]
    BY <2>1, <2>2
  <2>4. g[0] = base /\ \A k \in 1 .. m + 1 : g[k] = step[g[k - 1]]
    BY <2>1
  <2> HIDE DEF g
  <2>5. g \in Traces(m + 1)
    BY <2>3, <2>4
  <2> HIDE DEF Traces
  <2> QED
    BY <2>5
<1>3. n \in N
  <2> HIDE DEF N
  <2> QED
    BY <1>1, <1>2, NaturalsByInduction
<1> QED
  BY <1>3 DEF LoopsUp

\* What two sequences make, one after the other.
LEMMA Joined ==
    ASSUME NEW S, NEW a \in Seq(S), NEW b \in Seq(S), NEW m, m = Len(a), NEW n, n = Len(b),
           NEW c, c = a \o b
    PROVE  /\ c \in Seq(S) /\ Len(c) = m + n /\ DOMAIN c = 1 .. m + n
           /\ \A k \in 1 .. m : c[k] = a[k]
           /\ \A k \in 1 .. n : c[m + k] = b[k]
<1>1. m \in Nat /\ n \in Nat
  BY LenProperties
<1>2. /\ c \in Seq(S) /\ Len(c) = Len(a) + Len(b)
      /\ \A k \in 1 .. Len(a) + Len(b) : c[k] = IF k <= Len(a) THEN a[k] ELSE b[k - Len(a)]
  BY ConcatProperties
<1>3. /\ Len(c) = m + n
      /\ \A k \in 1 .. m + n : c[k] = IF k <= m THEN a[k] ELSE b[k - m]
  BY <1>2
<1>4. DOMAIN c = 1 .. m + n
  BY <1>2, <1>3, LenProperties
<1>5. \A k \in 1 .. m : c[k] = a[k]
  BY <1>1, <1>3
<1>6. ASSUME NEW k \in 1 .. n PROVE c[m + k] = b[k]
  <2>1. m + k \in 1 .. m + n /\ ~(m + k <= m) /\ (m + k) - m = k
    BY <1>1
  <2> QED
    BY <1>3, <2>1
<1> QED
  BY <1>2, <1>3, <1>4, <1>5, <1>6

\* What two sequences around an element make.
LEMMA JoinedAround ==
    ASSUME NEW S, NEW a \in Seq(S), NEW x \in S, NEW b \in Seq(S),
           NEW m, m = Len(a), NEW n, n = Len(b), NEW c, c = a \o <<x>> \o b
    PROVE  /\ c \in Seq(S) /\ Len(c) = m + 1 + n /\ DOMAIN c = 1 .. m + 1 + n
           /\ \A k \in 1 .. m : c[k] = a[k]
           /\ c[m + 1] = x
           /\ \A k \in 1 .. n : c[m + 1 + k] = b[k]
<1>1. PICK u : u = <<x>>
  OBVIOUS
<1>2. u \in Seq(S) /\ Len(u) = 1 /\ u[1] = x
  <2>1. <<x>> \in Seq(S) /\ Len(<<x>>) = 1 /\ <<x>>[1] = x
    OBVIOUS
  <2> QED
    BY <1>1, <2>1
<1>3. PICK v : v = a \o u
  OBVIOUS
<1>4. m \in Nat /\ n \in Nat
  BY LenProperties
<1>5. /\ v \in Seq(S) /\ Len(v) = m + 1
      /\ \A k \in 1 .. m : v[k] = a[k]
      /\ \A k \in 1 .. 1 : v[m + k] = u[k]
  <2>1. PICK l : l = 1
    OBVIOUS
  <2>2. /\ v \in Seq(S) /\ Len(v) = m + l
        /\ \A k \in 1 .. m : v[k] = a[k]
        /\ \A k \in 1 .. l : v[m + k] = u[k]
    <3>1. a \in Seq(S) /\ u \in Seq(S) /\ m = Len(a) /\ l = Len(u) /\ v = a \o u
      BY <1>2, <1>3, <2>1
    <3> QED
      BY ONLY <3>1, Joined
  <2> QED
    BY <2>1, <2>2
<1>6. /\ c \in Seq(S) /\ Len(c) = (m + 1) + n /\ DOMAIN c = 1 .. (m + 1) + n
      /\ \A k \in 1 .. m + 1 : c[k] = v[k]
      /\ \A k \in 1 .. n : c[(m + 1) + k] = b[k]
  <2>1. c = v \o b
    BY <1>1, <1>3
  <2> QED
    BY <1>5, <2>1, Joined
<1>7. v[m + 1] = x /\ c[m + 1] = v[m + 1] /\ \A k \in 1 .. m : c[k] = v[k]
  BY <1>2, <1>4, <1>5, <1>6
<1> QED
  BY <1>5, <1>6, <1>7

\* What a part of a sequence is.
LEMMA PartOf ==
    ASSUME NEW S, NEW s \in Seq(S), NEW n, n = Len(s),
           NEW p \in 1 .. n + 1, NEW q \in 0 .. n, p <= q + 1, NEW t, t = SubSeq(s, p, q)
    PROVE  /\ t \in Seq(S) /\ Len(t) = q - p + 1 /\ DOMAIN t = 1 .. q - p + 1
           /\ \A k \in 1 .. q - p + 1 : t[k] = s[p + k - 1]
<1>1. n \in Nat /\ p \in Int /\ q \in Int
  BY LenProperties
<1>2. t \in Seq(S) /\ Len(t) = q - p + 1 /\ \A k \in 1 .. q - p + 1 : t[k] = s[p + k - 1]
  <2>1. CASE p <= q
    <3>1. p \in 1 .. Len(s) /\ q \in p - 1 .. Len(s)
      BY <1>1, <2>1
    <3>2. /\ t \in Seq(S)
          /\ Len(t) = IF p <= q THEN q - p + 1 ELSE 0
          /\ \A i \in 1 .. q - p + 1 : t[i] = s[p + i - 1]
      BY <3>1, SubSeqProperties
    <3> QED
      BY <2>1, <3>2
  <2>2. CASE p = q + 1
    <3>1. t = <<>> /\ q - p + 1 = 0
      BY <1>1, <2>2, SubSeqEmpty
    <3>2. t \in Seq(S) /\ Len(t) = 0
      BY <3>1, EmptySeq
    <3> QED
      BY <3>1, <3>2
  <2> QED
    BY <1>1, <2>1, <2>2
<1>3. DOMAIN t = 1 .. q - p + 1
  BY <1>2, LenProperties
<1> QED
  BY <1>2, <1>3

-----------------------------------------------------------------------------
(* Sequences laid out one after the other in one, and folds in order.      *)

\* f has what the first i parts make one after the other, for each i.
ConcatsUp(f, parts, n) == f[0] = <<>> /\ \A i \in 1 .. n : f[i] = f[i - 1] \o parts[i]

LEMMA ConcatsExist ==
    ASSUME NEW S, NEW n \in Nat, NEW parts \in [1 .. n -> Seq(S)]
    PROVE  \E f \in [0 .. n -> Seq(S)] : ConcatsUp(f, parts, n)
<1> DEFINE Traces(m) == {f \in [0 .. m -> Seq(S)] :
                            f[0] = <<>> /\ \A i \in 1 .. m : f[i] = f[i - 1] \o parts[i]}
           N == {m \in Nat : m <= n => Traces(m) # {}}
<1>1. 0 \in N
  <2>1. [i \in 0 .. 0 |-> <<>>] \in Traces(0)
    BY EmptySeq
  <2> QED
    BY <2>1
<1>2. ASSUME NEW m \in Nat, m \in N
      PROVE  m + 1 \in N
  <2> HIDE DEF Traces
  <2> SUFFICES ASSUME m + 1 <= n PROVE Traces(m + 1) # {}
    OBVIOUS
  <2>0. Traces(m) # {}
    BY <1>2
  <2>1. PICK f \in [0 .. m -> Seq(S)] : f[0] = <<>> /\ \A i \in 1 .. m : f[i] = f[i - 1] \o parts[i]
    BY <2>0 DEF Traces
  <2> DEFINE g == [i \in 0 .. m + 1 |-> IF i <= m THEN f[i] ELSE f[m] \o parts[m + 1]]
  <2>2. f[m] \in Seq(S) /\ parts[m + 1] \in Seq(S) /\ f[m] \o parts[m + 1] \in Seq(S)
    <3>1. f[m] \in Seq(S) /\ parts[m + 1] \in Seq(S)
      BY <2>1
    <3> QED
      BY <3>1, ConcatProperties
  <2>3. g \in [0 .. m + 1 -> Seq(S)]
    BY <2>1, <2>2
  <2>4. g[0] = <<>> /\ \A i \in 1 .. m + 1 : g[i] = g[i - 1] \o parts[i]
    <3>1. ASSUME NEW i \in 1 .. m + 1 PROVE g[i] = g[i - 1] \o parts[i]
      <4>1. CASE i = m + 1
        <5>1. g[i] = f[m] \o parts[i] /\ g[i - 1] = f[m]
          BY <4>1
        <5> QED
          BY <5>1
      <4>2. CASE i <= m
        <5>1. g[i] = f[i] /\ g[i - 1] = f[i - 1] /\ i \in 1 .. m
          BY <4>2
        <5> QED
          BY <2>1, <5>1
      <4>3. i = m + 1 \/ i <= m
        OBVIOUS
      <4> HIDE DEF g
      <4> QED
        BY <4>1, <4>2, <4>3
    <3>2. g[0] = <<>>
      BY <2>1
    <3> HIDE DEF g
    <3> QED
      BY <3>1, <3>2
  <2> HIDE DEF g
  <2>5. g \in Traces(m + 1)
    BY <2>3, <2>4 DEF Traces
  <2> QED
    BY <2>5
<1>3. n \in N
  <2> HIDE DEF N
  <2> QED
    BY <1>1, <1>2, NaturalsByInduction
<1>4. Traces(n) # {}
  <2> HIDE DEF Traces
  <2> QED
    BY <1>3
<1> QED
  BY <1>4 DEF ConcatsUp

\* FlattenSeq is the end of such a trace.
LEMMA FlattenIsConcat ==
    ASSUME NEW S, NEW n \in Nat, NEW parts \in [1 .. n -> Seq(S)], Len(parts) = n,
           NEW f \in [0 .. n -> Seq(S)], ConcatsUp(f, parts, n)
    PROVE  FlattenSeq(parts) = f[n]
<1>1. CASE n = 0
  <2>1. parts = <<>> /\ FlattenSeq(parts) = parts
    BY <1>1 DEF FlattenSeq
  <2> QED
    BY <1>1, <2>1 DEF ConcatsUp
<1>2. CASE n # 0
  <2> DEFINE Flat(w) == w = [i \in 1 .. n |-> IF i = 1 THEN parts[i] ELSE w[i - 1] \o parts[i]]
             g == CHOOSE v : Flat(v)
             h == [i \in 1 .. n |-> f[i]]
  <2>1. FlattenSeq(parts) = g[n]
    BY <1>2 DEF FlattenSeq
  <2>2. Flat(h)
    <3>1. \A i \in 1 .. n : h[i] = IF i = 1 THEN parts[i] ELSE h[i - 1] \o parts[i]
      <4> SUFFICES ASSUME NEW i \in 1 .. n PROVE h[i] = IF i = 1 THEN parts[i] ELSE h[i - 1] \o parts[i]
        OBVIOUS
      <4>1. h[i] = f[i - 1] \o parts[i]
        BY DEF ConcatsUp
      <4>2. CASE i = 1
        <5>1. f[i - 1] = <<>> /\ parts[i] \in Seq(S)
          BY <4>2 DEF ConcatsUp
        <5>2. <<>> \o parts[i] = parts[i]
          BY <5>1, ConcatEmptySeq
        <5> QED
          BY <4>1, <4>2, <5>1, <5>2
      <4>3. CASE i # 1
        <5>1. h[i - 1] = f[i - 1]
          BY <4>3
        <5> HIDE DEF h
        <5> QED
          BY <4>1, <4>3, <5>1
      <4> QED
        BY <4>2, <4>3
    <3> QED
      BY <3>1
  <2>3. Flat(g)
    <3> HIDE DEF Flat, h
    <3> QED
      BY <2>2
  <2>4. \A w : Flat(w) => \A i \in 1 .. n : w[i] = IF i = 1 THEN parts[i] ELSE w[i - 1] \o parts[i]
    OBVIOUS
  <2> DEFINE N == {k \in Nat : 1 <= k /\ k <= n => g[k] = f[k]}
  <2>5. 0 \in N
    OBVIOUS
  <2>6. ASSUME NEW k \in Nat, k \in N
        PROVE  k + 1 \in N
    <3> SUFFICES ASSUME k + 1 <= n PROVE g[k + 1] = f[k + 1]
      OBVIOUS
    <3>1. k + 1 \in 1 .. n
      OBVIOUS
    <3>2. g[k + 1] = IF k + 1 = 1 THEN parts[k + 1] ELSE g[k + 1 - 1] \o parts[k + 1]
      <4> HIDE DEF g, Flat
      <4> QED
        BY <2>3, <2>4, <3>1
    <3>3. h[k + 1] = IF k + 1 = 1 THEN parts[k + 1] ELSE h[k + 1 - 1] \o parts[k + 1]
      <4> HIDE DEF h, Flat
      <4> QED
        BY <2>2, <2>4, <3>1
    <3>4. h[k + 1] = f[k + 1] /\ (k # 0 => h[k + 1 - 1] = f[k])
      BY <3>1
    <3>5. k # 0 => g[k + 1 - 1] = f[k]
      BY <2>6
    <3> HIDE DEF g, h
    <3> QED
      BY <3>2, <3>3, <3>4, <3>5
  <2>7. n \in N
    <3> HIDE DEF N
    <3> QED
      BY <2>5, <2>6, NaturalsByInduction
  <2> QED
    BY <1>2, <2>1, <2>7
<1> QED
  BY <1>1, <1>2

\* A function on 1 .. n is a sequence of that length.
LEMMA FunctionsAreSequences ==
    ASSUME NEW S, NEW n \in Nat, NEW s \in [1 .. n -> S]
    PROVE  s \in Seq(S) /\ Len(s) = n
<1>1. s \in Seq(S)
  BY SeqDef
<1>2. PICK m \in Nat : m = Len(s) /\ 1 .. m = DOMAIN s
  BY <1>1, LenProperties
<1>3. 1 .. m = 1 .. n
  BY <1>2
<1>4. m = n
  BY <1>3
<1> QED
  BY <1>1, <1>2, <1>4

\* The sequence flat holds the parts one after the other; part i begins after
\* start[i - 1].
LaidOut(flat, parts, start, n) ==
    /\ start \in [0 .. n -> Nat] /\ start[0] = 0 /\ start[n] = Len(flat)
    /\ \A i \in 1 .. n : start[i] = start[i - 1] + Len(parts[i])
    /\ \A i \in 1 .. n : start[i] <= Len(flat)
    /\ \A i \in 1 .. n : \A k \in 1 .. Len(parts[i]) : flat[start[i - 1] + k] = parts[i][k]
    /\ \A j \in 1 .. Len(flat) : \E i \in 1 .. n : \E k \in 1 .. Len(parts[i]) : j = start[i - 1] + k

\* Only the parts count, not the sequence they come in.
LEMMA SameParts ==
    ASSUME NEW n, NEW parts, NEW same, \A i \in 1 .. n : same[i] = parts[i],
           NEW flat, NEW start, LaidOut(flat, parts, start, n)
    PROVE  LaidOut(flat, same, start, n)
<1>1. \A i \in 1 .. n : start[i] = start[i - 1] + Len(same[i])
  BY DEF LaidOut
<1>2. \A i \in 1 .. n : \A k \in 1 .. Len(same[i]) : flat[start[i - 1] + k] = same[i][k]
  BY DEF LaidOut
<1>3. ASSUME NEW j \in 1 .. Len(flat)
      PROVE  \E i \in 1 .. n : \E k \in 1 .. Len(same[i]) : j = start[i - 1] + k
  <2>1. PICK i \in 1 .. n : \E k \in 1 .. Len(parts[i]) : j = start[i - 1] + k
    BY DEF LaidOut
  <2> QED
    BY <2>1
<1> QED
  BY <1>1, <1>2, <1>3 DEF LaidOut

\* One more part at the end.
LEMMA OneMorePart ==
    ASSUME NEW S, NEW n \in Nat, NEW parts \in [1 .. n + 1 -> Seq(S)],
           NEW flat \in Seq(S), NEW start, NEW longer \in [0 .. n + 1 -> Nat],
           LaidOut(flat, parts, start, n), \A i \in 0 .. n : longer[i] = start[i],
           longer[n + 1] = Len(flat \o parts[n + 1])
    PROVE  LaidOut(flat \o parts[n + 1], parts, longer, n + 1)
<1>1. PICK m \in Nat : m = Len(flat) /\ start[n] = m
  BY LenProperties DEF LaidOut
<1>2. PICK p \in Seq(S) : p = parts[n + 1]
  OBVIOUS
<1>3. PICK l \in Nat : l = Len(p)
  BY LenProperties
<1>4. PICK c : c = flat \o p
  OBVIOUS
<1>5. /\ c \in Seq(S) /\ Len(c) = m + l
      /\ \A k \in 1 .. m : c[k] = flat[k]
      /\ \A k \in 1 .. l : c[m + k] = p[k]
  BY ONLY flat \in Seq(S), p \in Seq(S), <1>1, <1>3, <1>4, Joined
<1>6. longer[n + 1] = m + l /\ longer[n] = m /\ longer[0] = 0
  BY <1>1, <1>2, <1>4, <1>5 DEF LaidOut
<1>7. ASSUME NEW i \in 1 .. n + 1
      PROVE  longer[i] = longer[i - 1] + Len(parts[i]) /\ longer[i] <= m + l
  <2>1. CASE i = n + 1
    BY <1>2, <1>3, <1>6, <2>1
  <2>2. CASE i \in 1 .. n
    <3>1. i - 1 \in 0 .. n /\ i \in 0 .. n
      BY <2>2
    <3>2. longer[i] = start[i] /\ longer[i - 1] = start[i - 1]
      BY <3>1
    <3>3. start[i] = start[i - 1] + Len(parts[i]) /\ start[i] <= m /\ start[i] \in Nat
      BY <1>1, <2>2, <3>1 DEF LaidOut
    <3>4. start[i] <= m + l
      <4>1. PICK a \in Nat : a = start[i]
        BY <3>3
      <4>2. a <= m
        BY <3>3, <4>1
      <4>3. a <= m + l
        BY ONLY <4>2, a \in Nat, m \in Nat, l \in Nat
      <4> QED
        BY <4>1, <4>3
    <3> QED
      BY ONLY <3>2, <3>3, <3>4
  <2> QED
    BY <2>1, <2>2
<1>8. ASSUME NEW i \in 1 .. n + 1, NEW k \in 1 .. Len(parts[i])
      PROVE  c[longer[i - 1] + k] = parts[i][k]
  <2>1. CASE i = n + 1
    <3>1. i - 1 = n /\ parts[i] = p
      BY <1>2, <2>1
    <3>2. longer[i - 1] = m /\ k \in 1 .. l
      BY <1>3, <1>6, <3>1
    <3>3. c[m + k] = p[k]
      BY ONLY <1>5, <3>2
    <3> QED
      BY ONLY <3>1, <3>2, <3>3
  <2>2. CASE i \in 1 .. n
    <3>1. /\ longer[i - 1] = start[i - 1] /\ start[i - 1] \in Nat /\ Len(parts[i]) \in Nat
          /\ start[i - 1] + Len(parts[i]) <= m /\ flat[start[i - 1] + k] = parts[i][k]
      <4>1. i - 1 \in 0 .. n /\ i \in 1 .. n
        BY <2>2
      <4>2. start[i - 1] \in Nat /\ longer[i - 1] = start[i - 1]
        BY <4>1 DEF LaidOut
      <4>3. parts[i] \in Seq(S)
        OBVIOUS
      <4>4. Len(parts[i]) \in Nat
        BY <4>3, LenProperties
      <4>5. start[i] = start[i - 1] + Len(parts[i]) /\ start[i] <= Len(flat)
        BY <4>1 DEF LaidOut
      <4>6. flat[start[i - 1] + k] = parts[i][k]
        BY <4>1 DEF LaidOut
      <4> QED
        BY <1>1, <4>2, <4>4, <4>5, <4>6
    <3>2. start[i - 1] + k \in 1 .. m
      <4>1. PICK a \in Nat, d \in Nat : a = start[i - 1] /\ d = Len(parts[i])
        BY <3>1
      <4>2. a + d <= m /\ k \in 1 .. d
        BY <3>1, <4>1
      <4>3. a + k \in 1 .. m
        BY ONLY <4>2, a \in Nat, d \in Nat, m \in Nat
      <4> QED
        BY <4>1, <4>3
    <3>3. c[start[i - 1] + k] = flat[start[i - 1] + k]
      BY <1>5, <3>2
    <3> QED
      BY <3>1, <3>3
  <2>3. i = n + 1 \/ i \in 1 .. n
    OBVIOUS
  <2> QED
    BY <2>1, <2>2, <2>3
<1>9. ASSUME NEW j \in 1 .. m + l
      PROVE  \E i \in 1 .. n + 1 : \E k \in 1 .. Len(parts[i]) : j = longer[i - 1] + k
  <2>1. CASE j \in 1 .. m
    <3>1. PICK i \in 1 .. n : \E k \in 1 .. Len(parts[i]) : j = start[i - 1] + k
      BY <1>1, <2>1 DEF LaidOut
    <3>2. longer[i - 1] = start[i - 1] /\ i \in 1 .. n + 1
      OBVIOUS
    <3> QED
      BY <3>1, <3>2
  <2>2. CASE j \notin 1 .. m
    <3>1. j - m \in 1 .. l /\ j = m + (j - m)
      BY <2>2
    <3>2. n + 1 \in 1 .. n + 1 /\ n + 1 - 1 = n
      OBVIOUS
    <3>3. j - m \in 1 .. Len(parts[n + 1]) /\ j = longer[n + 1 - 1] + (j - m)
      BY <1>2, <1>3, <1>6, <3>1, <3>2
    <3> QED
      BY <3>2, <3>3
  <2> QED
    BY <2>1, <2>2
<1>10. LaidOut(c, parts, longer, n + 1)
  <2>1. /\ \A i \in 1 .. n + 1 : longer[i] = longer[i - 1] + Len(parts[i])
        /\ \A i \in 1 .. n + 1 : longer[i] <= Len(c)
    BY <1>5, <1>7
  <2>2. longer[0] = 0 /\ longer[n + 1] = Len(c)
    BY <1>5, <1>6
  <2>3. \A i \in 1 .. n + 1 : \A k \in 1 .. Len(parts[i]) : c[longer[i - 1] + k] = parts[i][k]
    BY <1>8
  <2>4. ASSUME NEW j \in 1 .. Len(c)
        PROVE  \E i \in 1 .. n + 1 : \E k \in 1 .. Len(parts[i]) : j = longer[i - 1] + k
    <3>1. j \in 1 .. m + l
      BY <1>5
    <3> QED
      BY ONLY <1>9, <3>1
  <2> QED
    BY ONLY longer \in [0 .. n + 1 -> Nat], <2>1, <2>2, <2>3, <2>4 DEF LaidOut
<1> QED
  BY <1>2, <1>4, <1>10

\* fold has what the steps to the elements of each set of numbers make of base,
\* in their order, as long as that is in V.
FoldsInOrder(fold, base, step, V, n) ==
    /\ fold[{}] = base
    /\ \A T \in SUBSET (1 .. n) : T # {} /\ fold[T \ {Max(T)}] \in V
         => fold[T] = step[Max(T)][fold[T \ {Max(T)}]]

\* After k steps of n the fold is in V, where step k leads from the one before.
StepByStep(fold, base, step, V, n) ==
    /\ fold[1 .. 0] = base
    /\ \A k \in 0 .. n : fold[1 .. k] \in V
    /\ \A k \in 1 .. n : fold[1 .. k] = step[k][fold[1 .. k - 1]]

\* Such a fold ends where the steps lead, one after the other.
LEMMA OrderedFolds ==
    ASSUME NEW n \in Nat, NEW V, NEW base \in V, NEW step,
           \A x \in 1 .. n : \A v \in V : step[x][v] \in V,
           NEW fold, FoldsInOrder(fold, base, step, V, n)
    PROVE  StepByStep(fold, base, step, V, n)
<1>0. 1 .. 0 = {}
  OBVIOUS
<1>1. ASSUME NEW k \in 1 .. n
      PROVE  1 .. k \in SUBSET (1 .. n) /\ 1 .. k # {} /\ Max(1 .. k) = k /\ (1 .. k) \ {k} = 1 .. k - 1
  <2>1. \A y \in 1 .. k : k >= y
    OBVIOUS
  <2>2. \A x \in 1 .. k : (\A y \in 1 .. k : x >= y) => x = k
    OBVIOUS
  <2>3. Max(1 .. k) = k
    BY <2>1, <2>2 DEF Max
  <2>4. 1 .. k \in SUBSET (1 .. n) /\ k \in 1 .. k
    OBVIOUS
  <2>5. (1 .. k) \ {k} = 1 .. k - 1
    OBVIOUS
  <2> QED
    BY <2>3, <2>4, <2>5
<1>2. ASSUME NEW k \in 1 .. n, fold[1 .. k - 1] \in V
      PROVE  fold[1 .. k] = step[k][fold[1 .. k - 1]] /\ fold[1 .. k] \in V
  <2>1. 1 .. k \in SUBSET (1 .. n) /\ 1 .. k # {} /\ Max(1 .. k) = k /\ (1 .. k) \ {k} = 1 .. k - 1
    BY <1>1
  <2>2. PICK T \in SUBSET (1 .. n) : T = 1 .. k
    BY <2>1
  <2>3. T # {} /\ Max(T) = k /\ T \ {Max(T)} = 1 .. k - 1
    BY <2>1, <2>2
  <2>4. fold[T] = step[Max(T)][fold[T \ {Max(T)}]]
    BY <1>2, <2>3 DEF FoldsInOrder
  <2> QED
    BY <1>2, <2>2, <2>3, <2>4
<1> DEFINE N == {k \in Nat : k <= n => fold[1 .. k] \in V}
<1>3. 0 \in N
  BY <1>0 DEF FoldsInOrder
<1>4. ASSUME NEW k \in Nat, k \in N
      PROVE  k + 1 \in N
  <2> SUFFICES ASSUME k + 1 <= n PROVE fold[1 .. k + 1] \in V
    OBVIOUS
  <2>1. PICK j \in 1 .. n : j = k + 1 /\ j - 1 = k
    OBVIOUS
  <2>2. fold[1 .. j - 1] \in V
    BY <1>4, <2>1
  <2> QED
    BY <1>2, <2>1, <2>2
<1>5. Nat \subseteq N
  <2> HIDE DEF N
  <2> QED
    BY <1>3, <1>4, NaturalsByInduction
<1>6. \A k \in 0 .. n : fold[1 .. k] \in V
  BY <1>5
<1>7. ASSUME NEW k \in 1 .. n PROVE fold[1 .. k] = step[k][fold[1 .. k - 1]]
  <2>1. k - 1 \in 0 .. n
    OBVIOUS
  <2> QED
    BY <1>2, <1>6, <2>1
<1> QED
  BY <1>0, <1>6, <1>7 DEF FoldsInOrder, StepByStep

\* The fold over the sets of numbers up to n, largest number last.
OrderedFold(iter, base, step, n) ==
    iter = [T \in SUBSET (1 .. n) |-> IF T = {} THEN base ELSE step[Max(T)][iter[T \ {Max(T)}]]]

\* There are such folds, for total steps.
LEMMA OrderedFoldsExist ==
    ASSUME NEW n \in Nat, NEW V, NEW base \in V, NEW step,
           \A x \in 1 .. n : \A v \in V : step[x][v] \in V
    PROVE  \E iter \in [SUBSET (1 .. n) -> V] :
             /\ \A T \in SUBSET (1 .. n) : T # {} => Max(T) \in T
             /\ OrderedFold(iter, base, step, n)
<1> DEFINE pick == [T \in SUBSET (1 .. n) |-> Max(T)]
<1>1. IsFiniteSet(1 .. n)
  BY FS_Interval
<1>2. \A T \in SUBSET (1 .. n) : T # {} => Max(T) \in T
  BY MaxAmong
<1>3. Picks(pick, 1 .. n) /\ Steps(step, 1 .. n, V)
  BY <1>2 DEF Picks, Steps
<1> HIDE DEF pick
<1>4. PICK iter \in [SUBSET (1 .. n) -> V] : FoldsUp(iter, base, step, pick, 1 .. n)
  BY <1>1, <1>3, FoldsExist
<1>5. \A T \in SUBSET (1 .. n) : pick[T] = Max(T)
  BY DEF pick
<1>6. iter = [T \in SUBSET (1 .. n) |->
                IF T = {} THEN base ELSE step[Max(T)][iter[T \ {Max(T)}]]]
  BY <1>4, <1>5 DEF FoldsUp
<1> QED
  BY <1>2, <1>6 DEF OrderedFold

\* The last element of a sequence.
LEMMA LastOfSeq ==
    ASSUME NEW S, NEW s \in Seq(S), s # <<>>
    PROVE  Len(s) \in DOMAIN s /\ s[Len(s)] \in S
<1>1. DOMAIN s = 1 .. Len(s) /\ Len(s) \in Nat
  BY LenProperties
<1>2. Len(s) # 0
  BY EmptySeq
<1> QED
  BY <1>1, <1>2, ElementOfSeq

\* A sequence stays one when one of its elements is replaced.
LEMMA ReplacedInSeq ==
    ASSUME NEW S, NEW s \in Seq(S), NEW i, NEW x \in S
    PROVE  [s EXCEPT ![i] = x] \in Seq(S)
<1>1. PICK n \in Nat : n = Len(s) /\ DOMAIN s = 1 .. n
  BY LenProperties
<1>2. \A k \in 1 .. n : s[k] \in S
  BY <1>1, ElementOfSeq
<1>3. [s EXCEPT ![i] = x] \in [1 .. n -> S]
  BY <1>1, <1>2
<1> QED
  BY <1>3, FunctionsAreSequences

\* Where part i lies.
Stretch(parts, start, i) == start[i - 1] + 1 .. start[i - 1] + Len(parts[i])

\* The parts lie one after the other, apart from each other, and fill 1 .. m.
SideBySide(parts, start, n, m) ==
    /\ \A a, b \in 0 .. n : a <= b => start[a] <= start[b]
    /\ \A i \in 1 .. n : Stretch(parts, start, i) \subseteq 1 .. m
    /\ \A j \in 1 .. m : \E i \in 1 .. n : j \in Stretch(parts, start, i)
    /\ \A i, h \in 1 .. n : \A j :
         j \in Stretch(parts, start, i) /\ j \in Stretch(parts, start, h) => i = h

\* Parts begin where those before them have ended, so they do not overlap.
LEMMA PartsInOrder ==
    ASSUME NEW S, NEW n \in Nat, NEW parts \in [1 .. n -> Seq(S)], NEW flat, Len(flat) \in Nat,
           NEW start, LaidOut(flat, parts, start, n)
    PROVE  SideBySide(parts, start, n, Len(flat))
<1>0. \A i \in 1 .. n : Len(parts[i]) \in Nat
  BY LenProperties
<1>1. /\ \A a \in 0 .. n : start[a] \in Nat
      /\ \A i \in 1 .. n : start[i] = start[i - 1] + Len(parts[i]) /\ start[i] <= Len(flat)
  BY DEF LaidOut
<1> DEFINE N == {b \in Nat : b <= n => \A a \in 0 .. b : start[a] <= start[b]}
<1>2. 0 \in N
  BY <1>1
<1>3. ASSUME NEW b \in Nat, b \in N
      PROVE  b + 1 \in N
  <2> SUFFICES ASSUME b + 1 <= n, NEW a \in 0 .. b + 1 PROVE start[a] <= start[b + 1]
    OBVIOUS
  <2>1. PICK c \in 1 .. n : c = b + 1 /\ c - 1 = b
    OBVIOUS
  <2>2. start[c] = start[b] + Len(parts[c]) /\ Len(parts[c]) \in Nat /\ start[b] \in Nat
    <3>1. b \in 0 .. n /\ start[c] = start[c - 1] + Len(parts[c])
      BY <1>1, <2>1
    <3> QED
      BY <1>0, <1>1, <2>1, <3>1
  <2>3. a \in 0 .. b \/ a = c
    BY <2>1
  <2>4. a \in 0 .. b => start[a] <= start[b] /\ start[a] \in Nat
    BY <1>1, <1>3, <2>1
  <2> QED
    BY <2>1, <2>2, <2>3, <2>4
<1>4. Nat \subseteq N
  <2> HIDE DEF N
  <2> QED
    BY <1>2, <1>3, NaturalsByInduction
<1>5. \A a, b \in 0 .. n : a <= b => start[a] <= start[b]
  BY <1>4
<1>6. ASSUME NEW i \in 1 .. n PROVE Stretch(parts, start, i) \subseteq 1 .. Len(flat)
  <2>1. i - 1 \in 0 .. n
    OBVIOUS
  <2>2. /\ start[i - 1] \in Nat /\ Len(parts[i]) \in Nat
        /\ start[i - 1] + Len(parts[i]) <= Len(flat)
    BY <1>0, <1>1, <2>1
  <2> QED
    BY <2>2 DEF Stretch
<1>7. ASSUME NEW j \in 1 .. Len(flat) PROVE \E i \in 1 .. n : j \in Stretch(parts, start, i)
  <2>1. PICK i \in 1 .. n : \E k \in 1 .. Len(parts[i]) : j = start[i - 1] + k
    BY DEF LaidOut
  <2>2. PICK k \in 1 .. Len(parts[i]) : j = start[i - 1] + k
    BY <2>1
  <2>3. start[i - 1] \in Nat /\ Len(parts[i]) \in Nat
    <3>1. i - 1 \in 0 .. n
      OBVIOUS
    <3> QED
      BY <1>0, <1>1, <3>1
  <2>4. j \in Stretch(parts, start, i)
    BY <2>2, <2>3 DEF Stretch
  <2> QED
    BY <2>4
<1>8. ASSUME NEW i \in 1 .. n, NEW h \in 1 .. n, NEW j,
             j \in Stretch(parts, start, i), j \in Stretch(parts, start, h)
      PROVE  ~(i < h)
  <2> SUFFICES ASSUME i < h PROVE FALSE
    OBVIOUS
  <2>1. i - 1 \in 0 .. n /\ h - 1 \in 0 .. n /\ i \in 0 .. n /\ i <= h - 1
    OBVIOUS
  <2>2. start[i] <= start[h - 1]
    BY <1>5, <2>1
  <2>3. start[i] = start[i - 1] + Len(parts[i]) /\ start[h - 1] \in Nat /\ start[i - 1] \in Nat
    BY <1>1, <2>1
  <2>4. Len(parts[i]) \in Nat /\ Len(parts[h]) \in Nat
    BY <1>0
  <2>5. j \in start[i - 1] + 1 .. start[i - 1] + Len(parts[i])
    BY <1>8 DEF Stretch
  <2>6. j \in start[h - 1] + 1 .. start[h - 1] + Len(parts[h])
    BY <1>8 DEF Stretch
  <2>7. PICK a \in Nat, b \in Nat, l \in Nat :
          a = start[i - 1] /\ b = start[h - 1] /\ l = Len(parts[i])
    BY <2>3, <2>4
  <2>8. a + l <= b /\ j \in a + 1 .. a + l /\ j \in b + 1 .. b + Len(parts[h])
    BY <2>2, <2>3, <2>5, <2>6, <2>7
  <2> QED
    BY ONLY <2>4, <2>8, a \in Nat, b \in Nat, l \in Nat
<1>9. ASSUME NEW i \in 1 .. n, NEW h \in 1 .. n, NEW j,
             j \in Stretch(parts, start, i), j \in Stretch(parts, start, h)
      PROVE  i = h
  <2>1. ~(i < h) /\ ~(h < i)
    BY <1>8, <1>9
  <2> QED
    BY <2>1
<1> QED
  BY <1>5, <1>6, <1>7, <1>9 DEF SideBySide

\* The part of c elements lies in flat after place a.
LiesAt(flat, part, a, c) ==
    /\ a \in Nat /\ c \in Nat /\ DOMAIN part = 1 .. c
    /\ \A k \in 1 .. c : a + k \in DOMAIN flat /\ flat[a + k] = part[k]

\* A part in the flat sequence.
LEMMA PartAt ==
    ASSUME NEW S, NEW n \in Nat, NEW parts \in [1 .. n -> Seq(S)], NEW flat \in Seq(S),
           NEW start, LaidOut(flat, parts, start, n), NEW i \in 1 .. n,
           NEW a, a = start[i - 1], NEW c, c = Len(parts[i])
    PROVE  LiesAt(flat, parts[i], a, c)
<1>1. c \in Nat /\ DOMAIN parts[i] = 1 .. c
  BY LenProperties
<1>2. DOMAIN flat = 1 .. Len(flat) /\ Len(flat) \in Nat
  BY LenProperties
<1>3. a \in Nat /\ a + c <= Len(flat)
  <2>1. i - 1 \in 0 .. n
    OBVIOUS
  <2> QED
    BY <2>1 DEF LaidOut
<1>4. \A k \in 1 .. c : flat[a + k] = parts[i][k]
  BY DEF LaidOut
<1>5. ASSUME NEW k \in 1 .. c
      PROVE  a + k \in DOMAIN flat
  <2>1. PICK m \in Nat : m = Len(flat) /\ DOMAIN flat = 1 .. m
    BY <1>2
  <2>2. a + k \in 1 .. m
    BY ONLY <1>1, <1>3, <2>1, k \in 1 .. c
  <2> QED
    BY <2>1, <2>2
<1> QED
  BY <1>1, <1>3, <1>4, <1>5 DEF LiesAt

\* The ends of a set of places.
LEMMA Extremes ==
    ASSUME NEW n \in Nat, NEW T \in SUBSET (1 .. n), T # {}
    PROVE  /\ Min(T) \in T /\ Max(T) \in T
           /\ \A x \in T : Min(T) <= x /\ x <= Max(T)
<1>1. PICK m \in T : \A y \in T : m <= y
  <2>1. T \subseteq Nat
    OBVIOUS
  <2> QED
    BY <2>1, LeastNatural
<1>2. Min(T) \in T /\ \A y \in T : Min(T) <= y
  BY <1>1 DEF Min
<1>3. PICK p \in Nat : p = Max(T) /\ p \in T
  <2>1. Max(T) \in T
    BY MaxAmong
  <2>2. T \subseteq Nat
    OBVIOUS
  <2> HIDE DEF Max
  <2> QED
    BY ONLY <2>1, <2>2
<1>4. \E x \in T : \A y \in T : x >= y
  <2> DEFINE Below == {n - t : t \in T}
  <2>1. Below \subseteq Nat /\ Below # {}
    <3>1. \A t \in T : n - t \in Nat
      OBVIOUS
    <3>2. n - p \in Below
      BY <1>3
    <3> QED
      BY <3>1, <3>2
  <2>2. \E k \in Below : \A l \in Below : k <= l
    <3> HIDE DEF Below
    <3> QED
      BY <2>1, LeastNatural
  <2>3. PICK x \in T : \A y \in T : n - x <= n - y
    BY <2>2
  <2> QED
    BY <2>3
<1>5. \A y \in T : Max(T) >= y
  BY <1>4 DEF Max
<1> QED
  BY <1>2, <1>3, <1>5

\* Sequences of the same elements are the same.
LEMMA SameElements ==
    ASSUME NEW S, NEW s \in Seq(S), NEW t \in Seq(S), NEW n, Len(s) = n, Len(t) = n,
           \A k \in 1 .. n : s[k] = t[k]
    PROVE  s = t
<1>1. DOMAIN s = 1 .. n /\ DOMAIN t = 1 .. n
  BY LenProperties
<1> QED
  BY <1>1, SeqEqual

\* t is the part of s from p to q.
IsPart(t, S, s, p, q) ==
    /\ t \in Seq(S) /\ Len(t) = q - p + 1
    /\ \A k \in 1 .. q - p + 1 : t[k] = s[p + k - 1]

\* SubSeq is that part.
LEMMA PartIsPart ==
    ASSUME NEW S, NEW s \in Seq(S), NEW n, n = Len(s),
           NEW p \in 1 .. n + 1, NEW q \in 0 .. n, p <= q + 1, NEW t, t = SubSeq(s, p, q)
    PROVE  IsPart(t, S, s, p, q)
BY PartOf DEF IsPart

\* Its length.
LEMMA PartHasLength ==
    ASSUME NEW S, NEW s \in Seq(S), NEW n, n = Len(s),
           NEW p \in 1 .. n + 1, NEW q \in 0 .. n, p <= q + 1, NEW t, t = SubSeq(s, p, q)
    PROVE  t \in Seq(S) /\ Len(t) = q - p + 1
<1>1. IsPart(t, S, s, p, q)
  BY PartIsPart
<1> QED
  BY ONLY <1>1 DEF IsPart

\* A part of a part is a part.
LEMMA PartOfPart ==
    ASSUME NEW S, NEW s \in Seq(S), NEW n, n = Len(s), NEW a \in 1 .. n + 1, NEW b \in 0 .. n,
           a <= b + 1, NEW i \in 1 .. b - a + 1, NEW j \in 1 .. b - a + 1, i <= j
    PROVE  SubSeq(SubSeq(s, a, b), i, j) = SubSeq(s, a + i - 1, a + j - 1)
<1>1. n \in Nat
  BY LenProperties
<1>2. PICK u : u = SubSeq(s, a, b)
  OBVIOUS
<1>3. PICK l \in Nat : l = b - a + 1
  BY <1>1
<1>4. u \in Seq(S) /\ Len(u) = l /\ \A k \in 1 .. l : u[k] = s[a + k - 1]
  <2>1. u \in Seq(S) /\ Len(u) = b - a + 1 /\ \A k \in 1 .. b - a + 1 : u[k] = s[a + k - 1]
    <3>1. IsPart(u, S, s, a, b)
      BY ONLY s \in Seq(S), n = Len(s), a \in 1 .. n + 1, b \in 0 .. n, a <= b + 1, <1>2,
         PartIsPart
    <3> QED
      BY ONLY <3>1 DEF IsPart
  <2> QED
    BY ONLY <1>3, <2>1
<1>5. PICK v : v = SubSeq(u, i, j)
  OBVIOUS
<1>6. i \in 1 .. l + 1 /\ j \in 0 .. l /\ i <= j + 1
  BY <1>3
<1>7. v \in Seq(S) /\ Len(v) = j - i + 1 /\ \A k \in 1 .. j - i + 1 : v[k] = u[i + k - 1]
  <2>1. IsPart(v, S, u, i, j)
    BY ONLY <1>4, <1>5, <1>6, PartIsPart
  <2> QED
    BY ONLY <2>1 DEF IsPart
<1>8. PICK p \in Nat, q \in Nat : p = a + i - 1 /\ q = a + j - 1
  BY <1>1
<1>9. p \in 1 .. n + 1 /\ q \in 0 .. n /\ p <= q + 1 /\ q - p + 1 = j - i + 1
  BY <1>1, <1>8
<1>10. PICK w : w = SubSeq(s, p, q)
  OBVIOUS
<1>11. w \in Seq(S) /\ Len(w) = q - p + 1 /\ \A k \in 1 .. q - p + 1 : w[k] = s[p + k - 1]
  <2>1. IsPart(w, S, s, p, q)
    BY ONLY s \in Seq(S), n = Len(s), <1>9, <1>10, PartIsPart
  <2> QED
    BY ONLY <2>1 DEF IsPart
<1>12. ASSUME NEW k \in 1 .. j - i + 1 PROVE v[k] = w[k]
  <2>1. i + k - 1 \in 1 .. l
    BY <1>3
  <2>2. u[i + k - 1] = s[a + (i + k - 1) - 1]
    BY <1>4, <2>1
  <2>3. a + (i + k - 1) - 1 = p + k - 1
    BY <1>1, <1>8
  <2> QED
    BY <1>7, <1>9, <1>11, <2>2, <2>3
<1>13. v = w
  <2>1. PICK m : m = j - i + 1
    OBVIOUS
  <2>2. v \in Seq(S) /\ Len(v) = m
    BY ONLY <1>7, <2>1
  <2>3. w \in Seq(S) /\ Len(w) = m
    BY ONLY <1>9, <1>11, <2>1
  <2>4. \A k \in 1 .. m : v[k] = w[k]
    BY ONLY <1>12, <2>1
  <2> QED
    BY ONLY <2>2, <2>3, <2>4, SameElements
<1> QED
  BY <1>2, <1>5, <1>8, <1>10, <1>13

=============================================================================
