------------------------------ MODULE SeqLemmas ------------------------------
(***************************************************************************)
(* What removing one element from a Python deque or list does to it, for   *)
(* the proofs about queues, induction over the numbers, and what can be     *)
(* said of the community modules' sums over finite sets.                   *)
(***************************************************************************)
EXTENDS Integers, Sequences, SequencesExt, SequenceTheorems,
        FiniteSetTheorems, WellFoundedInduction, TLAPS

\* A sequence without its i-th element, as a function.
WithoutIndex(s, i) == [j \in 1 .. Len(s) - 1 |-> IF j < i THEN s[j] ELSE s[j + 1]]

\* RemoveAt keeps the order of the other elements and closes the gap.
LEMMA RemoveAtEffect ==
    ASSUME NEW S, NEW s \in Seq(S), NEW i \in 1 .. Len(s)
    PROVE  RemoveAt(s, i) = WithoutIndex(s, i) /\ RemoveAt(s, i) \in Seq(S)
<1> DEFINE a == SubSeq(s, 1, i - 1)
           b == SubSeq(s, i + 1, Len(s))
<1>0. Len(s) \in Nat /\ \A j \in 1 .. Len(s) : s[j] \in S
  BY LenProperties, ElementOfSeq
<1>1. /\ a \in Seq(S) /\ Len(a) = i - 1
      /\ \A j \in 1 .. i - 1 : a[j] = s[j]
  <2>1. \A j \in 1 .. i - 1 : s[j] \in S
    BY <1>0
  <2>2. /\ SubSeq(s, 1, i - 1) \in Seq(S)
        /\ Len(SubSeq(s, 1, i - 1)) = IF 1 <= i - 1 THEN (i - 1) - 1 + 1 ELSE 0
        /\ \A j \in 1 .. (i - 1) - 1 + 1 : SubSeq(s, 1, i - 1)[j] = s[1 + j - 1]
    BY <1>0, <2>1, SubSeqProperties
  <2> QED BY <2>2, <1>0
<1>2. /\ b \in Seq(S) /\ Len(b) = Len(s) - i
      /\ \A j \in 1 .. Len(s) - i : b[j] = s[i + j]
  <2>1. \A j \in i + 1 .. Len(s) : s[j] \in S
    BY <1>0
  <2>2. /\ SubSeq(s, i + 1, Len(s)) \in Seq(S)
        /\ Len(SubSeq(s, i + 1, Len(s))) = IF i + 1 <= Len(s) THEN Len(s) - (i + 1) + 1 ELSE 0
        /\ \A j \in 1 .. Len(s) - (i + 1) + 1 : SubSeq(s, i + 1, Len(s))[j] = s[(i + 1) + j - 1]
    BY <1>0, <2>1, SubSeqProperties
  <2> QED BY <2>2, <1>0
<1> HIDE DEF a, b
<1>3. /\ a \o b \in Seq(S)
      /\ Len(a \o b) = Len(s) - 1
      /\ \A j \in 1 .. Len(s) - 1 : (a \o b)[j] = IF j < i THEN s[j] ELSE s[j + 1]
  <2>1. /\ a \o b \in Seq(S)
        /\ Len(a \o b) = Len(a) + Len(b)
        /\ \A j \in 1 .. Len(a) + Len(b) :
              (a \o b)[j] = IF j <= Len(a) THEN a[j] ELSE b[j - Len(a)]
    BY <1>1, <1>2, ConcatProperties
  <2>2. Len(a \o b) = Len(s) - 1
    BY <2>1, <1>0, <1>1, <1>2
  <2>3. ASSUME NEW j \in 1 .. Len(s) - 1
        PROVE  (a \o b)[j] = IF j < i THEN s[j] ELSE s[j + 1]
    <3>1. (a \o b)[j] = IF j <= Len(a) THEN a[j] ELSE b[j - Len(a)]
      BY <2>1, <1>0, <1>1, <1>2
    <3>2. CASE j < i
      BY <3>1, <3>2, <1>0, <1>1
    <3>3. CASE ~(j < i)
      <4>1. j - (i - 1) \in 1 .. Len(s) - i /\ i + (j - (i - 1)) = j + 1
        BY <3>3, <1>0
      <4>2. b[j - (i - 1)] = s[i + (j - (i - 1))]
        BY <4>1, <1>2
      <4> QED BY <3>1, <3>3, <4>1, <4>2, <1>0, <1>1
    <3> QED BY <3>2, <3>3
  <2> QED BY <2>1, <2>2, <2>3
<1>4. a \o b = WithoutIndex(s, i)
  BY <1>0, <1>3, LenProperties DEF WithoutIndex
<1>5. RemoveAt(s, i) = a \o b
  BY DEF RemoveAt, a, b
<1> QED BY <1>3, <1>4, <1>5

\* RemoveFirst removes one occurrence of an element that is there.
LEMMA RemoveFirstEffect ==
    ASSUME NEW S, NEW s \in Seq(S), NEW e, \E i \in 1 .. Len(s) : s[i] = e
    PROVE  \E i \in 1 .. Len(s) :
              /\ s[i] = e
              /\ RemoveFirst(s, e) = WithoutIndex(s, i)
              /\ RemoveFirst(s, e) \in Seq(S)
<1> DEFINE I == {i \in 1 .. Len(s) : s[i] = e}
<1>1. Len(s) \in Nat /\ I \subseteq Nat /\ I # {}
  BY LenProperties
<1>2. PICK m \in I : \A j \in I : ~(<<j, m>> \in OpToRel(<, Nat))
  BY <1>1, WFMin, NatLessThanWellFounded
<1>3. \A j \in I : m <= j
  <2> SUFFICES ASSUME NEW j \in I, ~(m <= j) PROVE FALSE
    OBVIOUS
  <2>1. j \in Nat /\ m \in Nat /\ j < m
    BY <1>1
  <2>2. <<j, m>> \in OpToRel(<, Nat)
    BY <2>1 DEF OpToRel
  <2> QED BY <2>2, <1>2
<1>4. SelectInSeq(s, LAMBDA v : v = e) = Min(I)
  BY <1>1 DEF SelectInSeq
<1>5. Min(I) \in I
  BY <1>2, <1>3 DEF Min
<1>6. RemoveFirst(s, e) = RemoveAt(s, Min(I))
  BY <1>4, <1>5 DEF RemoveFirst
<1> QED BY <1>5, <1>6, RemoveAtEffect

\* Contains says what `in` says of a deque.
LEMMA ContainsIsOccurs ==
    ASSUME NEW S, NEW s \in Seq(S), NEW e
    PROVE  Contains(s, e) <=> \E i \in DOMAIN s : s[i] = e
<1> QED BY LenProperties DEF Contains

\* popleft() shifts every element one place to the front.
LEMMA TailEffect ==
    ASSUME NEW S, NEW s \in Seq(S), s # <<>>
    PROVE  /\ Tail(s) \in Seq(S)
           /\ DOMAIN Tail(s) = 1 .. Len(s) - 1
           /\ \A i \in 1 .. Len(s) - 1 : Tail(s)[i] = s[i + 1]
           /\ Head(s) = s[1] /\ Head(s) \in S
           /\ Len(s) \in Nat /\ 1 <= Len(s) /\ DOMAIN s = 1 .. Len(s)
           /\ Tail(s) = WithoutIndex(s, 1)
<1>1. Len(s) \in Nat /\ Len(s) # 0 /\ DOMAIN s = 1 .. Len(s)
  BY LenProperties, EmptySeq
<1>2. /\ Head(s) \in S /\ Tail(s) \in Seq(S) /\ Len(Tail(s)) = Len(s) - 1
      /\ \A i \in 1 .. Len(Tail(s)) : Tail(s)[i] = s[i + 1]
  BY HeadTailProperties
<1>3. DOMAIN Tail(s) = 1 .. Len(Tail(s))
  BY <1>2, LenProperties
<1>4. Tail(s) = [i \in 1 .. Len(s) - 1 |-> s[i + 1]]
  <2>1. Tail(s) \in [1 .. Len(s) - 1 -> S]
    BY <1>2, LenProperties
  <2> QED BY <2>1, <1>2
<1>5. WithoutIndex(s, 1) = [i \in 1 .. Len(s) - 1 |-> s[i + 1]]
  BY <1>1 DEF WithoutIndex
<1> QED BY <1>1, <1>2, <1>3, <1>4, <1>5

-----------------------------------------------------------------------------
\* A set of numbers that is not empty has a least one.
LEMMA LeastExists ==
    ASSUME NEW T, T \subseteq Nat, T # {}
    PROVE  \E n \in T : \A m \in T : n <= m
<1> DEFINE R == {ss \in Nat \X Nat : ss[1] < ss[2]}
<1>1. IsWellFoundedOn(R, Nat)
  BY NatLessThanWellFounded DEF OpToRel
<1>2. PICK n \in T : \A m \in T : ~ (<<m, n>> \in R)
  <2> HIDE DEF R
  <2> QED BY <1>1, WFMin
<1>3. ASSUME NEW m \in T PROVE n <= m
  <2>1. ~ (<<m, n>> \in R) /\ m \in Nat /\ n \in Nat
    BY <1>2
  <2>2. m < n => <<m, n>> \in R
    BY <2>1
  <2> HIDE DEF R
  <2> QED BY <2>1, <2>2
<1> QED BY <1>3

\* Induction over the numbers for a set of them: the least one outside it would have a predecessor
\* inside.
LEMMA NatSetInduction ==
    ASSUME NEW S, 0 \in S, \A n \in Nat : n \in S => n + 1 \in S
    PROVE  Nat \subseteq S
<1> DEFINE T == Nat \ S
<1> SUFFICES ASSUME T # {} PROVE FALSE
  OBVIOUS
<1>1. PICK n \in T : \A m \in T : n <= m
  BY LeastExists
<1>2. n # 0 /\ n - 1 \in Nat /\ n - 1 \in S
  BY <1>1
<1> QED BY <1>1, <1>2

-----------------------------------------------------------------------------
(* Sums over a finite set, as Folds defines them: whichever element is taken *)
(* first, the sum is the same.                                             *)

\* The partial sums of f over some subsets of S, taken element by element as Folds takes them.
Choice(s) == CHOOSE x \in s : TRUE
SumsOver(f, subsets, g) ==
    g = [s \in subsets |-> IF s = {} THEN 0 ELSE f[Choice(s)] + g[s \ {Choice(s)}]]

PartialSums(f, S, g) == SumsOver(f, SUBSET S, g)
SameAt(g, k, S) == g[S] = k[S]
\* The subsets of at most n elements, over which the induction goes.
Small(S, n) == {s \in SUBSET S : Cardinality(s) <= n}

\* One element less.
LEMMA WithoutOne ==
    ASSUME NEW s, IsFiniteSet(s), NEW x \in s
    PROVE  /\ IsFiniteSet(s \ {x}) /\ Cardinality(s \ {x}) = Cardinality(s) - 1
           /\ Cardinality(s) \in Nat \ {0} /\ Cardinality(s \ {x}) \in Nat
<1>1. IsFiniteSet(s \ {x}) /\ Cardinality(s \ {x}) = Cardinality(s) - 1
  BY FS_RemoveElement
<1>2. Cardinality(s) \in Nat /\ Cardinality(s \ {x}) \in Nat
  BY <1>1, FS_CardinalityType
<1> QED BY <1>1, <1>2

\* There are such sums: the recursive function that Folds chooses exists.
LEMMA SumsExist ==
    ASSUME NEW f, NEW S, IsFiniteSet(S)
    PROVE  \E g : SumsOver(f, SUBSET S, g)
<1>0. \A s \in SUBSET S : IsFiniteSet(s) /\ Cardinality(s) \in Nat /\ Cardinality(s) <= Cardinality(S)
  BY FS_Subset, FS_CardinalityType
<1> DEFINE N == {n \in Nat : \E g : SumsOver(f, Small(S, n), g)}
<1>1. 0 \in N
  <2>1. \A s \in Small(S, 0) : s = {}
    BY <1>0, FS_EmptySet DEF Small
  <2> DEFINE g == [s \in Small(S, 0) |-> 0]
  <2>2. SumsOver(f, Small(S, 0), g)
    BY <2>1 DEF SumsOver
  <2> QED BY <2>2
<1>2. ASSUME NEW n \in Nat, n \in N PROVE n + 1 \in N
  <2>1. PICK g : SumsOver(f, Small(S, n), g)
    BY <1>2
  <2> DEFINE h == [s \in Small(S, n + 1) |-> IF s = {} THEN 0 ELSE f[Choice(s)] + g[s \ {Choice(s)}]]
  <2>2. ASSUME NEW s \in Small(S, n) PROVE s \in Small(S, n + 1) /\ h[s] = g[s]
    <3>1. s \in Small(S, n + 1)
      BY <1>0 DEF Small
    <3>2. g[s] = IF s = {} THEN 0 ELSE f[Choice(s)] + g[s \ {Choice(s)}]
      BY <2>1 DEF SumsOver
    <3> QED BY <3>1, <3>2
  <2>3. ASSUME NEW s \in Small(S, n + 1), s # {} PROVE s \ {Choice(s)} \in Small(S, n)
    <3>1. Choice(s) \in s
      BY <2>3 DEF Choice
    <3>2. s \in SUBSET S /\ IsFiniteSet(s) /\ Cardinality(s) <= n + 1
      BY <1>0 DEF Small
    <3>3. Cardinality(s \ {Choice(s)}) = Cardinality(s) - 1 /\ Cardinality(s) \in Nat
      BY <3>1, <3>2, WithoutOne
    <3> QED BY <3>2, <3>3 DEF Small
  <2>4. SumsOver(f, Small(S, n + 1), h)
    <3>1. \A s \in Small(S, n + 1) : h[s] = IF s = {} THEN 0 ELSE f[Choice(s)] + h[s \ {Choice(s)}]
      <4> HIDE DEF h
      <4>1. \A s \in Small(S, n + 1) : h[s] = IF s = {} THEN 0 ELSE f[Choice(s)] + g[s \ {Choice(s)}]
        BY DEF h
      <4> QED BY <4>1, <2>2, <2>3
    <3>2. h = [s \in Small(S, n + 1) |-> h[s]]
      OBVIOUS
    <3> HIDE DEF h
    <3> QED BY <3>1, <3>2 DEF SumsOver
  <2> HIDE DEF h
  <2> QED BY <2>4
<1> HIDE DEF N
<1>3. Cardinality(S) \in N
  BY <1>0, <1>1, <1>2, NatSetInduction
<1>4. Small(S, Cardinality(S)) = SUBSET S
  BY <1>0 DEF Small
<1> QED BY <1>3, <1>4 DEF N

\* The community modules' sum is the last of them.
LEMMA SumIsLast ==
    ASSUME NEW f, NEW S, IsFiniteSet(S)
    PROVE  \E g : PartialSums(f, S, g) /\ SumFunctionOnSet(f, S) = g[S]
<1> DEFINE g == CHOOSE g : PartialSums(f, S, g)
<1>1. PartialSums(f, S, g)
  BY SumsExist DEF PartialSums
<1>2. SumFunctionOnSet(f, S) = g[S]
  BY DEF SumFunctionOnSet, FoldFunctionOnSet, MapThenFoldSet, PartialSums, SumsOver, Choice
<1> QED BY <1>1, <1>2


\* Hypotheses and conclusions that the lemmas below hand to each other by name.
Summable(f, S) == IsFiniteSet(S) /\ \A x \in S : f[x] \in Int
Agree(f, h, S) == IsFiniteSet(S) /\ \A x \in S : f[x] = h[x]
Splits(f, S, x) ==
    /\ Summable(f, S \ {x}) /\ SumFunctionOnSet(f, S \ {x}) \in Int /\ f[x] \in Int
    /\ SumFunctionOnSet(f, S) = f[x] + SumFunctionOnSet(f, S \ {x})
Adds(f, g, s) == g[s] \in Int /\ \A x \in s : g[s] = f[x] + g[s \ {x}]

\* The partial sums are integers, and the order of the elements does not matter.
LEMMA AnyOrder ==
    ASSUME NEW f, NEW S, Summable(f, S), NEW g, PartialSums(f, S, g)
    PROVE  g[{}] = 0 /\ \A s \in SUBSET S : Adds(f, g, s)
<1> USE DEF Summable, Adds
<1>0. \A s \in SUBSET S : IsFiniteSet(s) /\ Cardinality(s) \in Nat /\ Cardinality(s) <= Cardinality(S)
  BY FS_Subset, FS_CardinalityType
<1>a. \A s \in SUBSET S : g[s] = IF s = {} THEN 0 ELSE f[Choice(s)] + g[s \ {Choice(s)}]
  BY DEF PartialSums, SumsOver
<1>b. g[{}] = 0
  BY <1>a
<1> DEFINE Fine(s) == g[s] \in Int /\ \A x \in s : g[s] = f[x] + g[s \ {x}]
           N == {n \in Nat : \A s \in Small(S, n) : Fine(s)}
<1>1. 0 \in N
  <2>1. \A s \in Small(S, 0) : s = {}
    BY <1>0, FS_EmptySet DEF Small
  <2>2. ASSUME NEW s \in Small(S, 0) PROVE Fine(s)
    <3>1. s = {} /\ g[s] = 0
      BY <2>1, <1>b
    <3> QED BY <3>1
  <2> QED BY <2>2
<1>2. ASSUME NEW n \in Nat, n \in N PROVE n + 1 \in N
  <2> SUFFICES ASSUME NEW s \in Small(S, n + 1) PROVE Fine(s)
    OBVIOUS
  <2>1. CASE s = {}
    BY <2>1, <1>b
  <2>2. CASE s # {}
    <3> DEFINE c == Choice(s)
    <3>1. c \in s /\ s \in SUBSET S /\ Cardinality(s) <= n + 1 /\ g[s] = f[c] + g[s \ {c}]
      BY <2>2, <1>a DEF Choice, Small
    <3> HIDE DEF c
    <3>2. ASSUME NEW x \in s
          PROVE s \ {x} \in Small(S, n)
      <4>1. Cardinality(s \ {x}) = Cardinality(s) - 1 /\ Cardinality(s) \in Nat
        BY <3>1, <1>0, WithoutOne
      <4> QED BY <3>1, <4>1 DEF Small
    <3>3. \A x \in s : Fine(s \ {x})
      BY <3>2, <1>2
    <3>4. g[s] \in Int
      <4>1. g[s \ {c}] \in Int
        BY <3>1, <3>3
      <4>2. f[c] \in Int
        BY <3>1
      <4>3. g[s] = f[c] + g[s \ {c}]
        BY <3>1
      <4> QED BY <4>1, <4>2, <4>3
    <3>5. ASSUME NEW x \in s PROVE g[s] = f[x] + g[s \ {x}]
      <4>1. CASE x = c
        BY <4>1, <3>1
      <4>2. CASE x # c
        <5>1. g[s \ {c}] = f[x] + g[(s \ {c}) \ {x}]
          BY <4>2, <3>1, <3>3
        <5>2. g[s \ {x}] = f[c] + g[(s \ {x}) \ {c}]
          BY <4>2, <3>1, <3>3
        <5>3. (s \ {c}) \ {x} = (s \ {x}) \ {c}
          OBVIOUS
        <5>4. f[x] \in Int /\ f[c] \in Int
          BY <3>1
        <5>5. g[(s \ {x}) \ {c}] \in Int
          <6>1. (s \ {x}) \ {c} \in Small(S, n)
            <7>1. s \ {x} \in Small(S, n) /\ IsFiniteSet(s \ {x}) /\ c \in s \ {x}
              BY <3>1, <3>2, <4>2, <1>0 DEF Small
            <7>2. Cardinality((s \ {x}) \ {c}) = Cardinality(s \ {x}) - 1 /\ Cardinality(s \ {x}) \in Nat
              BY <7>1, WithoutOne
            <7> QED BY <7>1, <7>2 DEF Small
          <6> QED BY <6>1, <1>2
        <5>6. f[c] + (f[x] + g[(s \ {x}) \ {c}]) = f[x] + (f[c] + g[(s \ {x}) \ {c}])
          <6>1. \A a, b, r \in Int : a + (b + r) = b + (a + r)
            OBVIOUS
          <6> QED BY <5>4, <5>5, <6>1
        <5>7. g[s] = f[c] + g[s \ {c}]
          BY <3>1
        <5> QED BY <5>1, <5>2, <5>3, <5>6, <5>7, Zenon
      <4> QED BY <4>1, <4>2
    <3> QED BY <3>4, <3>5
  <2> QED BY <2>1, <2>2
<1>3. Cardinality(S) \in N
  <2> HIDE DEF N
  <2> QED BY <1>0, <1>1, <1>2, NatSetInduction
<1>4. Small(S, Cardinality(S)) = SUBSET S
  BY <1>0 DEF Small
<1>5. \A s \in SUBSET S : Fine(s)
  <2> HIDE DEF Fine
  <2> QED BY <1>3, <1>4
<1> QED BY <1>5, <1>b

\* Partial sums over two sets agree where their functions do.
LEMMA SumsAgree ==
    ASSUME NEW f, NEW S, NEW g, PartialSums(f, S, g),
           NEW h, NEW U, NEW k, PartialSums(h, U, k),
           U \subseteq S, Agree(f, h, U)
    PROVE  SameAt(g, k, U)
<1> USE DEF Agree, SameAt
<1>0. \A s \in SUBSET U : IsFiniteSet(s) /\ Cardinality(s) \in Nat /\ Cardinality(s) <= Cardinality(U)
  BY FS_Subset, FS_CardinalityType
<1>a. g[{}] = 0 /\ k[{}] = 0
  BY DEF PartialSums, SumsOver
<1>b. \A s \in SUBSET U : s # {} => /\ g[s] = f[Choice(s)] + g[s \ {Choice(s)}]
                                    /\ k[s] = h[Choice(s)] + k[s \ {Choice(s)}]
  BY DEF PartialSums, SumsOver
<1> DEFINE N == {n \in Nat : \A s \in Small(U, n) : g[s] = k[s]}
<1>1. 0 \in N
  <2>1. \A s \in Small(U, 0) : s = {} /\ s \in SUBSET U
    BY <1>0, FS_EmptySet DEF Small
  <2>2. \A s \in Small(U, 0) : g[s] = k[s]
    BY <2>1, <1>a, Zenon
  <2> QED BY <2>2
<1>2. ASSUME NEW n \in Nat, n \in N PROVE n + 1 \in N
  <2> SUFFICES ASSUME NEW s \in Small(U, n + 1) PROVE g[s] = k[s]
    OBVIOUS
  <2>1. CASE s = {}
    BY <2>1, <1>a, Zenon
  <2>2. CASE s # {}
    <3>1. Choice(s) \in s /\ s \in SUBSET U /\ Cardinality(s) <= n + 1 /\ IsFiniteSet(s)
      BY <2>2, <1>0 DEF Choice, Small
    <3>2. s \ {Choice(s)} \in Small(U, n)
      <4>1. Cardinality(s \ {Choice(s)}) = Cardinality(s) - 1 /\ Cardinality(s) \in Nat
        BY <3>1, WithoutOne
      <4> QED BY <3>1, <4>1 DEF Small
    <3>3. g[s \ {Choice(s)}] = k[s \ {Choice(s)}] /\ f[Choice(s)] = h[Choice(s)]
      BY <3>1, <3>2, <1>2, Zenon
    <3> QED BY <3>1, <3>3, <2>2, <1>b, Zenon
  <2> QED BY <2>1, <2>2
<1>3. Cardinality(U) \in N
  <2> HIDE DEF N
  <2> QED BY <1>0, <1>1, <1>2, NatSetInduction
<1>4. U \in Small(U, Cardinality(U))
  BY <1>0 DEF Small
<1> QED BY <1>3, <1>4

-----------------------------------------------------------------------------
\* The sum of f over a finite set, one element apart; over no element it is zero.
LEMMA SumWithout ==
    ASSUME NEW f, NEW S, Summable(f, S)
    PROVE  /\ SumFunctionOnSet(f, S) \in Int
           /\ S = {} => SumFunctionOnSet(f, S) = 0
           /\ \A x \in S : SumFunctionOnSet(f, S) = f[x] + SumFunctionOnSet(f, S \ {x})
<1>0. IsFiniteSet(S)
  BY DEF Summable
<1>1. PICK g : PartialSums(f, S, g) /\ SumFunctionOnSet(f, S) = g[S]
  BY <1>0, SumIsLast
<1>a. g[{}] = 0 /\ Adds(f, g, S)
  <2>1. S \in SUBSET S
    OBVIOUS
  <2> QED BY <1>1, <2>1, AnyOrder
<1>2. g[{}] = 0 /\ g[S] \in Int /\ \A x \in S : g[S] = f[x] + g[S \ {x}]
  BY <1>a DEF Adds
<1>3. ASSUME NEW x \in S PROVE SumFunctionOnSet(f, S \ {x}) = g[S \ {x}]
  <2>0. IsFiniteSet(S \ {x})
    BY <1>0, FS_Subset
  <2>1. PICK k : PartialSums(f, S \ {x}, k) /\ SumFunctionOnSet(f, S \ {x}) = k[S \ {x}]
    BY <2>0, SumIsLast
  <2>2. g[S \ {x}] = k[S \ {x}]
    <3> DEFINE T == S \ {x}
    <3>1. T \subseteq S /\ PartialSums(f, T, k) /\ Agree(f, f, T)
      BY <2>0, <2>1 DEF Agree
    <3> HIDE DEF T
    <3>2. SameAt(g, k, T)
      BY <3>1, <1>1, SumsAgree
    <3> QED BY <3>2 DEF T, SameAt
  <2> QED BY <2>1, <2>2
<1> QED BY <1>1, <1>2, <1>3

\* The same for one element, and for what is left.
LEMMA SumSplits ==
    ASSUME NEW f, NEW S, Summable(f, S), NEW x \in S
    PROVE  Splits(f, S, x)
<1>1. Summable(f, S \ {x})
  BY FS_Subset DEF Summable
<1>2. SumFunctionOnSet(f, S \ {x}) \in Int
  BY <1>1, SumWithout
<1>3. f[x] \in Int
  BY DEF Summable
<1>4. SumFunctionOnSet(f, S) = f[x] + SumFunctionOnSet(f, S \ {x})
  BY SumWithout
<1> QED BY <1>1, <1>2, <1>3, <1>4 DEF Splits

\* Functions that agree on a set have one sum over it.
LEMMA SumsAreEqual ==
    ASSUME NEW f, NEW h, NEW S, Agree(f, h, S)
    PROVE  SumFunctionOnSet(f, S) = SumFunctionOnSet(h, S)
<1>0. IsFiniteSet(S)
  BY DEF Agree
<1>1. PICK g : PartialSums(f, S, g) /\ SumFunctionOnSet(f, S) = g[S]
  BY <1>0, SumIsLast
<1>2. PICK k : PartialSums(h, S, k) /\ SumFunctionOnSet(h, S) = k[S]
  BY <1>0, SumIsLast
<1>3. S \subseteq S
  OBVIOUS
<1>4. SameAt(g, k, S)
  BY <1>1, <1>2, <1>3, SumsAgree
<1> QED BY <1>1, <1>2, <1>4 DEF SameAt

\* A change at one place changes the sum by as much.
LEMMA SumAfterChange ==
    ASSUME NEW f, NEW h, NEW S, Summable(f, S), Summable(h, S), NEW x \in S,
           \A y \in S \ {x} : f[y] = h[y]
    PROVE  SumFunctionOnSet(h, S) = SumFunctionOnSet(f, S) - f[x] + h[x]
<1>1. /\ SumFunctionOnSet(f, S) = f[x] + SumFunctionOnSet(f, S \ {x})
      /\ f[x] \in Int /\ SumFunctionOnSet(f, S \ {x}) \in Int
  <2>1. Splits(f, S, x)
    BY SumSplits
  <2> QED BY <2>1 DEF Splits
<1>2. /\ SumFunctionOnSet(h, S) = h[x] + SumFunctionOnSet(h, S \ {x})
      /\ h[x] \in Int
  <2>1. Splits(h, S, x)
    BY SumSplits
  <2> QED BY <2>1 DEF Splits
<1>3. SumFunctionOnSet(f, S \ {x}) = SumFunctionOnSet(h, S \ {x})
  <2>1. Agree(f, h, S \ {x})
    BY FS_Subset DEF Summable, Agree
  <2> QED BY <2>1, SumsAreEqual
<1> QED BY <1>1, <1>2, <1>3

\* A sum of naturals is one, and no less than a term of it.
LEMMA SumOfNaturals ==
    ASSUME NEW f, NEW S, IsFiniteSet(S), \A x \in S : f[x] \in Nat
    PROVE  SumFunctionOnSet(f, S) \in Nat /\ \A x \in S : f[x] <= SumFunctionOnSet(f, S)
<1>0. \A s \in SUBSET S : Summable(f, s) /\ IsFiniteSet(s) /\ Cardinality(s) \in Nat /\ Cardinality(s) <= Cardinality(S)
  BY FS_Subset, FS_CardinalityType DEF Summable
<1> DEFINE N == {n \in Nat : \A s \in Small(S, n) : SumFunctionOnSet(f, s) \in Nat}
<1>1. 0 \in N
  <2>1. ASSUME NEW s \in Small(S, 0) PROVE SumFunctionOnSet(f, s) \in Nat
    <3>1. s \in SUBSET S /\ s = {}
      BY <1>0, FS_EmptySet DEF Small
    <3>2. Summable(f, s)
      BY <1>0, <3>1
    <3>3. SumFunctionOnSet(f, s) = 0
      BY <3>1, <3>2, SumWithout
    <3> QED BY <3>3
  <2> QED BY <2>1
<1>2. ASSUME NEW n \in Nat, n \in N PROVE n + 1 \in N
  <2> SUFFICES ASSUME NEW s \in Small(S, n + 1) PROVE SumFunctionOnSet(f, s) \in Nat
    OBVIOUS
  <2>0. s \in SUBSET S /\ Cardinality(s) <= n + 1 /\ IsFiniteSet(s) /\ Summable(f, s)
    BY <1>0 DEF Small
  <2>1. CASE s = {}
    <3>1. SumFunctionOnSet(f, s) = 0
      BY <2>0, <2>1, SumWithout
    <3> QED BY <3>1
  <2>2. CASE s # {}
    <3>1. PICK x : x \in s
      BY <2>2
    <3>2. s \ {x} \in Small(S, n)
      <4>1. Cardinality(s \ {x}) = Cardinality(s) - 1 /\ Cardinality(s) \in Nat
        BY <3>1, <2>0, WithoutOne
      <4> QED BY <2>0, <4>1 DEF Small
    <3>3. SumFunctionOnSet(f, s \ {x}) \in Nat /\ f[x] \in Nat
      BY <3>1, <2>0, <3>2, <1>2
    <3>4. SumFunctionOnSet(f, s) = f[x] + SumFunctionOnSet(f, s \ {x})
      <4>1. Splits(f, s, x)
        BY <3>1, <2>0, SumSplits
      <4> QED BY <4>1 DEF Splits
    <3> QED BY <3>3, <3>4
  <2> QED BY <2>1, <2>2
<1>3. Cardinality(S) \in N
  <2> HIDE DEF N
  <2> QED BY <1>0, <1>1, <1>2, NatSetInduction
<1>4. Small(S, Cardinality(S)) = SUBSET S
  BY <1>0 DEF Small
<1>5. \A s \in SUBSET S : SumFunctionOnSet(f, s) \in Nat
  BY <1>3, <1>4
<1>6. ASSUME NEW x \in S PROVE f[x] <= SumFunctionOnSet(f, S)
  <2>1. SumFunctionOnSet(f, S) = f[x] + SumFunctionOnSet(f, S \ {x})
    <3>1. Splits(f, S, x)
      BY <1>0, SumSplits
    <3> QED BY <3>1 DEF Splits
  <2>2. SumFunctionOnSet(f, S \ {x}) \in Nat
    BY <1>5
  <2> QED BY <2>1, <2>2
<1>7. S \in SUBSET S
  OBVIOUS
<1> QED BY <1>5, <1>6, <1>7

\* Nothing adds up to nothing.
LEMMA SumOfZeros ==
    ASSUME NEW f, NEW S, IsFiniteSet(S), \A x \in S : f[x] = 0
    PROVE  SumFunctionOnSet(f, S) = 0
<1>0. \A s \in SUBSET S : Summable(f, s) /\ IsFiniteSet(s) /\ Cardinality(s) \in Nat /\ Cardinality(s) <= Cardinality(S)
  BY FS_Subset, FS_CardinalityType DEF Summable
<1> DEFINE N == {n \in Nat : \A s \in Small(S, n) : SumFunctionOnSet(f, s) = 0}
<1>1. 0 \in N
  <2>1. ASSUME NEW s \in Small(S, 0) PROVE SumFunctionOnSet(f, s) = 0
    <3>1. s \in SUBSET S /\ s = {}
      BY <1>0, FS_EmptySet DEF Small
    <3>2. Summable(f, s)
      BY <1>0, <3>1
    <3> QED BY <3>1, <3>2, SumWithout
  <2> QED BY <2>1
<1>2. ASSUME NEW n \in Nat, n \in N PROVE n + 1 \in N
  <2> SUFFICES ASSUME NEW s \in Small(S, n + 1) PROVE SumFunctionOnSet(f, s) = 0
    OBVIOUS
  <2>0. s \in SUBSET S /\ Cardinality(s) <= n + 1 /\ IsFiniteSet(s) /\ Summable(f, s)
    BY <1>0 DEF Small
  <2>1. CASE s = {}
    BY <2>0, <2>1, SumWithout
  <2>2. CASE s # {}
    <3>1. PICK x : x \in s
      BY <2>2
    <3>2. s \ {x} \in Small(S, n)
      <4>1. Cardinality(s \ {x}) = Cardinality(s) - 1 /\ Cardinality(s) \in Nat
        BY <3>1, <2>0, WithoutOne
      <4> QED BY <2>0, <4>1 DEF Small
    <3>3. SumFunctionOnSet(f, s \ {x}) = 0 /\ f[x] = 0
      BY <3>1, <2>0, <3>2, <1>2
    <3>4. SumFunctionOnSet(f, s) = f[x] + SumFunctionOnSet(f, s \ {x})
      <4>1. Splits(f, s, x)
        BY <3>1, <2>0, SumSplits
      <4> QED BY <4>1 DEF Splits
    <3> QED BY <3>3, <3>4
  <2> QED BY <2>1, <2>2
<1>3. Cardinality(S) \in N
  <2> HIDE DEF N
  <2> QED BY <1>0, <1>1, <1>2, NatSetInduction
<1>4. Small(S, Cardinality(S)) = SUBSET S
  BY <1>0 DEF Small
<1>5. S \in Small(S, Cardinality(S))
  BY <1>4
<1> QED BY <1>3, <1>5

\* Counts by age, one tick later: the ages up to k hold what those up to k - 1 held.
IsOlder(h, f, n) == \A a \in 0 .. n : f[a] \in Int /\ h[a] = IF a = 0 THEN 0 ELSE f[a - 1]

\* So their sums agree.
LEMMA SumOlder ==
    ASSUME NEW n \in Nat, NEW f, NEW h, IsOlder(h, f, n), NEW m \in 0 .. n
    PROVE  SumFunctionOnSet(h, 0 .. m) = SumFunctionOnSet(f, 0 .. m - 1)
<1> USE DEF IsOlder
<1>0. \A k \in Int : IsFiniteSet(0 .. k)
  <2>1. ASSUME NEW k \in Int PROVE IsFiniteSet(0 .. k)
    <3>1. 0 \in Int
      OBVIOUS
    <3> QED BY <3>1, FS_Interval
  <2> QED BY <2>1
<1>a. \A k \in 0 .. n : Summable(h, 0 .. k) /\ Summable(f, 0 .. k)
  <2> SUFFICES ASSUME NEW k \in 0 .. n PROVE Summable(h, 0 .. k) /\ Summable(f, 0 .. k)
    OBVIOUS
  <2>1. ASSUME NEW a \in 0 .. k PROVE h[a] \in Int /\ f[a] \in Int
    <3>1. a \in 0 .. n /\ (a # 0 => a - 1 \in 0 .. n)
      OBVIOUS
    <3> QED BY <3>1
  <2>2. IsFiniteSet(0 .. k)
    BY <1>0
  <2> QED BY <2>1, <2>2 DEF Summable
<1>b. SumFunctionOnSet(h, {}) = 0 /\ SumFunctionOnSet(f, {}) = 0
  <2>1. Summable(h, {}) /\ Summable(f, {})
    BY FS_EmptySet DEF Summable
  <2> QED BY <2>1, SumWithout
<1> DEFINE N == {k \in Nat : k <= n => SumFunctionOnSet(h, 0 .. k) = SumFunctionOnSet(f, 0 .. k - 1)}
<1>1. 0 \in N
  <2>1. (0 .. 0) \ {0} = {} /\ 0 .. 0 - 1 = {} /\ 0 \in 0 .. 0 /\ h[0] = 0
    OBVIOUS
  <2>2. SumFunctionOnSet(h, 0 .. 0) = h[0] + SumFunctionOnSet(h, (0 .. 0) \ {0})
    <3>1. 0 \in 0 .. n
      OBVIOUS
    <3>2. Summable(h, 0 .. 0)
      BY <3>1, <1>a
    <3>3. Splits(h, 0 .. 0, 0)
      BY <3>2, <2>1, SumSplits
    <3> QED BY <3>3 DEF Splits
  <2> QED BY <2>1, <2>2, <1>b
<1>2. ASSUME NEW k \in Nat, k \in N PROVE k + 1 \in N
  <2> SUFFICES ASSUME k + 1 <= n
               PROVE  SumFunctionOnSet(h, 0 .. k + 1) = SumFunctionOnSet(f, 0 .. k + 1 - 1)
    OBVIOUS
  <2>1. /\ (0 .. k + 1) \ {k + 1} = 0 .. k /\ (0 .. k) \ {k} = 0 .. k - 1
        /\ k + 1 \in 0 .. k + 1 /\ k \in 0 .. k /\ 0 .. k + 1 - 1 = 0 .. k
        /\ h[k + 1] = f[k]
    OBVIOUS
  <2>2. SumFunctionOnSet(h, 0 .. k + 1) = h[k + 1] + SumFunctionOnSet(h, (0 .. k + 1) \ {k + 1})
    <3>1. Summable(h, 0 .. k + 1)
      BY <1>a
    <3>2. Splits(h, 0 .. k + 1, k + 1)
      BY <3>1, <2>1, SumSplits
    <3> QED BY <3>2 DEF Splits
  <2>3. SumFunctionOnSet(f, 0 .. k) = f[k] + SumFunctionOnSet(f, (0 .. k) \ {k})
    <3>1. Summable(f, 0 .. k)
      BY <1>a
    <3>2. Splits(f, 0 .. k, k)
      BY <3>1, <2>1, SumSplits
    <3> QED BY <3>2 DEF Splits
  <2>4. SumFunctionOnSet(h, 0 .. k) = SumFunctionOnSet(f, 0 .. k - 1)
    BY <1>2
  <2> QED BY <2>1, <2>2, <2>3, <2>4
<1>3. \A k \in Nat : k \in N
  <2> HIDE DEF N
  <2> QED BY <1>1, <1>2, NatSetInduction
<1> QED BY <1>3
=============================================================================
