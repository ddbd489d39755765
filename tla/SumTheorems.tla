---------------------------- MODULE SumTheorems ----------------------------
(***************************************************************************)
(* What the proofs need to know of SumFunctionOnSet, the sum of a function *)
(* over a finite set: the order of its terms does not matter, a term that  *)
(* changes changes it by as much, and no term of a sum of naturals exceeds *)
(* it.                                                                     *)
(***************************************************************************)
EXTENDS Functions, FiniteSetTheorems, TLAPS

-----------------------------------------------------------------------------
(* Induction over naturals and over finite sets, stated of a set and not   *)
(* of a formula, so that it can be cited.                                  *)

LEMMA Least ==
  ASSUME NEW T \in SUBSET Nat, T # {}
  PROVE  \E x \in T : \A y \in T : x <= y
<1> DEFINE R == {ss \in Nat \X Nat : ss[1] < ss[2]}
<1>1. OpToRel(<, Nat) = R
  BY Zenon DEF OpToRel
<1>2. IsWellFoundedOn(R, Nat)
  BY <1>1, NatLessThanWellFounded, Zenon
<1>3. PICK x \in T : \A y \in T : ~(<<y, x>> \in R)
  <2> HIDE DEF R
  <2> QED
    BY <1>2, WFMin, Zenon
<1>4. ASSUME NEW y \in T
      PROVE  x <= y
  <2>1. ~(<<y, x>> \in R)
    BY <1>3
  <2>2. y \in Nat /\ x \in Nat
    OBVIOUS
  <2>3. ~(y < x)
    BY <2>1, <2>2
  <2> QED
    BY <2>2, <2>3
<1> QED
  BY <1>4

\* A set that holds a subset of D as soon as it holds it with any one element
\* removed holds every subset of D.
LEMMA SubsetInduction ==
  ASSUME NEW D, IsFiniteSet(D), NEW G,
         \A S \in SUBSET D : (\A x \in S : S \ {x} \in G) => S \in G
  PROVE  SUBSET D \subseteq G
<1> DEFINE T == {Cardinality(S) : S \in (SUBSET D) \ G}
<1> SUFFICES ASSUME (SUBSET D) \ G # {}
             PROVE  FALSE
  OBVIOUS
<1>1. T \in SUBSET Nat /\ T # {}
  BY FS_Subset, FS_CardinalityType
<1>2. PICK n \in T : \A m \in T : n <= m
  <2> HIDE DEF T
  <2> QED
    BY <1>1, Least
<1>3. PICK S \in (SUBSET D) \ G : Cardinality(S) = n
  OBVIOUS
<1>4. ASSUME NEW x \in S
      PROVE  S \ {x} \in G
  <2>1. IsFiniteSet(S) /\ Cardinality(S) \in Nat /\ n \in Nat
    BY <1>1, FS_Subset, FS_CardinalityType
  <2>2. Cardinality(S \ {x}) = n - 1
    BY <1>3, <2>1, FS_RemoveElement
  <2>3. S \ {x} \notin G => Cardinality(S \ {x}) \in T
    OBVIOUS
  <2> QED
    BY <1>2, <2>1, <2>2, <2>3
<1> QED
  BY <1>4

-----------------------------------------------------------------------------
\* h gives the sum of f over each part of D, in whatever order it is taken.
Summing(h, f, D) ==
  /\ h \in [SUBSET D -> Int]
  /\ h[{}] = 0
  /\ \A S \in SUBSET D : \A x \in S : h[S] = f[x] + h[S \ {x}]

LEMMA SummingExists ==
  ASSUME NEW D, IsFiniteSet(D), NEW f \in [D -> Int]
  PROVE  \E h : Summing(h, f, D)
<1> DEFINE G == {S \in SUBSET D : \E h : Summing(h, f, S)}
<1>1. ASSUME NEW S \in SUBSET D, \A x \in S : S \ {x} \in G
      PROVE  S \in G
  <2>1. CASE S = {}
    <3>1. Summing([T \in SUBSET {} |-> 0], f, {})
      BY DEF Summing
    <3> QED
      BY <2>1, <3>1
  <2>2. CASE S # {}
    <3>1. PICK x \in S : TRUE
      BY <2>2
    <3>2. PICK h : Summing(h, f, S \ {x})
      BY <1>1
    <3> DEFINE g == [T \in SUBSET S |-> IF x \in T THEN f[x] + h[T \ {x}] ELSE h[T]]
    <3>3. \A T \in SUBSET S : T \ {x} \in SUBSET (S \ {x})
      OBVIOUS
    <3>4. f[x] \in Int
      OBVIOUS
    <3>5. g \in [SUBSET S -> Int] /\ g[{}] = 0
      BY <3>2, <3>3, <3>4 DEF Summing
    <3>6. ASSUME NEW T \in SUBSET S, NEW y \in T
          PROVE  g[T] = f[y] + g[T \ {y}]
      <4>1. CASE y = x
        BY <4>1
      <4>2. CASE y # x /\ x \notin T
        <5>1. T \in SUBSET (S \ {x}) /\ T \ {y} \in SUBSET S
          BY <4>2
        <5> QED
          BY <3>2, <4>2, <5>1 DEF Summing
      <4>3. CASE y # x /\ x \in T
        <5>1. T \ {x} \in SUBSET (S \ {x}) /\ y \in T \ {x} /\ T \ {y} \in SUBSET S
              /\ x \in T \ {y} /\ f[y] \in Int
          BY <4>3
        <5>2. h[T \ {x}] = f[y] + h[(T \ {x}) \ {y}]
          BY <3>2, <5>1 DEF Summing
        <5>3. (T \ {x}) \ {y} = (T \ {y}) \ {x} /\ (T \ {y}) \ {x} \in SUBSET (S \ {x})
          OBVIOUS
        <5>4. h[(T \ {y}) \ {x}] \in Int
          BY <3>2, <5>3 DEF Summing
        <5>5. g[T] = f[x] + h[T \ {x}] /\ g[T \ {y}] = f[x] + h[(T \ {y}) \ {x}]
          BY <4>3, <5>1
        <5> HIDE DEF g, G
        <5>6. g[T] = f[x] + (f[y] + h[(T \ {y}) \ {x}])
          BY <5>2, <5>3, <5>5, Zenon
        <5>7. ASSUME NEW i \in Int, NEW j \in Int, NEW n \in Int
              PROVE  i + (j + n) = j + (i + n)
          OBVIOUS
        <5>8. f[x] + (f[y] + h[(T \ {y}) \ {x}]) = f[y] + (f[x] + h[(T \ {y}) \ {x}])
          BY <3>4, <5>1, <5>4, <5>7, Zenon
        <5> QED
          BY <5>5, <5>6, <5>8, Zenon
      <4> QED
        BY <4>1, <4>2, <4>3
    <3>7. Summing(g, f, S)
      BY <3>5, <3>6 DEF Summing
    <3> QED
      BY <3>7
  <2> QED
    BY <2>1, <2>2
<1>2. SUBSET D \subseteq G
  <2> HIDE DEF G
  <2> QED
    BY <1>1, SubsetInduction
<1> QED
  BY <1>2

\* The fold adds up what such a function does.
LEMMA SumIsSumming ==
  ASSUME NEW D, IsFiniteSet(D), NEW f \in [D -> Int], NEW h, Summing(h, f, D)
  PROVE  SumFunctionOnSet(f, D) = h[D]
<1> DEFINE choose(S) == CHOOSE x \in S : TRUE
           Step(g) == [S \in SUBSET D |-> IF S = {} THEN 0
                                          ELSE f[choose(S)] + g[S \ {choose(S)}]]
           iter == CHOOSE g : g = Step(g)
<1>1. h = Step(h)
  <2>1. \A S \in SUBSET D : S # {} => choose(S) \in S
    OBVIOUS
  <2> HIDE DEF choose
  <2> QED
    BY <2>1 DEF Summing
<1>2. iter = Step(iter)
  <2> HIDE DEF Step
  <2> QED
    BY <1>1
<1> DEFINE G == {S \in SUBSET D : iter[S] = h[S]}
<1>3. ASSUME NEW S \in SUBSET D, \A x \in S : S \ {x} \in G
      PROVE  S \in G
  <2>1. S # {} => choose(S) \in S
    OBVIOUS
  <2>2. iter[S] = Step(iter)[S] /\ h[S] = Step(h)[S]
    BY <1>1, <1>2
  <2> HIDE DEF iter, choose
  <2> QED
    BY <1>3, <2>1, <2>2
<1>4. SUBSET D \subseteq G
  <2> HIDE DEF G
  <2> QED
    BY <1>3, SubsetInduction
<1>5. SumFunctionOnSet(f, D) = iter[D]
  BY DEF SumFunctionOnSet, FoldFunctionOnSet, MapThenFoldSet
<1> QED
  BY <1>4, <1>5

\* The sum of a function, with what the facts below rest on.
LEMMA SumOfParts ==
  ASSUME NEW D, IsFiniteSet(D), NEW f \in [D -> Int]
  PROVE  \E h : Summing(h, f, D) /\ SumFunction(f) = h[D]
<1>1. DOMAIN f = D
  OBVIOUS
<1> QED
  BY <1>1, SummingExists, SumIsSumming DEF SumFunction

-----------------------------------------------------------------------------
(* Facts about sums.                                                       *)

LEMMA SumType ==
  ASSUME NEW D, IsFiniteSet(D), NEW f \in [D -> Int]
  PROVE  SumFunction(f) \in Int
<1>1. PICK h : Summing(h, f, D) /\ SumFunction(f) = h[D]
  BY SumOfParts
<1> QED
  BY <1>1 DEF Summing

\* One term changes.
LEMMA SumUpdate ==
  ASSUME NEW D, IsFiniteSet(D), NEW f \in [D -> Int], NEW x \in D, NEW a \in Int
  PROVE  SumFunction([f EXCEPT ![x] = a]) = SumFunction(f) - f[x] + a
<1> DEFINE g == [f EXCEPT ![x] = a]
<1>1. PICK h : Summing(h, f, D) /\ SumFunction(f) = h[D]
  BY SumOfParts
<1> DEFINE k == [S \in SUBSET D |-> IF x \in S THEN h[S] - f[x] + a ELSE h[S]]
<1>2. g \in [D -> Int] /\ DOMAIN g = D /\ f[x] \in Int
  OBVIOUS
<1>3. k \in [SUBSET D -> Int] /\ k[{}] = 0
  BY <1>1, <1>2 DEF Summing
<1>4. ASSUME NEW S \in SUBSET D, NEW y \in S
      PROVE  k[S] = g[y] + k[S \ {y}]
  <2>1. S \ {y} \in SUBSET D /\ y \in D /\ f[y] \in Int /\ h[S] = f[y] + h[S \ {y}]
        /\ h[S \ {y}] \in Int
    BY <1>1 DEF Summing
  <2>2. CASE y = x
    <3>1. k[S] = h[S] - f[x] + a /\ k[S \ {y}] = h[S \ {y}] /\ g[y] = a
      BY <2>1, <2>2
    <3> QED
      BY <1>2, <2>1, <2>2, <3>1
  <2>3. CASE y # x /\ x \in S
    <3>1. k[S] = h[S] - f[x] + a /\ k[S \ {y}] = h[S \ {y}] - f[x] + a /\ g[y] = f[y]
      BY <2>1, <2>3
    <3> HIDE DEF k, g
    <3> QED
      BY <1>2, <2>1, <3>1
  <2>4. CASE x \notin S
    <3>1. k[S] = h[S] /\ k[S \ {y}] = h[S \ {y}] /\ g[y] = f[y]
      BY <2>1, <2>4
    <3> QED
      BY <2>1, <3>1
  <2> QED
    BY <2>2, <2>3, <2>4
<1>5. Summing(k, g, D)
  BY <1>3, <1>4 DEF Summing
<1>6. SumFunction(g) = k[D]
  <2> HIDE DEF k, g
  <2> QED
    BY <1>2, <1>5, SumIsSumming DEF SumFunction
<1>7. k[D] = h[D] - f[x] + a
  OBVIOUS
<1> QED
  BY <1>1, <1>6, <1>7

LEMMA SumChange ==
  ASSUME NEW D, IsFiniteSet(D), NEW f \in [D -> Int], NEW g \in [D -> Int], NEW x \in D,
         \A y \in D : y # x => g[y] = f[y]
  PROVE  /\ SumFunction(f) \in Int /\ SumFunction(g) \in Int
         /\ SumFunction(g) = SumFunction(f) + g[x] - f[x]
<1>1. g = [f EXCEPT ![x] = g[x]] /\ g[x] \in Int /\ f[x] \in Int
  OBVIOUS
<1>2. SumFunction(f) \in Int /\ SumFunction(g) \in Int
  BY SumType
<1>3. SumFunction(g) = SumFunction(f) - f[x] + g[x]
  BY <1>1, SumUpdate
<1> QED
  BY <1>1, <1>2, <1>3

\* The terms of two sums are added one by one.
LEMMA SumPlus ==
  ASSUME NEW D, IsFiniteSet(D), NEW f \in [D -> Int], NEW g \in [D -> Int]
  PROVE  SumFunction([x \in D |-> f[x] + g[x]]) = SumFunction(f) + SumFunction(g)
<1> DEFINE s == [x \in D |-> f[x] + g[x]]
<1>1. PICK h : Summing(h, f, D) /\ SumFunction(f) = h[D]
  BY SumOfParts
<1>2. PICK k : Summing(k, g, D) /\ SumFunction(g) = k[D]
  BY SumOfParts
<1> DEFINE r == [S \in SUBSET D |-> h[S] + k[S]]
<1>3. s \in [D -> Int] /\ DOMAIN s = D
  OBVIOUS
<1>4. r \in [SUBSET D -> Int] /\ r[{}] = 0
  BY <1>1, <1>2 DEF Summing
<1>5. ASSUME NEW S \in SUBSET D, NEW x \in S
      PROVE  r[S] = s[x] + r[S \ {x}]
  <2>1. /\ S \ {x} \in SUBSET D /\ x \in D /\ f[x] \in Int /\ g[x] \in Int
        /\ h[S] = f[x] + h[S \ {x}] /\ h[S \ {x}] \in Int
        /\ k[S] = g[x] + k[S \ {x}] /\ k[S \ {x}] \in Int
    BY <1>1, <1>2 DEF Summing
  <2>2. r[S] = h[S] + k[S] /\ r[S \ {x}] = h[S \ {x}] + k[S \ {x}] /\ s[x] = f[x] + g[x]
    BY <2>1
  <2> HIDE DEF r, s
  <2> QED
    BY <2>1, <2>2
<1>6. Summing(r, s, D)
  BY <1>4, <1>5 DEF Summing
<1>7. SumFunction(s) = r[D]
  <2> HIDE DEF r, s
  <2> QED
    BY <1>3, <1>6, SumIsSumming DEF SumFunction
<1> QED
  BY <1>1, <1>2, <1>7

\* A sum of terms none of which is less than another's is not less.
LEMMA SumMonotone ==
  ASSUME NEW D, IsFiniteSet(D), NEW f \in [D -> Int], NEW g \in [D -> Int],
         \A x \in D : f[x] <= g[x]
  PROVE  SumFunction(f) <= SumFunction(g)
<1>1. PICK h : Summing(h, f, D) /\ SumFunction(f) = h[D]
  BY SumOfParts
<1>2. PICK k : Summing(k, g, D) /\ SumFunction(g) = k[D]
  BY SumOfParts
<1> DEFINE G == {S \in SUBSET D : h[S] <= k[S]}
<1>3. ASSUME NEW S \in SUBSET D, \A x \in S : S \ {x} \in G
      PROVE  S \in G
  <2>1. CASE S = {}
    BY <1>1, <1>2, <2>1 DEF Summing
  <2>2. CASE S # {}
    <3>1. PICK x \in S : TRUE
      BY <2>2
    <3>2. /\ S \ {x} \in SUBSET D /\ f[x] \in Int /\ g[x] \in Int /\ f[x] <= g[x]
          /\ h[S] = f[x] + h[S \ {x}] /\ h[S \ {x}] \in Int
          /\ k[S] = g[x] + k[S \ {x}] /\ k[S \ {x}] \in Int
      BY <1>1, <1>2 DEF Summing
    <3>3. h[S \ {x}] <= k[S \ {x}]
      BY <1>3
    <3>4. h[S] <= k[S]
      BY <3>2, <3>3
    <3> QED
      BY <3>4
  <2> QED
    BY <2>1, <2>2
<1>4. SUBSET D \subseteq G
  <2> HIDE DEF G
  <2> QED
    BY <1>3, SubsetInduction
<1> QED
  BY <1>1, <1>2, <1>4

\* Nothing but zeros adds up to zero.
LEMMA SumZeros ==
  ASSUME NEW D, IsFiniteSet(D), NEW f, f = [x \in D |-> 0]
  PROVE  SumFunction(f) = 0
<1>1. Summing([S \in SUBSET D |-> 0], f, D)
  BY DEF Summing
<1>2. f \in [D -> Int] /\ DOMAIN f = D
  OBVIOUS
<1> QED
  BY <1>1, <1>2, SumIsSumming DEF SumFunction

\* No term of a sum of naturals exceeds the sum.
LEMMA SumCovers ==
  ASSUME NEW D, IsFiniteSet(D), NEW f \in [D -> Nat]
  PROVE  SumFunction(f) \in Nat /\ \A x \in D : f[x] <= SumFunction(f)
<1>1. f \in [D -> Int] /\ SumFunction(f) \in Int
  BY SumType
<1> DEFINE zeros == [x \in D |-> 0]
<1>2. zeros \in [D -> Int] /\ SumFunction(zeros) = 0
  BY SumZeros
<1>3. SumFunction(zeros) <= SumFunction(f)
  <2>1. \A x \in D : zeros[x] <= f[x]
    OBVIOUS
  <2> HIDE DEF zeros
  <2> QED
    BY <1>1, <1>2, <2>1, SumMonotone
<1>4. ASSUME NEW x \in D
      PROVE  f[x] <= SumFunction(f)
  <2> DEFINE g == [zeros EXCEPT ![x] = f[x]]
  <2>1. g \in [D -> Int] /\ f[x] \in Int
    OBVIOUS
  <2>2. SumFunction(g) = SumFunction(zeros) - zeros[x] + f[x]
    BY <1>2, <2>1, SumUpdate
  <2>3. \A y \in D : g[y] <= f[y]
    OBVIOUS
  <2>4. SumFunction(g) <= SumFunction(f)
    <3> HIDE DEF g
    <3> QED
      BY <1>1, <2>1, <2>3, SumMonotone
  <2>5. zeros[x] = 0
    OBVIOUS
  <2> QED
    BY <1>2, <2>1, <2>2, <2>4, <2>5
<1> QED
  BY <1>1, <1>2, <1>3, <1>4

\* The terms outside a part count for nothing.
LEMMA SumWithin ==
  ASSUME NEW D, IsFiniteSet(D), NEW f \in [D -> Int], NEW T \in SUBSET D
  PROVE  SumFunction([x \in T |-> f[x]])
           = SumFunction([x \in D |-> IF x \in T THEN f[x] ELSE 0])
<1> DEFINE g == [x \in D |-> IF x \in T THEN f[x] ELSE 0]
           e == [x \in T |-> f[x]]
<1>1. g \in [D -> Int] /\ e \in [T -> Int] /\ IsFiniteSet(T)
  BY FS_Subset
<1>2. PICK h : Summing(h, g, D)
  <2> HIDE DEF g
  <2> QED
    BY <1>1, SummingExists
<1> DEFINE k == [S \in SUBSET D |-> h[S \cap T]]
           i == [S \in SUBSET T |-> h[S]]
<1>3. Summing(k, g, D)
  <2>1. k \in [SUBSET D -> Int] /\ k[{}] = 0
    BY <1>2 DEF Summing
  <2>2. ASSUME NEW S \in SUBSET D, NEW x \in S
        PROVE  k[S] = g[x] + k[S \ {x}]
    <3>1. CASE x \in T
      <4>1. (S \ {x}) \cap T = (S \cap T) \ {x} /\ x \in S \cap T /\ S \cap T \in SUBSET D
            /\ S \ {x} \in SUBSET D
        BY <3>1
      <4>2. h[S \cap T] = g[x] + h[(S \cap T) \ {x}]
        BY <1>2, <4>1 DEF Summing
      <4>3. k[S] = h[S \cap T] /\ k[S \ {x}] = h[(S \ {x}) \cap T]
        BY <4>1
      <4> HIDE DEF k, g
      <4> QED
        BY <4>1, <4>2, <4>3
    <3>2. CASE x \notin T
      <4>1. (S \ {x}) \cap T = S \cap T /\ S \ {x} \in SUBSET D /\ g[x] = 0
        BY <3>2
      <4>2. k[S] \in Int /\ k[S \ {x}] = k[S]
        BY <2>1, <4>1
      <4> HIDE DEF k, g
      <4> QED
        BY <4>1, <4>2
    <3> QED
      BY <3>1, <3>2
  <2> HIDE DEF k, g
  <2> QED
    BY <2>1, <2>2 DEF Summing
<1>4. Summing(i, e, T)
  <2>1. \A S \in SUBSET T : S \in SUBSET D /\ i[S] = h[S] /\ h[S] \in Int
    BY <1>2 DEF Summing
  <2>2. i \in [SUBSET T -> Int] /\ i[{}] = 0
    BY <1>2, <2>1 DEF Summing
  <2>3. ASSUME NEW S \in SUBSET T, NEW x \in S
        PROVE  i[S] = e[x] + i[S \ {x}]
    <3>1. g[x] = e[x] /\ S \ {x} \in SUBSET T
      OBVIOUS
    <3>2. h[S] = g[x] + h[S \ {x}]
      BY <1>2, <2>1 DEF Summing
    <3> HIDE DEF i, e, g
    <3> QED
      BY <2>1, <3>1, <3>2
  <2> HIDE DEF i, e
  <2> QED
    BY <2>2, <2>3 DEF Summing
<1>5. SumFunctionOnSet(g, D) = k[D] /\ SumFunctionOnSet(e, T) = i[T]
  <2> HIDE DEF g, e, k, i
  <2> QED
    BY <1>1, <1>3, <1>4, SumIsSumming
<1>6. k[D] = h[T] /\ i[T] = h[T]
  <2>1. D \cap T = T
    OBVIOUS
  <2> QED
    BY <2>1
<1>7. DOMAIN g = D /\ DOMAIN e = T
  OBVIOUS
<1>8. SumFunction(g) = SumFunctionOnSet(g, D) /\ SumFunction(e) = SumFunctionOnSet(e, T)
  <2> HIDE DEF g, e
  <2> QED
    BY <1>7 DEF SumFunction
<1> QED
  BY <1>5, <1>6, <1>8

=============================================================================
