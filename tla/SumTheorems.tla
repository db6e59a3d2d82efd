----------------------------- MODULE SumTheorems -----------------------------
(***************************************************************************)
(* What the counting invariants use of SumFunction, the sum of a function  *)
(* over its domain: what it is when one value changes, when all values     *)
(* are bounded, how the sum over a sequence follows its two ends, and that *)
(* the sum of the sizes of disjoint sets is the size of their union.       *)
(***************************************************************************)
EXTENDS Integers, Sequences, Functions, FiniteSetTheorems, WellFoundedInduction, TLAPS

-----------------------------------------------------------------------------
(* Induction: a non-empty set of natural numbers has a least element *)

\* The library's order on the natural numbers, as a relation between two of them.
LEMMA LessThan ==
  ASSUME NEW x \in Nat, NEW y \in Nat, x < y
  PROVE  <<x, y>> \in OpToRel(<, Nat)
BY DEF OpToRel

\* A non-empty set of natural numbers has a least element.
LEMMA LeastElement ==
  ASSUME NEW B, B \subseteq Nat, B # {}
  PROVE  \E n \in B : \A m \in B : n <= m
<1>1. PICK n \in B : \A m \in B : ~(<<m, n>> \in OpToRel(<, Nat))
  BY NatLessThanWellFounded, WFMin
<1>2. ASSUME NEW m \in B PROVE n <= m
  <2>1. ~(m < n)
    BY <1>1, LessThan
  <2>. QED BY <2>1
<1>. QED BY <1>2

\* What holds of 0 and passes from each number to the next holds of all: B is the set
\* of the numbers it holds of.
LEMMA Induction ==
  ASSUME NEW B, 0 \in B, \A n \in Nat : n \in B => n + 1 \in B
  PROVE  Nat \subseteq B
<1>. DEFINE C == {n \in Nat : n \notin B}
<1>1. ASSUME C # {} PROVE FALSE
  <2>1. PICK n \in C : \A m \in C : n <= m
    BY <1>1, LeastElement
  <2>2. n \in Nat \ {0}
    BY <2>1
  <2>3. n - 1 \in Nat /\ n - 1 \notin C
    BY <2>1, <2>2
  <2>4. (n - 1) + 1 = n
    BY <2>2
  <2>. QED BY <2>1, <2>3, <2>4
<1>. QED BY <1>1

-----------------------------------------------------------------------------
(* The sums over all subsets of a finite set *)

Some(T) == CHOOSE x \in T : TRUE

\* g gives the sum of f over each subset of S.
AreSums(g, f, S) ==
  g = [T \in SUBSET S |-> IF T = {} THEN 0 ELSE f[Some(T)] + g[T \ {Some(T)}]]

\* The same for the subsets of at most n elements.
SmallSubsets(S, n) == {T \in SUBSET S : Cardinality(T) <= n}
AreSmallSums(g, f, S, n) ==
  g = [T \in SmallSubsets(S, n) |-> IF T = {} THEN 0 ELSE f[Some(T)] + g[T \ {Some(T)}]]

\* The element that Some takes out of a non-empty subset, and what it leaves.
LEMMA SomeProperties ==
  ASSUME NEW S, IsFiniteSet(S), NEW T \in SUBSET S, T # {}
  PROVE  /\ Some(T) \in T
         /\ IsFiniteSet(T) /\ Cardinality(T) \in Nat \ {0}
         /\ Cardinality(T \ {Some(T)}) = Cardinality(T) - 1
         /\ T \ {Some(T)} \in SUBSET S
<1>1. Some(T) \in T
  BY DEF Some
<1>2. IsFiniteSet(T)
  BY FS_Subset
<1>. HIDE DEF Some
<1>3. Cardinality(T) \in Nat /\ Cardinality(T) # 0
  BY <1>2, FS_CardinalityType, FS_EmptySet
<1>4. Cardinality(T \ {Some(T)}) = Cardinality(T) - 1
  BY <1>1, <1>2, FS_RemoveElement
<1>. QED BY <1>1, <1>2, <1>3, <1>4

\* A set with an element to count is not empty.
LEMMA NotEmpty ==
  ASSUME NEW T, NEW n \in Nat, Cardinality(T) = n + 1
  PROVE  T # {}
<1>1. ASSUME T = {} PROVE FALSE
  <2>1. Cardinality(T) = 0
    BY <1>1, FS_EmptySet
  <2>. QED BY <2>1
<1>. QED BY <1>1

\* By induction on n: a function gives the sums over all subsets of at most n elements.
LEMMA SmallSumsExist ==
  ASSUME NEW f, NEW S, IsFiniteSet(S)
  PROVE  \A n \in Nat : \E g : AreSmallSums(g, f, S, n)
<1>. DEFINE B == {n \in Nat : \E g : AreSmallSums(g, f, S, n)}
<1>1. 0 \in B
  <2>. DEFINE g == [T \in SmallSubsets(S, 0) |-> 0]
  <2>1. ASSUME NEW T \in SmallSubsets(S, 0) PROVE T = {}
    <3>1. T \in SUBSET S /\ Cardinality(T) <= 0
      BY DEF SmallSubsets
    <3>2. T # {} => Cardinality(T) \in Nat \ {0}
      BY <3>1, SomeProperties
    <3>. QED BY <3>1, <3>2
  <2>2. AreSmallSums(g, f, S, 0)
    BY <2>1 DEF AreSmallSums
  <2>. QED BY <2>2
<1>2. ASSUME NEW n \in Nat, n \in B PROVE n + 1 \in B
  <2>1. PICK g : AreSmallSums(g, f, S, n)
    BY <1>2
  <2>. DEFINE val(T) == IF T = {} THEN 0 ELSE f[Some(T)] + g[T \ {Some(T)}]
              h == [T \in SmallSubsets(S, n + 1) |-> val(T)]
  <2>2. \A T \in SmallSubsets(S, n) : g[T] = val(T)
    BY <2>1 DEF AreSmallSums
  <2>3. \A T \in SmallSubsets(S, n) : T \in SmallSubsets(S, n + 1)
    <3>1. \A T \in SUBSET S : Cardinality(T) \in Nat
      BY FS_Subset, FS_CardinalityType
    <3>. QED BY <3>1 DEF SmallSubsets
  <2>4. \A T \in SmallSubsets(S, n + 1) : T # {} => T \ {Some(T)} \in SmallSubsets(S, n)
    BY SomeProperties DEF SmallSubsets
  <2>. HIDE DEF val
  <2>5. \A T \in SmallSubsets(S, n) : h[T] = g[T]
    BY <2>2, <2>3
  <2>6. \A T \in SmallSubsets(S, n + 1) :
          val(T) = IF T = {} THEN 0 ELSE f[Some(T)] + h[T \ {Some(T)}]
    BY <2>4, <2>5 DEF val
  <2>7. AreSmallSums(h, f, S, n + 1)
    BY <2>6 DEF AreSmallSums
  <2>. QED BY <2>7
<1>3. Nat \subseteq B
  <2>. HIDE DEF B
  <2>. QED BY <1>1, <1>2, Induction
<1>. QED BY <1>3

\* A function gives the sums over all subsets of a finite set.
LEMMA SumsExist ==
  ASSUME NEW f, NEW S, IsFiniteSet(S)
  PROVE  \E g : AreSums(g, f, S)
<1>1. Cardinality(S) \in Nat
  BY FS_CardinalityType
<1>2. SmallSubsets(S, Cardinality(S)) = SUBSET S
  BY FS_Subset DEF SmallSubsets
<1>3. PICK g : AreSmallSums(g, f, S, Cardinality(S))
  BY <1>1, SmallSumsExist
<1>. QED BY <1>2, <1>3 DEF AreSums, AreSmallSums

\* The community modules' recursive function is such a g.
LEMMA SumIsOne ==
  ASSUME NEW f, NEW S, IsFiniteSet(S)
  PROVE  \E g : AreSums(g, f, S) /\ SumFunctionOnSet(f, S) = g[S]
<1>. DEFINE sums == CHOOSE g : AreSums(g, f, S)
<1>1. AreSums(sums, f, S)
  BY SumsExist
<1>2. SumFunctionOnSet(f, S) = sums[S]
  BY DEF SumFunctionOnSet, FoldFunctionOnSet, MapThenFoldSet, AreSums, Some
<1>. QED BY <1>1, <1>2

-----------------------------------------------------------------------------
(* The order in which the elements are summed up does not matter *)

\* The sums of integers are integers.
LEMMA SumsType ==
  ASSUME NEW f, NEW S, IsFiniteSet(S), \A x \in S : f[x] \in Int, NEW g, AreSums(g, f, S)
  PROVE  \A T \in SUBSET S : g[T] \in Int
<1>. DEFINE B == {n \in Nat : \A T \in SUBSET S : Cardinality(T) = n => g[T] \in Int}
<1>1. \A T \in SUBSET S : g[T] = IF T = {} THEN 0 ELSE f[Some(T)] + g[T \ {Some(T)}]
  BY DEF AreSums
<1>2. 0 \in B
  <2>1. ASSUME NEW T \in SUBSET S, Cardinality(T) = 0 PROVE g[T] \in Int
    <3>1. T = {}
      BY <2>1, SomeProperties
    <3>2. g[T] = 0
      BY <1>1, <3>1, Zenon
    <3>. QED BY <3>2
  <2>. QED BY <2>1
<1>3. ASSUME NEW n \in Nat, n \in B PROVE n + 1 \in B
  <2>1. ASSUME NEW T \in SUBSET S, Cardinality(T) = n + 1 PROVE g[T] \in Int
    <3>1. T # {}
      BY <2>1, NotEmpty, Zenon
    <3>2. /\ Some(T) \in T /\ T \ {Some(T)} \in SUBSET S
          /\ Cardinality(T \ {Some(T)}) = n
      BY <2>1, <3>1, SomeProperties
    <3>3. f[Some(T)] \in Int /\ g[T \ {Some(T)}] \in Int
      BY <1>3, <3>2
    <3>. QED BY <1>1, <3>1, <3>3
  <2>. QED BY <2>1
<1>4. Nat \subseteq B
  <2>. HIDE DEF B
  <2>. QED BY <1>2, <1>3, Induction
<1>5. \A T \in SUBSET S : Cardinality(T) \in Nat
  BY FS_Subset, FS_CardinalityType
<1>. QED BY <1>4, <1>5

\* Whichever element is taken out first.
AnyOrder(g, f, T) == \A x \in T : g[T] = f[x] + g[T \ {x}]

\* A sum is any one of its terms added to the sum of the others.
LEMMA SumsInAnyOrder ==
  ASSUME NEW f, NEW S, IsFiniteSet(S), \A x \in S : f[x] \in Int, NEW g, AreSums(g, f, S)
  PROVE  \A T \in SUBSET S : AnyOrder(g, f, T)
<1>. DEFINE B == {n \in Nat : \A T \in SUBSET S : Cardinality(T) = n => AnyOrder(g, f, T)}
<1>1. \A T \in SUBSET S : g[T] = IF T = {} THEN 0 ELSE f[Some(T)] + g[T \ {Some(T)}]
  BY DEF AreSums
<1>2. \A T \in SUBSET S : g[T] \in Int
  BY SumsType
<1>3. 0 \in B
  <2>1. ASSUME NEW T \in SUBSET S, Cardinality(T) = 0 PROVE AnyOrder(g, f, T)
    <3>1. T = {}
      BY <2>1, SomeProperties
    <3>. QED BY <3>1 DEF AnyOrder
  <2>. QED BY <2>1
<1>4. ASSUME NEW n \in Nat, n \in B PROVE n + 1 \in B
  <2>1. SUFFICES ASSUME NEW T \in SUBSET S, Cardinality(T) = n + 1, NEW x \in T
                 PROVE  g[T] = f[x] + g[T \ {x}]
    BY DEF AnyOrder
  <2>2. IsFiniteSet(T) /\ T # {}
    BY <2>1, FS_Subset
  <2>. DEFINE y == Some(T)
  <2>3. y \in T /\ g[T] = f[y] + g[T \ {y}]
    BY <1>1, <2>2, SomeProperties
  <2>. HIDE DEF y
  <2>4. \A z \in T : Cardinality(T \ {z}) = n
    <3>1. \A z \in T : Cardinality(T \ {z}) = Cardinality(T) - 1
      BY <2>2, FS_RemoveElement
    <3>2. (n + 1) - 1 = n
      OBVIOUS
    <3>. QED BY <2>1, <3>1, <3>2
  <2>5. \A z \in T : AnyOrder(g, f, T \ {z})
    BY <1>4, <2>4
  <2>6. CASE x # y
    <3>1. g[T \ {y}] = f[x] + g[(T \ {y}) \ {x}]
      BY <2>3, <2>5, <2>6 DEF AnyOrder
    <3>2. g[T \ {x}] = f[y] + g[(T \ {x}) \ {y}]
      BY <2>3, <2>5, <2>6 DEF AnyOrder
    <3>3. (T \ {x}) \ {y} = (T \ {y}) \ {x}
      OBVIOUS
    <3>4. PICK a \in Int, b \in Int, c \in Int :
            a = f[x] /\ b = f[y] /\ c = g[(T \ {x}) \ {y}]
      BY <1>2, <2>3
    <3>5. g[T] = b + (a + c) /\ g[T \ {x}] = b + c
      BY <2>3, <3>1, <3>2, <3>3, <3>4, Zenon
    <3>6. b + (a + c) = a + (b + c)
      OBVIOUS
    <3>. QED BY <3>4, <3>5, <3>6, Zenon
  <2>. QED BY <2>3, <2>6
<1>5. Nat \subseteq B
  <2>. HIDE DEF B
  <2>. QED BY <1>3, <1>4, Induction
<1>6. \A T \in SUBSET S : Cardinality(T) \in Nat
  BY FS_Subset, FS_CardinalityType
<1>. QED BY <1>5, <1>6

\* The sum over a set depends on the values of the function in it only.
LEMMA SumsAgree ==
  ASSUME NEW S, IsFiniteSet(S), NEW f, NEW g, AreSums(g, f, S),
         NEW R, IsFiniteSet(R), NEW e, NEW h, AreSums(h, e, R)
  PROVE  \A T \in SUBSET (S \cap R) : (\A x \in T : f[x] = e[x]) => g[T] = h[T]
<1>. DEFINE B == {n \in Nat : \A T \in SUBSET (S \cap R) :
                    Cardinality(T) = n /\ (\A x \in T : f[x] = e[x]) => g[T] = h[T]}
<1>1. /\ \A T \in SUBSET S : g[T] = IF T = {} THEN 0 ELSE f[Some(T)] + g[T \ {Some(T)}]
      /\ \A T \in SUBSET R : h[T] = IF T = {} THEN 0 ELSE e[Some(T)] + h[T \ {Some(T)}]
  BY DEF AreSums
<1>2. 0 \in B
  <2>1. ASSUME NEW T \in SUBSET (S \cap R), Cardinality(T) = 0 PROVE g[T] = h[T]
    <3>1. T = {}
      BY <2>1, SomeProperties
    <3>2. g[T] = 0 /\ h[T] = 0
      BY <1>1, <3>1, Zenon
    <3>. QED BY <3>2
  <2>. QED BY <2>1
<1>3. ASSUME NEW n \in Nat, n \in B PROVE n + 1 \in B
  <2>1. ASSUME NEW T \in SUBSET (S \cap R), Cardinality(T) = n + 1,
               \A x \in T : f[x] = e[x]
        PROVE  g[T] = h[T]
    <3>1. T # {}
      BY <2>1, NotEmpty, Zenon
    <3>. DEFINE y == Some(T)
                rest == T \ {y}
    <3>2. y \in T /\ Cardinality(rest) = n
      BY <2>1, <3>1, SomeProperties
    <3>3. g[T] = f[y] + g[rest] /\ h[T] = e[y] + h[rest]
      BY <1>1, <3>1
    <3>. HIDE DEF y
    <3>4. rest \in SUBSET (S \cap R) /\ \A x \in rest : f[x] = e[x]
      BY <2>1
    <3>5. g[rest] = h[rest]
      BY <1>3, <3>2, <3>4
    <3>. QED BY <2>1, <3>2, <3>3, <3>5
  <2>. QED BY <2>1
<1>4. Nat \subseteq B
  <2>. HIDE DEF B
  <2>. QED BY <1>2, <1>3, Induction
<1>5. \A T \in SUBSET S : Cardinality(T) \in Nat
  BY FS_Subset, FS_CardinalityType
<1>. QED BY <1>4, <1>5

-----------------------------------------------------------------------------
(* SumFunction *)

\* A function to integers, its sum and the sums over the subsets of its domain.
LEMMA SumsOf ==
  ASSUME NEW S, IsFiniteSet(S), NEW f \in [S -> Int]
  PROVE  \E g : /\ AreSums(g, f, S) /\ SumFunction(f) = g[S]
                /\ \A T \in SUBSET S : g[T] \in Int /\ AnyOrder(g, f, T)
<1>1. SumFunction(f) = SumFunctionOnSet(f, S)
  BY DEF SumFunction, SumFunctionOnSet, FoldFunction, FoldFunctionOnSet
<1>2. PICK g : AreSums(g, f, S) /\ SumFunctionOnSet(f, S) = g[S]
  BY SumIsOne
<1>3. \A T \in SUBSET S : g[T] \in Int /\ AnyOrder(g, f, T)
  BY <1>2, SumsType, SumsInAnyOrder
<1>. QED BY <1>1, <1>2, <1>3

\* SumFunction of an integer function on a finite set is an integer.
LEMMA SumType ==
  ASSUME NEW S, IsFiniteSet(S), NEW f \in [S -> Int]
  PROVE  SumFunction(f) \in Int
BY SumsOf

\* Functions that differ in one place at most.
LEMMA SumDiffers ==
  ASSUME NEW S, IsFiniteSet(S), NEW x \in S,
         NEW f \in [S -> Int], NEW e \in [S -> Int], \A y \in S \ {x} : f[y] = e[y]
  PROVE  SumFunction(e) = SumFunction(f) - f[x] + e[x]
<1>1. PICK g : /\ AreSums(g, f, S) /\ SumFunction(f) = g[S]
               /\ \A T \in SUBSET S : g[T] \in Int /\ AnyOrder(g, f, T)
  BY SumsOf
<1>2. PICK h : /\ AreSums(h, e, S) /\ SumFunction(e) = h[S]
               /\ \A T \in SUBSET S : h[T] \in Int /\ AnyOrder(h, e, T)
  BY SumsOf
<1>3. g[S \ {x}] = h[S \ {x}]
  <2>1. \A T \in SUBSET (S \cap S) : (\A y \in T : f[y] = e[y]) => g[T] = h[T]
    BY <1>1, <1>2, SumsAgree
  <2>2. S \ {x} \in SUBSET (S \cap S)
    OBVIOUS
  <2>. QED BY <2>1, <2>2
<1>4. g[S] = f[x] + g[S \ {x}] /\ h[S] = e[x] + h[S \ {x}]
  BY <1>1, <1>2 DEF AnyOrder
<1>5. PICK a \in Int, b \in Int, c \in Int : a = f[x] /\ b = e[x] /\ c = g[S \ {x}]
  BY <1>1
<1>6. SumFunction(f) = a + c /\ SumFunction(e) = b + c
  BY <1>1, <1>2, <1>3, <1>4, <1>5, Zenon
<1>7. b + c = (a + c) - a + b
  OBVIOUS
<1>. QED BY <1>5, <1>6, <1>7, Zenon

\* An update of one value.
LEMMA SumUpdate ==
  ASSUME NEW S, IsFiniteSet(S), NEW x \in S, NEW f \in [S -> Int], NEW v \in Int
  PROVE  SumFunction([f EXCEPT ![x] = v]) = SumFunction(f) - f[x] + v
<1>. DEFINE e == [f EXCEPT ![x] = v]
<1>1. e \in [S -> Int] /\ e[x] = v /\ \A y \in S \ {x} : f[y] = e[y]
  OBVIOUS
<1>. HIDE DEF e
<1>2. SumFunction(e) = SumFunction(f) - f[x] + e[x]
  BY <1>1, SumDiffers
<1>. QED BY <1>1, <1>2 DEF e

\* Of natural numbers: none of them is above the sum.
LEMMA SumNat ==
  ASSUME NEW S, IsFiniteSet(S), NEW f \in [S -> Nat]
  PROVE  SumFunction(f) \in Nat /\ \A x \in S : f[x] <= SumFunction(f)
<1>1. f \in [S -> Int]
  OBVIOUS
<1>2. PICK g : /\ AreSums(g, f, S) /\ SumFunction(f) = g[S]
               /\ \A T \in SUBSET S : g[T] \in Int /\ AnyOrder(g, f, T)
  BY <1>1, SumsOf
<1>. DEFINE B == {n \in Nat : \A T \in SUBSET S : Cardinality(T) = n => g[T] \in Nat}
<1>3. g[{}] = 0
  BY <1>2 DEF AreSums
<1>4. 0 \in B
  <2>1. ASSUME NEW T \in SUBSET S, Cardinality(T) = 0 PROVE g[T] \in Nat
    <3>1. T = {}
      BY <2>1, SomeProperties
    <3>. QED BY <1>3, <3>1
  <2>. QED BY <2>1
<1>5. ASSUME NEW n \in Nat, n \in B PROVE n + 1 \in B
  <2>1. ASSUME NEW T \in SUBSET S, Cardinality(T) = n + 1 PROVE g[T] \in Nat
    <3>1. T # {}
      BY <2>1, NotEmpty, Zenon
    <3>2. /\ Some(T) \in T /\ T \ {Some(T)} \in SUBSET S
          /\ Cardinality(T \ {Some(T)}) = n
      BY <2>1, <3>1, SomeProperties
    <3>3. g[T] = f[Some(T)] + g[T \ {Some(T)}]
      BY <1>2, <3>2 DEF AnyOrder
    <3>4. f[Some(T)] \in Nat /\ g[T \ {Some(T)}] \in Nat
      BY <1>5, <3>2
    <3>. QED BY <3>3, <3>4
  <2>. QED BY <2>1
<1>6. Nat \subseteq B
  <2>. HIDE DEF B
  <2>. QED BY <1>4, <1>5, Induction
<1>7. \A T \in SUBSET S : g[T] \in Nat
  BY <1>6, FS_Subset, FS_CardinalityType
<1>8. ASSUME NEW x \in S PROVE f[x] <= g[S]
  <2>1. g[S] = f[x] + g[S \ {x}] /\ g[S \ {x}] \in Nat /\ f[x] \in Nat
    BY <1>2, <1>7 DEF AnyOrder
  <2>. QED BY <2>1
<1>. QED BY <1>2, <1>7, <1>8

\* A function that is zero everywhere sums up to zero.
LEMMA SumZero ==
  ASSUME NEW S, IsFiniteSet(S), NEW f \in [S -> Int], \A x \in S : f[x] = 0
  PROVE  SumFunction(f) = 0
<1>1. PICK g : /\ AreSums(g, f, S) /\ SumFunction(f) = g[S]
               /\ \A T \in SUBSET S : g[T] \in Int /\ AnyOrder(g, f, T)
  BY SumsOf
<1>. DEFINE B == {n \in Nat : \A T \in SUBSET S : Cardinality(T) = n => g[T] = 0}
<1>2. g[{}] = 0
  BY <1>1 DEF AreSums
<1>3. 0 \in B
  <2>1. ASSUME NEW T \in SUBSET S, Cardinality(T) = 0 PROVE g[T] = 0
    <3>1. T = {}
      BY <2>1, SomeProperties
    <3>. QED BY <1>2, <3>1
  <2>. QED BY <2>1
<1>4. ASSUME NEW n \in Nat, n \in B PROVE n + 1 \in B
  <2>1. ASSUME NEW T \in SUBSET S, Cardinality(T) = n + 1 PROVE g[T] = 0
    <3>1. T # {}
      BY <2>1, NotEmpty, Zenon
    <3>2. /\ Some(T) \in T /\ T \ {Some(T)} \in SUBSET S
          /\ Cardinality(T \ {Some(T)}) = n
      BY <2>1, <3>1, SomeProperties
    <3>3. g[T] = f[Some(T)] + g[T \ {Some(T)}]
      BY <1>1, <3>2 DEF AnyOrder
    <3>4. f[Some(T)] = 0 /\ g[T \ {Some(T)}] = 0
      BY <1>4, <3>2
    <3>. QED BY <3>3, <3>4
  <2>. QED BY <2>1
<1>5. Nat \subseteq B
  <2>. HIDE DEF B
  <2>. QED BY <1>3, <1>4, Induction
<1>. QED BY <1>1, <1>5, FS_CardinalityType

\* The sum of sums and differences.
LEMMA SumLinear ==
  ASSUME NEW S, IsFiniteSet(S), NEW c \in Int,
         NEW f \in [S -> Int], NEW e \in [S -> Int], NEW d \in [S -> Int],
         \A x \in S : d[x] = f[x] + e[x] - c
  PROVE  SumFunction(d) = SumFunction(f) + SumFunction(e) - c * Cardinality(S)
<1>1. PICK g : /\ AreSums(g, f, S) /\ SumFunction(f) = g[S]
               /\ \A T \in SUBSET S : g[T] \in Int /\ AnyOrder(g, f, T)
  BY SumsOf
<1>2. PICK h : /\ AreSums(h, e, S) /\ SumFunction(e) = h[S]
               /\ \A T \in SUBSET S : h[T] \in Int /\ AnyOrder(h, e, T)
  BY SumsOf
<1>3. PICK k : /\ AreSums(k, d, S) /\ SumFunction(d) = k[S]
               /\ \A T \in SUBSET S : k[T] \in Int /\ AnyOrder(k, d, T)
  BY SumsOf
<1>. DEFINE B == {n \in Nat : \A T \in SUBSET S :
                                Cardinality(T) = n => k[T] = g[T] + h[T] - c * n}
<1>4. g[{}] = 0 /\ h[{}] = 0 /\ k[{}] = 0
  BY <1>1, <1>2, <1>3 DEF AreSums
<1>5. 0 \in B
  <2>1. ASSUME NEW T \in SUBSET S, Cardinality(T) = 0 PROVE k[T] = g[T] + h[T] - c * 0
    <3>1. T = {}
      BY <2>1, SomeProperties
    <3>. QED BY <1>4, <3>1
  <2>. QED BY <2>1
<1>6. ASSUME NEW n \in Nat, n \in B PROVE n + 1 \in B
  <2>1. ASSUME NEW T \in SUBSET S, Cardinality(T) = n + 1
        PROVE  k[T] = g[T] + h[T] - c * (n + 1)
    <3>1. T # {}
      BY <2>1, NotEmpty, Zenon
    <3>2. PICK x \in T : /\ T \ {x} \in SUBSET S /\ Cardinality(T \ {x}) = n
      BY <2>1, <3>1, SomeProperties
    <3>3. /\ g[T] = f[x] + g[T \ {x}] /\ h[T] = e[x] + h[T \ {x}] /\ k[T] = d[x] + k[T \ {x}]
      BY <1>1, <1>2, <1>3, <3>2 DEF AnyOrder
    <3>4. k[T \ {x}] = g[T \ {x}] + h[T \ {x}] - c * n
      BY <1>6, <3>2
    <3>5. g[T \ {x}] \in Int /\ h[T \ {x}] \in Int /\ f[x] \in Int /\ e[x] \in Int /\ c * n \in Int
      BY <1>1, <1>2, <3>2
    <3>6. d[x] = f[x] + e[x] - c
      OBVIOUS
    <3>7. c * (n + 1) = c * n + c
      OBVIOUS
    <3>. QED BY <3>3, <3>4, <3>5, <3>6, <3>7
  <2>. QED BY <2>1
<1>7. Nat \subseteq B
  <2>. HIDE DEF B
  <2>. QED BY <1>5, <1>6, Induction
<1>. QED BY <1>1, <1>2, <1>3, <1>7, FS_CardinalityType

\* No sum is greater than that of values which are nowhere smaller, and they are equal only
\* if all the values are.
LEMMA SumBelow ==
  ASSUME NEW S, IsFiniteSet(S), NEW e \in [S -> Nat], NEW f \in [S -> Nat],
         \A x \in S : e[x] <= f[x]
  PROVE  /\ SumFunction(e) <= SumFunction(f)
         /\ SumFunction(f) <= SumFunction(e) => \A x \in S : f[x] = e[x]
<1> DEFINE d == [x \in S |-> f[x] - e[x]]
<1>1. d \in [S -> Nat] /\ \A x \in S : f[x] = e[x] + d[x] - 0
  <2>1. \A x \in S : f[x] \in Nat /\ e[x] \in Nat
    OBVIOUS
  <2>2. \A x \in S : f[x] - e[x] \in Nat /\ f[x] = e[x] + (f[x] - e[x]) - 0
    BY <2>1
  <2>. QED BY <2>2
<1>. HIDE DEF d
<1>2. d \in [S -> Int] /\ e \in [S -> Int] /\ f \in [S -> Int]
  BY <1>1
<1>3. SumFunction(f) = SumFunction(e) + SumFunction(d) - 0 * Cardinality(S)
  BY <1>1, <1>2, SumLinear
<1>4. Cardinality(S) \in Nat /\ 0 * Cardinality(S) = 0
  BY FS_CardinalityType
<1>5. SumFunction(d) \in Nat /\ (\A x \in S : d[x] <= SumFunction(d))
  BY <1>1, SumNat
<1>6. SumFunction(e) \in Nat /\ SumFunction(f) \in Nat
  BY SumNat
<1>7. ASSUME SumFunction(f) <= SumFunction(e) PROVE \A x \in S : f[x] = e[x]
  <2>1. SumFunction(d) = 0
    BY <1>3, <1>4, <1>5, <1>6, <1>7
  <2>2. \A x \in S : d[x] = 0
    BY <1>1, <1>5, <2>1
  <2>3. \A x \in S : e[x] \in Nat /\ f[x] \in Nat
    OBVIOUS
  <2>. QED BY <1>1, <2>2, <2>3
<1>. QED BY <1>3, <1>4, <1>5, <1>6, <1>7

-----------------------------------------------------------------------------
(* Counting *)

\* The size of two finite sets that have no element in common.
LEMMA DisjointUnion ==
  ASSUME NEW S, IsFiniteSet(S), NEW T, IsFiniteSet(T), S \cap T = {}
  PROVE  /\ IsFiniteSet(S \cup T)
         /\ Cardinality(S \cup T) = Cardinality(S) + Cardinality(T)
<1>1. /\ IsFiniteSet(S \cup T)
      /\ Cardinality(S \cup T) = Cardinality(S) + Cardinality(T) - Cardinality(S \cap T)
  BY FS_Union
<1>2. Cardinality(S \cap T) = 0
  BY FS_EmptySet
<1>3. Cardinality(S) \in Nat /\ Cardinality(T) \in Nat
  BY FS_CardinalityType
<1>. QED BY <1>1, <1>2, <1>3

\* The elements of finite sets that have none in common.
LEMMA SumOfSets ==
  ASSUME NEW S, IsFiniteSet(S), NEW A, \A x \in S : IsFiniteSet(A[x]),
         \A x, y \in S : x # y => A[x] \cap A[y] = {}
  PROVE  SumFunction([x \in S |-> Cardinality(A[x])]) = Cardinality(UNION {A[x] : x \in S})
<1>. DEFINE f == [x \in S |-> Cardinality(A[x])]
            All(T) == UNION {A[x] : x \in T}
<1>1. f \in [S -> Int]
  BY FS_CardinalityType
<1>2. PICK g : /\ AreSums(g, f, S) /\ SumFunction(f) = g[S]
               /\ \A T \in SUBSET S : g[T] \in Int /\ AnyOrder(g, f, T)
  <2>. HIDE DEF f
  <2>. QED BY <1>1, SumsOf
<1>. DEFINE B == {n \in Nat : \A T \in SUBSET S :
                    Cardinality(T) = n => IsFiniteSet(All(T)) /\ g[T] = Cardinality(All(T))}
<1>3. 0 \in B
  <2>1. ASSUME NEW T \in SUBSET S, Cardinality(T) = 0
        PROVE  IsFiniteSet(All(T)) /\ g[T] = Cardinality(All(T))
    <3>1. T = {}
      BY <2>1, SomeProperties
    <3>2. All(T) = {}
      BY <3>1
    <3>3. g[T] = 0
      BY <1>2, <3>1 DEF AreSums
    <3>. QED BY <3>2, <3>3, FS_EmptySet
  <2>. QED BY <2>1
<1>4. ASSUME NEW n \in Nat, n \in B PROVE n + 1 \in B
  <2>1. ASSUME NEW T \in SUBSET S, Cardinality(T) = n + 1
        PROVE  IsFiniteSet(All(T)) /\ g[T] = Cardinality(All(T))
    <3>1. T # {}
      BY <2>1, NotEmpty, Zenon
    <3>2. PICK x \in T : /\ T \ {x} \in SUBSET S /\ Cardinality(T \ {x}) = n
      BY <2>1, <3>1, SomeProperties
    <3>3. g[T] = f[x] + g[T \ {x}]
      BY <1>2, <3>2 DEF AnyOrder
    <3>4. IsFiniteSet(All(T \ {x})) /\ g[T \ {x}] = Cardinality(All(T \ {x}))
      BY <1>4, <3>2
    <3>5. All(T) = A[x] \cup All(T \ {x}) /\ A[x] \cap All(T \ {x}) = {}
      OBVIOUS
    <3>6. f[x] = Cardinality(A[x]) /\ IsFiniteSet(A[x])
      OBVIOUS
    <3>. HIDE DEF All, f
    <3>7. /\ IsFiniteSet(A[x] \cup All(T \ {x}))
          /\ Cardinality(A[x] \cup All(T \ {x})) = Cardinality(A[x]) + Cardinality(All(T \ {x}))
      BY <3>4, <3>5, <3>6, DisjointUnion
    <3>8. Cardinality(A[x]) \in Nat /\ Cardinality(All(T \ {x})) \in Nat
      BY <3>4, <3>6, FS_CardinalityType
    <3>. QED BY <3>3, <3>4, <3>5, <3>6, <3>7, <3>8
  <2>. QED BY <2>1
<1>5. Nat \subseteq B
  <2>. HIDE DEF B
  <2>. QED BY <1>3, <1>4, Induction
<1>6. g[S] = Cardinality(All(S))
  BY <1>5, FS_CardinalityType
<1>. QED BY <1>2, <1>6

\* below orders Q: no element is below itself, of two one is below the other, and what is
\* below an element is below all that it is below.
LinearlyBelow(Q, below) ==
  /\ IsFiniteSet(Q) /\ below \in [Q -> SUBSET Q]
  /\ \A s \in Q : s \notin below[s]
  /\ \A s, t \in Q : s # t => s \in below[t] \/ t \in below[s]
  /\ \A s, t \in Q : s \in below[t] => below[s] \subseteq below[t]

\* The number of elements below one is its rank: 0, 1, and so on, each once.
AreRanks(Q, below) ==
  /\ Cardinality(Q) \in Nat
  /\ \A s \in Q : Cardinality(below[s]) \in 0..(Cardinality(Q) - 1)
  /\ \A s, t \in Q : Cardinality(below[s]) = Cardinality(below[t]) => s = t
  /\ \A k \in 0..(Cardinality(Q) - 1) : \E s \in Q : Cardinality(below[s]) = k

\* In a finite set that below orders, they are the ranks.
LEMMA Ranks ==
  ASSUME NEW Q, NEW below, LinearlyBelow(Q, below)
  PROVE  AreRanks(Q, below)
<1>0. /\ IsFiniteSet(Q) /\ below \in [Q -> SUBSET Q]
      /\ \A s \in Q : s \notin below[s]
      /\ \A s, t \in Q : s # t => s \in below[t] \/ t \in below[s]
      /\ \A s, t \in Q : s \in below[t] => below[s] \subseteq below[t]
  BY DEF LinearlyBelow
<1>. DEFINE N == 0..(Cardinality(Q) - 1)
            rank == [s \in Q |-> Cardinality(below[s])]
<1>1. Cardinality(Q) \in Nat
  BY <1>0, FS_CardinalityType
<1>2. ASSUME NEW s \in Q PROVE /\ IsFiniteSet(below[s]) /\ Cardinality(below[s]) \in Nat
                               /\ Cardinality(below[s]) < Cardinality(Q)
  <2>1. below[s] \in SUBSET Q /\ below[s] # Q
    BY <1>0
  <2>. QED BY <1>0, <1>1, <2>1, FS_Subset, FS_CardinalityType
<1>3. ASSUME NEW s \in Q, NEW t \in Q, s \in below[t]
      PROVE  Cardinality(below[s]) < Cardinality(below[t])
  <2>1. below[s] \in SUBSET below[t] /\ below[s] # below[t]
    BY <1>0, <1>3
  <2>2. IsFiniteSet(below[t]) /\ Cardinality(below[s]) \in Nat /\ Cardinality(below[t]) \in Nat
    BY <1>2
  <2>. QED BY <2>1, <2>2, FS_Subset
<1>4. ASSUME NEW s \in Q, NEW t \in Q, s # t
      PROVE  Cardinality(below[s]) # Cardinality(below[t])
  BY <1>0, <1>2, <1>3, <1>4
<1>5. \A s \in Q : Cardinality(below[s]) \in N
  BY <1>1, <1>2
<1>6. rank \in Injection(Q, N)
  <2>1. rank \in [Q -> N]
    BY <1>5
  <2>2. \A s, t \in Q : rank[s] = rank[t] => s = t
    BY <1>4
  <2>. HIDE DEF rank, N
  <2>. QED BY <2>1, <2>2 DEF Injection, IsInjective
<1>7. IsFiniteSet(N) /\ Cardinality(N) = Cardinality(Q)
  BY <1>1, FS_Interval
<1>8. rank \in Surjection(Q, N)
  <2>. HIDE DEF rank, N
  <2>. QED BY <1>0, <1>6, <1>7, FS_Injection
<1>9. \A k \in N : \E s \in Q : rank[s] = k
  <2>. HIDE DEF rank, N
  <2>. QED BY <1>8 DEF Surjection
<1>10. \A s \in Q : rank[s] = Cardinality(below[s])
  OBVIOUS
<1>. HIDE DEF rank
<1>. QED BY <1>1, <1>4, <1>5, <1>9, <1>10 DEF AreRanks

\* A finite set that f numbers without repetition.
LEMMA CountedBy ==
  ASSUME NEW T, NEW K, IsFiniteSet(K), NEW f \in [T -> K],
         \A s, t \in T : f[s] = f[t] => s = t,
         \A k \in K : \E s \in T : f[s] = k
  PROVE  IsFiniteSet(T) /\ Cardinality(T) = Cardinality(K)
<1>1. f \in Injection(T, K) /\ f \in Surjection(T, K)
  BY DEF Injection, IsInjective, Surjection
<1>. QED BY <1>1, FS_Injection

-----------------------------------------------------------------------------
(* Sums over the places of a sequence *)

\* The places of a sequence one element longer.
LEMMA Prefix ==
  ASSUME NEW n \in Nat
  PROVE  IsFiniteSet(1..n) /\ 1..n \subseteq 1..(n + 1) /\ (1..(n + 1)) \ {n + 1} = 1..n
<1>1. IsFiniteSet(1..n)
  BY FS_Interval
<1>. QED BY <1>1

\* One more element.
LEMMA SumAppend ==
  ASSUME NEW n \in Nat, NEW f \in [1..(n + 1) -> Int],
         NEW e \in [1..n -> Int], \A i \in 1..n : e[i] = f[i]
  PROVE  SumFunction(f) = SumFunction(e) + f[n + 1]
<1>0. IsFiniteSet(1..(n + 1)) /\ IsFiniteSet(1..n) /\ n + 1 \in 1..(n + 1)
  BY FS_Interval
<1>1. PICK g : /\ AreSums(g, f, 1..(n + 1)) /\ SumFunction(f) = g[1..(n + 1)]
               /\ \A T \in SUBSET (1..(n + 1)) : g[T] \in Int /\ AnyOrder(g, f, T)
  BY <1>0, SumsOf
<1>2. PICK h : AreSums(h, e, 1..n) /\ SumFunction(e) = h[1..n]
  BY Prefix, SumsOf
<1>3. g[1..n] = h[1..n]
  <2>. DEFINE S == 1..(n + 1)
              R == 1..n
  <2>1. IsFiniteSet(S) /\ IsFiniteSet(R) /\ AreSums(g, f, S) /\ AreSums(h, e, R)
    BY <1>0, <1>1, <1>2
  <2>2. R \in SUBSET (S \cap R) /\ \A y \in R : f[y] = e[y]
    OBVIOUS
  <2>. HIDE DEF S, R
  <2>3. \A T \in SUBSET (S \cap R) : (\A y \in T : f[y] = e[y]) => g[T] = h[T]
    BY <2>1, SumsAgree
  <2>4. g[R] = h[R]
    BY <2>2, <2>3
  <2>. QED BY <2>4 DEF R
<1>4. g[1..(n + 1)] = f[n + 1] + g[(1..(n + 1)) \ {n + 1}]
  BY <1>0, <1>1 DEF AnyOrder
<1>5. g[1..n] \in Int /\ f[n + 1] \in Int
  BY <1>0, <1>1, Prefix
<1>6. g[1..(n + 1)] = f[n + 1] + g[1..n]
  BY <1>4, Prefix
<1>. QED BY <1>1, <1>2, <1>3, <1>5, <1>6

\* The first element is taken off.
LEMMA SumTail ==
  ASSUME NEW n \in Nat, NEW f \in [1..(n + 1) -> Int],
         NEW e \in [1..n -> Int], \A i \in 1..n : e[i] = f[i + 1]
  PROVE  SumFunction(f) = f[1] + SumFunction(e)
<1>0. IsFiniteSet(1..(n + 1)) /\ IsFiniteSet(1..n)
  BY FS_Interval
<1>1. PICK g : /\ AreSums(g, f, 1..(n + 1)) /\ SumFunction(f) = g[1..(n + 1)]
               /\ \A T \in SUBSET (1..(n + 1)) : g[T] \in Int /\ AnyOrder(g, f, T)
  BY <1>0, SumsOf
<1>2. PICK h : /\ AreSums(h, e, 1..n) /\ SumFunction(e) = h[1..n]
               /\ \A T \in SUBSET (1..n) : h[T] \in Int /\ AnyOrder(h, e, T)
  BY <1>0, SumsOf
<1>3. g[{}] = 0 /\ h[{}] = 0
  BY <1>1, <1>2 DEF AreSums
<1>. DEFINE B == {k \in Nat : k <= n => g[1..(k + 1)] = f[1] + h[1..k]}
<1>4. 0 \in B
  <2>1. g[1..1] = f[1] + g[(1..1) \ {1}]
    <3>1. 1..1 \in SUBSET (1..(n + 1)) /\ 1 \in 1..1
      OBVIOUS
    <3>. QED BY <1>1, <3>1, Zenon DEF AnyOrder
  <2>2. (1..1) \ {1} = {} /\ 1..0 = {}
    OBVIOUS
  <2>3. g[1..1] = f[1] + h[1..0]
    BY <1>3, <2>1, <2>2, Zenon
  <2>4. 0 + 1 = 1
    OBVIOUS
  <2>. QED BY <2>3, <2>4
<1>5. ASSUME NEW k \in Nat, k \in B PROVE k + 1 \in B
  <2>1. SUFFICES ASSUME k + 1 <= n PROVE g[1..((k + 1) + 1)] = f[1] + h[1..(k + 1)]
    OBVIOUS
  <2>2. g[1..((k + 1) + 1)] = f[(k + 1) + 1] + g[1..(k + 1)]
    <3>1. 1..((k + 1) + 1) \in SUBSET (1..(n + 1)) /\ (k + 1) + 1 \in 1..((k + 1) + 1)
      BY <2>1
    <3>2. g[1..((k + 1) + 1)] = f[(k + 1) + 1] + g[(1..((k + 1) + 1)) \ {(k + 1) + 1}]
      BY <1>1, <3>1, Zenon DEF AnyOrder
    <3>3. k + 1 \in Nat
      OBVIOUS
    <3>. QED BY <3>2, <3>3, Prefix
  <2>3. h[1..(k + 1)] = e[k + 1] + h[1..k]
    <3>1. 1..(k + 1) \in SUBSET (1..n) /\ k + 1 \in 1..(k + 1)
      BY <2>1
    <3>2. h[1..(k + 1)] = e[k + 1] + h[(1..(k + 1)) \ {k + 1}]
      BY <1>2, <3>1, Zenon DEF AnyOrder
    <3>. QED BY <3>2, Prefix
  <2>4. g[1..(k + 1)] = f[1] + h[1..k]
    BY <1>5, <2>1
  <2>5. PICK a \in Int, b \in Int, c \in Int : a = f[1] /\ b = e[k + 1] /\ c = h[1..k]
    <3>1. 1..k \in SUBSET (1..n) /\ k + 1 \in 1..n /\ 1 \in 1..(n + 1)
      BY <2>1
    <3>2. h[1..k] \in Int
      BY <1>2, <3>1
    <3>. QED BY <3>1, <3>2
  <2>6. f[(k + 1) + 1] = b
    <3>1. k + 1 \in 1..n
      BY <2>1
    <3>. QED BY <2>5, <3>1
  <2>7. g[1..((k + 1) + 1)] = b + (a + c) /\ h[1..(k + 1)] = b + c
    BY <2>2, <2>3, <2>4, <2>5, <2>6, Zenon
  <2>8. b + (a + c) = a + (b + c)
    OBVIOUS
  <2>. QED BY <2>5, <2>7, <2>8, Zenon
<1>6. n \in B
  <2>. HIDE DEF B
  <2>1. Nat \subseteq B
    BY <1>4, <1>5, Induction
  <2>. QED BY <2>1
<1>. QED BY <1>1, <1>2, <1>6
=============================================================================
