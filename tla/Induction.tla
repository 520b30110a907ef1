------------------------------- MODULE Induction -------------------------------
(***************************************************************************)
(* Induction over data, in the form that first-order provers can use, and  *)
(* what it gives: the existence and the values of recursive functions and  *)
(* of sums over finite sets.                                               *)
(*                                                                         *)
(* A property to be proved by induction is given as the set of the values  *)
(* that have it, not as an operator: the lemmas have sets for parameters,  *)
(* and rest on the well-founded order of the natural numbers.              *)
(***************************************************************************)
EXTENDS Integers, FiniteSets, Functions, FiniteSetTheorems, WellFoundedInduction, TLAPS

-----------------------------------------------------------------------------
(* Natural numbers and finite sets                                         *)

\* A set with 0 and the successor of each of its numbers has every number.
LEMMA NatInductionSet ==
  ASSUME NEW S, 0 \in S, \A n \in Nat : n \in S => n + 1 \in S
  PROVE  Nat \subseteq S
<1> DEFINE T == Nat \ S
<1> SUFFICES ASSUME T # {} PROVE FALSE
  OBVIOUS
<1>1. PICK x \in T : \A y \in T : ~ (<<y, x>> \in OpToRel(<, Nat))
  <2>1. IsWellFoundedOn(OpToRel(<, Nat), Nat)
    BY NatLessThanWellFounded
  <2>2. T \subseteq Nat
    OBVIOUS
  <2> HIDE DEF T
  <2> QED
    BY <2>1, <2>2, WFMin
<1>2. \A y \in T : ~ (y < x)
  BY <1>1 DEF OpToRel
<1>3. x # 0 /\ x \in Nat
  OBVIOUS
<1>4. x - 1 \in Nat /\ x - 1 < x /\ (x - 1) + 1 = x
  BY <1>3
<1>5. x - 1 \in S
  BY <1>2, <1>4
<1> QED
  BY <1>4, <1>5

\* The subsets of a finite set, by size.
LEMMA Sizes ==
  ASSUME NEW S, IsFiniteSet(S), NEW s \in SUBSET S
  PROVE  /\ IsFiniteSet(s) /\ Cardinality(s) \in Nat /\ Cardinality(s) <= Cardinality(S)
         /\ (Cardinality(s) = 0 <=> s = {})
         /\ \A y \in s : /\ s \ {y} \in SUBSET S
                       /\ Cardinality(s \ {y}) \in Nat
                       /\ Cardinality(s) = Cardinality(s \ {y}) + 1
<1>1. IsFiniteSet(s) /\ Cardinality(s) <= Cardinality(S)
  BY FS_Subset
<1>2. Cardinality(s) \in Nat
  BY <1>1, FS_CardinalityType
<1>3. ASSUME NEW y \in s
      PROVE  Cardinality(s \ {y}) \in Nat /\ Cardinality(s) = Cardinality(s \ {y}) + 1
  <2>1. Cardinality(s \ {y}) = Cardinality(s) - 1
    BY <1>1, FS_RemoveElement
  <2>2. IsFiniteSet(s \ {y})
    BY <1>1, FS_RemoveElement
  <2>3. Cardinality(s \ {y}) \in Nat
    BY <2>2, FS_CardinalityType
  <2> QED
    BY <1>2, <2>1, <2>3
<1>4. s = {} => Cardinality(s) = 0
  BY FS_EmptySet
<1>5. ASSUME Cardinality(s) = 0 PROVE s = {}
  <2> SUFFICES ASSUME NEW y \in s PROVE FALSE
    OBVIOUS
  <2>1. Cardinality(s \ {y}) \in Nat /\ 0 = Cardinality(s \ {y}) + 1
    BY <1>3, <1>5
  <2> QED
    BY <2>1
<1>6. \A y \in s : s \ {y} \in SUBSET S
  OBVIOUS
<1> QED
  BY <1>1, <1>2, <1>3, <1>4, <1>5, <1>6

\* A property of finite sets that holds of a set when it holds of what is left
\* without any one element.
LEMMA RemovalInduction ==
  ASSUME NEW S, IsFiniteSet(S), NEW G, {} \in G,
         \A s \in SUBSET S : s # {} /\ (\A y \in s : s \ {y} \in G) => s \in G
  PROVE  SUBSET S \subseteq G
<1> DEFINE N == {n \in Nat : \A s \in SUBSET S : Cardinality(s) = n => s \in G}
<1>1. 0 \in N
  BY Sizes
<1>2. ASSUME NEW n \in Nat, n \in N PROVE n + 1 \in N
  <2> SUFFICES ASSUME NEW s \in SUBSET S, Cardinality(s) = n + 1 PROVE s \in G
    OBVIOUS
  <2>1. s # {}
    BY Sizes
  <2>2. ASSUME NEW y \in s PROVE s \ {y} \in G
    <3>1. s \ {y} \in SUBSET S /\ Cardinality(s \ {y}) \in Nat /\ n + 1 = Cardinality(s \ {y}) + 1
      BY Sizes
    <3>2. Cardinality(s \ {y}) = n
      BY <3>1
    <3> QED
      BY <1>2, <3>1, <3>2
  <2> QED
    BY <2>1, <2>2
<1>3. Nat \subseteq N
  <2> HIDE DEF N
  <2> QED
    BY <1>1, <1>2, NatInductionSet
<1>4. \A s \in SUBSET S : Cardinality(s) \in Nat
  BY Sizes
<1> QED
  BY <1>3, <1>4

\* A property of finite sets that an added element keeps.
LEMMA AdditionInduction ==
  ASSUME NEW S, IsFiniteSet(S), NEW G, {} \in G,
         \A s \in SUBSET S : \A x \in S \ s : s \in G => s \cup {x} \in G
  PROVE  S \in G
<1>1. ASSUME NEW s \in SUBSET S, s # {}, \A y \in s : s \ {y} \in G PROVE s \in G
  <2>1. PICK y \in s : TRUE
    BY <1>1
  <2>2. (s \ {y}) \cup {y} \in G /\ (s \ {y}) \cup {y} = s
    BY <1>1, <2>1
  <2> QED
    BY <2>2
<1> QED
  BY <1>1, RemovalInduction

-----------------------------------------------------------------------------
(* Recursive functions                                                     *)

\* f, on the numbers up to n, has the value b at 0 and goes from each value to
\* the next by F.
Steps(f, n, b, F) == f[0] = b /\ \A k \in 0 .. n - 1 : f[k + 1] = F[<<k, f[k]>>]

LEMMA StepsExist ==
  ASSUME NEW V, NEW b \in V, NEW F \in [Nat \X V -> V], NEW m \in Nat
  PROVE  \E f \in [0 .. m -> V] : Steps(f, m, b, F)
<1> DEFINE N == {n \in Nat : \E f \in [0 .. n -> V] : Steps(f, n, b, F)}
<1>1. 0 \in N
  <2> DEFINE f == [k \in 0 .. 0 |-> b]
  <2>1. f \in [0 .. 0 -> V] /\ Steps(f, 0, b, F)
    BY DEF Steps
  <2> QED
    BY <2>1
<1>2. ASSUME NEW n \in Nat, n \in N PROVE n + 1 \in N
  <2>1. PICK f \in [0 .. n -> V] : Steps(f, n, b, F)
    BY <1>2
  <2> DEFINE h == [k \in 0 .. n + 1 |-> IF k <= n THEN f[k] ELSE F[<<n, f[n]>>]]
  <2>2. f[n] \in V /\ F[<<n, f[n]>>] \in V
    BY <2>1
  <2>3. h \in [0 .. n + 1 -> V]
    BY <2>1, <2>2
  <2>4. \A k \in 0 .. n : h[k] = f[k]
    OBVIOUS
  <2>5. h[n + 1] = F[<<n, f[n]>>]
    OBVIOUS
  <2> HIDE DEF h
  <2>6. ASSUME NEW k \in 0 .. (n + 1) - 1
        PROVE  h[k + 1] = F[<<k, h[k]>>]
    <3>1. CASE k = n
      BY <2>4, <2>5, <3>1
    <3>2. CASE k # n
      <4>1. k \in 0 .. n - 1 /\ k \in 0 .. n /\ k + 1 \in 0 .. n
        BY <3>2
      <4> QED
        BY <2>1, <2>4, <4>1 DEF Steps
    <3> QED
      BY <3>1, <3>2
  <2>7. h[0] = b
    BY <2>1, <2>4 DEF Steps
  <2> QED
    BY <2>3, <2>6, <2>7 DEF Steps
<1>3. Nat \subseteq N
  <2> HIDE DEF N
  <2> QED
    BY <1>1, <1>2, NatInductionSet
<1> QED
  BY <1>3

\* Two of them agree as far as both go.
LEMMA StepsAgree ==
  ASSUME NEW b, NEW F, NEW n \in Nat, NEW m \in Nat, n <= m,
         NEW f, Steps(f, n, b, F), NEW h, Steps(h, m, b, F)
  PROVE  \A k \in 0 .. n : f[k] = h[k]
<1> DEFINE N == {k \in Nat : k <= n => f[k] = h[k]}
<1>1. 0 \in N
  BY DEF Steps
<1>2. ASSUME NEW k \in Nat, k \in N PROVE k + 1 \in N
  <2> SUFFICES ASSUME k + 1 <= n PROVE f[k + 1] = h[k + 1]
    OBVIOUS
  <2>1. k \in 0 .. n - 1 /\ k \in 0 .. m - 1 /\ f[k] = h[k]
    BY <1>2
  <2> QED
    BY <2>1 DEF Steps
<1>3. Nat \subseteq N
  <2> HIDE DEF N
  <2> QED
    BY <1>1, <1>2, NatInductionSet
<1> QED
  BY <1>3

\* A recursive function on all numbers.
Recursion(f, b, F) == f = [n \in Nat |-> IF n = 0 THEN b ELSE F[<<n - 1, f[n - 1]>>]]

LEMMA RecursionOfNat ==
  ASSUME NEW V, NEW b \in V, NEW F \in [Nat \X V -> V]
  PROVE  \E f \in [Nat -> V] : Recursion(f, b, F)
<1> DEFINE g(n) == CHOOSE f \in [0 .. n -> V] : Steps(f, n, b, F)
           h == [n \in Nat |-> g(n)[n]]
<1>1. \A n \in Nat : g(n) \in [0 .. n -> V] /\ Steps(g(n), n, b, F)
  BY StepsExist
<1> HIDE DEF g
<1>2. ASSUME NEW n \in Nat PROVE h[n] \in V /\ h[n + 1] = F[<<n, h[n]>>]
  <2>1. n <= n + 1 /\ n + 1 \in Nat /\ n \in 0 .. n /\ n \in 0 .. (n + 1) - 1
    OBVIOUS
  <2>2. g(n)[n] = g(n + 1)[n]
    BY <1>1, <2>1, StepsAgree
  <2>3. g(n + 1)[n + 1] = F[<<n, g(n + 1)[n]>>]
    BY <1>1, <2>1 DEF Steps
  <2>4. g(n)[n] \in V
    BY <1>1, <2>1
  <2> QED
    BY <2>1, <2>2, <2>3, <2>4
<1>3. h[0] = b
  BY <1>1 DEF Steps
<1>4. h = [n \in Nat |-> h[n]]
  OBVIOUS
<1> HIDE DEF h
<1>5. h \in [Nat -> V]
  BY <1>2, <1>4
<1>6. ASSUME NEW n \in Nat
      PROVE  h[n] = IF n = 0 THEN b ELSE F[<<n - 1, h[n - 1]>>]
  <2>1. CASE n # 0
    <3>1. n - 1 \in Nat /\ (n - 1) + 1 = n
      BY <2>1
    <3>2. h[(n - 1) + 1] = F[<<n - 1, h[n - 1]>>]
      BY <1>2, <3>1
    <3> QED
      BY <2>1, <3>1, <3>2
  <2> QED
    BY <1>3, <2>1
<1>7. Recursion(h, b, F)
  BY <1>4, <1>6 DEF Recursion
<1> QED
  BY <1>5, <1>7

-----------------------------------------------------------------------------
(* Sums over finite sets                                                   *)

\* The sum of f over the subsets of S, as it is defined: an element is taken,
\* then what is left.
Taken(s) == CHOOSE x \in s : TRUE
Sums(f, S, g) ==
  g = [s \in SUBSET S |-> IF s = {} THEN 0 ELSE f[Taken(s)] + g[s \ {Taken(s)}]]

LEMMA SumIsOne ==
  ASSUME NEW f, NEW S
  PROVE  SumFunctionOnSet(f, S) = (CHOOSE g : Sums(f, S, g))[S]
BY DEF SumFunctionOnSet, FoldFunctionOnSet, MapThenFoldSet, Sums, Taken

\* There is one.
LEMMA SumsExist ==
  ASSUME NEW f, NEW S, IsFiniteSet(S)
  PROVE  \E g : Sums(f, S, g)
<1> DEFINE Sub(n) == {s \in SUBSET S : Cardinality(s) <= n}
           Good(n, g) ==
             g = [s \in Sub(n) |->
                    IF s = {} THEN 0 ELSE f[Taken(s)] + g[s \ {Taken(s)}]]
           N == {n \in Nat : \E g : Good(n, g)}
<1>1. \A s \in SUBSET S : s # {} => Taken(s) \in s
  BY DEF Taken
<1>2. 0 \in N
  <2> DEFINE g == [s \in Sub(0) |-> 0]
  <2>1. \A s \in Sub(0) : s = {}
    <3>1. \A s \in SUBSET S : Cardinality(s) \in Nat /\ (Cardinality(s) = 0 => s = {})
      BY Sizes
    <3> QED
      BY <3>1
  <2>2. Good(0, g)
    BY <2>1
  <2> QED
    BY <2>2
<1>3. ASSUME NEW n \in Nat, n \in N PROVE n + 1 \in N
  <2>1. PICK g : Good(n, g)
    BY <1>3
  <2> DEFINE h == [s \in Sub(n + 1) |->
                     IF s = {} THEN 0 ELSE f[Taken(s)] + g[s \ {Taken(s)}]]
  <2>2. Sub(n) \subseteq Sub(n + 1)
    <3>1. \A s \in SUBSET S : Cardinality(s) \in Nat
      BY Sizes
    <3> QED
      BY <3>1
  <2>3. ASSUME NEW s \in Sub(n) PROVE h[s] = g[s]
    BY <2>1, <2>2
  <2>4. ASSUME NEW s \in Sub(n + 1), s # {} PROVE s \ {Taken(s)} \in Sub(n)
    <3>1. Taken(s) \in s
      BY <1>1, <2>4
    <3>2. /\ s \ {Taken(s)} \in SUBSET S /\ Cardinality(s \ {Taken(s)}) \in Nat
          /\ Cardinality(s) = Cardinality(s \ {Taken(s)}) + 1
      BY <3>1, Sizes
    <3> QED
      BY <3>2
  <2>5. Good(n + 1, h)
    <3>1. ASSUME NEW s \in Sub(n + 1)
          PROVE  h[s] = IF s = {} THEN 0 ELSE f[Taken(s)] + h[s \ {Taken(s)}]
      BY <2>3, <2>4
    <3>2. h = [s \in Sub(n + 1) |-> h[s]]
      OBVIOUS
    <3> HIDE DEF h
    <3> QED
      BY <3>1, <3>2
  <2> HIDE DEF Good, h
  <2> QED
    BY <2>5
<1>4. Nat \subseteq N
  <2> HIDE DEF N
  <2> QED
    BY <1>2, <1>3, NatInductionSet
<1>5. Cardinality(S) \in Nat
  BY FS_CardinalityType
<1>6. PICK g : Good(Cardinality(S), g)
  BY <1>4, <1>5
<1>7. Sub(Cardinality(S)) = SUBSET S
  BY Sizes
<1>8. Sums(f, S, g)
  BY <1>6, <1>7 DEF Sums
<1> QED
  BY <1>8

\* Two of them agree on what they have in common.
LEMMA SumsAgree ==
  ASSUME NEW f, NEW S, IsFiniteSet(S), NEW T, S \subseteq T,
         NEW g, Sums(f, S, g), NEW h, Sums(f, T, h)
  PROVE  \A s \in SUBSET S : g[s] = h[s]
<1> DEFINE G == {s \in SUBSET S : g[s] = h[s]}
<1>1. \A s \in SUBSET S : s # {} => Taken(s) \in s
  BY DEF Taken
<1>2. SUBSET S \subseteq SUBSET T
  OBVIOUS
<1>3. {} \in G
  BY <1>2 DEF Sums
<1>4. ASSUME NEW s \in SUBSET S, s # {}, \A y \in s : s \ {y} \in G PROVE s \in G
  BY <1>1, <1>2, <1>4 DEF Sums
<1>5. SUBSET S \subseteq G
  <2> HIDE DEF G
  <2> QED
    BY <1>3, <1>4, RemovalInduction
<1> QED
  BY <1>5

LEMMA SumIs ==
  ASSUME NEW f, NEW S, IsFiniteSet(S), NEW T \in SUBSET S, NEW g, Sums(f, S, g)
  PROVE  SumFunctionOnSet(f, T) = g[T]
<1> DEFINE h == CHOOSE h : Sums(f, T, h)
<1>1. IsFiniteSet(T)
  BY FS_Subset
<1>2. Sums(f, T, h)
  BY <1>1, SumsExist
<1>3. SumFunctionOnSet(f, T) = h[T]
  BY SumIsOne
<1> HIDE DEF h
<1>4. h[T] = g[T]
  BY <1>1, <1>2, SumsAgree
<1> QED
  BY <1>3, <1>4

LEMMA SumOfNone == ASSUME NEW f PROVE SumFunctionOnSet(f, {}) = 0
<1>1. IsFiniteSet({})
  BY FS_EmptySet
<1>2. PICK g : Sums(f, {}, g)
  BY <1>1, SumsExist
<1>3. SumFunctionOnSet(f, {}) = g[{}]
  BY <1>1, <1>2, SumIs
<1>4. g[{}] = 0
  BY <1>2 DEF Sums
<1> QED
  BY <1>3, <1>4

LEMMA SumOfFirst ==
  ASSUME NEW f, NEW S, IsFiniteSet(S), S # {}
  PROVE  /\ Taken(S) \in S
         /\ SumFunctionOnSet(f, S) = f[Taken(S)] + SumFunctionOnSet(f, S \ {Taken(S)})
<1>1. Taken(S) \in S
  BY DEF Taken
<1>2. PICK g : Sums(f, S, g)
  BY SumsExist
<1>3. g[S] = f[Taken(S)] + g[S \ {Taken(S)}]
  BY <1>2 DEF Sums
<1>4. SumFunctionOnSet(f, S) = g[S]
  BY <1>2, SumIs
<1>5. SumFunctionOnSet(f, S \ {Taken(S)}) = g[S \ {Taken(S)}]
  BY <1>2, SumIs
<1> QED
  BY <1>1, <1>3, <1>4, <1>5

LEMMA SumType ==
  ASSUME NEW D, NEW V, V = Nat \/ V = Int, NEW f \in [D -> V],
         NEW S \in SUBSET D, IsFiniteSet(S)
  PROVE  SumFunctionOnSet(f, S) \in V
<1> DEFINE G == {s \in SUBSET S : SumFunctionOnSet(f, s) \in V}
<1>1. {} \in G
  BY SumOfNone
<1>2. ASSUME NEW s \in SUBSET S, s # {}, \A y \in s : s \ {y} \in G PROVE s \in G
  <2>1. IsFiniteSet(s)
    BY Sizes
  <2>2. /\ Taken(s) \in s
        /\ SumFunctionOnSet(f, s) = f[Taken(s)] + SumFunctionOnSet(f, s \ {Taken(s)})
    BY <1>2, <2>1, SumOfFirst
  <2>3. f[Taken(s)] \in V /\ SumFunctionOnSet(f, s \ {Taken(s)}) \in V
    BY <1>2, <2>2
  <2> QED
    BY <2>2, <2>3
<1>3. SUBSET S \subseteq G
  <2> HIDE DEF G
  <2> QED
    BY <1>1, <1>2, RemovalInduction
<1> QED
  BY <1>3

\* Whichever element is taken, the sum is the same.
LEMMA SumOfAny ==
  ASSUME NEW D, NEW f \in [D -> Int], NEW S \in SUBSET D, IsFiniteSet(S), NEW x \in S
  PROVE  SumFunctionOnSet(f, S) = f[x] + SumFunctionOnSet(f, S \ {x})
<1> DEFINE Sum(s) == SumFunctionOnSet(f, s)
           G == {s \in SUBSET S : \A y \in s : Sum(s) = f[y] + Sum(s \ {y})}
<1>1. \A s \in SUBSET S : Sum(s) \in Int
  <2>1. \A s \in SUBSET S : IsFiniteSet(s)
    BY Sizes
  <2> QED
    BY <2>1, SumType
<1>2. {} \in G
  OBVIOUS
<1>3. ASSUME NEW s \in SUBSET S, s # {}, \A y \in s : s \ {y} \in G PROVE s \in G
  <2> SUFFICES ASSUME NEW y \in s PROVE Sum(s) = f[y] + Sum(s \ {y})
    OBVIOUS
  <2>1. PICK z \in s : Sum(s) = f[z] + Sum(s \ {z})
    <3>1. IsFiniteSet(s)
      BY Sizes
    <3>2. /\ Taken(s) \in s
          /\ SumFunctionOnSet(f, s) = f[Taken(s)] + SumFunctionOnSet(f, s \ {Taken(s)})
      BY <1>3, <3>1, SumOfFirst
    <3> QED
      BY <3>2
  <2>2. CASE y = z
    BY <2>1, <2>2
  <2>3. CASE y # z
    <3>1. Sum(s \ {z}) = f[y] + Sum((s \ {z}) \ {y})
      BY <1>3, <2>3
    <3>2. Sum(s \ {y}) = f[z] + Sum((s \ {z}) \ {y})
      <4>1. Sum(s \ {y}) = f[z] + Sum((s \ {y}) \ {z})
        BY <1>3, <2>3
      <4>2. (s \ {y}) \ {z} = (s \ {z}) \ {y}
        OBVIOUS
      <4> QED
        BY <4>1, <4>2
    <3>3. f[y] \in Int /\ f[z] \in Int /\ Sum((s \ {z}) \ {y}) \in Int
      BY <1>1
    <3> HIDE DEF Sum
    <3> QED
      BY <2>1, <3>1, <3>2, <3>3
  <2> QED
    BY <2>2, <2>3
<1>4. SUBSET S \subseteq G
  <2> HIDE DEF G
  <2> QED
    BY <1>2, <1>3, RemovalInduction
<1> QED
  BY <1>4

LEMMA SumOfMore ==
  ASSUME NEW D, NEW f \in [D -> Int], NEW S \in SUBSET D, IsFiniteSet(S), NEW x \in D \ S
  PROVE  SumFunctionOnSet(f, S \cup {x}) = SumFunctionOnSet(f, S) + f[x]
<1> DEFINE T == S \cup {x}
<1>1. IsFiniteSet(T) /\ T \in SUBSET D /\ x \in T
  BY FS_AddElement
<1>2. T \ {x} = S
  OBVIOUS
<1>3. SumFunctionOnSet(f, S) \in Int /\ f[x] \in Int
  BY SumType
<1> HIDE DEF T
<1>4. SumFunctionOnSet(f, T) = f[x] + SumFunctionOnSet(f, T \ {x})
  BY <1>1, SumOfAny
<1>5. SumFunctionOnSet(f, T \ {x}) = SumFunctionOnSet(f, S)
  BY <1>2, Zenon
<1>6. SumFunctionOnSet(f, T) = SumFunctionOnSet(f, S) + f[x]
  BY <1>3, <1>4, <1>5
<1> QED
  BY <1>6 DEF T

\* A larger set has no smaller sum, when nothing that it has more is negative.
LEMMA SumMonotonic ==
  ASSUME NEW D, NEW f \in [D -> Int], NEW T \in SUBSET D, IsFiniteSet(T), NEW S \in SUBSET T,
         \A x \in T \ S : f[x] >= 0
  PROVE  SumFunctionOnSet(f, S) <= SumFunctionOnSet(f, T)
<1> DEFINE Sum(s) == SumFunctionOnSet(f, s)
           G == {s \in SUBSET T : Sum(S) <= Sum(S \cup s)}
<1>1. \A s \in SUBSET T : IsFiniteSet(s)
  BY Sizes
<1>3. \A s \in SUBSET T : Sum(s) \in Int
  BY <1>1, SumType
<1>4. {} \in G
  <2>1. S \cup {} = S
    OBVIOUS
  <2> HIDE DEF Sum
  <2> QED
    BY <1>3, <2>1
<1>5. ASSUME NEW s \in SUBSET T, NEW x \in T \ s, s \in G PROVE s \cup {x} \in G
  <2>1. CASE x \in S
    <3>1. S \cup (s \cup {x}) = S \cup s
      BY <2>1
    <3> HIDE DEF Sum
    <3> QED
      BY <1>5, <3>1
  <2>2. CASE x \notin S
    <3>1. Sum((S \cup s) \cup {x}) = Sum(S \cup s) + f[x]
      <4>1. IsFiniteSet(S \cup s) /\ S \cup s \in SUBSET D /\ x \in D \ (S \cup s)
        BY <1>1, <2>2
      <4> QED
        BY <4>1, SumOfMore
    <3>2. Sum((S \cup s) \cup {x}) = Sum(S \cup (s \cup {x}))
      <4>1. (S \cup s) \cup {x} = S \cup (s \cup {x})
        OBVIOUS
      <4> QED
        BY <4>1, Zenon
    <3>3. Sum(S \cup s) \in Int /\ Sum(S) \in Int /\ Sum(S) <= Sum(S \cup s)
      BY <1>3, <1>5
    <3>4. f[x] \in Int /\ f[x] >= 0
      BY <2>2
    <3> HIDE DEF Sum
    <3>5. Sum(S) <= Sum(S \cup (s \cup {x}))
      BY <3>1, <3>2, <3>3, <3>4
    <3> QED
      BY <3>5
  <2> QED
    BY <2>1, <2>2
<1>6. T \in G
  <2> HIDE DEF G
  <2> QED
    BY <1>4, <1>5, AdditionInduction
<1>7. S \cup T = T
  OBVIOUS
<1> QED
  BY <1>6, <1>7
==========================================================================
