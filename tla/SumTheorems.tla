----------------------------- MODULE SumTheorems -----------------------------
(***************************************************************************)
(* Sums of a function over a finite set, SumFunctionOnSet of Functions.    *)
(* The library's induction theorems take an operator as a parameter; the   *)
(* lemmas here take the set of those that have the property instead, and   *)
(* get the induction from a least element.                                 *)
(***************************************************************************)
EXTENDS Integers, FiniteSets, Functions, WellFoundedInduction,
        FiniteSetTheorems, TLAPS

-----------------------------------------------------------------------------
(* Induction                                                               *)

(* A set of natural numbers has a least one.                               *)
LEMMA LeastNatural ==
  ASSUME NEW T \in SUBSET Nat, T # {}
  PROVE  \E n \in T : \A m \in T : n <= m
<1>1. IsWellFoundedOn(OpToRel(<, Nat), Nat)
  BY NatLessThanWellFounded
<1>2. PICK n \in T : \A m \in T : <<m, n>> \notin OpToRel(<, Nat)
  BY <1>1, WFMin
<1>3. ASSUME NEW m \in T PROVE n <= m
  <2>1. <<m, n>> \notin OpToRel(<, Nat)
    BY <1>2
  <2> QED BY <2>1 DEF OpToRel
<1> QED BY <1>3

(* Induction over the natural numbers.                                     *)
LEMMA NatSetInduction ==
  ASSUME NEW T, 0 \in T, \A n \in Nat : n \in T => n + 1 \in T
  PROVE  Nat \subseteq T
<1>1. SUFFICES ASSUME Nat \ T # {} PROVE FALSE
  OBVIOUS
<1>2. PICK n \in Nat \ T : \A m \in Nat \ T : n <= m
  BY <1>1, LeastNatural
<1>3. n - 1 \in Nat /\ n - 1 \in T
  BY <1>2
<1> QED BY <1>2, <1>3

(* Induction over the subsets of a finite set, smaller ones first.         *)
LEMMA SmallerSetInduction ==
  ASSUME NEW S, IsFiniteSet(S), NEW T,
         \A s \in SUBSET S :
           (\A r \in SUBSET s : r # s => r \in T) => s \in T
  PROVE  SUBSET S \subseteq T
<1> DEFINE N == {n \in Nat : \A s \in SUBSET S : Cardinality(s) < n => s \in T}
<1>1. \A s \in SUBSET S : IsFiniteSet(s) /\ Cardinality(s) \in Nat
  BY FS_Subset, FS_CardinalityType
<1>2. 0 \in N
  BY <1>1
<1>3. ASSUME NEW n \in Nat, n \in N PROVE n + 1 \in N
  <2>1. SUFFICES ASSUME NEW s \in SUBSET S, Cardinality(s) < n + 1
                 PROVE  s \in T
    OBVIOUS
  <2>2. ASSUME NEW r \in SUBSET s, r # s PROVE r \in T
    <3>1. Cardinality(r) < Cardinality(s)
      <4>1. IsFiniteSet(s) /\ Cardinality(s) \in Nat
        BY <1>1
      <4>2. Cardinality(r) <= Cardinality(s) /\ Cardinality(r) # Cardinality(s)
        BY <2>2, <4>1, FS_Subset
      <4>3. r \in SUBSET S
        OBVIOUS
      <4>4. Cardinality(r) \in Nat
        BY <1>1, <4>3
      <4> QED BY <4>1, <4>2, <4>4
    <3>2. r \in SUBSET S
      OBVIOUS
    <3>3. Cardinality(r) < n
      BY <1>1, <2>1, <3>1, <3>2
    <3> QED BY <1>3, <3>2, <3>3
  <2> QED BY <2>2
<1>4. Nat \subseteq N
  <2> HIDE DEF N
  <2> QED BY <1>2, <1>3, NatSetInduction
<1>5. ASSUME NEW s \in SUBSET S PROVE s \in T
  <2>1. Cardinality(s) + 1 \in N /\ Cardinality(s) < Cardinality(s) + 1
    BY <1>1, <1>4
  <2> QED BY <2>1
<1> QED BY <1>5

(* Induction over a finite set, one element at a time.                     *)
LEMMA FiniteSetInduction ==
  ASSUME NEW S, IsFiniteSet(S), NEW T, {} \in T,
         \A s \in SUBSET S : s \in T => \A x \in S \ s : s \cup {x} \in T
  PROVE  S \in T
<1>1. ASSUME NEW s \in SUBSET S, \A r \in SUBSET s : r # s => r \in T
      PROVE  s \in T
  <2>1. CASE s = {}
    BY <2>1
  <2>2. CASE s # {}
    <3>1. PICK x \in s : TRUE
      BY <2>2
    <3>2. s \ {x} \in T /\ s \ {x} \in SUBSET S
      BY <1>1, <3>1
    <3>3. (s \ {x}) \cup {x} = s /\ x \in S \ (s \ {x})
      BY <3>1
    <3> QED BY <3>2, <3>3
  <2> QED BY <2>1, <2>2
<1>2. SUBSET S \subseteq T
  BY <1>1, SmallerSetInduction
<1> QED BY <1>2

-----------------------------------------------------------------------------
(* The definition of a sum                                                 *)

(* The element a sum takes next.                                           *)
Taken(s) == CHOOSE x \in s : TRUE

(* g is the sum of f over the subsets of S, as far as D goes.              *)
SumsOver(f, D, g) ==
  \A s \in D : g[s] = IF s = {} THEN 0 ELSE f[Taken(s)] + g[s \ {Taken(s)}]

(* g is the sum of f over every subset of S.                               *)
Sums(f, S, g) == SumsOver(f, SUBSET S, g)

(* The element taken is one of the set.                                    *)
LEMMA TakenIn ==
  ASSUME NEW s, s # {}
  PROVE  Taken(s) \in s
BY DEF Taken

(* There is a function that gives the sum over each subset.                *)
LEMMA SumsExist ==
  ASSUME NEW S, IsFiniteSet(S), NEW f, \A x \in S : f[x] \in Int
  PROVE  \E g \in [SUBSET S -> Int] : Sums(f, S, g)
<1> DEFINE D(n) == {s \in SUBSET S : Cardinality(s) <= n}
           N == {n \in Nat : \E g \in [D(n) -> Int] : SumsOver(f, D(n), g)}
<1>1. \A s \in SUBSET S : IsFiniteSet(s) /\ Cardinality(s) \in Nat
  BY FS_Subset, FS_CardinalityType
<1>2. 0 \in N
  <2>1. \A s \in D(0) : s = {}
    BY <1>1, FS_EmptySet
  <2>2. [s \in D(0) |-> 0] \in [D(0) -> Int]
    OBVIOUS
  <2>3. SumsOver(f, D(0), [s \in D(0) |-> 0])
    BY <2>1 DEF Sums, SumsOver
  <2> QED BY <2>2, <2>3
<1>3. ASSUME NEW n \in Nat, n \in N PROVE n + 1 \in N
  <2>1. PICK g \in [D(n) -> Int] : SumsOver(f, D(n), g)
    BY <1>3
  <2> DEFINE h == [s \in D(n + 1) |->
                     IF s = {} THEN 0 ELSE f[Taken(s)] + g[s \ {Taken(s)}]]
  <2>2. ASSUME NEW s \in D(n + 1), s # {}
        PROVE  Taken(s) \in S /\ s \ {Taken(s)} \in D(n) /\ s \ {Taken(s)} \in D(n + 1)
    <3>1. Taken(s) \in s
      BY <2>2, TakenIn
    <3>2. IsFiniteSet(s) /\ Cardinality(s) \in Nat
      BY <1>1
    <3>3. Cardinality(s \ {Taken(s)}) = Cardinality(s) - 1
      BY <3>1, <3>2, FS_RemoveElement
    <3>4. Cardinality(s) <= n + 1 /\ Cardinality(s) - 1 <= n
          /\ Cardinality(s) - 1 <= n + 1
      BY <3>2
    <3> QED BY <3>1, <3>3, <3>4
  <2>3. h \in [D(n + 1) -> Int]
    <3> SUFFICES ASSUME NEW s \in D(n + 1), s # {}
                 PROVE  f[Taken(s)] + g[s \ {Taken(s)}] \in Int
      OBVIOUS
    <3>1. f[Taken(s)] \in Int /\ g[s \ {Taken(s)}] \in Int
      <4> HIDE DEF D
      <4> QED BY <2>2
    <3> QED BY <3>1
  <2>4. \A s \in D(n) : s \in D(n + 1)
    BY <1>1
  <2>5. \A s \in D(n) : h[s] = g[s]
    <3> HIDE DEF D
    <3> QED BY <2>1, <2>4 DEF Sums, SumsOver
  <2>6. SumsOver(f, D(n + 1), h)
    <3> HIDE DEF D
    <3> QED BY <2>2, <2>5 DEF Sums, SumsOver
  <2> QED
    <3> HIDE DEF D, h
    <3> QED BY <2>3, <2>6
<1>4. Nat \subseteq N
  <2> HIDE DEF N
  <2> QED BY <1>2, <1>3, NatSetInduction
<1>5. Cardinality(S) \in N
  BY <1>1, <1>4
<1>6. D(Cardinality(S)) = SUBSET S
  <2>1. \A s \in SUBSET S : Cardinality(s) <= Cardinality(S)
    BY FS_Subset
  <2> QED BY <2>1
<1> QED
  <2> HIDE DEF D
  <2> QED BY <1>5, <1>6 DEF Sums

(* and only one.                                                           *)
LEMMA SumsAgree ==
  ASSUME NEW S, IsFiniteSet(S), NEW f, NEW g, NEW h, NEW T \in SUBSET S,
         Sums(f, S, g), Sums(f, T, h)
  PROVE  g[T] = h[T]
<1> DEFINE G == {s \in SUBSET T : g[s] = h[s]}
<1>1. IsFiniteSet(T)
  BY FS_Subset
<1>2. ASSUME NEW s \in SUBSET T, \A r \in SUBSET s : r # s => r \in G
      PROVE  s \in G
  <2>1. s \in SUBSET S
    OBVIOUS
  <2>2. CASE s = {}
    BY <2>1, <2>2 DEF Sums, SumsOver
  <2>3. CASE s # {}
    <3>1. s \ {Taken(s)} \in G
      BY <1>2, <2>3, TakenIn
    <3> QED BY <2>1, <2>3, <3>1 DEF Sums, SumsOver
  <2> QED BY <2>2, <2>3
<1>3. SUBSET T \subseteq G
  <2> HIDE DEF G
  <2> QED BY <1>1, <1>2, SmallerSetInduction
<1> QED BY <1>3

(* SumFunctionOnSet is that function.                                      *)
LEMMA SumUnfolds ==
  ASSUME NEW S, IsFiniteSet(S), NEW f, \A x \in S : f[x] \in Int
  PROVE  \E g \in [SUBSET S -> Int] :
           Sums(f, S, g) /\ SumFunctionOnSet(f, S) = g[S]
<1> DEFINE Step(g) == [s \in SUBSET S |->
                         IF s = {} THEN 0 ELSE f[Taken(s)] + g[s \ {Taken(s)}]]
           iter == CHOOSE g : g = Step(g)
<1>1. SumFunctionOnSet(f, S) = iter[S]
  BY DEF SumFunctionOnSet, FoldFunctionOnSet, MapThenFoldSet, Taken
<1>2. PICK g \in [SUBSET S -> Int] : Sums(f, S, g)
  BY SumsExist
<1>3. g = Step(g)
  BY <1>2 DEF Sums, SumsOver
<1>4. iter = Step(iter)
  BY <1>3
<1>5. Sums(f, S, iter)
  <2> HIDE DEF iter
  <2> QED BY <1>4 DEF Sums, SumsOver
<1>6. iter[S] = g[S]
  <2> HIDE DEF iter
  <2> QED BY <1>2, <1>5, SumsAgree
<1> QED
  <2> HIDE DEF iter
  <2> QED BY <1>1, <1>2, <1>6

-----------------------------------------------------------------------------
(* Sums                                                                    *)

(* The empty sum.                                                          *)
LEMMA SumEmpty ==
  ASSUME NEW f
  PROVE  SumFunctionOnSet(f, {}) = 0
<1>1. IsFiniteSet({})
  BY FS_EmptySet
<1>2. PICK g \in [SUBSET {} -> Int] :
        Sums(f, {}, g) /\ SumFunctionOnSet(f, {}) = g[{}]
  BY <1>1, SumUnfolds
<1> QED BY <1>2 DEF Sums, SumsOver

(* A sum of integers is an integer.                                        *)
LEMMA SumIsInt ==
  ASSUME NEW S, IsFiniteSet(S), NEW f, \A x \in S : f[x] \in Int
  PROVE  SumFunctionOnSet(f, S) \in Int
<1>1. PICK g \in [SUBSET S -> Int] :
        Sums(f, S, g) /\ SumFunctionOnSet(f, S) = g[S]
  BY SumUnfolds
<1>2. g[S] \in Int
  OBVIOUS
<1> QED BY <1>1, <1>2

(* The sum over any subset is that of the one function of the whole set.   *)
LEMMA SumOfSubset ==
  ASSUME NEW S, IsFiniteSet(S), NEW f, \A x \in S : f[x] \in Int,
         NEW g, Sums(f, S, g), NEW T \in SUBSET S
  PROVE  SumFunctionOnSet(f, T) = g[T]
<1>1. IsFiniteSet(T)
  BY FS_Subset
<1>2. PICK h \in [SUBSET T -> Int] :
        Sums(f, T, h) /\ SumFunctionOnSet(f, T) = h[T]
  BY <1>1, SumUnfolds
<1>3. Sums(f, T, h)
  BY <1>2
<1>4. g[T] = h[T]
  BY <1>3, SumsAgree
<1> QED BY <1>2, <1>4

(* One element is taken out of a sum, whichever it is.                     *)
LEMMA SumSplit ==
  ASSUME NEW S, IsFiniteSet(S), NEW f, \A x \in S : f[x] \in Int,
         NEW x, x \in S
  PROVE  /\ SumFunctionOnSet(f, S) = f[x] + SumFunctionOnSet(f, S \ {x})
         /\ SumFunctionOnSet(f, S \ {x}) \in Int
<1>1. PICK g \in [SUBSET S -> Int] :
        Sums(f, S, g) /\ SumFunctionOnSet(f, S) = g[S]
  BY SumUnfolds
<1> DEFINE T == {s \in SUBSET S : \A y \in s : g[s] = f[y] + g[s \ {y}]}
<1>2. ASSUME NEW s \in SUBSET S, \A r \in SUBSET s : r # s => r \in T,
             NEW y \in s
      PROVE  g[s] = f[y] + g[s \ {y}]
  <2> DEFINE c == Taken(s)
  <2>1. c \in s /\ g[s] = f[c] + g[s \ {c}]
    <3>1. s # {}
      OBVIOUS
    <3> QED BY <1>1, <3>1, TakenIn DEF Sums, SumsOver
  <2> HIDE DEF c
  <2>2. CASE y = c
    BY <2>1, <2>2
  <2>3. CASE y # c
    <3>1. s \ {c} \in T /\ s \ {y} \in T
      BY <1>2, <2>1
    <3>2. y \in s \ {c} /\ c \in s \ {y}
      BY <2>1, <2>3
    <3>3. /\ g[s \ {c}] = f[y] + g[(s \ {c}) \ {y}]
          /\ g[s \ {y}] = f[c] + g[(s \ {y}) \ {c}]
      BY <3>1, <3>2
    <3>4. (s \ {c}) \ {y} = (s \ {y}) \ {c}
      OBVIOUS
    <3>5. f[y] \in Int /\ f[c] \in Int /\ g[(s \ {c}) \ {y}] \in Int
      BY <2>1
    <3>6. PICK k \in Int : k = g[(s \ {c}) \ {y}]
      BY <3>5
    <3>7. g[s \ {c}] = f[y] + k /\ g[s \ {y}] = f[c] + k
      BY <3>3, <3>4, <3>6
    <3> QED BY <2>1, <3>5, <3>7
  <2> QED BY <2>2, <2>3
<1>3. SUBSET S \subseteq T
  <2>1. ASSUME NEW s \in SUBSET S, \A r \in SUBSET s : r # s => r \in T
        PROVE  s \in T
    BY <1>2, <2>1
  <2> HIDE DEF T
  <2> QED BY <2>1, SmallerSetInduction
<1>4. g[S] = f[x] + g[S \ {x}] /\ g[S \ {x}] \in Int
  BY <1>3
<1>5. SumFunctionOnSet(f, S \ {x}) = g[S \ {x}]
  BY <1>1, SumOfSubset
<1> QED BY <1>1, <1>4, <1>5

(* One element is added to a sum.                                          *)
LEMMA SumAdd ==
  ASSUME NEW S, IsFiniteSet(S), NEW f, \A y \in S : f[y] \in Int,
         NEW x, x \notin S, f[x] \in Int
  PROVE  SumFunctionOnSet(f, S \cup {x}) = f[x] + SumFunctionOnSet(f, S)
<1>1. IsFiniteSet(S \cup {x}) /\ (S \cup {x}) \ {x} = S
  BY FS_AddElement
<1>2. \A y \in S \cup {x} : f[y] \in Int
  OBVIOUS
<1>3. x \in S \cup {x}
  OBVIOUS
<1> QED BY <1>1, <1>2, <1>3, SumSplit

(* Functions that agree on a set have one sum over it.                     *)
LEMMA SumEqual ==
  ASSUME NEW S, IsFiniteSet(S), NEW f, NEW g,
         \A x \in S : f[x] \in Int /\ g[x] = f[x]
  PROVE  SumFunctionOnSet(g, S) = SumFunctionOnSet(f, S)
<1> DEFINE T == {s \in SUBSET S : SumFunctionOnSet(g, s) = SumFunctionOnSet(f, s)}
<1>1. {} \in T
  BY SumEmpty
<1>2. ASSUME NEW s \in SUBSET S, s \in T, NEW x \in S \ s
      PROVE  s \cup {x} \in T
  <2>1. IsFiniteSet(s)
    BY FS_Subset
  <2>2. /\ SumFunctionOnSet(f, s \cup {x}) = f[x] + SumFunctionOnSet(f, s)
        /\ SumFunctionOnSet(g, s \cup {x}) = g[x] + SumFunctionOnSet(g, s)
    BY <2>1, SumAdd
  <2> QED BY <1>2, <2>2
<1>3. S \in T
  <2> HIDE DEF T
  <2> QED BY <1>1, <1>2, FiniteSetInduction
<1> QED BY <1>3

(* A function that changes at one element changes its sum by as much.      *)
LEMMA SumChange ==
  ASSUME NEW S, IsFiniteSet(S), NEW f, NEW g, NEW x, x \in S,
         \A y \in S : f[y] \in Int /\ g[y] \in Int,
         \A y \in S : y # x => g[y] = f[y]
  PROVE  SumFunctionOnSet(g, S) = SumFunctionOnSet(f, S) + (g[x] - f[x])
<1>1. /\ SumFunctionOnSet(f, S) = f[x] + SumFunctionOnSet(f, S \ {x})
      /\ SumFunctionOnSet(f, S \ {x}) \in Int
  BY SumSplit
<1>2. SumFunctionOnSet(g, S) = g[x] + SumFunctionOnSet(g, S \ {x})
  BY SumSplit
<1>3. IsFiniteSet(S \ {x})
  BY FS_RemoveElement
<1>4. SumFunctionOnSet(g, S \ {x}) = SumFunctionOnSet(f, S \ {x})
  BY <1>3, SumEqual
<1>5. f[x] \in Int /\ g[x] \in Int
  OBVIOUS
<1> QED BY <1>1, <1>2, <1>4, <1>5

(* A sum of zeros.                                                         *)
LEMMA SumOfZeros ==
  ASSUME NEW S, IsFiniteSet(S), NEW f, \A x \in S : f[x] = 0
  PROVE  SumFunctionOnSet(f, S) = 0
<1> DEFINE T == {s \in SUBSET S : SumFunctionOnSet(f, s) = 0}
<1>1. {} \in T
  BY SumEmpty
<1>2. ASSUME NEW s \in SUBSET S, s \in T, NEW x \in S \ s
      PROVE  s \cup {x} \in T
  <2>1. IsFiniteSet(s)
    BY FS_Subset
  <2>2. SumFunctionOnSet(f, s \cup {x}) = f[x] + SumFunctionOnSet(f, s)
    BY <2>1, SumAdd
  <2> QED BY <1>2, <2>2
<1>3. S \in T
  <2> HIDE DEF T
  <2> QED BY <1>1, <1>2, FiniteSetInduction
<1> QED BY <1>3

(* A sum of natural numbers is at least each of them.                      *)
LEMMA SumOfNaturals ==
  ASSUME NEW S, IsFiniteSet(S), NEW f, \A x \in S : f[x] \in Nat
  PROVE  /\ SumFunctionOnSet(f, S) \in Nat
         /\ \A x \in S : f[x] <= SumFunctionOnSet(f, S)
<1> DEFINE T == {s \in SUBSET S : SumFunctionOnSet(f, s) \in Nat}
<1>1. {} \in T
  BY SumEmpty
<1>2. ASSUME NEW s \in SUBSET S, s \in T, NEW x \in S \ s
      PROVE  s \cup {x} \in T
  <2>1. IsFiniteSet(s)
    BY FS_Subset
  <2>2. SumFunctionOnSet(f, s \cup {x}) = f[x] + SumFunctionOnSet(f, s)
    BY <2>1, SumAdd
  <2> QED BY <1>2, <2>2
<1>3. \A s \in SUBSET S : s \in T
  <2>1. SUFFICES ASSUME NEW r \in SUBSET S PROVE r \in T
    OBVIOUS
  <2>2. IsFiniteSet(r)
    BY FS_Subset
  <2>3. \A s \in SUBSET r : s \in T => \A x \in r \ s : s \cup {x} \in T
    <3>1. \A s \in SUBSET r : s \in SUBSET S /\ r \ s \subseteq S \ s
      OBVIOUS
    <3> HIDE DEF T
    <3> QED BY <1>2, <3>1
  <2> HIDE DEF T
  <2> QED BY <1>1, <2>2, <2>3, FiniteSetInduction
<1>4. ASSUME NEW x \in S PROVE f[x] <= SumFunctionOnSet(f, S)
  <2>1. S \ {x} \in T
    BY <1>3
  <2>2. SumFunctionOnSet(f, S) = f[x] + SumFunctionOnSet(f, S \ {x})
    BY SumSplit
  <2> QED BY <2>1, <2>2
<1> QED BY <1>3, <1>4
=============================================================================
