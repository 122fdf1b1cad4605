------------------------- MODULE OrderIntakeProofs --------------------------
(***************************************************************************)
(* Proofs about OrderIntake.  The first part is about sums over finite     *)
(* sets.  Its inductions are carried out without an induction theorem: of  *)
(* the numbers, or the subsets, for which a fact fails one is least, and   *)
(* the fact holds for it because it holds for the smaller ones.            *)
(***************************************************************************)
EXTENDS OrderIntake, FiniteSetTheorems, SequenceTheorems, TLAPS

LEMMA LeastNumber ==
  ASSUME NEW A, A \subseteq Nat, A # {}
  PROVE  \E n \in A : \A m \in A : n <= m
<1> DEFINE R == {ss \in Nat \X Nat : ss[1] < ss[2]}
<1>1. IsWellFoundedOn(R, Nat)
  BY NatLessThanWellFounded DEF OpToRel
<1>2. PICK n \in A : \A m \in A : <<m, n>> \notin R
  <2> HIDE DEF R
  <2> QED
    BY <1>1, WFMin, Zenon
<1>3. ASSUME NEW m \in A PROVE n <= m
  <2>1. n \in Nat /\ m \in Nat
    OBVIOUS
  <2>2. <<m, n>> \notin R
    BY <1>2
  <2> QED
    BY <2>1, <2>2
<1> QED
  BY <1>3

LEMMA LeastSubset ==
  ASSUME NEW S, IsFiniteSet(S), NEW Q, Q \subseteq SUBSET S, Q # {}
  PROVE  \E T \in Q : \A U \in Q : U \subseteq T => U = T
<1>1. IsWellFoundedOn(StrictSubsetOrdering(S), SUBSET S)
  BY FS_StrictSubsetOrderingWellFounded, FS_FiniteSubsetsOfFinite
<1>2. PICK T \in Q : \A U \in Q : ~(<<U, T>> \in StrictSubsetOrdering(S))
  BY <1>1, WFMin, Zenon
<1>3. ASSUME NEW U \in Q, U \subseteq T PROVE U = T
  BY <1>2, <1>3 DEF StrictSubsetOrdering
<1> QED
  BY <1>3

-----------------------------------------------------------------------------
(* The fold that adds up f.                                                *)

Picked(T) == CHOOSE x \in T : TRUE

NextSum(sum, f, T) == IF T = {} THEN 0 ELSE f[Picked(T)] + sum[T \ {Picked(T)}]

AddsUp(sum, f, S) == sum = [T \in SUBSET S |-> NextSum(sum, f, T)]

Sums(f, S) == CHOOSE sum : AddsUp(sum, f, S)

LEMMA SumIsFold ==
  ASSUME NEW f, NEW S
  PROVE  SumFunctionOnSet(f, S) = Sums(f, S)[S]
BY Zenon DEF SumFunctionOnSet, FoldFunctionOnSet, MapThenFoldSet,
             Sums, AddsUp, NextSum, Picked

LEMMA PickedSmaller ==
  ASSUME NEW S, IsFiniteSet(S), NEW T \in SUBSET S, T # {}
  PROVE  /\ Picked(T) \in T
         /\ T \ {Picked(T)} \in SUBSET S
         /\ Cardinality(T) \in Nat
         /\ Cardinality(T \ {Picked(T)}) = Cardinality(T) - 1
<1>1. Picked(T) \in T
  BY DEF Picked
<1> QED
  BY <1>1, FS_Subset, FS_CardinalityType, FS_RemoveElement

LEMMA SumsUnique ==
  ASSUME NEW S, IsFiniteSet(S), NEW f, NEW T \in SUBSET S,
         NEW g, \A U \in SUBSET T : g[U] = NextSum(g, f, U),
         NEW h, \A U \in SUBSET T : h[U] = NextSum(h, f, U)
  PROVE  g[T] = h[T]
<1> DEFINE Q == {U \in SUBSET T : g[U] # h[U]}
<1>1. CASE Q = {}
  BY <1>1
<1>2. CASE Q # {}
  <2>1. IsFiniteSet(T) /\ Q \subseteq SUBSET T
    BY FS_Subset
  <2>2. PICK U \in Q : \A V \in Q : V \subseteq U => V = U
    <3> HIDE DEF Q
    <3> QED
      BY <1>2, <2>1, LeastSubset
  <2>3. U # {}
    BY DEF NextSum
  <2>4. Picked(U) \in U /\ U \ {Picked(U)} \in SUBSET T
    BY <2>1, <2>3, PickedSmaller
  <2>5. U \ {Picked(U)} \notin Q
    BY <2>2, <2>4
  <2> QED
    BY <2>3, <2>4, <2>5 DEF NextSum
<1> QED
  BY <1>1, <1>2

\* A fold that adds up integers exists: if it does for the sets of n elements
\* one step of the fold makes it do for those of n + 1.
LEMMA SumsExist ==
  ASSUME NEW S, IsFiniteSet(S), NEW f, \A x \in S : f[x] \in Int
  PROVE  /\ Sums(f, S) \in [SUBSET S -> Int]
         /\ \A T \in SUBSET S : Sums(f, S)[T] = NextSum(Sums(f, S), f, T)
<1> DEFINE Good(n, sum) ==
             /\ sum \in [SUBSET S -> Int]
             /\ \A T \in SUBSET S : Cardinality(T) <= n => sum[T] = NextSum(sum, f, T)
           Bad == {n \in Nat : ~\E sum : Good(n, sum)}
<1>1. Good(0, [T \in SUBSET S |-> 0])
  <2> SUFFICES ASSUME NEW T \in SUBSET S, Cardinality(T) <= 0 PROVE T = {}
    BY DEF NextSum
  <2>1. IsFiniteSet(T) /\ Cardinality(T) \in Nat
    BY FS_Subset, FS_CardinalityType
  <2> QED
    BY <2>1, FS_EmptySet
<1>2. ASSUME NEW n \in Nat, NEW sum, Good(n, sum)
      PROVE  Good(n + 1, [T \in SUBSET S |-> NextSum(sum, f, T)])
  <2> DEFINE new == [T \in SUBSET S |-> NextSum(sum, f, T)]
  <2>1. ASSUME NEW T \in SUBSET S PROVE NextSum(sum, f, T) \in Int
    <3>1. ASSUME T # {} PROVE f[Picked(T)] \in Int /\ sum[T \ {Picked(T)}] \in Int
      BY <1>2, <3>1, PickedSmaller
    <3> QED
      BY <3>1 DEF NextSum
  <2>2. ASSUME NEW T \in SUBSET S, Cardinality(T) <= n + 1
        PROVE  new[T] = NextSum(new, f, T)
    <3>1. CASE T = {}
      BY <3>1 DEF NextSum
    <3>2. CASE T # {}
      <4> DEFINE U == T \ {Picked(T)}
      <4>1. U \in SUBSET S /\ Cardinality(U) <= n
        BY <2>2, <3>2, PickedSmaller
      <4>2. new[U] = sum[U]
        BY <1>2, <4>1
      <4> QED
        BY <3>2, <4>1, <4>2 DEF NextSum
    <3> QED
      BY <3>1, <3>2
  <2> QED
    BY <2>1, <2>2
<1>3. \A n \in Nat : \E sum : Good(n, sum)
  <2> HIDE DEF Good
  <2> SUFFICES ASSUME Bad # {} PROVE FALSE
    OBVIOUS
  <2>1. PICK n \in Bad : \A m \in Bad : n <= m
    BY LeastNumber
  <2>2. n \in Nat /\ n # 0
    BY <1>1, <2>1
  <2>3. n - 1 \in Nat /\ n - 1 \notin Bad
    BY <2>1, <2>2
  <2>4. \E sum : Good(n - 1, sum)
    BY <2>3
  <2>5. \E sum : Good(n - 1 + 1, sum)
    BY <1>2, <2>3, <2>4
  <2>6. \E sum : Good(n, sum)
    BY <2>2, <2>5
  <2> QED
    BY <2>6
<1>4. Cardinality(S) \in Nat
  BY FS_CardinalityType
<1>5. PICK sum : Good(Cardinality(S), sum)
  BY <1>3, <1>4
<1>6. sum \in [SUBSET S -> Int] /\ \A T \in SUBSET S : sum[T] = NextSum(sum, f, T)
  BY <1>5, FS_Subset
<1>7. AddsUp(sum, f, S)
  BY <1>6 DEF AddsUp
<1>8. AddsUp(Sums(f, S), f, S)
  BY <1>7 DEF Sums
<1>9. \A T \in SUBSET S : Sums(f, S)[T] = NextSum(Sums(f, S), f, T)
  BY <1>8 DEF AddsUp
<1>10. \A T \in SUBSET S : Sums(f, S)[T] = sum[T]
  <2> TAKE T \in SUBSET S
  <2>1. /\ \A U \in SUBSET T : sum[U] = NextSum(sum, f, U)
        /\ \A U \in SUBSET T : Sums(f, S)[U] = NextSum(Sums(f, S), f, U)
    BY <1>6, <1>9
  <2> QED
    BY <2>1, SumsUnique
<1>11. DOMAIN Sums(f, S) = SUBSET S /\ Sums(f, S) = [T \in SUBSET S |-> Sums(f, S)[T]]
  BY <1>8 DEF AddsUp
<1> QED
  BY <1>6, <1>9, <1>10, <1>11

-----------------------------------------------------------------------------
(* What is used of sums.                                                   *)

LEMMA SumLocal ==
  ASSUME NEW S, IsFiniteSet(S), NEW f, \A x \in S : f[x] \in Int, NEW T \in SUBSET S
  PROVE  SumFunctionOnSet(f, T) = Sums(f, S)[T]
<1>1. IsFiniteSet(T) /\ \A x \in T : f[x] \in Int
  BY FS_Subset
<1>2. \A U \in SUBSET T : Sums(f, T)[U] = NextSum(Sums(f, T), f, U)
  BY <1>1, SumsExist
<1>3. \A U \in SUBSET T : Sums(f, S)[U] = NextSum(Sums(f, S), f, U)
  BY SumsExist
<1>4. T \in SUBSET T
  OBVIOUS
<1>5. Sums(f, T)[T] = Sums(f, S)[T]
  BY <1>1, <1>2, <1>3, <1>4, SumsUnique
<1> QED
  BY <1>5, SumIsFold

LEMMA SumType ==
  ASSUME NEW S, IsFiniteSet(S), NEW f, \A x \in S : f[x] \in Int
  PROVE  SumFunctionOnSet(f, S) \in Int
BY SumsExist, SumIsFold

LEMMA SumEmpty ==
  ASSUME NEW f
  PROVE  SumFunctionOnSet(f, {}) = 0
<1>1. IsFiniteSet({})
  BY FS_EmptySet
<1>2. Sums(f, {})[{}] = NextSum(Sums(f, {}), f, {})
  BY <1>1, SumsExist
<1> QED
  BY <1>2, SumIsFold DEF NextSum

\* Whatever the fold picks, any element may be taken out first.
LEMMA SumRemove ==
  ASSUME NEW S, IsFiniteSet(S), NEW f, \A x \in S : f[x] \in Int, NEW y \in S
  PROVE  SumFunctionOnSet(f, S) = f[y] + SumFunctionOnSet(f, S \ {y})
<1> DEFINE sum == Sums(f, S)
           Q == {T \in SUBSET S : \E x \in T : sum[T] # f[x] + sum[T \ {x}]}
<1>1. /\ \A T \in SUBSET S : sum[T] \in Int
      /\ \A T \in SUBSET S : sum[T] = NextSum(sum, f, T)
  BY SumsExist
<1> HIDE DEF sum
<1>2. CASE Q = {}
  <2>1. sum[S] = f[y] + sum[S \ {y}]
    BY <1>2
  <2>2. S \in SUBSET S /\ S \ {y} \in SUBSET S
    OBVIOUS
  <2> QED
    BY <2>1, <2>2, SumLocal DEF sum
<1>3. CASE Q # {}
  <2>1. Q \subseteq SUBSET S
    OBVIOUS
  <2>2. PICK T \in Q : \A U \in Q : U \subseteq T => U = T
    <3> HIDE DEF Q
    <3> QED
      BY <1>3, <2>1, LeastSubset
  <2>3. PICK x \in T : sum[T] # f[x] + sum[T \ {x}]
    BY <2>2
  <2> DEFINE p == Picked(T)
  <2>4. p \in T /\ T \in SUBSET S
    BY <2>3 DEF Picked
  <2>5. sum[T] = f[p] + sum[T \ {p}]
    BY <1>1, <2>4 DEF NextSum
  <2> HIDE DEF p
  <2>6. p # x
    BY <2>3, <2>5
  <2>7. /\ T \ {p} \in SUBSET S /\ T \ {x} \in SUBSET S
        /\ T \ {p} \notin Q /\ T \ {x} \notin Q
        /\ x \in T \ {p} /\ p \in T \ {x}
    BY <2>2, <2>4, <2>6
  <2>8. /\ sum[T \ {p}] = f[x] + sum[(T \ {p}) \ {x}]
        /\ sum[T \ {x}] = f[p] + sum[(T \ {x}) \ {p}]
    BY <2>7
  <2>9. (T \ {p}) \ {x} = (T \ {x}) \ {p} /\ (T \ {x}) \ {p} \in SUBSET S
    BY <2>4
  <2>10. f[p] \in Int /\ f[x] \in Int /\ sum[(T \ {x}) \ {p}] \in Int
    BY <1>1, <2>4, <2>9
  <2>11. f[x] + sum[T \ {x}] = f[p] + sum[T \ {p}]
    <3> DEFINE rest == sum[(T \ {x}) \ {p}]
    <3>1. sum[T \ {p}] = f[x] + rest /\ sum[T \ {x}] = f[p] + rest /\ rest \in Int
      BY <2>8, <2>9, <2>10
    <3> HIDE DEF rest
    <3> QED
      BY <2>10, <3>1
  <2> QED
    BY <2>3, <2>5, <2>11
<1> QED
  BY <1>2, <1>3

LEMMA SumEqual ==
  ASSUME NEW S, IsFiniteSet(S), NEW f, \A x \in S : f[x] \in Int,
         NEW g, \A x \in S : g[x] = f[x]
  PROVE  SumFunctionOnSet(g, S) = SumFunctionOnSet(f, S)
<1> DEFINE Q == {T \in SUBSET S : SumFunctionOnSet(g, T) # SumFunctionOnSet(f, T)}
<1>1. CASE Q = {}
  BY <1>1
<1>2. CASE Q # {}
  <2>1. Q \subseteq SUBSET S
    OBVIOUS
  <2>2. PICK T \in Q : \A U \in Q : U \subseteq T => U = T
    <3> HIDE DEF Q
    <3> QED
      BY <1>2, <2>1, LeastSubset
  <2>3. PICK x \in T : TRUE
    BY <2>2, SumEmpty
  <2>4. /\ T \in SUBSET S /\ IsFiniteSet(T)
        /\ \A z \in T : f[z] \in Int
        /\ \A z \in T : g[z] \in Int
    BY <2>1, <2>2, FS_Subset
  <2>5. /\ SumFunctionOnSet(f, T) = f[x] + SumFunctionOnSet(f, T \ {x})
        /\ SumFunctionOnSet(g, T) = g[x] + SumFunctionOnSet(g, T \ {x})
    BY <2>4, SumRemove
  <2>6. T \ {x} \in SUBSET S /\ T \ {x} \notin Q
    BY <2>2, <2>4
  <2> QED
    BY <2>2, <2>4, <2>5, <2>6
<1> QED
  BY <1>1, <1>2

\* A sum changes by what one summand changes.
LEMMA SumChange ==
  ASSUME NEW S, IsFiniteSet(S), NEW f, \A x \in S : f[x] \in Int,
         NEW g, \A x \in S : g[x] \in Int,
         NEW y \in S, \A x \in S \ {y} : g[x] = f[x]
  PROVE  SumFunctionOnSet(g, S) = SumFunctionOnSet(f, S) - f[y] + g[y]
<1>1. IsFiniteSet(S \ {y}) /\ \A x \in S \ {y} : f[x] \in Int
  BY FS_Subset
<1>2. /\ SumFunctionOnSet(f, S) = f[y] + SumFunctionOnSet(f, S \ {y})
      /\ SumFunctionOnSet(g, S) = g[y] + SumFunctionOnSet(g, S \ {y})
  BY SumRemove
<1>3. SumFunctionOnSet(g, S \ {y}) = SumFunctionOnSet(f, S \ {y})
  BY <1>1, SumEqual
<1>4. SumFunctionOnSet(f, S \ {y}) \in Int
  BY <1>1, SumType
<1> QED
  BY <1>2, <1>3, <1>4

\* A sum of naturals that are at most b.
LEMMA SumBounds ==
  ASSUME NEW S, IsFiniteSet(S), NEW b \in Nat, NEW f, \A x \in S : f[x] \in 0..b
  PROVE  SumFunctionOnSet(f, S) \in 0..(Cardinality(S) * b)
<1> DEFINE Q == {T \in SUBSET S : SumFunctionOnSet(f, T) \notin 0..(Cardinality(T) * b)}
<1>1. CASE Q = {}
  BY <1>1
<1>2. CASE Q # {}
  <2>1. Q \subseteq SUBSET S
    OBVIOUS
  <2>2. PICK T \in Q : \A U \in Q : U \subseteq T => U = T
    <3> HIDE DEF Q
    <3> QED
      BY <1>2, <2>1, LeastSubset
  <2>3. PICK x \in T : TRUE
    <3>1. SumFunctionOnSet(f, {}) = 0 /\ Cardinality({}) = 0 /\ 0 * b = 0
      BY SumEmpty, FS_EmptySet
    <3>2. {} \notin Q
      BY <3>1
    <3> QED
      BY <2>2, <3>2
  <2>4. /\ T \in SUBSET S /\ IsFiniteSet(T) /\ \A z \in T : f[z] \in Int
        /\ f[x] \in 0..b
    BY <2>1, <2>2, FS_Subset
  <2>5. SumFunctionOnSet(f, T) = f[x] + SumFunctionOnSet(f, T \ {x})
    BY <2>4, SumRemove
  <2>6. T \ {x} \in SUBSET S /\ T \ {x} \notin Q
    BY <2>2, <2>4
  <2>7. SumFunctionOnSet(f, T \ {x}) \in 0..(Cardinality(T \ {x}) * b)
    BY <2>6
  <2> DEFINE c == Cardinality(T)
  <2>8. c \in Nat /\ Cardinality(T \ {x}) = c - 1
    BY <2>3, <2>4, FS_CardinalityType, FS_RemoveElement
  <2> HIDE DEF c
  <2>9. (c - 1) * b = c * b - b /\ c * b \in Int
    BY <2>8
  <2>10. SumFunctionOnSet(f, T) \in 0..(c * b)
    BY <2>4, <2>5, <2>7, <2>8, <2>9
  <2> QED
    BY <2>2, <2>10 DEF c
<1> QED
  BY <1>1, <1>2

LEMMA SumOfPart ==
  ASSUME NEW S, IsFiniteSet(S), NEW f, \A x \in S : f[x] \in Nat, NEW P \in SUBSET S
  PROVE  SumFunctionOnSet(f, P) <= SumFunctionOnSet(f, S)
<1> DEFINE Q == {T \in SUBSET S : ~(SumFunctionOnSet(f, T \cap P) <= SumFunctionOnSet(f, T))}
<1>1. CASE Q = {}
  <2>1. S \cap P = P /\ S \in SUBSET S
    OBVIOUS
  <2> QED
    BY <1>1, <2>1
<1>2. CASE Q # {}
  <2>1. Q \subseteq SUBSET S
    OBVIOUS
  <2>2. PICK T \in Q : \A U \in Q : U \subseteq T => U = T
    <3> HIDE DEF Q
    <3> QED
      BY <1>2, <2>1, LeastSubset
  <2>3. PICK x \in T : TRUE
    <3>1. SumFunctionOnSet(f, {}) = 0 /\ {} \cap P = {}
      BY SumEmpty
    <3>2. {} \notin Q
      BY <3>1
    <3> QED
      BY <2>2, <3>2
  <2> DEFINE U == T \ {x}
  <2>4. /\ IsFiniteSet(T) /\ IsFiniteSet(U) /\ IsFiniteSet(T \cap P) /\ IsFiniteSet(U \cap P)
        /\ \A z \in T : f[z] \in Int
    BY <2>1, <2>2, FS_Subset
  <2>5. /\ SumFunctionOnSet(f, T) = f[x] + SumFunctionOnSet(f, U)
        /\ SumFunctionOnSet(f, U) \in Int /\ SumFunctionOnSet(f, U \cap P) \in Int
    BY <2>4, SumRemove, SumType
  <2>6. SumFunctionOnSet(f, U \cap P) <= SumFunctionOnSet(f, U)
    BY <2>1, <2>2, <2>3
  <2>7. f[x] \in Nat
    BY <2>1, <2>2
  <2>8. CASE x \in P
    <3>1. x \in T \cap P /\ (T \cap P) \ {x} = U \cap P
      BY <2>8
    <3>2. SumFunctionOnSet(f, T \cap P) = f[x] + SumFunctionOnSet(f, U \cap P)
      BY <2>4, <3>1, SumRemove
    <3> QED
      BY <2>2, <2>5, <2>6, <2>7, <3>2
  <2>9. CASE x \notin P
    <3>1. T \cap P = U \cap P
      BY <2>9
    <3>2. SumFunctionOnSet(f, T \cap P) <= SumFunctionOnSet(f, T)
      BY <2>5, <2>6, <2>7, <3>1
    <3> QED
      BY <2>2, <3>2
  <2> QED
    BY <2>8, <2>9
<1> QED
  BY <1>1, <1>2

\* A finite set of integers has a largest element.
LEMMA LargestExists ==
  ASSUME NEW S, IsFiniteSet(S), S # {}, \A x \in S : x \in Int
  PROVE  Max(S) \in S /\ \A x \in S : x <= Max(S)
<1> DEFINE Q == {T \in SUBSET S : T # {} /\ ~\E x \in T : \A y \in T : x >= y}
<1>1. CASE Q = {}
  <2>1. \E x \in S : \A y \in S : x >= y
    BY <1>1
  <2> QED
    BY <2>1 DEF Max
<1>2. CASE Q # {}
  <2>1. Q \subseteq SUBSET S
    OBVIOUS
  <2>2. PICK T \in Q : \A U \in Q : U \subseteq T => U = T
    <3> HIDE DEF Q
    <3> QED
      BY <1>2, <2>1, LeastSubset
  <2>3. PICK z \in T : TRUE
    BY <2>2
  <2>4. T \ {z} # {}
    BY <2>2, <2>3
  <2>5. T \ {z} \notin Q /\ T \ {z} \in SUBSET S
    BY <2>2, <2>3
  <2>6. PICK x \in T \ {z} : \A y \in T \ {z} : x >= y
    BY <2>4, <2>5
  <2>7. \A y \in T : y \in Int
    BY <2>1, <2>2
  <2>8. CASE x >= z
    BY <2>2, <2>6, <2>8
  <2>9. CASE z >= x
    <3>1. \A y \in T : z >= y
      BY <2>6, <2>7, <2>9
    <3> QED
      BY <2>2, <3>1
  <2> QED
    BY <2>6, <2>7, <2>8, <2>9
<1> QED
  BY <1>1, <1>2

-----------------------------------------------------------------------------
(* What the lines of a request take.                                       *)

LEMMA LinesType ==
  ASSUME NEW r \in Requests
  PROVE  /\ Len(Lines[r]) \in Nat
         /\ \A k \in 1..Len(Lines[r]) :
               Lines[r][k].ing \in Ingredients /\ Lines[r][k].need \in Nat
<1>1. Lines[r] \in Seq([ing: Ingredients, need: Nat \ {0}])
  BY OrderIntakeAssumption
<1>2. /\ Len(Lines[r]) \in Nat
      /\ \A k \in 1..Len(Lines[r]) : Lines[r][k] \in [ing: Ingredients, need: Nat \ {0}]
  BY <1>1, LenProperties, ElementOfSeq
<1> QED
  BY <1>2

LEMMA TakenNothing == \A r, i : Taken(r, 0, i) = 0
<1> TAKE r, i
<1>1. {k \in 1..0 : Lines[r][k].ing = i} = {}
  OBVIOUS
<1> QED
  BY <1>1, SumEmpty DEF Taken

LEMMA TakenType ==
  ASSUME NEW r \in Requests, NEW i, NEW n \in 0..Len(Lines[r])
  PROVE  Taken(r, n, i) \in Nat /\ Taken(r, n, i) <= Need(r, i)
<1> DEFINE all == 1..Len(Lines[r])
           part(m) == {k \in 1..m : Lines[r][k].ing = i}
<1>1. Len(Lines[r]) \in Nat /\ \A k \in all : Needs(r)[k] \in Nat
  BY LinesType DEF Needs
<1>2. IsFiniteSet(all)
  BY <1>1, FS_Interval
<1>3. part(n) \subseteq part(Len(Lines[r])) /\ part(Len(Lines[r])) \subseteq all
  BY <1>1
<1>4. /\ IsFiniteSet(part(Len(Lines[r]))) /\ IsFiniteSet(part(n))
      /\ \A k \in part(Len(Lines[r])) : Needs(r)[k] \in Nat
      /\ \A k \in part(n) : Needs(r)[k] \in Nat
  BY <1>1, <1>2, <1>3, FS_Subset
<1> HIDE DEF part
<1>5. SumFunctionOnSet(Needs(r), part(n)) <= SumFunctionOnSet(Needs(r), part(Len(Lines[r])))
  BY <1>3, <1>4, SumOfPart
<1>6. SumFunctionOnSet(Needs(r), {}) = 0
  BY SumEmpty
<1>7. SumFunctionOnSet(Needs(r), {}) <= SumFunctionOnSet(Needs(r), part(n))
  BY <1>4, SumOfPart
<1>8. SumFunctionOnSet(Needs(r), part(n)) \in Int
  BY <1>4, SumType
<1> QED
  BY <1>5, <1>6, <1>7, <1>8 DEF Taken, Need, part

LEMMA TakenNext ==
  ASSUME NEW r \in Requests, NEW i, NEW n \in 1..Len(Lines[r])
  PROVE  Taken(r, n, i) =
           IF Lines[r][n].ing = i THEN Taken(r, n - 1, i) + Lines[r][n].need
                                  ELSE Taken(r, n - 1, i)
<1> DEFINE part(m) == {k \in 1..m : Lines[r][k].ing = i}
<1>1. CASE Lines[r][n].ing # i
  <2>1. part(n) = part(n - 1)
    BY <1>1, LinesType
  <2> HIDE DEF part
  <2> QED
    BY <1>1, <2>1 DEF Taken, part
<1>2. CASE Lines[r][n].ing = i
  <2>1. n \in part(n) /\ part(n) \ {n} = part(n - 1) /\ part(n) \subseteq 1..n
    BY <1>2, LinesType
  <2>2. n \in Nat /\ \A k \in 1..n : k \in 1..Len(Lines[r])
    BY LinesType
  <2>3. IsFiniteSet(part(n)) /\ \A k \in part(n) : Needs(r)[k] \in Int
    <3>1. IsFiniteSet(1..n)
      BY <2>2, FS_Interval
    <3> QED
      BY <2>1, <2>2, <3>1, FS_Subset, LinesType DEF Needs
  <2>4. Needs(r)[n] = Lines[r][n].need /\ Lines[r][n].need \in Nat
    BY LinesType DEF Needs
  <2>5. SumFunctionOnSet(Needs(r), part(n - 1)) \in Int
    <3>1. IsFiniteSet(part(n) \ {n}) /\ \A k \in part(n) \ {n} : Needs(r)[k] \in Int
      BY <2>3, FS_Subset
    <3> HIDE DEF part
    <3> QED
      BY <2>1, <3>1, SumType
  <2> HIDE DEF part
  <2>6. SumFunctionOnSet(Needs(r), part(n))
          = Needs(r)[n] + SumFunctionOnSet(Needs(r), part(n) \ {n})
    BY <2>1, <2>3, SumRemove
  <2>7. SumFunctionOnSet(Needs(r), part(n))
          = SumFunctionOnSet(Needs(r), part(n - 1)) + Lines[r][n].need
    <3> HIDE DEF Needs
    <3>1. part(n) \ {n} = part(n - 1)
      BY <2>1
    <3>2. SumFunctionOnSet(Needs(r), part(n) \ {n}) = SumFunctionOnSet(Needs(r), part(n - 1))
      BY <3>1
    <3> QED
      BY <2>4, <2>5, <2>6, <3>2
  <2> QED
    BY <1>2, <2>7 DEF Taken, part
<1> QED
  BY <1>1, <1>2

LEMMA NeedType ==
  ASSUME NEW r \in Requests, NEW i
  PROVE  Need(r, i) \in Nat
BY LinesType, TakenType DEF Need

LEMMA MaxNeedIsMax ==
  ASSUME NEW i
  PROVE  MaxNeed(i) \in Nat /\ \A r \in Requests : Need(r, i) <= MaxNeed(i)
<1> DEFINE needs == {Need(r, i) : r \in Requests}
           S == {0} \cup needs
           f == [r \in Requests |-> Need(r, i)]
<1>1. f \in Surjection(Requests, needs)
  BY DEF Surjection
<1>2. IsFiniteSet(needs)
  <2> HIDE DEF f, needs
  <2> QED
    BY <1>1, OrderIntakeAssumption, FS_Surjection
<1>3. IsFiniteSet(S) /\ 0 \in S
  <2>1. S = needs \cup {0}
    OBVIOUS
  <2> QED
    BY <1>2, <2>1, FS_AddElement
<1>4. \A x \in S : x \in Nat
  BY NeedType
<1>5. Max(S) \in S /\ \A x \in S : x <= Max(S)
  <2>1. \A x \in S : x \in Int
    BY <1>4
  <2> HIDE DEF S
  <2> QED
    BY <1>3, <2>1, LargestExists
<1> QED
  BY <1>4, <1>5 DEF MaxNeed

-----------------------------------------------------------------------------
(* Types.  An order placed is one that was sent and is no longer at work.  *)

Active == {"check", "take", "loyalty", "insert", "commit"}

InFlight(r) == {t \in Tasks : task[t].req = r /\ task[t].pc \notin {"idle", "reply"}}

Locals == [pc: Steps, req: Requests \cup {NoRequest}, line: Nat \ {0}]

\* Where a handler can stand.
Fits(local) ==
  /\ local \in Locals
  /\ local.pc # "idle" => local.req \in Requests
  /\ local.pc \in {"idle", "lookup", "reply"} => local.line = 1
  /\ local.pc \in {"check", "take"} => local.line <= Len(Lines[local.req])
  /\ local.pc \in {"loyalty", "insert", "commit"} => local.line = Len(Lines[local.req]) + 1

Placement == \A t \in Tasks : Fits(task[t])

SentEnough == \A r \in Requests : placed[r] + Cardinality(InFlight(r)) <= sent[r]

TInv == TypeOK /\ Placement /\ SentEnough

LEMMA InFlightSize ==
  ASSUME NEW r
  PROVE  /\ IsFiniteSet(InFlight(r)) /\ Cardinality(InFlight(r)) \in Nat
         /\ IsFiniteSet(InFlight(r)') /\ Cardinality(InFlight(r)') \in Nat
BY OrderIntakeAssumption, FS_Subset, FS_CardinalityType DEF InFlight

LEMMA InitTInv == Init => TInv
<1> SUFFICES ASSUME Init PROVE TInv
  OBVIOUS
<1>1. TypeOK
  BY OrderIntakeAssumption DEF Init, TypeOK, Idle, Steps
<1>2. Placement
  BY DEF Init, Placement, Fits, Locals, Steps, Idle
<1>3. ASSUME NEW r \in Requests PROVE placed[r] + Cardinality(InFlight(r)) <= sent[r]
  <2>1. InFlight(r) = {}
    BY DEF Init, InFlight, Idle
  <2> QED
    BY <2>1, FS_EmptySet DEF Init
<1> QED
  BY <1>1, <1>2, <1>3 DEF TInv, SentEnough

\* One handler moves.
Moves(t) ==
  /\ task' = [task EXCEPT ![t] = task'[t]]
  /\ Fits(task'[t])

\* The step of a handler that neither arrives nor commits.
Onward(t) ==
  \/ Lookup(t) \/ CheckStock(t) \/ TakeStock(t) \/ ApplyLoyalty(t) \/ InsertOrder(t)
  \/ Reply(t) \/ Fail(t) \/ DeadlockVictim(t)

LEMMA IdleFits == Fits(Idle)
BY DEF Fits, Locals, Idle, Steps

LEMMA EndsFit ==
  ASSUME NEW r \in Requests, NEW pc \in {"lookup", "reply"}
  PROVE  Fits([pc |-> pc, req |-> r, line |-> 1])
BY DEF Fits, Locals, Steps

LEMMA AnswerMoves ==
  ASSUME TInv, NEW t \in Tasks, task[t].pc # "idle", NEW reply \in Replies, Answer(t, reply)
  PROVE  Moves(t) /\ task'[t] = Idle /\ replies' \in [Requests -> SUBSET Replies]
<1>1. task[t].req \in Requests
  BY DEF TInv, Placement, Fits
<1>2. Moves(t) /\ task'[t] = Idle
  BY IdleFits DEF TInv, TypeOK, Answer, Moves
<1> QED
  BY <1>1, <1>2 DEF TInv, TypeOK, Answer

LEMMA OnwardMoves ==
  ASSUME TInv, NEW t \in Tasks, Onward(t)
  PROVE  /\ Moves(t)
         /\ task[t].pc # "idle"
         /\ task'[t].req = task[t].req \/ task'[t] = Idle
         /\ UNCHANGED <<stock, placed, keys, moved, sent, restocks>>
         /\ replies' \in [Requests -> SUBSET Replies]
         /\ failures' \in 0..MaxFailures
<1>1. /\ task \in [Tasks -> Locals] /\ Fits(task[t])
      /\ replies \in [Requests -> SUBSET Replies] /\ failures \in 0..MaxFailures
      /\ MaxFailures \in Nat
  BY OrderIntakeAssumption DEF TInv, TypeOK, Placement, Locals
<1>2. Len(Lines[task[t].req]) \in Nat \/ task[t].pc = "idle"
  BY <1>1, LinesType DEF Fits
<1>3. CASE Lookup(t)
  <2>1. CASE task[t].req \in Valid \ keys
    BY <1>1, <1>2, <1>3, <2>1 DEF Lookup, Go, Moves, Fits, Locals, Steps, AtLine
  <2>2. CASE task[t].req \notin Valid \ keys
    <3>1. task[t].pc # "idle" /\ \E reply \in Replies : Answer(t, reply)
      BY <1>3, <2>2 DEF Lookup, Replies
    <3> QED
      BY <1>1, <1>3, <3>1, AnswerMoves DEF Lookup
  <2> QED
    BY <2>1, <2>2
<1>4. CASE CheckStock(t)
  <2>1. CASE Go(t, "take") /\ UNCHANGED <<stock, replies>>
    BY <1>1, <1>2, <1>4, <2>1 DEF CheckStock, Go, Moves, Fits, Locals, Steps
  <2>2. CASE Reject(t)
    BY <1>1, <1>4, <2>2, AnswerMoves DEF CheckStock, Reject, Replies
  <2> QED
    BY <1>4, <2>1, <2>2 DEF CheckStock
<1>5. CASE TakeStock(t)
  BY <1>1, <1>2, <1>5 DEF TakeStock, Moves, Fits, Locals, Steps, AtLine
<1>6. CASE ApplyLoyalty(t)
  <2>1. CASE Go(t, "insert") /\ UNCHANGED <<stock, replies>>
    BY <1>1, <1>2, <1>6, <2>1 DEF ApplyLoyalty, Go, Moves, Fits, Locals, Steps
  <2>2. CASE Reject(t)
    BY <1>1, <1>6, <2>2, AnswerMoves DEF ApplyLoyalty, Reject, Replies
  <2> QED
    BY <1>6, <2>1, <2>2 DEF ApplyLoyalty
<1>7. CASE InsertOrder(t)
  <2>1. CASE Go(t, "commit") /\ UNCHANGED replies
    BY <1>1, <1>2, <1>7, <2>1 DEF InsertOrder, Go, Moves, Fits, Locals, Steps
  <2>2. CASE Answer(t, "500")
    BY <1>1, <1>7, <2>2, AnswerMoves DEF InsertOrder, Replies
  <2> QED
    BY <1>7, <2>1, <2>2 DEF InsertOrder
<1>8. CASE Reply(t)
  BY <1>1, <1>8, AnswerMoves DEF Reply, Replies
<1>9. CASE Fail(t)
  BY <1>1, <1>9, IdleFits DEF Fail, Moves
<1>10. CASE DeadlockVictim(t)
  <2>1. task[t].pc # "idle"
    BY <1>10 DEF DeadlockVictim, InWaitCycle, AtLock
  <2> QED
    BY <1>1, <1>10, <2>1, AnswerMoves DEF DeadlockVictim, Replies
<1> QED
  BY <1>3, <1>4, <1>5, <1>6, <1>7, <1>8, <1>9, <1>10 DEF Onward

LEMMA InFlightMoves ==
  ASSUME TInv, NEW t \in Tasks, Moves(t), NEW r \in Requests
  PROVE  /\ InFlight(r)' \subseteq InFlight(r) \cup {t}
         /\ t \notin InFlight(r)' => InFlight(r)' = InFlight(r) \ {t}
BY DEF TInv, TypeOK, Moves, InFlight

LEMMA NextTInv == TInv /\ [Next]_vars => TInv'
<1> SUFFICES ASSUME TInv, [Next]_vars PROVE TInv'
  OBVIOUS
<1> USE OrderIntakeAssumption DEF TInv
<1>1. ASSUME NEW t \in Tasks, Moves(t)
      PROVE  Placement' /\ task' \in [Tasks -> Locals]
             /\ \A u \in Tasks : task'[u].pc \in {"check", "take"} =>
                                    task'[u].line <= Len(Lines[task'[u].req])
  <2>1. \A u \in Tasks : Fits(task'[u])
    BY <1>1 DEF TypeOK, Placement, Moves
  <2> QED
    BY <1>1, <2>1 DEF TypeOK, Placement, Moves, Fits
<1>2. ASSUME NEW t \in Tasks, NEW r \in Requests, Send(t, r)
      PROVE  TInv'
  <2>1. Moves(t) /\ task'[t].req = r
    <3>1. task'[t] = [pc |-> "lookup", req |-> r, line |-> 1]
      BY <1>2 DEF Send, TypeOK, Idle
    <3> QED
      BY <1>2, <3>1, EndsFit DEF Send, TypeOK, Moves
  <2>2. TypeOK' /\ Placement'
    BY <1>1, <1>2, <2>1 DEF Send, TypeOK, Locals
  <2>3. ASSUME NEW s \in Requests
        PROVE  placed'[s] + Cardinality(InFlight(s)') <= sent'[s]
    <3>1. /\ Cardinality(InFlight(s)) \in Nat /\ Cardinality(InFlight(s)') \in Nat
          /\ placed[s] \in Nat /\ sent[s] \in Nat /\ placed' = placed
          /\ placed[s] + Cardinality(InFlight(s)) <= sent[s]
      BY <1>2, InFlightSize DEF Send, TypeOK, SentEnough
    <3>2. CASE s = r
      <4>1. InFlight(s)' \subseteq InFlight(s) \cup {t}
        BY <2>1, InFlightMoves
      <4>2. Cardinality(InFlight(s)') <= Cardinality(InFlight(s)) + 1
        <5>1. /\ IsFiniteSet(InFlight(s) \cup {t})
              /\ \/ Cardinality(InFlight(s) \cup {t}) = Cardinality(InFlight(s))
                 \/ Cardinality(InFlight(s) \cup {t}) = Cardinality(InFlight(s)) + 1
          BY InFlightSize, FS_AddElement, Zenon
        <5>2. Cardinality(InFlight(s)') <= Cardinality(InFlight(s) \cup {t})
          BY <4>1, <5>1, FS_Subset
        <5>3. Cardinality(InFlight(s) \cup {t}) \in Nat
          BY <5>1, FS_CardinalityType
        <5> QED
          BY <3>1, <5>1, <5>2, <5>3
      <4>3. sent'[s] = sent[s] + 1
        BY <1>2, <3>2 DEF Send, TypeOK
      <4> QED
        BY <3>1, <4>2, <4>3
    <3>3. CASE s # r
      <4>1. InFlight(s)' = InFlight(s) \ {t}
        BY <2>1, <3>3, InFlightMoves DEF InFlight
      <4>2. Cardinality(InFlight(s)') <= Cardinality(InFlight(s))
        BY <4>1, InFlightSize, FS_Subset
      <4>3. sent'[s] = sent[s]
        BY <1>2, <3>3 DEF Send, TypeOK
      <4> QED
        BY <3>1, <4>2, <4>3
    <3> QED
      BY <3>2, <3>3
  <2> QED
    BY <2>2, <2>3 DEF SentEnough
<1>3. ASSUME NEW t \in Tasks, Onward(t)
      PROVE  TInv'
  <2>1. /\ Moves(t) /\ task[t].pc # "idle"
        /\ task'[t].req = task[t].req \/ task'[t] = Idle
        /\ UNCHANGED <<stock, placed, keys, moved, sent, restocks>>
        /\ replies' \in [Requests -> SUBSET Replies] /\ failures' \in 0..MaxFailures
    BY <1>3, OnwardMoves
  <2>2. TypeOK' /\ Placement'
    BY <1>1, <2>1 DEF TypeOK, Locals
  <2>3. ASSUME NEW s \in Requests
        PROVE  placed'[s] + Cardinality(InFlight(s)') <= sent'[s]
    <3>1. /\ Cardinality(InFlight(s)) \in Nat /\ Cardinality(InFlight(s)') \in Nat
          /\ placed[s] \in Nat /\ sent[s] \in Nat
          /\ placed[s] + Cardinality(InFlight(s)) <= sent[s]
      BY InFlightSize DEF TypeOK, SentEnough
    <3>2. InFlight(s)' \subseteq InFlight(s)
      <4>1. CASE task'[t].pc = "reply"
        BY <2>1, <4>1, InFlightMoves DEF InFlight
      <4>2. CASE task'[t].pc = "idle"
        BY <2>1, <4>2, InFlightMoves DEF InFlight
      <4>3. CASE task'[t].pc \notin {"idle", "reply"}
        <5>1. task[t].pc # "reply"
          BY <1>3, <4>3, <2>1 DEF Onward, Lookup, CheckStock, TakeStock, ApplyLoyalty,
             InsertOrder, Reply, Answer, Idle, Fail, DeadlockVictim, InWaitCycle, AtLock, TypeOK
        <5>2. task'[t].req = task[t].req
          BY <2>1, <4>3 DEF Idle
        <5> QED
          BY <2>1, <5>1, <5>2, InFlightMoves DEF InFlight
      <4> QED
        BY <4>1, <4>2, <4>3
    <3>3. Cardinality(InFlight(s)') <= Cardinality(InFlight(s))
      BY <3>2, InFlightSize, FS_Subset
    <3> QED
      BY <2>1, <3>1, <3>3
  <2> QED
    BY <2>2, <2>3 DEF SentEnough
<1>4. ASSUME NEW t \in Tasks, CommitOrder(t)
      PROVE  TInv'
  <2> DEFINE r == task[t].req
  <2>1. r \in Requests /\ task[t].pc = "commit"
    BY <1>4 DEF CommitOrder, Placement, Fits
  <2>2. Moves(t) /\ task'[t].pc = "reply"
    <3>1. task'[t] = [pc |-> "reply", req |-> r, line |-> 1]
      BY <1>4 DEF CommitOrder, TypeOK, Idle
    <3> QED
      BY <1>4, <2>1, <3>1, EndsFit DEF CommitOrder, TypeOK, Moves
  <2>3. ASSUME NEW s \in Requests
        PROVE  /\ placed'[s] \in Nat
               /\ placed'[s] + Cardinality(InFlight(s)') <= sent'[s]
    <3>1. /\ Cardinality(InFlight(s)) \in Nat /\ Cardinality(InFlight(s)') \in Nat
          /\ placed[s] \in Nat /\ sent[s] \in Nat /\ sent' = sent
          /\ placed[s] + Cardinality(InFlight(s)) <= sent[s]
      BY <1>4, InFlightSize DEF CommitOrder, TypeOK, SentEnough
    <3>2. InFlight(s)' = InFlight(s) \ {t} /\ (t \in InFlight(s) <=> s = r)
      BY <2>1, <2>2, InFlightMoves DEF InFlight
    <3>3. Cardinality(InFlight(s)') =
            IF s = r THEN Cardinality(InFlight(s)) - 1 ELSE Cardinality(InFlight(s))
      BY <3>2, InFlightSize, FS_RemoveElement
    <3>4. placed'[s] = IF s = r THEN placed[s] + 1 ELSE placed[s]
      BY <1>4, <2>1 DEF CommitOrder, TypeOK
    <3> QED
      BY <3>1, <3>3, <3>4
  <2>4. placed' \in [Requests -> 0..MaxSends]
    <3>1. placed' = [s \in Requests |-> placed'[s]] /\ sent' = sent
      BY <1>4 DEF CommitOrder, TypeOK
    <3>2. \A s \in Requests : sent[s] \in 0..MaxSends /\ Cardinality(InFlight(s)') \in Nat
      BY InFlightSize DEF TypeOK
    <3>3. \A s \in Requests : placed'[s] \in 0..MaxSends
      <4> TAKE s \in Requests
      <4>1. /\ placed'[s] \in Nat /\ placed'[s] + Cardinality(InFlight(s)') <= sent[s]
            /\ sent[s] \in 0..MaxSends /\ Cardinality(InFlight(s)') \in Nat
        BY <2>3, <3>1, <3>2
      <4> QED
        BY <4>1
    <3> QED
      BY <3>1, <3>3
  <2>5. stock' \in [Ingredients -> Int]
    BY <1>4, <2>1, NeedType DEF CommitOrder, TypeOK
  <2>6. TypeOK' /\ Placement'
    BY <1>1, <1>4, <2>2, <2>4, <2>5 DEF CommitOrder, StoredKey, TypeOK, Locals
  <2> QED
    BY <2>3, <2>6 DEF SentEnough
<1>5. ASSUME NEW i \in Ingredients, StockIncoming(i, 1)
      PROVE  TInv'
  <2>1. TypeOK' /\ Placement'
    BY <1>5 DEF StockIncoming, TypeOK, Placement
  <2>2. SentEnough'
    BY <1>5 DEF StockIncoming, SentEnough, InFlight
  <2> QED
    BY <2>1, <2>2
<1>6. CASE UNCHANGED vars
  <2>1. TypeOK' /\ Placement'
    BY <1>6 DEF vars, TypeOK, Placement
  <2>2. SentEnough'
    BY <1>6 DEF vars, SentEnough, InFlight
  <2> QED
    BY <2>1, <2>2
<1> QED
  BY <1>2, <1>3, <1>4, <1>5, <1>6 DEF Next, HandlerStep, Onward

THEOREM TypeCorrect == Spec => []TypeOK
<1>1. TInv => TypeOK
  BY DEF TInv
<1> QED
  BY InitTInv, NextTInv, <1>1, PTL DEF Spec

-----------------------------------------------------------------------------
(* No update of the stock is lost.                                         *)

Sold(i) == [r \in Requests |-> placed[r] * Need(r, i)]

LEMMA SoldType ==
  ASSUME TypeOK, NEW i
  PROVE  \A r \in Requests : Sold(i)[r] \in Int
BY NeedType, OrderIntakeAssumption DEF TypeOK, Sold

LEMMA SoldOnce ==
  ASSUME TInv, TInv', NEW t \in Tasks, CommitOrder(t), NEW i \in Ingredients
  PROVE  SumFunction(Sold(i))' = SumFunction(Sold(i)) + Need(task[t].req, i)
<1> DEFINE r == task[t].req
           f == Sold(i)
           g == Sold(i)'
<1>1. r \in Requests /\ placed[r] \in Nat /\ Need(r, i) \in Nat
  BY NeedType, OrderIntakeAssumption DEF TInv, TypeOK, Placement, Fits, CommitOrder
<1>2. DOMAIN f = Requests /\ DOMAIN g = Requests
  BY DEF Sold
<1>3. /\ \A s \in Requests : f[s] \in Int
      /\ \A s \in Requests : g[s] \in Int
  <2>1. \A s \in Requests : placed[s] \in Int /\ placed'[s] \in Int /\ Need(s, i) \in Int
    BY NeedType, OrderIntakeAssumption DEF TInv, TypeOK
  <2> QED
    BY <2>1 DEF Sold
<1>4. \A s \in Requests \ {r} : g[s] = f[s]
  BY DEF Sold, CommitOrder, TInv, TypeOK
<1>5. g[r] = (placed[r] + 1) * Need(r, i) /\ f[r] = placed[r] * Need(r, i)
  BY <1>1 DEF Sold, CommitOrder, TInv, TypeOK
<1>6. (placed[r] + 1) * Need(r, i) = placed[r] * Need(r, i) + Need(r, i)
  BY <1>1
<1>f. IsFiniteSet(Requests)
  BY OrderIntakeAssumption
<1> HIDE DEF f, g
<1>7. SumFunctionOnSet(g, Requests) = SumFunctionOnSet(f, Requests) - f[r] + g[r]
  BY <1>1, <1>3, <1>4, <1>f, SumChange
<1>8. SumFunctionOnSet(f, Requests) \in Int /\ f[r] \in Int /\ g[r] \in Int
  BY <1>1, <1>3, <1>f, SumType
<1>9. SumFunctionOnSet(g, Requests) = SumFunctionOnSet(f, Requests) + Need(r, i)
  BY <1>1, <1>5, <1>6, <1>7, <1>8
<1> QED
  BY <1>2, <1>9 DEF SumFunction, f, g

LEMMA InitConserved == Init => StockConserved
<1> SUFFICES ASSUME Init, NEW i \in Ingredients
             PROVE  stock[i] = Stock0[i] + moved[i] - SumFunction(Sold(i))
  BY DEF StockConserved, Sold
<1>1. DOMAIN Sold(i) = Requests /\ \A r \in Requests : Sold(i)[r] = 0
  BY NeedType DEF Init, Sold
<1>2. SumFunctionOnSet(Sold(i), Requests) \in 0..(Cardinality(Requests) * 0)
  BY <1>1, OrderIntakeAssumption, SumBounds
<1>3. Cardinality(Requests) \in Nat
  BY OrderIntakeAssumption, FS_CardinalityType
<1>4. SumFunction(Sold(i)) = 0
  BY <1>1, <1>2, <1>3 DEF SumFunction
<1>5. stock[i] = Stock0[i] /\ moved[i] = 0 /\ Stock0[i] \in Nat
  BY OrderIntakeAssumption DEF Init
<1> QED
  BY <1>4, <1>5

\* Every step moves stock, what came in and what is sold together.
LEMMA NextConserved == TInv /\ TInv' /\ StockConserved /\ [Next]_vars => StockConserved'
<1> SUFFICES ASSUME TInv, TInv', StockConserved, [Next]_vars, NEW i \in Ingredients
             PROVE  stock'[i] = Stock0[i] + moved'[i] - SumFunction(Sold(i))'
  BY DEF StockConserved, Sold
<1>1. /\ stock[i] = Stock0[i] + moved[i] - SumFunction(Sold(i))
      /\ stock[i] \in Int /\ moved[i] \in Nat /\ Stock0[i] \in Nat
  BY OrderIntakeAssumption DEF StockConserved, TInv, TypeOK, Sold
<1>2. SumFunction(Sold(i)) \in Int
  <2>1. DOMAIN Sold(i) = Requests /\ \A r \in Requests : Sold(i)[r] \in Int
    BY SoldType DEF TInv, Sold
  <2> QED
    BY <2>1, OrderIntakeAssumption, SumType DEF SumFunction
<1>3. ASSUME UNCHANGED <<stock, placed, moved>>
      PROVE  stock'[i] = Stock0[i] + moved'[i] - SumFunction(Sold(i))'
  BY <1>1, <1>3 DEF Sold
<1>4. ASSUME NEW t \in Tasks, NEW r \in Requests, Send(t, r)
      PROVE  stock'[i] = Stock0[i] + moved'[i] - SumFunction(Sold(i))'
  BY <1>3, <1>4 DEF Send
<1>5. ASSUME NEW t \in Tasks, Onward(t)
      PROVE  stock'[i] = Stock0[i] + moved'[i] - SumFunction(Sold(i))'
  BY <1>3, <1>5, OnwardMoves
<1>6. ASSUME NEW t \in Tasks, CommitOrder(t)
      PROVE  stock'[i] = Stock0[i] + moved'[i] - SumFunction(Sold(i))'
  <2>1. Need(task[t].req, i) \in Nat
    BY <1>6, NeedType DEF TInv, Placement, Fits, CommitOrder
  <2>2. stock'[i] = stock[i] - Need(task[t].req, i) /\ moved' = moved
    BY <1>6 DEF CommitOrder
  <2> QED
    BY <1>1, <1>2, <1>6, <2>1, <2>2, SoldOnce
<1>7. ASSUME NEW j \in Ingredients, StockIncoming(j, 1)
      PROVE  stock'[i] = Stock0[i] + moved'[i] - SumFunction(Sold(i))'
  <2>1. SumFunction(Sold(i))' = SumFunction(Sold(i))
    BY <1>7 DEF StockIncoming, Sold
  <2>2. \/ stock'[i] = stock[i] /\ moved'[i] = moved[i]
        \/ stock'[i] = stock[i] + 1 /\ moved'[i] = moved[i] + 1
    BY <1>7 DEF StockIncoming, TInv, TypeOK
  <2> QED
    BY <1>1, <1>2, <2>1, <2>2
<1>8. CASE UNCHANGED vars
  BY <1>3, <1>8 DEF vars
<1> QED
  BY <1>4, <1>5, <1>6, <1>7, <1>8 DEF Next, HandlerStep, Onward

\* Whatever is sent, rejected, aborted or lost, the stock of an ingredient is
\* the first one and what came in less what the placed orders need.
THEOREM StockIsConserved == Spec => []StockConserved
BY InitTInv, NextTInv, InitConserved, NextConserved, PTL DEF Spec

-----------------------------------------------------------------------------
(* By how much the stock is oversold.  Committed stock and the amounts     *)
(* that handlers have found enough stock for are counted together.         *)

Passed(local) == IF local.pc = "take" THEN local.line ELSE local.line - 1

Pending(local, i) == IF local.pc \in Active THEN Taken(local.req, Passed(local), i) ELSE 0

Pendings(i) == [t \in Tasks |-> Pending(task[t], i)]

Slack(i) == stock[i] - SumFunctionOnSet(Pendings(i), Tasks)

Others(t, i) == SumFunctionOnSet(Pendings(i), Tasks \ {t})

LEMMA PendingType ==
  ASSUME NEW local, Fits(local), NEW i
  PROVE  Pending(local, i) \in 0..MaxNeed(i)
<1>1. MaxNeed(i) \in Nat
  BY MaxNeedIsMax
<1>2. CASE local.pc \in Active
  <2>1. local.req \in Requests /\ local.line \in Nat \ {0} /\ Len(Lines[local.req]) \in Nat
    BY <1>2, LinesType DEF Fits, Locals, Active
  <2>2. Passed(local) \in 0..Len(Lines[local.req])
    BY <1>2, <2>1 DEF Fits, Active, Passed
  <2>3. /\ Taken(local.req, Passed(local), i) \in Nat
        /\ Taken(local.req, Passed(local), i) <= Need(local.req, i)
        /\ Need(local.req, i) \in Nat
        /\ Need(local.req, i) <= MaxNeed(i)
    BY <2>1, <2>2, TakenType, NeedType, MaxNeedIsMax
  <2> QED
    BY <1>1, <1>2, <2>3 DEF Pending
<1>3. CASE local.pc \notin Active
  BY <1>1, <1>3 DEF Pending
<1> QED
  BY <1>2, <1>3

LEMMA SlackType ==
  ASSUME TInv, NEW i \in Ingredients
  PROVE  /\ stock[i] \in Int
         /\ SumFunctionOnSet(Pendings(i), Tasks) \in Nat
         /\ \A t \in Tasks :
               /\ Pendings(i)[t] \in Nat
               /\ Others(t, i) \in Nat
               /\ SumFunctionOnSet(Pendings(i), Tasks) = Pendings(i)[t] + Others(t, i)
               /\ Others(t, i) <= (Cardinality(Tasks) - 1) * MaxNeed(i)
<1>1. MaxNeed(i) \in Nat /\ \A t \in Tasks : Pendings(i)[t] \in 0..MaxNeed(i)
  BY PendingType, MaxNeedIsMax DEF Pendings, TInv, Placement
<1>2. IsFiniteSet(Tasks) /\ Cardinality(Tasks) \in Nat
  BY OrderIntakeAssumption, FS_CardinalityType
<1>3. SumFunctionOnSet(Pendings(i), Tasks) \in 0..(Cardinality(Tasks) * MaxNeed(i))
  BY <1>1, <1>2, SumBounds
<1>4. ASSUME NEW t \in Tasks
      PROVE  /\ SumFunctionOnSet(Pendings(i), Tasks) = Pendings(i)[t] + Others(t, i)
             /\ Others(t, i) \in 0..((Cardinality(Tasks) - 1) * MaxNeed(i))
  <2>1. IsFiniteSet(Tasks \ {t}) /\ Cardinality(Tasks \ {t}) = Cardinality(Tasks) - 1
    BY <1>2, FS_RemoveElement
  <2>2. \A u \in Tasks \ {t} : Pendings(i)[u] \in 0..MaxNeed(i)
    BY <1>1
  <2>3. \A u \in Tasks : Pendings(i)[u] \in Int
    BY <1>1
  <2>4. Others(t, i) \in 0..(Cardinality(Tasks \ {t}) * MaxNeed(i))
    BY <1>1, <2>1, <2>2, SumBounds DEF Others
  <2> QED
    BY <1>2, <2>1, <2>3, <2>4, SumRemove DEF Others
<1>5. stock[i] \in Int
  BY DEF TInv, TypeOK
<1> QED
  BY <1>1, <1>3, <1>4, <1>5

\* When one handler moves the sum changes by what it has pending.
LEMMA PendingsMove ==
  ASSUME TInv, TInv', NEW t \in Tasks, Moves(t), NEW i \in Ingredients
  PROVE  /\ SumFunctionOnSet(Pendings(i), Tasks)' =
               SumFunctionOnSet(Pendings(i), Tasks) - Pendings(i)[t] + Pendings(i)'[t]
         /\ Others(t, i)' = Others(t, i)
<1> DEFINE f == Pendings(i)
           g == Pendings(i)'
<1>1. \A u \in Tasks \ {t} : g[u] = f[u]
  <2>1. \A u \in Tasks \ {t} : task'[u] = task[u]
    BY DEF Moves, TInv, TypeOK
  <2> QED
    BY <2>1 DEF Pendings
<1>2. \A u \in Tasks : f[u] \in Int
  BY PendingType, MaxNeedIsMax DEF Pendings, TInv, Placement
<1>3. \A u \in Tasks : g[u] \in Int
  <2>1. \A u \in Tasks : Fits(task'[u])
    BY DEF TInv, Placement
  <2> QED
    BY <2>1, PendingType, MaxNeedIsMax DEF Pendings
<1>4. IsFiniteSet(Tasks) /\ IsFiniteSet(Tasks \ {t})
  BY OrderIntakeAssumption, FS_RemoveElement
<1> HIDE DEF f, g
<1>5. SumFunctionOnSet(g, Tasks) = SumFunctionOnSet(f, Tasks) - f[t] + g[t]
  BY <1>1, <1>2, <1>3, <1>4, SumChange
<1>6. SumFunctionOnSet(g, Tasks \ {t}) = SumFunctionOnSet(f, Tasks \ {t})
  BY <1>1, <1>2, <1>4, SumEqual
<1> QED
  BY <1>5, <1>6 DEF f, g, Others

\* A step onward releases what is pending, or there is enough in stock.
LEMMA OnwardPending ==
  ASSUME TInv, NEW t \in Tasks, Onward(t), NEW i \in Ingredients
  PROVE  \/ Pending(task'[t], i) <= Pending(task[t], i)
         \/ stock[i] >= Pending(task'[t], i)
<1> DEFINE r == task[t].req
           n == task[t].line
<1>1. /\ task \in [Tasks -> Locals] /\ Fits(task[t]) /\ Fits(task'[t])
      /\ stock[i] \in Int
  BY OnwardMoves DEF TInv, TypeOK, Placement, Locals, Moves
<1>2. /\ Pending(task[t], i) \in Nat /\ Pending(task'[t], i) \in Nat
  BY <1>1, PendingType, MaxNeedIsMax
<1>3. ASSUME task'[t] = Idle
      PROVE  Pending(task'[t], i) <= Pending(task[t], i)
  <2>1. Pending(task'[t], i) = 0
    BY <1>3 DEF Idle, Pending, Active
  <2> QED
    BY <1>2, <2>1
<1>4. ASSUME Pending(task'[t], i) = Pending(task[t], i)
      PROVE  Pending(task'[t], i) <= Pending(task[t], i)
  BY <1>2, <1>4
<1>5. task[t].pc # "idle" => r \in Requests /\ Len(Lines[r]) \in Nat /\ n \in Nat \ {0}
  BY <1>1, LinesType DEF Fits, Locals
<1>6. CASE Lookup(t)
  <2>1. CASE Go(t, AtLine(r, 1))
    <3>1. task'[t].pc \in {"check", "loyalty"} /\ task'[t].line = 1 /\ task'[t].req = r
      BY <1>1, <1>6, <2>1 DEF Lookup, Go, AtLine, Fits, Locals
    <3>2. Pending(task'[t], i) = Taken(r, 0, i)
      BY <3>1 DEF Pending, Passed, Active
    <3> QED
      BY <1>2, <3>2, TakenNothing
  <2>2. CASE \E reply : Answer(t, reply)
    BY <1>1, <1>3, <2>2 DEF Answer
  <2> QED
    BY <1>6, <2>1, <2>2 DEF Lookup
<1>7. CASE CheckStock(t)
  <2>1. CASE EnoughInStock(t) /\ Go(t, "take")
    <3>1. task'[t].pc = "take" /\ task'[t].line = n /\ task'[t].req = r /\ task[t].pc = "check"
      BY <1>1, <1>7, <2>1 DEF CheckStock, Go, Locals
    <3>2. Pending(task'[t], i) = Taken(r, n, i) /\ Pending(task[t], i) = Taken(r, n - 1, i)
      BY <3>1 DEF Pending, Passed, Active
    <3>3. r \in Requests /\ n \in 1..Len(Lines[r])
      BY <1>1, <1>5, <3>1 DEF Fits
    <3>4. CASE Lines[r][n].ing = i
      <4>1. Taken(r, n, i) = Taken(r, n - 1, i) + Lines[r][n].need /\ Lines[r][n].need \in Nat
        BY <3>3, <3>4, TakenNext, LinesType
      <4>2. stock[i] - Taken(r, n - 1, i) >= Lines[r][n].need
        BY <2>1, <3>4 DEF EnoughInStock, Line
      <4> QED
        BY <1>1, <1>2, <3>2, <4>1, <4>2
    <3>5. CASE Lines[r][n].ing # i
      BY <1>4, <3>2, <3>3, <3>5, TakenNext
    <3> QED
      BY <3>4, <3>5
  <2>2. CASE Reject(t)
    BY <1>1, <1>3, <2>2 DEF Reject, Answer
  <2> QED
    BY <1>7, <2>1, <2>2 DEF CheckStock
<1>8. CASE TakeStock(t)
  <2>1. /\ task[t].pc = "take" /\ task'[t].pc \in {"check", "loyalty"}
        /\ task'[t].line = n + 1 /\ task'[t].req = r /\ n \in Nat
    BY <1>1, <1>5, <1>8 DEF TakeStock, AtLine, Locals
  <2>2. Pending(task'[t], i) = Taken(r, (n + 1) - 1, i) /\ Pending(task[t], i) = Taken(r, n, i)
    BY <2>1 DEF Pending, Passed, Active
  <2>3. (n + 1) - 1 = n
    BY <2>1
  <2> QED
    BY <1>4, <2>2, <2>3
<1>9. ASSUME NEW pc \in {"insert", "commit"}, task[t].pc \in {"loyalty", "insert"}, Go(t, pc)
      PROVE  Pending(task'[t], i) <= Pending(task[t], i)
  <2>1. task'[t].pc = pc /\ task'[t].line = n /\ task'[t].req = r
    BY <1>1, <1>9 DEF Go, Locals
  <2> QED
    BY <1>4, <1>9, <2>1 DEF Pending, Passed, Active
<1>10. CASE ApplyLoyalty(t)
  <2>1. CASE Reject(t)
    BY <1>1, <1>3, <2>1 DEF Reject, Answer
  <2>2. CASE Go(t, "insert")
    BY <1>9, <1>10, <2>2 DEF ApplyLoyalty
  <2> QED
    BY <1>10, <2>1, <2>2 DEF ApplyLoyalty
<1>11. CASE InsertOrder(t)
  <2>1. CASE Answer(t, "500")
    BY <1>1, <1>3, <2>1 DEF Answer
  <2>2. CASE Go(t, "commit")
    BY <1>9, <1>11, <2>2 DEF InsertOrder
  <2> QED
    BY <1>11, <2>1, <2>2 DEF InsertOrder
<1>12. CASE Reply(t) \/ Fail(t) \/ DeadlockVictim(t)
  BY <1>1, <1>3, <1>12 DEF Reply, Fail, DeadlockVictim, Answer
<1> QED
  BY <1>6, <1>7, <1>8, <1>10, <1>11, <1>12 DEF Onward

\* No step loses slack, but the check of one handler, which does not see what
\* the others have found enough for.
LEMMA StepSlack ==
  ASSUME TInv, TInv', [Next]_vars, NEW i \in Ingredients
  PROVE  /\ Slack(i) \in Int /\ Slack(i)' \in Int
         /\ \/ Slack(i)' >= Slack(i)
            \/ \E t \in Tasks : task[t].pc # "idle" /\ Slack(i)' >= -Others(t, i)
<1> DEFINE sum == SumFunctionOnSet(Pendings(i), Tasks)
<1>1. stock[i] \in Int /\ stock'[i] \in Int /\ sum \in Int
  BY SlackType DEF TInv, TypeOK
<1>2. ASSUME NEW t \in Tasks, Moves(t)
      PROVE  /\ sum' = sum - Pending(task[t], i) + Pending(task'[t], i)
             /\ sum = Pending(task[t], i) + Others(t, i)
             /\ Pending(task[t], i) \in Nat /\ Pending(task'[t], i) \in Nat
             /\ Others(t, i) \in Nat
  <2>1. Pendings(i)[t] = Pending(task[t], i) /\ Pendings(i)'[t] = Pending(task'[t], i)
    BY DEF Pendings
  <2>2. Fits(task[t]) /\ Fits(task'[t])
    BY DEF TInv, Placement
  <2> QED
    BY <1>2, <2>1, <2>2, PendingsMove, SlackType, PendingType, MaxNeedIsMax
<1> HIDE DEF sum
<1>3. Slack(i) = stock[i] - sum /\ Slack(i)' = stock'[i] - sum'
  BY DEF Slack, sum
<1>4. ASSUME NEW t \in Tasks, NEW r \in Requests, Send(t, r)
      PROVE  sum' \in Int /\ Slack(i)' = Slack(i)
  <2>1. /\ task'[t] = [pc |-> "lookup", req |-> r, line |-> 1]
        /\ task' = [task EXCEPT ![t] = task'[t]] /\ stock' = stock /\ task[t].pc = "idle"
    BY <1>4 DEF Send, Idle, TInv, TypeOK
  <2>2. Moves(t)
    BY <2>1, EndsFit DEF Moves
  <2>3. Pending(task[t], i) = 0 /\ Pending(task'[t], i) = 0
    BY <2>1 DEF Pending, Active
  <2> QED
    BY <1>1, <1>2, <1>3, <2>1, <2>2, <2>3
<1>5. ASSUME NEW t \in Tasks, Onward(t)
      PROVE  /\ sum' \in Int
             /\ \/ Slack(i)' >= Slack(i)
                \/ task[t].pc # "idle" /\ Slack(i)' >= -Others(t, i)
  <2>1. Moves(t) /\ stock' = stock /\ task[t].pc # "idle"
    BY <1>5, OnwardMoves
  <2>2. \/ Pending(task'[t], i) <= Pending(task[t], i)
        \/ stock[i] >= Pending(task'[t], i)
    BY <1>5, OnwardPending
  <2> QED
    BY <1>1, <1>2, <1>3, <2>1, <2>2
<1>6. ASSUME NEW t \in Tasks, CommitOrder(t)
      PROVE  sum' \in Int /\ Slack(i)' = Slack(i)
  <2>1. Fits(task[t]) /\ task[t].pc = "commit" /\ task \in [Tasks -> Locals]
    BY <1>6 DEF CommitOrder, TInv, TypeOK, Placement, Locals
  <2>2. /\ task[t].req \in Requests /\ task[t].line = Len(Lines[task[t].req]) + 1
        /\ Len(Lines[task[t].req]) \in Nat
    BY <2>1, LinesType DEF Fits
  <2>3. Pending(task[t], i) = Need(task[t].req, i)
    <3>1. task[t].line - 1 = Len(Lines[task[t].req])
      BY <2>2
    <3> QED
      BY <2>1, <3>1 DEF Pending, Passed, Active, Need
  <2>4. task'[t] = [pc |-> "reply", req |-> task[t].req, line |-> 1]
    BY <1>6, <2>1 DEF CommitOrder, Idle
  <2>5. Moves(t)
    BY <1>6, <2>1, <2>2, <2>4, EndsFit DEF CommitOrder, Moves
  <2>6. Pending(task'[t], i) = 0
    BY <2>4 DEF Pending, Active
  <2>7. stock'[i] = stock[i] - Need(task[t].req, i)
    BY <1>6 DEF CommitOrder
  <2> QED
    BY <1>1, <1>2, <1>3, <2>3, <2>5, <2>6, <2>7
<1>7. ASSUME NEW j \in Ingredients, StockIncoming(j, 1)
      PROVE  sum' \in Int /\ Slack(i)' >= Slack(i)
  <2>1. sum' = sum
    BY <1>7 DEF StockIncoming, Pendings, sum
  <2>2. stock'[i] >= stock[i]
    BY <1>1, <1>7 DEF StockIncoming, TInv, TypeOK
  <2> QED
    BY <1>1, <1>3, <2>1, <2>2
<1>8. ASSUME UNCHANGED vars
      PROVE  sum' \in Int /\ Slack(i)' = Slack(i)
  <2>1. sum' = sum /\ stock'[i] = stock[i]
    BY <1>8 DEF vars, Pendings, sum
  <2> QED
    BY <1>1, <1>3, <1>8, <2>1
<1>9. sum' \in Int /\ \/ Slack(i)' >= Slack(i)
                      \/ \E t \in Tasks : task[t].pc # "idle" /\ Slack(i)' >= -Others(t, i)
  <2> HIDE DEF sum
  <2>1. ASSUME Slack(i)' = Slack(i), sum' \in Int
        PROVE  Slack(i)' >= Slack(i)
    BY <1>1, <1>3, <2>1
  <2>2. CASE \E t \in Tasks, r \in Requests : Send(t, r)
    BY <1>4, <2>1, <2>2
  <2>3. CASE \E t \in Tasks : Onward(t)
    BY <1>5, <2>3
  <2>4. CASE \E t \in Tasks : CommitOrder(t)
    BY <1>6, <2>1, <2>4
  <2>5. CASE \E j \in Ingredients : StockIncoming(j, 1)
    BY <1>7, <2>5
  <2>6. CASE UNCHANGED vars
    BY <1>8, <2>1, <2>6
  <2> QED
    BY <2>2, <2>3, <2>4, <2>5, <2>6 DEF Next, HandlerStep, Onward
<1> QED
  BY <1>1, <1>3, <1>9

LEMMA InitSlack == Init => \A i \in Ingredients : Slack(i) \in Nat
<1> SUFFICES ASSUME Init, NEW i \in Ingredients PROVE Slack(i) \in Nat
  OBVIOUS
<1>1. stock[i] \in Nat
  BY OrderIntakeAssumption DEF Init
<1>2. \A t \in Tasks : Pendings(i)[t] \in 0..0
  BY DEF Init, Idle, Pendings, Pending, Active
<1>3. IsFiniteSet(Tasks) /\ Cardinality(Tasks) \in Nat
  BY OrderIntakeAssumption, FS_CardinalityType
<1>4. SumFunctionOnSet(Pendings(i), Tasks) \in 0..(Cardinality(Tasks) * 0)
  BY <1>2, <1>3, SumBounds
<1>5. SumFunctionOnSet(Pendings(i), Tasks) = 0
  BY <1>3, <1>4
<1> QED
  BY <1>1, <1>5 DEF Slack

\* The committed stock with the pending amounts taken off.
SlackBounded ==
  \A i \in Ingredients : Slack(i) >= -((Cardinality(Tasks) - 1) * MaxNeed(i))

LEMMA SomeHandler == Cardinality(Tasks) - 1 \in Nat
<1>1. Cardinality(Tasks) \in Nat /\ Cardinality(Tasks) # 0
  BY OrderIntakeAssumption, FS_CardinalityType, FS_EmptySet
<1> QED
  BY <1>1

LEMMA BoundType ==
  ASSUME NEW i
  PROVE  (Cardinality(Tasks) - 1) * MaxNeed(i) \in Nat
<1>1. Cardinality(Tasks) - 1 \in Nat /\ MaxNeed(i) \in Nat
  BY SomeHandler, MaxNeedIsMax
<1> HIDE DEF MaxNeed
<1> QED
  BY <1>1

LEMMA InitSlackBounded == Init => SlackBounded
<1> SUFFICES ASSUME Init, NEW i \in Ingredients
             PROVE  Slack(i) >= -((Cardinality(Tasks) - 1) * MaxNeed(i))
  BY DEF SlackBounded
<1> QED
  BY InitSlack, BoundType

LEMMA NextSlackBounded == TInv /\ TInv' /\ SlackBounded /\ [Next]_vars => SlackBounded'
<1> SUFFICES ASSUME TInv, TInv', SlackBounded, [Next]_vars, NEW i \in Ingredients
             PROVE  Slack(i)' >= -((Cardinality(Tasks) - 1) * MaxNeed(i))
  BY DEF SlackBounded, MaxNeed
<1> DEFINE bound == (Cardinality(Tasks) - 1) * MaxNeed(i)
<1>1. bound \in Nat /\ Slack(i) >= -bound
  BY BoundType DEF SlackBounded
<1>2. \A t \in Tasks : Others(t, i) \in Nat /\ Others(t, i) <= bound
  BY SlackType
<1> HIDE DEF bound
<1>3. Slack(i) \in Int /\ Slack(i)' \in Int
  BY StepSlack
<1>4. CASE Slack(i)' >= Slack(i)
  BY <1>1, <1>3, <1>4 DEF bound
<1>5. ASSUME NEW t \in Tasks, Slack(i)' >= -Others(t, i)
      PROVE  Slack(i)' >= -bound
  BY <1>1, <1>2, <1>3, <1>5
<1> QED
  BY <1>4, <1>5, StepSlack DEF bound

\* Concurrent orders oversell an ingredient by at most one order for each
\* handler but one.
THEOREM OversellIsBounded == Spec => []OversellBounded
<1>1. TInv /\ SlackBounded => OversellBounded
  <2> SUFFICES ASSUME TInv, SlackBounded, NEW i \in Ingredients
               PROVE  stock[i] >= -((Cardinality(Tasks) - 1) * MaxNeed(i))
    BY DEF OversellBounded
  <2> DEFINE bound == (Cardinality(Tasks) - 1) * MaxNeed(i)
  <2>1. bound \in Nat /\ Slack(i) >= -bound
    BY BoundType DEF SlackBounded
  <2>2. stock[i] \in Int /\ SumFunctionOnSet(Pendings(i), Tasks) \in Nat
    BY SlackType
  <2> HIDE DEF bound
  <2>3. stock[i] >= -bound
    BY <2>1, <2>2 DEF Slack
  <2> QED
    BY <2>3 DEF bound
<1> QED
  BY InitTInv, NextTInv, InitSlackBounded, NextSlackBounded, <1>1, PTL DEF Spec

\* A handler that is alone has nobody's check beside its own.
LEMMA AloneNothingPending ==
  ASSUME TInv, Cardinality(Handling) <= 1, NEW t \in Tasks, task[t].pc # "idle", NEW i
  PROVE  Others(t, i) = 0
<1>1. IsFiniteSet(Handling) /\ t \in Handling
  BY OrderIntakeAssumption, FS_Subset DEF Handling
<1>2. Handling = {t}
  <2>1. /\ IsFiniteSet(Handling \ {t}) /\ Cardinality(Handling) \in Nat
        /\ Cardinality(Handling \ {t}) = Cardinality(Handling) - 1
        /\ Cardinality(Handling \ {t}) \in Nat
    BY <1>1, FS_CardinalityType, FS_RemoveElement
  <2>2. Cardinality(Handling \ {t}) = 0
    BY <2>1
  <2>3. Handling \ {t} = {}
    BY <2>1, <2>2, FS_EmptySet
  <2> QED
    BY <1>1, <2>3
<1>3. \A u \in Tasks \ {t} : Pendings(i)[u] \in 0..0
  BY <1>2 DEF Handling, Pendings, Pending, Active
<1>4. IsFiniteSet(Tasks \ {t}) /\ Cardinality(Tasks \ {t}) \in Nat
  BY OrderIntakeAssumption, FS_RemoveElement, FS_CardinalityType
<1>5. Others(t, i) \in 0..(Cardinality(Tasks \ {t}) * 0)
  BY <1>3, <1>4, SumBounds DEF Others
<1> QED
  BY <1>4, <1>5

SlackLeft == \A i \in Ingredients : Slack(i) >= 0

\* As long as orders come one at a time nothing is sold that is not there.
THEOREM SerialNoOversell == Spec => NoOversellIfSerial
<1> DEFINE Serial == Cardinality(Handling) <= 1
<1>1. Init => SlackLeft
  BY InitSlack DEF SlackLeft
<1>2. TInv /\ TInv' /\ SlackLeft /\ Serial /\ [Next]_vars => SlackLeft'
  <2> SUFFICES ASSUME TInv, TInv', SlackLeft, Serial, [Next]_vars, NEW i \in Ingredients
               PROVE  Slack(i)' >= 0
    BY DEF SlackLeft
  <2>1. Slack(i) \in Int /\ Slack(i)' \in Int /\ Slack(i) >= 0
    BY StepSlack DEF SlackLeft
  <2>2. ASSUME NEW t \in Tasks, task[t].pc # "idle", Slack(i)' >= -Others(t, i)
        PROVE  Slack(i)' >= 0
    BY <2>2, AloneNothingPending
  <2> QED
    BY <2>1, <2>2, StepSlack
<1>3. TInv /\ SlackLeft => NoOversell
  <2> SUFFICES ASSUME TInv, SlackLeft, NEW i \in Ingredients PROVE stock[i] >= 0
    BY DEF NoOversell
  <2>1. stock[i] \in Int /\ SumFunctionOnSet(Pendings(i), Tasks) \in Nat /\ Slack(i) >= 0
    BY SlackType DEF SlackLeft
  <2> QED
    BY <2>1 DEF Slack
<1> HIDE DEF Serial
<1>4. Spec /\ []Serial => []NoOversell
  BY InitTInv, NextTInv, <1>1, <1>2, <1>3, PTL DEF Spec
<1> QED
  BY <1>4, PTL DEF NoOversellIfSerial, Serial
=============================================================================
