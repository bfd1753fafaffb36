---------------------------- MODULE SumTheorems ----------------------------
(***************************************************************************)
(* Facts about SumFunctionOnSet(f, S), by which the models add up the      *)
(* accounts of all owners, pools and wallets.  The induction theorems of   *)
(* the library take an operator as a parameter; here the property that is  *)
(* shown by induction is a SET of numbers or of subsets, from which a      *)
(* smallest counterexample is taken.                                       *)
(***************************************************************************)
EXTENDS Functions, FiniteSetTheorems, WellFoundedInduction, TLAPS

\* Every non-empty set of natural numbers has a smallest element.
LEMMA SmallestElement ==
  ASSUME NEW T \in SUBSET Nat, T # {}
  PROVE  \E x \in T : \A y \in T : x <= y
<1> DEFINE R == OpToRel(<, Nat)
<1>1. IsWellFoundedOn(R, Nat)
  BY NatLessThanWellFounded
<1> HIDE DEF R
<1>2. PICK x \in T : \A y \in T : ~ (<<y, x>> \in R)
  BY <1>1, WFMin
<1>3. ASSUME NEW y \in T PROVE x <= y
  <2>1. y \in Nat /\ x \in Nat
    OBVIOUS
  <2>2. CASE y < x
    <3>1. <<y, x>> \in R
      BY <2>1, <2>2 DEF R, OpToRel
    <3> QED BY <3>1, <1>2
  <2> QED BY <2>1, <2>2
<1> QED BY <1>3

\* A set that holds 0 and, with a number, the next one holds every natural number.
LEMMA CountingInduction ==
  ASSUME NEW U, 0 \in U, \A n \in Nat : n \in U => n + 1 \in U
  PROVE  Nat \subseteq U
<1> SUFFICES ASSUME Nat \ U # {} PROVE FALSE
  OBVIOUS
<1>1. PICK x \in Nat \ U : \A y \in Nat \ U : x <= y
  BY SmallestElement
<1>2. x # 0
  OBVIOUS
<1>3. x - 1 \in Nat /\ ~(x <= x - 1) /\ x = (x - 1) + 1
  BY <1>2
<1>4. x - 1 \in U
  BY <1>1, <1>3
<1> QED BY <1>3, <1>4

\* A family that holds the empty set and, with a subset of a finite S, the subset
\* with one more element holds S.
LEMMA SubsetInduction ==
  ASSUME NEW S, IsFiniteSet(S), NEW U, {} \in U,
         \A T \in SUBSET S : \A x \in S \ T : T \in U => T \cup {x} \in U
  PROVE  S \in U
<1> DEFINE N == {n \in Nat : \A T \in SUBSET S : Cardinality(T) = n => T \in U}
<1>0. \A T \in SUBSET S : IsFiniteSet(T) /\ Cardinality(T) \in Nat
  BY FS_Subset, FS_CardinalityType
<1>1. 0 \in N
  <2> SUFFICES ASSUME NEW T \in SUBSET S, Cardinality(T) = 0 PROVE T \in U
    OBVIOUS
  <2>1. T = {}
    BY <1>0, FS_EmptySet
  <2> QED BY <2>1
<1>2. ASSUME NEW n \in Nat, n \in N PROVE n + 1 \in N
  <2> SUFFICES ASSUME NEW T \in SUBSET S, Cardinality(T) = n + 1 PROVE T \in U
    OBVIOUS
  <2>0. Cardinality({}) = 0
    BY FS_EmptySet
  <2>1. T # {}
    BY <2>0
  <2>2. PICK x : x \in T
    BY <2>1
  <2>3. Cardinality(T \ {x}) = n
    <3>1. Cardinality(T \ {x}) = IF x \in T THEN Cardinality(T) - 1 ELSE Cardinality(T)
      BY <1>0, FS_RemoveElement
    <3> QED BY <2>2, <3>1
  <2>4. T \ {x} \in U
    BY <1>2, <2>3
  <2>5. T = (T \ {x}) \cup {x} /\ x \in S \ (T \ {x})
    BY <2>2
  <2> QED BY <2>4, <2>5
<1> HIDE DEF N
<1>3. Nat \subseteq N
  BY <1>1, <1>2, CountingInduction
<1> QED BY <1>0, <1>3 DEF N

(***************************************************************************)
(* SumFunctionOnSet takes away one chosen element after another; Table is  *)
(* the recursive function it is defined by.                                *)
(***************************************************************************)
Pick(T) == CHOOSE x \in T : TRUE

Unfolds(g, f, D) ==
  g = [T \in D |-> IF T = {} THEN 0 ELSE f[Pick(T)] + g[T \ {Pick(T)}]]

Table(f, S) == CHOOSE g : Unfolds(g, f, SUBSET S)

\* The sum over S is the entry for S of a table over the subsets of S.
LEMMA SumIsTable ==
  ASSUME NEW f, NEW S
  PROVE  SumFunctionOnSet(f, S) = Table(f, S)[S]
BY DEF SumFunctionOnSet, FoldFunctionOnSet, MapThenFoldSet, Table, Unfolds, Pick

Upto(S, n) == {T \in SUBSET S : Cardinality(T) <= n}

\* A finite set has one element fewer without one of its elements.
LEMMA CardinalityRemove ==
  ASSUME NEW S, IsFiniteSet(S), NEW x \in S
  PROVE  /\ IsFiniteSet(S \ {x}) /\ Cardinality(S \ {x}) \in Nat
         /\ Cardinality(S) = Cardinality(S \ {x}) + 1
<1>1. /\ IsFiniteSet(S \ {x})
      /\ Cardinality(S \ {x}) = IF x \in S THEN Cardinality(S) - 1 ELSE Cardinality(S)
  BY FS_RemoveElement
<1>2. Cardinality(S \ {x}) \in Nat /\ Cardinality(S) \in Nat
  BY <1>1, FS_CardinalityType
<1> QED BY <1>1, <1>2

\* There is such a table: one for the subsets of n + 1 elements extends one for n.
LEMMA TableExists ==
  ASSUME NEW f, NEW S, IsFiniteSet(S)
  PROVE  \E g : Unfolds(g, f, SUBSET S)
<1> DEFINE N == {n \in Nat : \E g : Unfolds(g, f, Upto(S, n))}
<1>0. \A T \in SUBSET S : IsFiniteSet(T) /\ Cardinality(T) \in Nat
  BY FS_Subset, FS_CardinalityType
<1>p. \A T \in SUBSET S : T # {} => /\ Pick(T) \in T
                                   /\ T \ {Pick(T)} \in SUBSET S
                                   /\ Cardinality(T) = Cardinality(T \ {Pick(T)}) + 1
  <2> SUFFICES ASSUME NEW T \in SUBSET S, T # {}
               PROVE  Pick(T) \in T /\ T \ {Pick(T)} \in SUBSET S /\ Cardinality(T) = Cardinality(T \ {Pick(T)}) + 1
    OBVIOUS
  <2>1. Pick(T) \in T
    BY DEF Pick
  <2> QED BY <1>0, <2>1, CardinalityRemove
<1>1. 0 \in N
  <2> DEFINE g == [T \in Upto(S, 0) |-> 0]
  <2>1. \A T \in Upto(S, 0) : T = {}
    <3> SUFFICES ASSUME NEW T \in Upto(S, 0) PROVE T = {}
      OBVIOUS
    <3>1. IsFiniteSet(T) /\ Cardinality(T) = 0
      BY <1>0 DEF Upto
    <3> QED BY <3>1, FS_EmptySet
  <2>2. Unfolds(g, f, Upto(S, 0))
    BY <2>1 DEF Unfolds
  <2> QED BY <2>2
<1>2. ASSUME NEW n \in Nat, n \in N PROVE n + 1 \in N
  <2>1. PICK g : Unfolds(g, f, Upto(S, n))
    BY <1>2
  <2> DEFINE h == [T \in Upto(S, n + 1) |-> IF T = {} THEN 0 ELSE f[Pick(T)] + g[T \ {Pick(T)}]]
  <2>2. \A T \in Upto(S, n) : T \in Upto(S, n + 1) /\ h[T] = g[T]
    <3> SUFFICES ASSUME NEW T \in Upto(S, n)
                 PROVE  T \in Upto(S, n + 1) /\ h[T] = g[T]
      OBVIOUS
    <3>1. T \in Upto(S, n + 1)
      BY <1>0 DEF Upto
    <3>2. g[T] = IF T = {} THEN 0 ELSE f[Pick(T)] + g[T \ {Pick(T)}]
      BY <2>1 DEF Unfolds
    <3> QED BY <3>1, <3>2
  <2>3. \A T \in Upto(S, n + 1) : T # {} => T \ {Pick(T)} \in Upto(S, n)
    BY <1>0, <1>p DEF Upto
  <2>4. h = [T \in Upto(S, n + 1) |-> IF T = {} THEN 0 ELSE f[Pick(T)] + h[T \ {Pick(T)}]]
    BY <2>2, <2>3
  <2>5. Unfolds(h, f, Upto(S, n + 1))
    BY <2>4 DEF Unfolds
  <2> QED BY <2>5
<1> HIDE DEF N
<1>3. Nat \subseteq N
  BY <1>1, <1>2, CountingInduction
<1>4. SUBSET S = Upto(S, Cardinality(S))
  <2>1. \A T \in SUBSET S : Cardinality(T) <= Cardinality(S)
    BY FS_Subset
  <2> QED BY <2>1 DEF Upto
<1>5. Cardinality(S) \in N
  BY <1>0, <1>3
<1>6. PICK g : Unfolds(g, f, Upto(S, Cardinality(S)))
  BY <1>5 DEF N
<1>7. Unfolds(g, f, SUBSET S)
  BY <1>4, <1>6
<1> QED BY <1>7

\* The table of a finite set satisfies its own equation.
LEMMA TableUnfolds ==
  ASSUME NEW f, NEW S, IsFiniteSet(S)
  PROVE  /\ Table(f, S)[{}] = 0
         /\ \A T \in SUBSET S : T # {} =>
              Table(f, S)[T] = f[Pick(T)] + Table(f, S)[T \ {Pick(T)}]
<1>1. Unfolds(Table(f, S), f, SUBSET S)
  BY TableExists DEF Table
<1> DEFINE g == Table(f, S)
<1> HIDE DEF g
<1>2. \A T \in SUBSET S : g[T] = IF T = {} THEN 0 ELSE f[Pick(T)] + g[T \ {Pick(T)}]
  BY <1>1 DEF Unfolds, g
<1>3. {} \in SUBSET S
  OBVIOUS
<1> QED BY <1>2, <1>3 DEF g

\* Two tables agree on the sets whose elements they agree on.
LEMMA TablesAgree ==
  ASSUME NEW f, NEW e, NEW S, NEW R, IsFiniteSet(S), IsFiniteSet(R),
         NEW Q, Q \subseteq S, Q \subseteq R, \A x \in Q : f[x] = e[x]
  PROVE  Table(f, S)[Q] = Table(e, R)[Q]
<1> DEFINE g == Table(f, S)
           h == Table(e, R)
           N == {n \in Nat : \A T \in SUBSET Q : Cardinality(T) = n => g[T] = h[T]}
<1>0. \A T \in SUBSET Q : IsFiniteSet(T) /\ Cardinality(T) \in Nat
  BY FS_Subset, FS_CardinalityType
<1>1. g[{}] = 0 /\ h[{}] = 0
  BY TableUnfolds
<1>2. \A T \in SUBSET Q : T # {} => /\ g[T] = f[Pick(T)] + g[T \ {Pick(T)}]
                                   /\ h[T] = e[Pick(T)] + h[T \ {Pick(T)}]
  BY TableUnfolds
<1> HIDE DEF g, h
<1>3. 0 \in N
  <2> SUFFICES ASSUME NEW T \in SUBSET Q, Cardinality(T) = 0 PROVE g[T] = h[T]
    OBVIOUS
  <2>1. T = {}
    BY <1>0, FS_EmptySet
  <2> QED BY <1>1, <2>1
<1>4. ASSUME NEW n \in Nat, n \in N PROVE n + 1 \in N
  <2> SUFFICES ASSUME NEW T \in SUBSET Q, Cardinality(T) = n + 1 PROVE g[T] = h[T]
    OBVIOUS
  <2>0. Cardinality({}) = 0
    BY FS_EmptySet
  <2>1. T # {}
    BY <2>0
  <2>2. Pick(T) \in T
    BY <2>1 DEF Pick
  <2>3. Cardinality(T \ {Pick(T)}) = n
    <3>1. IsFiniteSet(T) /\ Cardinality(T \ {Pick(T)}) \in Nat
      BY <1>0
    <3>2. Cardinality(T) = Cardinality(T \ {Pick(T)}) + 1
      BY <2>2, <3>1, CardinalityRemove
    <3> QED BY <3>1, <3>2
  <2>4. g[T \ {Pick(T)}] = h[T \ {Pick(T)}]
    BY <1>4, <2>3
  <2>5. f[Pick(T)] = e[Pick(T)]
    BY <2>2
  <2> QED BY <1>2, <2>1, <2>4, <2>5
<1> HIDE DEF N
<1>5. Nat \subseteq N
  BY <1>3, <1>4, CountingInduction
<1>6. g[Q] = h[Q]
  BY <1>0, <1>5 DEF N
<1> QED BY <1>6 DEF g, h

\* The sum depends only on the values at the elements of the set.
LEMMA SumEqual ==
  ASSUME NEW f, NEW e, NEW S, IsFiniteSet(S), \A x \in S : f[x] = e[x]
  PROVE  SumFunctionOnSet(f, S) = SumFunctionOnSet(e, S)
BY SumIsTable, TablesAgree

\* The sum over nothing is zero.
LEMMA SumEmpty ==
  ASSUME NEW f
  PROVE  SumFunctionOnSet(f, {}) = 0
<1>1. IsFiniteSet({})
  BY FS_EmptySet
<1> QED BY <1>1, SumIsTable, TableUnfolds

\* The sum takes the chosen element first.
LEMMA SumPick ==
  ASSUME NEW f, NEW S, IsFiniteSet(S), S # {}
  PROVE  /\ Pick(S) \in S
         /\ SumFunctionOnSet(f, S) = f[Pick(S)] + SumFunctionOnSet(f, S \ {Pick(S)})
<1>1. Pick(S) \in S
  BY DEF Pick
<1>2. IsFiniteSet(S \ {Pick(S)})
  BY FS_Subset
<1>3. Table(f, S)[S] = f[Pick(S)] + Table(f, S)[S \ {Pick(S)}]
  BY TableUnfolds
<1>4. Table(f, S)[S \ {Pick(S)}] = Table(f, S \ {Pick(S)})[S \ {Pick(S)}]
  <2> DEFINE Q == S \ {Pick(S)}
  <2>1. Q \subseteq S /\ Q \subseteq Q /\ \A x \in Q : f[x] = f[x]
    OBVIOUS
  <2> HIDE DEF Q
  <2>2. Table(f, S)[Q] = Table(f, Q)[Q]
    BY <2>1, <1>2, TablesAgree DEF Q
  <2> QED BY <2>2 DEF Q
<1> QED BY <1>1, <1>3, <1>4, SumIsTable

\* A sum of integers is an integer.
LEMMA SumInt ==
  ASSUME NEW f, NEW S, IsFiniteSet(S), \A x \in S : f[x] \in Int
  PROVE  SumFunctionOnSet(f, S) \in Int
<1> DEFINE U == {n \in Nat : \A T \in SUBSET S : Cardinality(T) = n =>
                                 SumFunctionOnSet(f, T) \in Int}
<1>0. \A T \in SUBSET S : IsFiniteSet(T) /\ Cardinality(T) \in Nat
  BY FS_Subset, FS_CardinalityType
<1>1. 0 \in U
  <2> SUFFICES ASSUME NEW T \in SUBSET S, Cardinality(T) = 0
               PROVE  SumFunctionOnSet(f, T) \in Int
    OBVIOUS
  <2>1. T = {}
    BY <1>0, FS_EmptySet
  <2>2. SumFunctionOnSet(f, {}) = 0
    BY SumEmpty
  <2> QED BY <2>1, <2>2
<1>2. ASSUME NEW n \in Nat, n \in U PROVE n + 1 \in U
  <2> SUFFICES ASSUME NEW T \in SUBSET S, Cardinality(T) = n + 1
               PROVE  SumFunctionOnSet(f, T) \in Int
    OBVIOUS
  <2>0. Cardinality({}) = 0
    BY FS_EmptySet
  <2>1. T # {} /\ IsFiniteSet(T)
    BY <1>0, <2>0
  <2> DEFINE p == Pick(T)
  <2>2. p \in T /\ SumFunctionOnSet(f, T) = f[p] + SumFunctionOnSet(f, T \ {p})
    BY <2>1, SumPick
  <2> HIDE DEF p
  <2>3. Cardinality(T) = Cardinality(T \ {p}) + 1 /\ Cardinality(T \ {p}) \in Nat
    BY <2>1, <2>2, CardinalityRemove
  <2>4. SumFunctionOnSet(f, T \ {p}) \in Int
    BY <1>2, <2>3
  <2>5. f[p] \in Int
    BY <2>2
  <2> QED BY <2>2, <2>4, <2>5
<1> HIDE DEF U
<1>3. Nat \subseteq U
  BY <1>1, <1>2, CountingInduction
<1> QED BY <1>0, <1>3 DEF U

\* Any element of the set may be taken first.
LEMMA SumRemove ==
  ASSUME NEW f, NEW S, IsFiniteSet(S), \A x \in S : f[x] \in Int, NEW x \in S
  PROVE  SumFunctionOnSet(f, S) = f[x] + SumFunctionOnSet(f, S \ {x})
<1> DEFINE U == {n \in Nat : \A T \in SUBSET S : Cardinality(T) = n =>
                   \A y \in T : SumFunctionOnSet(f, T)
                                  = f[y] + SumFunctionOnSet(f, T \ {y})}
<1>0. \A T \in SUBSET S : IsFiniteSet(T) /\ Cardinality(T) \in Nat
  BY FS_Subset, FS_CardinalityType
<1>i. \A T \in SUBSET S : SumFunctionOnSet(f, T) \in Int
  BY <1>0, SumInt
<1>1. 0 \in U
  <2> SUFFICES ASSUME NEW T \in SUBSET S, Cardinality(T) = 0
               PROVE  \A y \in T : SumFunctionOnSet(f, T)
                                  = f[y] + SumFunctionOnSet(f, T \ {y})
    OBVIOUS
  <2>1. T = {}
    BY <1>0, FS_EmptySet
  <2> QED BY <2>1
<1>2. ASSUME NEW n \in Nat, n \in U PROVE n + 1 \in U
  <2> SUFFICES ASSUME NEW T \in SUBSET S, Cardinality(T) = n + 1, NEW y \in T
               PROVE  SumFunctionOnSet(f, T) = f[y] + SumFunctionOnSet(f, T \ {y})
    OBVIOUS
  <2>1. T # {} /\ IsFiniteSet(T)
    BY <1>0
  <2> DEFINE p == Pick(T)
  <2>2. p \in T /\ SumFunctionOnSet(f, T) = f[p] + SumFunctionOnSet(f, T \ {p})
    BY <2>1, SumPick
  <2> HIDE DEF p
  <2>3. ASSUME NEW z \in T PROVE Cardinality(T \ {z}) = n
    <3>1. Cardinality(T) = Cardinality(T \ {z}) + 1 /\ Cardinality(T \ {z}) \in Nat
      BY <2>1, CardinalityRemove
    <3> QED BY <3>1
  <2>4. \A z \in T : \A w \in T \ {z} :
          SumFunctionOnSet(f, T \ {z}) = f[w] + SumFunctionOnSet(f, (T \ {z}) \ {w})
    BY <1>2, <2>3
  <2>5. CASE y = p
    BY <2>2, <2>5
  <2>6. CASE y # p
    <3> DEFINE Q == (T \ {p}) \ {y}
    <3>1. Q = (T \ {y}) \ {p}
      OBVIOUS
    <3>2. SumFunctionOnSet(f, T \ {p}) = f[y] + SumFunctionOnSet(f, Q)
      BY <2>2, <2>4, <2>6
    <3>3. SumFunctionOnSet(f, T \ {y}) = f[p] + SumFunctionOnSet(f, Q)
      BY <2>2, <2>4, <2>6, <3>1
    <3>4. SumFunctionOnSet(f, Q) \in Int
      BY <1>i
    <3>5. f[p] \in Int /\ f[y] \in Int
      BY <2>2
    <3> HIDE DEF Q
    <3> QED BY <2>2, <3>2, <3>3, <3>4, <3>5
  <2> QED BY <2>5, <2>6
<1> HIDE DEF U
<1>3. Nat \subseteq U
  BY <1>1, <1>2, CountingInduction
<1> QED BY <1>0, <1>3 DEF U

\* One more element adds its value.
LEMMA SumAdd ==
  ASSUME NEW f, NEW S, IsFiniteSet(S), NEW x, x \notin S,
         \A y \in S \cup {x} : f[y] \in Int
  PROVE  SumFunctionOnSet(f, S \cup {x}) = f[x] + SumFunctionOnSet(f, S)
<1>1. IsFiniteSet(S \cup {x}) /\ x \in S \cup {x} /\ (S \cup {x}) \ {x} = S
  BY FS_AddElement
<1> DEFINE R == S \cup {x}
<1>2. SumFunctionOnSet(f, R) = f[x] + SumFunctionOnSet(f, R \ {x})
  BY <1>1, SumRemove
<1> QED BY <1>1, <1>2

\* Two functions that agree everywhere but at x have sums that differ by as much.
LEMMA SumUpdate ==
  ASSUME NEW f, NEW e, NEW S, IsFiniteSet(S), NEW x \in S,
         \A y \in S : f[y] \in Int /\ e[y] \in Int,
         \A y \in S : y # x => f[y] = e[y]
  PROVE  SumFunctionOnSet(e, S) = (SumFunctionOnSet(f, S) - f[x]) + e[x]
<1> DEFINE R == S \ {x}
<1>1. IsFiniteSet(R) /\ R \subseteq S
  BY FS_Subset
<1>2. SumFunctionOnSet(f, S) = f[x] + SumFunctionOnSet(f, R)
  BY SumRemove
<1>3. SumFunctionOnSet(e, S) = e[x] + SumFunctionOnSet(e, R)
  BY SumRemove
<1>4. SumFunctionOnSet(f, R) = SumFunctionOnSet(e, R)
  <2>1. \A y \in R : f[y] = e[y]
    OBVIOUS
  <2> QED BY <1>1, <2>1, SumEqual
<1>5. SumFunctionOnSet(f, R) \in Int /\ f[x] \in Int /\ e[x] \in Int
  BY <1>1, SumInt
<1> HIDE DEF R
<1> QED BY <1>2, <1>3, <1>4, <1>5

\* Of two sums over one set, the one with the smaller summands is the smaller.
LEMMA SumMonotone ==
  ASSUME NEW f, NEW e, NEW S, IsFiniteSet(S),
         \A x \in S : f[x] \in Int /\ e[x] \in Int /\ f[x] <= e[x]
  PROVE  SumFunctionOnSet(f, S) <= SumFunctionOnSet(e, S)
<1> DEFINE U == {T \in SUBSET S : SumFunctionOnSet(f, T) <= SumFunctionOnSet(e, T)}
<1>1. {} \in U
  <2>1. SumFunctionOnSet(f, {}) = 0 /\ SumFunctionOnSet(e, {}) = 0
    BY SumEmpty
  <2> QED BY <2>1
<1>2. ASSUME NEW T \in SUBSET S, NEW x \in S \ T, T \in U
      PROVE  T \cup {x} \in U
  <2>1. IsFiniteSet(T)
    BY FS_Subset
  <2>2. /\ SumFunctionOnSet(f, T \cup {x}) = f[x] + SumFunctionOnSet(f, T)
        /\ SumFunctionOnSet(e, T \cup {x}) = e[x] + SumFunctionOnSet(e, T)
    BY <2>1, SumAdd
  <2>3. SumFunctionOnSet(f, T) \in Int /\ SumFunctionOnSet(e, T) \in Int
    BY <2>1, SumInt
  <2>4. f[x] \in Int /\ e[x] \in Int /\ f[x] <= e[x]
    OBVIOUS
  <2> QED BY <1>2, <2>2, <2>3, <2>4
<1> HIDE DEF U
<1>3. S \in U
  BY <1>1, <1>2, SubsetInduction
<1> QED BY <1>3 DEF U

\* A sum of non-negative summands is non-negative and at least each of them.
LEMMA SumNat ==
  ASSUME NEW f, NEW S, IsFiniteSet(S), \A x \in S : f[x] \in Nat
  PROVE  /\ SumFunctionOnSet(f, S) \in Nat
         /\ \A x \in S : f[x] <= SumFunctionOnSet(f, S)
<1> DEFINE z == [x \in S |-> 0]
           U == {T \in SUBSET S : SumFunctionOnSet(f, T) \in Nat}
<1>1. {} \in U
  BY SumEmpty
<1>2. ASSUME NEW T \in SUBSET S, NEW x \in S \ T, T \in U
      PROVE  T \cup {x} \in U
  <2>1. IsFiniteSet(T) /\ \A y \in T \cup {x} : f[y] \in Int
    BY FS_Subset
  <2>2. SumFunctionOnSet(f, T \cup {x}) = f[x] + SumFunctionOnSet(f, T)
    BY <2>1, SumAdd
  <2> QED BY <1>2, <2>2
<1>3. \A T \in SUBSET S : IsFiniteSet(T) /\ \A T2 \in SUBSET T : IsFiniteSet(T2)
  BY FS_Subset
<1> HIDE DEF U
<1>4. ASSUME NEW T \in SUBSET S PROVE SumFunctionOnSet(f, T) \in Nat
  <2>1. \A T1 \in SUBSET T : \A x \in T \ T1 : T1 \in U => T1 \cup {x} \in U
    BY <1>2
  <2>2. T \in U
    BY <1>1, <1>3, <2>1, SubsetInduction
  <2> QED BY <2>2 DEF U
<1>5. ASSUME NEW x \in S PROVE f[x] <= SumFunctionOnSet(f, S)
  <2>1. \A y \in S : f[y] \in Int
    OBVIOUS
  <2>2. SumFunctionOnSet(f, S) = f[x] + SumFunctionOnSet(f, S \ {x})
    BY <2>1, SumRemove
  <2>3. SumFunctionOnSet(f, S \ {x}) \in Nat /\ f[x] \in Nat
    BY <1>4
  <2> QED BY <2>2, <2>3
<1> QED BY <1>4, <1>5

\* A sum of zeros is zero.
LEMMA SumZero ==
  ASSUME NEW f, NEW S, IsFiniteSet(S), \A x \in S : f[x] = 0
  PROVE  SumFunctionOnSet(f, S) = 0
<1> DEFINE U == {T \in SUBSET S : SumFunctionOnSet(f, T) = 0}
<1>1. {} \in U
  BY SumEmpty
<1>2. ASSUME NEW T \in SUBSET S, NEW x \in S \ T, T \in U
      PROVE  T \cup {x} \in U
  <2>1. IsFiniteSet(T) /\ \A y \in T \cup {x} : f[y] \in Int
    BY FS_Subset
  <2>2. SumFunctionOnSet(f, T \cup {x}) = f[x] + SumFunctionOnSet(f, T)
    BY <2>1, SumAdd
  <2> QED BY <1>2, <2>2
<1> HIDE DEF U
<1>3. S \in U
  BY <1>1, <1>2, SubsetInduction
<1> QED BY <1>3 DEF U

\* The sum of a pointwise sum.
LEMMA SumPlus ==
  ASSUME NEW f, NEW e, NEW d, NEW S, IsFiniteSet(S),
         \A x \in S : f[x] \in Int /\ e[x] \in Int /\ d[x] = f[x] + e[x]
  PROVE  SumFunctionOnSet(d, S) = SumFunctionOnSet(f, S) + SumFunctionOnSet(e, S)
<1> DEFINE U == {T \in SUBSET S : SumFunctionOnSet(d, T)
                     = SumFunctionOnSet(f, T) + SumFunctionOnSet(e, T)}
<1>1. {} \in U
  <2>1. SumFunctionOnSet(f, {}) = 0 /\ SumFunctionOnSet(e, {}) = 0 /\ SumFunctionOnSet(d, {}) = 0
    BY SumEmpty
  <2> QED BY <2>1
<1>2. ASSUME NEW T \in SUBSET S, NEW x \in S \ T, T \in U
      PROVE  T \cup {x} \in U
  <2>1. IsFiniteSet(T)
    BY FS_Subset
  <2>2. \A y \in T \cup {x} : f[y] \in Int /\ e[y] \in Int /\ d[y] \in Int
    OBVIOUS
  <2>3. /\ SumFunctionOnSet(f, T \cup {x}) = f[x] + SumFunctionOnSet(f, T)
        /\ SumFunctionOnSet(e, T \cup {x}) = e[x] + SumFunctionOnSet(e, T)
        /\ SumFunctionOnSet(d, T \cup {x}) = d[x] + SumFunctionOnSet(d, T)
    BY <2>1, <2>2, SumAdd
  <2>4. SumFunctionOnSet(f, T) \in Int /\ SumFunctionOnSet(e, T) \in Int
    BY <2>1, SumInt
  <2>5. f[x] \in Int /\ e[x] \in Int /\ d[x] = f[x] + e[x]
    OBVIOUS
  <2> QED BY <1>2, <2>3, <2>4, <2>5
<1> HIDE DEF U
<1>3. S \in U
  BY <1>1, <1>2, SubsetInduction
<1> QED BY <1>3 DEF U

\* The sum of a multiple.
LEMMA SumScale ==
  ASSUME NEW f, NEW e, NEW k \in Int, NEW S, IsFiniteSet(S),
         \A x \in S : f[x] \in Int /\ e[x] = k * f[x]
  PROVE  SumFunctionOnSet(e, S) = k * SumFunctionOnSet(f, S)
<1> DEFINE U == {T \in SUBSET S : SumFunctionOnSet(e, T) = k * SumFunctionOnSet(f, T)}
<1>1. {} \in U
  <2>1. SumFunctionOnSet(f, {}) = 0 /\ SumFunctionOnSet(e, {}) = 0
    BY SumEmpty
  <2> QED BY <2>1
<1>2. ASSUME NEW T \in SUBSET S, NEW x \in S \ T, T \in U
      PROVE  T \cup {x} \in U
  <2>1. IsFiniteSet(T)
    BY FS_Subset
  <2>2. \A y \in T \cup {x} : f[y] \in Int /\ e[y] \in Int
    OBVIOUS
  <2>3. /\ SumFunctionOnSet(f, T \cup {x}) = f[x] + SumFunctionOnSet(f, T)
        /\ SumFunctionOnSet(e, T \cup {x}) = e[x] + SumFunctionOnSet(e, T)
    BY <2>1, <2>2, SumAdd
  <2>4. SumFunctionOnSet(f, T) \in Int
    BY <2>1, SumInt
  <2>5. f[x] \in Int /\ e[x] = k * f[x] /\ SumFunctionOnSet(e, T) = k * SumFunctionOnSet(f, T)
    BY <1>2
  <2> DEFINE a == f[x]
             b == SumFunctionOnSet(f, T)
  <2>6. k * (a + b) = k * a + k * b
    BY <2>4, <2>5
  <2> QED BY <2>3, <2>5, <2>6
<1> HIDE DEF U
<1>3. S \in U
  BY <1>1, <1>2, SubsetInduction
<1> QED BY <1>3 DEF U
=============================================================================
