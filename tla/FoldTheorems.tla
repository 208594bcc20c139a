---------------------------- MODULE FoldTheorems ----------------------------
(***************************************************************************)
(* What the folds of the community modules return: sums over a finite set, *)
(* for the ledger's costs and the placement's bytes, and the table that    *)
(* any fold fills.  SumFunctionOnSet removes an element that CHOOSE picks, *)
(* over and over; the lemmas below show that the order does not matter and *)
(* that the sum adds, grows and is bounded as one expects.                 *)
(*                                                                         *)
(* The induction they rest on is over a set, not over a predicate: a set   *)
(* of naturals that is not empty has a least element.                      *)
(***************************************************************************)
EXTENDS Integers, FiniteSets, FiniteSetsExt, FiniteSetTheorems,
        WellFoundedInduction, TLAPS

LEMMA LeastNat ==
  ASSUME NEW T, T \subseteq Nat, T # {}
  PROVE  \E n \in T : \A m \in T : n <= m
<1> DEFINE R == OpToRel(<, Nat)
<1>1. IsWellFoundedOn(R, Nat)
  BY NatLessThanWellFounded
<1>2. ASSUME NEW m \in T, NEW n \in T, m < n
      PROVE  <<m, n>> \in R
  BY <1>2 DEF OpToRel
<1> HIDE DEF R
<1>3. PICK n \in T : \A m \in T : ~(<<m, n>> \in R)
  BY <1>1, WFMin
<1>4. ASSUME NEW m \in T
      PROVE  n <= m
  <2>1. ~(m < n)
    BY <1>2, <1>3
  <2> QED
    BY <2>1
<1> QED
  BY <1>4

LEMMA MinNat ==
  ASSUME NEW T, T \subseteq Nat, T # {}
  PROVE  Min(T) \in T /\ \A m \in T : Min(T) <= m
  BY LeastNat DEF Min

(* A set that holds 0 and the successor of each of its naturals.           *)
LEMMA SetInduction ==
  ASSUME NEW T, 0 \in T, \A n \in Nat : n \in T => n + 1 \in T
  PROVE  Nat \subseteq T
<1> SUFFICES ASSUME Nat \ T # {}
             PROVE  FALSE
  OBVIOUS
<1>1. PICK n \in Nat \ T : \A m \in Nat \ T : n <= m
  BY LeastNat
<1>2. n - 1 \in Nat /\ n - 1 \in T
  BY <1>1
<1> QED
  BY <1>1, <1>2

(* A family that holds a subset of S as soon as it holds the smaller ones. *)
LEMMA SizeInduction ==
  ASSUME NEW S, IsFiniteSet(S), NEW T,
         \A s \in SUBSET S :
           (\A r \in SUBSET S : Cardinality(r) < Cardinality(s) => r \in T) => s \in T
  PROVE  \A s \in SUBSET S : s \in T
<1> DEFINE N == { Cardinality(s) : s \in (SUBSET S) \ T }
<1> SUFFICES ASSUME NEW z \in (SUBSET S) \ T
             PROVE  FALSE
  OBVIOUS
<1>1. N \subseteq Nat
  BY FS_Subset, FS_CardinalityType
<1>2. PICK n \in N : \A m \in N : n <= m
  <2>1. N # {}
    OBVIOUS
  <2> HIDE DEF N
  <2> QED
    BY <1>1, <2>1, LeastNat
<1>3. PICK s \in (SUBSET S) \ T : Cardinality(s) = n
  OBVIOUS
<1>4. ASSUME NEW r \in SUBSET S, Cardinality(r) < n
      PROVE  r \in T
  <2>1. ASSUME r \notin T
        PROVE  FALSE
    <3>1. Cardinality(r) \in N
      BY <2>1
    <3>2. n <= Cardinality(r) /\ n \in Nat /\ Cardinality(r) \in Nat
      BY <1>1, <1>2, <3>1
    <3> QED
      BY <1>4, <3>2
  <2> QED
    BY <2>1
<1> QED
  BY <1>3, <1>4

(* What removing an element does, in the form the inductions need.         *)
LEMMA Smaller ==
  ASSUME NEW s, IsFiniteSet(s), NEW x \in s
  PROVE  /\ IsFiniteSet(s \ {x})
         /\ Cardinality(s \ {x}) < Cardinality(s)
         /\ (s \ {x}) \cup {x} = s
<1>1. Cardinality(s \ {x}) = Cardinality(s) - 1
  BY FS_RemoveElement, Zenon
<1> QED
  BY <1>1, FS_CardinalityType, FS_RemoveElement

(* A family of subsets that holds the empty set and grows by one element.  *)
LEMMA SubsetInduction ==
  ASSUME NEW S, IsFiniteSet(S), NEW T, {} \in T,
         \A s \in SUBSET S, x \in S : s \in T /\ x \notin s => s \cup {x} \in T
  PROVE  S \in T
<1>1. ASSUME NEW s \in SUBSET S,
             \A r \in SUBSET S : Cardinality(r) < Cardinality(s) => r \in T
      PROVE  s \in T
  <2>1. CASE s = {}
    BY <2>1
  <2>2. CASE s # {}
    <3>1. PICK x \in s : TRUE
      BY <2>2
    <3>2. IsFiniteSet(s)
      BY FS_Subset
    <3>3. s \ {x} \in T
      BY <1>1, <3>1, <3>2, Smaller
    <3>4. (s \ {x}) \cup {x} \in T
      BY <3>1, <3>3
    <3> QED
      BY <3>1, <3>2, <3>4, Smaller
  <2> QED
    BY <2>1, <2>2
<1> QED
  BY <1>1, SizeInduction

(* Every finite set of integers that is not empty has a largest element.   *)
LEMMA MaxExists ==
  ASSUME NEW S, IsFiniteSet(S), S \subseteq Int, S # {}
  PROVE  Max(S) \in S /\ \A y \in S : Max(S) >= y
<1> DEFINE T == { s \in SUBSET S : s = {} \/ \E x \in s : \A y \in s : x >= y }
<1>1. ASSUME NEW s \in SUBSET S, NEW x \in S, s \in T, x \notin s
      PROVE  s \cup {x} \in T
  <2>1. CASE s = {}
    BY <2>1
  <2>2. CASE s # {}
    <3>1. PICK m \in s : \A y \in s : m >= y
      BY <1>1, <2>2
    <3>2. CASE m >= x
      BY <3>1, <3>2
    <3>3. CASE ~(m >= x)
      <4>1. \A y \in s \cup {x} : x >= y
        BY <3>1, <3>3
      <4> QED
        BY <4>1
    <3> QED
      BY <3>2, <3>3
  <2> QED
    BY <2>1, <2>2
<1>2. {} \in T
  OBVIOUS
<1> HIDE DEF T
<1>3. S \in T
  BY <1>1, <1>2, SubsetInduction
<1>4. \E x \in S : \A y \in S : x >= y
  BY <1>3 DEF T
<1> QED
  BY <1>4 DEF Max

(* Every finite set of integers that is not empty has a smallest element.  *)
LEMMA MinExists ==
  ASSUME NEW S, IsFiniteSet(S), S \subseteq Int, S # {}
  PROVE  Min(S) \in S /\ \A y \in S : Min(S) <= y
<1> DEFINE T == { s \in SUBSET S : s = {} \/ \E x \in s : \A y \in s : x <= y }
<1>1. ASSUME NEW s \in SUBSET S, NEW x \in S, s \in T, x \notin s
      PROVE  s \cup {x} \in T
  <2>1. CASE s = {}
    BY <2>1
  <2>2. CASE s # {}
    <3>1. PICK m \in s : \A y \in s : m <= y
      BY <1>1, <2>2
    <3>2. CASE m <= x
      BY <3>1, <3>2
    <3>3. CASE ~(m <= x)
      <4>1. \A y \in s \cup {x} : x <= y
        BY <3>1, <3>3
      <4> QED
        BY <4>1
    <3> QED
      BY <3>2, <3>3
  <2> QED
    BY <2>1, <2>2
<1>2. {} \in T
  OBVIOUS
<1> HIDE DEF T
<1>3. S \in T
  BY <1>1, <1>2, SubsetInduction
<1>4. \E x \in S : \A y \in S : x <= y
  BY <1>3 DEF T
<1> QED
  BY <1>4 DEF Min

-----------------------------------------------------------------------------
(* A fold fills a table over the subsets of S: the entry of s comes from   *)
(* one element that pick names and from the entry of the others.           *)
Filled(S, base, pick, step, table) ==
  \A s \in SUBSET S :
    table[s] = IF s = {} THEN base ELSE step[pick[s]][table[s \ {pick[s]}]]

LEMMA TableExists ==
  ASSUME NEW S, IsFiniteSet(S), NEW V, NEW base \in V,
         NEW pick, \A s \in SUBSET S : s # {} => pick[s] \in s,
         NEW step, \A x \in S, v \in V : step[x][v] \in V
  PROVE  \E table \in [SUBSET S -> V] : Filled(S, base, pick, step, table)
<1> DEFINE Upto(n) == { s \in SUBSET S : Cardinality(s) <= n }
           Entry(s, table) == IF s = {} THEN base ELSE step[pick[s]][table[s \ {pick[s]}]]
           Fills(table, n) == /\ table \in [Upto(n) -> V]
                              /\ \A s \in Upto(n) : table[s] = Entry(s, table)
           N == { n \in Nat : \E table : Fills(table, n) }
<1>0. \A s \in SUBSET S : IsFiniteSet(s) /\ Cardinality(s) \in Nat
  BY FS_Subset, FS_CardinalityType
<1>1. 0 \in N
  <2>1. \A s \in Upto(0) : s = {}
    BY <1>0, FS_EmptySet
  <2>2. Fills([s \in Upto(0) |-> base], 0)
    BY <2>1
  <2> QED
    BY <2>2
<1>2. ASSUME NEW n \in Nat, n \in N
      PROVE  n + 1 \in N
  <2>1. PICK table : Fills(table, n)
    BY <1>2
  <2> DEFINE more == [s \in Upto(n + 1) |-> Entry(s, table)]
  <2>2. ASSUME NEW s \in Upto(n + 1), s # {}
        PROVE  /\ pick[s] \in s
               /\ s \ {pick[s]} \in Upto(n) /\ s \ {pick[s]} \in Upto(n + 1)
    <3>1. pick[s] \in s
      BY <2>2
    <3>2. Cardinality(s \ {pick[s]}) < Cardinality(s)
      BY <1>0, <3>1, Smaller
    <3> QED
      BY <1>0, <3>1, <3>2
  <2>3. /\ \A s \in Upto(n) : s \in Upto(n + 1)
        /\ \A s \in Upto(n + 1) : s \subseteq S
    BY <1>0
  <2> HIDE DEF Upto
  <2>4. ASSUME NEW s \in Upto(n + 1)
        PROVE  Entry(s, table) \in V
    <3>1. CASE s = {}
      BY <3>1
    <3>2. CASE s # {}
      <4>1. pick[s] \in S /\ table[s \ {pick[s]}] \in V
        BY <2>1, <2>2, <2>3, <3>2
      <4>2. step[pick[s]][table[s \ {pick[s]}]] \in V
        BY <4>1
      <4> QED
        BY <3>2, <4>2
    <3> QED
      BY <3>1, <3>2
  <2>5. ASSUME NEW s \in Upto(n + 1)
        PROVE  more[s] = Entry(s, more)
    <3>1. CASE s = {}
      BY <3>1
    <3>2. CASE s # {}
      <4>1. s \ {pick[s]} \in Upto(n) /\ s \ {pick[s]} \in Upto(n + 1)
        BY <2>2, <3>2
      <4>2. more[s \ {pick[s]}] = table[s \ {pick[s]}]
        BY <2>1, <4>1
      <4> QED
        BY <3>2, <4>2
    <3> QED
      BY <3>1, <3>2
  <2>6. Fills(more, n + 1)
    BY <2>4, <2>5
  <2> HIDE DEF Fills
  <2> QED
    BY <2>6
<1> HIDE DEF N
<1>3. Nat \subseteq N
  BY <1>1, <1>2, SetInduction
<1>4. Cardinality(S) \in N
  BY <1>3, FS_CardinalityType
<1>5. Upto(Cardinality(S)) = SUBSET S
  BY FS_Subset
<1> QED
  BY <1>4, <1>5 DEF N, Filled

(* One turn of a sum, and the table it fills: unfolding the sum gives a    *)
(* table chosen among those that satisfy the equation.                     *)
Turn(F, s, table) ==
  IF s = {} THEN 0
  ELSE LET x == CHOOSE x \in s : TRUE IN F[x] + table[s \ {x}]

IsTable(F, S, table) == table = [s \in SUBSET S |-> Turn(F, s, table)]

LEMMA SumTableExists ==
  ASSUME NEW F, NEW S, IsFiniteSet(S), \A x \in S : F[x] \in Int
  PROVE  \E table : IsTable(F, S, table)
<1> DEFINE pick == [s \in SUBSET S |-> CHOOSE x \in s : TRUE]
           step == [x \in S |-> [v \in Int |-> F[x] + v]]
<1>1. \A s \in SUBSET S : s # {} => pick[s] \in s
  OBVIOUS
<1>2. \A x \in S, v \in Int : step[x][v] = F[x] + v
  OBVIOUS
<1>t. \A x \in S, v \in Int : step[x][v] \in Int
  OBVIOUS
<1>3. \A s \in SUBSET S : pick[s] = CHOOSE x \in s : TRUE
  OBVIOUS
<1>z. 0 \in Int
  OBVIOUS
<1> HIDE DEF pick, step
<1>4. PICK table \in [SUBSET S -> Int] : Filled(S, 0, pick, step, table)
  BY <1>1, <1>t, <1>z, TableExists
<1>5. ASSUME NEW s \in SUBSET S
      PROVE  table[s] = Turn(F, s, table)
  <2>1. CASE s = {}
    BY <1>4, <2>1 DEF Turn, Filled
  <2>2. CASE s # {}
    <3>1. PICK x : x = pick[s] /\ x = CHOOSE y \in s : TRUE
      BY <1>3
    <3>2. x \in S /\ table[s \ {x}] \in Int
      BY <1>1, <1>4, <2>2, <3>1
    <3>3. table[s] = F[x] + table[s \ {x}]
      BY <1>2, <1>4, <2>2, <3>1, <3>2 DEF Filled
    <3> QED
      BY <2>2, <3>1, <3>3, Zenon DEF Turn
  <2> QED
    BY <2>1, <2>2
<1>6. table = [s \in SUBSET S |-> Turn(F, s, table)]
  BY <1>5
<1> QED
  BY <1>6 DEF IsTable

LEMMA TableUnique ==
  ASSUME NEW F, NEW S, IsFiniteSet(S), NEW f, NEW g, IsTable(F, S, f), IsTable(F, S, g)
  PROVE  \A s \in SUBSET S : f[s] = g[s]
<1> DEFINE T == { s \in SUBSET S : f[s] = g[s] }
<1>1. ASSUME NEW s \in SUBSET S,
             \A r \in SUBSET S : Cardinality(r) < Cardinality(s) => r \in T
      PROVE  s \in T
  <2>1. f[s] = Turn(F, s, f) /\ g[s] = Turn(F, s, g)
    BY DEF IsTable
  <2>2. CASE s = {}
    BY <2>1, <2>2 DEF Turn
  <2>3. CASE s # {}
    <3>1. PICK x : x \in s /\ x = CHOOSE y \in s : TRUE
      BY <2>3
    <3>2. IsFiniteSet(s)
      BY FS_Subset
    <3>3. f[s \ {x}] = g[s \ {x}]
      BY <1>1, <3>1, <3>2, Smaller
    <3>4. f[s] = F[x] + f[s \ {x}] /\ g[s] = F[x] + g[s \ {x}]
      BY <2>1, <2>3, <3>1, Zenon DEF Turn
    <3> QED
      BY <3>3, <3>4
  <2> QED
    BY <2>2, <2>3
<1> HIDE DEF T
<1>2. \A s \in SUBSET S : s \in T
  BY <1>1, SizeInduction
<1> QED
  BY <1>2 DEF T

(* The sum over S is the last entry of a table.                            *)
LEMMA SumIsEntry ==
  ASSUME NEW F, NEW S, IsFiniteSet(S), \A x \in S : F[x] \in Int
  PROVE  \E table : IsTable(F, S, table) /\ SumFunctionOnSet(F, S) = table[S]
<1> DEFINE table == CHOOSE iter : iter = [s \in SUBSET S |-> Turn(F, s, iter)]
<1>1. SumFunctionOnSet(F, S) = table[S]
  BY DEF SumFunctionOnSet, FoldFunctionOnSet, MapThenFoldSet, Turn
<1>2. \E iter : iter = [s \in SUBSET S |-> Turn(F, s, iter)]
  BY SumTableExists DEF IsTable
<1>3. table = [s \in SUBSET S |-> Turn(F, s, table)]
  BY <1>2
<1> HIDE DEF table
<1> QED
  BY <1>1, <1>3 DEF IsTable

(* A table of S restricted to the subsets of T is a table of T.            *)
LEMMA EntryIsSum ==
  ASSUME NEW F, NEW S, IsFiniteSet(S), \A x \in S : F[x] \in Int,
         NEW table, IsTable(F, S, table), NEW T \in SUBSET S
  PROVE  SumFunctionOnSet(F, T) = table[T]
<1> DEFINE part == [s \in SUBSET T |-> table[s]]
<1>1. \A s \in SUBSET T : part[s] = Turn(F, s, table)
  BY DEF IsTable
<1>2. ASSUME NEW s \in SUBSET T
      PROVE  Turn(F, s, table) = Turn(F, s, part)
  <2>1. CASE s = {}
    BY <2>1 DEF Turn
  <2>2. CASE s # {}
    <3>1. PICK x : x = CHOOSE y \in s : TRUE
      OBVIOUS
    <3>2. part[s \ {x}] = table[s \ {x}]
      OBVIOUS
    <3> HIDE DEF part
    <3> QED
      BY <2>2, <3>1, <3>2, Zenon DEF Turn
  <2> QED
    BY <2>1, <2>2
<1>3. part = [s \in SUBSET T |-> Turn(F, s, part)]
  BY <1>1, <1>2
<1>4. IsFiniteSet(T) /\ part[T] = table[T]
  BY FS_Subset
<1> HIDE DEF part
<1>5. IsTable(F, T, part)
  BY <1>3 DEF IsTable
<1>6. PICK own : IsTable(F, T, own) /\ SumFunctionOnSet(F, T) = own[T]
  BY <1>4, SumIsEntry
<1>7. own[T] = part[T]
  BY <1>4, <1>5, <1>6, TableUnique
<1> QED
  BY <1>4, <1>6, <1>7

LEMMA SumUnfold ==
  ASSUME NEW F, NEW S, IsFiniteSet(S), \A x \in S : F[x] \in Int
  PROVE  /\ SumFunctionOnSet(F, {}) = 0
         /\ S # {} => \E x \in S : SumFunctionOnSet(F, S) = F[x] + SumFunctionOnSet(F, S \ {x})
<1>1. PICK table : IsTable(F, S, table)
  BY SumTableExists
<1>2. \A s \in SUBSET S : SumFunctionOnSet(F, s) = table[s] /\ table[s] = Turn(F, s, table)
  <2>1. ASSUME NEW s \in SUBSET S
        PROVE  SumFunctionOnSet(F, s) = table[s]
    BY <1>1, EntryIsSum
  <2>2. \A s \in SUBSET S : table[s] = Turn(F, s, table)
    BY <1>1, Zenon DEF IsTable
  <2> QED
    BY <2>1, <2>2
<1>3. SumFunctionOnSet(F, {}) = 0
  BY <1>2 DEF Turn
<1>4. ASSUME S # {}
      PROVE  \E x \in S : SumFunctionOnSet(F, S) = F[x] + SumFunctionOnSet(F, S \ {x})
  <2>1. PICK x : x \in S /\ x = CHOOSE y \in S : TRUE
    BY <1>4
  <2>2. Turn(F, S, table) = F[x] + table[S \ {x}]
    BY <1>4, <2>1, Zenon DEF Turn
  <2>3. S \in SUBSET S /\ S \ {x} \in SUBSET S
    OBVIOUS
  <2> QED
    BY <1>2, <2>1, <2>2, <2>3
<1> QED
  BY <1>3, <1>4

-----------------------------------------------------------------------------
(* The algebra of sums of integers.                                        *)
LEMMA SumEmpty == ASSUME NEW F PROVE SumFunctionOnSet(F, {}) = 0
  BY SumUnfold, FS_EmptySet

LEMMA SumInt ==
  ASSUME NEW F, NEW S, IsFiniteSet(S), \A x \in S : F[x] \in Int
  PROVE  SumFunctionOnSet(F, S) \in Int
<1> DEFINE T == { s \in SUBSET S : SumFunctionOnSet(F, s) \in Int }
<1>1. ASSUME NEW s \in SUBSET S,
             \A r \in SUBSET S : Cardinality(r) < Cardinality(s) => r \in T
      PROVE  s \in T
  <2>1. IsFiniteSet(s)
    BY FS_Subset
  <2>2. CASE s = {}
    BY <2>2, SumEmpty
  <2>3. CASE s # {}
    <3>1. PICK x \in s : SumFunctionOnSet(F, s) = F[x] + SumFunctionOnSet(F, s \ {x})
      BY <2>1, <2>3, SumUnfold
    <3>2. s \ {x} \in T
      BY <1>1, <2>1, Smaller
    <3> QED
      BY <3>1, <3>2
  <2> QED
    BY <2>2, <2>3
<1> HIDE DEF T
<1>2. S \in T
  BY <1>1, SizeInduction
<1> QED
  BY <1>2 DEF T

(* Any element may be taken out first.                                     *)
LEMMA SumRemove ==
  ASSUME NEW F, NEW S, IsFiniteSet(S), \A x \in S : F[x] \in Int, NEW e \in S
  PROVE  SumFunctionOnSet(F, S) = F[e] + SumFunctionOnSet(F, S \ {e})
<1> DEFINE Sum(s) == SumFunctionOnSet(F, s)
           T == { s \in SUBSET S : \A x \in s : Sum(s) = F[x] + Sum(s \ {x}) }
<1>1. ASSUME NEW s \in SUBSET S
      PROVE  IsFiniteSet(s) /\ Sum(s) \in Int
  BY FS_Subset, SumInt
<1>2. ASSUME NEW s \in SUBSET S, NEW x \in s,
             \A r \in SUBSET S : Cardinality(r) < Cardinality(s) => r \in T
      PROVE  Sum(s) = F[x] + Sum(s \ {x})
  <2>1. PICK c \in s : Sum(s) = F[c] + Sum(s \ {c})
    BY <1>1, SumUnfold
  <2>2. CASE c = x
    BY <2>1, <2>2
  <2>3. CASE c # x
    <3>1. s \ {c} \in T /\ s \ {x} \in T
      BY <1>1, <1>2, Smaller
    <3>2. (s \ {c}) \ {x} = (s \ {x}) \ {c} /\ (s \ {x}) \ {c} \in SUBSET S
      OBVIOUS
    <3>3. PICK rest \in Int : rest = Sum((s \ {x}) \ {c})
      BY <1>1, <3>2
    <3>4. Sum(s \ {c}) = F[x] + rest
      BY <2>3, <3>1, <3>2, <3>3
    <3>5. Sum(s \ {x}) = F[c] + rest
      BY <2>3, <3>1, <3>3
    <3>6. F[c] + (F[x] + rest) = F[x] + (F[c] + rest)
      <4>1. F[c] \in Int /\ F[x] \in Int
        OBVIOUS
      <4> QED
        BY <4>1
    <3> QED
      BY <2>1, <3>4, <3>5, <3>6
  <2> QED
    BY <2>2, <2>3
<1>3. ASSUME NEW s \in SUBSET S,
             \A r \in SUBSET S : Cardinality(r) < Cardinality(s) => r \in T
      PROVE  s \in T
  BY <1>2, <1>3
<1> HIDE DEF T
<1>4. S \in T
  BY <1>3, SizeInduction
<1> QED
  BY <1>4 DEF T

LEMMA SumAdd ==
  ASSUME NEW F, NEW S, IsFiniteSet(S), NEW e, e \notin S, \A x \in S \cup {e} : F[x] \in Int
  PROVE  SumFunctionOnSet(F, S \cup {e}) = F[e] + SumFunctionOnSet(F, S)
<1>1. IsFiniteSet(S \cup {e}) /\ e \in S \cup {e} /\ (S \cup {e}) \ {e} = S
  BY FS_AddElement
<1> QED
  BY <1>1, SumRemove

(* A sum compares as its terms do; equal terms give equal sums.            *)
LEMMA SumLeq ==
  ASSUME NEW F, NEW G, NEW S, IsFiniteSet(S),
         \A x \in S : F[x] \in Int /\ G[x] \in Int /\ F[x] <= G[x]
  PROVE  SumFunctionOnSet(F, S) <= SumFunctionOnSet(G, S)
<1> DEFINE T == { s \in SUBSET S : SumFunctionOnSet(F, s) <= SumFunctionOnSet(G, s) }
<1>1. {} \in T
  BY SumEmpty
<1>2. ASSUME NEW s \in SUBSET S, NEW x \in S, s \in T, x \notin s
      PROVE  s \cup {x} \in T
  <2>1. IsFiniteSet(s)
    BY FS_Subset
  <2>2. /\ SumFunctionOnSet(F, s \cup {x}) = F[x] + SumFunctionOnSet(F, s)
        /\ SumFunctionOnSet(G, s \cup {x}) = G[x] + SumFunctionOnSet(G, s)
    BY <1>2, <2>1, SumAdd
  <2>3. SumFunctionOnSet(F, s) \in Int /\ SumFunctionOnSet(G, s) \in Int
    BY <2>1, SumInt
  <2> QED
    BY <1>2, <2>2, <2>3
<1> HIDE DEF T
<1>3. S \in T
  BY <1>1, <1>2, SubsetInduction
<1> QED
  BY <1>3 DEF T

LEMMA SumSame ==
  ASSUME NEW F, NEW G, NEW S, IsFiniteSet(S), \A x \in S : F[x] \in Int /\ F[x] = G[x]
  PROVE  SumFunctionOnSet(F, S) = SumFunctionOnSet(G, S)
<1>1. /\ SumFunctionOnSet(F, S) <= SumFunctionOnSet(G, S)
      /\ SumFunctionOnSet(G, S) <= SumFunctionOnSet(F, S)
  BY SumLeq
<1>2. SumFunctionOnSet(F, S) \in Int /\ SumFunctionOnSet(G, S) \in Int
  BY SumInt
<1> QED
  BY <1>1, <1>2

(* More terms, none negative, make a larger sum.                           *)
LEMMA SumMono ==
  ASSUME NEW F, NEW S, IsFiniteSet(S), NEW R \in SUBSET S, \A x \in S : F[x] \in Nat
  PROVE  SumFunctionOnSet(F, R) <= SumFunctionOnSet(F, S)
<1> DEFINE T == { s \in SUBSET (S \ R) : SumFunctionOnSet(F, R) <= SumFunctionOnSet(F, R \cup s) }
<1>0. IsFiniteSet(R) /\ IsFiniteSet(S \ R) /\ SumFunctionOnSet(F, R) \in Int
  BY FS_Subset, FS_Difference, SumInt
<1>1. {} \in T
  <2>1. R \cup {} = R
    OBVIOUS
  <2> QED
    BY <1>0, <2>1
<1>2. ASSUME NEW s \in SUBSET (S \ R), NEW x \in S \ R, s \in T, x \notin s
      PROVE  s \cup {x} \in T
  <2>1. /\ IsFiniteSet(R \cup s) /\ R \cup (s \cup {x}) = (R \cup s) \cup {x}
        /\ R \cup s \subseteq S /\ x \notin R \cup s
    BY <1>2, FS_Subset
  <2>2. SumFunctionOnSet(F, (R \cup s) \cup {x}) = F[x] + SumFunctionOnSet(F, R \cup s)
    BY <2>1, SumAdd
  <2>3. SumFunctionOnSet(F, R \cup s) \in Int
    BY <2>1, SumInt
  <2> QED
    BY <1>0, <1>2, <2>1, <2>2, <2>3
<1> HIDE DEF T
<1>3. S \ R \in T
  BY <1>0, <1>1, <1>2, SubsetInduction
<1>4. R \cup (S \ R) = S
  OBVIOUS
<1> QED
  BY <1>3, <1>4 DEF T

(* Two sets of terms that share none.                                      *)
LEMMA SumUnion ==
  ASSUME NEW F, NEW S, IsFiniteSet(S), NEW R, IsFiniteSet(R), S \cap R = {},
         \A x \in S \cup R : F[x] \in Int
  PROVE  SumFunctionOnSet(F, S \cup R) = SumFunctionOnSet(F, S) + SumFunctionOnSet(F, R)
<1> DEFINE Sum(s) == SumFunctionOnSet(F, s)
           T == { r \in SUBSET R : Sum(S \cup r) = Sum(S) + Sum(r) }
<1>0. Sum(S) \in Int
  BY SumInt
<1>1. {} \in T
  <2>1. S \cup {} = S
    OBVIOUS
  <2> QED
    BY <1>0, <2>1, SumEmpty
<1>2. ASSUME NEW r \in SUBSET R, NEW x \in R, r \in T, x \notin r
      PROVE  r \cup {x} \in T
  <2>1. /\ IsFiniteSet(r) /\ IsFiniteSet(S \cup r) /\ x \notin S \cup r
        /\ S \cup (r \cup {x}) = (S \cup r) \cup {x}
    BY <1>2, FS_Subset, FS_Union
  <2>2. Sum((S \cup r) \cup {x}) = F[x] + Sum(S \cup r)
    BY <2>1, SumAdd
  <2>3. Sum(r \cup {x}) = F[x] + Sum(r)
    BY <1>2, <2>1, SumAdd
  <2>4. PICK a \in Int : a = Sum(S)
    BY <1>0
  <2>5. PICK c \in Int : c = Sum(r)
    BY <2>1, SumInt
  <2>6. Sum(S \cup r) = a + c
    BY <1>2, <2>4, <2>5
  <2>7. F[x] + (a + c) = a + (F[x] + c)
    <3>1. F[x] \in Int
      OBVIOUS
    <3> QED
      BY <3>1
  <2>8. Sum(S \cup (r \cup {x})) = Sum(S) + Sum(r \cup {x})
    BY <2>1, <2>2, <2>3, <2>4, <2>5, <2>6, <2>7
  <2> QED
    BY <2>8
<1> HIDE DEF T
<1>3. R \in T
  BY <1>1, <1>2, SubsetInduction
<1> QED
  BY <1>3 DEF T

LEMMA SumNat ==
  ASSUME NEW F, NEW S, IsFiniteSet(S), \A x \in S : F[x] \in Nat
  PROVE  SumFunctionOnSet(F, S) \in Nat
<1>1. SumFunctionOnSet(F, {}) <= SumFunctionOnSet(F, S)
  BY SumMono
<1> QED
  BY <1>1, SumEmpty, SumInt

(* A sum is at most as many times its largest term as there are terms.     *)
LEMMA SumBounded ==
  ASSUME NEW F, NEW S, IsFiniteSet(S), NEW most \in Nat,
         \A x \in S : F[x] \in Int /\ F[x] <= most
  PROVE  SumFunctionOnSet(F, S) <= Cardinality(S) * most
<1> DEFINE T == { s \in SUBSET S : SumFunctionOnSet(F, s) <= Cardinality(s) * most }
<1>1. {} \in T
  BY SumEmpty, FS_EmptySet
<1>2. ASSUME NEW s \in SUBSET S, NEW x \in S, s \in T, x \notin s
      PROVE  s \cup {x} \in T
  <2>1. IsFiniteSet(s) /\ Cardinality(s) \in Nat
    BY FS_Subset, FS_CardinalityType
  <2>2. SumFunctionOnSet(F, s \cup {x}) = F[x] + SumFunctionOnSet(F, s)
    BY <1>2, <2>1, SumAdd
  <2>3. Cardinality(s \cup {x}) = Cardinality(s) + 1
    BY <1>2, <2>1, FS_AddElement
  <2>4. SumFunctionOnSet(F, s) \in Int
    BY <2>1, SumInt
  <2>5. \A n \in Nat : (n + 1) * most = n * most + most
    OBVIOUS
  <2>6. (Cardinality(s) + 1) * most = Cardinality(s) * most + most /\ Cardinality(s) * most \in Int
    BY <2>1, <2>5
  <2> QED
    BY <1>2, <2>2, <2>3, <2>4, <2>6
<1> HIDE DEF T
<1>3. S \in T
  BY <1>1, <1>2, SubsetInduction
<1> QED
  BY <1>3 DEF T
=============================================================================
